------------------------------ MODULE WriteOnce ------------------------------
(***************************************************************************)
(* What every static of the extension that is filled lazily promises: a    *)
(* key is unset until the first answer is stored under it, and the stored  *)
(* answer is never replaced for as long as the extension stays loaded.     *)
(* That promise makes repeated commands cheap; it is also why a wrong      *)
(* answer stays.                                                           *)
(***************************************************************************)
CONSTANTS
  Keys,    \* what can be asked for
  Values,  \* what can be answered
  Unset    \* the mark of a key nothing is stored under

VARIABLE store

Init == store = [k \in Keys |-> Unset]

(* One call may fill several keys, each of them only if it was unset. *)
Fill == /\ store' \in [Keys -> Values \cup {Unset}]
        /\ \A k \in Keys : store[k] # Unset => store'[k] = store[k]

Spec == Init /\ [][Fill]_store

==============================================================================
