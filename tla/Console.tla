------------------------------ MODULE Console ------------------------------
(***************************************************************************)
(* What a command promises that puts its output together in a string and   *)
(* prints the string when it is done: nothing shows before, then all of    *)
(* the answer at once, and the prompt comes back.                          *)
(***************************************************************************)
CONSTANT Blank  \* nothing printed yet

VARIABLES
  running,  \* whether a command is running
  answer,   \* what the debugger has to show at its end
  screen    \* what it shows

console == <<running, answer, screen>>

Init == ~running /\ screen = Blank

Ask == ~running /\ running' /\ screen' = Blank

Show == /\ running /\ ~running'
        /\ screen' = answer
        /\ UNCHANGED answer

(* What a command may do, and that it comes to an end. *)
Steps == Init /\ [][Ask \/ Show]_console
Spec == Steps /\ []<>(~running)

============================================================================
