------------------------------ MODULE Chains ------------------------------
(***************************************************************************)
(* Linked lists of the target, given as the sequence of their addresses,   *)
(* and what is left of them when links cannot be read.                     *)
(***************************************************************************)
EXTENDS Naturals, Sequences, FiniteSets

(* What the link of x holds. *)
NextIn(list, x) ==
  IF \E i \in 1..(Len(list) - 1) : list[i] = x
  THEN list[(CHOOSE i \in 1..(Len(list) - 1) : list[i] = x) + 1]
  ELSE 0

Distinct(list) == \A i, j \in DOMAIN list : list[i] = list[j] => i = j

(* The list up to the first address in stops, which it includes. *)
UpTo(list, stops) ==
  LET ends == {i \in DOMAIN list : list[i] \in stops}
  IN  IF ends = {} THEN list
      ELSE SubSeq(list, 1, CHOOSE i \in ends : \A j \in ends : i <= j)

(* The list from x on. *)
From(list, x) ==
  IF \E i \in DOMAIN list : list[i] = x
  THEN SubSeq(list, CHOOSE i \in DOMAIN list : list[i] = x, Len(list))
  ELSE <<>>

(* The members of a finite set of numbers, the lowest first.                 *)
Ascending(S) ==
  [k \in 1..Cardinality(S) |-> CHOOSE i \in S : Cardinality({h \in S : h < i}) = k - 1]

===========================================================================
