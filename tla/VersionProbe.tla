---------------------------- MODULE VersionProbe ----------------------------
(***************************************************************************)
(* What finding out about the target promises, whatever steps it takes:    *)
(* nothing is known until everything is, what becomes known is true of the *)
(* image that is mapped at that moment, and it is never revised.           *)
(***************************************************************************)
CONSTANTS
  Files,    \* the images that can be mapped
  Nothing,  \* none is mapped; nothing is known
  FactsOf   \* FactsOf[f]: bitness and version of image f, Nothing if it has none

VARIABLES mapped, known

Init == mapped = Nothing /\ known = Nothing

Remap == mapped' \in Files \cup {Nothing} /\ known' = known

Learn == /\ known = Nothing /\ mapped # Nothing
         /\ known' = FactsOf[mapped]
         /\ mapped' = mapped

Next == Remap \/ Learn

Spec == Init /\ [][Next]_<<mapped, known>>

=============================================================================
