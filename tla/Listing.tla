------------------------------ MODULE Listing ------------------------------
(***************************************************************************)
(* What a command that dumps a structure promises: it prints the lines of  *)
(* one listing in order, none of them twice, and reaches the end.  The     *)
(* target stands still meanwhile, so the listing is fixed when the command *)
(* starts.                                                                 *)
(***************************************************************************)
EXTENDS Naturals, Sequences

VARIABLES
  wanted,  \* the lines to print
  out      \* the lines printed

Init == out = <<>>

PrintLine == /\ Len(out) < Len(wanted)
          /\ out' = Append(out, wanted[Len(out) + 1])
          /\ wanted' = wanted

Steps == Init /\ [][PrintLine]_<<wanted, out>>

Spec == Steps /\ WF_out(PrintLine)

=============================================================================
