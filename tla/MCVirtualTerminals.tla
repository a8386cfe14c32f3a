------------------------- MODULE MCVirtualTerminals -------------------------
(***************************************************************************)
(* Three terminals and a few slots for TLC.  Which of the two values a     *)
(* program draws makes no difference, only whether they differ.            *)
(***************************************************************************)
EXTENDS VirtualTerminals, TLC

CONSTANTS a, b

MCValues == {a, b}
MCSymmetry == Permutations(MCValues)
=============================================================================
