-------------------------------- MODULE MCTux --------------------------------
(***************************************************************************)
(* A controller of one LED and short rings for TLC, which is shown a digit *)
(* with its point.                                                         *)
(***************************************************************************)
EXTENDS Tux

MCPresses == {<<0, 0>>, <<1, 4>>}
MCShown == {<<[on |-> TRUE, digit |-> 3, point |-> TRUE]>>}
=============================================================================
