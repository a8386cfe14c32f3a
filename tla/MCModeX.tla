------------------------------ MODULE MCModeX ------------------------------
(***************************************************************************)
(* A window of four by two pixels on a picture of ten by six for TLC, with *)
(* blocks of two pixels.                                                   *)
(***************************************************************************)
EXTENDS ModeX

MCBlocks == {<<2, 2>>, <<6, 2>>}
MCPlayers == {<<4, 2>>}
=============================================================================
