----------------------------- MODULE MCMazeGame -----------------------------
(***************************************************************************)
(* A maze of two by two points for TLC, with blocks of four pixels.        *)
(***************************************************************************)
EXTENDS MazeGame
=============================================================================
