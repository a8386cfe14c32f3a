---------------------------- MODULE MCGameThreads ----------------------------
(***************************************************************************)
(* Games for TLC, with one arrow key and three ways to hold the buttons,   *)
(* one of which steers nowhere.                                            *)
(***************************************************************************)
EXTENDS GameThreads

MCHolds == {{}, {"A"}, {"left"}}
=============================================================================
