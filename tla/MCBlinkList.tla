----------------------------- MODULE MCBlinkList -----------------------------
(***************************************************************************)
(* Two structures at most, on the screen or off it; a short COUNTDOWN,     *)
(* which a length of 0 sends round its range.                              *)
(***************************************************************************)
EXTENDS BlinkList

MCLengths == {0, 2}
=============================================================================
