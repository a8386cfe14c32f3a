--------------------------- MODULE MCTerminalInput ---------------------------
(***************************************************************************)
(* A short input buffer and a screen of two rows for TLC.  The requests: a *)
(* negative one, none, one character, less than a line, all of the buffer  *)
(* and more than it holds.                                                 *)
(***************************************************************************)
EXTENDS TerminalText

CONSTANTS x, y

MCLetters == {x, y}
MCRequests == {-1, 0, 1, 2, Size, Size + 2}
MCOutputs == {<< x, Newline, y >>}
MCPanics == {<< x, Newline, x, y >>}
=============================================================================
