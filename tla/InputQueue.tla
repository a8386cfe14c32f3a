------------------------------ MODULE InputQueue ------------------------------
(***************************************************************************)
(* What line input promises: characters typed at a terminal reach the      *)
(* programs reading from it in order, each once; a backspace takes back    *)
(* the last character that no program has read yet.                        *)
(***************************************************************************)
EXTENDS Integers, Sequences

CONSTANTS Size, Letters, Newline

VARIABLES
  queue,   (* typed and not read yet              *)
  reply    (* what the last read gave the program *)

vars == << queue, reply >>

Init == queue = << >> /\ reply = << >>

\* The last place is kept for the end of the line.
Type(c) ==
  /\ Len(queue) < IF c = Newline THEN Size ELSE Size - 1
  /\ queue' = Append(queue, c)
  /\ UNCHANGED reply

\* The last character is taken back.
Rub ==
  /\ queue # << >>
  /\ queue' = SubSeq(queue, 1, Len(queue) - 1)
  /\ UNCHANGED reply

\* A program calls read.
Ask == reply' = << >> /\ UNCHANGED queue

\* A program gets the first k characters.
Reply(k) ==
  /\ reply' = SubSeq(queue, 1, k)
  /\ queue' = SubSeq(queue, k + 1, Len(queue))

Next ==
  \/ \E c \in Letters \cup {Newline} : Type(c)
  \/ Rub
  \/ Ask
  \/ \E k \in 0 .. Len(queue) : Reply(k)

Spec == Init /\ [][Next]_vars
=============================================================================
