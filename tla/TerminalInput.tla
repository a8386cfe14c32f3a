---------------------------- MODULE TerminalInput ----------------------------
(***************************************************************************)
(* The input buffer of one terminal of the mp3 kernel: filled by the       *)
(* keyboard interrupt while the terminal is on display, polled and emptied *)
(* by terminal_read of the terminal's running program.                     *)
(*                                                                         *)
(* terminal_read polls with interrupts on.  Each turn of its loop reads    *)
(* chars_in_buffer, reads it again for the index, and reads the buffer; a  *)
(* key can arrive between any two of these, and between the loop's exit    *)
(* and cli_and_save.  The copy after it is one action.                     *)
(***************************************************************************)
EXTENDS Integers, Sequences

CONSTANTS
  Size,      (* TERMINAL_BUFFER_SIZE                           *)
  Letters,   (* characters other than newline                  *)
  Newline,
  Nul,       (* '\0'                                           *)
  Requests   (* values of num_bytes programs pass              *)

ASSUME TerminalInputAssumption ==
  /\ Size \in Nat \ {0, 1}
  /\ Requests \subseteq Int
  /\ Newline \notin Letters \cup {Nul}

VARIABLES
  buffer,           (* terminals[t].buffer                             *)
  chars_in_buffer,  (* terminals[t].chars_in_buffer                    *)
  before,           (* the byte in memory in front of the buffer       *)
  pc,               (* where terminal_read is                          *)
  num_bytes,        (* its argument, clamped                           *)
  index,            (* its index into buffer, -1 for the byte in front *)
  reply             (* what the last call copied to the program        *)

vars == << buffer, chars_in_buffer, before, pc, num_bytes, index, reply >>

Chars == Letters \cup {Newline, Nul}

TypeOK ==
  /\ buffer \in [0 .. Size - 1 -> Chars]
  /\ chars_in_buffer \in 0 .. Size
  /\ before \in {Newline, Nul}
  /\ pc \in {"idle", "count", "index", "look", "copy"}
  /\ num_bytes \in Int /\ num_bytes =< Size
  /\ index \in -1 .. Size - 1
  /\ reply \in Seq(Chars)

(***************************************************************************)
(* init_terminals.  buffer[-1], which terminal_read reads while nothing is *)
(* typed, is padding or another object's last byte: either value.          *)
(***************************************************************************)
Init ==
  /\ buffer = [i \in 0 .. Size - 1 |-> Nul]
  /\ chars_in_buffer = 0
  /\ before \in {Newline, Nul}
  /\ pc = "idle"
  /\ num_bytes = 0
  /\ index = -1
  /\ reply = << >>

-----------------------------------------------------------------------------
\* handle_keypress takes a character only if a newline still fits behind it.
HasRoom(c) ==
  \/ chars_in_buffer < Size - 1
  \/ c = Newline /\ chars_in_buffer < Size

\* handle_keypress, a character key or Enter.
KeyPress(c) ==
  /\ HasRoom(c)
  /\ buffer' = [buffer EXCEPT ![chars_in_buffer] = c]
  /\ chars_in_buffer' = chars_in_buffer + 1
  /\ UNCHANGED << before, pc, num_bytes, index, reply >>

\* Backspace returns at once when nothing is buffered.
Erasable == chars_in_buffer # 0

\* handle_keypress, backspace.
Backspace ==
  /\ Erasable
  /\ chars_in_buffer' = chars_in_buffer - 1
  /\ buffer' = [buffer EXCEPT ![chars_in_buffer - 1] = Nul]
  /\ UNCHANGED << before, pc, num_bytes, index, reply >>

-----------------------------------------------------------------------------
\* terminal_read is called with a valid descriptor and buffer.
ReadCall ==
  /\ pc = "idle"
  /\ \E n \in Requests : num_bytes' = IF n > Size THEN Size ELSE n
  /\ pc' = "count"
  /\ reply' = << >>
  /\ UNCHANGED << buffer, chars_in_buffer, before, index >>

\* while (chars_in_buffer < num_bytes)
PollCount ==
  /\ pc = "count"
  /\ pc' = IF chars_in_buffer < num_bytes THEN "index" ELSE "copy"
  /\ UNCHANGED << buffer, chars_in_buffer, before, num_bytes, index, reply >>

\* The index of the last character typed.
PollIndex ==
  /\ pc = "index"
  /\ index' = chars_in_buffer - 1
  /\ pc' = "look"
  /\ UNCHANGED << buffer, chars_in_buffer, before, num_bytes, reply >>

\* Seeded fault: the loop compares with the first character.
LastTyped_Fault == buffer[0]

LastTyped == IF index = -1 THEN before ELSE buffer[index]

\* if (buffer[chars_in_buffer - 1] == '\n') break;
PollLook ==
  /\ pc = "look"
  /\ pc' = IF LastTyped = Newline THEN "copy" ELSE "count"
  /\ UNCHANGED << buffer, chars_in_buffer, before, num_bytes, index, reply >>

\* Seeded fault: the rest of the buffer is moved one place too far.
Shifted_Fault(k) ==
  [i \in 0 .. Size - 1 |-> IF i + k + 1 < Size THEN buffer[i + k + 1] ELSE buffer[i]]

\* The buffer without its first k characters; the places behind keep theirs.
Shifted(k) == [i \in 0 .. Size - 1 |-> IF i + k < Size THEN buffer[i + k] ELSE buffer[i]]

\* The critical section.  num_bytes is compared as an unsigned number, so a
\* negative one asks for everything.
Copy ==
  LET retval == IF num_bytes \in 0 .. chars_in_buffer THEN num_bytes ELSE chars_in_buffer
  IN  /\ pc = "copy"
      /\ chars_in_buffer' = chars_in_buffer - retval
      /\ reply' = [i \in 1 .. retval |-> buffer[i - 1]]
      /\ buffer' = Shifted(retval)
      /\ pc' = "idle"
      /\ UNCHANGED << before, num_bytes, index >>

Poll == PollCount \/ PollIndex \/ PollLook \/ Copy

Next ==
  \/ \E c \in Letters \cup {Newline} : KeyPress(c)
  \/ Backspace
  \/ ReadCall
  \/ Poll

Spec == Init /\ [][Next]_vars

-----------------------------------------------------------------------------
(***************************************************************************)
(* Characters reach programs in order, each once, less those rubbed out,   *)
(* and the last place of the buffer is left to the end of a line           *)
(* (handle_keypress, terminal_read; module InputQueue).                    *)
(***************************************************************************)
Queue == [i \in 1 .. chars_in_buffer |-> buffer[i - 1]]

Line == INSTANCE InputQueue WITH queue <- Queue

ImplementsQueue == Line!Spec

\* A line is waiting.
LineTyped == chars_in_buffer # 0 /\ buffer[chars_in_buffer - 1] = Newline
=============================================================================
