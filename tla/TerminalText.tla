----------------------------- MODULE TerminalText -----------------------------
(***************************************************************************)
(* The text screen of the terminal of module TerminalInput: the echo of    *)
(* the keys, what its programs write, and the blue screen of an exception. *)
(* Another terminal may be on display meanwhile; programs that draw into   *)
(* a page mapped by vidmap are left to module VirtualTerminals.            *)
(*                                                                         *)
(* A string is written with interrupts off: while there are characters of  *)
(* it left, nothing but writing the next one happens.                      *)
(***************************************************************************)
EXTENDS TerminalInput

CONSTANTS
  NUM_COLS,
  NUM_ROWS,
  Outputs,    (* strings that programs write   *)
  Panics      (* messages of the exceptions    *)

ASSUME TerminalTextAssumption ==
  /\ NUM_COLS \in Nat \ {0}
  /\ NUM_ROWS \in Nat \ {0}
  /\ Outputs \cup Panics \subseteq Seq(Letters \cup {Newline})

VARIABLES
  screen,      (* video_start's cells with pos_x and pos_y               *)
  on_display,  (* the terminal is active_terminal_index                  *)
  cursor,      (* the hardware's cursor                                  *)
  writing,     (* the characters terminal_write or printf has still left *)
  stopped      (* stop() was called                                      *)

text == << screen, on_display, cursor, writing, stopped >>

Places == 0 .. NUM_ROWS * NUM_COLS - 1

\* "blank" is a space, "blue" a space on the blue screen, "ink" anything a
\* program or the keyboard drew, "unset" what was in memory before.
Inks == {"blank", "blue", "ink", "unset"}

Place(s) == NUM_COLS * s.pos_y + s.pos_x

\* The cursor of a terminal that is not the displayed one.
Elsewhere == -1

TextTypeOK ==
  /\ screen \in [cells : [Places -> Inks], pos_x : 0 .. NUM_COLS - 1, pos_y : 0 .. NUM_ROWS - 1]
  /\ on_display \in BOOLEAN /\ stopped \in BOOLEAN
  /\ cursor \in Places \cup {Elsewhere}
  /\ writing \in Seq(Letters \cup {Newline})

Filled(ink) == [cells |-> [i \in Places |-> ink], pos_x |-> 0, pos_y |-> 0]

(***************************************************************************)
(* After init_terminals and, for terminal 0, clear(): the pages of the     *)
(* other two hold what was there before.                                   *)
(***************************************************************************)
TextInit ==
  /\ Init
  /\ \/ screen = Filled("blank") /\ on_display = TRUE /\ cursor = 0
     \/ screen = Filled("unset") /\ on_display = FALSE /\ cursor = Elsewhere
  /\ writing = << >>
  /\ stopped = FALSE

-----------------------------------------------------------------------------
\* The character is drawn, or the line ended.
Advanced(s, c) ==
  IF c # Newline /\ s.pos_x + 1 < NUM_COLS
    THEN [s EXCEPT !.cells[Place(s)] = "ink", !.pos_x = @ + 1]
  ELSE [cells |-> IF c = Newline THEN s.cells ELSE [s.cells EXCEPT ![Place(s)] = "ink"],
        pos_x |-> 0,
        pos_y |-> s.pos_y + 1]

\* Seeded fault: the last row is not cleared.
Scrolled_Fault(s) ==
  IF s.pos_y < NUM_ROWS THEN s
  ELSE [cells |-> [i \in Places |->
                     IF i + NUM_COLS \in Places THEN s.cells[i + NUM_COLS] ELSE s.cells[i]],
        pos_x |-> s.pos_x,
        pos_y |-> NUM_ROWS - 1]

\* Below the last row, the rows move up.
Scrolled(s) ==
  IF s.pos_y < NUM_ROWS THEN s
  ELSE [cells |-> [i \in Places |->
                     IF i + NUM_COLS \in Places THEN s.cells[i + NUM_COLS] ELSE "blank"],
        pos_x |-> s.pos_x,
        pos_y |-> NUM_ROWS - 1]

terminal_putc(s, c) == Scrolled(Advanced(s, c))

\* Backspace goes back over the end of a row, not over the corner.
Rubbed(s) ==
  LET back == IF s.pos_x = 0 THEN [s EXCEPT !.pos_y = @ - 1, !.pos_x = NUM_COLS - 1]
              ELSE [s EXCEPT !.pos_x = @ - 1]
  IN  IF s.pos_x = 0 /\ s.pos_y = 0 THEN s
      ELSE [back EXCEPT !.cells[Place(back)] = "blank"]

\* The terminal has a new screen, and the hardware the cursor of the terminal
\* on display.
Draw(s) ==
  /\ screen' = s
  /\ cursor' = IF on_display THEN Place(s) ELSE cursor

-----------------------------------------------------------------------------
\* Interrupts are on, and a program or a key may act.
Running == ~stopped /\ writing = << >>

\* handle_keypress of a character: echoed and stored, or ignored.
Typed(c) ==
  /\ Running /\ on_display
  /\ KeyPress(c)
  /\ Draw(terminal_putc(screen, c))
  /\ UNCHANGED << on_display, writing, stopped >>

\* handle_keypress of backspace.
Erased ==
  /\ Running /\ on_display
  /\ Backspace
  /\ Draw(Rubbed(screen))
  /\ UNCHANGED << on_display, writing, stopped >>

\* handle_keypress of Ctrl+L: clear_terminal.
Cleared ==
  /\ Running /\ on_display
  /\ Draw(Filled("blank"))
  /\ UNCHANGED << vars, on_display, writing, stopped >>

\* terminal_write of the running program.
terminal_write ==
  /\ Running /\ pc = "idle"
  /\ writing' \in Outputs
  /\ UNCHANGED << vars, screen, on_display, cursor, stopped >>

PutNext ==
  /\ writing # << >>
  /\ Draw(terminal_putc(screen, Head(writing)))
  /\ writing' = Tail(writing)
  /\ UNCHANGED << vars, on_display, stopped >>

\* A program is in terminal_read.
Reading(action) == Running /\ action /\ UNCHANGED text

\* switch_terminal, to another terminal and back.
switch_terminal ==
  /\ Running
  /\ on_display' = ~on_display
  /\ cursor' = IF on_display THEN Elsewhere ELSE Place(screen)
  /\ UNCHANGED << vars, screen, writing, stopped >>

\* blue_screen and printf, on the terminal on display.
Panicked ==
  IF on_display THEN Draw(Filled("blue")) /\ writing' \in Panics
  ELSE UNCHANGED << screen, cursor, writing >>

\* Every exception's handler, whatever program it is in, prints its message and
\* stops: interrupts stay off.
Exception ==
  /\ Running
  /\ Panicked
  /\ stopped' = TRUE
  /\ UNCHANGED << vars, on_display >>

TextNext ==
  \/ \E c \in Letters \cup {Newline} : Typed(c)
  \/ Erased
  \/ Cleared
  \/ terminal_write
  \/ PutNext
  \/ Reading(ReadCall)
  \/ Reading(Poll)
  \/ switch_terminal
  \/ Exception

TextSpec == TextInit /\ [][TextNext]_<< vars, text >>

\* The program inside terminal_read is scheduled again and again
\* (TerminalsServed of module KernelProperties), and terminal_write loops on
\* with interrupts off.
TextFairSpec ==
  /\ TextSpec
  /\ WF_<< vars, text >>(Reading(Poll))
  /\ WF_<< vars, text >>(PutNext)

-----------------------------------------------------------------------------
\* From the cursor on nothing has been drawn: whatever is echoed, written,
\* rubbed out, cleared or scrolled in turn, no character lands on another one
\* (terminal_putc, handle_keypress, clear_terminal, blue_screen).
NothingOverwritten == \A i \in Places : screen.cells[i] = "ink" => i < Place(screen)

\* The hardware's cursor is where the terminal on display draws next, and
\* programs of other terminals do not move it (move_cursor).
CursorFollows == cursor = IF on_display THEN Place(screen) ELSE Elsewhere

ScreenSound == TextTypeOK /\ NothingOverwritten /\ CursorFollows

(***************************************************************************)
(* A program in terminal_read gets its answer once the last character      *)
(* typed is, and stays, a newline, wherever the loop was when the keys     *)
(* came, provided that the user some day stops erasing: Enter and          *)
(* backspace in turn could slip between its two loads for ever; and        *)
(* provided that no exception stops the system.                            *)
(***************************************************************************)
ReadReturns ==
  <>[][~Backspace]_vars => []<>(pc = "idle" \/ ~LineTyped \/ stopped)
=============================================================================
