---------------------------- MODULE TerminalProofs ----------------------------
(***************************************************************************)
(* What is proved of a terminal.  Its input buffer is a queue, for every   *)
(* size, whatever is typed between two steps of terminal_read, and what    *)
(* is drawn stays before the cursor.  Mappings follow through every switch *)
(* the screen they were made for, and the video pages implement one screen *)
(* per terminal, for any number of slots, terminals and values.            *)
(***************************************************************************)
EXTENDS TerminalText, VirtualTerminals, SequenceTheorems, TLAPS

USE TerminalInputAssumption

\* Requests that terminal_read clamps never exceed the buffer.
LEMMA TypeInit == Init => TypeOK
BY DEF Init, TypeOK, Chars

\* A step keeps the types: handle_keypress stays inside the buffer, and the
\* copy takes no more than is there.
LEMMA TypeStep == TypeOK /\ [Next]_vars => TypeOK'
<1> SUFFICES ASSUME TypeOK, [Next]_vars
             PROVE  TypeOK'
  OBVIOUS
<1> USE DEF TypeOK, Chars
<1>1. CASE \E c \in Letters \cup {Newline} : KeyPress(c)
  BY <1>1 DEF KeyPress, HasRoom
<1>2. CASE Backspace
  BY <1>2 DEF Backspace, Erasable
<1>3. CASE ReadCall
  BY <1>3 DEF ReadCall
<1>4. CASE PollCount \/ PollIndex \/ PollLook
  BY <1>4 DEF PollCount, PollIndex, PollLook
<1>5. CASE Copy
  <2> DEFINE k == IF num_bytes \in 0 .. chars_in_buffer THEN num_bytes
                  ELSE chars_in_buffer
  <2>1. k \in 0 .. chars_in_buffer /\ k =< Size
    OBVIOUS
  <2>2. /\ chars_in_buffer' = chars_in_buffer - k
        /\ reply' = [i \in 1 .. k |-> buffer[i - 1]]
        /\ buffer' = Shifted(k)
        /\ pc' = "idle"
        /\ UNCHANGED << before, num_bytes, index >>
    BY <1>5 DEF Copy
  <2> HIDE DEF k
  <2>3. reply' \in Seq(Chars)
    BY <2>1, <2>2
  <2>4. buffer' \in [0 .. Size - 1 -> Chars]
    BY <2>1, <2>2 DEF Shifted
  <2> QED
    BY <2>1, <2>2, <2>3, <2>4
<1>6. CASE UNCHANGED vars
  BY <1>6 DEF vars
<1> QED
  BY <1>1, <1>2, <1>3, <1>4, <1>5, <1>6 DEF Next, Poll

\* The indices that handle_keypress and terminal_read use stay in the buffer.
THEOREM TypeCorrect == Spec => []TypeOK
<1> QED
  BY TypeInit, TypeStep, PTL DEF Spec

-----------------------------------------------------------------------------
\* The characters in the buffer, as a sequence.
LEMMA QueueIsSeq ==
  ASSUME TypeOK
  PROVE  /\ Queue \in Seq(Chars)
         /\ Len(Queue) = chars_in_buffer
         /\ \A i \in 1 .. chars_in_buffer : Queue[i] = buffer[i - 1]
BY DEF TypeOK, Queue

\* A key that is taken is a character typed into the queue.
LEMMA KeyPressTypes ==
  ASSUME TypeOK, TypeOK', NEW c \in Letters \cup {Newline}, KeyPress(c)
  PROVE  Line!Type(c)
<1>1. Len(Queue) < IF c = Newline THEN Size ELSE Size - 1
  BY QueueIsSeq DEF TypeOK, KeyPress, HasRoom
<1>2. Queue' = Append(Queue, c)
  <2>1. /\ Queue' \in Seq(Chars)
        /\ Len(Queue') = chars_in_buffer + 1
        /\ \A i \in 1 .. chars_in_buffer + 1 : Queue'[i] = buffer'[i - 1]
    BY DEF TypeOK, Queue, KeyPress
  <2>2. /\ Append(Queue, c) \in Seq(Chars)
        /\ Len(Append(Queue, c)) = chars_in_buffer + 1
    BY QueueIsSeq DEF Chars
  <2>3. \A i \in 1 .. chars_in_buffer + 1 : buffer'[i - 1] = Append(Queue, c)[i]
    BY QueueIsSeq DEF TypeOK, KeyPress, Chars
  <2> HIDE DEF Queue
  <2> QED
    BY <2>1, <2>2, <2>3, SeqEqual
<1> QED
  BY <1>1, <1>2 DEF KeyPress, Line!Type

\* A backspace takes back the last character.
LEMMA BackspaceRubs ==
  ASSUME TypeOK, TypeOK', Backspace
  PROVE  Line!Rub
<1>1. Queue # << >>
  BY QueueIsSeq DEF TypeOK, Backspace, Erasable
<1>2. Queue' = SubSeq(Queue, 1, Len(Queue) - 1)
  <2>1. Queue' = [i \in 1 .. chars_in_buffer - 1 |-> buffer'[i - 1]]
    BY DEF Queue, Backspace
  <2>2. \A i \in 1 .. chars_in_buffer - 1 : buffer'[i - 1] = Queue[i]
    <3> TAKE i \in 1 .. chars_in_buffer - 1
    <3>1. i - 1 \in 0 .. Size - 1 /\ i - 1 # chars_in_buffer - 1
      BY DEF TypeOK
    <3>2. buffer'[i - 1] = buffer[i - 1]
      BY <3>1 DEF TypeOK, Backspace
    <3>3. Queue[i] = buffer[i - 1]
      BY QueueIsSeq DEF TypeOK
    <3> QED
      BY <3>2, <3>3
  <2> QED
    BY <2>1, <2>2, QueueIsSeq DEF TypeOK
<1> QED
  BY <1>1, <1>2 DEF Backspace, Line!Rub

\* The critical section of terminal_read hands over the front of the queue.
LEMMA CopyReplies ==
  ASSUME TypeOK, TypeOK', Copy
  PROVE  \E k \in 0 .. Len(Queue) : Line!Reply(k)
<1> DEFINE k == IF num_bytes \in 0 .. chars_in_buffer THEN num_bytes
                ELSE chars_in_buffer
<1>1. k \in 0 .. chars_in_buffer /\ k =< Size /\ chars_in_buffer =< Size
  BY DEF TypeOK
<1>2. /\ chars_in_buffer' = chars_in_buffer - k
      /\ reply' = [i \in 1 .. k |-> buffer[i - 1]]
      /\ buffer' = Shifted(k)
  BY DEF Copy
<1> HIDE DEF k
<1>3. reply' = SubSeq(Queue, 1, k)
  BY <1>1, <1>2, QueueIsSeq DEF TypeOK
<1>4. Queue' = SubSeq(Queue, k + 1, Len(Queue))
  <2>1. Queue' = [i \in 1 .. chars_in_buffer - k |-> buffer'[i - 1]]
    BY <1>2 DEF Queue
  <2>2. \A i \in 1 .. chars_in_buffer - k : buffer'[i - 1] = Queue[i + k]
    <3> TAKE i \in 1 .. chars_in_buffer - k
    <3>1. i - 1 \in 0 .. Size - 1 /\ i - 1 + k < Size
      BY <1>1 DEF TypeOK
    <3>2. buffer'[i - 1] = buffer[i - 1 + k]
      BY <1>2, <3>1 DEF Shifted
    <3>3. Queue[i + k] = buffer[i + k - 1]
      BY <1>1, QueueIsSeq DEF TypeOK
    <3> QED
      BY <1>1, <3>2, <3>3 DEF TypeOK
  <2>3. SubSeq(Queue, k + 1, Len(Queue)) = [i \in 1 .. chars_in_buffer - k |-> Queue[i + k]]
    BY <1>1, QueueIsSeq DEF TypeOK
  <2> QED
    BY <2>1, <2>2, <2>3
<1>5. k \in 0 .. Len(Queue)
  BY <1>1, QueueIsSeq
<1> QED
  BY <1>3, <1>4, <1>5 DEF Line!Reply

\* terminal_read's loop is invisible: keys, backspaces and the copies are all
\* that happens to the queue, and each does what the queue promises.
THEOREM QueueImplemented == Spec => ImplementsQueue
<1>1. Init => Line!Init
  BY DEF Init, Line!Init, Queue
<1>2. ASSUME TypeOK, TypeOK', [Next]_vars
      PROVE  [Line!Next]_(Line!vars)
  <2>1. ASSUME NEW c \in Letters \cup {Newline}, KeyPress(c)
        PROVE  Line!Next
    BY <1>2, <2>1, KeyPressTypes DEF Line!Next
  <2>2. CASE Backspace
    BY <1>2, <2>2, BackspaceRubs DEF Line!Next
  <2>3. CASE ReadCall
    BY <2>3 DEF ReadCall, Line!Next, Line!Ask, Queue
  <2>4. CASE PollCount \/ PollIndex \/ PollLook \/ UNCHANGED vars
    BY <2>4 DEF PollCount, PollIndex, PollLook, vars, Line!vars, Queue
  <2>5. CASE Copy
    BY <1>2, <2>5, CopyReplies DEF Line!Next
  <2> QED
    BY <1>2, <2>1, <2>2, <2>3, <2>4, <2>5 DEF Next, Poll
<1> QED
  BY <1>1, <1>2, TypeCorrect, PTL DEF Spec, ImplementsQueue, Line!Spec

-----------------------------------------------------------------------------
(* The screen.                                                             *)

Screens == [cells : [Places -> Inks], pos_x : 0 .. NUM_COLS - 1, pos_y : 0 .. NUM_ROWS - 1]

\* Nothing is drawn from the cursor on.
Behind(s) == \A i \in Places : s.cells[i] = "ink" => i < Place(s)

\* Row and column of a place are inside the screen.
LEMMA PlaceInside ==
  ASSUME NEW x \in 0 .. NUM_COLS - 1, NEW y \in 0 .. NUM_ROWS - 1
  PROVE  NUM_COLS * y + x \in Places
<1>0. NUM_COLS \in Nat \ {0} /\ NUM_ROWS \in Nat \ {0}
  BY TerminalTextAssumption
<1>1. NUM_COLS * y =< NUM_COLS * (NUM_ROWS - 1)
  BY <1>0
<1>2. NUM_COLS * (NUM_ROWS - 1) = NUM_ROWS * NUM_COLS - NUM_COLS
  BY <1>0
<1>3. NUM_COLS * y \in Nat /\ NUM_ROWS * NUM_COLS \in Nat
  BY <1>0
<1> QED
  BY <1>0, <1>1, <1>2, <1>3 DEF Places

\* A cleared screen has nothing on it.
LEMMA FilledBehind ==
  ASSUME NEW ink \in Inks \ {"ink"}
  PROVE  Filled(ink) \in Screens /\ Behind(Filled(ink))
BY TerminalTextAssumption DEF Filled, Screens, Behind, Inks

\* A character drawn goes to the cursor, and the cursor beyond it; a row that
\* scrolls in is blank.
LEMMA PutBehind ==
  ASSUME NEW s \in Screens, Behind(s), NEW c
  PROVE  terminal_putc(s, c) \in Screens /\ Behind(terminal_putc(s, c))
<1>0. NUM_COLS \in Nat \ {0} /\ NUM_ROWS \in Nat \ {0}
  BY TerminalTextAssumption
<1>1. /\ s.cells \in [Places -> Inks]
      /\ s.pos_x \in 0 .. NUM_COLS - 1 /\ s.pos_y \in 0 .. NUM_ROWS - 1
      /\ s = [cells |-> s.cells, pos_x |-> s.pos_x, pos_y |-> s.pos_y]
  BY DEF Screens
<1>2. Place(s) \in Places /\ Place(s) = NUM_COLS * s.pos_y + s.pos_x
  BY <1>1, PlaceInside DEF Place
<1>3. NUM_COLS * s.pos_y \in Nat /\ NUM_COLS * (s.pos_y + 1) = NUM_COLS * s.pos_y + NUM_COLS
  BY <1>0, <1>1
<1> DEFINE t == Advanced(s, c)
           inked == IF c = Newline THEN s.cells ELSE [s.cells EXCEPT ![Place(s)] = "ink"]
<1>4. inked \in [Places -> Inks] /\ \A i \in Places : inked[i] = "ink" => i =< Place(s)
  <2>1. \A i \in Places : s.cells[i] = "ink" => i < Place(s)
    BY DEF Behind
  <2>2. Places \subseteq Int
    BY <1>0 DEF Places
  <2> QED
    BY <1>1, <1>2, <2>1, <2>2 DEF Inks
<1>5. CASE c # Newline /\ s.pos_x + 1 < NUM_COLS
  <2>1. t = [cells |-> inked, pos_x |-> s.pos_x + 1, pos_y |-> s.pos_y]
    BY <1>1, <1>5 DEF Advanced
  <2>2. terminal_putc(s, c) = t
    BY <1>0, <1>1, <2>1 DEF terminal_putc, Scrolled
  <2>3. Place(t) = Place(s) + 1
    BY <1>1, <1>2, <1>3, <2>1 DEF Place
  <2>4. Behind(t)
    BY <1>0, <1>2, <1>4, <2>1, <2>3 DEF Behind, Places
  <2> QED
    BY <1>0, <1>1, <1>4, <1>5, <2>1, <2>2, <2>4 DEF Screens
<1>6. CASE ~(c # Newline /\ s.pos_x + 1 < NUM_COLS)
  <2>1. t = [cells |-> inked, pos_x |-> 0, pos_y |-> s.pos_y + 1]
    BY <1>6 DEF Advanced
  <2>2. Place(t) = NUM_COLS * s.pos_y + NUM_COLS
    <3>1. Place(t) = NUM_COLS * (s.pos_y + 1) + 0
      BY <2>1 DEF Place
    <3> QED
      BY <1>0, <1>3, <3>1
  <2>3. \A i \in Places : inked[i] = "ink" => i < Place(t)
    BY <1>0, <1>1, <1>2, <1>3, <1>4, <2>2 DEF Places
  <2>4. CASE s.pos_y + 1 < NUM_ROWS
    <3>1. terminal_putc(s, c) = t
      BY <2>1, <2>4 DEF terminal_putc, Scrolled
    <3> QED
      BY <1>0, <1>1, <1>4, <2>1, <2>3, <2>4, <3>1 DEF Screens, Behind
  <2>5. CASE ~(s.pos_y + 1 < NUM_ROWS)
    <3>1. s.pos_y + 1 = NUM_ROWS
      BY <1>0, <1>1, <2>5
    <3> DEFINE rolled == [i \in Places |-> IF i + NUM_COLS \in Places
                                             THEN inked[i + NUM_COLS] ELSE "blank"]
               u == [cells |-> rolled, pos_x |-> 0, pos_y |-> NUM_ROWS - 1]
    <3>2. terminal_putc(s, c) = u
      <4>1. ~(t.pos_y < NUM_ROWS) /\ t.cells = inked /\ t.pos_x = 0
        BY <1>0, <2>1, <3>1
      <4> QED
        BY <4>1 DEF terminal_putc, Scrolled
    <3>3. rolled \in [Places -> Inks]
      BY <1>4 DEF Inks
    <3>4. Place(u) = NUM_COLS * (NUM_ROWS - 1)
      BY <1>0 DEF Place
    <3>5. Place(u) = NUM_COLS * s.pos_y
      BY <1>1, <3>1, <3>4
    <3>6. Behind(u)
      <4>1. ASSUME NEW i \in Places, rolled[i] = "ink"
            PROVE  i < Place(u)
        <5>1. i + NUM_COLS \in Places /\ inked[i + NUM_COLS] = "ink"
          BY <4>1
        <5>2. i + NUM_COLS < NUM_COLS * s.pos_y + NUM_COLS
          BY <2>2, <2>3, <5>1
        <5>3. i \in Int
          BY <1>0 DEF Places
        <5> QED
          BY <1>0, <1>3, <3>5, <5>2, <5>3
      <4> QED
        BY <4>1 DEF Behind
    <3> QED
      BY <1>0, <3>2, <3>3, <3>6 DEF Screens
  <2> QED
    BY <2>4, <2>5
<1> QED
  BY <1>5, <1>6

\* Backspace blanks the place it goes back to.
LEMMA RubBehind ==
  ASSUME NEW s \in Screens, Behind(s)
  PROVE  Rubbed(s) \in Screens /\ Behind(Rubbed(s))
<1>0. NUM_COLS \in Nat \ {0} /\ NUM_ROWS \in Nat \ {0}
  BY TerminalTextAssumption
<1>1. /\ s.cells \in [Places -> Inks]
      /\ s.pos_x \in 0 .. NUM_COLS - 1 /\ s.pos_y \in 0 .. NUM_ROWS - 1
      /\ s = [cells |-> s.cells, pos_x |-> s.pos_x, pos_y |-> s.pos_y]
  BY DEF Screens
<1>2. Place(s) \in Places /\ Places \subseteq Int
  BY <1>0, <1>1, PlaceInside DEF Place, Places
<1> DEFINE back == IF s.pos_x = 0 THEN [s EXCEPT !.pos_y = @ - 1, !.pos_x = NUM_COLS - 1]
                   ELSE [s EXCEPT !.pos_x = @ - 1]
           t == [back EXCEPT !.cells[Place(back)] = "blank"]
<1>3. CASE s.pos_x = 0 /\ s.pos_y = 0
  BY <1>3 DEF Rubbed
<1>4. CASE ~(s.pos_x = 0 /\ s.pos_y = 0)
  <2>1. Rubbed(s) = t
    BY <1>4 DEF Rubbed
  <2>2. /\ back \in Screens /\ back.cells = s.cells
        /\ Place(back) = Place(s) - 1
    <3>1. CASE s.pos_x = 0
      <4>1. back = [cells |-> s.cells, pos_x |-> NUM_COLS - 1, pos_y |-> s.pos_y - 1]
        BY <1>1, <3>1
      <4>2. NUM_COLS * (s.pos_y - 1) = NUM_COLS * s.pos_y - NUM_COLS
        BY <1>0, <1>1
      <4>3. Place(back) = NUM_COLS * (s.pos_y - 1) + (NUM_COLS - 1)
        BY <4>1 DEF Place
      <4>4. Place(s) = NUM_COLS * s.pos_y /\ NUM_COLS * s.pos_y \in Int
        BY <1>0, <1>1, <3>1 DEF Place
      <4> QED
        BY <1>0, <1>1, <1>4, <3>1, <4>1, <4>2, <4>3, <4>4 DEF Screens
    <3>2. CASE s.pos_x # 0
      <4>1. back = [cells |-> s.cells, pos_x |-> s.pos_x - 1, pos_y |-> s.pos_y]
        BY <1>1, <3>2
      <4>2. NUM_COLS * s.pos_y \in Int
        BY <1>0, <1>1
      <4> QED
        BY <1>0, <1>1, <3>2, <4>1, <4>2 DEF Screens, Place
    <3> QED
      BY <3>1, <3>2
  <2>3. Place(back) \in Places
    BY <1>0, <2>2, PlaceInside DEF Place, Screens
  <2> HIDE DEF back
  <2>4. t = [cells |-> [s.cells EXCEPT ![Place(back)] = "blank"],
             pos_x |-> back.pos_x, pos_y |-> back.pos_y]
    BY <2>2 DEF Screens
  <2>5. Place(t) = Place(back)
    BY <2>4 DEF Place
  <2>6. t \in Screens
    BY <1>1, <2>2, <2>4 DEF Screens, Inks
  <2>7. Behind(t)
    <3>1. \A i \in Places : s.cells[i] = "ink" => i < Place(s)
      BY DEF Behind
    <3> QED
      BY <1>1, <1>2, <2>2, <2>3, <2>4, <2>5, <3>1 DEF Behind
  <2> QED
    BY <2>1, <2>6, <2>7
<1> QED
  BY <1>3, <1>4

-----------------------------------------------------------------------------
LEMMA ScreenInit == TextInit => ScreenSound
<1>1. Filled("blank") \in Screens /\ Behind(Filled("blank"))
  BY FilledBehind DEF Inks
<1>2. Filled("unset") \in Screens /\ Behind(Filled("unset"))
  BY FilledBehind DEF Inks
<1>3. Place(Filled("blank")) = 0 /\ 0 \in Places
  <2>1. NUM_COLS \in Nat \ {0} /\ NUM_ROWS \in Nat \ {0}
    BY TerminalTextAssumption
  <2>2. Place(Filled("blank")) = NUM_COLS * 0 + 0 /\ NUM_COLS * 0 = 0
    BY <2>1 DEF Place, Filled
  <2>3. NUM_COLS * 0 + 0 \in Places
    BY <2>1, PlaceInside
  <2> QED
    BY <2>2, <2>3
<1>4. << >> \in Seq(Letters \cup {Newline})
  OBVIOUS
<1> QED
  BY <1>1, <1>2, <1>3, <1>4
     DEF TextInit, ScreenSound, TextTypeOK, Screens, Behind, NothingOverwritten, CursorFollows

\* A screen that is drawn takes the hardware's cursor with it, if it is on
\* display.
LEMMA DrawSound ==
  ASSUME ScreenSound, NEW s \in Screens, Behind(s), Draw(s),
         UNCHANGED on_display, stopped' \in BOOLEAN,
         writing' \in Seq(Letters \cup {Newline})
  PROVE  ScreenSound'
<1>1. Place(s) \in Places
  BY PlaceInside DEF Place, Screens
<1> QED
  BY <1>1 DEF Draw, ScreenSound, TextTypeOK, Screens, Behind, NothingOverwritten,
              CursorFollows

LEMMA ScreenStep == ScreenSound /\ [TextNext]_<< vars, text >> => ScreenSound'
<1> SUFFICES ASSUME ScreenSound, [TextNext]_<< vars, text >>
             PROVE  ScreenSound'
  OBVIOUS
<1>0. /\ screen \in Screens /\ Behind(screen)
      /\ stopped \in BOOLEAN /\ on_display \in BOOLEAN
      /\ writing \in Seq(Letters \cup {Newline})
  BY DEF ScreenSound, TextTypeOK, Screens, Behind, NothingOverwritten
<1>1. ASSUME NEW c \in Letters \cup {Newline}, Typed(c)
      PROVE  ScreenSound'
  BY <1>0, <1>1, PutBehind, DrawSound DEF Typed
<1>2. CASE Erased
  BY <1>0, <1>2, RubBehind, DrawSound DEF Erased
<1>3. CASE Cleared
  <2>1. Filled("blank") \in Screens /\ Behind(Filled("blank"))
    BY FilledBehind DEF Inks
  <2> QED
    BY <1>0, <1>3, <2>1, DrawSound DEF Cleared
<1>4. CASE terminal_write
  BY <1>4, TerminalTextAssumption
     DEF terminal_write, ScreenSound, TextTypeOK, NothingOverwritten, CursorFollows
<1>5. CASE PutNext
  <2>1. writing' \in Seq(Letters \cup {Newline})
    BY <1>0, <1>5 DEF PutNext
  <2> QED
    BY <1>0, <1>5, <2>1, PutBehind, DrawSound DEF PutNext
<1>6. CASE Reading(ReadCall) \/ Reading(Poll) \/ UNCHANGED << vars, text >>
  BY <1>6 DEF Reading, text, ScreenSound, TextTypeOK, NothingOverwritten, CursorFollows
<1>7. CASE switch_terminal
  <2>1. Place(screen) \in Places
    BY <1>0, PlaceInside DEF Place, Screens
  <2> QED
    BY <1>7, <2>1
       DEF switch_terminal, ScreenSound, TextTypeOK, NothingOverwritten, CursorFollows
<1>8. CASE Exception
  <2>1. CASE on_display
    <3>1. Filled("blue") \in Screens /\ Behind(Filled("blue"))
      BY FilledBehind DEF Inks
    <3>2. Draw(Filled("blue")) /\ writing' \in Seq(Letters \cup {Newline})
      BY <1>8, <2>1, TerminalTextAssumption DEF Exception, Panicked
    <3> QED
      BY <1>8, <3>1, <3>2, DrawSound DEF Exception
  <2>2. CASE ~on_display
    BY <1>8, <2>2
       DEF Exception, Panicked, ScreenSound, TextTypeOK, NothingOverwritten, CursorFollows
  <2> QED
    BY <2>1, <2>2
<1> QED
  BY <1>1, <1>2, <1>3, <1>4, <1>5, <1>6, <1>7, <1>8 DEF TextNext

\* On a screen of any size, no character ever lands on another one, the cursor
\* never leaves the screen, and the hardware's cursor is where it is.
THEOREM ScreenAlwaysSound == TextSpec => []ScreenSound
BY ScreenInit, ScreenStep, PTL DEF TextSpec

\* The screen takes nothing from the input: with it, the terminal is still the
\* queue of characters.
THEOREM TextInputQueue == TextSpec => Spec
<1>1. TextInit => Init
  BY DEF TextInit
<1>2. [TextNext]_<< vars, text >> => [Next]_vars
  BY DEF TextNext, Next, vars, text, Typed, Erased, Cleared, terminal_write, PutNext,
         Reading, switch_terminal, Exception
<1> QED
  BY <1>1, <1>2, PTL DEF TextSpec, Spec

-----------------------------------------------------------------------------
(* The video pages (module VirtualTerminals).                              *)

USE DEF Pids, Terminals, Nowhere, Video, NotPresent, storage_location, Pages

\* Types of the video pages, and the mappings' agreement with video_start.
MappingInv == VideoTypeOK /\ MappingsFollow

\* The page tables and video_start as init_terminals and initPaging leave them.
LEMMA InitMapping == VideoInit => MappingInv
  <1> SUFFICES ASSUME VideoInit PROVE MappingInv
    OBVIOUS
  <1>1. 0 \in Terminals
    BY VirtualTerminalsAssumption DEF VirtualTerminalsAssumption
  <1>2. VideoTypeOK
    BY <1>1 DEF VideoInit, VideoTypeOK
  <1>3. MappingsFollow
    BY <1>1 DEF VideoInit, MappingsFollow
  <1>4. QED
    BY <1>2, <1>3 DEF MappingInv

\* Drawing (terminal_putc, or through vidmap's pointer) moves no mapping.
LEMMA PutMapping ==
  ASSUME MappingInv, NEW v \in Values, NEW t \in Terminals, NEW p \in Pids,
         TerminalPut(t, v) \/ MappedPut(p, v)
  PROVE  MappingInv'
  <1>1. CASE TerminalPut(t, v)
    BY <1>1 DEF MappingInv, MappingsFollow, VideoTypeOK, TerminalPut, Target, Drawings
  <1>2. CASE MappedPut(p, v)
    BY <1>2 DEF MappingInv, MappingsFollow, VideoTypeOK, MappedPut, Drawings
  <1>3. QED
    BY <1>1, <1>2

\* vidmap maps the page that the terminal on display draws on.
LEMMA VidmapMapping ==
  ASSUME MappingInv, NEW p \in Pids, Vidmap(p)
  PROVE  MappingInv'
  BY DEF MappingInv, MappingsFollow, VideoTypeOK, Vidmap, VidmapPage

\* A slot may change hands with a stale entry: nobody holds a pointer to it.
LEMMA SlotMapping ==
  ASSUME MappingInv, NEW p \in Pids, NEW t \in Terminals, Start(p, t) \/ Halt(p)
  PROVE  MappingInv'
  <1>1. CASE Start(p, t)
    BY <1>1 DEF MappingInv, MappingsFollow, VideoTypeOK, Start
  <1>2. CASE Halt(p)
    BY <1>2 DEF MappingInv, MappingsFollow, VideoTypeOK, Halt
  <1>3. QED
    BY <1>1, <1>2

\* switch_terminal redirects the two terminals it exchanges and leaves the rest.
LEMMA SwitchMapping ==
  ASSUME MappingInv, NEW n \in Terminals, SwitchTerminal(n)
  PROVE  MappingInv'
  <1> DEFINE old == active_terminal_index
  <1>1. /\ n # old
        /\ old \in Terminals
        /\ video_start' = [video_start EXCEPT ![old] = old, ![n] = Video]
        /\ active_terminal_index' = n
        /\ vidmapped' = vidmapped
        /\ memory' = Exchanged(old, n)
        /\ page_table' = Remapped(old, n)
    BY DEF SwitchTerminal, Redirected, MappingInv, VideoTypeOK
  <1>2. /\ terminal_index' \in [Pids -> Terminals \cup {Nowhere}]
        /\ \A p \in Pids : terminal_index[p] # Nowhere => terminal_index'[p] = terminal_index[p]
    BY DEF SwitchTerminal, MappingInv, VideoTypeOK
  <1>3. /\ page_table' \in [Pids -> Pages \cup {NotPresent}]
        /\ \A p \in Pids :
             /\ page_table[p] = Video => page_table'[p] = old
             /\ page_table[p] = n => page_table'[p] = Video
             /\ page_table[p] \notin {Video, n} => page_table'[p] = page_table[p]
    BY <1>1 DEF Remapped, MappingInv, VideoTypeOK
  <1>4. memory' \in [Pages -> Drawings \cup {PowerOn, Blank}]
    BY <1>1 DEF Exchanged, MappingInv, VideoTypeOK
  <1>5. VideoTypeOK'
    BY <1>1, <1>2, <1>3, <1>4 DEF MappingInv, VideoTypeOK
  <1>6. \A t \in Terminals : video_start'[t] = IF t = n THEN Video ELSE t
    BY <1>1 DEF MappingInv, MappingsFollow, VideoTypeOK
  <1>7. ASSUME NEW p \in Pids, vidmapped'[p] # Nowhere
        PROVE  /\ terminal_index'[p] # Nowhere
               /\ page_table'[p] = video_start'[vidmapped'[p]]
    <2> DEFINE t == vidmapped[p]
    <2>1. /\ t \in Terminals
          /\ vidmapped'[p] = t
          /\ terminal_index'[p] # Nowhere
          /\ page_table[p] = IF t = old THEN Video ELSE t
      BY <1>1, <1>2, <1>7 DEF MappingInv, MappingsFollow, VideoTypeOK
    <2>2. page_table'[p] = IF t = n THEN Video ELSE t
      BY <2>1, <1>1, <1>3
    <2>3. QED
      BY <2>1, <2>2, <1>6
  <1>8. QED
    BY <1>1, <1>5, <1>6, <1>7 DEF MappingInv, MappingsFollow

\* Every step of terminal_write, vidmap, execute, halt and switch_terminal.
LEMMA NextMapping == MappingInv /\ [VideoNext]_videoVars => MappingInv'
  <1> SUFFICES ASSUME MappingInv, [VideoNext]_videoVars PROVE MappingInv'
    OBVIOUS
  <1>1. 0 \in Terminals /\ 1 \in Pids
    BY VirtualTerminalsAssumption DEF VirtualTerminalsAssumption
  <1>2. ASSUME NEW t \in Terminals, NEW v \in Values, TerminalPut(t, v) PROVE MappingInv'
    BY <1>1, <1>2, PutMapping
  <1>3. ASSUME NEW p \in Pids, NEW v \in Values, MappedPut(p, v) PROVE MappingInv'
    BY <1>1, <1>3, PutMapping
  <1>4. ASSUME NEW p \in Pids, Vidmap(p) PROVE MappingInv'
    BY <1>4, VidmapMapping
  <1>5. ASSUME NEW p \in Pids, Halt(p) PROVE MappingInv'
    BY <1>1, <1>5, SlotMapping
  <1>6. ASSUME NEW p \in Pids, NEW t \in Terminals, Start(p, t) PROVE MappingInv'
    BY <1>6, SlotMapping
  <1>7. ASSUME NEW n \in Terminals, SwitchTerminal(n) PROVE MappingInv'
    BY <1>7, SwitchMapping
  <1>8. CASE UNCHANGED videoVars
    BY <1>8 DEF videoVars, MappingInv, MappingsFollow, VideoTypeOK
  <1>9. QED
    BY <1>2, <1>3, <1>4, <1>5, <1>6, <1>7, <1>8 DEF VideoNext

\* After any interleaving of switches, vidmaps, starts and halts, every program
\* that called vidmap draws where the terminal draws that was on display then.
THEOREM MappingsSound == VideoSpec => []MappingsFollow
  <1>1. MappingInv => MappingsFollow
    BY DEF MappingInv
  <1> QED
    BY <1>1, InitMapping, NextMapping, PTL DEF VideoSpec

-----------------------------------------------------------------------------
screens == [t \in Terminals |-> memory[video_start[t]]]

\* The initial pages are initial screens.
LEMMA InitScreens == VideoInit => AllScreens!Init
  <1> SUFFICES ASSUME VideoInit PROVE AllScreens!Init
    OBVIOUS
  <1>1. 0 \in Terminals
    BY VirtualTerminalsAssumption DEF VirtualTerminalsAssumption
  <1>2. QED
    BY <1>1 DEF VideoInit, AllScreens!Init, AllScreens!Terminals, Lent

\* With the mappings sound, the page of the terminal on display is the monitor.
LEMMA MonitorIsDisplay ==
  ASSUME MappingInv
  PROVE  memory[Video] = screens[active_terminal_index]
  BY DEF MappingInv, VideoTypeOK, MappingsFollow, screens

\* A store to the page of one terminal changes one screen.
LEMMA StoreDraws ==
  ASSUME MappingInv, NEW t \in Terminals, NEW d,
         memory' = [memory EXCEPT ![video_start[t]] = d],
         UNCHANGED video_start
  PROVE  screens' = [screens EXCEPT ![t] = d]
  <1>1. ASSUME NEW u \in Terminals
        PROVE  memory'[video_start'[u]] = IF u = t THEN d ELSE memory[video_start[u]]
    <2>1. video_start[u] \in Pages /\ video_start[t] \in Pages
      BY DEF MappingInv, VideoTypeOK
    <2>2. u # t => video_start[u] # video_start[t]
      BY DEF MappingInv, MappingsFollow
    <2>3. QED
      BY <2>1, <2>2 DEF MappingInv, VideoTypeOK
  <1>2. QED
    BY <1>1 DEF screens

\* Each step of the kernel draws on one screen, shows one, or changes none.
LEMMA StepScreens ==
  ASSUME MappingInv, MappingInv', [VideoNext]_videoVars
  PROVE  [AllScreens!Next]_(AllScreens!vars)
  <1> USE DEF AllScreens!Terminals, AllScreens!vars
  <1>0. ASSUME NEW s \in Terminals, Lent' \subseteq Lent \cup {<< s, active_terminal_index >>},
               UNCHANGED << memory, video_start, active_terminal_index >>
        PROVE  AllScreens!Next
    <2>1. AllScreens!Lend(s)
      BY <1>0 DEF AllScreens!Lend
    <2>2. QED
      BY <2>1, MonitorIsDisplay, <1>0 DEF AllScreens!Next, screens
  <1>1. memory'[Video] = screens'[active_terminal_index']
    BY MonitorIsDisplay DEF MappingInv, VideoTypeOK, MappingsFollow, screens
  <1>2. ASSUME NEW t \in Terminals, NEW v \in Values, TerminalPut(t, v)
        PROVE  AllScreens!Next
    <2>1. screens' = [screens EXCEPT ![t] = << t, v >>]
      BY <1>2, StoreDraws DEF TerminalPut, Target
    <2>2. active_terminal_index' = active_terminal_index /\ Lent' = Lent
      BY <1>2 DEF TerminalPut, Lent
    <2>3. AllScreens!Draw(t, t, v)
      BY <2>1, <2>2 DEF AllScreens!Draw, screens
    <2>4. QED
      BY <2>3, <1>1 DEF AllScreens!Next, screens
  <1>3. ASSUME NEW p \in Pids, NEW v \in Values, MappedPut(p, v)
        PROVE  AllScreens!Next
    <2> DEFINE t == terminal_index[p]
               s == vidmapped[p]
    <2>1. /\ t \in Terminals /\ s \in Terminals
          /\ page_table[p] = video_start[s]
          /\ << t, s >> \in Lent
      BY <1>3 DEF MappedPut, MappingInv, VideoTypeOK, MappingsFollow, Lent
    <2>2. screens' = [screens EXCEPT ![s] = << t, v >>]
      BY <1>3, <2>1, StoreDraws DEF MappedPut
    <2>3. active_terminal_index' = active_terminal_index /\ Lent' = Lent
      BY <1>3 DEF MappedPut, Lent
    <2>4. AllScreens!Draw(t, s, v)
      BY <2>1, <2>2, <2>3 DEF AllScreens!Draw, screens
    <2>5. QED
      BY <2>1, <2>4, <1>1 DEF AllScreens!Next, screens
  <1>4. ASSUME NEW n \in Terminals, SwitchTerminal(n)
        PROVE  AllScreens!Next
    <2> DEFINE old == active_terminal_index
    <2>1. /\ old \in Terminals /\ n # old
          /\ memory' = Exchanged(old, n)
          /\ video_start' = [video_start EXCEPT ![old] = old, ![n] = Video]
          /\ active_terminal_index' = n
      BY <1>4 DEF SwitchTerminal, Redirected, MappingInv, VideoTypeOK
    <2>2. /\ video_start[old] = Video
          /\ \A t \in Terminals \ {old} : video_start[t] = t
          /\ memory'[Video] = memory[n]
          /\ memory'[old] = memory[Video]
          /\ \A t \in Terminals \ {old} : memory'[t] = memory[t]
      BY <2>1 DEF MappingInv, VideoTypeOK, MappingsFollow, Exchanged
    <2>3. \A t \in Terminals : memory'[video_start'[t]] = memory[video_start[t]]
      <3> TAKE t \in Terminals
      <3>1. CASE t = n
        BY <3>1, <2>1, <2>2 DEF MappingInv, VideoTypeOK
      <3>2. CASE t = old
        BY <3>2, <2>1, <2>2 DEF MappingInv, VideoTypeOK
      <3>3. CASE t \notin {n, old}
        BY <3>3, <2>1, <2>2 DEF MappingInv, VideoTypeOK
      <3>4. QED
        BY <3>1, <3>2, <3>3
    <2>4. screens' = screens
      BY <2>3 DEF screens
    <2>5. Lent' = Lent
      <3>1. /\ vidmapped' = vidmapped
            /\ \A p \in Pids : terminal_index[p] # Nowhere => terminal_index'[p] = terminal_index[p]
        BY <1>4 DEF SwitchTerminal, MappingInv, VideoTypeOK
      <3>2. \A p \in Pids : vidmapped[p] # Nowhere => terminal_index[p] # Nowhere
        BY DEF MappingInv, MappingsFollow
      <3>3. QED
        BY <3>1, <3>2 DEF Lent
    <2>6. AllScreens!Show(n)
      BY <2>1, <2>4, <2>5 DEF AllScreens!Show, screens
    <2>7. QED
      BY <2>6, <1>1 DEF AllScreens!Next, screens
  <1>5. ASSUME NEW p \in Pids, Vidmap(p)
        PROVE  AllScreens!Next
    <2>1. terminal_index[p] \in Terminals
      BY <1>5 DEF Vidmap, MappingInv, VideoTypeOK
    <2>2. \A q \in Pids : vidmapped'[q] = IF q = p THEN active_terminal_index ELSE vidmapped[q]
      BY <1>5 DEF Vidmap, MappingInv, VideoTypeOK
    <2>3. UNCHANGED << memory, video_start, active_terminal_index, terminal_index >>
      BY <1>5 DEF Vidmap
    <2>4. Lent' \subseteq Lent \cup {<< terminal_index[p], active_terminal_index >>}
      BY <2>2, <2>3 DEF Lent
    <2>5. QED
      BY <1>0, <2>1, <2>3, <2>4
  <1>6. ASSUME NEW p \in Pids, NEW t \in Terminals, Halt(p) \/ Start(p, t)
        PROVE  AllScreens!Next
    <2>1. \A q \in Pids : vidmapped'[q] \in {vidmapped[q], Nowhere}
      BY <1>6 DEF Halt, Start, MappingInv, VideoTypeOK
    <2>2. \A q \in Pids : vidmapped'[q] # Nowhere => terminal_index'[q] = terminal_index[q]
      BY <1>6 DEF Halt, Start, MappingInv, MappingsFollow, VideoTypeOK
    <2>3. UNCHANGED << memory, video_start, active_terminal_index >>
      BY <1>6 DEF Halt, Start
    <2>4. Lent' \subseteq Lent \cup {<< t, active_terminal_index >>}
      BY <2>1, <2>2 DEF Lent
    <2>5. QED
      BY <1>0, <2>3, <2>4
  <1>7. CASE UNCHANGED videoVars
    BY <1>7 DEF videoVars, Lent
  <1>8. 0 \in Terminals
    BY VirtualTerminalsAssumption DEF VirtualTerminalsAssumption
  <1>9. QED
    BY <1>2, <1>3, <1>4, <1>5, <1>6, <1>7, <1>8 DEF VideoNext

\* The kernel's video pages give every terminal a screen of its own.
THEOREM ScreensImplemented == VideoSpec => ImplementsScreens
  <1>1. MappingInv /\ MappingInv' /\ [VideoNext]_videoVars => [AllScreens!Next]_(AllScreens!vars)
    BY StepScreens
  <1> QED
    BY <1>1, InitMapping, InitScreens, NextMapping, PTL
       DEF VideoSpec, ImplementsScreens, AllScreens!Spec
===============================================================================
