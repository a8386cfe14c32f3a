----------------------------- MODULE GameThreads -----------------------------
(***************************************************************************)
(* The threads of the maze game (mp2/mazegame.c): main starts a thread for *)
(* the clock, one for the keyboard and one for the Tux controller, and     *)
(* waits for the first two.  They share the direction to take next, the    *)
(* buttons and a condition variable under one mutex, and two flags that    *)
(* end the game, under none.                                               *)
(*                                                                         *)
(* Of the motion only its outcome is kept: a tick may win the level.       *)
(***************************************************************************)
EXTENDS Integers, Sequences

CONSTANTS MAX_LEVEL,    \* levels of the game
          Arrows,       \* directions of the arrow keys that are used
          Holds,        \* sets of buttons that are held at a time
          MaxTicks,     \* ticks one read may bring; more are cut (8)
          MaxKeys,      \* bound: keys typed
          MaxHolds,     \* bound: changes of the buttons
          None          \* no thread

ASSUME ThreadsAssumption ==
    /\ MAX_LEVEL \in Nat \ {0} /\ MaxTicks \in Nat \ {0}
    /\ MaxKeys \in Nat /\ MaxHolds \in Nat
    /\ Arrows \subseteq 0..3 /\ {} \in Holds

VARIABLES
    quit_flag, winner,     \* how the game ends
    next_dir,              \* 0 to 3, or DIR_STOP
    buttons,               \* the buttons last polled
    buttons_pressed,       \* the condition that cv is about
    mtx,                   \* the thread that holds the mutex
    level, ticks,          \* of the clock thread
    rtc, kbd, tux, main,   \* where the threads are
    state,                 \* of an arrow key's three bytes
    tio, o_nonblock,       \* the terminal's settings, and a flag of stdin
    screen,                \* the VGA mode
    stdin, held,           \* bytes typed; buttons held (the user)
    keys, holds            \* what the user has done (bounds)

shared == <<next_dir, buttons, buttons_pressed, mtx>>
clock  == <<level, ticks>>
places == <<rtc, kbd, tux, main>>
terminal == <<tio, o_nonblock>>
user   == <<stdin, held, keys, holds>>
vars   == <<quit_flag, winner, shared, clock, places, state, terminal,
            screen, user>>

DIR_STOP == 4
UP == 65        \* what next_dir begins with: the letter, not the direction
Dirs == {"right", "left", "down", "up"}
DirOf == [right |-> 1, left |-> 3, down |-> 2, up |-> 0]

\* A byte of an arrow key, or one typed by itself, and its meaning if it is
\* the third of an arrow key.
Byte(v, arrow, d) == [value |-> v, arrow |-> arrow, dir |-> d]
ArrowKey(d) == <<Byte(27, TRUE, d), Byte(91, TRUE, d), Byte(65, TRUE, d)>>
Letters == {<<Byte(91, FALSE, DIR_STOP)>>, <<Byte(65, FALSE, 0)>>}
Backquote == <<Byte(96, FALSE, DIR_STOP)>>

TypeOK ==
    /\ quit_flag \in 0..1 /\ winner \in 0..1
    /\ next_dir \in 0..DIR_STOP \/ rtc \in {"new", "level", "start", "end"}
    /\ buttons \in Holds
    /\ buttons_pressed \in BOOLEAN
    /\ mtx \in {None, "rtc", "kbd", "tux"}
    /\ level \in 1..MAX_LEVEL + 1 /\ ticks \in 0..MaxTicks
    /\ state \in 0..2
    /\ rtc \in {"new", "level", "start", "read", "poll", "press", "pressed",
                "signal", "signalled", "turn", "move", "frame", "end"}
    /\ kbd \in {"new", "loop", "getc", "steer", "set", "end"}
    /\ tux \in {"new", "loop", "wait", "wake", "test", "end"} \cup Dirs
    /\ main \in {"start", "mode", "create", "join", "restore", "done",
                 "failed"}
    /\ tio \in {"orig", "raw"} /\ o_nonblock \in BOOLEAN
    /\ screen \in {"text", "X"}

Init ==
    /\ quit_flag = 0 /\ winner = 0 /\ next_dir = UP
    /\ buttons = {} /\ buttons_pressed = FALSE /\ mtx = None
    /\ level = 1 /\ ticks = 0
    /\ rtc = "new" /\ kbd = "new" /\ tux = "new" /\ main = "start"
    /\ state = 0 /\ tio = "orig" /\ o_nonblock = FALSE /\ screen = "text"
    /\ stdin = <<>> /\ held = {} /\ keys = 0 /\ holds = 0

-----------------------------------------------------------------------------
(* The user.  The bytes of an arrow key come together; one that came in     *)
(* parts would be lost, as getc does not wait for the rest.                *)

Type ==
    /\ main \in {"create", "join"} /\ keys < MaxKeys /\ keys' = keys + 1
    /\ \E key \in {ArrowKey(d) : d \in Arrows} \cup Letters \cup {Backquote} :
         stdin' = stdin \o key
    /\ UNCHANGED <<quit_flag, winner, shared, clock, places, state, terminal,
                   screen, held, holds>>

Hold ==
    /\ main \in {"create", "join"} /\ holds < MaxHolds /\ holds' = holds + 1
    /\ \E h \in Holds \ {held} : held' = h
    /\ UNCHANGED <<quit_flag, winner, shared, clock, places, state, terminal,
                   screen, stdin, keys>>

-----------------------------------------------------------------------------
(* keyboard_thread().  *)

\* Seeded fault: a letter does not end a key that was begun.
NextState_Fault(v) == IF v = 27 THEN 1 ELSE IF v = 91 /\ state = 1 THEN 2
                      ELSE state

\* Arrow keys deliver 27, 91 and a letter.
NextState(v) == IF v = 27 THEN 1 ELSE IF v = 91 /\ state = 1 THEN 2 ELSE 0

KbdLoop ==
    /\ kbd = "loop" /\ kbd' = IF winner = 0 THEN "getc" ELSE "end"
    /\ UNCHANGED <<quit_flag, winner, shared, clock, rtc, tux, main, state,
                   terminal, screen, user>>

\* getc does not wait once O_NONBLOCK is set: without a byte it returns EOF,
\* which ends a key, too.
Getc ==
    /\ kbd = "getc" /\ (stdin # <<>> \/ o_nonblock)
    /\ IF stdin = <<>>
         THEN state' = 0 /\ kbd' = "loop" /\ UNCHANGED <<quit_flag, stdin>>
       ELSE IF Head(stdin).value = 65 /\ state = 2
         THEN kbd' = "steer" /\ UNCHANGED <<quit_flag, state, stdin>>
       ELSE /\ stdin' = Tail(stdin)
            /\ IF Head(stdin).value = 96
                 THEN quit_flag' = 1 /\ kbd' = "end" /\ UNCHANGED state
                 ELSE /\ state' = NextState(Head(stdin).value)
                      /\ kbd' = "loop" /\ UNCHANGED quit_flag
    /\ UNCHANGED <<winner, shared, clock, rtc, tux, main, terminal, screen,
                   held, keys, holds>>

KbdLock ==
    /\ kbd = "steer" /\ mtx = None /\ mtx' = "kbd" /\ kbd' = "set"
    /\ UNCHANGED <<quit_flag, winner, next_dir, buttons, buttons_pressed,
                   clock, rtc, tux, main, state, terminal, screen, user>>

KbdSet ==
    /\ kbd = "set" /\ kbd' = "loop" /\ mtx' = None
    /\ next_dir' = Head(stdin).dir /\ stdin' = Tail(stdin)
    /\ state' = NextState(65)
    /\ UNCHANGED <<quit_flag, winner, buttons, buttons_pressed, clock, rtc,
                   tux, main, terminal, screen, held, keys, holds>>

KeyboardThread == KbdLoop \/ Getc \/ KbdLock \/ KbdSet

-----------------------------------------------------------------------------
(* rtc_thread().  *)

\* What a step of the thread outside of the mutex leaves alone.
RtcOnly == UNCHANGED <<quit_flag, mtx, buttons_pressed, kbd, tux, main,
                       state, terminal, screen, user>>

Outcome == IF quit_flag = 0 THEN 1 ELSE winner

\* The loop over the levels.
Level ==
    /\ rtc = "level"
    /\ IF level <= MAX_LEVEL /\ quit_flag = 0
         THEN rtc' = "start" /\ UNCHANGED winner
         ELSE rtc' = "end" /\ winner' = Outcome
    /\ RtcOnly /\ UNCHANGED <<next_dir, buttons, clock>>

\* A new maze; the direction is set without the mutex.
StartLevel ==
    /\ rtc = "start" /\ rtc' = "read" /\ next_dir' = DIR_STOP
    /\ RtcOnly /\ UNCHANGED <<winner, buttons, clock>>

\* A clock that brings more ticks than the game keeps up with slows it down.
Ticks == 1..MaxTicks

\* Waiting for the clock.  The loop looks at quit_flag once a frame.
Read ==
    /\ rtc = "read"
    /\ IF quit_flag = 0
         THEN rtc' = "poll" /\ ticks' \in Ticks /\ UNCHANGED level
         ELSE rtc' = "level" /\ level' = level + 1 /\ UNCHANGED ticks
    /\ RtcOnly /\ UNCHANGED <<winner, next_dir, buttons>>

\* The Tux driver is polled into buttons, without the mutex.
Poll ==
    /\ rtc = "poll" /\ rtc' = "press" /\ buttons' = held
    /\ RtcOnly /\ UNCHANGED <<winner, next_dir, clock>>

\* The thread takes the mutex, three times in every tick.
RtcLock ==
    /\ mtx = None /\ mtx' = "rtc"
    /\ \/ rtc = "press" /\ rtc' = "pressed"
       \/ rtc = "signal" /\ rtc' = "signalled"
       \/ rtc = "turn" /\ rtc' = "move"
    /\ UNCHANGED <<quit_flag, winner, next_dir, buttons, buttons_pressed,
                   clock, kbd, tux, main, state, terminal, screen, user>>

SetPressed ==
    /\ rtc = "pressed" /\ rtc' = "signal" /\ mtx' = None
    /\ buttons_pressed' = (buttons # {})
    /\ UNCHANGED <<quit_flag, winner, next_dir, buttons, clock, kbd, tux,
                   main, state, terminal, screen, user>>

\* Seeded fault: the signal is sent if no button is pressed.
Woken_Fault == IF buttons_pressed \/ tux # "wait" THEN tux ELSE "wake"

\* The signal is sent if a button is pressed; who waits has to get the mutex.
Woken == IF buttons_pressed /\ tux = "wait" THEN "wake" ELSE tux

Signal ==
    /\ rtc = "signalled" /\ rtc' = "turn" /\ mtx' = None
    /\ tux' = Woken
    /\ UNCHANGED <<quit_flag, winner, next_dir, buttons, buttons_pressed,
                   clock, kbd, main, state, terminal, screen, user>>

\* Seeded fault: the level is won with the mutex held.
Released_Fault == "rtc"

Released == None

\* The player moves, or wins the level and leaves the ticks that are left.
Turn ==
    /\ rtc = "move"
    /\ \/ /\ rtc' = "frame" /\ mtx' = None /\ ticks' = ticks - 1
          /\ UNCHANGED level
       \/ /\ rtc' = "level" /\ mtx' = Released /\ level' = level + 1
          /\ ticks' = 0
    /\ UNCHANGED <<quit_flag, winner, next_dir, buttons, buttons_pressed,
                   kbd, tux, main, state, terminal, screen, user>>

\* There is another tick that was missed, or the frame is shown.
Frame ==
    /\ rtc = "frame" /\ rtc' = IF ticks > 0 THEN "poll" ELSE "read"
    /\ RtcOnly /\ UNCHANGED <<winner, next_dir, buttons, clock>>

RtcThread == \/ Level \/ StartLevel \/ Read \/ Poll \/ RtcLock \/ SetPressed
             \/ Signal \/ Turn \/ Frame

-----------------------------------------------------------------------------
(* tux_thread().  *)

TuxOnly == UNCHANGED <<quit_flag, winner, buttons, buttons_pressed, clock,
                       rtc, kbd, main, state, terminal, screen, user>>

\* The loop looks at winner and takes the mutex.
TuxLoop ==
    /\ tux = "loop"
    /\ IF winner = 1 THEN tux' = "end" /\ UNCHANGED mtx
       ELSE mtx = None /\ mtx' = "tux" /\ tux' = "test"
    /\ TuxOnly /\ UNCHANGED next_dir

\* Back from the wait, it takes the mutex without a look at winner.
TuxWake ==
    /\ tux = "wake" /\ mtx = None /\ mtx' = "tux" /\ tux' = "test"
    /\ TuxOnly /\ UNCHANGED next_dir

\* A wait may end without a signal.
Spurious ==
    /\ tux = "wait" /\ tux' = "wake"
    /\ TuxOnly /\ UNCHANGED <<next_dir, mtx>>

\* It waits on cv, which gives the mutex back, as long as nothing is pressed.
TuxTest ==
    /\ tux = "test"
    /\ IF buttons_pressed THEN tux' = "right" /\ UNCHANGED mtx
       ELSE tux' = "wait" /\ mtx' = None
    /\ TuxOnly /\ UNCHANGED next_dir

\* Seeded fault: the button to the left is not looked for.
NextTest_Fault ==
    [right |-> "down", left |-> "down", down |-> "up", up |-> "loop"]

NextTest == [right |-> "left", left |-> "down", down |-> "up", up |-> "loop"]

\* One button is looked for after the other, while rtc_thread may poll anew.
TuxButton ==
    /\ tux \in Dirs
    /\ IF tux \in buttons
         THEN next_dir' = DirOf[tux] /\ tux' = "loop" /\ mtx' = None
         ELSE /\ tux' = NextTest[tux]
              /\ mtx' = IF tux = "up" THEN None ELSE mtx
              /\ UNCHANGED next_dir
    /\ TuxOnly

TuxThread == TuxLoop \/ TuxWake \/ TuxTest \/ TuxButton

-----------------------------------------------------------------------------
(* main().  *)

MainOnly == UNCHANGED <<quit_flag, winner, shared, clock, state, user>>

\* fcntl() makes stdin not wait, then tcgetattr() and tcsetattr() make the
\* terminal raw. If one fails main() returns, with what was done before it.
Setup ==
    /\ main = "start"
    /\ \/ main' = "mode" /\ o_nonblock' = TRUE /\ tio' = "raw"
       \/ main' = "failed" /\ o_nonblock' \in BOOLEAN /\ UNCHANGED tio
    /\ MainOnly /\ UNCHANGED <<rtc, kbd, tux, screen>>

EnterModeX ==
    /\ main = "mode"
    /\ \/ main' = "create" /\ screen' = "X"
       \/ main' = "failed" /\ UNCHANGED screen
    /\ MainOnly /\ UNCHANGED <<rtc, kbd, tux, terminal>>

\* The threads are created one by one; the first may run before the last.
Create ==
    /\ main = "create"
    /\ IF rtc = "new" THEN rtc' = "level" /\ UNCHANGED <<kbd, tux, main>>
       ELSE IF kbd = "new" THEN kbd' = "loop" /\ UNCHANGED <<rtc, tux, main>>
       ELSE tux' = "loop" /\ main' = "join" /\ UNCHANGED <<rtc, kbd>>
    /\ MainOnly /\ UNCHANGED <<terminal, screen>>

Joined == rtc = "end" /\ kbd = "end"

\* The Tux thread is cancelled wherever it is, and the display given back.
Join ==
    /\ main = "join" /\ Joined /\ main' = "restore" /\ screen' = "text"
    /\ tux' = "end"
    /\ MainOnly /\ UNCHANGED <<rtc, kbd, terminal>>

\* tcsetattr() gives the settings back; O_NONBLOCK is not among them.
Restore ==
    /\ main = "restore" /\ main' = "done" /\ tio' = "orig"
    /\ MainOnly /\ UNCHANGED <<rtc, kbd, tux, o_nonblock, screen>>

Main == Setup \/ EnterModeX \/ Create \/ Join \/ Restore

Next == Type \/ Hold \/ KeyboardThread \/ RtcThread \/ TuxThread \/ Spurious
        \/ Main

Spec == Init /\ [][Next]_vars

\* Every thread is scheduled, and gets the mutex if it is free again and again.
FairSpec ==
    Spec /\ WF_vars(Main) /\ SF_vars(RtcThread) /\ SF_vars(KeyboardThread)
         /\ SF_vars(TuxThread)

-----------------------------------------------------------------------------
(* Properties.  *)

\* No wake-up is lost: the Tux thread sleeps on a pressed button only while
\* rtc_thread is on its way to the signal (mazegame.c:479 to 497, 616).
NoLostSignal ==
    tux = "wait" /\ buttons_pressed => rtc \in {"signal", "signalled"}

\* The keyboard thread takes a direction from an arrow key, never from letters
\* that look like the end of one (mazegame.c:350 to 375).
SteeredByArrows ==
    [][kbd = "set" /\ kbd' = "loop" => Head(stdin).arrow]_vars

\* The display is drawn on only while it is in mode X, and the keyboard thread
\* never waits for a key, so that it sees a game that is won. When the game is
\* over the display is back in text mode and the terminal has the settings
\* that tcgetattr() found (mazegame.c:680, 710 to 715); O_NONBLOCK is none of
\* them and stays set on stdin (mazegame.c:674).
DisplayKept ==
    /\ rtc \notin {"new", "end"} => screen = "X"
    /\ kbd \notin {"new", "end"} => o_nonblock
    /\ main = "done" => screen = "text" /\ tio = "orig"

\* The game is won after the last level only, and one that is over was won or
\* quit: the thread of levels and the key that quits agree (mazegame.c:594).
OutcomeSound ==
    /\ winner = 1 => level = MAX_LEVEL + 1
    /\ main = "done" => winner = 1 \/ quit_flag = 1

\* A game that is won or quit ends, whatever the threads wait for then
\* (mazegame.c:704 to 708).
GameEnds == (quit_flag = 1 \/ winner = 1) ~> main = "done"

\* A button that is held is taken, as long as the game goes on: the thread that
\* sleeps is woken and gets the mutex (mazegame.c:609 to 639).
ButtonsSteer ==
    \A b \in Dirs :
        held = {b} /\ tux # "new"
            ~> \/ next_dir = DirOf[b] \/ held # {b}
               \/ rtc = "end" \/ quit_flag = 1

\* Whatever order the mutex lets the threads run in: no signal is lost, the
\* display is drawn on in mode X only, and a game is over for one reason
\* (mazegame.c:479 to 724).
ThreadsInv == TypeOK /\ NoLostSignal /\ DisplayKept /\ OutcomeSound
=============================================================================
