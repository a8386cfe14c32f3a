-------------------------- MODULE GameThreadsProofs --------------------------
(***************************************************************************)
(* Theorems about the threads of the maze game: for any number of levels,  *)
(* ticks, keys and buttons, a signal is never lost, the display is drawn   *)
(* on in mode X only, a game is over for one reason, and only arrow keys   *)
(* steer.                                                                  *)
(***************************************************************************)
EXTENDS GameThreads, TLAPS

-----------------------------------------------------------------------------
(* The keyboard.                                                           *)

KeyBytes == [value : {27, 91, 65}, arrow : {TRUE}, dir : Arrows]
            \cup [value : {65, 91, 96}, arrow : {FALSE}, dir : {0, DIR_STOP}]

\* The bytes of an arrow key that was begun follow each other to its end.
Follows(s, i, v, next) ==
    s[i].value = v /\ s[i].arrow = TRUE
        => /\ i + 1 \in 1..Len(s)
           /\ s[i + 1].value = next /\ s[i + 1].arrow = TRUE

Whole(s) == \A i \in 1..Len(s) : Follows(s, i, 27, 91) /\ Follows(s, i, 91, 65)

Next1(s, v) == s # <<>> /\ s[1].value = v /\ s[1].arrow = TRUE

\* state is how much of an arrow key was read, and the rest of it is there.
KeysInv ==
    /\ stdin \in Seq(KeyBytes)
    /\ Whole(stdin)
    /\ state \in 0..2
    /\ state = 1 => Next1(stdin, 91)
    /\ state = 2 => Next1(stdin, 65)
    /\ kbd \in {"steer", "set"} => state = 2

\* A byte read leaves the rest of the keys whole.
LEMMA TailWhole ==
    ASSUME NEW s \in Seq(KeyBytes), s # <<>>, Whole(s)
    PROVE  /\ Tail(s) \in Seq(KeyBytes) /\ Whole(Tail(s))
           /\ s[1].value = 27 => Next1(Tail(s), 91)
           /\ s[1].value = 91 /\ s[1].arrow = TRUE => Next1(Tail(s), 65)
<1>1. /\ Tail(s) \in Seq(KeyBytes) /\ Len(Tail(s)) = Len(s) - 1
      /\ Len(s) \in Nat \ {0}
      /\ \A i \in 1..Len(s) - 1 : Tail(s)[i] = s[i + 1]
  OBVIOUS
<1>2. Whole(Tail(s))
  <2> SUFFICES ASSUME NEW i \in 1..Len(Tail(s))
               PROVE  Follows(Tail(s), i, 27, 91) /\ Follows(Tail(s), i, 91, 65)
    BY DEF Whole
  <2>1. Follows(s, i + 1, 27, 91) /\ Follows(s, i + 1, 91, 65)
    BY <1>1 DEF Whole
  <2>2. Tail(s)[i] = s[i + 1]
    BY <1>1
  <2>3. i + 2 \in 1..Len(s) => i + 1 \in 1..Len(Tail(s)) /\ Tail(s)[i + 1] = s[i + 2]
    BY <1>1
  <2> QED
    BY <1>1, <2>1, <2>2, <2>3 DEF Follows
<1>3. Follows(s, 1, 27, 91) /\ Follows(s, 1, 91, 65) /\ s[1] \in KeyBytes
  BY <1>1 DEF Whole
<1>4. s[1].value = 27 => s[1].arrow = TRUE
  <2> DEFINE Begun == [value : {27, 91, 65}, arrow : {TRUE}, dir : Arrows]
             Single == [value : {65, 91, 96}, arrow : {FALSE}, dir : {0, DIR_STOP}]
  <2>1. \A b \in Single : b.value \in {65, 91, 96}
    OBVIOUS
  <2>2. \A b \in Begun : b.arrow \in {TRUE}
    OBVIOUS
  <2>3. s[1] \in Begun \cup Single
    BY <1>3 DEF KeyBytes
  <2> HIDE DEF Begun, Single
  <2>4. s[1].value = 27 => s[1] \notin Single
    BY <2>1
  <2> QED
    BY <2>2, <2>3, <2>4
<1>5. 2 \in 1..Len(s) => Tail(s) # <<>> /\ Tail(s)[1] = s[2]
  <2> HAVE 2 \in 1..Len(s)
  <2>1. 1 \in 1..Len(s) - 1 /\ Len(Tail(s)) # 0
    BY <1>1
  <2>2. Tail(s)[1] = s[2]
    BY <1>1, <2>1
  <2>3. Tail(s) # <<>>
    <3> SUFFICES ASSUME Tail(s) = <<>> PROVE FALSE
      OBVIOUS
    <3> QED
      BY <2>1
  <2> QED
    BY <2>2, <2>3
<1>6. s[1].value = 27 => Next1(Tail(s), 91)
  BY <1>3, <1>4, <1>5 DEF Follows, Next1
<1>7. s[1].value = 91 /\ s[1].arrow = TRUE => Next1(Tail(s), 65)
  BY <1>3, <1>5 DEF Follows, Next1
<1> QED
  BY <1>1, <1>2, <1>6, <1>7

\* A key typed is whole, and begins none of the keys before it.
LEMMA TypedWhole ==
    ASSUME NEW s \in Seq(KeyBytes), Whole(s),
           NEW key \in {ArrowKey(d) : d \in Arrows} \cup Letters \cup {Backquote}
    PROVE  /\ s \o key \in Seq(KeyBytes) /\ Whole(s \o key)
           /\ \A v : Next1(s, v) => Next1(s \o key, v)
<1>1. key \in Seq(KeyBytes) /\ Whole(key)
  <2>1. ASSUME NEW d \in Arrows, key = ArrowKey(d)
        PROVE  key \in Seq(KeyBytes) /\ Whole(key)
    <3>0. \A v \in {27, 91, 65} : Byte(v, TRUE, d) \in KeyBytes
      BY DEF KeyBytes, Byte
    <3>1. PICK a \in KeyBytes, b \in KeyBytes, c \in KeyBytes :
             key = <<a, b, c>>
      BY <2>1, <3>0 DEF ArrowKey
    <3>4. key \in Seq(KeyBytes) /\ Len(key) = 3
      BY <3>1
    <3>2. /\ key[1] = Byte(27, TRUE, d) /\ key[2] = Byte(91, TRUE, d)
          /\ key[3] = Byte(65, TRUE, d)
      BY <2>1 DEF ArrowKey
    <3> QED
      BY <3>4, <3>2 DEF Whole, Follows, Byte
  <2>2. CASE key \in Letters \cup {Backquote}
    <3>0. PICK byte \in KeyBytes : key = <<byte>> /\ byte.arrow = FALSE
      <4>1. /\ Byte(91, FALSE, DIR_STOP) \in KeyBytes
            /\ Byte(65, FALSE, 0) \in KeyBytes
            /\ Byte(96, FALSE, DIR_STOP) \in KeyBytes
        BY DEF KeyBytes, Byte
      <4>2. \A v, e : Byte(v, FALSE, e).arrow = FALSE
        BY DEF Byte
      <4> QED
        BY <2>2, <4>1, <4>2 DEF Letters, Backquote
    <3>1. /\ key \in Seq(KeyBytes) /\ Len(key) = 1
          /\ key[1].arrow = FALSE
      BY <3>0
    <3> QED
      BY <3>1 DEF Whole, Follows
  <2> QED
    BY <2>1, <2>2
<1>2. /\ s \o key \in Seq(KeyBytes)
      /\ Len(s) \in Nat /\ Len(key) \in Nat
      /\ Len(s \o key) = Len(s) + Len(key)
      /\ \A i \in 1..Len(s) : (s \o key)[i] = s[i]
      /\ \A i \in 1..Len(key) : (s \o key)[Len(s) + i] = key[i]
  BY <1>1
<1>3. Whole(s \o key)
  <2> SUFFICES ASSUME NEW i \in 1..Len(s \o key)
               PROVE  /\ Follows(s \o key, i, 27, 91)
                      /\ Follows(s \o key, i, 91, 65)
    BY DEF Whole
  <2>1. CASE i \in 1..Len(s)
    BY <1>2, <2>1 DEF Whole, Follows
  <2>2. CASE i \notin 1..Len(s)
    <3> DEFINE k == i - Len(s)
    <3>1. k \in 1..Len(key) /\ i = Len(s) + k
      BY <1>2, <2>2
    <3>2. Follows(key, k, 27, 91) /\ Follows(key, k, 91, 65)
      BY <1>1, <3>1 DEF Whole
    <3>3. (s \o key)[i] = key[k]
      BY <1>2, <3>1
    <3>4. k + 1 \in 1..Len(key) => /\ i + 1 \in 1..Len(s \o key)
                                   /\ (s \o key)[i + 1] = key[k + 1]
      BY <1>2, <3>1
    <3> QED
      BY <3>2, <3>3, <3>4 DEF Follows
  <2> QED
    BY <2>1, <2>2
<1>4. ASSUME NEW v, Next1(s, v)
      PROVE  Next1(s \o key, v)
  <2>1. 1 \in 1..Len(s) /\ s # <<>>
    BY <1>2, <1>4 DEF Next1
  <2> QED
    BY <1>2, <1>4, <2>1 DEF Next1
<1> QED
  BY <1>2, <1>3, <1>4
-----------------------------------------------------------------------------
(* The threads.                                                            *)

\* An arrow's direction is one of the four.
LEMMA KeyDirs == \A byte \in KeyBytes : byte.dir \in 0..DIR_STOP
<1> DEFINE Begun == [value : {27, 91, 65}, arrow : {TRUE}, dir : Arrows]
           Single == [value : {65, 91, 96}, arrow : {FALSE}, dir : {0, DIR_STOP}]
<1>1. \A b \in Single : b.dir \in {0, DIR_STOP}
  OBVIOUS
<1>2. \A b \in Begun : b.dir \in Arrows
  OBVIOUS
<1>3. KeyBytes = Begun \cup Single
  BY DEF KeyBytes
<1>4. Arrows \subseteq 0..DIR_STOP /\ {0, DIR_STOP} \subseteq 0..DIR_STOP
  BY ThreadsAssumption DEF DIR_STOP
<1> HIDE DEF Begun, Single
<1> QED
  BY <1>1, <1>2, <1>3, <1>4

\* Main starts the threads in mode X and leaves it when both have ended.
MainInv ==
    /\ main \in {"start", "mode", "failed"} =>
         rtc = "new" /\ kbd = "new" /\ tux = "new"
    /\ main \in {"create", "join"} => screen = "X"
    /\ main \in {"restore", "done"} => screen = "text" /\ Joined
    /\ main \notin {"start", "failed"} => o_nonblock
    /\ main = "done" => tio = "orig"

\* The thread of levels sets winner as it ends, and ends for a reason.
LevelInv ==
    /\ rtc = "new" => level = 1
    /\ rtc \notin {"new", "level", "end"} => level <= MAX_LEVEL
    /\ rtc \in {"poll", "press", "pressed", "signal", "signalled", "turn",
                 "move"} => ticks > 0
    /\ winner = 1 => rtc = "end" /\ level = MAX_LEVEL + 1
    /\ rtc = "end" => winner = 1 \/ quit_flag = 1

Inv ==
    /\ TypeOK /\ held \in Holds
    /\ NoLostSignal
    /\ KeysInv
    /\ MainInv
    /\ LevelInv

LEMMA InvInit == Init => Inv
<1> SUFFICES ASSUME Init
             PROVE  Inv
  OBVIOUS
<1>1. KeysInv
  BY DEF Init, KeysInv, Whole
<1>2. buttons \in Holds /\ held \in Holds
  BY ThreadsAssumption DEF Init
<1>3. TypeOK
  <2>1. buttons_pressed \in BOOLEAN
    BY DEF Init
  <2>2. /\ quit_flag \in 0..1 /\ winner \in 0..1 /\ state \in 0..2
        /\ level \in 1..MAX_LEVEL + 1 /\ ticks \in 0..MaxTicks
    BY ThreadsAssumption DEF Init
  <2> QED
    BY <1>2, <2>1, <2>2 DEF Init, TypeOK
<1> QED
  BY <1>1, <1>2, <1>3 DEF Init, Inv, NoLostSignal, MainInv, LevelInv

\* What the user does changes the keyboard's bytes and the buttons held.
LEMMA UserKeeps == Inv /\ (Type \/ Hold) => Inv'
<1> SUFFICES ASSUME Inv, Type \/ Hold
             PROVE  Inv'
  OBVIOUS
<1>1. /\ UNCHANGED <<quit_flag, winner, shared, clock, places, state, terminal, screen>>
      /\ held' \in Holds
  BY DEF Inv, Type, Hold
<1>2. KeysInv'
  <2>1. CASE UNCHANGED stdin
    BY <1>1, <2>1 DEF Inv, KeysInv, places
  <2>2. CASE Type
    <3>1. PICK key \in {ArrowKey(d) : d \in Arrows} \cup Letters \cup {Backquote} :
             stdin' = stdin \o key
      BY <2>2 DEF Type
    <3> QED
      BY <1>1, <3>1, TypedWhole DEF Inv, KeysInv, places
  <2> QED
    BY <2>1, <2>2 DEF Hold
<1> QED
  BY <1>1, <1>2
     DEF Inv, TypeOK, NoLostSignal, MainInv, LevelInv, Joined, shared, clock, places,
         terminal

\* The keyboard thread leaves the others where they are.
LEMMA KeyboardKeeps == Inv /\ KeyboardThread => Inv'
<1> SUFFICES ASSUME Inv, KeyboardThread
             PROVE  Inv'
  OBVIOUS
<1>1. KeysInv'
  <2>1. CASE KbdLoop
    BY <2>1 DEF KbdLoop, Inv, KeysInv, user
  <2>2. CASE Getc
    <3>1. CASE stdin = <<>>
      BY <2>2, <3>1 DEF Getc, Inv, KeysInv, Next1
    <3>2. CASE stdin # <<>> /\ Head(stdin).value = 65 /\ state = 2
      BY <2>2, <3>2 DEF Getc, Inv, KeysInv
    <3>3. CASE stdin # <<>> /\ ~(Head(stdin).value = 65 /\ state = 2)
      <4>1. /\ stdin' = Tail(stdin) /\ kbd' \in {"loop", "end"}
            /\ Head(stdin) = stdin[1]
            /\ \/ stdin[1].value = 96 /\ state' = state
               \/ state' = NextState(stdin[1].value)
        BY <2>2, <3>3 DEF Getc, Inv, KeysInv
      <4>2. state # 2
        BY <3>3, <4>1 DEF Inv, KeysInv, Next1
      <4>3. stdin[1].value = 96 => state = 0
        BY <4>2 DEF Inv, KeysInv, Next1
      <4>4. /\ Tail(stdin) \in Seq(KeyBytes) /\ Whole(Tail(stdin))
            /\ stdin[1].value = 27 => Next1(Tail(stdin), 91)
            /\ stdin[1].value = 91 /\ stdin[1].arrow = TRUE => Next1(Tail(stdin), 65)
        BY <3>3, TailWhole DEF Inv, KeysInv
      <4>5. state = 1 => stdin[1].value = 91 /\ stdin[1].arrow = TRUE
        BY DEF Inv, KeysInv, Next1
      <4>6. /\ state' \in 0..2
            /\ state' = 1 => stdin[1].value = 27
            /\ state' = 2 => stdin[1].value = 91 /\ state = 1
        BY <4>1, <4>2, <4>3 DEF NextState, Inv, KeysInv
      <4> QED
        BY <4>1, <4>4, <4>5, <4>6 DEF KeysInv
    <3> QED
      BY <3>1, <3>2, <3>3
  <2>3. CASE KbdLock
    BY <2>3 DEF KbdLock, Inv, KeysInv, user
  <2>4. CASE KbdSet
    <3>1. stdin # <<>> /\ stdin' = Tail(stdin) /\ state' = 0 /\ kbd' = "loop"
      BY <2>4 DEF KbdSet, NextState, Inv, KeysInv, Next1
    <3>2. Tail(stdin) \in Seq(KeyBytes) /\ Whole(Tail(stdin))
      BY <3>1, TailWhole DEF Inv, KeysInv
    <3> QED
      BY <3>1, <3>2 DEF KeysInv
  <2> QED
    BY <2>1, <2>2, <2>3, <2>4 DEF KeyboardThread
<1>2. /\ UNCHANGED <<winner, clock, rtc, tux, main, terminal, screen, buttons,
                     buttons_pressed, held>>
      /\ mtx' \in {mtx, "kbd", None}
      /\ quit_flag' \in {quit_flag, 1}
      /\ kbd' \in {"loop", "getc", "steer", "set", "end"}
      /\ kbd \notin {"new", "end"}
  BY DEF KeyboardThread, KbdLoop, Getc, KbdLock, KbdSet, shared, user
<1>3. next_dir' = next_dir \/ next_dir' \in 0..DIR_STOP
  <2>1. CASE KbdSet
    <3>1. stdin # <<>> /\ Head(stdin) = stdin[1] /\ stdin[1] \in KeyBytes
      BY <2>1 DEF KbdSet, Inv, KeysInv, Next1
    <3>2. stdin[1].dir \in 0..DIR_STOP
      BY <3>1, KeyDirs
    <3> QED
      BY <2>1, <3>1, <3>2 DEF KbdSet
  <2> QED
    BY <2>1 DEF KeyboardThread, KbdLoop, Getc, KbdLock, shared
<1>4. main \notin {"start", "mode", "failed", "restore", "done"}
  BY <1>2 DEF Inv, MainInv, Joined
<1>5. (MainInv /\ LevelInv /\ NoLostSignal)'
  BY <1>2, <1>4 DEF Inv, MainInv, LevelInv, NoLostSignal, Joined, clock, terminal, TypeOK
<1>6. TypeOK'
  BY <1>1, <1>2, <1>3 DEF Inv, TypeOK, KeysInv, clock, terminal
<1> QED
  BY <1>1, <1>2, <1>5, <1>6 DEF Inv

\* The thread of levels.
LEMMA RtcKeeps == Inv /\ RtcThread => Inv'
<1> SUFFICES ASSUME Inv, RtcThread
             PROVE  Inv'
  OBVIOUS
<1>0. /\ TypeOK /\ held \in Holds /\ LevelInv
      /\ MAX_LEVEL \in Nat \ {0} /\ MaxTicks \in Nat \ {0}
  BY ThreadsAssumption DEF Inv
<1>1. /\ UNCHANGED <<quit_flag, kbd, main, state, terminal, screen, user>>
      /\ rtc \notin {"new", "end"}
  BY DEF RtcThread, Level, StartLevel, Read, Poll, RtcLock, SetPressed, Signal,
         Turn, Frame, RtcOnly
<1>2. KeysInv'
  BY <1>1 DEF Inv, KeysInv, user
<1>3. MainInv'
  <2>1. main \in {"create", "join"} /\ screen = "X" /\ o_nonblock
    BY <1>1 DEF Inv, MainInv, Joined, TypeOK
  <2> QED
    BY <1>1, <2>1 DEF MainInv, terminal
<1>4. (TypeOK /\ NoLostSignal /\ LevelInv)'
  <2>1. CASE Level
    BY <1>0, <1>1, <2>1
       DEF Inv, Level, RtcOnly, clock, user, Outcome, terminal, TypeOK, NoLostSignal, LevelInv
  <2>2. CASE StartLevel
    BY <1>0, <1>1, <2>2
       DEF Inv, StartLevel, RtcOnly, clock, user, DIR_STOP, terminal, TypeOK, NoLostSignal, LevelInv
  <2>3. CASE Read
    BY <1>0, <1>1, <2>3
       DEF Inv, Read, RtcOnly, Ticks, terminal, TypeOK, NoLostSignal, LevelInv
  <2>4. CASE Poll
    BY <1>0, <1>1, <2>4
       DEF Inv, Poll, RtcOnly, clock, user, terminal, TypeOK, NoLostSignal, LevelInv
  <2>5. CASE RtcLock
    BY <1>0, <1>1, <2>5 DEF Inv, RtcLock, clock, terminal, TypeOK, NoLostSignal, LevelInv
  <2>6. CASE SetPressed
    BY <1>0, <1>1, <2>6 DEF Inv, SetPressed, clock, terminal, TypeOK, NoLostSignal, LevelInv
  <2>7. CASE Signal
    BY <1>0, <1>1, <2>7 DEF Inv, Signal, Woken, clock, terminal, TypeOK, NoLostSignal, LevelInv
  <2>8. CASE Turn
    BY <1>0, <1>1, <2>8 DEF Inv, Turn, Released, terminal, TypeOK, NoLostSignal, LevelInv
  <2>9. CASE Frame
    BY <1>0, <1>1, <2>9
       DEF Inv, Frame, RtcOnly, clock, user, terminal, TypeOK, NoLostSignal, LevelInv
  <2> QED
    BY <2>1, <2>2, <2>3, <2>4, <2>5, <2>6, <2>7, <2>8, <2>9 DEF RtcThread
<1> QED
  BY <1>0, <1>1, <1>2, <1>3, <1>4 DEF Inv, user

\* The Tux thread falls asleep only while nothing is pressed.
LEMMA TuxKeeps == Inv /\ (TuxThread \/ Spurious) => Inv'
<1> SUFFICES ASSUME Inv, TuxThread \/ Spurious
             PROVE  Inv'
  OBVIOUS
<1>1. /\ UNCHANGED <<quit_flag, winner, buttons, buttons_pressed, clock, rtc,
                     kbd, main, state, terminal, screen, user>>
      /\ tux # "new"
      /\ mtx' \in {mtx, None, "tux"}
      /\ tux' \in {"loop", "wait", "wake", "test", "end"} \cup Dirs
      /\ tux' = "wait" => ~buttons_pressed
      /\ next_dir' = next_dir \/ next_dir' \in 0..DIR_STOP
  BY DEF TuxThread, Spurious, TuxLoop, TuxWake, TuxTest, TuxButton, TuxOnly,
         Dirs, DirOf, NextTest, DIR_STOP
<1>2. KeysInv' /\ held' \in Holds
  BY <1>1 DEF Inv, KeysInv, user
<1>3. MainInv'
  BY <1>1 DEF Inv, MainInv, Joined, terminal
<1>4. (LevelInv /\ NoLostSignal)'
  BY <1>1 DEF Inv, LevelInv, NoLostSignal, clock
<1>5. TypeOK'
  BY <1>1 DEF Inv, TypeOK, clock, terminal
<1> QED
  BY <1>2, <1>3, <1>4, <1>5 DEF Inv

\* Main touches the terminal only before the threads and after them.
LEMMA MainKeeps == Inv /\ Main => Inv'
<1> SUFFICES ASSUME Inv, Main
             PROVE  Inv'
  OBVIOUS
<1>1. UNCHANGED <<quit_flag, winner, shared, clock, state, user>>
  BY DEF Main, Setup, EnterModeX, Create, Join, Restore, MainOnly
<1>2. /\ kbd' \in {kbd, "loop"} /\ (kbd' = kbd \/ kbd = "new")
      /\ rtc' = rtc \/ (rtc = "new" /\ rtc' = "level")
      /\ tux' \in {tux, "loop", "end"}
  BY DEF Main, Setup, EnterModeX, Create, Join, Restore, MainOnly
<1>3. KeysInv' /\ held' \in Holds
  BY <1>1, <1>2 DEF Inv, KeysInv, user
<1>4. (LevelInv /\ NoLostSignal)'
  BY <1>1, <1>2, ThreadsAssumption DEF Inv, LevelInv, NoLostSignal, clock, shared
<1>5. MainInv' /\ TypeOK'
  <2>1. CASE Setup
    BY <1>1, <2>1 DEF Setup, MainOnly, Inv, MainInv, TypeOK, shared, clock, terminal
  <2>2. CASE EnterModeX
    BY <1>1, <2>2 DEF EnterModeX, MainOnly, Inv, MainInv, TypeOK, shared, clock, terminal
  <2>3. CASE Create
    BY <1>1, <2>3 DEF Create, MainOnly, Inv, MainInv, TypeOK, shared, clock, terminal
  <2>4. CASE Join
    BY <1>1, <2>4 DEF Join, Joined, MainOnly, Inv, MainInv, TypeOK, shared, clock, terminal
  <2>5. CASE Restore
    BY <1>1, <2>5 DEF Restore, Joined, MainOnly, Inv, MainInv, TypeOK, shared, clock, terminal
  <2> QED
    BY <2>1, <2>2, <2>3, <2>4, <2>5 DEF Main
<1> QED
  BY <1>3, <1>4, <1>5 DEF Inv

LEMMA InvStep == Inv /\ [Next]_vars => Inv'
<1>1. Inv /\ UNCHANGED vars => Inv'
  BY DEF vars, shared, clock, places, terminal, user, Inv, TypeOK, NoLostSignal, KeysInv,
         MainInv, LevelInv, Joined
<1> QED
  BY <1>1, UserKeeps, KeyboardKeeps, RtcKeeps, TuxKeeps, MainKeeps DEF Next

LEMMA InvAlways == Spec => []Inv
BY InvInit, InvStep, PTL DEF Spec

\* In whatever order the mutex lets the threads run, no signal is lost, the
\* display is drawn on in mode X only, and a game is over for one reason.
THEOREM ThreadsSound == Spec => []ThreadsInv
<1>1. Inv => ThreadsInv
  BY DEF Inv, ThreadsInv, MainInv, LevelInv, DisplayKept, OutcomeSound,
         Joined, TypeOK
<1> QED
  BY <1>1, InvAlways, PTL

\* Whatever is typed, and however the threads fall between its bytes, only the
\* end of an arrow key steers.
THEOREM OnlyArrowsSteer == Spec => SteeredByArrows
<1>1. Inv => (kbd = "set" => Head(stdin).arrow)
  <2> SUFFICES ASSUME Inv, kbd = "set"
               PROVE  Head(stdin).arrow
    OBVIOUS
  <2>1. stdin # <<>> /\ stdin[1].arrow = TRUE /\ Head(stdin) = stdin[1]
    BY DEF Inv, KeysInv, Next1
  <2> QED
    BY <2>1, Zenon
<1>2. Inv /\ [Next]_vars => [kbd = "set" /\ kbd' = "loop" => Head(stdin).arrow]_vars
  BY <1>1
<1> QED
  BY <1>2, InvAlways, PTL DEF Spec, SteeredByArrows
=============================================================================
