------------------------------ MODULE FileProofs ------------------------------
(***************************************************************************)
(* What is proved of the kernel's files: the table of descriptors of a     *)
(* process, for any number of entries, files and calls; the copy of file   *)
(* data, for blocks of any size and every file, offset and length; and the *)
(* directory with load_program, for names of any length.                   *)
(***************************************************************************)
EXTENDS FileDescriptors, ReadData, FileImage, FiniteSetTheorems, TLAPS

USE FileDescriptorsAssumption DEF Fds, UserFds

\* What file_open and rtc_open, close and init_file_array write.
LEMMA Written ==
  /\ \A f \in Files, fd \in UserFds : Entry(f) \in Entries /\ EntryOk(fd, Entry(f))
  /\ blank \in Entries /\ \A fd \in UserFds : EntryOk(fd, blank)
  /\ terminal \in Entries /\ \A fd \in {0, 1} : EntryOk(fd, terminal)
BY DEF Files, Entry, Entries, EntryOk, Ops, Rates, blank, terminal

\* While a program runs, stdin and stdout are open, and its other entries
\* have functions of their own kind.
EntriesInv ==
  /\ TypeOK
  /\ EntriesOk
  /\ running => \A fd \in {0, 1} : file_array[fd] = terminal

\* Changing one entry of a usable array into a usable one keeps the invariant.
LEMMA OneEntry ==
  ASSUME EntriesInv, running, running',
         NEW fd \in UserFds, NEW e \in Entries, EntryOk(fd, e),
         file_array' = [file_array EXCEPT ![fd] = e],
         held' \subseteq UserFds, delivered' \in [Fds -> Nat]
  PROVE  EntriesInv'
<1>1. \A other \in Fds : file_array'[other] = IF other = fd THEN e ELSE file_array[other]
  BY DEF EntriesInv, TypeOK
<1>2. TypeOK'
  BY DEF EntriesInv, TypeOK
<1>3. EntriesOk'
  BY <1>1 DEF EntriesInv, EntriesOk
<1> QED
  BY <1>1, <1>2, <1>3 DEF EntriesInv

\* The array halt leaves is init_file_array's.
LEMMA HaltCleans ==
  ASSUME EntriesInv, running
  PROVE  AllClosed = InitialArray
BY DEF EntriesInv, AllClosed, InitialArray

LEMMA InvInit == Init => EntriesInv
<1> SUFFICES ASSUME Init
             PROVE  EntriesInv
  OBVIOUS
<1> DEFINE e == [blank EXCEPT !.flags = "FILE_OCCUP"]
<1>1. e \in Entries
  BY Written DEF Entries
<1>2. file_array = [fd \in Fds |-> e] /\ running = FALSE /\ held = {}
      /\ delivered = [fd \in Fds |-> 0]
  BY DEF Init
<1> HIDE DEF e
<1>3. file_array \in [Fds -> Entries]
  BY <1>1, <1>2
<1>4. TypeOK
  BY <1>2, <1>3 DEF TypeOK
<1> QED
  BY <1>2, <1>4 DEF EntriesInv, EntriesOk

LEMMA InvStep == EntriesInv /\ [Next]_vars => EntriesInv'
<1> SUFFICES ASSUME EntriesInv, [Next]_vars
             PROVE  EntriesInv'
  OBVIOUS
<1>0. TypeOK
  BY DEF EntriesInv
<1>1. ASSUME file_array' = InitialArray, running' \in BOOLEAN, held' = {},
             UNCHANGED delivered
      PROVE  EntriesInv'
  <2>1. file_array' \in [Fds -> Entries]
    BY <1>1, Written DEF InitialArray
  <2>2. \A fd \in Fds : EntryOk(fd, file_array'[fd])
    BY <1>1, Written DEF InitialArray
  <2>3. \A fd \in {0, 1} : file_array'[fd] = terminal
    BY <1>1 DEF InitialArray
  <2> QED
    BY <1>0, <1>1, <2>1, <2>2, <2>3 DEF EntriesInv, TypeOK, EntriesOk
<1>2. CASE Start
  BY <1>1, <1>2 DEF Start
<1>3. ASSUME NEW f \in Regular \cup {Directory}, OpenFile(f)
      PROVE  EntriesInv'
  <2>1. PICK fd \in UserFds :
          /\ file_array' = [file_array EXCEPT ![fd] = Entry(f)]
          /\ held' = held \cup {fd}
          /\ delivered' = [delivered EXCEPT ![fd] = 0]
          /\ running /\ running'
    BY <1>3 DEF OpenFile, Lowest
  <2>2. Entry(f) \in Entries /\ EntryOk(fd, Entry(f))
    BY Written DEF Files
  <2>3. held' \subseteq UserFds /\ delivered' \in [Fds -> Nat]
    BY <1>0, <2>1 DEF TypeOK
  <2> QED
    BY <2>1, <2>2, <2>3, OneEntry
<1>4. CASE OpenClock
  <2>1. PICK fd \in UserFds :
          LET once == [file_array EXCEPT ![fd] = Entry(Clock)] IN
          \/ \E second \in Fds :
               /\ Lowest(once, second)
               /\ file_array' = [once EXCEPT ![second] = Entry(Clock)]
               /\ held' = held \cup {second}
          \/ file_array' = once /\ held' = held
    BY <1>4 DEF OpenClock, Lowest
  <2>2. running /\ running' /\ delivered' = delivered
    BY <1>4 DEF OpenClock
  <2>3. /\ file_array' \in [Fds -> Entries]
        /\ \A other \in Fds : \/ file_array'[other] = file_array[other]
                              \/ other \in UserFds /\ file_array'[other] = Entry(Clock)
        /\ held' \subseteq UserFds
    <3>1. Entry(Clock) \in Entries
      BY Written DEF Files
    <3> DEFINE once == [file_array EXCEPT ![fd] = Entry(Clock)]
    <3>2. /\ once \in [Fds -> Entries]
          /\ \A other \in Fds : \/ once[other] = file_array[other]
                                \/ other \in UserFds /\ once[other] = Entry(Clock)
      BY <1>0, <3>1 DEF TypeOK
    <3>3. CASE file_array' = once /\ held' = held
      BY <1>0, <3>2, <3>3 DEF TypeOK
    <3>4. ASSUME NEW second \in UserFds,
                 file_array' = [once EXCEPT ![second] = Entry(Clock)],
                 held' = held \cup {second}
          PROVE  <2>3
      <4> HIDE DEF once
      <4> QED
        BY <1>0, <3>1, <3>2, <3>4 DEF TypeOK
    <3> QED
      BY <2>1, <3>3, <3>4 DEF Lowest
  <2>4. \A other \in Fds : EntryOk(other, file_array'[other])
    BY <2>2, <2>3, Written DEF EntriesInv, EntriesOk, Files
  <2> QED
    BY <1>0, <2>2, <2>3, <2>4 DEF EntriesInv, TypeOK, EntriesOk
<1>5. ASSUME NEW fd \in Fds, Close(fd)
      PROVE  EntriesInv'
  BY <1>0, <1>5, Written, OneEntry DEF Close, TypeOK
<1>6. ASSUME NEW fd \in Fds, NEW n \in Requests, FileRead(fd, n)
      PROVE  EntriesInv'
  <2>1. PICK got \in BytesRead(file_array[fd].inode_num, file_array[fd].file_position, n) :
          /\ file_array' = [file_array EXCEPT ![fd].file_position = @ + got]
          /\ delivered' = [delivered EXCEPT ![fd] = IF got > 0 THEN @ + got ELSE @]
    BY <1>6 DEF FileRead, Moved
  <2> DEFINE e == [file_array[fd] EXCEPT !.file_position = @ + got]
  <2>2. /\ running /\ running' /\ held' = held
        /\ file_array[fd].file_ops_table_ptr = "file_ops"
        /\ file_array[fd].flags = "FILE_OCCUP"
    BY <1>0, <1>6 DEF FileRead, read, Avail, TypeOK, Entries
  <2>3. EntryOk(fd, file_array[fd])
    BY <2>2 DEF EntriesInv, EntriesOk
  <2>4. /\ fd \in UserFds
        /\ file_array[fd].inode_num \in Regular
        /\ FileLength[file_array[fd].inode_num] \in Nat
        /\ file_array[fd].file_position \in Int
        /\ n \in Nat
    BY <1>0, <2>2, <2>3 DEF EntryOk, TypeOK, Entries
  <2>5. got \in Int
    BY <2>4 DEF BytesRead
  <2>6. e \in Entries
    <3>1. file_array[fd] \in Entries /\ file_array[fd].file_position + got \in Int
      BY <1>0, <2>4, <2>5 DEF TypeOK
    <3> QED
      BY <3>1 DEF Entries
  <2>7. EntryOk(fd, e)
    BY <1>0, <2>2, <2>3, <2>4, <2>5 DEF EntryOk, BytesRead, TypeOK, Entries
  <2>8. delivered' \in [Fds -> Nat]
    BY <1>0, <2>1, <2>5 DEF TypeOK
  <2>9. file_array' = [file_array EXCEPT ![fd] = e]
    BY <2>1
  <2> QED
    BY <1>0, <2>2, <2>4, <2>6, <2>7, <2>8, <2>9, OneEntry DEF TypeOK
<1>7. ASSUME NEW fd \in Fds, DirectoryRead(fd)
      PROVE  EntriesInv'
  <2> DEFINE e == [file_array[fd] EXCEPT !.file_position = @ + 1]
  <2>1. EntryOk(fd, file_array[fd]) /\ file_array[fd] \in Entries
    BY <1>0, <1>7 DEF DirectoryRead, read, EntriesInv, EntriesOk, TypeOK
  <2>2. fd \in UserFds /\ e \in Entries /\ EntryOk(fd, e)
    BY <1>7, <2>1 DEF DirectoryRead, read, EntryOk, Avail, Entries
  <2>3. file_array' = [file_array EXCEPT ![fd] = e]
    BY <1>7 DEF DirectoryRead
  <2> QED
    BY <1>0, <1>7, <2>2, <2>3, OneEntry DEF DirectoryRead, TypeOK
<1>8. ASSUME NEW fd \in Fds, NEW freq \in Requests, RtcWrite(fd, freq)
      PROVE  EntriesInv'
  <2> DEFINE e == [file_array[fd] EXCEPT !.file_position = freq]
  <2>1. EntryOk(fd, file_array[fd]) /\ file_array[fd] \in Entries
    BY <1>0, <1>8 DEF RtcWrite, write, EntriesInv, EntriesOk, TypeOK
  <2>2. fd \in UserFds /\ e \in Entries /\ EntryOk(fd, e)
    BY <1>8, <2>1 DEF RtcWrite, write, EntryOk, Avail, Entries
  <2>3. file_array' = [file_array EXCEPT ![fd] = e]
    BY <1>8 DEF RtcWrite
  <2> QED
    BY <1>0, <1>8, <2>2, <2>3, OneEntry DEF RtcWrite, TypeOK
<1>9. CASE HaltChild \/ HaltRoot
  BY <1>1, <1>9, HaltCleans DEF HaltChild, HaltRoot
<1>10. CASE UNCHANGED vars
  BY <1>10 DEF vars, EntriesInv, TypeOK, EntriesOk
<1> QED
  BY <1>2, <1>3, <1>4, <1>5, <1>6, <1>7, <1>8, <1>9, <1>10 DEF Next

LEMMA InvAlways == Spec => []EntriesInv
BY InvInit, InvStep, PTL DEF Spec

\* No call is ever dispatched through a free entry or to functions of another
\* kind of file, and rtc_read never divides by 0.
THEOREM EntriesUsable == Spec => []EntriesOk
<1>1. EntriesInv => EntriesOk
  BY DEF EntriesInv
<1> QED
  BY <1>1, InvAlways, PTL

\* halt's loop of close does for a root shell what init_file_array does for a
\* program that is executed.
THEOREM StartsClean == Spec => CleanStart
<1>1. EntriesInv /\ [Next]_vars => [Start \/ HaltRoot => file_array' = InitialArray]_vars
  BY HaltCleans DEF Start, HaltRoot
<1> QED
  BY <1>1, InvAlways, PTL DEF Spec, CleanStart

-----------------------------------------------------------------------------
\* What the program was told of is open.
HeldInv ==
  /\ EntriesInv
  /\ \A fd \in held : ~Avail(file_array, fd)

\* What HeldKept says of a step.
HeldStep ==
  /\ \A fd \in Kept :
       file_array'[fd] = [file_array[fd] EXCEPT
                            !.file_position = file_array'[fd].file_position]
  /\ \A fd, other \in Kept :
       file_array'[fd] # file_array[fd] /\ file_array'[other] # file_array[other]
         => fd = other
  /\ \A fd \in Kept : file_array'[fd] # file_array[fd] => held' = held

\* The descriptors held before and after a step are left alone by it.
LEMMA LeftAlone ==
  ASSUME EntriesInv, \A fd \in Kept : file_array'[fd] = file_array[fd]
  PROVE  HeldStep
<1>1. ASSUME NEW fd \in Kept
      PROVE  file_array[fd] =
               [file_array[fd] EXCEPT !.file_position = file_array[fd].file_position]
  <2>1. file_array[fd] \in Entries
    BY DEF Kept, EntriesInv, TypeOK
  <2> QED
    BY <2>1 DEF Entries
<1> QED
  BY <1>1 DEF HeldStep

\* The position of one entry moves, and nothing else.
LEMMA OneMoves ==
  ASSUME EntriesInv, held' = held, NEW fd \in Fds, NEW pos,
         file_array' = [file_array EXCEPT ![fd].file_position = pos]
  PROVE  HeldStep
<1>1. \A other \in Fds :
        file_array'[other] = IF other = fd THEN [file_array[fd] EXCEPT !.file_position = pos]
                                           ELSE file_array[other]
  BY DEF EntriesInv, TypeOK
<1>2. \A other \in Fds :
        file_array'[other] = [file_array[other] EXCEPT
                                !.file_position = file_array'[other].file_position]
  <2> TAKE other \in Fds
  <2>1. file_array[other] \in Entries
    BY DEF EntriesInv, TypeOK
  <2> QED
    BY <1>1, <2>1 DEF Entries
<1>3. Kept \subseteq Fds
  BY DEF Kept, EntriesInv, TypeOK
<1> QED
  BY <1>1, <1>2, <1>3 DEF HeldStep

\* A free entry is no one's, so that taking it leaves those held alone.
LEMMA StepKeeps == HeldInv /\ Next => HeldStep /\ HeldInv'
<1> SUFFICES ASSUME HeldInv, Next
             PROVE  HeldStep /\ HeldInv'
  OBVIOUS
<1>0. /\ EntriesInv /\ EntriesInv'
      /\ file_array \in [Fds -> Entries]
      /\ held \subseteq UserFds
  BY InvStep DEF HeldInv, EntriesInv, TypeOK
<1>1. CASE held' = {}
  BY <1>0, <1>1, LeftAlone DEF Kept, HeldInv
<1>2. ASSUME NEW f \in Regular \cup {Directory}, OpenFile(f)
      PROVE  HeldStep /\ HeldInv'
  <2>1. PICK fd \in UserFds :
          /\ Avail(file_array, fd)
          /\ file_array' = [file_array EXCEPT ![fd] = Entry(f)]
          /\ held' = held \cup {fd}
    BY <1>2 DEF OpenFile, Lowest
  <2>2. fd \notin held
    BY <2>1 DEF HeldInv
  <2>3. \A other \in Fds :
          file_array'[other] = IF other = fd THEN Entry(f) ELSE file_array[other]
    BY <1>0, <2>1
  <2>4. HeldStep
    BY <1>0, <2>1, <2>2, <2>3, LeftAlone DEF Kept
  <2>5. \A other \in held' : ~Avail(file_array', other)
    BY <1>0, <2>1, <2>3 DEF HeldInv, Avail, Entry
  <2> QED
    BY <1>0, <2>4, <2>5 DEF HeldInv
<1>3. CASE OpenClock
  <2>1. PICK fd \in UserFds :
          /\ Avail(file_array, fd)
          /\ LET once == [file_array EXCEPT ![fd] = Entry(Clock)] IN
             \/ \E second \in Fds :
                  /\ Lowest(once, second)
                  /\ file_array' = [once EXCEPT ![second] = Entry(Clock)]
                  /\ held' = held \cup {second}
             \/ file_array' = once /\ held' = held
    BY <1>3 DEF OpenClock, Lowest
  <2> DEFINE once == [file_array EXCEPT ![fd] = Entry(Clock)]
  <2>2. /\ once \in [Fds -> Entries]
        /\ \A other \in Fds :
             once[other] = IF other = fd THEN Entry(Clock) ELSE file_array[other]
    BY <1>0, Written DEF Files
  <2>3. fd \notin held
    BY <2>1 DEF HeldInv
  <2>4. CASE file_array' = once /\ held' = held
    <3>1. HeldStep
      BY <1>0, <2>2, <2>3, <2>4, LeftAlone DEF Kept
    <3>2. \A other \in held' : ~Avail(file_array', other)
      BY <1>0, <2>2, <2>4 DEF HeldInv, Avail, Entry
    <3> QED
      BY <1>0, <3>1, <3>2 DEF HeldInv
  <2>5. ASSUME NEW second \in UserFds, Avail(once, second),
               file_array' = [once EXCEPT ![second] = Entry(Clock)],
               held' = held \cup {second}
        PROVE  HeldStep /\ HeldInv'
    <3>1. second \notin held
      BY <1>0, <2>2, <2>3, <2>5 DEF HeldInv, Avail
    <3>2. \A other \in Fds :
            file_array'[other] = IF other = second THEN Entry(Clock) ELSE once[other]
      <4> HIDE DEF once
      <4> QED
        BY <2>2, <2>5
    <3>3. HeldStep
      BY <1>0, <2>2, <2>3, <2>5, <3>1, <3>2, LeftAlone DEF Kept
    <3>4. \A other \in held' : ~Avail(file_array', other)
      BY <1>0, <2>2, <2>5, <3>2 DEF HeldInv, Avail, Entry
    <3> QED
      BY <1>0, <3>3, <3>4 DEF HeldInv
  <2> QED
    BY <2>1, <2>4, <2>5 DEF Lowest
<1>4. ASSUME NEW fd \in Fds, Close(fd)
      PROVE  HeldStep /\ HeldInv'
  <2>1. /\ file_array' = [file_array EXCEPT ![fd] = blank]
        /\ held' = held \ {fd}
    BY <1>4 DEF Close
  <2>2. \A other \in Fds \ {fd} : file_array'[other] = file_array[other]
    BY <1>0, <2>1
  <2>3. HeldStep
    BY <1>0, <2>1, <2>2, LeftAlone DEF Kept
  <2> QED
    BY <1>0, <2>1, <2>2, <2>3 DEF HeldInv, Avail
<1>5. ASSUME NEW fd \in Fds, NEW pos, held' = held,
             file_array' = [file_array EXCEPT ![fd].file_position = pos]
      PROVE  HeldStep /\ HeldInv'
  <2>1. \A other \in Fds : file_array'[other].flags = file_array[other].flags
    BY <1>0, <1>5 DEF Entries
  <2>2. HeldStep
    BY <1>0, <1>5, OneMoves
  <2>3. \A other \in held : ~Avail(file_array', other)
    BY <1>0, <2>1 DEF HeldInv, Avail, Fds, UserFds
  <2> QED
    BY <1>0, <1>5, <2>2, <2>3 DEF HeldInv
<1>6. ASSUME NEW fd \in Fds, NEW n \in Requests, FileRead(fd, n)
      PROVE  HeldStep /\ HeldInv'
  BY <1>5, <1>6 DEF FileRead, Moved
<1>7. ASSUME NEW fd \in Fds, DirectoryRead(fd)
      PROVE  HeldStep /\ HeldInv'
  BY <1>5, <1>7 DEF DirectoryRead
<1>8. ASSUME NEW fd \in Fds, NEW freq \in Requests, RtcWrite(fd, freq)
      PROVE  HeldStep /\ HeldInv'
  BY <1>5, <1>8 DEF RtcWrite
<1>9. CASE Start \/ HaltChild \/ HaltRoot
  BY <1>1, <1>9 DEF Start, HaltChild, HaltRoot
<1> QED
  BY <1>2, <1>3, <1>4, <1>6, <1>7, <1>8, <1>9 DEF Next

\* open, whether of the clock or of a file, never takes an entry that the
\* program holds, and no call moves a descriptor it was not made on.
THEOREM DescriptorsApart == Spec => HeldKept
<1>1. Init => HeldInv
  BY InvInit DEF HeldInv, Init
<1>2. HeldInv /\ [Next]_vars => HeldInv'
  <2>1. HeldInv /\ UNCHANGED vars => HeldInv'
    BY InvStep DEF HeldInv, vars, Avail
  <2> QED
    BY <2>1, StepKeeps
<1>3. HeldInv /\ [Next]_vars => [HeldStep]_vars
  BY StepKeeps
<1> QED
  BY <1>1, <1>2, <1>3, PTL DEF Spec, HeldKept, HeldStep

\* From its start on, a program's table is its own: nothing of a predecessor in
\* it, and nothing it holds taken away or changed under it.
THEOREM TableKept == Spec => DescriptorsKept
BY StartsClean, DescriptorsApart DEF DescriptorsKept

-----------------------------------------------------------------------------
\* Over sound files, the position of a file follows the bytes it gave.
LEMMA ReadCounts ==
  ASSUME EntriesInv, Corrupt = {}, PositionCountsBytes, Next
  PROVE  PositionCountsBytes'
<1>0. TypeOK /\ EntriesOk
  BY DEF EntriesInv
<1> DEFINE Counted(array, given, fd) ==
             array[fd].file_ops_table_ptr = "file_ops" =>
               array[fd].file_position = given[fd]
<1>1. ASSUME NEW fd \in Fds, held' \subseteq held \cup {fd},
             \A other \in Fds \ {fd} : /\ file_array'[other] = file_array[other]
                                       /\ delivered'[other] = delivered[other],
             fd \in held' => Counted(file_array', delivered', fd)
      PROVE  PositionCountsBytes'
  <2>1. held \subseteq Fds /\ fd \in Fds
    BY <1>0, <1>1 DEF TypeOK, Fds, UserFds
  <2>2. ASSUME NEW other \in held'
        PROVE  Counted(file_array', delivered', other)
    <3>1. CASE other = fd
      BY <1>1, <2>2, <3>1
    <3>2. CASE other # fd
      <4>1. other \in held /\ other \in Fds \ {fd}
        BY <1>1, <2>1, <2>2, <3>2
      <4>2. Counted(file_array, delivered, other)
        BY <4>1 DEF PositionCountsBytes
      <4> QED
        BY <1>1, <4>1, <4>2
    <3> QED
      BY <3>1, <3>2
  <2> QED
    BY <2>2 DEF PositionCountsBytes
<1>2. CASE held' = {}
  BY <1>2 DEF PositionCountsBytes
<1>3. ASSUME NEW f \in Regular \cup {Directory}, OpenFile(f)
      PROVE  PositionCountsBytes'
  <2>1. PICK fd \in UserFds :
          /\ file_array' = [file_array EXCEPT ![fd] = Entry(f)]
          /\ held' = held \cup {fd}
          /\ delivered' = [delivered EXCEPT ![fd] = 0]
    BY <1>3 DEF OpenFile, Lowest
  <2>2. Counted(file_array', delivered', fd)
    BY <1>0, <1>3, <2>1 DEF Entry, TypeOK
  <2> QED
    BY <1>0, <1>1, <2>1, <2>2 DEF TypeOK
<1>4. CASE OpenClock
  <2>1. PICK fd \in UserFds :
          LET once == [file_array EXCEPT ![fd] = Entry(Clock)] IN
          \/ \E second \in UserFds :
               /\ file_array' = [once EXCEPT ![second] = Entry(Clock)]
               /\ held' = held \cup {second}
          \/ file_array' = once /\ held' = held
    BY <1>4 DEF OpenClock, Lowest
  <2> DEFINE once == [file_array EXCEPT ![fd] = Entry(Clock)]
  <2>2. \A other \in held : once[other] \in {file_array[other], Entry(Clock)}
    BY <1>0 DEF TypeOK, Fds, UserFds
  <2>3. DOMAIN once = Fds
    BY <1>0 DEF TypeOK
  <2>4. \A other \in held' : \/ other \in held /\ file_array'[other] = file_array[other]
                             \/ file_array'[other] = Entry(Clock)
    <3>1. CASE file_array' = once /\ held' = held
      BY <2>2, <3>1
    <3>2. ASSUME NEW second \in UserFds,
                 file_array' = [once EXCEPT ![second] = Entry(Clock)],
                 held' = held \cup {second}
          PROVE  \A other \in held' :
                   \/ other \in held /\ file_array'[other] = file_array[other]
                   \/ file_array'[other] = Entry(Clock)
      <4>1. held' \subseteq Fds
        BY <1>0, <3>2 DEF TypeOK, Fds, UserFds
      <4>2. \A other \in held' :
              file_array'[other] = IF other = second THEN Entry(Clock) ELSE once[other]
        <5> HIDE DEF once
        <5> QED
          BY <2>3, <3>2, <4>1
      <4> HIDE DEF once
      <4> QED
        BY <2>2, <3>2, <4>2
    <3> QED
      BY <2>1, <3>1, <3>2
  <2>5. delivered' = delivered
    BY <1>4 DEF OpenClock
  <2>6. Entry(Clock).file_ops_table_ptr # "file_ops"
    BY DEF Entry
  <2> QED
    BY <2>4, <2>5, <2>6 DEF PositionCountsBytes
<1>5. ASSUME NEW fd \in Fds, Close(fd)
      PROVE  PositionCountsBytes'
  BY <1>0, <1>1, <1>5 DEF Close, TypeOK
<1>6. ASSUME NEW fd \in Fds, NEW n \in Requests, FileRead(fd, n)
      PROVE  PositionCountsBytes'
  <2>1. PICK got \in BytesRead(file_array[fd].inode_num, file_array[fd].file_position, n) :
          /\ file_array' = [file_array EXCEPT ![fd].file_position = @ + got]
          /\ delivered' = [delivered EXCEPT ![fd] = IF got > 0 THEN @ + got ELSE @]
    BY <1>6 DEF FileRead, Moved
  <2>2. running /\ held' = held /\ read(fd, "file_ops")
    BY <1>6 DEF FileRead
  <2>3. /\ file_array[fd].inode_num \in Regular
        /\ FileLength[file_array[fd].inode_num] \in Nat
        /\ file_array[fd].file_position \in Int
        /\ n \in Nat
    BY <1>0, <2>2 DEF EntriesOk, EntryOk, read, Avail, TypeOK, Entries
  <2>4. got \in Nat
    BY <2>3 DEF BytesRead
  <2>5. file_array'[fd].file_position = file_array[fd].file_position + got
    BY <1>0, <2>1 DEF TypeOK, Entries
  <2>6. delivered'[fd] = delivered[fd] + got
    BY <1>0, <2>1, <2>4 DEF TypeOK
  <2>7. fd \in held' => Counted(file_array', delivered', fd)
    BY <2>2, <2>5, <2>6 DEF PositionCountsBytes, read
  <2> QED
    BY <1>0, <1>1, <2>1, <2>2, <2>7 DEF TypeOK
<1>7. ASSUME NEW fd \in Fds, NEW pos, held' = held, delivered' = delivered,
             file_array[fd].file_ops_table_ptr # "file_ops",
             file_array' = [file_array EXCEPT ![fd].file_position = pos]
      PROVE  PositionCountsBytes'
  <2>1. file_array'[fd].file_ops_table_ptr = file_array[fd].file_ops_table_ptr
    BY <1>0, <1>7 DEF TypeOK, Entries
  <2> QED
    BY <1>0, <1>1, <1>7, <2>1 DEF TypeOK
<1>8. ASSUME NEW fd \in Fds, DirectoryRead(fd)
      PROVE  PositionCountsBytes'
  BY <1>7, <1>8 DEF DirectoryRead, read
<1>9. ASSUME NEW fd \in Fds, NEW freq \in Requests, RtcWrite(fd, freq)
      PROVE  PositionCountsBytes'
  BY <1>7, <1>9 DEF RtcWrite, write
<1>10. CASE Start \/ HaltChild \/ HaltRoot
  BY <1>2, <1>10 DEF Start, HaltChild, HaltRoot
<1> QED
  <2> HIDE DEF Counted
  <2> QED
    BY <1>3, <1>4, <1>5, <1>6, <1>8, <1>9, <1>10 DEF Next

\* Reading on through a descriptor of a sound file neither skips nor repeats.
THEOREM ReadsOn == ASSUME Corrupt = {} PROVE Spec => []PositionCountsBytes
<1>1. Init => PositionCountsBytes
  BY DEF Init, PositionCountsBytes
<1>2. EntriesInv /\ PositionCountsBytes /\ [Next]_vars => PositionCountsBytes'
  BY ReadCounts DEF vars, PositionCountsBytes
<1> QED
  BY <1>1, <1>2, InvAlways, PTL DEF Spec

-----------------------------------------------------------------------------
(* Reading a file (module ReadData).                                        *)


-----------------------------------------------------------------------------
(* Division by the size of a block.                                        *)

\* Whole blocks of b bytes are ordered as their numbers.
LEMMA Blockwise ==
  ASSUME NEW b \in Nat \ {0}, NEW m \in Int, NEW n \in Int
  PROVE  m < n <=> m * b + b =< n * b
<1>1. ASSUME m < n
      PROVE  m * b + b =< n * b
  <2>1. PICK k \in Nat : n = m + 1 + k
    <3>1. n - m - 1 \in Nat /\ n = m + 1 + (n - m - 1)
      BY <1>1
    <3> QED
      BY <3>1
  <2>2. n * b = m * b + b + k * b
    BY <2>1
  <2>3. k * b >= 0
    BY <2>1
  <2> QED
    BY <2>2, <2>3
<1>2. ASSUME n =< m
      PROVE  n * b =< m * b
  <2>1. PICK k \in Nat : m = n + k
    <3>1. m - n \in Nat /\ m = n + (m - n)
      BY <1>2
    <3> QED
      BY <3>1
  <2>2. m * b = n * b + k * b
    BY <2>1
  <2>3. k * b >= 0
    BY <2>1
  <2> QED
    BY <2>2, <2>3
<1>3. m * b \in Int /\ n * b \in Int
  OBVIOUS
<1> QED
  BY <1>1, <1>2, <1>3

\* An offset is a block and a place in it.
LEMMA Parts ==
  ASSUME NEW b \in Nat \ {0}, NEW o \in Nat
  PROVE  /\ o \div b \in Nat /\ o % b \in 0 .. b - 1
         /\ o = (o \div b) * b + (o % b)
OBVIOUS

\* The block and the place in it are determined by the offset.
LEMMA OnlyParts ==
  ASSUME NEW b \in Nat \ {0}, NEW q \in Nat, NEW r \in 0 .. b - 1
  PROVE  (q * b + r) \div b = q /\ (q * b + r) % b = r
<1> DEFINE o == q * b + r
           d == o \div b
<1>1. q * b \in Nat /\ o \in Nat
  OBVIOUS
<1>2. d \in Nat /\ o % b \in 0 .. b - 1 /\ o = d * b + (o % b)
  BY <1>1, Parts
<1>3. d * b \in Nat
  BY <1>2
<1> HIDE DEF d
<1>4. ~(d < q)
  <2>1. d < q => d * b + b =< q * b
    BY <1>2, Blockwise
  <2> QED
    BY <1>1, <1>2, <1>3, <2>1
<1>5. ~(q < d)
  <2>1. q < d => q * b + b =< d * b
    BY <1>2, Blockwise
  <2> QED
    BY <1>1, <1>2, <1>3, <2>1
<1>6. d = q
  BY <1>2, <1>4, <1>5
<1> QED
  BY <1>1, <1>2, <1>6 DEF d

\* Later offsets are in later blocks.
LEMMA InOrder ==
  ASSUME NEW b \in Nat \ {0}, NEW o \in Nat, NEW p \in Nat, o =< p
  PROVE  o \div b =< p \div b
<1>1. /\ o \div b \in Nat /\ o % b \in 0 .. b - 1 /\ o = (o \div b) * b + (o % b)
      /\ p \div b \in Nat /\ p % b \in 0 .. b - 1 /\ p = (p \div b) * b + (p % b)
  BY Parts
<1> DEFINE m == p \div b
           n == o \div b
<1>2. m * b \in Nat /\ n * b \in Nat
  BY <1>1
<1>3. m < n => m * b + b =< n * b
  BY <1>1, Blockwise
<1> HIDE DEF m, n
<1>4. ~(m < n)
  BY <1>1, <1>2, <1>3 DEF m, n
<1> QED
  BY <1>1, <1>4 DEF m, n
-----------------------------------------------------------------------------
(* The invariant.                                                          *)

\* The block of the last byte that will be copied, or of the first if none.
Last == (start + IF Available = 0 THEN 0 ELSE Available - 1) \div BlockSize

\* What was copied is the beginning of what was asked for, and no block of it
\* is behind the last data block.
Copied ==
  /\ Len(buf) =< Available
  /\ \A i \in 1 .. Len(buf) : buf[i] = ByteAt(start + i - 1) /\ buf[i][1] < data_count

\* The locals say where the copy stands, and every block up to there is sound.
Position ==
  /\ valid_inode /\ start < size
  /\ offset = start + Len(buf)
  /\ offset = index_in_inode * BlockSize + index_in_data_block
  /\ offset =< size
  /\ index_in_inode * BlockSize < size
  /\ index_in_inode \in 0 .. MaxBlocks - 1
  /\ index_in_inode \in start \div BlockSize .. Last
  /\ \A b \in start \div BlockSize .. index_in_inode - 1 :
       data_block_num[b] < data_count

Inv ==
  /\ ReadTypeOK
  /\ Copied
  /\ pc = "check" => offset = start /\ buf = << >>
  /\ pc \in {"block", "copy"} => Position
  /\ pc = "block" => index_in_data_block < BlockSize
  /\ pc = "copy" => data_block_num[index_in_inode] < data_count
  /\ pc = "done" => /\ result = IF Readable THEN Available ELSE -1
                    /\ Readable => Len(buf) = Available

LEMMA AvailableBytes ==
  ASSUME ReadTypeOK
  PROVE  /\ Available \in Nat /\ Available =< length
         /\ start < size => Available =< size - start
         /\ Available = length \/ Available = size - start \/ start >= size
BY ReadDataAssumption DEF ReadTypeOK, Available

\* A block that begins before the end of the file has its number in the inode.
LEMMA InInode ==
  ASSUME ReadTypeOK, NEW n \in Nat, n * BlockSize < size
  PROVE  n \in 0 .. MaxBlocks - 1
<1>1. /\ BlockSize \in Nat \ {0} /\ MaxBlocks \in Nat \ {0}
      /\ MaxBlocks * BlockSize \in Nat /\ n * BlockSize \in Nat
      /\ size \in 0 .. MaxBlocks * BlockSize
  BY ReadDataAssumption DEF ReadTypeOK
<1>2. n * BlockSize < MaxBlocks * BlockSize
  BY <1>1
<1>3. MaxBlocks < n => MaxBlocks * BlockSize + BlockSize =< n * BlockSize
  BY <1>1, Blockwise
<1>4. ~(MaxBlocks < n) /\ MaxBlocks # n
  BY <1>1, <1>2, <1>3
<1> QED
  BY <1>1, <1>4

LEMMA ReadInvInit == ReadInit => Inv
<1> SUFFICES ASSUME ReadInit
             PROVE  Inv
  OBVIOUS
<1>1. MaxBlocks * BlockSize \in Nat
  BY ReadDataAssumption
<1>2. ReadTypeOK
  BY <1>1, ReadDataAssumption DEF ReadInit, ReadTypeOK
<1>3. Len(buf) = 0
  BY DEF ReadInit
<1>4. Copied
  BY <1>2, <1>3, AvailableBytes DEF Copied
<1> QED
  BY <1>2, <1>4 DEF ReadInit, Inv

\* The arguments stay, so that what is asked for does.
LEMMA ArgumentsStay ==
  ASSUME UNCHANGED arguments
  PROVE  /\ Available' = Available /\ Last' = Last /\ Readable' = Readable
         /\ \A o : ByteAt(o)' = ByteAt(o)
BY DEF arguments, Available, Last, Readable, Blocks, ByteAt

LEMMA CheckKeeps == Inv /\ Check => Inv'
<1> SUFFICES ASSUME Inv, Check
             PROVE  Inv'
  OBVIOUS
<1>1. /\ ReadTypeOK /\ pc = "check" /\ offset = start /\ buf = << >>
      /\ UNCHANGED << arguments, offset, buf >>
      /\ start \in Nat /\ size \in Nat /\ Len(buf) = 0
  <2>1. MaxBlocks * BlockSize \in Nat
    BY ReadDataAssumption
  <2> QED
    BY <2>1 DEF Inv, Check, ReadTypeOK
<1>2. Copied'
  BY <1>1, ArgumentsStay DEF Inv, Copied
<1>3. CASE pc' = "done"
  <2>1. /\ UNCHANGED << index_in_inode, index_in_data_block >>
        /\ \/ ~valid_inode /\ result' = -1
           \/ valid_inode /\ start >= size /\ result' = 0
    BY <1>1, <1>3 DEF Check, Return
  <2>2. ReadTypeOK'
    BY <1>1, <1>3, <2>1 DEF ReadTypeOK, arguments
  <2>3. start >= size => Available = 0 /\ Blocks = {}
    BY DEF Available, Blocks
  <2>4. result' = IF Readable THEN Available ELSE -1
    BY <2>1, <2>3 DEF Readable
  <2>5. Readable => Available = 0
    BY <2>1, <2>3 DEF Readable
  <2> QED
    BY <1>1, <1>2, <1>3, <2>2, <2>4, <2>5, ArgumentsStay DEF Inv
<1>4. CASE pc' = "block"
  <2>1. /\ valid_inode /\ start < size
        /\ index_in_inode' = start \div BlockSize
        /\ index_in_data_block' = start % BlockSize
        /\ result' = result
    BY <1>1, <1>4 DEF Check, Return
  <2>2. /\ BlockSize \in Nat \ {0}
        /\ start \div BlockSize \in Nat
        /\ start % BlockSize \in 0 .. BlockSize - 1
        /\ start = (start \div BlockSize) * BlockSize + (start % BlockSize)
    BY <1>1, ReadDataAssumption, Parts
  <2>3. start \div BlockSize =< Last
    <3>1. Available \in Nat
      BY <1>1, AvailableBytes
    <3> QED
      BY <1>1, <2>2, <3>1, InOrder DEF Last
  <2>4. Last \in Int
    <3>1. Available \in Nat
      BY <1>1, AvailableBytes
    <3> QED
      BY <1>1, <2>2, <3>1, Parts DEF Last
  <2>5. (start \div BlockSize) * BlockSize < size
    <3>1. (start \div BlockSize) * BlockSize \in Nat
      BY <2>2
    <3> QED
      BY <1>1, <2>1, <2>2, <3>1
  <2>6. start \div BlockSize \in 0 .. MaxBlocks - 1
    BY <1>1, <2>2, <2>5, InInode
  <2>7. Position'
    <3>1. /\ offset' = start' + Len(buf')
          /\ offset' = index_in_inode' * BlockSize + index_in_data_block'
          /\ offset' =< size'
      BY <1>1, <2>1, <2>2 DEF arguments
    <3>2. /\ index_in_inode' * BlockSize < size'
          /\ index_in_inode' \in 0 .. MaxBlocks - 1
          /\ index_in_inode' \in start' \div BlockSize .. Last'
      BY <1>1, <2>1, <2>2, <2>3, <2>4, <2>5, <2>6, ArgumentsStay DEF arguments
    <3>3. \A b \in start' \div BlockSize .. index_in_inode' - 1 : FALSE
      BY <1>1, <2>1, <2>2 DEF arguments
    <3> QED
      BY <1>1, <2>1, <3>1, <3>2, <3>3 DEF Position, arguments
  <2>8. ReadTypeOK'
    BY <1>1, <1>4, <2>1, <2>2, <2>6, ReadDataAssumption DEF ReadTypeOK, arguments
  <2> QED
    BY <1>2, <1>4, <2>1, <2>2, <2>7, <2>8 DEF Inv
<1> QED
  BY <1>3, <1>4 DEF Check, Return

LEMMA BlockKeeps == Inv /\ Block => Inv'
<1> SUFFICES ASSUME Inv, Block
             PROVE  Inv'
  OBVIOUS
<1>1. /\ ReadTypeOK /\ pc = "block" /\ Position /\ index_in_data_block < BlockSize
      /\ UNCHANGED << arguments, offset, index_in_inode, index_in_data_block, buf >>
  BY DEF Inv, Block
<1>2. Copied' /\ Position'
  BY <1>1, ArgumentsStay DEF Inv, Copied, Position, arguments
<1>3. ReadTypeOK'
  BY <1>1 DEF Block, Return, ReadTypeOK, arguments
<1>4. CASE pc' = "copy"
  <2>1. data_block_num[index_in_inode] < data_count
    BY <1>4 DEF Block, Return
  <2> QED
    BY <1>1, <1>2, <1>3, <1>4, <2>1 DEF Inv, arguments
<1>5. CASE pc' = "done"
  <2>1. result' = -1 /\ data_block_num[index_in_inode] >= data_count
    BY <1>5 DEF Block, Return
  <2>2. index_in_inode \in Blocks
    BY <1>1 DEF Position, Last, Blocks, ReadTypeOK
  <2>3. data_block_num[index_in_inode] \in Int /\ data_count \in Nat
    BY <1>1, ReadDataAssumption DEF ReadTypeOK, Position
  <2>4. ~Readable
    BY <2>1, <2>2, <2>3 DEF Readable
  <2> QED
    BY <1>2, <1>3, <1>5, <2>1, <2>4, <1>1, ArgumentsStay DEF Inv
<1> QED
  BY <1>4, <1>5 DEF Block, Return

LEMMA CopyKeeps == Inv /\ CopyByte => Inv'
<1> SUFFICES ASSUME Inv, CopyByte
             PROVE  Inv'
  OBVIOUS
<1> DEFINE byte == << data_block_num[index_in_inode], index_in_data_block >>
<1>1. /\ ReadTypeOK /\ pc = "copy" /\ Position /\ Copied
      /\ data_block_num[index_in_inode] < data_count
      /\ Len(buf) < length /\ index_in_data_block < BlockSize /\ offset < size
      /\ buf' = Append(buf, byte)
      /\ index_in_data_block' = index_in_data_block + 1
      /\ offset' = offset + 1
      /\ UNCHANGED << arguments, index_in_inode, pc, result >>
  BY DEF Inv, CopyByte, MoreToCopy
<1>2. /\ BlockSize \in Nat \ {0} /\ data_count \in Nat
      /\ index_in_inode \in 0 .. MaxBlocks - 1 /\ index_in_inode \in Nat
      /\ index_in_data_block \in 0 .. BlockSize - 1
      /\ data_block_num[index_in_inode] \in BlockNums /\ BlockNums \subseteq Int
      /\ start \in Nat /\ offset \in Nat /\ size \in Int /\ length \in Nat
      /\ Len(buf) \in Nat
  <2>1. MaxBlocks * BlockSize \in Nat
    BY ReadDataAssumption
  <2> QED
    BY <1>1, <2>1, ReadDataAssumption DEF ReadTypeOK, Position
<1>3. /\ Len(buf') = Len(buf) + 1
      /\ \A i \in 1 .. Len(buf) : buf'[i] = buf[i]
      /\ buf'[Len(buf) + 1] = byte
  BY <1>1 DEF ReadTypeOK
<1>4. byte = ByteAt(offset)
  <2>1. /\ (index_in_inode * BlockSize + index_in_data_block) \div BlockSize
             = index_in_inode
        /\ (index_in_inode * BlockSize + index_in_data_block) % BlockSize
             = index_in_data_block
    BY <1>2, OnlyParts
  <2> QED
    BY <1>1, <2>1 DEF Position, ByteAt
<1>5. Copied'
  <2>1. Len(buf) + 1 =< Available
    BY <1>1, <1>2, AvailableBytes DEF Position
  <2>2. ASSUME NEW i \in 1 .. Len(buf) + 1
        PROVE  buf'[i] = ByteAt(start + i - 1) /\ buf'[i][1] < data_count
    <3>1. CASE i \in 1 .. Len(buf)
      BY <1>1, <1>3, <3>1 DEF Copied
    <3>2. CASE i = Len(buf) + 1
      <4>1. start + i - 1 = offset
        BY <1>1, <1>2, <3>2 DEF Position
      <4>2. byte[1] < data_count
        BY <1>1
      <4> QED
        BY <1>3, <1>4, <3>2, <4>1, <4>2
    <3> QED
      BY <1>2, <3>1, <3>2
  <2> QED
    BY <1>1, <1>3, <2>1, <2>2, ArgumentsStay DEF Copied, arguments
<1>6. Position'
  <2>1. index_in_inode * BlockSize \in Nat
    BY <1>2
  <2>2. /\ offset' = start' + Len(buf')
        /\ offset' = index_in_inode' * BlockSize + index_in_data_block'
        /\ offset' =< size'
    <3>1. /\ offset = index_in_inode * BlockSize + index_in_data_block
          /\ offset = start + Len(buf)
      BY <1>1 DEF Position
    <3>2. offset + 1 = index_in_inode * BlockSize + (index_in_data_block + 1)
      BY <1>2, <2>1, <3>1
    <3>3. offset + 1 = start + (Len(buf) + 1) /\ offset + 1 =< size
      <4>1. offset < size
        BY <1>1
      <4>2. start \in Nat /\ Len(buf) \in Nat /\ offset \in Nat /\ size \in Int
        BY <1>2
      <4>3. offset + 1 =< size
        BY <4>1, <4>2
      <4>4. offset = start + Len(buf)
        BY <3>1
      <4>5. offset + 1 = start + (Len(buf) + 1)
        BY <4>2, <4>4
      <4> QED
        BY <4>3, <4>5
    <3>4. /\ offset' = offset + 1 /\ Len(buf') = Len(buf) + 1 /\ start' = start
          /\ size' = size /\ index_in_inode' = index_in_inode
          /\ index_in_data_block' = index_in_data_block + 1
      BY <1>1, <1>3 DEF arguments
    <3> QED
      BY <3>2, <3>3, <3>4
  <2> QED
    BY <1>1, <2>2, ArgumentsStay DEF Position, arguments
<1>7. ReadTypeOK'
  <2>1. byte \in BlockNums \X (0 .. BlockSize - 1)
    BY <1>2
  <2>2. buf' \in Seq(BlockNums \X (0 .. BlockSize - 1))
    <3> HIDE DEF byte
    <3> QED
      BY <1>1, <2>1 DEF ReadTypeOK
  <2> QED
    BY <1>1, <1>2, <2>2 DEF ReadTypeOK, arguments
<1> QED
  BY <1>1, <1>5, <1>6, <1>7 DEF Inv, arguments

LEMMA EndKeeps == Inv /\ EndBlock => Inv'
<1> SUFFICES ASSUME Inv, EndBlock
             PROVE  Inv'
  OBVIOUS
<1>1. /\ ReadTypeOK /\ pc = "copy" /\ Position /\ Copied
      /\ data_block_num[index_in_inode] < data_count
      /\ ~MoreToCopy
      /\ index_in_data_block' = 0
      /\ index_in_inode' = index_in_inode + 1
      /\ UNCHANGED << arguments, offset, buf >>
  BY DEF Inv, EndBlock
<1>2. /\ BlockSize \in Nat \ {0} /\ MaxBlocks \in Nat \ {0}
      /\ index_in_inode \in 0 .. MaxBlocks - 1 /\ index_in_inode \in Nat
      /\ index_in_data_block \in 0 .. BlockSize
      /\ index_in_inode * BlockSize \in Nat
      /\ start \in Nat /\ offset \in Nat /\ size \in Nat /\ length \in Nat
      /\ Len(buf) \in Nat /\ start < size
  <2>1. MaxBlocks * BlockSize \in Nat
    BY ReadDataAssumption
  <2> QED
    BY <1>1, <2>1, ReadDataAssumption DEF ReadTypeOK, Position
<1>3. /\ Available \in Nat /\ Available =< length /\ Available =< size - start
      /\ Available = length \/ Available = size - start
  BY <1>1, <1>2, AvailableBytes
<1>4. Copied'
  BY <1>1, ArgumentsStay DEF Copied, arguments
<1>5. \A b \in start \div BlockSize .. index_in_inode : data_block_num[b] < data_count
  <2>1. start \div BlockSize \in Int
    BY <1>2, Parts
  <2> QED
    BY <1>1, <1>2, <2>1 DEF Position
<1>6. CASE pc' = "done"
  <2>1. result' = Len(buf) /\ (Len(buf) >= length \/ offset >= size)
    BY <1>6 DEF EndBlock, Return, Finished
  <2>2. Len(buf) = Available
    BY <1>1, <1>2, <1>3, <2>1 DEF Copied, Position
  <2>3. Last =< index_in_inode
    <3>1. CASE Available = 0
      BY <1>1, <1>2, <3>1 DEF Position, Last
    <3>2. CASE Available # 0
      <4>1. /\ start + Available - 1 \in Nat
            /\ start + Available - 1 < index_in_inode * BlockSize + BlockSize
            /\ Last = (start + (Available - 1)) \div BlockSize
        BY <1>1, <1>2, <1>3, <2>2, <3>2 DEF Position, Last
      <4>2. /\ Last \in Nat /\ Last * BlockSize \in Nat
            /\ Last * BlockSize =< start + Available - 1
        <5>1. /\ Last \in Nat
              /\ (start + (Available - 1)) % BlockSize \in 0 .. BlockSize - 1
              /\ start + (Available - 1) =
                   Last * BlockSize + ((start + (Available - 1)) % BlockSize)
          BY <1>2, <1>3, <4>1, Parts
        <5>2. Last * BlockSize \in Nat
          BY <1>2, <5>1
        <5> QED
          BY <1>2, <1>3, <5>1, <5>2
      <4>3. index_in_inode < Last =>
              index_in_inode * BlockSize + BlockSize =< Last * BlockSize
        BY <1>2, <4>2, Blockwise
      <4> QED
        BY <1>2, <1>3, <4>1, <4>2, <4>3
    <3> QED
      BY <3>1, <3>2
  <2>4. Readable
    <3>1. Blocks = start \div BlockSize .. Last
      BY <1>2 DEF Blocks, Last
    <3>2. Last \in Int /\ start \div BlockSize \in Int
      BY <1>2, <1>3, Parts DEF Last
    <3>3. Last = index_in_inode
      BY <1>1, <1>2, <2>3, <3>2 DEF Position
    <3> QED
      BY <1>1, <1>5, <3>1, <3>3 DEF Readable, Position
  <2>5. ReadTypeOK'
    BY <1>1, <1>2, <1>6, <2>1 DEF ReadTypeOK, arguments
  <2> QED
    BY <1>1, <1>4, <1>6, <2>1, <2>2, <2>4, <2>5, ArgumentsStay DEF Inv
<1>7. CASE pc' = "block"
  <2>1. Len(buf) < length /\ offset < size /\ result' = result
    BY <1>1, <1>2, <1>7 DEF EndBlock, Return, Finished
  <2>2. index_in_data_block = BlockSize
    BY <1>1, <1>2, <2>1 DEF MoreToCopy
  <2>3. /\ offset = index_in_inode * BlockSize + BlockSize
        /\ offset = (index_in_inode + 1) * BlockSize
    <3>1. (index_in_inode + 1) * BlockSize = index_in_inode * BlockSize + BlockSize
      BY <1>2
    <3> QED
      BY <1>1, <2>2, <3>1 DEF Position
  <2>4. index_in_inode + 1 \in 0 .. MaxBlocks - 1
    <3>1. index_in_inode + 1 \in Nat /\ (index_in_inode + 1) * BlockSize < size
      BY <1>2, <2>1, <2>3
    <3> QED
      BY <1>1, <3>1, InInode
  <2>5. index_in_inode + 1 =< Last /\ Last \in Nat
    <3>1. /\ start + (Available - 1) \in Nat /\ offset =< start + (Available - 1)
          /\ Last = (start + (Available - 1)) \div BlockSize
      BY <1>1, <1>2, <1>3, <2>1 DEF Position, Last
    <3>2. offset \div BlockSize = index_in_inode + 1
      <4>1. 0 \in 0 .. BlockSize - 1 /\ index_in_inode + 1 \in Nat
        BY <1>2
      <4>2. ((index_in_inode + 1) * BlockSize + 0) \div BlockSize = index_in_inode + 1
        BY <1>2, <4>1, OnlyParts
      <4> QED
        BY <1>2, <2>3, <4>1, <4>2
    <3>3. offset \div BlockSize =< (start + (Available - 1)) \div BlockSize
      BY <1>2, <3>1, InOrder
    <3>4. (start + (Available - 1)) \div BlockSize \in Nat
      BY <1>2, <3>1, Parts
    <3> QED
      BY <3>1, <3>2, <3>3, <3>4
  <2>6. Position'
    <3>1. /\ offset' = start' + Len(buf')
          /\ offset' = index_in_inode' * BlockSize + index_in_data_block'
          /\ offset' =< size' /\ index_in_inode' * BlockSize < size'
      BY <1>1, <1>2, <2>1, <2>3 DEF Position, arguments
    <3>2. start \div BlockSize \in Nat
      BY <1>2, Parts
    <3>3. index_in_inode' \in start' \div BlockSize .. Last'
      BY <1>1, <1>2, <2>5, <3>2, ArgumentsStay DEF Position, arguments
    <3>4. \A b \in start' \div BlockSize .. index_in_inode' - 1 :
            data_block_num'[b] < data_count
      BY <1>1, <1>2, <1>5, <3>2 DEF arguments
    <3> QED
      BY <1>1, <2>4, <3>1, <3>3, <3>4 DEF Position, arguments
  <2>7. ReadTypeOK'
    BY <1>1, <1>2, <1>7, <2>1, <2>4 DEF ReadTypeOK, arguments
  <2> QED
    BY <1>1, <1>2, <1>4, <1>7, <2>6, <2>7 DEF Inv
<1> QED
  BY <1>6, <1>7 DEF EndBlock, Return

LEMMA ReadInvStep == Inv /\ [ReadNext]_readVars => Inv'
<1>1. Inv /\ UNCHANGED readVars => Inv'
  <2> SUFFICES ASSUME Inv, UNCHANGED readVars
               PROVE  Inv'
    OBVIOUS
  <2>1. ReadTypeOK' /\ Copied'
    BY ArgumentsStay DEF readVars, Inv, ReadTypeOK, Copied, arguments
  <2>2. Position => Position'
    BY ArgumentsStay DEF readVars, Position, arguments
  <2> QED
    BY <2>1, <2>2, ArgumentsStay DEF readVars, Inv, arguments
<1> QED
  BY <1>1, CheckKeeps, BlockKeeps, CopyKeeps, EndKeeps DEF ReadNext, Done

\* A byte that was copied is of a block that the read comes to.
LEMMA CopiedInBlocks ==
  ASSUME ReadTypeOK, Copied, NEW i \in 1 .. Len(buf)
  PROVE  (start + i - 1) \div BlockSize \in Blocks
<1> DEFINE o == start + i - 1
           p == start + Available - 1
<1>0. size \in Nat
  <2>1. MaxBlocks * BlockSize \in Nat
    BY ReadDataAssumption
  <2> QED
    BY <2>1 DEF ReadTypeOK
<1>1. /\ start \in Nat /\ Len(buf) \in Nat /\ i \in Nat /\ 1 =< i /\ i =< Len(buf)
      /\ Len(buf) =< Available /\ Available \in Nat /\ BlockSize \in Nat \ {0}
  BY AvailableBytes, ReadDataAssumption DEF ReadTypeOK, Copied
<1>2. o \in Nat /\ p \in Nat /\ start =< o /\ o =< p /\ Available # 0
  BY <1>1
<1>3. start < size
  <2>1. start >= size => Available = 0
    BY DEF Available
  <2> QED
    BY <1>0, <1>1, <1>2, <2>1
<1>4. Blocks = start \div BlockSize .. p \div BlockSize
  <2>1. ~(start >= size)
    BY <1>0, <1>1, <1>3
  <2>2. Blocks = start \div BlockSize .. (start + (Available - 1)) \div BlockSize
    BY <1>2, <2>1 DEF Blocks
  <2>3. start + (Available - 1) = p
    BY <1>1
  <2> QED
    BY <2>2, <2>3
<1> HIDE DEF o, p
<1>5. /\ start \div BlockSize \in Nat /\ o \div BlockSize \in Nat
      /\ p \div BlockSize \in Nat
  BY <1>1, <1>2, Parts
<1>6. start \div BlockSize =< o \div BlockSize /\ o \div BlockSize =< p \div BlockSize
  BY <1>1, <1>2, InOrder
<1> QED
  BY <1>4, <1>5, <1>6 DEF o

\* Whatever the file, block numbers out of range and negative ones included,
\* the offset and the length, read_data copies what was asked for, in order and
\* without a gap, stays within the inode, and copies only data blocks if no
\* number is negative (vfs.c:318 to 387).
THEOREM ReadsRight == ReadSpec => []CopySound
<1>1. Inv => CopySound
  <2> SUFFICES ASSUME Inv
               PROVE  CopySound
    OBVIOUS
  <2>1. ReadTypeOK /\ Copied
    BY DEF Inv
  <2>2. ReadsTheFile /\ InsideFile
    BY DEF Inv, ReadsTheFile, InsideFile, Copied, Position
  <2>3. ASSUME NEW i \in 1 .. Len(buf), \A b \in Blocks : data_block_num[b] >= 0
        PROVE  buf[i][1] \in 0 .. data_count - 1
    <3>1. (start + i - 1) \div BlockSize \in Blocks
      BY <2>1, CopiedInBlocks
    <3>2. buf[i][1] = data_block_num[(start + i - 1) \div BlockSize]
      BY <2>1 DEF Copied, ByteAt
    <3>3. buf[i][1] >= 0 /\ buf[i][1] < data_count
      BY <2>1, <2>3, <3>1, <3>2 DEF Copied
    <3>4. buf[i] \in BlockNums \X (0 .. BlockSize - 1)
      BY <2>1 DEF ReadTypeOK
    <3>5. buf[i][1] \in Int /\ data_count \in Nat
      BY <3>4, ReadDataAssumption
    <3> QED
      BY <3>3, <3>5
  <2> QED
    BY <2>1, <2>2, <2>3 DEF CopySound, OnlyData
<1> QED
  BY <1>1, ReadInvInit, ReadInvStep, PTL DEF ReadSpec

-----------------------------------------------------------------------------
(* The directory of the image and load_program (module FileImage): names   *)
(* of any length in fields of any length, any number of entries.           *)

USE FileImageAssumption

\* A name that an entry can hold.
Storable == {s \in Strings : Len(s) =< FILENAME_LEN}

LEMMA StringsAreSequences ==
  ASSUME NEW s \in Strings
  PROVE  /\ s \in Seq(Chars) /\ Len(s) \in 0 .. FILENAME_LEN + 1
         /\ \A i \in 1 .. Len(s) : s[i] # NUL
<1>1. PICK n \in 0 .. FILENAME_LEN + 1 : s \in [1 .. n -> Chars]
  BY DEF Strings
<1>2. s \in Seq(Chars) /\ Len(s) = n
  BY <1>1
<1> QED
  BY <1>1, <1>2

\* What directory_read's loop copies of a field is the name put into it.
LEMMA NameComesBack ==
  ASSUME NEW s \in Storable
  PROVE  StringOf(Field(s)) = s
<1> DEFINE D == {n \in 1 .. FILENAME_LEN : \A j \in 1 .. n : Field(s)[j] # NUL}
<1>1. /\ s \in Seq(Chars) /\ Len(s) \in 0 .. FILENAME_LEN
      /\ \A i \in 1 .. Len(s) : s[i] # NUL
  BY StringsAreSequences DEF Storable
<1>2. \A i \in 1 .. FILENAME_LEN : Field(s)[i] = IF i =< Len(s) THEN s[i] ELSE NUL
  BY DEF Field
<1>3. D = 1 .. Len(s)
  <2>1. ASSUME NEW n \in D
        PROVE  n \in 1 .. Len(s)
    BY <1>1, <1>2
  <2>2. ASSUME NEW n \in 1 .. Len(s)
        PROVE  n \in D
    BY <1>1, <1>2
  <2> QED
    BY <2>1, <2>2
<1>4. StringOf(Field(s)) = [i \in D |-> Field(s)[i]]
  BY DEF StringOf
<1> HIDE DEF D
<1>5. [i \in 1 .. Len(s) |-> Field(s)[i]] = [i \in 1 .. Len(s) |-> s[i]]
  BY <1>1, <1>2
<1> QED
  BY <1>1, <1>3, <1>4, <1>5

\* strncmp finds equal exactly the name in the field, full or padded.
LEMMA SameName ==
  ASSUME NEW s \in Storable, NEW t \in Storable,
         Same(t, Field(s), FILENAME_LEN)
  PROVE  t = s
<1>1. /\ s \in Seq(Chars) /\ Len(s) \in 0 .. FILENAME_LEN
      /\ t \in Seq(Chars) /\ Len(t) \in 0 .. FILENAME_LEN
      /\ \A i \in 1 .. Len(s) : s[i] # NUL
      /\ \A i \in 1 .. Len(t) : t[i] # NUL
  BY StringsAreSequences DEF Storable
<1>2. \A i \in 1 .. FILENAME_LEN : Field(s)[i] = IF i =< Len(s) THEN s[i] ELSE NUL
  BY DEF Field
<1>3. ASSUME NEW i \in 1 .. FILENAME_LEN, i =< Len(t) + 1
      PROVE  CharAt(t, i) = Field(s)[i]
  <2>1. \A j \in 1 .. i - 1 : CharAt(t, j) # NUL
    BY <1>1, <1>3 DEF CharAt
  <2> QED
    BY <2>1 DEF Same
<1>4. ASSUME NEW i \in 1 .. Len(t)
      PROVE  i =< Len(s) /\ t[i] = s[i]
  <2>1. i \in 1 .. FILENAME_LEN /\ CharAt(t, i) = t[i]
    BY <1>1 DEF CharAt
  <2>2. t[i] = Field(s)[i] /\ t[i] # NUL
    BY <1>1, <1>3, <2>1
  <2> QED
    BY <1>2, <2>1, <2>2
<1>5. Len(t) =< Len(s)
  <2>1. CASE Len(t) = 0
    BY <1>1, <2>1
  <2>2. CASE Len(t) # 0
    <3>1. Len(t) \in 1 .. Len(t)
      BY <1>1, <2>2
    <3> QED
      BY <1>4, <3>1
  <2> QED
    BY <2>1, <2>2
<1>6. Len(s) =< Len(t)
  <2>1. SUFFICES ASSUME Len(t) < Len(s)
                 PROVE  FALSE
    BY <1>1
  <2>2. Len(t) + 1 \in 1 .. FILENAME_LEN /\ Len(t) + 1 =< Len(s)
    BY <1>1, <2>1
  <2>3. CharAt(t, Len(t) + 1) = NUL
    BY <1>1 DEF CharAt
  <2>4. CharAt(t, Len(t) + 1) = Field(s)[Len(t) + 1]
    BY <1>1, <1>3, <2>2
  <2>5. Field(s)[Len(t) + 1] = s[Len(t) + 1]
    BY <1>2, <2>2
  <2> QED
    BY <1>1, <2>2, <2>3, <2>4, <2>5
<1> QED
  BY <1>1, <1>4, <1>5, <1>6

LEMMA SameItself ==
  ASSUME NEW s \in Storable
  PROVE  Same(s, Field(s), FILENAME_LEN)
BY StringsAreSequences DEF Same, Field, CharAt, Storable

\* The directory holds one name per entry, each once, the used entries first.
NameOf(i) == StringOf(direntries[i].filename)

DirectoryInv ==
  /\ direntries \in [Indices -> Dentries]
  /\ \A i \in Indices : NameOf(i) \in Storable /\ direntries[i].filename = Field(NameOf(i))
  /\ \A i, j \in Indices : i < j /\ NameOf(i) = << >> => NameOf(j) = << >>
  /\ \A i, j \in Indices : i # j /\ NameOf(i) # << >> => NameOf(i) # NameOf(j)

LEMMA DirectoryInit == ImageInit => DirectoryInv
<1> SUFFICES ASSUME ImageInit
             PROVE  DirectoryInv
  OBVIOUS
<1>1. /\ direntries \in [Indices -> Dentries]
      /\ \A i \in Indices : \E s \in Strings :
            Len(s) =< FILENAME_LEN /\ direntries[i].filename = Field(s)
      /\ \A i, j \in Indices :
           /\ i < j /\ NameOf(i) = << >> => NameOf(j) = << >>
           /\ i # j /\ NameOf(i) # << >> => direntries[i].filename # direntries[j].filename
  BY DEF ImageInit, Directories, NameOf
<1>2. ASSUME NEW i \in Indices
      PROVE  NameOf(i) \in Storable /\ direntries[i].filename = Field(NameOf(i))
  <2>1. PICK s \in Storable : direntries[i].filename = Field(s)
    BY <1>1 DEF Storable
  <2>2. NameOf(i) = s
    BY <2>1, NameComesBack DEF NameOf
  <2> QED
    BY <2>1, <2>2
<1>3. ASSUME NEW i \in Indices, NEW j \in Indices, i # j, NameOf(i) # << >>
      PROVE  NameOf(i) # NameOf(j)
  BY <1>1, <1>2, <1>3
<1> QED
  BY <1>1, <1>2, <1>3 DEF DirectoryInv

\* file_open and load_program find what is named so.
LEMMA Found ==
  ASSUME DirectoryInv, NEW i \in Indices, NameOf(i) # << >>
  PROVE  Lookup(NameOf(i)) = i
<1> DEFINE s == NameOf(i)
           matches == {j \in Indices : Same(s, direntries[j].filename, FILENAME_LEN)}
<1>1. s \in Storable /\ s # << >> /\ i \in Int
  BY DEF DirectoryInv, Indices
<1>2. i \in matches
  BY <1>1, SameItself DEF DirectoryInv
<1>3. ASSUME NEW j \in matches
      PROVE  j = i
  <2>1. NameOf(j) \in Storable /\ direntries[j].filename = Field(NameOf(j))
    BY DEF DirectoryInv
  <2>2. s = NameOf(j)
    BY <1>1, <2>1, SameName
  <2> QED
    BY <2>2 DEF DirectoryInv
<1>4. matches = {i}
  BY <1>2, <1>3
<1>5. Lookup(s) = CHOOSE k \in {i} : \A j \in {i} : k =< j
  <2>1. ~TooLong(s)
    BY <1>1, StringsAreSequences DEF TooLong, Storable
  <2>2. read_dentry_by_name(s) = CHOOSE k \in matches : \A j \in matches : k =< j
    BY <1>1, <1>2 DEF read_dentry_by_name
  <2> HIDE DEF matches
  <2> QED
    BY <1>4, <2>1, <2>2 DEF Lookup
<1>6. (CHOOSE k \in {i} : \A j \in {i} : k =< j) = i
  <2>1. i =< i
    BY <1>1
  <2> QED
    BY <2>1
<1> QED
  BY <1>5, <1>6

LEMMA NotFound ==
  ASSUME DirectoryInv, NEW s \in Strings,
         \A i \in Indices : s # << >> => NameOf(i) # s
  PROVE  Lookup(s) = -1
<1>1. CASE TooLong(s)
  BY <1>1 DEF Lookup
<1>2. CASE s = << >>
  BY <1>2 DEF Lookup, read_dentry_by_name
<1>3. CASE ~TooLong(s) /\ s # << >>
  <2> DEFINE matches == {j \in Indices : Same(s, direntries[j].filename, FILENAME_LEN)}
  <2>1. s \in Storable
    BY <1>3, StringsAreSequences DEF TooLong, Storable
  <2>2. ASSUME NEW j \in matches
        PROVE  FALSE
    <3>1. NameOf(j) \in Storable /\ direntries[j].filename = Field(NameOf(j))
      BY DEF DirectoryInv
    <3>2. s = NameOf(j)
      BY <2>1, <3>1, SameName
    <3> QED
      BY <1>3, <3>2
  <2>3. matches = {}
    BY <2>2
  <2> QED
    BY <1>3, <2>3 DEF Lookup, read_dentry_by_name
<1> QED
  BY <1>1, <1>2, <1>3

LEMMA NamesResolve ==
  ASSUME DirectoryInv
  PROVE  FindsByName
<1> SUFFICES ASSUME NEW s \in Strings
             PROVE  {Lookup(s)} = LET named == {i \in Names : NameOf(i) = s}
                                  IN IF named = {} THEN {-1} ELSE named
  BY DEF FindsByName, NameOf
<1> DEFINE named == {i \in Names : NameOf(i) = s}
<1>1. CASE named = {}
  <2>1. \A i \in Indices : s # << >> => NameOf(i) # s
    BY <1>1 DEF Names, NameOf
  <2>2. Lookup(s) = -1
    BY <2>1, NotFound
  <2> QED
    BY <1>1, <2>2
<1>2. CASE named # {}
  <2>1. PICK i \in named : TRUE
    BY <1>2
  <2>2. i \in Indices /\ NameOf(i) = s /\ s # << >>
    BY <2>1 DEF Names, NameOf
  <2>3. Lookup(s) = i
    BY <2>2, Found
  <2>4. named = {i}
    BY <2>1, <2>2 DEF DirectoryInv, Names, NameOf
  <2> QED
    BY <2>3, <2>4
<1> QED
  BY <1>1, <1>2

\* How far a program has read the directory.
ListingInv ==
  /\ file_position \in 0 .. NUM_FILES /\ ended \in BOOLEAN
  /\ listing \in Seq(Strings) /\ Len(listing) =< file_position
  /\ \A i \in 1 .. Len(listing) : listing[i] = NameOf(i - 1) /\ listing[i] # << >>
  /\ ~ended => Len(listing) = file_position
  /\ ended => \/ Len(listing) = NUM_FILES
              \/ Len(listing) \in Indices /\ NameOf(Len(listing)) = << >>

\* A program begins to read the directory.
Unread ==
  file_position = 0 /\ listing = << >> /\ ended = FALSE

LEMMA NothingListed == Unread => ListingInv
<1> SUFFICES ASSUME Unread
             PROVE  ListingInv
  OBVIOUS
<1>1. listing \in Seq(Strings) /\ Len(listing) = 0 /\ file_position = 0 /\ ended = FALSE
  BY DEF Unread
<1>2. 0 \in 0 .. NUM_FILES /\ 0 =< 0 /\ 1 .. 0 = {}
  OBVIOUS
<1> QED
  BY <1>1, <1>2, Zenon DEF ListingInv

LEMMA ListingStep ==
  ASSUME DirectoryInv, ListingInv, [ImageNext]_imageVars
  PROVE  ListingInv'
<1>1. \A i : NameOf(i)' = NameOf(i)
  BY DEF ImageNext, imageVars, load_program, directory_read, directory_open, NameOf
<1>2. CASE UNCHANGED << file_position, listing, ended >>
  BY <1>1, <1>2 DEF ListingInv
<1>3. CASE directory_open
  <2>1. Unread'
    BY <1>3 DEF directory_open, Unread
  <2>2. (Unread => ListingInv)'
    BY NothingListed, PTL
  <2> QED
    BY <2>1, <2>2
<1>4. CASE directory_read
  <2>1. ~ended /\ Len(listing) = file_position
    BY <1>4 DEF directory_read, ListingInv
  <2>2. CASE ~ValidIndex(file_position)
    <3>1. ended' = TRUE /\ file_position' = file_position /\ listing' = listing
      BY <1>4, <2>2 DEF directory_read
    <3>2. file_position = NUM_FILES
      BY <2>2 DEF ListingInv, ValidIndex, Indices
    <3> QED
      BY <1>1, <2>1, <3>1, <3>2 DEF ListingInv
  <2>3. CASE ValidIndex(file_position)
    <3> DEFINE name == NameOf(file_position)
    <3>1. /\ file_position' = file_position + 1
          /\ ended' = (name = << >>)
          /\ listing' = IF name = << >> THEN listing ELSE Append(listing, name)
      BY <1>4, <2>3 DEF directory_read, NameOf
    <3>2. name \in Strings /\ file_position \in Indices
      BY <2>3 DEF DirectoryInv, ValidIndex, Storable
    <3> HIDE DEF name
    <3>3. file_position' \in 0 .. NUM_FILES /\ ended' \in BOOLEAN
      BY <3>1, <3>2 DEF Indices
    <3>4. CASE name = << >>
      <4>1. listing' = listing /\ ended' = TRUE
        BY <3>1, <3>4
      <4>2. Len(listing) \in Indices /\ NameOf(Len(listing)) = << >>
        BY <2>1, <3>2, <3>4 DEF name
      <4>3. Len(listing') =< file_position'
        BY <2>1, <3>1, <3>2, <4>1 DEF Indices
      <4> QED
        BY <1>1, <3>3, <4>1, <4>2, <4>3 DEF ListingInv
    <3>5. CASE name # << >>
      <4>1. listing' = Append(listing, name) /\ ended' = FALSE
        BY <3>1, <3>5
      <4>2. listing' \in Seq(Strings) /\ Len(listing') = file_position + 1
        BY <2>1, <3>2, <4>1 DEF ListingInv
      <4>3. ASSUME NEW i \in 1 .. Len(listing')
            PROVE  listing'[i] = NameOf(i - 1) /\ listing'[i] # << >>
        <5>1. CASE i = Len(listing')
          <6>1. listing'[i] = name /\ i - 1 = file_position
            BY <2>1, <4>1, <4>2, <5>1 DEF ListingInv
          <6> QED
            BY <3>5, <6>1 DEF name
        <5>2. CASE i # Len(listing')
          <6>1. i \in 1 .. Len(listing) /\ listing'[i] = listing[i]
            BY <2>1, <4>1, <4>2, <5>2 DEF ListingInv
          <6> QED
            BY <6>1 DEF ListingInv
        <5> QED
          BY <5>1, <5>2
      <4> QED
        BY <1>1, <3>1, <3>3, <4>1, <4>2, <4>3 DEF ListingInv
    <3> QED
      BY <3>4, <3>5
  <2> QED
    BY <2>2, <2>3
<1>5. CASE \E s \in Strings : load_program(s)
  BY <1>2, <1>5 DEF load_program
<1> QED
  BY <1>2, <1>3, <1>4, <1>5 DEF ImageNext, imageVars

LEMMA DirectoryStays ==
  ASSUME DirectoryInv, [ImageNext]_imageVars
  PROVE  DirectoryInv'
<1>1. direntries' = direntries
  BY DEF ImageNext, imageVars, load_program, directory_read, directory_open
<1> QED
  BY <1>1 DEF DirectoryInv, NameOf

\* A listing is of the files, all of them once it has ended.
LEMMA AllListed ==
  ASSUME DirectoryInv, ListingInv
  PROVE  ListsTheFiles
<1>1. ASSUME NEW i \in 1 .. Len(listing)
      PROVE  Lookup(listing[i]) = i - 1
  <2>1. i - 1 \in Indices
    BY DEF ListingInv, Indices
  <2> QED
    BY <2>1, Found DEF ListingInv
<1>2. ASSUME ended
      PROVE  Len(listing) = Cardinality(Names)
  <2> DEFINE n == Len(listing)
  <2>1. n \in 0 .. NUM_FILES
    BY DEF ListingInv
  <2>2. ASSUME NEW i \in Indices
        PROVE  NameOf(i) # << >> <=> i < n
    <3>1. CASE i < n
      <4>1. i + 1 \in 1 .. Len(listing) /\ (i + 1) - 1 = i
        BY <2>1, <3>1 DEF Indices
      <4> QED
        BY <3>1, <4>1 DEF ListingInv
    <3>2. CASE i >= n
      <4>1. n \in Indices /\ NameOf(n) = << >>
        BY <1>2, <2>1, <3>2 DEF ListingInv, Indices
      <4>2. i = n \/ n < i
        BY <2>1, <3>2 DEF Indices
      <4>3. ~(i < n)
        BY <2>1, <3>2 DEF Indices
      <4> QED
        BY <4>1, <4>2, <4>3 DEF DirectoryInv
    <3> QED
      BY <2>1, <3>1, <3>2 DEF Indices
  <2>3. Names = 0 .. n - 1
    <3>1. ASSUME NEW i
          PROVE  i \in Names <=> i \in 0 .. n - 1
      BY <2>1, <2>2 DEF Names, NameOf, Indices
    <3> QED
      BY <3>1
  <2>4. Cardinality(0 .. n - 1) = n
    <3>1. n \in Int /\ n - 1 \in Int /\ n >= 0
      BY <2>1
    <3> HIDE DEF n
    <3>2. Cardinality(0 .. n - 1) = IF 0 > n - 1 THEN 0 ELSE (n - 1) - 0 + 1
      BY <3>1, FS_Interval
    <3> QED
      BY <3>1, <3>2
  <2> QED
    BY <2>3, <2>4
<1> QED
  BY <1>1, <1>2 DEF ListsTheFiles

\* The page holds bytes of files, and a file reported as loaded is whole in it.
PageInv ==
  /\ page \in Seq(Bytes)
  /\ loaded \in Kinds \cup {None}
  /\ LoadedWhole

LEMMA PageStep ==
  ASSUME DirectoryInv, PageInv, [ImageNext]_imageVars
  PROVE  PageInv'
<1>1. CASE UNCHANGED << page, loaded >>
  BY <1>1 DEF PageInv, LoadedWhole, HasMagic, Byte
<1>2. ASSUME NEW s \in Strings, load_program(s)
      PROVE  PageInv'
  <2> DEFINE k == direntries[Lookup(s)].kind
  <2>1. CASE loaded' = None /\ page' = page
    BY <2>1 DEF PageInv, LoadedWhole
  <2>2. CASE /\ Lookup(s) # -1
             /\ page' = Overwritten(k, Sound[k])
             /\ loaded' = IF WholeRead(k) /\ HasMagic(page') THEN k ELSE None
    <3>1. k \in Kinds
      <4>1. Lookup(s) \in Indices
        <5>1. CASE \E i \in Indices : s # << >> /\ NameOf(i) = s
          BY <5>1, Found
        <5>2. CASE \A i \in Indices : s # << >> => NameOf(i) # s
          BY <2>2, <5>2, NotFound
        <5> QED
          BY <5>1, <5>2
      <4> QED
        BY <4>1 DEF DirectoryInv, Dentries
    <3> HIDE DEF k
    <3> DEFINE n == Sound[k]
               copied == [i \in 1 .. n |-> Byte(k, i)]
               rest == SubSeq(page, n + 1, Len(page))
    <3>2. n \in Nat /\ Size[k] \in Nat /\ n =< Size[k]
      BY <3>1
    <3>3. \A i \in 1 .. n : Byte(k, i) \in Bytes
      BY <3>1, <3>2 DEF Byte, Bytes
    <3> HIDE DEF n
    <3>4. copied \in Seq(Bytes) /\ Len(copied) = n /\ \A i \in 1 .. n : copied[i] = Byte(k, i)
      BY <3>2, <3>3
    <3>5. rest \in Seq(Bytes)
      <4>1. ASSUME NEW i \in (n + 1) .. Len(page)
            PROVE  page[i] \in Bytes
        BY <3>2, <4>1 DEF PageInv
      <4>2. page \in Seq(Bytes) /\ n + 1 >= 1
        BY <3>2 DEF PageInv
      <4> QED
        BY <3>2, <4>1, <4>2 DEF PageInv
    <3>6. page' = copied \o rest
      BY <2>2 DEF Overwritten, n
    <3> HIDE DEF copied, rest
    <3>7. /\ page' \in Seq(Bytes) /\ Len(page') >= n
          /\ \A i \in 1 .. n : page'[i] = Byte(k, i)
      BY <3>2, <3>4, <3>5, <3>6
    <3>8. CASE loaded' = None
      BY <3>7, <3>8 DEF PageInv, LoadedWhole
    <3>9. CASE loaded' # None
      <4>1. loaded' = k /\ n = Size[k] /\ HasMagic(page')
        BY <2>2, <3>9 DEF WholeRead, n
      <4>2. k \in Executable
        <5>1. SUFFICES ASSUME Size[k] # 0
                       PROVE  k \in Executable
          BY <3>1
        <5>2. 1 \in 1 .. Magic /\ 1 \in 1 .. n
          BY <3>2, <4>1, <5>1
        <5>3. PICK e \in Executable : page'[1] = Byte(e, 1)
          BY <4>1, <5>2 DEF HasMagic
        <5>4. Byte(e, 1) = Byte(k, 1)
          BY <3>7, <5>2, <5>3
        <5> QED
          BY <5>4 DEF Byte
      <4> QED
        BY <3>1, <3>7, <4>1, <4>2 DEF PageInv, LoadedWhole
    <3> QED
      BY <3>8, <3>9
  <2> QED
    BY <1>2, <2>1, <2>2 DEF load_program
<1> QED
  BY <1>1, <1>2 DEF ImageNext, imageVars, directory_read, directory_open

LEMMA PageInit == ImageInit => PageInv
BY DEF ImageInit, PageInv, LoadedWhole

LEMMA ImageStaysSound == ImageSpec => [](DirectoryInv /\ ListingInv /\ PageInv)
<1>1. ImageInit => ListingInv
  BY NothingListed DEF ImageInit, Unread
<1> QED
  BY <1>1, DirectoryInit, PageInit, DirectoryStays, ListingStep, PageStep,
     PTL DEF ImageSpec

\* In every image, whatever the names, a name finds its file and nothing else,
\* and a program that lists the directory is given each file once, by a name
\* that opens it (read_dentry_by_name, strncmp, directory_read).
THEOREM NamesResolved == ImageSpec => []NamesFind
<1>1. DirectoryInv /\ ListingInv /\ PageInv => NamesFind
  <2> SUFFICES ASSUME DirectoryInv, ListingInv, PageInv
               PROVE  NamesFind
    OBVIOUS
  <2>1. ImageTypeOK
    <3>1. Len(listing) =< NUM_FILES
      BY DEF ListingInv
    <3> QED
      BY <3>1 DEF ImageTypeOK, DirectoryInv, ListingInv, PageInv
  <2> QED
    BY <2>1, NamesResolve, AllListed DEF NamesFind
<1> QED
  BY <1>1, ImageStaysSound, PTL

\* load_program reports success only for a file that is whole in the page and
\* agrees with the magic number as far as it goes; what a shorter file leaves of
\* that number was in the page (vfs.c:46 to 59).
THEOREM OnlyWholeFilesRun == ImageSpec => []LoadedWhole
<1>1. PageInv => LoadedWhole
  BY DEF PageInv
<1> QED
  BY <1>1, ImageStaysSound, PTL

=============================================================================
