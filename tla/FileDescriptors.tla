--------------------------- MODULE FileDescriptors ---------------------------
(***************************************************************************)
(* The file descriptors of the mp3 kernel: the file_array of one PCB, from *)
(* program to program.  open, close, read and write dispatch on the        *)
(* descriptor; what the terminal, the clock and the file image do with a   *)
(* call is left to modules TerminalInput and ReadData: here a read of a    *)
(* regular file moves the position by what read_data returns.              *)
(*                                                                         *)
(* Only the process itself touches its file_array, and only the timer and  *)
(* keyboard interrupts come between its calls, so each call is one action. *)
(***************************************************************************)
EXTENDS Integers, FiniteSets

CONSTANTS
  NumFds,      (* NUM_MAX_OPEN_FILES                                   *)
  NumEntries,  (* NUM_FILES, the directory entries of the file image   *)
  Regular,     (* the regular files                                    *)
  Corrupt,     (* those with data block numbers outside the image      *)
  FileLength,  (* their lengths                                        *)
  Directory,   (* the directory                                        *)
  Clock,       (* the file "rtc"                                       *)
  Requests,    (* values of nbytes (as unsigned) and of frequencies    *)
  NoFile       (* inode_num of an entry that is no file's              *)

ASSUME FileDescriptorsAssumption ==
  /\ NumFds \in Nat /\ NumFds > 2
  /\ NumEntries \in Nat
  /\ FileLength \in [Regular -> Nat]
  /\ Corrupt \subseteq Regular
  /\ {Directory, Clock, NoFile} \cap Regular = {}
  /\ Directory # Clock /\ NoFile \notin {Directory, Clock}
  /\ Requests \subseteq Nat

VARIABLES
  file_array,   (* the open files                                       *)
  running,      (* a program runs in this slot                          *)
  held,         (* the descriptors open() returned and close() did not  *)
                (* take back: what the program knows                    *)
  delivered     (* how many bytes of the file each descriptor has given *)

vars == << file_array, running, held, delivered >>

Files == Regular \cup {Directory, Clock}
Fds == 0 .. NumFds - 1
UserFds == 2 .. NumFds - 1

\* 1024 is 2^10; rtc_write takes powers of two from 2 on.
Rates == {2, 4, 8, 16, 32, 64, 128, 256, 512, 1024}

Ops == {"none", "terminal_ops", "file_ops", "directory_ops", "rtc_ops"}

Entries ==
  [file_ops_table_ptr : Ops, inode_num : Files \cup {NoFile},
   file_position : Int, flags : {"FILE_AVAIL", "FILE_OCCUP"}]

TypeOK ==
  /\ file_array \in [Fds -> Entries]
  /\ running \in BOOLEAN
  /\ held \subseteq UserFds
  /\ delivered \in [Fds -> Nat]

blank == [file_ops_table_ptr |-> "none", inode_num |-> NoFile,
          file_position |-> 0, flags |-> "FILE_AVAIL"]

terminal == [file_ops_table_ptr |-> "terminal_ops", inode_num |-> NoFile,
             file_position |-> 0, flags |-> "FILE_OCCUP"]

\* init_file_array
InitialArray == [fd \in Fds |-> IF fd \in {0, 1} THEN terminal ELSE blank]

\* A slot no program ran in yet; its memory is cleared.
Init ==
  /\ file_array = [fd \in Fds |-> [blank EXCEPT !.flags = "FILE_OCCUP"]]
  /\ running = FALSE
  /\ held = {}
  /\ delivered = [fd \in Fds |-> 0]

Avail(array, fd) == array[fd].flags = "FILE_AVAIL"

-----------------------------------------------------------------------------
\* execute and switch_terminal set up the slot for a program.
Start ==
  /\ ~running
  /\ file_array' = InitialArray
  /\ running' = TRUE
  /\ held' = {}
  /\ UNCHANGED delivered

\* Seeded fault: the scan takes the first entry of all.
Lowest_Fault(array, fd) == fd = 0

\* The free entry file_open finds.
Lowest(array, fd) ==
  /\ fd \in UserFds
  /\ Avail(array, fd)
  /\ \A other \in UserFds : other < fd => ~Avail(array, other)

\* Seeded fault: rtc_open leaves the frequency to rtc_write.
Entry_Fault(f) ==
  [file_ops_table_ptr |-> IF f = Clock THEN "rtc_ops"
                          ELSE IF f = Directory THEN "directory_ops" ELSE "file_ops",
   inode_num |-> f, file_position |-> 0, flags |-> "FILE_OCCUP"]

\* The entry file_open and rtc_open make for f.
Entry(f) ==
  [file_ops_table_ptr |-> IF f = Clock THEN "rtc_ops"
                          ELSE IF f = Directory THEN "directory_ops" ELSE "file_ops",
   inode_num |-> f,
   file_position |-> IF f = Clock THEN 2 ELSE 0,
   flags |-> "FILE_OCCUP"]

\* open of a regular file or a directory; with no free entry nothing happens.
OpenFile(f) ==
  /\ running
  /\ \E fd \in Fds :
       /\ Lowest(file_array, fd)
       /\ file_array' = [file_array EXCEPT ![fd] = Entry(f)]
       /\ held' = held \cup {fd}
       /\ delivered' = [delivered EXCEPT ![fd] = 0]
  /\ UNCHANGED running

\* open of the rtc device calls file_open twice and returns what the second
\* call returns; when there was one free entry only, it fails.
OpenClock ==
  /\ running
  /\ \E fd \in Fds :
       /\ Lowest(file_array, fd)
       /\ LET once == [file_array EXCEPT ![fd] = Entry(Clock)] IN
          \/ \E second \in Fds :
               /\ Lowest(once, second)
               /\ file_array' = [once EXCEPT ![second] = Entry(Clock)]
               /\ held' = held \cup {second}
          \/ /\ \A second \in UserFds : ~Avail(once, second)
             /\ file_array' = once
             /\ UNCHANGED held
  /\ UNCHANGED << running, delivered >>

\* close, by whichever of the three functions; an entry that is not open, and
\* stdin and stdout, are refused.
Close(fd) ==
  /\ running
  /\ fd \in UserFds
  /\ ~Avail(file_array, fd)
  /\ file_array' = [file_array EXCEPT ![fd] = blank]
  /\ held' = held \ {fd}
  /\ UNCHANGED << running, delivered >>

-----------------------------------------------------------------------------
\* The system calls read and write refuse a free entry and dispatch on the
\* functions of any other.
read(fd, ops) == ~Avail(file_array, fd) /\ file_array[fd].file_ops_table_ptr = ops

write(fd, ops) == ~Avail(file_array, fd) /\ file_array[fd].file_ops_table_ptr = ops

\* What read_data returns for n bytes of f at position pos (module ReadData);
\* a position below 0 is a large unsigned one.
BytesRead(f, pos, n) ==
  IF pos < 0 \/ pos >= FileLength[f] THEN {0}
  ELSE {IF n < FileLength[f] - pos THEN n ELSE FileLength[f] - pos}
       \cup IF f \in Corrupt THEN {-1} ELSE {}

\* Seeded fault: the position moves by what was asked for.
Moved_Fault(pos, n, got) == pos + n

\* file_read adds what read_data returned, -1 too.
Moved(pos, n, got) == pos + got

\* read of a regular file
FileRead(fd, n) ==
  /\ running
  /\ read(fd, "file_ops")
  /\ \E got \in BytesRead(file_array[fd].inode_num, file_array[fd].file_position, n) :
       /\ file_array' = [file_array EXCEPT ![fd].file_position = Moved(@, n, got)]
       /\ delivered' = [delivered EXCEPT ![fd] = IF got > 0 THEN @ + got ELSE @]
  /\ UNCHANGED << running, held >>

\* read of the directory: the next name, if there is an entry left
DirectoryRead(fd) ==
  /\ running
  /\ read(fd, "directory_ops")
  /\ file_array[fd].file_position \in 0 .. NumEntries - 1
  /\ file_array' = [file_array EXCEPT ![fd].file_position = @ + 1]
  /\ UNCHANGED << running, held, delivered >>

\* write of a frequency to the clock; files, directories and stdin refuse
RtcWrite(fd, freq) ==
  /\ running
  /\ write(fd, "rtc_ops")
  /\ freq \in Rates
  /\ file_array' = [file_array EXCEPT ![fd].file_position = freq]
  /\ UNCHANGED << running, held, delivered >>

\* The file_array after halt closed every descriptor from 2 on.
AllClosed == [fd \in Fds |-> IF fd \in UserFds THEN blank ELSE file_array[fd]]

\* halt of a program another one executed
HaltChild ==
  /\ running
  /\ file_array' = AllClosed
  /\ running' = FALSE
  /\ held' = {}
  /\ UNCHANGED delivered

\* halt of a root shell: the shell starts again, without init_file_array
HaltRoot ==
  /\ running
  /\ file_array' = AllClosed
  /\ held' = {}
  /\ UNCHANGED << running, delivered >>

Next ==
  \/ Start
  \/ \E f \in Regular \cup {Directory} : OpenFile(f)
  \/ OpenClock
  \/ \E fd \in Fds :
       \/ Close(fd)
       \/ DirectoryRead(fd)
       \/ \E n \in Requests : FileRead(fd, n) \/ RtcWrite(fd, n)
  \/ HaltChild
  \/ HaltRoot

Spec == Init /\ [][Next]_vars

-----------------------------------------------------------------------------
(***************************************************************************)
(* While a program runs, every entry can be used by the functions it       *)
(* dispatches to: a free one has none and is never called; stdin and       *)
(* stdout stay the terminal's, which no other function may get; the        *)
(* position of a clock is a frequency, by which rtc_read divides; that of  *)
(* a directory or a file lies in it.  open, rtc_open, rtc_write, the       *)
(* reads, close and halt's loop each set a part of the entry.              *)
(***************************************************************************)
EntryOk(fd, e) ==
  IF e.flags = "FILE_AVAIL" THEN fd \in UserFds /\ e.file_ops_table_ptr = "none"
  ELSE \/ e.file_ops_table_ptr = "terminal_ops" /\ fd \in {0, 1}
       \/ /\ fd \in UserFds
          /\ \/ /\ e.file_ops_table_ptr = "rtc_ops"
                /\ e.inode_num = Clock
                /\ e.file_position \in Rates
             \/ /\ e.file_ops_table_ptr = "directory_ops"
                /\ e.inode_num = Directory
                /\ e.file_position \in 0 .. NumEntries
             \/ /\ e.file_ops_table_ptr = "file_ops"
                /\ e.inode_num \in Regular
                /\ e.inode_num \notin Corrupt =>
                     e.file_position \in 0 .. FileLength[e.inode_num]

EntriesOk == running => \A fd \in Fds : EntryOk(fd, file_array[fd])

(***************************************************************************)
(* A program that starts finds stdin, stdout and nothing else open: in     *)
(* particular a root shell that halted, for which halt's loop of close is  *)
(* all that cleans up.                                                     *)
(***************************************************************************)
CleanStart == [][Start \/ HaltRoot => file_array' = InitialArray]_vars

(***************************************************************************)
(* open never takes an entry the program still holds, and no call changes  *)
(* what another descriptor stands for or has two positions move at once.   *)
(***************************************************************************)
Kept == held \cap held'

HeldKept ==
  [][ /\ \A fd \in Kept :
           file_array'[fd] = [file_array[fd] EXCEPT
                                !.file_position = file_array'[fd].file_position]
      /\ \A fd, other \in Kept :
           file_array'[fd] # file_array[fd] /\ file_array'[other] # file_array[other]
             => fd = other
      /\ \A fd \in Kept : file_array'[fd] # file_array[fd] => held' = held ]_vars

\* The table is the program's own from its start on: it starts clean, and what
\* is open in it stays what it was (halt, open, close; syscalls.c:127, 28).
DescriptorsKept == CleanStart /\ HeldKept

(***************************************************************************)
(* file_read "return[s] number of bytes read, update[s] file position":    *)
(* the position of a file is the number of bytes read from it since it was *)
(* opened, so that reading on neither skips nor repeats a byte.            *)
(***************************************************************************)
PositionCountsBytes ==
  \A fd \in held : file_array[fd].file_ops_table_ptr = "file_ops" =>
    file_array[fd].file_position = delivered[fd]
=============================================================================
