-------------------------- MODULE VirtualTerminals --------------------------
(***************************************************************************)
(* The video pages of the mp3 kernel.                                      *)
(*                                                                         *)
(* The page VIDEO_BASE is what the monitor shows; each terminal has a      *)
(* storage page of its own for the time it is not on display.  The kernel  *)
(* draws through terminals[t].video_start.  A program that called vidmap   *)
(* draws through its entry of video_mem_page_table, which switch_terminal  *)
(* must redirect in every slot.  A page is abstracted to its last drawing: *)
(* the terminal of the program that drew, and what.                        *)
(*                                                                         *)
(* Each action runs with interrupts off (terminal_write, vidmap and        *)
(* switch_terminal clear IF, the echo is in the keyboard handler) or is a  *)
(* single store of a user program.  Slots are given out and back as        *)
(* execute, halt and switch_terminal do (module Kernel); which programs of *)
(* a terminal wait for which is left out here.                             *)
(***************************************************************************)
EXTENDS Integers

CONSTANTS
  NumProcs,          (* NUM_MAX_PROCESSES                                   *)
  NumTerminals,      (* NUM_TERMINALS                                       *)
  Values,            (* what a program can draw                             *)
  PowerOn,           (* what the storage pages hold when the kernel starts  *)
  Blank              (* a cleared page                                      *)

ASSUME VirtualTerminalsAssumption ==
  /\ NumProcs \in Nat \ {0}
  /\ NumTerminals \in Nat \ {0}

VARIABLES
  memory,                 (* the last drawing on each video page            *)
  video_start,            (* terminals[t].video_start                       *)
  active_terminal_index,  (* the terminal on display                        *)
  page_table,             (* video_mem_page_table[p][0], or NotPresent      *)
  terminal_index,         (* the terminal of the program in each slot       *)
  vidmapped               (* the terminal that was on display when the      *)
                          (* program in the slot called vidmap, or Nowhere  *)

videoVars == << memory, video_start, active_terminal_index, page_table,
                terminal_index, vidmapped >>

Pids == 1 .. NumProcs
Terminals == 0 .. NumTerminals - 1
Nowhere == -1          \* no terminal: the slot is free, vidmap was not called
Video == -1            \* the page VIDEO_BASE
NotPresent == -2
storage_location(t) == t
Pages == Terminals \cup {Video}
Drawings == Terminals \X Values

VideoTypeOK ==
  /\ memory \in [Pages -> Drawings \cup {PowerOn, Blank}]
  /\ video_start \in [Terminals -> Pages]
  /\ active_terminal_index \in Terminals
  /\ page_table \in [Pids -> Pages \cup {NotPresent}]
  /\ terminal_index \in [Pids -> Terminals \cup {Nowhere}]
  /\ vidmapped \in [Pids -> Terminals \cup {Nowhere}]

(***************************************************************************)
(* init_terminals, whose loop over the "vram buffers" adds VIDEO_BASE to   *)
(* addresses that contain it already and so clears none of them; clear()   *)
(* blanks the screen of terminal 0, and the first shell runs there.        *)
(***************************************************************************)
VideoInit ==
  /\ memory = [g \in Pages |-> IF g = Video THEN Blank ELSE PowerOn]
  /\ video_start = [t \in Terminals |-> IF t = 0 THEN Video ELSE storage_location(t)]
  /\ active_terminal_index = 0
  /\ page_table = [p \in Pids |-> NotPresent]
  /\ terminal_index = [p \in Pids |-> IF p = 1 THEN 0 ELSE Nowhere]
  /\ vidmapped = [p \in Pids |-> Nowhere]

InUse(t) == \E p \in Pids : terminal_index[p] = t

-----------------------------------------------------------------------------
\* The page terminal_putc, clear_terminal and backspace of terminal t write to.
Target(t) == video_start[t]

(***************************************************************************)
(* terminal_write by a program of terminal t, or the echo of a key, Ctrl+L *)
(* or backspace when t is on display.                                      *)
(***************************************************************************)
TerminalPut(t, v) ==
  /\ InUse(t)
  /\ memory' = [memory EXCEPT ![Target(t)] = << t, v >>]
  /\ UNCHANGED << video_start, active_terminal_index, page_table,
                  terminal_index, vidmapped >>

\* The page vidmap maps at 256MB: 184 * KB_4 is VIDEO_BASE.
VidmapPage == Video

(***************************************************************************)
(* vidmap maps VIDEO_BASE, whichever terminal is on display.               *)
(***************************************************************************)
Vidmap(p) ==
  /\ terminal_index[p] # Nowhere
  /\ page_table' = [page_table EXCEPT ![p] = VidmapPage]
  /\ vidmapped' = [vidmapped EXCEPT ![p] = active_terminal_index]
  /\ UNCHANGED << memory, video_start, active_terminal_index, terminal_index >>

\* A program draws through the page vidmap gave it.
MappedPut(p, v) ==
  /\ vidmapped[p] # Nowhere
  /\ memory' = [memory EXCEPT ![page_table[p]] = << terminal_index[p], v >>]
  /\ UNCHANGED << video_start, active_terminal_index, page_table,
                  terminal_index, vidmapped >>

\* execute: a program starts on terminal t, in a free slot whose page table
\* entry is still that of the slot's last program.
Start(p, t) ==
  /\ terminal_index[p] = Nowhere
  /\ InUse(t)
  /\ terminal_index' = [terminal_index EXCEPT ![p] = t]
  /\ UNCHANGED << memory, video_start, active_terminal_index, page_table, vidmapped >>

\* halt of a program that is not the last of its terminal.
Halt(p) ==
  /\ \E q \in Pids \ {p} : terminal_index[q] = terminal_index[p]
  /\ terminal_index[p] # Nowhere
  /\ terminal_index' = [terminal_index EXCEPT ![p] = Nowhere]
  /\ vidmapped' = [vidmapped EXCEPT ![p] = Nowhere]
  /\ UNCHANGED << memory, video_start, active_terminal_index, page_table >>

-----------------------------------------------------------------------------
\* Seeded fault: the new screen is loaded before the old one is saved.
Exchanged_Fault(old, next) ==
  LET loaded == [memory EXCEPT ![Video] = memory[storage_location(next)]]
  IN  [loaded EXCEPT ![storage_location(old)] = loaded[video_start[old]]]

\* The two memcpys: the old screen to its storage, the new one to VIDEO_BASE.
Exchanged(old, next) ==
  LET saved == [memory EXCEPT ![storage_location(old)] = memory[video_start[old]]]
  IN  [saved EXCEPT ![Video] = saved[storage_location(next)]]

\* Seeded fault: only the mappings of VIDEO_BASE are redirected.
Remapped_Fault(old, next) ==
  [p \in Pids |-> IF page_table[p] = Video THEN storage_location(old) ELSE page_table[p]]

\* The loop over all slots that redirects the present user mappings.
Remapped(old, next) ==
  [p \in Pids |->
     CASE page_table[p] = Video -> storage_location(old)
       [] page_table[p] = storage_location(next) -> Video
       [] OTHER -> page_table[p]]

\* video_start of the two terminals that change places.
Redirected(old, next) ==
  [video_start EXCEPT ![old] = storage_location(old), ![next] = Video]

\* switch_terminal(n), either path; a terminal without a process gets a shell
\* in a free slot, or nothing happens at all.
SwitchTerminal(n) ==
  LET old == active_terminal_index IN
  /\ n # old
  /\ \/ InUse(n) /\ UNCHANGED terminal_index
     \/ /\ ~InUse(n)
        /\ \E p \in Pids :
             /\ terminal_index[p] = Nowhere
             /\ \A q \in Pids : q < p => terminal_index[q] # Nowhere
             /\ terminal_index' = [terminal_index EXCEPT ![p] = n]
  /\ memory' = Exchanged(old, n)
  /\ video_start' = Redirected(old, n)
  /\ page_table' = Remapped(old, n)
  /\ active_terminal_index' = n
  /\ UNCHANGED vidmapped

-----------------------------------------------------------------------------
VideoNext ==
  \/ \E t \in Terminals, v \in Values : TerminalPut(t, v)
  \/ \E p \in Pids :
       \/ Vidmap(p)
       \/ Halt(p)
       \/ \E v \in Values : MappedPut(p, v)
       \/ \E t \in Terminals : Start(p, t)
  \/ \E n \in Terminals : SwitchTerminal(n)

VideoSpec == VideoInit /\ [][VideoNext]_videoVars

-----------------------------------------------------------------------------
(***************************************************************************)
(* switch_terminal leaves exactly the terminal on display on VIDEO_BASE,   *)
(* every other one on its own storage, and every mapping where the         *)
(* terminal draws that was on display when vidmap was called: the mappings *)
(* of slots that changed hands, of waiting parents and of several programs *)
(* follow that terminal through every switch, on display or not.           *)
(***************************************************************************)
MappingsFollow ==
  /\ \A t \in Terminals :
       video_start[t] = IF t = active_terminal_index THEN Video ELSE storage_location(t)
  /\ \A p \in Pids : vidmapped[p] # Nowhere =>
       /\ terminal_index[p] # Nowhere
       /\ page_table[p] = video_start[vidmapped[p]]

(***************************************************************************)
(* The pages, video_start and the mappings together implement one screen   *)
(* per terminal with the displayed one on the monitor, where a program     *)
(* draws on its own terminal's screen and on the one that was on display   *)
(* when it called vidmap, and nowhere else (module Screens).               *)
(***************************************************************************)
Lent == {<< terminal_index[p], vidmapped[p] >> : p \in {q \in Pids : vidmapped[q] # Nowhere}}

AllScreens == INSTANCE Screens WITH
  screen <- [t \in Terminals |-> memory[video_start[t]]],
  display <- active_terminal_index,
  monitor <- memory[Video],
  lent <- Lent

ImplementsScreens == AllScreens!Spec
=============================================================================
