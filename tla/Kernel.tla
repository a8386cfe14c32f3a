------------------------------- MODULE Kernel -------------------------------
(***************************************************************************)
(* Processes, terminals and the scheduler of the mp3 kernel.               *)
(*                                                                         *)
(* A process is a PCB slot (1..NumProcs; 0 is the boot stack, whose bottom *)
(* 8KB has the shape of a PCB as well).  Every terminal runs a chain of    *)
(* programs: a root shell, the program it executes, and so on; only the    *)
(* last of the chain runs, the others wait inside execute().  The timer    *)
(* interrupt (schedule) passes the processor from terminal to terminal,    *)
(* and the keyboard interrupt (switch_terminal) changes the terminal on    *)
(* display and starts a root shell on one that has none.                   *)
(*                                                                         *)
(* Atomicity.  execute and halt begin with cli and leave the kernel with   *)
(* an iret, and the two interrupt handlers run behind interrupt gates, so  *)
(* each is one action.  Everywhere else, system calls included (their gate *)
(* is a trap gate, which leaves IF alone), the running process can be      *)
(* interrupted: that is the point "program" below.  While IRQ0 is in       *)
(* service at the PIC no other line can interrupt, so the stretch from     *)
(* schedule's kernel switch to the EOI of the process switched to is one   *)
(* state, left by TimerEoi only.                                           *)
(***************************************************************************)
EXTENDS Integers, FiniteSets

CONSTANTS
  NumProcs,      (* NUM_MAX_PROCESSES                                      *)
  NumTerminals,  (* NUM_TERMINALS                                          *)
  Programs,      (* executable files                                       *)
  DataFiles,     (* regular files without the ELF magic number             *)
  Shell,         (* the program "shell"                                    *)
  NoImage        (* the page of a slot nothing was ever loaded into        *)

ASSUME KernelAssumption ==
  /\ NumProcs \in Nat \ {0}
  /\ NumTerminals \in Nat \ {0}
  /\ Shell \in Programs

VARIABLES
  active,                 (* active[p]: slot p is in use                   *)
  active_process,         (* the process running on each terminal, or -1   *)
  active_terminal_index,  (* the terminal on display                       *)
  terminal_iter,          (* the terminal schedule() gave the processor to *)
  curr_process,           (* the pid the kernel believes is running        *)
  cr3,                    (* whose page directory is loaded                *)
  esp0,                   (* whose kernel stack the processor enters on    *)
  parent_num,             (* PCB: pid of the parent, 0 for a root shell    *)
  terminal_index,         (* PCB: the terminal of the process              *)
  is_user_mode,           (* PCB: schedule() resumes it in user mode       *)
  current_eip,            (* PCB: where schedule() resumes it              *)
  image,                  (* the file last copied into the slot's 4MB page *)
  point,                  (* where the process has really stopped, or runs *)
  in_service              (* IRQ0 raised and not acknowledged yet          *)

vars == << active, active_process, active_terminal_index, terminal_iter,
           curr_process, cr3, esp0, parent_num, terminal_index, is_user_mode,
           current_eip, image, point, in_service >>

Pids == 1 .. NumProcs
Boot == 0
Terminals == 0 .. NumTerminals - 1
NoProcess == -1
Files == Programs \cup DataFiles

(***************************************************************************)
(* The points of a process: a free slot; a root shell set up by            *)
(* switch_terminal that never ran; inside its program or an interruptible  *)
(* part of a system call; inside schedule() at the label EIP_RETURN;       *)
(* inside execute(), waiting for its child; and "lost", a process whose    *)
(* registers were loaded from values that do not describe its stack.       *)
(***************************************************************************)
Points == {"free", "entry", "program", "EIP_RETURN", "execute", "lost"}

Eips == {"none", "entry", "EIP_RETURN"}

TypeOK ==
  /\ active \in [Pids -> BOOLEAN]
  /\ active_process \in [Terminals -> Pids \cup {NoProcess}]
  /\ active_terminal_index \in Terminals
  /\ terminal_iter \in Terminals
  /\ curr_process \in Pids \cup {Boot}
  /\ cr3 \in Pids
  /\ esp0 \in Pids \cup {Boot}
  /\ parent_num \in [Pids -> Pids \cup {Boot}]
  /\ terminal_index \in [Pids \cup {Boot} -> Terminals]
  /\ is_user_mode \in [Pids -> BOOLEAN]
  /\ current_eip \in [Pids -> Eips]
  /\ image \in [Pids -> Files \cup {NoImage}]
  /\ point \in [Pids \cup {Boot} -> Points]
  /\ in_service \in BOOLEAN

(***************************************************************************)
(* Reset: init_terminals, initPaging and the tss set-up of entry() are     *)
(* done, interrupts are off, and the boot stack is about to execute shell. *)
(* The boot PCB is never written: its terminal_index is what memory held,  *)
(* which is 0 on the cleared memory of the machines the kernel runs on.    *)
(***************************************************************************)
Init ==
  /\ active = [p \in Pids |-> FALSE]
  /\ active_process = [t \in Terminals |-> NoProcess]
  /\ active_terminal_index = 0
  /\ terminal_iter = 0
  /\ curr_process = Boot
  /\ cr3 = 1
  /\ esp0 = Boot
  /\ parent_num = [p \in Pids |-> 0]
  /\ terminal_index = [p \in Pids \cup {Boot} |-> 0]
  /\ is_user_mode = [p \in Pids |-> FALSE]
  /\ current_eip = [p \in Pids |-> "none"]
  /\ image = [p \in Pids |-> NoImage]
  /\ point = [p \in Pids \cup {Boot} |-> IF p = Boot THEN "program" ELSE "free"]
  /\ in_service = FALSE

-----------------------------------------------------------------------------
(***************************************************************************)
(* Helpers.                                                                *)
(***************************************************************************)

\* Seeded fault: the scan skips the caller's slot instead of every active one.
FreeSlot_Fault(p) == p \in Pids /\ p = IF curr_process = 1 THEN 2 ELSE 1

\* The lowest inactive slot, as the scan over active[] finds it.
FreeSlot(p) ==
  /\ p \in Pids
  /\ ~active[p]
  /\ \A q \in Pids : q < p => active[q]

\* Seeded fault: the page directory of the interrupted process stays loaded.
DirectoryFor_Fault(p) == cr3

\* The page directory in cr3 while a file is copied for slot p: execute and
\* switch_terminal load that of the slot first, and another one afterwards.
DirectoryFor(p) == p

\* load_program() copies to the address 128MB, whatever page is there in the
\* page directory that is loaded, before it looks at the magic number.
load_program(directory, f) == [image EXCEPT ![directory] = f]

\* getCurrentProcessPCB(): the PCB under the kernel stack the processor is on.
CurrentPcb == esp0

\* Seeded fault: the child goes to the terminal on display.
CallerTerminal_Fault == active_terminal_index

\* getCurrentProcessPCB()->terminal_index, the terminal a child inherits.
CallerTerminal == terminal_index[CurrentPcb]

\* Page directory, kernel stack and curr_process all become those of p.
SwitchTo(p) ==
  /\ cr3' = p
  /\ esp0' = p
  /\ curr_process' = p

\* The processor is in code that a system call or an interrupt may leave.
Interruptible == curr_process # Boot /\ ~in_service

-----------------------------------------------------------------------------
(***************************************************************************)
(* execute(f): load f into the lowest free slot, make it the process of    *)
(* the caller's terminal, run it.  With no free slot execute returns -1    *)
(* and nothing has changed; the boot stack executes shell only.            *)
(***************************************************************************)
Execute(f) ==
  /\ ~in_service
  /\ f \in Programs
  /\ curr_process = Boot => f = Shell
  /\ \E p \in Pids :
       /\ FreeSlot(p)
       /\ image' = load_program(DirectoryFor(p), f)
       /\ active' = [active EXCEPT ![p] = TRUE]
       /\ parent_num' = [parent_num EXCEPT ![p] = curr_process]
       /\ terminal_index' = [terminal_index EXCEPT ![p] = CallerTerminal]
       /\ active_process' = [active_process EXCEPT ![CallerTerminal] = p]
       /\ point' = [point EXCEPT ![curr_process] = "execute", ![p] = "program"]
       /\ SwitchTo(p)
  /\ UNCHANGED << active_terminal_index, terminal_iter, is_user_mode,
                  current_eip, in_service >>

(***************************************************************************)
(* execute(f) of a file that is not executable: load_program copies the    *)
(* file into the free slot's page before it looks at the magic number, and *)
(* the caller's page directory is loaded again.                            *)
(***************************************************************************)
ExecuteFails(f) ==
  /\ Interruptible
  /\ f \in DataFiles
  /\ \E p \in Pids :
       /\ FreeSlot(p)
       /\ image' = load_program(DirectoryFor(p), f)
  /\ cr3' = curr_process
  /\ UNCHANGED << active, active_process, active_terminal_index, terminal_iter,
                  curr_process, esp0, parent_num, terminal_index, is_user_mode,
                  current_eip, point, in_service >>

\* active[] once the slot of p is given back.
Released(p) == [active EXCEPT ![p] = FALSE]

\* Seeded fault: the parent becomes the process of the terminal on display.
HandedBack_Fault(parent) ==
  [active_process EXCEPT ![active_terminal_index] = parent]

\* The terminals once parent is again the process of the halting one's.
HandedBack(parent) ==
  [active_process EXCEPT ![terminal_index[CurrentPcb]] = parent]

(***************************************************************************)
(* halt of a program some process executed: its slot becomes free and the  *)
(* parent goes on behind its call of execute, on the stack saved there.    *)
(***************************************************************************)
HaltChild ==
  LET parent == parent_num[CurrentPcb] IN
  /\ Interruptible
  /\ parent # 0
  /\ active_process' = HandedBack(parent)
  /\ active' = Released(curr_process)
  /\ point' = [point EXCEPT
       ![curr_process] = "free",
       ![parent] = IF point[parent] = "execute" THEN "program" ELSE "lost"]
  /\ SwitchTo(parent)
  /\ UNCHANGED << active_terminal_index, terminal_iter, parent_num,
                  terminal_index, is_user_mode, current_eip, image, in_service >>

(***************************************************************************)
(* halt of a root shell: the program still in its page starts again from   *)
(* its entry point, in the same slot.                                      *)
(***************************************************************************)
HaltRoot ==
  /\ Interruptible
  /\ parent_num[CurrentPcb] = 0
  /\ point' = [point EXCEPT ![curr_process] = "program"]
  /\ UNCHANGED << active, active_process, active_terminal_index, terminal_iter,
                  curr_process, cr3, esp0, parent_num, terminal_index,
                  is_user_mode, current_eip, image, in_service >>

-----------------------------------------------------------------------------
(***************************************************************************)
(* schedule(), the timer interrupt.                                        *)
(***************************************************************************)

\* Seeded fault: the search starts at the terminal that just had its turn.
StepsTo_Fault(t) == (t - terminal_iter) % NumTerminals

\* How far schedule()'s loop advances terminal_iter before it stops at t.
StepsTo(t) == (t - terminal_iter - 1) % NumTerminals

\* The first terminal after terminal_iter, round robin, that runs a process.
NextTerminal(t) ==
  /\ t \in Terminals
  /\ active_process[t] # NoProcess
  /\ \A u \in Terminals : active_process[u] # NoProcess => StepsTo(t) =< StepsTo(u)

\* The registers schedule() saves in the PCB of the process it preempts.
ModeSaved == [is_user_mode EXCEPT ![CurrentPcb] = FALSE]
EipSaved == [current_eip EXCEPT ![CurrentPcb] = "EIP_RETURN"]
PointSaved == [point EXCEPT ![curr_process] = "EIP_RETURN"]

\* Seeded fault: the user-mode branch has no send_eoi.
EoiBeforeSwitch_Fault(p) == FALSE

\* schedule() acknowledges the interrupt before it leaves for user mode.
EoiBeforeSwitch(p) == ModeSaved[p]

(***************************************************************************)
(* A process in user mode starts at its entry point, the interrupt being   *)
(* acknowledged already; one in kernel mode goes on at the label           *)
(* EIP_RETURN and acknowledges the interrupt itself (TimerEoi).  p is the  *)
(* process switched to, which may be the one just preempted.               *)
(***************************************************************************)
Resume(p) ==
  LET consistent == /\ EipSaved[p] = PointSaved[p]
                    /\ ModeSaved[p] <=> EipSaved[p] = "entry"
      target == IF ModeSaved[p] THEN "program" ELSE "EIP_RETURN"
  IN
  /\ point' = [PointSaved EXCEPT ![p] = IF consistent THEN target ELSE "lost"]
  /\ in_service' = ~EoiBeforeSwitch(p)

Schedule ==
  /\ Interruptible
  /\ is_user_mode' = ModeSaved
  /\ current_eip' = EipSaved
  /\ \E t \in Terminals :
       /\ NextTerminal(t)
       /\ terminal_iter' = t
       /\ SwitchTo(active_process[t])
       /\ Resume(active_process[t])
  /\ UNCHANGED << active, active_process, active_terminal_index, parent_num,
                  terminal_index, image >>

(***************************************************************************)
(* The tail of scheduler_handler, run by the process that was switched to: *)
(* send_eoi(0), pop the registers and return to what was interrupted.      *)
(***************************************************************************)
TimerEoi ==
  /\ in_service
  /\ point[curr_process] = "EIP_RETURN"
  /\ point' = [point EXCEPT ![curr_process] = "program"]
  /\ in_service' = FALSE
  /\ UNCHANGED << active, active_process, active_terminal_index, terminal_iter,
                  curr_process, cr3, esp0, parent_num, terminal_index,
                  is_user_mode, current_eip, image >>

-----------------------------------------------------------------------------
(***************************************************************************)
(* switch_terminal(n), called by the keyboard interrupt on Alt+F1..F3.     *)
(* It returns at once when n is on display already.                        *)
(***************************************************************************)

\* Terminal n runs something: show it.
ShowTerminal(n) ==
  /\ Interruptible
  /\ n # active_terminal_index
  /\ active_process[n] # NoProcess
  /\ active_terminal_index' = n
  /\ cr3' = curr_process
  /\ UNCHANGED << active, active_process, terminal_iter, curr_process, esp0,
                  parent_num, terminal_index, is_user_mode, current_eip, image,
                  point, in_service >>

\* Terminal n runs nothing: set up a root shell there and show it.  With no
\* free slot nothing happens.
OpenTerminal(n) ==
  /\ Interruptible
  /\ n # active_terminal_index
  /\ active_process[n] = NoProcess
  /\ \E p \in Pids :
       /\ FreeSlot(p)
       /\ active' = [active EXCEPT ![p] = TRUE]
       /\ parent_num' = [parent_num EXCEPT ![p] = 0]
       /\ terminal_index' = [terminal_index EXCEPT ![p] = n]
       /\ image' = load_program(DirectoryFor(p), Shell)
       /\ current_eip' = [current_eip EXCEPT ![p] = "entry"]
       /\ is_user_mode' = [is_user_mode EXCEPT ![p] = TRUE]
       /\ point' = [point EXCEPT ![p] = "entry"]
       /\ active_process' = [active_process EXCEPT ![n] = p]
  /\ cr3' = curr_process
  /\ active_terminal_index' = n
  /\ UNCHANGED << terminal_iter, curr_process, esp0, in_service >>

-----------------------------------------------------------------------------
SystemCall ==
  \/ \E f \in Programs : Execute(f)
  \/ \E f \in DataFiles : ExecuteFails(f)
  \/ HaltChild
  \/ HaltRoot

Interrupt ==
  \/ Schedule
  \/ TimerEoi
  \/ \E n \in Terminals : ShowTerminal(n) \/ OpenTerminal(n)

Next == SystemCall \/ Interrupt

Spec == Init /\ [][Next]_vars

(***************************************************************************)
(* The timer keeps firing at 100 Hz and no system call keeps interrupts    *)
(* off for good; the handler's tail is straight-line code; and entry()     *)
(* does execute the first shell.                                           *)
(***************************************************************************)
Fairness ==
  /\ WF_vars(Schedule)
  /\ WF_vars(TimerEoi)
  /\ WF_vars(curr_process = Boot /\ Execute(Shell))

FairSpec == Spec /\ Fairness
=============================================================================
