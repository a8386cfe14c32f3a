-------------------------- MODULE KernelProperties --------------------------
(***************************************************************************)
(* The correctness properties of module Kernel.                            *)
(***************************************************************************)
EXTENDS Kernel, Sequences

IsForeground(p) == \E t \in Terminals : active_process[t] = p

(***************************************************************************)
(* The active[] table, the PCBs' parent_num and terminal_index and the     *)
(* terminals' active_process, which execute, halt and switch_terminal      *)
(* update one after the other, describe one chain of programs for each     *)
(* terminal: its active_process is in use and belongs to it; whoever       *)
(* executed a program is in use, on the same terminal and not the one      *)
(* running there; nobody waits for two children and no terminal has two    *)
(* root shells; a terminal without an active_process has no process.       *)
(***************************************************************************)
ForegroundOk ==
  \A t \in Terminals : active_process[t] # NoProcess =>
    active[active_process[t]] /\ terminal_index[active_process[t]] = t

ParentOk ==
  \A p \in Pids : active[p] /\ parent_num[p] # 0 =>
    /\ active[parent_num[p]]
    /\ terminal_index[parent_num[p]] = terminal_index[p]
    /\ ~IsForeground(parent_num[p])

OneChain ==
  \A p, q \in Pids : active[p] /\ active[q] /\ p # q =>
    /\ parent_num[p] # 0 => parent_num[p] # parent_num[q]
    /\ parent_num[p] = 0 /\ parent_num[q] = 0 => terminal_index[p] # terminal_index[q]

Inhabited ==
  \A p \in Pids : active[p] => active_process[terminal_index[p]] # NoProcess

ShellChains == ForegroundOk /\ ParentOk /\ OneChain /\ Inhabited

(***************************************************************************)
(* No slot leaks: a process in use is running on a terminal or waits for   *)
(* a child in use, so that the six slots come back when programs halt.     *)
(* A slot that execute or halt forgot would make every later execute and   *)
(* switch_terminal fail with no process to end.                            *)
(***************************************************************************)
NoSlotLeaked ==
  \A p \in Pids : active[p] =>
    IsForeground(p) \/ \E q \in Pids : active[q] /\ parent_num[q] = p

(***************************************************************************)
(* The processor and the kernel's books agree: from the first execute on,  *)
(* the page directory and the kernel stack loaded are those of             *)
(* curr_process, which is the process of the terminal schedule() last      *)
(* chose.  getCurrentProcessPCB() finds the PCB through the stack, the     *)
(* rest of the kernel through curr_process; execute, halt, schedule and    *)
(* both paths of switch_terminal set or restore all of them separately.    *)
(***************************************************************************)
HardwareAgrees ==
  curr_process # Boot =>
    /\ cr3 = curr_process
    /\ esp0 = curr_process
    /\ active_process[terminal_iter] = curr_process

(***************************************************************************)
(* No process is ever resumed from registers that do not describe where it *)
(* stopped: neither by schedule() from current_eip and is_user_mode, which *)
(* are also stale leftovers of earlier turns and earlier owners of the     *)
(* slot, nor by halt from the frame its parent left in execute().          *)
(***************************************************************************)
NoneLost == \A p \in Pids : point[p] # "lost"

(***************************************************************************)
(* While IRQ0 is in service the running process is on its way to send the  *)
(* EOI, so the timer (and every line below it) comes back: the user-mode   *)
(* and the kernel-mode branch of schedule() acknowledge it exactly once.   *)
(***************************************************************************)
EoiOwed == in_service <=> point[curr_process] = "EIP_RETURN"

(***************************************************************************)
(* What halt of a root shell starts again is a shell, and no process in    *)
(* use finds a data file in its page: execute copies a program, or a file  *)
(* that turns out to be none, through the page directory of a slot it has  *)
(* not taken yet, and switch_terminal does so inside an interrupt, under   *)
(* the feet of a process whose page is at the same address.  A copy        *)
(* through the wrong directory shows when that shell halts, long after.    *)
(***************************************************************************)
RootsAreShells ==
  \A p \in Pids : active[p] =>
    /\ image[p] \in Programs
    /\ parent_num[p] = 0 => image[p] = Shell

(***************************************************************************)
(* A program's system calls reach its own terminal only: the process of a  *)
(* terminal is replaced while its own program has the processor, or, if it *)
(* had none, by the shell that the keyboard interrupt sets up.             *)
(***************************************************************************)
OwnTerminalOnly ==
  [][\A t \in Terminals :
       active_process'[t] # active_process[t] =>
         active_process[t] \in {NoProcess, curr_process}]_vars

(***************************************************************************)
(* Round robin starves nobody: a terminal in use is given the processor    *)
(* again and again, whatever the other terminals' programs execute or halt *)
(* and however often the user switches the display.                        *)
(***************************************************************************)
TerminalsServed ==
  \A t \in Terminals :
    []<>(active_process[t] = NoProcess \/ curr_process = active_process[t])

-----------------------------------------------------------------------------
(***************************************************************************)
(* What the safety properties rest on: before the first execute nothing    *)
(* has started; a process with a child stands inside execute(); the        *)
(* running process stands where in_service says; and the process of any    *)
(* other terminal stands exactly where its PCB says.                       *)
(***************************************************************************)
Booting ==
  curr_process = Boot =>
    /\ esp0 = Boot
    /\ terminal_index[Boot] = terminal_iter
    /\ point[Boot] = "program"
    /\ ~in_service
    /\ \A p \in Pids : ~active[p]
    /\ \A t \in Terminals : active_process[t] = NoProcess

Waiting ==
  \A p \in Pids : active[p] /\ parent_num[p] # 0 => point[parent_num[p]] = "execute"

Running ==
  curr_process # Boot =>
    point[curr_process] = IF in_service THEN "EIP_RETURN" ELSE "program"

Preempted ==
  \A t \in Terminals : active_process[t] \notin {NoProcess, curr_process} =>
    LET p == active_process[t]
    IN  /\ point[p] = current_eip[p]
        /\ current_eip[p] = IF is_user_mode[p] THEN "entry" ELSE "EIP_RETURN"

\* The inductive invariant of the kernel: the saved contexts and the chains of
\* processes that execute, halt, schedule and switch_terminal maintain.
KernelInv ==
  /\ TypeOK
  /\ ShellChains
  /\ NoSlotLeaked
  /\ HardwareAgrees
  /\ NoneLost
  /\ Booting
  /\ Waiting
  /\ Running
  /\ Preempted

-----------------------------------------------------------------------------
(***************************************************************************)
(* The kernel implements ShellStacks: the stack of a terminal holds the    *)
(* images of the chain of processes that ends in its active_process.       *)
(***************************************************************************)

\* The processes up from one along the parents, the root shell first.
Ancestry(last, parents) ==
  LET up[n \in 0 .. NumProcs] ==
        IF n = 0 THEN << >>
        ELSE LET s == up[n - 1]
                 p == IF s = << >> THEN last ELSE parents[Head(s)]
             IN  IF p \in Pids THEN << p >> \o s ELSE s
  IN  up[NumProcs]

ChainOf(t) == Ancestry(active_process[t], parent_num)

StackOf(t) == [i \in DOMAIN ChainOf(t) |-> image[ChainOf(t)[i]]]

Stacks == INSTANCE ShellStacks WITH
  stack <- [t \in Terminals |-> StackOf(t)],
  turn <- terminal_iter,
  display <- active_terminal_index

ImplementsShellStacks == Stacks!Spec
=============================================================================
