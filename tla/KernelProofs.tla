---------------------------- MODULE KernelProofs ----------------------------
(***************************************************************************)
(* KernelInv is an inductive invariant of the kernel, for every number of  *)
(* slots and terminals and every set of files; the safety properties of    *)
(* KernelProperties follow from it.  The last two parts prove that every   *)
(* terminal's processes form a line, and from it that the kernel           *)
(* implements ShellStacks.                                                 *)
(***************************************************************************)
EXTENDS KernelProperties, FiniteSetTheorems, WellFoundedInduction, TLAPS

USE DEF Pids, Boot, Terminals, NoProcess

\* After reset (Init) nothing runs and every part of the invariant holds.
LEMMA InitInv == Init => KernelInv
  <1> SUFFICES ASSUME Init PROVE KernelInv
    OBVIOUS
  <1>0. /\ 0 \in Terminals
        /\ 1 \in Pids
    BY KernelAssumption DEF KernelAssumption
  <1>1. TypeOK
    <2>1. /\ active \in [Pids -> BOOLEAN]
          /\ is_user_mode \in [Pids -> BOOLEAN]
      BY DEF Init
    <2>2. /\ active_process \in [Terminals -> Pids \cup {NoProcess}]
          /\ parent_num \in [Pids -> Pids \cup {Boot}]
          /\ terminal_index \in [Pids \cup {Boot} -> Terminals]
      BY <1>0 DEF Init
    <2>3. /\ current_eip \in [Pids -> Eips]
          /\ image \in [Pids -> Files \cup {NoImage}]
          /\ point \in [Pids \cup {Boot} -> Points]
      BY DEF Init, Points, Eips
    <2>4. QED
      BY <1>0, <2>1, <2>2, <2>3 DEF Init, TypeOK
  <1>2. ShellChains /\ NoSlotLeaked /\ HardwareAgrees
    BY KernelAssumption DEF KernelAssumption, Init, ShellChains, ForegroundOk, ParentOk, OneChain,
      Inhabited, NoSlotLeaked, HardwareAgrees
  <1>3. NoneLost /\ Booting /\ Waiting /\ Running /\ Preempted
    BY KernelAssumption DEF KernelAssumption, Init, NoneLost, Booting, Waiting, Running, Preempted
  <1>4. QED
    BY <1>1, <1>2, <1>3 DEF KernelInv

\* execute(f) keeps the invariant: the child becomes the running process of the
\* caller's terminal and the caller waits.
LEMMA ExecuteInv ==
  ASSUME KernelInv, NEW f, Execute(f)
  PROVE  KernelInv'
  <1> DEFINE t == CallerTerminal
  <1> PICK p \in Pids :
        /\ FreeSlot(p)
        /\ image' = [image EXCEPT ![p] = f]
        /\ active' = [active EXCEPT ![p] = TRUE]
        /\ parent_num' = [parent_num EXCEPT ![p] = curr_process]
        /\ terminal_index' = [terminal_index EXCEPT ![p] = CallerTerminal]
        /\ active_process' = [active_process EXCEPT ![CallerTerminal] = p]
        /\ point' = [point EXCEPT ![curr_process] = "execute", ![p] = "program"]
        /\ SwitchTo(p)
    BY DEF Execute, load_program, DirectoryFor
  <1> /\ f \in Programs
      /\ ~in_service
      /\ UNCHANGED << active_terminal_index, terminal_iter, is_user_mode,
                      current_eip, in_service >>
    BY DEF Execute
  <1> TypeOK
    BY DEF KernelInv
  <1>1. /\ t \in Terminals
        /\ t = terminal_iter
        /\ curr_process # p
        /\ ~active[p]
        /\ curr_process # Boot => active[curr_process]
    BY DEF CallerTerminal, CurrentPcb, KernelInv, TypeOK, Booting, HardwareAgrees,
      ShellChains, ForegroundOk, FreeSlot
  <1>2. TypeOK'
    BY <1>1 DEF TypeOK, SwitchTo, Files, Points
  <1>3. ShellChains'
    <2>1. ForegroundOk'
      BY <1>1 DEF KernelInv, ShellChains, ForegroundOk, TypeOK
    <2>2. ParentOk'
      BY <1>1 DEF KernelInv, ShellChains, ForegroundOk, ParentOk, IsForeground,
        TypeOK, HardwareAgrees, Booting
    <2>3. OneChain'
      BY <1>1 DEF KernelInv, ShellChains, OneChain, ParentOk, ForegroundOk,
        IsForeground, TypeOK, HardwareAgrees, Booting
    <2>4. Inhabited'
      BY <1>1 DEF KernelInv, ShellChains, Inhabited, TypeOK
    <2>5. QED
      BY <2>1, <2>2, <2>3, <2>4 DEF ShellChains
  <1>4. NoSlotLeaked'
    BY <1>1 DEF KernelInv, NoSlotLeaked, IsForeground, HardwareAgrees, TypeOK, Booting
  <1>5. HardwareAgrees' /\ Booting'
    BY <1>1 DEF HardwareAgrees, Booting, SwitchTo, TypeOK
  <1>6. NoneLost'
    BY DEF KernelInv, NoneLost, TypeOK
  <1>7. Waiting' /\ Running'
    BY <1>1 DEF KernelInv, Waiting, Running, SwitchTo, TypeOK, ShellChains, ParentOk
  <1>8. Preempted'
    BY <1>1 DEF KernelInv, Preempted, SwitchTo, TypeOK, ShellChains, ForegroundOk,
      HardwareAgrees
  <1>9. QED
    BY <1>2, <1>3, <1>4, <1>5, <1>6, <1>7, <1>8 DEF KernelInv

\* A failed execute writes the page of a free slot only.
LEMMA ExecuteFailsInv ==
  ASSUME KernelInv, NEW f, ExecuteFails(f)
  PROVE  KernelInv'
  <1>1. TypeOK'
    BY DEF KernelInv, TypeOK, ExecuteFails, Interruptible, Files, load_program, DirectoryFor
  <1>2. HardwareAgrees' /\ Booting'
    BY DEF KernelInv, HardwareAgrees, Booting, ExecuteFails, Interruptible
  <1>3. ShellChains' /\ NoSlotLeaked'
    BY DEF KernelInv, ExecuteFails, ShellChains, ForegroundOk, ParentOk, OneChain,
      Inhabited, NoSlotLeaked, IsForeground
  <1>4. NoneLost' /\ Waiting' /\ Running' /\ Preempted'
    BY DEF KernelInv, ExecuteFails, NoneLost, Waiting, Running, Preempted
  <1>5. QED
    BY <1>1, <1>2, <1>3, <1>4 DEF KernelInv

\* halt of a child keeps the invariant: its parent stood inside execute().
LEMMA HaltChildInv ==
  ASSUME KernelInv, HaltChild
  PROVE  KernelInv'
  <1> DEFINE c == curr_process
             t == terminal_iter
             parent == parent_num[c]
  <1> TypeOK
    BY DEF KernelInv
  <1>1. /\ c \in Pids
        /\ CurrentPcb = c
        /\ cr3 = c
        /\ active[c]
        /\ terminal_index[c] = t
        /\ active_process[t] = c
        /\ point[c] = "program"
    BY DEF HaltChild, Interruptible, CurrentPcb, KernelInv, HardwareAgrees, Running,
      ShellChains, ForegroundOk, TypeOK
  <1>2. /\ parent \in Pids
        /\ parent # c
        /\ active[parent]
        /\ terminal_index[parent] = t
        /\ point[parent] = "execute"
    BY <1>1 DEF HaltChild, KernelInv, ShellChains, ParentOk, IsForeground, Waiting, TypeOK
  <1>3. /\ active_process' = [active_process EXCEPT ![t] = parent]
        /\ active' = [active EXCEPT ![c] = FALSE]
        /\ point' = [point EXCEPT ![c] = "free", ![parent] = "program"]
        /\ curr_process' = parent
        /\ cr3' = parent
        /\ esp0' = parent
        /\ ~in_service
        /\ UNCHANGED << active_terminal_index, terminal_iter, parent_num,
                        terminal_index, is_user_mode, current_eip, image, in_service >>
    BY <1>1, <1>2 DEF HaltChild, HandedBack, Released, SwitchTo, Interruptible
  <1> HIDE DEF parent
  <1>4. TypeOK'
    BY <1>1, <1>2, <1>3 DEF TypeOK, Points
  <1>5. \A q \in Pids : active[q] => parent_num[q] # c
    BY <1>1 DEF KernelInv, Waiting
  <1>6. \A q \in Pids : active[q] /\ q # c => parent_num[q] # parent
    BY <1>1, <1>2 DEF KernelInv, ShellChains, OneChain, parent
  <1>7. ShellChains'
    <2>1. ForegroundOk'
      BY <1>1, <1>2, <1>3 DEF KernelInv, ShellChains, ForegroundOk, TypeOK
    <2>2. ParentOk'
      BY <1>1, <1>2, <1>3, <1>5, <1>6 DEF KernelInv, ShellChains, ParentOk,
        IsForeground, TypeOK
    <2>3. OneChain'
      BY <1>3 DEF KernelInv, ShellChains, OneChain, TypeOK
    <2>4. Inhabited'
      BY <1>2, <1>3 DEF KernelInv, ShellChains, Inhabited, TypeOK
    <2>5. QED
      BY <2>1, <2>2, <2>3, <2>4 DEF ShellChains
  <1>8. NoSlotLeaked'
    <2> SUFFICES ASSUME NEW p \in Pids, active'[p]
                 PROVE  IsForeground(p)' \/ \E q \in Pids : active'[q] /\ parent_num'[q] = p
      BY DEF NoSlotLeaked
    <2>1. active[p] /\ p # c
      BY <1>1, <1>3 DEF TypeOK
    <2>2. CASE p = parent
      BY <2>2, <1>1, <1>3 DEF IsForeground, TypeOK
    <2>3. CASE p # parent
      <3>1. IsForeground(p) \/ \E q \in Pids : active[q] /\ parent_num[q] = p
        BY <2>1 DEF KernelInv, NoSlotLeaked
      <3>2. CASE IsForeground(p)
        BY <3>2, <2>1, <1>1, <1>3 DEF IsForeground, TypeOK
      <3>3. CASE \E q \in Pids : active[q] /\ parent_num[q] = p
        BY <3>3, <2>3, <1>1, <1>3 DEF TypeOK, parent
      <3>4. QED
        BY <3>1, <3>2, <3>3
    <2>4. QED
      BY <2>2, <2>3
  <1>9. HardwareAgrees' /\ Booting'
    BY <1>1, <1>2, <1>3 DEF HardwareAgrees, Booting, TypeOK
  <1>10. NoneLost' /\ Running'
    BY <1>1, <1>2, <1>3 DEF KernelInv, NoneLost, Running, TypeOK
  <1>11. Waiting'
    BY <1>1, <1>2, <1>3, <1>5, <1>6 DEF KernelInv, Waiting, TypeOK, ShellChains, ParentOk
  <1>12. Preempted'
    BY <1>1, <1>2, <1>3 DEF KernelInv, Preempted, TypeOK, ShellChains, ForegroundOk
  <1>13. QED
    BY <1>4, <1>7, <1>8, <1>9, <1>10, <1>11, <1>12 DEF KernelInv

\* halt of a root shell changes nothing the invariant speaks of.
LEMMA HaltRootInv ==
  ASSUME KernelInv, HaltRoot
  PROVE  KernelInv'
  <1>1. point' = point
    BY DEF HaltRoot, Interruptible, KernelInv, TypeOK, Running
  <1>2. UNCHANGED vars
    BY <1>1 DEF HaltRoot, vars
  <1>3. QED
    BY <1>2 DEF vars, KernelInv, TypeOK, ShellChains, ForegroundOk, ParentOk, OneChain,
      Inhabited, NoSlotLeaked, IsForeground, HardwareAgrees, NoneLost, Booting, Waiting,
      Running, Preempted

\* schedule() keeps the invariant: the process preempted is saved at EIP_RETURN,
\* and the one it switches to, perhaps the same, stands where its PCB says.
LEMMA ScheduleInv ==
  ASSUME KernelInv, Schedule
  PROVE  KernelInv'
  <1> DEFINE c == curr_process
  <1> TypeOK
    BY DEF KernelInv
  <1>1. /\ c \in Pids
        /\ CurrentPcb = c
        /\ active[c]
        /\ active_process[terminal_iter] = c
        /\ point[c] = "program"
        /\ ~in_service
    BY DEF Schedule, Interruptible, CurrentPcb, KernelInv, HardwareAgrees, Running,
      ShellChains, ForegroundOk, TypeOK
  <1>2. PICK t \in Terminals :
          /\ NextTerminal(t)
          /\ terminal_iter' = t
          /\ SwitchTo(active_process[t])
          /\ Resume(active_process[t])
    BY DEF Schedule
  <1> DEFINE p == active_process[t]
  <1>3. /\ p \in Pids
        /\ active[p]
        /\ p # c => ModeSaved[p] = is_user_mode[p] /\ EipSaved[p] = current_eip[p]
        /\ p = c => ModeSaved[p] = FALSE /\ EipSaved[p] = "EIP_RETURN"
        /\ p # c => PointSaved[p] = point[p]
        /\ p = c => PointSaved[p] = "EIP_RETURN"
    BY <1>1, <1>2 DEF NextTerminal, KernelInv, ShellChains, ForegroundOk, TypeOK,
      ModeSaved, EipSaved, PointSaved
  <1>4. /\ EipSaved[p] = PointSaved[p]
        /\ EipSaved[p] = IF ModeSaved[p] THEN "entry" ELSE "EIP_RETURN"
    <2>1. CASE p = c
      BY <2>1, <1>3
    <2>2. CASE p # c
      BY <2>2, <1>3 DEF KernelInv, Preempted
    <2>3. QED
      BY <2>1, <2>2
  <1>5. /\ point' = [point EXCEPT ![c] = "EIP_RETURN",
                                  ![p] = IF ModeSaved[p] THEN "program" ELSE "EIP_RETURN"]
        /\ in_service' = ~ModeSaved[p]
    BY <1>1, <1>2, <1>3, <1>4 DEF Resume, EoiBeforeSwitch, PointSaved, TypeOK
  <1>6. /\ curr_process' = p /\ cr3' = p /\ esp0' = p
        /\ is_user_mode' = [is_user_mode EXCEPT ![c] = FALSE]
        /\ current_eip' = [current_eip EXCEPT ![c] = "EIP_RETURN"]
        /\ ModeSaved[p] \in BOOLEAN
        /\ UNCHANGED << active, active_process, active_terminal_index, parent_num,
                        terminal_index, image >>
    BY <1>1, <1>2, <1>3 DEF Schedule, SwitchTo, ModeSaved, EipSaved, TypeOK
  <1> HIDE DEF p
  <1>7. TypeOK'
    BY <1>1, <1>2, <1>3, <1>5, <1>6 DEF TypeOK, Points, Eips
  <1>8. ShellChains' /\ NoSlotLeaked'
    BY <1>6 DEF KernelInv, ShellChains, ForegroundOk, ParentOk, OneChain, Inhabited,
      NoSlotLeaked, IsForeground
  <1>9. HardwareAgrees' /\ Booting'
    BY <1>2, <1>3, <1>6 DEF HardwareAgrees, Booting, p
  <1>10. NoneLost' /\ Running'
    BY <1>1, <1>3, <1>5, <1>6 DEF KernelInv, NoneLost, Running, TypeOK
  <1>11. Waiting'
    <2>1. \A q \in Pids : active[q] /\ parent_num[q] # 0 =>
            parent_num[q] \notin {c, p} /\ parent_num[q] \in Pids
      BY <1>1, <1>2 DEF KernelInv, ShellChains, ParentOk, IsForeground, TypeOK, p
    <2>2. QED
      BY <2>1, <1>5, <1>6 DEF KernelInv, Waiting, TypeOK
  <1>12. Preempted'
    <2> SUFFICES ASSUME NEW u \in Terminals, active_process'[u] \notin {NoProcess, curr_process'}
                 PROVE  /\ point'[active_process'[u]] = current_eip'[active_process'[u]]
                        /\ current_eip'[active_process'[u]] =
                             IF is_user_mode'[active_process'[u]] THEN "entry" ELSE "EIP_RETURN"
      BY DEF Preempted
    <2> DEFINE q == active_process[u]
    <2>1. q \in Pids /\ q # p
      BY <1>6 DEF TypeOK
    <2>2. CASE q = c
      BY <2>1, <2>2, <1>1, <1>5, <1>6 DEF TypeOK
    <2>3. CASE q # c
      BY <2>1, <2>3, <1>1, <1>5, <1>6 DEF TypeOK, KernelInv, Preempted
    <2>4. QED
      BY <2>2, <2>3
  <1>13. QED
    BY <1>7, <1>8, <1>9, <1>10, <1>11, <1>12 DEF KernelInv

\* The EOI at the end of the timer interrupt moves the running process only.
LEMMA TimerEoiInv ==
  ASSUME KernelInv, TimerEoi
  PROVE  KernelInv'
  <1>1. /\ curr_process \in Pids
        /\ active[curr_process]
        /\ IsForeground(curr_process)
    BY DEF KernelInv, TypeOK, Booting, TimerEoi, HardwareAgrees, IsForeground,
      ShellChains, ForegroundOk
  <1>2. TypeOK' /\ NoneLost' /\ Running'
    BY <1>1 DEF KernelInv, TypeOK, NoneLost, Running, TimerEoi, Points
  <1>3. HardwareAgrees' /\ Booting' /\ ShellChains' /\ NoSlotLeaked'
    BY <1>1 DEF KernelInv, HardwareAgrees, Booting, TimerEoi, ShellChains, ForegroundOk,
      ParentOk, OneChain, Inhabited, NoSlotLeaked, IsForeground
  <1>4. Waiting'
    BY <1>1 DEF KernelInv, Waiting, TimerEoi, TypeOK, ShellChains, ParentOk
  <1>5. Preempted'
    BY <1>1 DEF KernelInv, Preempted, TimerEoi, TypeOK
  <1>6. QED
    BY <1>2, <1>3, <1>4, <1>5 DEF KernelInv

\* Showing a terminal that runs something loads the page directory that is loaded.
LEMMA ShowTerminalInv ==
  ASSUME KernelInv, NEW n \in Terminals, ShowTerminal(n)
  PROVE  KernelInv'
  <1>1. TypeOK' /\ HardwareAgrees' /\ Booting'
    BY DEF KernelInv, TypeOK, HardwareAgrees, Booting, ShowTerminal, Interruptible
  <1>2. ShellChains' /\ NoSlotLeaked'
    BY DEF KernelInv, ShowTerminal, ShellChains, ForegroundOk, ParentOk, OneChain,
      Inhabited, NoSlotLeaked, IsForeground
  <1>3. NoneLost' /\ Waiting' /\ Running' /\ Preempted'
    BY DEF KernelInv, ShowTerminal, NoneLost, Waiting, Running, Preempted
  <1>4. QED
    BY <1>1, <1>2, <1>3 DEF KernelInv

\* switch_terminal's new root shell is preempted before its first instruction.
LEMMA OpenTerminalInv ==
  ASSUME KernelInv, NEW n \in Terminals, OpenTerminal(n)
  PROVE  KernelInv'
  <1> DEFINE c == curr_process
  <1> TypeOK
    BY DEF KernelInv
  <1>1. PICK p \in Pids :
          /\ FreeSlot(p)
          /\ active' = [active EXCEPT ![p] = TRUE]
          /\ parent_num' = [parent_num EXCEPT ![p] = 0]
          /\ terminal_index' = [terminal_index EXCEPT ![p] = n]
          /\ image' = [image EXCEPT ![p] = Shell]
          /\ current_eip' = [current_eip EXCEPT ![p] = "entry"]
          /\ is_user_mode' = [is_user_mode EXCEPT ![p] = TRUE]
          /\ point' = [point EXCEPT ![p] = "entry"]
          /\ active_process' = [active_process EXCEPT ![n] = p]
    BY DEF OpenTerminal, load_program, DirectoryFor
  <1>2. /\ ~active[p]
        /\ c \in Pids /\ c # p /\ cr3' = c
        /\ active[c]
        /\ active_process[n] = NoProcess
        /\ terminal_iter # n
        /\ active_terminal_index' = n
        /\ UNCHANGED << terminal_iter, curr_process, esp0, in_service >>
    BY <1>1 DEF OpenTerminal, Interruptible, FreeSlot, KernelInv, TypeOK, HardwareAgrees,
      ShellChains, ForegroundOk
  <1>3. TypeOK'
    BY <1>1, <1>2, KernelAssumption DEF KernelAssumption, TypeOK, Files, Points, Eips
  <1>4. /\ \A t \in Terminals : active_process[t] # p
        /\ \A q \in Pids : active[q] => parent_num[q] # p
        /\ \A q \in Pids : active[q] => terminal_index[q] # n
    <2>1. \A t \in Terminals : active_process[t] # p
      BY <1>2 DEF KernelInv, ShellChains, ForegroundOk
    <2>2. \A q \in Pids : active[q] => parent_num[q] # p
      BY <1>2 DEF KernelInv, ShellChains, ParentOk
    <2>3. \A q \in Pids : active[q] => terminal_index[q] # n
      BY <1>2 DEF KernelInv, ShellChains, Inhabited
    <2>4. QED
      BY <2>1, <2>2, <2>3
  <1>5. ShellChains'
    <2>1. ForegroundOk' /\ Inhabited'
      BY <1>1, <1>2 DEF KernelInv, ShellChains, ForegroundOk, Inhabited, TypeOK
    <2>2. ParentOk'
      BY <1>1, <1>2, <1>4 DEF KernelInv, ShellChains, ParentOk, IsForeground, TypeOK
    <2>3. OneChain'
      BY <1>1, <1>2, <1>4 DEF KernelInv, ShellChains, OneChain, TypeOK
    <2>4. QED
      BY <2>1, <2>2, <2>3 DEF ShellChains
  <1>6. NoSlotLeaked'
    <2> SUFFICES ASSUME NEW q \in Pids, active'[q]
                 PROVE  IsForeground(q)' \/ \E r \in Pids : active'[r] /\ parent_num'[r] = q
      BY DEF NoSlotLeaked
    <2>1. CASE q = p
      BY <2>1, <1>1 DEF IsForeground, TypeOK
    <2>2. CASE q # p
      <3>1. active[q]
        BY <2>2, <1>1 DEF TypeOK
      <3>2. IsForeground(q) \/ \E r \in Pids : active[r] /\ parent_num[r] = q
        BY <3>1 DEF KernelInv, NoSlotLeaked
      <3>3. CASE IsForeground(q)
        BY <3>3, <1>1, <1>2 DEF IsForeground, TypeOK
      <3>4. CASE \E r \in Pids : active[r] /\ parent_num[r] = q
        BY <3>4, <1>1, <1>2 DEF TypeOK
      <3>5. QED
        BY <3>2, <3>3, <3>4
    <2>3. QED
      BY <2>1, <2>2
  <1>7. HardwareAgrees' /\ Booting'
    BY <1>1, <1>2 DEF KernelInv, HardwareAgrees, Booting, TypeOK
  <1>8. NoneLost' /\ Running'
    BY <1>1, <1>2 DEF KernelInv, NoneLost, Running, TypeOK
  <1>9. Waiting'
    BY <1>1, <1>2, <1>4 DEF KernelInv, Waiting, TypeOK
  <1>10. Preempted'
    BY <1>1, <1>2, <1>4 DEF KernelInv, Preempted, TypeOK
  <1>11. QED
    BY <1>3, <1>5, <1>6, <1>7, <1>8, <1>9, <1>10 DEF KernelInv

\* Every step of execute, halt, schedule and switch_terminal keeps the invariant.
LEMMA NextInv == KernelInv /\ [Next]_vars => KernelInv'
  <1> SUFFICES ASSUME KernelInv, [Next]_vars PROVE KernelInv'
    OBVIOUS
  <1>1. ASSUME NEW f \in Programs, Execute(f) PROVE KernelInv'
    BY <1>1, ExecuteInv
  <1>2. ASSUME NEW f \in DataFiles, ExecuteFails(f) PROVE KernelInv'
    BY <1>2, ExecuteFailsInv
  <1>3. CASE HaltChild
    BY <1>3, HaltChildInv
  <1>4. CASE HaltRoot
    BY <1>4, HaltRootInv
  <1>5. CASE Schedule
    BY <1>5, ScheduleInv
  <1>6. CASE TimerEoi
    BY <1>6, TimerEoiInv
  <1>7. ASSUME NEW n \in Terminals, ShowTerminal(n) PROVE KernelInv'
    BY <1>7, ShowTerminalInv
  <1>8. ASSUME NEW n \in Terminals, OpenTerminal(n) PROVE KernelInv'
    BY <1>8, OpenTerminalInv
  <1>9. CASE UNCHANGED vars
    BY <1>9 DEF vars, KernelInv, TypeOK, ShellChains, ForegroundOk, ParentOk, OneChain,
      Inhabited, NoSlotLeaked, IsForeground, HardwareAgrees, NoneLost, Booting, Waiting,
      Running, Preempted
  <1>10. QED
    BY <1>1, <1>2, <1>3, <1>4, <1>5, <1>6, <1>7, <1>8, <1>9
    DEF Next, SystemCall, Interrupt

-----------------------------------------------------------------------------
\* Whatever programs execute and halt, whenever the timer and the keyboard
\* interrupt them: the saved contexts and the chains of processes are sound.
THEOREM KernelInvariant == Spec => []KernelInv
  BY InitInv, NextInv, PTL DEF Spec

\* Type correctness of the kernel's tables, registers and PCBs.
THEOREM TypeCorrect == Spec => []TypeOK
  <1>1. KernelInv => TypeOK
    BY DEF KernelInv
  <1>2. QED
    BY <1>1, KernelInvariant, PTL

\* execute, halt and switch_terminal keep one chain of processes per terminal.
THEOREM ChainsSound == Spec => []ShellChains
  <1>1. KernelInv => ShellChains
    BY DEF KernelInv
  <1>2. QED
    BY <1>1, KernelInvariant, PTL

\* A slot of active[] that execute or switch_terminal took is given back by halt.
THEOREM SlotsReturn == Spec => []NoSlotLeaked
  <1>1. KernelInv => NoSlotLeaked
    BY DEF KernelInv
  <1>2. QED
    BY <1>1, KernelInvariant, PTL

\* cr3, tss.esp0, curr_process and the terminals name the same process.
THEOREM BooksAgree == Spec => []HardwareAgrees
  <1>1. KernelInv => HardwareAgrees
    BY DEF KernelInv
  <1>2. QED
    BY <1>1, KernelInvariant, PTL

\* schedule() and halt resume every process from where it stopped.
THEOREM ContextsSound == Spec => []NoneLost
  <1>1. KernelInv => NoneLost
    BY DEF KernelInv
  <1>2. QED
    BY <1>1, KernelInvariant, PTL

\* The timer interrupt is acknowledged exactly once per tick.
THEOREM TimerAcknowledged == Spec => []EoiOwed
  <1>1. KernelInv => EoiOwed
    BY DEF KernelInv, TypeOK, Booting, Running, EoiOwed
  <1>2. QED
    BY <1>1, KernelInvariant, PTL

-----------------------------------------------------------------------------
\* Whatever has been loaded since through whatever page directory, a root
\* shell's halt starts a shell again, and every process in use has a program
\* in its page (load_program in execute and in switch_terminal).
THEOREM ShellsRestart == Spec => []RootsAreShells
  <1>1. Init => RootsAreShells
    BY DEF Init, RootsAreShells
  <1>2. KernelInv /\ RootsAreShells /\ [Next]_vars => RootsAreShells'
    <2> SUFFICES ASSUME KernelInv, RootsAreShells, [Next]_vars
                 PROVE  RootsAreShells'
      OBVIOUS
    <2> TypeOK
      BY DEF KernelInv
    <2>1. ASSUME NEW f \in Programs, Execute(f) PROVE RootsAreShells'
      BY <2>1 DEF TypeOK, RootsAreShells, Execute, load_program, DirectoryFor, Boot
    <2>2. ASSUME NEW f \in DataFiles, ExecuteFails(f) PROVE RootsAreShells'
      BY <2>2 DEF TypeOK, RootsAreShells, ExecuteFails, FreeSlot, load_program, DirectoryFor
    <2>3. CASE HaltChild
      BY <2>3 DEF TypeOK, RootsAreShells, HaltChild, Released
    <2>4. ASSUME NEW n \in Terminals, OpenTerminal(n) PROVE RootsAreShells'
      BY <2>4, KernelAssumption
      DEF KernelAssumption, TypeOK, RootsAreShells, OpenTerminal, load_program, DirectoryFor
    <2>5. CASE HaltRoot \/ Schedule \/ TimerEoi \/ UNCHANGED vars
      BY <2>5 DEF RootsAreShells, HaltRoot, Schedule, TimerEoi, vars
    <2>6. ASSUME NEW n \in Terminals, ShowTerminal(n) PROVE RootsAreShells'
      BY <2>6 DEF RootsAreShells, ShowTerminal
    <2> QED
      BY <2>1, <2>2, <2>3, <2>4, <2>5, <2>6 DEF Next, SystemCall, Interrupt
  <1> QED
    BY <1>1, <1>2, KernelInvariant, PTL DEF Spec

\* No program replaces the process of another program's terminal.
THEOREM TerminalsIndependent == Spec => OwnTerminalOnly
  <1> DEFINE Own == \A t \in Terminals : active_process'[t] # active_process[t] =>
                      active_process[t] \in {NoProcess, curr_process}
  <1>1. ASSUME KernelInv, NEW f, Execute(f) PROVE Own
    BY <1>1 DEF KernelInv, TypeOK, Execute, CallerTerminal, CurrentPcb, HardwareAgrees,
      Booting, ShellChains, ForegroundOk
  <1>2. ASSUME KernelInv, HaltChild PROVE Own
    BY <1>2 DEF KernelInv, TypeOK, HaltChild, HandedBack, CurrentPcb, HardwareAgrees,
      Interruptible, ShellChains, ForegroundOk
  <1>3. ASSUME KernelInv, NEW n \in Terminals, OpenTerminal(n) PROVE Own
    BY <1>3 DEF KernelInv, TypeOK, OpenTerminal
  <1>4. KernelInv /\ [Next]_vars => [Own]_vars
    BY <1>1, <1>2, <1>3 DEF Next, SystemCall, Interrupt, ExecuteFails, HaltRoot, Schedule,
      TimerEoi, ShowTerminal, vars
  <1>5. QED
    BY <1>4, KernelInvariant, PTL DEF Spec, OwnTerminalOnly

-----------------------------------------------------------------------------
HIDE DEF Pids, Boot, Terminals, NoProcess

(* The chain of processes of a terminal, as a sequence.                    *)

\* A set of natural numbers that is not empty has a least one.
LEMMA LeastIn ==
  ASSUME NEW S \in SUBSET Nat, S # {}
  PROVE  \E m \in S : \A n \in S : m =< n
<1> DEFINE R == OpToRel(<, Nat)
<1>1. PICK m \in S : \A n \in S : ~(<<n, m>> \in R)
  <2>1. IsWellFoundedOn(R, Nat)
    BY NatLessThanWellFounded
  <2> HIDE DEF R
  <2> QED
    BY <2>1, WFMin
<1>2. \A n \in S : ~(n < m)
  BY <1>1 DEF OpToRel
<1> QED
  BY <1>2

\* The processes from one without a parent to the last, each executed by the one
\* before it.
Line(s, last, parents) ==
  /\ s \in Seq(Pids)
  /\ \A i, j \in 1 .. Len(s) : s[i] = s[j] => i = j
  /\ s = << >> => last \notin Pids
  /\ s # << >> => s[Len(s)] = last /\ parents[s[1]] \notin Pids
  /\ \A i \in 1 .. Len(s) - 1 : parents[s[i + 1]] = s[i]

LEMMA SlotsCounted == IsFiniteSet(Pids) /\ Cardinality(Pids) = NumProcs
<1>1. NumProcs \in Nat
  BY KernelAssumption
<1>2. Cardinality(1 .. NumProcs) = IF 1 > NumProcs THEN 0 ELSE NumProcs - 1 + 1
  BY <1>1, FS_Interval
<1>3. Cardinality(1 .. NumProcs) = NumProcs
  BY <1>1, <1>2
<1>4. IsFiniteSet(1 .. NumProcs)
  BY <1>1, FS_Interval
<1>5. Pids = 1 .. NumProcs
  BY DEF Pids
<1> QED
  BY <1>3, <1>4, <1>5

LEMMA LineFits ==
  ASSUME NEW a, NEW par, NEW s, Line(s, a, par)
  PROVE  Len(s) \in 0 .. NumProcs
<1>1. s \in [1 .. Len(s) -> Pids] /\ Len(s) \in Nat
  BY DEF Line
<1>2. s \in Injection(1 .. Len(s), Pids)
  BY <1>1 DEF Line, Injection, IsInjective
<1>3. NumProcs \in Nat
  BY KernelAssumption
<1>4. IsFiniteSet(Pids) /\ Cardinality(Pids) = NumProcs
  BY SlotsCounted
<1>5. Cardinality(1 .. Len(s)) = Len(s)
  <2>1. Cardinality(1 .. Len(s)) = IF 1 > Len(s) THEN 0 ELSE Len(s) - 1 + 1
    BY <1>1, FS_Interval
  <2> QED
    BY <2>1, <1>1
<1>6. Cardinality(1 .. Len(s)) =< Cardinality(Pids)
  BY <1>2, <1>4, FS_Injection
<1> QED
  BY <1>1, <1>3, <1>4, <1>5, <1>6

\* The way up from the last process of such a line gives the line.
LEMMA LineFollowed ==
  ASSUME NEW a, NEW par, NEW s, Line(s, a, par)
  PROVE  Ancestry(a, par) = s
<1> DEFINE N == NumProcs
           Step(t) == LET p == IF t = << >> THEN a ELSE par[Head(t)]
                      IN  IF p \in Pids THEN << p >> \o t ELSE t
           cut(n) == IF n =< Len(s) THEN Len(s) - n ELSE 0
           part == [n \in 0 .. N |-> SubSeq(s, cut(n) + 1, Len(s))]
           up == CHOOSE w : w = [n \in 0 .. N |-> IF n = 0 THEN << >> ELSE Step(w[n - 1])]
<1>1. s \in Seq(Pids) /\ Len(s) \in Nat /\ Len(s) =< N /\ N \in Nat
  <2>1. Len(s) \in 0 .. N
    BY LineFits
  <2>2. s \in Seq(Pids)
    BY DEF Line
  <2> QED
    BY <2>1, <2>2, KernelAssumption
<1>2. ASSUME NEW k \in 0 .. Len(s)
      PROVE  /\ SubSeq(s, k + 1, Len(s)) \in Seq(Pids)
             /\ Len(SubSeq(s, k + 1, Len(s))) = Len(s) - k
             /\ \A i \in 1 .. Len(s) - k : SubSeq(s, k + 1, Len(s))[i] = s[k + i]
  BY <1>1
<1>3. ASSUME NEW k \in 1 .. Len(s)
      PROVE  Step(SubSeq(s, k + 1, Len(s))) = SubSeq(s, k, Len(s))
  <2> DEFINE t == SubSeq(s, k + 1, Len(s))
             u == SubSeq(s, (k - 1) + 1, Len(s))
  <2>1. /\ t \in Seq(Pids) /\ Len(t) = Len(s) - k
        /\ \A i \in 1 .. Len(s) - k : t[i] = s[k + i]
    BY <1>1, <1>2
  <2>2. /\ u \in Seq(Pids) /\ Len(u) = Len(s) - (k - 1)
        /\ \A i \in 1 .. Len(s) - (k - 1) : u[i] = s[(k - 1) + i]
    <3>1. k - 1 \in 0 .. Len(s)
      BY <1>1
    <3> HIDE DEF u
    <3> QED
      BY <3>1, <1>2 DEF u
  <2>3. (k - 1) + 1 = k
    BY <1>1
  <2> HIDE DEF t, u
  <2>4. s[k] \in Pids
    BY <1>1
  <2>5. s[k] = IF t = << >> THEN a ELSE par[Head(t)]
    <3>1. CASE k = Len(s)
      <4>1. t = << >> /\ s # << >>
        BY <3>1, <2>1, <1>1
      <4> QED
        BY <4>1, <3>1 DEF Line
    <3>2. CASE k # Len(s)
      <4>1. k \in 1 .. Len(s) - 1 /\ 1 \in 1 .. Len(s) - k
        BY <3>2, <1>1
      <4>2. t # << >> /\ Head(t) = s[k + 1]
        BY <4>1, <2>1, <1>1
      <4>3. par[s[k + 1]] = s[k]
        BY <4>1 DEF Line
      <4> QED
        BY <4>2, <4>3
    <3> QED
      BY <3>1, <3>2
  <2>6. Step(t) = << s[k] >> \o t
    BY <2>4, <2>5
  <2>7. u = << s[k] >> \o t
    <3> DEFINE v == << s[k] >> \o t
    <3>1. /\ v \in Seq(Pids) /\ Len(v) = Len(t) + 1 /\ v[1] = s[k]
          /\ \A i \in 2 .. Len(v) : v[i] = t[i - 1]
      BY <2>1, <2>4
    <3> HIDE DEF v
    <3>2. Len(v) = Len(u)
      BY <2>1, <2>2, <3>1, <1>1
    <3>3. ASSUME NEW i \in 1 .. Len(u)
          PROVE  u[i] = v[i]
      <4>1. i \in 1 .. Len(s) - (k - 1) /\ u[i] = s[(k - 1) + i]
        BY <2>2
      <4>2. CASE i = 1
        BY <4>1, <4>2, <3>1, <1>1
      <4>3. CASE i # 1
        <5>1. i - 1 \in 1 .. Len(s) - k /\ i \in 2 .. Len(v) /\ k + (i - 1) = (k - 1) + i
          BY <4>1, <4>3, <3>2, <1>1
        <5> QED
          BY <5>1, <4>1, <3>1, <2>1
      <4> QED
        BY <4>2, <4>3
    <3>4. u = v
      BY <2>2, <3>1, <3>2, <3>3
    <3> QED
      BY <3>4 DEF v
  <2> QED
    BY <2>3, <2>6, <2>7 DEF t, u
<1>4. Step(s) = s
  <2>1. CASE s = << >>
    BY <2>1 DEF Line
  <2>2. CASE s # << >>
    <3>1. Head(s) = s[1]
      BY <1>1, <2>2
    <3> QED
      BY <3>1, <2>2 DEF Line
  <2> QED
    BY <2>1, <2>2
<1> HIDE DEF Step
<1>5. SubSeq(s, 1, Len(s)) = s
  BY <1>1
<1>6. ASSUME NEW n \in 1 .. N
      PROVE  part[n] = Step(part[n - 1])
  <2>1. /\ part[n] = SubSeq(s, cut(n) + 1, Len(s))
        /\ part[n - 1] = SubSeq(s, cut(n - 1) + 1, Len(s))
    BY <1>1
  <2>2. CASE n > Len(s)
    <3>1. cut(n) = 0 /\ cut(n - 1) = 0
      BY <2>2, <1>1
    <3> HIDE DEF cut, part
    <3>2. part[n] = s /\ part[n - 1] = s
      BY <3>1, <2>1, <1>5
    <3> QED
      BY <3>2, <1>4
  <2>3. CASE n =< Len(s)
    <3>1. /\ cut(n) + 1 = Len(s) - n + 1 /\ cut(n - 1) + 1 = Len(s) - n + 1 + 1
          /\ Len(s) - n + 1 \in 1 .. Len(s)
      BY <2>3, <1>1
    <3> HIDE DEF cut, part
    <3>2. Step(SubSeq(s, Len(s) - n + 1 + 1, Len(s))) = SubSeq(s, Len(s) - n + 1, Len(s))
      BY <3>1, <1>3
    <3> QED
      BY <3>1, <3>2, <2>1
  <2> HIDE DEF part, cut
  <2> QED
    BY <2>2, <2>3, <1>1
<1>7. part[0] = << >>
  BY <1>1
<1>8. part = [n \in 0 .. N |-> IF n = 0 THEN << >> ELSE Step(part[n - 1])]
  <2>1. \A n \in 0 .. N : part[n] = IF n = 0 THEN << >> ELSE Step(part[n - 1])
    <3> HIDE DEF part
    <3> QED
      BY <1>6, <1>7, <1>1
  <2>2. part = [n \in 0 .. N |-> part[n]]
    OBVIOUS
  <2> HIDE DEF part
  <2> QED
    BY <2>1, <2>2
<1>9. up = [n \in 0 .. N |-> IF n = 0 THEN << >> ELSE Step(up[n - 1])]
  <2> HIDE DEF part
  <2> QED
    BY <1>8
<1>10. part[N] = s
  <2>1. cut(N) = 0 /\ part[N] = SubSeq(s, cut(N) + 1, Len(s))
    BY <1>1
  <2> HIDE DEF cut, part
  <2> QED
    BY <2>1, <1>5
<1> HIDE DEF part, up
<1>11. \A n \in 0 .. N : up[n] = part[n]
  <2> DEFINE bad == {n \in 0 .. N : up[n] # part[n]}
  <2> SUFFICES ASSUME bad # {} PROVE FALSE
    OBVIOUS
  <2>1. PICK m \in bad : \A n \in bad : m =< n
    <3>1. bad \in SUBSET Nat
      BY <1>1
    <3> HIDE DEF bad
    <3> QED
      BY <3>1, LeastIn
  <2>2. m # 0
    BY <1>7, <1>9, <1>1, <2>1
  <2>3. m - 1 \in 0 .. N /\ m - 1 \notin bad
    BY <2>1, <2>2, <1>1
  <2>4. up[m - 1] = part[m - 1]
    BY <2>3
  <2>5. up[m] = Step(up[m - 1]) /\ part[m] = Step(part[m - 1])
    BY <2>1, <2>2, <1>8, <1>9
  <2> QED
    BY <2>1, <2>4, <2>5
<1> QED
  <2>1. Ancestry(a, par) = up[N]
    BY DEF Ancestry, up, Step
  <2> QED
    BY <2>1, <1>10, <1>11, <1>1

-----------------------------------------------------------------------------
(* Each terminal's processes form such a line.                             *)

LinesInv ==
  \A t \in Terminals :
    /\ Line(ChainOf(t), active_process[t], parent_num)
    /\ \A i \in 1 .. Len(ChainOf(t)) :
         active[ChainOf(t)[i]] /\ terminal_index[ChainOf(t)[i]] = t

\* What the chain of a terminal is after a step.
LEMMA ChainFound ==
  ASSUME NEW t, NEW s, NEW a, a = active_process'[t], Line(s, a, parent_num')
  PROVE  ChainOf(t)' = s
<1>1. Line(s, active_process'[t], parent_num')
  OBVIOUS
<1>2. Ancestry(active_process'[t], parent_num') = s
  BY <1>1, LineFollowed
<1> QED
  BY <1>2 DEF ChainOf

\* A terminal whose processes a step leaves alone keeps its chain.
LEMMA LineStays ==
  ASSUME NEW s, NEW a, NEW par, NEW other, Line(s, a, par),
         \A i \in 1 .. Len(s) : other[s[i]] = par[s[i]]
  PROVE  Line(s, a, other)
<1>1. s # << >> => 1 \in 1 .. Len(s)
  BY DEF Line
<1>2. \A i \in 1 .. Len(s) - 1 : i + 1 \in 1 .. Len(s)
  BY DEF Line
<1> QED
  BY <1>1, <1>2 DEF Line

\* execute() and switch_terminal add a process at the end.
LEMMA LineLonger ==
  ASSUME NEW s, NEW a, NEW par, Line(s, a, par),
         NEW p \in Pids, \A i \in 1 .. Len(s) : s[i] # p,
         s = << >> => par[p] \notin Pids,
         s # << >> => par[p] = a
  PROVE  Line(Append(s, p), p, par)
<1> DEFINE u == Append(s, p)
<1>1. /\ s \in Seq(Pids) /\ Len(s) \in Nat
      /\ u \in Seq(Pids) /\ Len(u) = Len(s) + 1 /\ u[Len(s) + 1] = p
      /\ \A i \in 1 .. Len(s) : u[i] = s[i]
  BY DEF Line
<1> HIDE DEF u
<1>2. ASSUME NEW i \in 1 .. Len(u), NEW j \in 1 .. Len(u), u[i] = u[j]
      PROVE  i = j
  <2>1. (i \in 1 .. Len(s) \/ i = Len(s) + 1) /\ (j \in 1 .. Len(s) \/ j = Len(s) + 1)
    BY <1>1
  <2> QED
    BY <2>1, <1>1, <1>2 DEF Line
<1>3. u # << >> /\ u[Len(u)] = p
  BY <1>1
<1>4. par[u[1]] \notin Pids
  <2>1. CASE s = << >>
    BY <2>1, <1>1 DEF Line
  <2>2. CASE s # << >>
    <3>1. 1 \in 1 .. Len(s)
      BY <2>2, <1>1
    <3> QED
      BY <3>1, <2>2, <1>1 DEF Line
  <2> QED
    BY <2>1, <2>2
<1>5. ASSUME NEW i \in 1 .. Len(u) - 1
      PROVE  par[u[i + 1]] = u[i]
  <2>1. i \in 1 .. Len(s) /\ u[i] = s[i]
    BY <1>1
  <2>2. CASE i = Len(s)
    <3>1. s # << >> /\ u[i + 1] = p
      BY <2>1, <2>2, <1>1
    <3> QED
      BY <2>1, <2>2, <3>1 DEF Line
  <2>3. CASE i # Len(s)
    <3>1. i \in 1 .. Len(s) - 1 /\ i + 1 \in 1 .. Len(s)
      BY <2>1, <2>3, <1>1
    <3>2. par[s[i + 1]] = s[i]
      BY <3>1 DEF Line
    <3> QED
      BY <2>1, <3>1, <3>2, <1>1
  <2> QED
    BY <2>2, <2>3
<1>6. Line(u, p, par)
  BY <1>1, <1>2, <1>3, <1>4, <1>5 DEF Line
<1> QED
  BY <1>6 DEF u

\* halt takes the last one off, which some process executed.
AllButLast(s) == SubSeq(s, 1, Len(s) - 1)

LEMMA LineShorter ==
  ASSUME NEW s, NEW a, NEW par, Line(s, a, par), a \in Pids, par[a] \in Pids
  PROVE  /\ Len(s) \in Nat /\ Len(s) > 1 /\ Len(AllButLast(s)) = Len(s) - 1
         /\ \A i \in 1 .. Len(s) - 1 : AllButLast(s)[i] = s[i] /\ s[i] # a
         /\ Line(AllButLast(s), par[a], par)
<1> DEFINE u == AllButLast(s)
<1>1. s \in Seq(Pids) /\ Len(s) \in Nat /\ s # << >> /\ s[Len(s)] = a
  BY DEF Line
<1>2. Len(s) > 1
  <2>1. Len(s) # 0
    BY <1>1
  <2>2. ASSUME Len(s) = 1 PROVE FALSE
    <3>1. s[1] = a
      BY <1>1, <2>2
    <3>2. par[s[1]] \notin Pids
      BY <1>1 DEF Line
    <3> QED
      BY <3>1, <3>2
  <2>3. Len(s) # 1
    BY <2>2
  <2>4. \A n \in Nat : n # 0 /\ n # 1 => n > 1
    OBVIOUS
  <2> QED
    BY <2>1, <2>3, <2>4, <1>1
<1>3. /\ u \in Seq(Pids) /\ Len(u) = Len(s) - 1
      /\ \A i \in 1 .. Len(s) - 1 : u[i] = s[i]
  BY <1>1, <1>2 DEF AllButLast
<1> HIDE DEF u
<1>4. \A i \in 1 .. Len(s) - 1 : s[i] # a
  <2> TAKE i \in 1 .. Len(s) - 1
  <2>1. i \in 1 .. Len(s) /\ Len(s) \in 1 .. Len(s) /\ i # Len(s)
    BY <1>1
  <2> QED
    BY <2>1, <1>1 DEF Line
<1>5. ASSUME NEW i \in 1 .. Len(u), NEW j \in 1 .. Len(u), u[i] = u[j]
      PROVE  i = j
  <2>1. i \in 1 .. Len(s) /\ j \in 1 .. Len(s) /\ s[i] = s[j]
    BY <1>1, <1>3, <1>5
  <2> QED
    BY <2>1 DEF Line
<1>6. u # << >> /\ par[u[1]] \notin Pids
  BY <1>1, <1>2, <1>3 DEF Line
<1>7. u[Len(u)] = par[a]
  <2>1. Len(s) - 1 \in 1 .. Len(s) - 1 /\ (Len(s) - 1) + 1 = Len(s)
    BY <1>1, <1>2
  <2>2. par[s[(Len(s) - 1) + 1]] = s[Len(s) - 1]
    BY <2>1 DEF Line
  <2> QED
    BY <2>1, <2>2, <1>1, <1>3
<1>8. ASSUME NEW i \in 1 .. Len(u) - 1
      PROVE  par[u[i + 1]] = u[i]
  <2>1. i \in 1 .. Len(s) - 1 /\ i + 1 \in 1 .. Len(s) - 1
    BY <1>1, <1>3
  <2>2. par[s[i + 1]] = s[i]
    BY <2>1 DEF Line
  <2> QED
    BY <2>1, <2>2, <1>3
<1>9. Line(u, par[a], par)
  BY <1>3, <1>5, <1>6, <1>7, <1>8 DEF Line
<1> QED
  BY <1>2, <1>3, <1>4, <1>9 DEF u

LEMMA LinesInit == Init => LinesInv /\ \A t \in Terminals : ChainOf(t) = << >>
<1> SUFFICES ASSUME Init, NEW t \in Terminals
             PROVE  /\ Line(<< >>, active_process[t], parent_num)
                    /\ ChainOf(t) = << >>
  BY DEF LinesInv
<1>1. Line(<< >>, active_process[t], parent_num)
  BY DEF Init, Line, NoProcess, Pids
<1>2. ChainOf(t) = << >>
  BY <1>1, LineFollowed DEF ChainOf
<1> QED
  BY <1>1, <1>2

LEMMA SameChains ==
  ASSUME LinesInv, UNCHANGED << active, active_process, parent_num, terminal_index >>
  PROVE  LinesInv' /\ \A t \in Terminals : ChainOf(t)' = ChainOf(t)
<1>1. \A t \in Terminals : ChainOf(t)' = ChainOf(t)
  BY DEF ChainOf
<1> QED
  BY <1>1 DEF LinesInv

\* execute() and switch_terminal: slot p is taken for a terminal, whose process,
\* if it has one, is the parent.
Started(p, home, parent) ==
  /\ active' = [active EXCEPT ![p] = TRUE]
  /\ parent_num' = [parent_num EXCEPT ![p] = parent]
  /\ terminal_index' = [terminal_index EXCEPT ![p] = home]
  /\ active_process' = [active_process EXCEPT ![home] = p]
  /\ parent = IF active_process[home] = NoProcess THEN 0 ELSE active_process[home]

LEMMA OneMore ==
  ASSUME KernelInv, LinesInv, NEW p \in Pids, ~active[p], NEW home \in Terminals, NEW parent,
         Started(p, home, parent)
  PROVE  /\ LinesInv'
         /\ ChainOf(home)' = Append(ChainOf(home), p)
         /\ \A t \in Terminals \ {home} : ChainOf(t)' = ChainOf(t)
<1>1. TypeOK
  BY DEF KernelInv
<1>2. /\ \A q \in Pids : /\ active'[q] <=> active[q] \/ q = p
                         /\ parent_num'[q] = IF q = p THEN parent ELSE parent_num[q]
                         /\ terminal_index'[q] = IF q = p THEN home ELSE terminal_index[q]
      /\ active_process'[home] = p
      /\ \A t \in Terminals \ {home} : active_process'[t] = active_process[t]
      /\ active_process[home] = NoProcess => parent = 0
      /\ active_process[home] # NoProcess => parent = active_process[home]
  BY <1>1 DEF TypeOK, Started
<1>3. ASSUME NEW t \in Terminals
      PROVE  /\ Line(ChainOf(t), active_process[t], parent_num')
             /\ \A i \in 1 .. Len(ChainOf(t)) :
                  /\ ChainOf(t)[i] \in Pids \ {p} /\ active[ChainOf(t)[i]]
                  /\ terminal_index[ChainOf(t)[i]] = t
  <2>1. /\ Line(ChainOf(t), active_process[t], parent_num)
        /\ \A i \in 1 .. Len(ChainOf(t)) :
             active[ChainOf(t)[i]] /\ terminal_index[ChainOf(t)[i]] = t
    BY DEF LinesInv
  <2>2. \A i \in 1 .. Len(ChainOf(t)) : ChainOf(t)[i] \in Pids
    BY <2>1 DEF Line
  <2>3. \A i \in 1 .. Len(ChainOf(t)) : parent_num'[ChainOf(t)[i]] = parent_num[ChainOf(t)[i]]
    BY <2>1, <2>2, <1>2
  <2>4. Line(ChainOf(t), active_process[t], parent_num')
    BY <2>1, <2>3, LineStays
  <2> QED
    BY <2>1, <2>2, <2>4
<1>4. Line(Append(ChainOf(home), p), p, parent_num')
  <2> DEFINE s == ChainOf(home)
  <2>1. /\ Line(s, active_process[home], parent_num')
        /\ \A i \in 1 .. Len(s) : s[i] # p
    BY <1>3
  <2>2. parent_num'[p] = parent
    BY <1>2
  <2>3. s = << >> => parent_num'[p] \notin Pids
    <3> SUFFICES ASSUME s = << >> PROVE parent_num'[p] \notin Pids
      OBVIOUS
    <3>1. active_process[home] \notin Pids
      BY <2>1 DEF Line
    <3>2. active_process[home] = NoProcess
      BY <3>1, <1>1 DEF TypeOK
    <3> QED
      BY <3>2, <2>2, <1>2 DEF Pids
  <2>4. s # << >> => parent_num'[p] = active_process[home]
    <3> SUFFICES ASSUME s # << >> PROVE parent_num'[p] = active_process[home]
      OBVIOUS
    <3>1. active_process[home] = s[Len(s)] /\ s \in Seq(Pids)
      BY <2>1 DEF Line
    <3>2. Len(s) \in 1 .. Len(s)
      BY <3>1
    <3>3. active_process[home] \in Pids
      BY <3>1, <3>2
    <3>4. active_process[home] # NoProcess
      BY <3>3 DEF Pids, NoProcess
    <3> QED
      BY <3>4, <2>2, <1>2
  <2> HIDE DEF s
  <2>5. Line(Append(s, p), p, parent_num')
    BY <2>1, <2>3, <2>4, LineLonger
  <2> QED
    BY <2>5 DEF s
<1>5. ChainOf(home)' = Append(ChainOf(home), p)
  <2>1. p = active_process'[home]
    BY <1>2
  <2> QED
    BY <2>1, <1>4, ChainFound
<1>6. ASSUME NEW t \in Terminals \ {home}
      PROVE  ChainOf(t)' = ChainOf(t)
  <2>1. active_process[t] = active_process'[t]
    BY <1>2
  <2>2. Line(ChainOf(t), active_process[t], parent_num')
    BY <1>3
  <2> QED
    BY <2>1, <2>2, ChainFound
<1>7. ASSUME NEW t \in Terminals
      PROVE  /\ Line(ChainOf(t)', active_process'[t], parent_num')
             /\ \A i \in 1 .. Len(ChainOf(t)') :
                  active'[ChainOf(t)'[i]] /\ terminal_index'[ChainOf(t)'[i]] = t
  <2>1. CASE t # home
    <3> DEFINE s == ChainOf(t)
    <3>1. ChainOf(t)' = s /\ active_process'[t] = active_process[t]
      BY <2>1, <1>2, <1>6
    <3>2. /\ Line(s, active_process[t], parent_num')
          /\ \A i \in 1 .. Len(s) :
               s[i] \in Pids \ {p} /\ active[s[i]] /\ terminal_index[s[i]] = t
      BY <1>3
    <3> HIDE DEF s
    <3>3. \A i \in 1 .. Len(s) : active'[s[i]] /\ terminal_index'[s[i]] = t
      BY <3>2, <1>2
    <3> QED
      BY <3>1, <3>2, <3>3
  <2>2. CASE t = home
    <3> DEFINE s == ChainOf(home)
    <3>1. s \in Seq(Pids) /\ Len(s) \in Nat
      BY <1>3 DEF Line
    <3>2. \A i \in 1 .. Len(s) : s[i] \in Pids \ {p} /\ active[s[i]] /\ terminal_index[s[i]] = home
      BY <1>3
    <3> HIDE DEF s
    <3>3. /\ Len(Append(s, p)) = Len(s) + 1
          /\ \A i \in 1 .. Len(s) : Append(s, p)[i] = s[i]
          /\ Append(s, p)[Len(s) + 1] = p
      BY <3>1
    <3>4. \A i \in 1 .. Len(s) + 1 :
            active'[Append(s, p)[i]] /\ terminal_index'[Append(s, p)[i]] = home
      <4> TAKE i \in 1 .. Len(s) + 1
      <4>1. CASE i = Len(s) + 1
        BY <4>1, <3>3, <1>2
      <4>2. CASE i # Len(s) + 1
        <5>1. i \in 1 .. Len(s)
          BY <4>2, <3>1
        <5> QED
          BY <5>1, <3>2, <3>3, <1>2
      <4> QED
        BY <4>1, <4>2
    <3>5. ChainOf(t)' = Append(s, p)
      BY <2>2, <1>5 DEF s
    <3>6. Line(Append(s, p), p, parent_num')
      BY <1>4 DEF s
    <3> QED
      BY <2>2, <3>3, <3>4, <3>5, <3>6, <1>2
  <2> QED
    BY <2>1, <2>2
<1>8. LinesInv'
  BY <1>7 DEF LinesInv
<1> QED
  BY <1>5, <1>6, <1>8

\* halt: the running process goes and the one that executed it goes on.
LEMMA OneLess ==
  ASSUME KernelInv, LinesInv, HaltChild, NEW home \in Terminals, home = terminal_iter
  PROVE  /\ LinesInv'
         /\ Len(ChainOf(home)) \in Nat /\ Len(ChainOf(home)) > 1
         /\ ChainOf(home)' = AllButLast(ChainOf(home))
         /\ \A t \in Terminals \ {home} : ChainOf(t)' = ChainOf(t)
<1>0. PICK c \in Pids : c = curr_process
  BY DEF HaltChild, Interruptible, KernelInv, TypeOK
<1>a. c # Boot
  BY DEF Boot, Pids
<1>1. /\ TypeOK /\ esp0 = c /\ active_process[home] = c
      /\ terminal_index[c] = home /\ ~in_service
  <2>1. TypeOK /\ HardwareAgrees /\ ForegroundOk /\ ~in_service
    BY DEF HaltChild, Interruptible, KernelInv, ShellChains
  <2>2. esp0 = c /\ active_process[home] = c
    BY <2>1, <1>0, <1>a DEF HardwareAgrees
  <2>3. c # NoProcess
    BY DEF NoProcess, Pids
  <2> QED
    BY <2>1, <2>2, <2>3 DEF ForegroundOk
<1>2. PICK parent \in Pids :
        /\ parent = parent_num[c]
        /\ active_process' = [active_process EXCEPT ![home] = parent]
        /\ active' = [active EXCEPT ![c] = FALSE]
  <2>1. /\ parent_num[c] # 0
        /\ active_process' = [active_process EXCEPT ![home] = parent_num[c]]
        /\ active' = [active EXCEPT ![c] = FALSE]
    BY <1>0, <1>1 DEF HaltChild, CurrentPcb, HandedBack, Released
  <2>2. parent_num[c] \in Pids
    BY <2>1, <1>1 DEF TypeOK, Boot
  <2> QED
    BY <2>1, <2>2
<1>b. parent_num' = parent_num /\ terminal_index' = terminal_index
  BY DEF HaltChild
<1>3. \A t \in Terminals :
        /\ Line(ChainOf(t), active_process[t], parent_num)
        /\ \A i \in 1 .. Len(ChainOf(t)) :
             active[ChainOf(t)[i]] /\ terminal_index[ChainOf(t)[i]] = t
  BY DEF LinesInv
<1> DEFINE s == ChainOf(home)
<1>4. Line(s, c, parent_num)
  BY <1>1, <1>3
<1>5. /\ Len(s) \in Nat /\ Len(s) > 1 /\ Len(AllButLast(s)) = Len(s) - 1
      /\ \A i \in 1 .. Len(s) - 1 : AllButLast(s)[i] = s[i] /\ s[i] # c
      /\ Line(AllButLast(s), parent, parent_num)
  BY <1>2, <1>4, LineShorter
<1>6. /\ active_process'[home] = parent
      /\ \A t \in Terminals \ {home} : active_process'[t] = active_process[t]
      /\ \A q \in Pids \ {c} : active'[q] = active[q]
  BY <1>1, <1>2 DEF TypeOK
<1>7. ChainOf(home)' = AllButLast(s)
  <2>1. Line(AllButLast(s), parent, parent_num')
    BY <1>5, <1>b
  <2> HIDE DEF s
  <2> QED
    BY <2>1, <1>6, ChainFound
<1>8. ASSUME NEW t \in Terminals \ {home}
      PROVE  ChainOf(t)' = ChainOf(t)
  <2>1. active_process[t] = active_process'[t]
    BY <1>6
  <2>2. Line(ChainOf(t), active_process[t], parent_num')
    BY <1>3, <1>b
  <2> QED
    BY <2>1, <2>2, ChainFound
<1>9. ASSUME NEW t \in Terminals
      PROVE  /\ Line(ChainOf(t)', active_process'[t], parent_num')
             /\ \A i \in 1 .. Len(ChainOf(t)') :
                  active'[ChainOf(t)'[i]] /\ terminal_index'[ChainOf(t)'[i]] = t
  <2>1. CASE t # home
    <3> DEFINE u == ChainOf(t)
    <3>1. ChainOf(t)' = u /\ active_process'[t] = active_process[t]
      BY <2>1, <1>6, <1>8
    <3>2. /\ Line(u, active_process[t], parent_num)
          /\ \A i \in 1 .. Len(u) : active[u[i]] /\ terminal_index[u[i]] = t
      BY <1>3
    <3> HIDE DEF u
    <3>3. \A i \in 1 .. Len(u) : u[i] \in Pids \ {c}
      BY <2>1, <3>2, <1>1 DEF Line
    <3>4. \A i \in 1 .. Len(u) : active'[u[i]] /\ terminal_index'[u[i]] = t
      BY <3>2, <3>3, <1>6, <1>b
    <3>5. Line(u, active_process'[t], parent_num')
      BY <3>1, <3>2, <1>b
    <3> QED
      BY <3>1, <3>4, <3>5
  <2>2. CASE t = home
    <3> DEFINE u == AllButLast(s)
    <3>1. \A i \in 1 .. Len(s) : s[i] \in Pids /\ active[s[i]] /\ terminal_index[s[i]] = home
      BY <1>3, <1>4 DEF Line
    <3>2. \A i \in 1 .. Len(s) - 1 : i \in 1 .. Len(s)
      BY <1>5
    <3>3. Len(u) = Len(s) - 1 /\ \A i \in 1 .. Len(s) - 1 : u[i] = s[i] /\ s[i] # c
      BY <1>5
    <3>4. Line(u, active_process'[home], parent_num') /\ ChainOf(t)' = u
      BY <2>2, <1>5, <1>6, <1>7, <1>b
    <3> HIDE DEF s, u
    <3>5. \A i \in 1 .. Len(u) : active'[u[i]] /\ terminal_index'[u[i]] = t
      BY <2>2, <3>1, <3>2, <3>3, <1>6, <1>b
    <3> QED
      BY <2>2, <3>4, <3>5
  <2> QED
    BY <2>1, <2>2
<1>11. LinesInv'
  BY <1>9 DEF LinesInv
<1> QED
  BY <1>5, <1>7, <1>8, <1>11

-----------------------------------------------------------------------------
(* The refinement of ShellStacks.                                          *)

\* The programs of a line of processes.
Pages(s, im) == [i \in DOMAIN s |-> im[s[i]]]

\* What the pages of all slots hold.
Held(im) == {im[q] : q \in Pids}

LEMMA PagesSeq ==
  ASSUME NEW s \in Seq(Pids), NEW im
  PROVE  /\ Len(s) \in Nat
         /\ DOMAIN Pages(s, im) = 1 .. Len(s)
         /\ Pages(s, im) \in Seq(Held(im))
         /\ Len(Pages(s, im)) = Len(s)
         /\ \A i \in 1 .. Len(s) : Pages(s, im)[i] = im[s[i]]
<1>1. Len(s) \in Nat /\ DOMAIN s = 1 .. Len(s) /\ \A i \in 1 .. Len(s) : s[i] \in Pids
  OBVIOUS
<1>2. Pages(s, im) \in [1 .. Len(s) -> Held(im)]
  BY <1>1 DEF Pages, Held
<1>3. \A i \in 1 .. Len(s) : Pages(s, im)[i] = im[s[i]]
  BY <1>1 DEF Pages
<1> QED
  BY <1>1, <1>2, <1>3

\* One element more.
Longer(s, e) == Append(s, e)

LEMMA PagesLonger ==
  ASSUME NEW s \in Seq(Pids), NEW p \in Pids, NEW im, NEW newer,
         \A i \in 1 .. Len(s) : newer[s[i]] = im[s[i]]
  PROVE  Pages(Longer(s, p), newer) = Longer(Pages(s, im), newer[p])
<1> DEFINE u == Append(s, p)
           v == Append(Pages(s, im), newer[p])
<1>1. /\ u \in Seq(Pids) /\ Len(u) = Len(s) + 1 /\ u[Len(s) + 1] = p
      /\ Len(s) \in Nat /\ \A i \in 1 .. Len(s) : u[i] = s[i]
  OBVIOUS
<1>2. /\ DOMAIN v = 1 .. Len(s) + 1 /\ v[Len(s) + 1] = newer[p]
      /\ \A i \in 1 .. Len(s) : v[i] = im[s[i]]
      /\ v = [i \in 1 .. Len(s) + 1 |-> v[i]]
  <2> DEFINE g == Pages(s, im)
             S == Held(im) \cup {newer[p]}
  <2>1. /\ g \in Seq(S) /\ Len(g) = Len(s) /\ newer[p] \in S
        /\ \A i \in 1 .. Len(s) : g[i] = im[s[i]]
    <3>1. /\ Len(g) \in Nat /\ DOMAIN g = 1 .. Len(g) /\ Len(g) = Len(s)
          /\ \A i \in 1 .. Len(s) : g[i] = im[s[i]]
          /\ g \in Seq(Held(im))
      BY PagesSeq
    <3>2. \A i \in 1 .. Len(g) : g[i] \in S
      BY <3>1
    <3>3. g \in Seq(S)
      <4> HIDE DEF S
      <4> QED
        BY <3>1, <3>2
    <3> QED
      BY <3>1, <3>3
  <2> HIDE DEF g, S
  <2>2. /\ Append(g, newer[p]) \in Seq(S) /\ Len(Append(g, newer[p])) = Len(g) + 1
        /\ Append(g, newer[p])[Len(g) + 1] = newer[p]
        /\ \A i \in 1 .. Len(g) : Append(g, newer[p])[i] = g[i]
    BY <2>1
  <2>3. DOMAIN Append(g, newer[p]) = 1 .. Len(g) + 1
    BY <2>2
  <2>4. Append(g, newer[p]) = [i \in 1 .. Len(g) + 1 |-> Append(g, newer[p])[i]]
    BY <2>2, <2>3
  <2> QED
    BY <2>1, <2>2, <2>3, <2>4 DEF g
<1>4. Pages(u, newer) = [i \in 1 .. Len(s) + 1 |-> newer[u[i]]]
  BY <1>1 DEF Pages
<1> HIDE DEF u, v
<1>5. \A i \in 1 .. Len(s) + 1 : newer[u[i]] = v[i]
  <2> TAKE i \in 1 .. Len(s) + 1
  <2>1. CASE i = Len(s) + 1
    BY <2>1, <1>1, <1>2
  <2>2. CASE i # Len(s) + 1
    <3>1. i \in 1 .. Len(s)
      BY <2>2, <1>1
    <3> QED
      BY <3>1, <1>1, <1>2
  <2> QED
    BY <2>1, <2>2
<1>6. Pages(u, newer) = v
  BY <1>2, <1>4, <1>5
<1> QED
  BY <1>6 DEF u, v, Longer

LEMMA PagesShorter ==
  ASSUME NEW s \in Seq(Pids), Len(s) > 1, NEW im
  PROVE  Pages(AllButLast(s), im) = AllButLast(Pages(s, im))
<1> DEFINE u == AllButLast(s)
           g == Pages(s, im)
           v == AllButLast(g)
<1>1. /\ Len(s) \in Nat /\ u \in Seq(Pids) /\ Len(u) = Len(s) - 1
      /\ \A i \in 1 .. Len(s) - 1 : u[i] = s[i]
  BY DEF AllButLast
<1>2. /\ Len(g) = Len(s) /\ g \in Seq(Held(im))
      /\ \A i \in 1 .. Len(s) : g[i] = im[s[i]]
  BY PagesSeq
<1>3. v = [i \in 1 .. Len(s) - 1 |-> v[i]] /\ \A i \in 1 .. Len(s) - 1 : v[i] = g[i]
  <2> HIDE DEF g
  <2>1. v \in Seq(Held(im)) /\ Len(v) = Len(s) - 1
    BY <1>1, <1>2 DEF AllButLast
  <2>2. \A i \in 1 .. Len(s) - 1 : v[i] = g[i]
    BY <1>1, <1>2 DEF AllButLast
  <2> HIDE DEF v
  <2> QED
    BY <2>1, <2>2
<1>4. Pages(u, im) = [i \in 1 .. Len(s) - 1 |-> im[u[i]]]
  <2>1. DOMAIN u = 1 .. Len(s) - 1
    BY <1>1
  <2> QED
    BY <2>1 DEF Pages
<1> HIDE DEF u, g, v
<1>5. \A i \in 1 .. Len(s) - 1 : im[u[i]] = v[i]
  BY <1>1, <1>2, <1>3
<1>6. Pages(u, im) = v
  BY <1>3, <1>4, <1>5
<1> QED
  BY <1>6 DEF u, v, g

LEMMA ChainShape ==
  ASSUME TypeOK, LinesInv, NEW t \in Terminals
  PROVE  /\ ChainOf(t) \in Seq(Pids)
         /\ StackOf(t) = Pages(ChainOf(t), image)
         /\ ChainOf(t) = << >> <=> active_process[t] = NoProcess
         /\ StackOf(t) = << >> <=> active_process[t] = NoProcess
<1> DEFINE s == ChainOf(t)
           a == active_process[t]
<1>1. Line(s, a, parent_num) /\ a \in Pids \cup {NoProcess} /\ NoProcess \notin Pids
  BY DEF LinesInv, TypeOK, NoProcess, Pids
<1>2. StackOf(t) = Pages(s, image)
  BY DEF StackOf, Pages
<1> HIDE DEF s, a
<1>3. s \in Seq(Pids) /\ Len(s) \in Nat
  BY <1>1 DEF Line
<1>4. s # << >> => a \in Pids
  <2> SUFFICES ASSUME s # << >> PROVE a \in Pids
    OBVIOUS
  <2>1. Len(s) \in 1 .. Len(s)
    BY <1>3
  <2> QED
    BY <2>1, <1>1, <1>3 DEF Line
<1>5. s = << >> <=> a = NoProcess
  BY <1>1, <1>4 DEF Line
<1>6. s = << >> <=> Pages(s, image) = << >>
  <2>1. Len(Pages(s, image)) = Len(s) /\ Pages(s, image) \in Seq(Held(image))
    BY <1>3, PagesSeq
  <2> QED
    BY <2>1, <1>3
<1> QED
  BY <1>2, <1>3, <1>5, <1>6 DEF s, a

\* A free slot is a place for one more program.
LEMMA RoomThere ==
  ASSUME TypeOK, LinesInv, NEW p \in Pids, ~active[p]
  PROVE  Stacks!Room
<1> DEFINE C(t) == ChainOf(t)
           Places == UNION {{t} \X (1 .. Len(C(t))) : t \in Terminals}
           f == [x \in Places |-> C(x[1])[x[2]]]
<1>1. ASSUME NEW t \in Terminals
      PROVE  /\ Len(C(t)) \in Nat /\ DOMAIN StackOf(t) = 1 .. Len(C(t))
             /\ \A i \in 1 .. Len(C(t)) :
                  /\ C(t)[i] \in Pids \ {p} /\ terminal_index[C(t)[i]] = t
                  /\ \A j \in 1 .. Len(C(t)) : C(t)[i] = C(t)[j] => i = j
  <2>1. C(t) \in Seq(Pids) /\ StackOf(t) = Pages(C(t), image)
    BY ChainShape
  <2>2. /\ Line(C(t), active_process[t], parent_num)
        /\ \A i \in 1 .. Len(C(t)) : active[C(t)[i]] /\ terminal_index[C(t)[i]] = t
    BY DEF LinesInv
  <2> HIDE DEF C
  <2>3. DOMAIN StackOf(t) = 1 .. Len(C(t))
    BY <2>1, PagesSeq
  <2>4. \A i, j \in 1 .. Len(C(t)) : C(t)[i] = C(t)[j] => i = j
    BY <2>2 DEF Line
  <2> QED
    BY <2>1, <2>2, <2>3, <2>4
<1>2. UNION {{t} \X DOMAIN [u \in Terminals |-> StackOf(u)][t] : t \in Terminals} = Places
  <2>1. \A t \in Terminals : DOMAIN [u \in Terminals |-> StackOf(u)][t] = 1 .. Len(C(t))
    BY <1>1
  <2> QED
    BY <2>1
<1> HIDE DEF C
<1>3. ASSUME NEW x \in Places
      PROVE  x[1] \in Terminals /\ x[2] \in 1 .. Len(C(x[1])) /\ x = << x[1], x[2] >>
  OBVIOUS
<1>4. f \in Injection(Places, Pids \ {p})
  <2> HIDE DEF Places
  <2>1. ASSUME NEW x \in Places
        PROVE  f[x] = C(x[1])[x[2]] /\ f[x] \in Pids \ {p} /\ terminal_index[f[x]] = x[1]
    BY <1>1, <1>3
  <2>2. f \in [Places -> Pids \ {p}]
    BY <2>1
  <2>3. ASSUME NEW x \in Places, NEW y \in Places, f[x] = f[y]
        PROVE  x = y
    <3>1. x[1] = y[1]
      BY <2>1, <2>3
    <3>2. x[2] \in 1 .. Len(C(x[1])) /\ y[2] \in 1 .. Len(C(x[1]))
      BY <3>1, <1>3
    <3>3. C(x[1])[x[2]] = C(x[1])[y[2]]
      BY <3>1, <2>1, <2>3
    <3>4. x[2] = y[2]
      BY <3>2, <3>3, <1>1, <1>3
    <3> QED
      BY <3>1, <3>4, <1>3
  <2> HIDE DEF f
  <2> QED
    BY <2>2, <2>3 DEF Injection, IsInjective
<1>5. IsFiniteSet(Pids \ {p}) /\ Cardinality(Pids \ {p}) = NumProcs - 1
  BY SlotsCounted, FS_RemoveElement
<1>6. IsFiniteSet(Places) /\ Cardinality(Places) =< NumProcs - 1
  <2> HIDE DEF Places, f
  <2> QED
    BY <1>4, <1>5, FS_Injection
<1>7. Cardinality(Places) \in Nat /\ NumProcs \in Nat
  BY <1>6, FS_CardinalityType, KernelAssumption
<1>8. Cardinality(Places) < NumProcs
  BY <1>6, <1>7
<1> QED
  <2> HIDE DEF Places
  <2> QED
    <3> DEFINE D == UNION {{t} \X DOMAIN [u \in Terminals |-> StackOf(u)][t] : t \in Stacks!Terminals}
    <3>1. D = Places
      BY <1>2 DEF Stacks!Terminals, Terminals
    <3>2. Stacks!Cardinality(D) = Cardinality(D)
      <4> HIDE DEF D
      <4> QED
        BY DEF Stacks!Cardinality, Cardinality
    <3> QED
      BY <1>8, <3>1, <3>2 DEF Stacks!Room

\* A terminal whose processes a step leaves alone keeps its stack.
LEMMA SameStack ==
  ASSUME TypeOK, LinesInv, NEW t \in Terminals, ChainOf(t)' = ChainOf(t),
         \A q \in Pids : active[q] => image'[q] = image[q]
  PROVE  StackOf(t)' = StackOf(t)
<1> DEFINE s == ChainOf(t)
<1>1. s \in Seq(Pids) /\ \A i \in 1 .. Len(s) : active[s[i]]
  BY ChainShape DEF LinesInv
<1>2. StackOf(t) = [i \in DOMAIN s |-> image[s[i]]]
  BY DEF StackOf
<1>3. StackOf(t)' = [i \in DOMAIN s |-> image'[s[i]]]
  BY DEF StackOf
<1> HIDE DEF s
<1>4. \A i \in DOMAIN s : image'[s[i]] = image[s[i]]
  BY <1>1
<1> QED
  BY <1>2, <1>3, <1>4

AllStacks == [t \in Terminals |-> StackOf(t)]

\* Steps that execute and halt nothing leave every stack as it is.
LEMMA SameStacks ==
  ASSUME TypeOK, LinesInv,
         UNCHANGED << active, active_process, parent_num, terminal_index >>,
         \A q \in Pids : active[q] => image'[q] = image[q]
  PROVE  /\ LinesInv'
         /\ UNCHANGED AllStacks
<1>1. LinesInv' /\ \A t \in Terminals : ChainOf(t)' = ChainOf(t)
  BY SameChains
<1>2. \A t \in Terminals : StackOf(t)' = StackOf(t)
  BY <1>1, SameStack
<1> QED
  BY <1>1, <1>2 DEF AllStacks

\* The stacks when one of them gets one more program.
Pushed(home, f) == [AllStacks EXCEPT ![home] = Append(StackOf(home), f)]

LEMMA OneMoreStack ==
  ASSUME KernelInv, LinesInv, NEW p \in Pids, ~active[p], NEW home \in Terminals, NEW parent,
         NEW f,
         Started(p, home, parent), image' = [image EXCEPT ![p] = f]
  PROVE  /\ LinesInv'
         /\ AllStacks' = Pushed(home, f)
<1>1. /\ LinesInv'
      /\ ChainOf(home)' = Append(ChainOf(home), p)
      /\ \A t \in Terminals \ {home} : ChainOf(t)' = ChainOf(t)
  BY OneMore
<1>2. TypeOK
  BY DEF KernelInv
<1>3. image'[p] = f /\ \A q \in Pids : active[q] => image'[q] = image[q]
  BY <1>2 DEF TypeOK
<1>4. \A t \in Terminals \ {home} : StackOf(t)' = StackOf(t)
  BY <1>1, <1>2, <1>3, SameStack
<1>5. StackOf(home)' = Append(StackOf(home), f)
  <2> DEFINE s == ChainOf(home)
  <2>1. /\ s \in Seq(Pids) /\ StackOf(home) = Pages(s, image)
        /\ \A i \in 1 .. Len(s) : active[s[i]]
    BY <1>2, ChainShape DEF LinesInv
  <2>2. StackOf(home)' = Pages(Append(s, p), image')
    BY <1>1 DEF StackOf, Pages
  <2> HIDE DEF s
  <2>3. \A i \in 1 .. Len(s) : image'[s[i]] = image[s[i]]
    BY <2>1, <1>3
  <2>4. Pages(Longer(s, p), image') = Longer(Pages(s, image), image'[p])
    <3>1. PICK im, newer : im = image /\ newer = image'
      OBVIOUS
    <3>2. \A i \in 1 .. Len(s) : newer[s[i]] = im[s[i]]
      BY <2>3, <3>1
    <3>3. s \in Seq(Pids)
      BY <2>1
    <3>4. Pages(Longer(s, p), newer) = Longer(Pages(s, im), newer[p])
      BY <3>2, <3>3, PagesLonger
    <3> QED
      BY <3>1, <3>4
  <2> QED
    BY <2>1, <2>2, <2>4, <1>3 DEF Longer
<1>6. \A t \in Terminals :
        StackOf(t)' = Pushed(home, f)[t]
  BY <1>4, <1>5 DEF AllStacks, Pushed
<1> QED
  BY <1>1, <1>6 DEF AllStacks, Pushed

\* Where the running program stands in the books.
LEMMA RunningProgram ==
  ASSUME KernelInv
  PROVE  /\ terminal_iter \in Terminals
         /\ CallerTerminal = terminal_iter
         /\ active_process[terminal_iter] = NoProcess => curr_process = 0
         /\ active_process[terminal_iter] # NoProcess => curr_process = active_process[terminal_iter]
         /\ curr_process = Boot <=> active_process[terminal_iter] = NoProcess
<1>1. TypeOK /\ HardwareAgrees /\ ForegroundOk /\ Booting
  BY DEF KernelInv, ShellChains
<1>2. curr_process \in Pids \cup {Boot} /\ terminal_iter \in Terminals
  BY <1>1 DEF TypeOK
<1>3. CASE curr_process = Boot
  BY <1>1, <1>2, <1>3 DEF Booting, Boot, CallerTerminal, CurrentPcb
<1>4. CASE curr_process # Boot
  <2>1. esp0 = curr_process /\ active_process[terminal_iter] = curr_process
    BY <1>1, <1>4 DEF HardwareAgrees
  <2>2. active_process[terminal_iter] # NoProcess
    BY <1>2, <1>4, <2>1 DEF Pids, NoProcess
  <2>3. terminal_index[active_process[terminal_iter]] = terminal_iter
    BY <1>1, <1>2, <2>2 DEF ForegroundOk
  <2> QED
    BY <1>2, <1>4, <2>1, <2>2, <2>3 DEF CallerTerminal, CurrentPcb
<1> QED
  BY <1>3, <1>4

\* execute() of a program pushes it on the stack of the terminal that has its turn.
LEMMA ExecutePushes ==
  ASSUME KernelInv, LinesInv, NEW f \in Programs, Execute(f)
  PROVE  LinesInv' /\ Stacks!Push(f)
<1>1. /\ terminal_iter \in Terminals /\ CallerTerminal = terminal_iter /\ TypeOK
      /\ active_process[terminal_iter] = NoProcess => curr_process = 0
      /\ active_process[terminal_iter] # NoProcess => curr_process = active_process[terminal_iter]
      /\ curr_process = Boot <=> active_process[terminal_iter] = NoProcess
  BY RunningProgram DEF KernelInv
<1>2. PICK p \in Pids :
        /\ ~active[p]
        /\ image' = [image EXCEPT ![p] = f]
        /\ active' = [active EXCEPT ![p] = TRUE]
        /\ parent_num' = [parent_num EXCEPT ![p] = curr_process]
        /\ terminal_index' = [terminal_index EXCEPT ![p] = terminal_iter]
        /\ active_process' = [active_process EXCEPT ![terminal_iter] = p]
  BY <1>1 DEF Execute, FreeSlot, load_program, DirectoryFor
<1>3. LinesInv' /\ AllStacks' = Pushed(terminal_iter, f)
  <2>1. PICK home, parent : home = terminal_iter /\ parent = curr_process
    OBVIOUS
  <2>2. Started(p, home, parent)
    BY <1>1, <1>2, <2>1 DEF Started
  <2>3. home \in Terminals
    BY <1>1, <2>1
  <2>4. LinesInv' /\ AllStacks' = Pushed(home, f)
    BY <1>2, <2>2, <2>3, OneMoreStack
  <2> QED
    BY <2>1, <2>4
<1>4. Stacks!Room
  BY <1>1, <1>2, RoomThere
<1>5. [t \in Terminals |-> StackOf(t)][terminal_iter] = StackOf(terminal_iter)
  BY <1>1
<1>6. ~Stacks!InUse(terminal_iter) => f = Shell
  <2>1. StackOf(terminal_iter) = << >> <=> active_process[terminal_iter] = NoProcess
    BY <1>1, ChainShape
  <2>2. curr_process = Boot => f = Shell
    BY DEF Execute
  <2> QED
    BY <1>1, <1>5, <2>1, <2>2 DEF Stacks!InUse
<1>7. UNCHANGED << terminal_iter, active_terminal_index >>
  BY DEF Execute
<1> QED
  BY <1>3, <1>4, <1>5, <1>6, <1>7 DEF AllStacks, Pushed, Stacks!Push

\* halt of a program some process executed pops it.
LEMMA HaltPops ==
  ASSUME KernelInv, LinesInv, HaltChild
  PROVE  LinesInv' /\ Stacks!Pop
<1>1. TypeOK /\ UNCHANGED << image, terminal_iter, active_terminal_index >>
  BY DEF KernelInv, HaltChild
<1>2. PICK home \in Terminals : home = terminal_iter
  BY <1>1 DEF TypeOK
<1>3. /\ LinesInv'
      /\ Len(ChainOf(home)) \in Nat /\ Len(ChainOf(home)) > 1
      /\ ChainOf(home)' = AllButLast(ChainOf(home))
      /\ \A t \in Terminals \ {home} : ChainOf(t)' = ChainOf(t)
  BY <1>2, OneLess
<1>4. \A t \in Terminals \ {home} : StackOf(t)' = StackOf(t)
  BY <1>1, <1>3, SameStack
<1>5. Len(StackOf(home)) > 1 /\ StackOf(home)' = AllButLast(StackOf(home))
  <2> DEFINE s == ChainOf(home)
  <2>1. s \in Seq(Pids) /\ Len(s) > 1 /\ StackOf(home) = Pages(s, image)
    BY <1>1, <1>3, ChainShape
  <2>2. StackOf(home)' = Pages(AllButLast(s), image)
    BY <1>1, <1>3 DEF StackOf, Pages
  <2> HIDE DEF s
  <2>3. Pages(AllButLast(s), image) = AllButLast(Pages(s, image))
    <3>1. PICK im : im = image
      OBVIOUS
    <3>2. Pages(AllButLast(s), im) = AllButLast(Pages(s, im))
      BY <2>1, PagesShorter
    <3> QED
      BY <3>1, <3>2
  <2>4. Len(Pages(s, image)) = Len(s)
    BY <2>1, PagesSeq
  <2> QED
    BY <2>1, <2>2, <2>3, <2>4
<1>6. AllStacks' = [AllStacks EXCEPT ![home] = AllButLast(StackOf(home))]
  BY <1>4, <1>5 DEF AllStacks
<1>7. AllStacks[home] = StackOf(home)
  BY DEF AllStacks
<1>8. Len(AllStacks[terminal_iter]) > 1
  BY <1>2, <1>5, <1>7
<1>9. AllStacks' = [AllStacks EXCEPT ![terminal_iter] = Stacks!Front(@)]
  BY <1>2, <1>6, <1>7 DEF AllButLast, Stacks!Front
<1> QED
  BY <1>1, <1>3, <1>8, <1>9 DEF AllStacks, Stacks!Pop

\* The terminals in use are those with a process.
LEMMA UsedTerminals ==
  ASSUME KernelInv, LinesInv, NEW t \in Terminals
  PROVE  /\ Stacks!InUse(t) <=> active_process[t] # NoProcess
         /\ ~Stacks!InUse(t) => StackOf(t) = << >>
<1>1. StackOf(t) = << >> <=> active_process[t] = NoProcess
  BY ChainShape DEF KernelInv
<1>2. [u \in Terminals |-> StackOf(u)][t] = StackOf(t)
  OBVIOUS
<1> QED
  BY <1>1, <1>2 DEF Stacks!InUse

\* schedule() passes the processor on.
LEMMA SchedulePasses ==
  ASSUME KernelInv, LinesInv, Schedule
  PROVE  LinesInv' /\ \E t \in Terminals : Stacks!Pass(t)
<1>1. /\ TypeOK /\ curr_process # Boot
      /\ UNCHANGED << active, active_process, parent_num, terminal_index, image,
                      active_terminal_index >>
  BY DEF KernelInv, Schedule, Interruptible
<1>2. PICK t \in Terminals : NextTerminal(t) /\ terminal_iter' = t
  BY DEF Schedule
<1>3. LinesInv' /\ UNCHANGED AllStacks
  BY <1>1, SameStacks
<1>4. Stacks!InUse(terminal_iter) /\ Stacks!InUse(t)
  <2>1. terminal_iter \in Terminals /\ active_process[terminal_iter] # NoProcess
    BY <1>1, RunningProgram
  <2> QED
    BY <1>2, <2>1, UsedTerminals DEF NextTerminal
<1>5. \A u \in Terminals :
        (u - terminal_iter - 1) % NumTerminals < (t - terminal_iter - 1) % NumTerminals
          => ~Stacks!InUse(u)
  <2> TAKE u \in Terminals
  <2> SUFFICES ASSUME Stacks!InUse(u) PROVE ~(StepsTo(u) < StepsTo(t))
    BY DEF StepsTo
  <2>1. StepsTo(t) =< StepsTo(u)
    BY <1>2, UsedTerminals DEF NextTerminal
  <2>2. StepsTo(t) \in Int /\ StepsTo(u) \in Int
    BY <1>1, KernelAssumption DEF StepsTo, Terminals, TypeOK
  <2> QED
    BY <2>1, <2>2
<1>6. Stacks!Pass(t)
  BY <1>1, <1>2, <1>3, <1>4, <1>5 DEF Stacks!Pass, AllStacks, Stacks!Terminals, Terminals
<1> QED
  BY <1>3, <1>6

\* switch_terminal to a terminal that runs something shows it.
LEMMA SwitchShows ==
  ASSUME KernelInv, LinesInv, NEW n \in Terminals, ShowTerminal(n)
  PROVE  LinesInv' /\ Stacks!Show(n)
<1>1. /\ curr_process # Boot /\ active_process[n] # NoProcess
      /\ active_terminal_index' = n
      /\ UNCHANGED << active, active_process, parent_num, terminal_index, image, terminal_iter >>
  BY DEF ShowTerminal, Interruptible
<1>2. LinesInv' /\ UNCHANGED AllStacks
  BY <1>1, SameStacks DEF KernelInv
<1>3. Stacks!InUse(terminal_iter) /\ Stacks!InUse(n)
  BY <1>1, RunningProgram, UsedTerminals
<1> QED
  BY <1>1, <1>2, <1>3 DEF Stacks!Show, AllStacks

\* switch_terminal to one that runs nothing gives it a shell and shows it.
LEMMA SwitchOpens ==
  ASSUME KernelInv, LinesInv, NEW n \in Terminals, OpenTerminal(n)
  PROVE  LinesInv' /\ Stacks!Show(n)
<1>1. /\ TypeOK /\ curr_process # Boot /\ active_process[n] = NoProcess
      /\ active_terminal_index' = n /\ UNCHANGED terminal_iter
  BY DEF OpenTerminal, Interruptible, KernelInv
<1>2. PICK p \in Pids :
        /\ ~active[p]
        /\ active' = [active EXCEPT ![p] = TRUE]
        /\ parent_num' = [parent_num EXCEPT ![p] = 0]
        /\ terminal_index' = [terminal_index EXCEPT ![p] = n]
        /\ image' = [image EXCEPT ![p] = Shell]
        /\ active_process' = [active_process EXCEPT ![n] = p]
  BY DEF OpenTerminal, FreeSlot, load_program, DirectoryFor
<1>3. Started(p, n, 0)
  BY <1>1, <1>2 DEF Started
<1>4. LinesInv' /\ AllStacks' = Pushed(n, Shell)
  BY <1>2, <1>3, OneMoreStack
<1>5. Stacks!InUse(terminal_iter) /\ ~Stacks!InUse(n) /\ StackOf(n) = << >>
  BY <1>1, RunningProgram, UsedTerminals
<1>6. AllStacks' = [AllStacks EXCEPT ![n] = << Shell >>]
  <2>1. Append(<< >>, Shell) = << Shell >>
    OBVIOUS
  <2> QED
    BY <1>4, <1>5, <2>1 DEF Pushed
<1>7. Stacks!Room
  BY <1>1, <1>2, RoomThere
<1> QED
  BY <1>1, <1>4, <1>5, <1>6, <1>7 DEF Stacks!Show, AllStacks

(***************************************************************************)
(* The kernel implements ShellStacks: execute() pushes a program on the    *)
(* stack of the terminal that has its turn, halt pops it, schedule()       *)
(* passes the turn round robin, switch_terminal changes the display, and   *)
(* nothing else changes what the terminals run.                            *)
(***************************************************************************)
THEOREM ShellStacksImplemented == Spec => ImplementsShellStacks
<1>1. Init => LinesInv /\ Stacks!Init
  <2> SUFFICES ASSUME Init PROVE LinesInv /\ Stacks!Init
    OBVIOUS
  <2>1. LinesInv /\ \A t \in Terminals : ChainOf(t) = << >>
    BY LinesInit
  <2>2. \A t \in Terminals : StackOf(t) = << >>
    BY <2>1, InitInv, ChainShape DEF Init, KernelInv
  <2> QED
    BY <2>1, <2>2 DEF Init, Stacks!Init, Stacks!Terminals, Terminals
<1>2. ASSUME KernelInv, LinesInv, [Next]_vars
      PROVE  LinesInv' /\ [Stacks!Next]_(Stacks!vars)
  <2>1. ASSUME NEW f \in Programs, Execute(f)
        PROVE  LinesInv' /\ Stacks!Next
    BY <1>2, <2>1, ExecutePushes DEF Stacks!Next
  <2>2. CASE HaltChild
    BY <1>2, <2>2, HaltPops DEF Stacks!Next
  <2>3. CASE Schedule
    BY <1>2, <2>3, SchedulePasses DEF Stacks!Next, Stacks!Terminals, Terminals
  <2>4. ASSUME NEW n \in Terminals, ShowTerminal(n) \/ OpenTerminal(n)
        PROVE  LinesInv' /\ Stacks!Next
    BY <1>2, <2>4, SwitchShows, SwitchOpens DEF Stacks!Next, Stacks!Terminals, Terminals
  <2>5. CASE \/ \E f \in DataFiles : ExecuteFails(f)
             \/ HaltRoot \/ TimerEoi \/ UNCHANGED vars
    <3>1. UNCHANGED << active, active_process, parent_num, terminal_index, terminal_iter,
                       active_terminal_index >>
      BY <2>5 DEF ExecuteFails, HaltRoot, TimerEoi, vars
    <3>2. \A q \in Pids : active[q] => image'[q] = image[q]
      BY <1>2, <2>5 DEF ExecuteFails, FreeSlot, load_program, DirectoryFor, HaltRoot, TimerEoi,
        vars, KernelInv, TypeOK
    <3>3. LinesInv' /\ UNCHANGED AllStacks
      BY <1>2, <3>1, <3>2, SameStacks DEF KernelInv
    <3> QED
      BY <3>1, <3>3 DEF Stacks!vars, AllStacks
  <2> QED
    BY <1>2, <2>1, <2>2, <2>3, <2>4, <2>5 DEF Next, SystemCall, Interrupt
<1> QED
  BY <1>1, <1>2, KernelInvariant, PTL DEF Spec, ImplementsShellStacks, Stacks!Spec
=============================================================================
