-------------------------------- MODULE Clock --------------------------------
(***************************************************************************)
(* The interrupts of the mp3 kernel and the virtual clocks they drive: the *)
(* two 8259 interrupt controllers (i8259.c), the handlers of the timer,    *)
(* the keyboard and the clock chip (interrupt_handler.S), and rtc_read,    *)
(* which waits until the clock chip has interrupted 1024 / frequency times.*)
(*                                                                         *)
(* Handlers run with interrupts off, behind interrupt gates, and a device  *)
(* can raise its line between any two of their steps.  The exception is    *)
(* the end of scheduler_handler: a process schedule() goes back to runs it *)
(* with interrupts on ("tail") and the timer's line still in service.      *)
(*                                                                         *)
(* Each process is the running one of its own terminal.                    *)
(***************************************************************************)
EXTENDS Integers, Sequences, FiniteSets, FiniteSetsExt

CONSTANTS
  Procs,     (* the pids, one per terminal: 1 .. n                       *)
  HZ,        (* 1024: interrupts of the clock chip in a second            *)
  Requests,  (* frequencies programs ask rtc_write for                    *)
  Numbers    (* arguments of enable_irq and disable_irq                   *)

ASSUME ClockAssumption ==
  /\ IsFiniteSet(Procs) /\ 1 \in Procs /\ Procs \subseteq Nat \ {0}
  /\ HZ \in Nat \ {0} /\ HZ % 2 = 0
  /\ Requests \subseteq Nat
  /\ Numbers \subseteq Nat

VARIABLES
  boot,         (* the calls of entry() still to come                      *)
  phase,        (* entry(), calls for the masks, or programs running       *)
  master, slave,                (* the registers of the two controllers    *)
  master_interrupt_mask, slave_interrupt_mask,  (* the masks kept   *)
  wanted,       (* the interrupts asked for and not disabled since         *)
  rtc,          (* the clock chip: bit 6 of register B, bit 7 of C         *)
  curr,         (* the running process                                     *)
  ready,        (* those switch_terminal or execute has made               *)
  is_user_mode, (* those that had no turn yet                              *)
  context,      (* per process, the handlers on its kernel stack           *)
  frequency,    (* file_position of its clock, 0: not open                 *)
  rtc_count,    (* what rtc_read waits for to become zero                  *)
  reading,      (* it is inside rtc_read                                   *)
  asked, seen   (* interrupts rtc_read is to wait for; those there were    *)

masks == << master_interrupt_mask, slave_interrupt_mask, wanted >>
pics == << master, slave, masks >>
procs == << curr, ready, is_user_mode >>
clocks == << frequency, rtc_count, reading, asked, seen >>
vars == << boot, phase, pics, rtc, procs, context, clocks >>

Lines == 0 .. 7
Handlers == {"timer", "tail", "key", "rtc_int", "rtc_eoi", "none"}
Chips == [imr : SUBSET Lines, irr : SUBSET Lines, isr : SUBSET Lines,
          base : Nat]

TypeOK ==
  /\ phase \in {"boot", "calls", "run"}
  /\ master \in Chips /\ slave \in Chips
  /\ master_interrupt_mask \subseteq Lines
  /\ slave_interrupt_mask \subseteq Lines
  /\ rtc \in [periodic : BOOLEAN, irqf : BOOLEAN]
  /\ curr \in ready /\ ready \subseteq Procs /\ is_user_mode \subseteq Procs
  /\ context \in [Procs -> Seq(Handlers)]
  /\ frequency \in [Procs -> 0 .. HZ]
  /\ rtc_count \in [Procs -> 0 .. HZ]
  /\ reading \in [Procs -> BOOLEAN]
  /\ asked \in [Procs -> 0 .. HZ] /\ seen \in [Procs -> 0 .. HZ]

-----------------------------------------------------------------------------
(***************************************************************************)
(* A controller: lines masked (imr), raised (irr) and being served (isr),  *)
(* and the vector of its line 0.  Writing ICW1 to ICW4 starts it anew, all *)
(* lines unmasked.                                                         *)
(***************************************************************************)
Programmed(base) == [imr |-> {}, irr |-> {}, isr |-> {}, base |-> base]
Raised(chip, line) == [chip EXCEPT !.irr = @ \cup {line}]
Masked(chip, mask) == [chip EXCEPT !.imr = mask]
Served(chip, line) == [chip EXCEPT !.irr = @ \ {line}, !.isr = @ \cup {line}]
Ended(chip, line) == [chip EXCEPT !.isr = @ \ {line}]

\* The lines a controller may interrupt for, raised being those that ask:
\* unmasked, and before every line in service.
Requesting(chip, raised) ==
  {l \in raised \ chip.imr : \A s \in chip.isr : l < s}

Cascade == 2
SlaveLines == Requesting(slave, slave.irr)
MasterLines ==
  Requesting(master, master.irr \cup {l \in {Cascade} : SlaveLines # {}})

\* Line irq of the sixteen is raised.
RaiseIrq(irq) ==
  IF irq < 8 THEN master' = Raised(master, irq) /\ UNCHANGED slave
             ELSE slave' = Raised(slave, irq - 8) /\ UNCHANGED master

\* An interrupt of line irq could get through to the processor.
Open(irq) ==
  IF irq < 8 THEN irq \notin master.imr
             ELSE irq - 8 \notin slave.imr /\ Cascade \notin master.imr

-----------------------------------------------------------------------------
(* i8259.c *)

i8259_init ==
  /\ master' = Programmed(32)
  /\ slave' = Programmed(40)
  /\ UNCHANGED masks

\* Seeded fault: the line the slave is on stays masked.
Cascaded_Fault(mask) == mask

\* master_interrupt_mask without the line the slave is on.
Cascaded(mask) == mask \ {Cascade}

\* What a call of enable_irq asks for: with a line of the slave, the line of
\* the master that all of the slave's come through.
AskedFor(irq) == IF irq < 8 THEN {irq}
                 ELSE IF irq > 15 THEN {} ELSE {irq, Cascade}

enable_irq(irq) ==
  /\ wanted' = wanted \cup AskedFor(irq)
  /\ IF irq < 8
     THEN /\ master_interrupt_mask' = master_interrupt_mask \ {irq}
          /\ UNCHANGED << slave, slave_interrupt_mask >>
     ELSE IF irq > 15 THEN UNCHANGED << slave, slave_interrupt_mask,
                                        master_interrupt_mask >>
     ELSE /\ slave_interrupt_mask' = slave_interrupt_mask \ {irq - 8}
          /\ slave' = Masked(slave, slave_interrupt_mask')
          /\ master_interrupt_mask' = Cascaded(master_interrupt_mask)
  /\ master' = IF irq > 15 THEN master
               ELSE Masked(master, master_interrupt_mask')

\* master_interrupt_mask when below are the masked lines of the slave.
Uncascaded(mask, below) == IF below = Lines THEN mask \cup {Cascade} ELSE mask

disable_irq(irq) ==
  /\ wanted' = wanted \ {irq}
  /\ IF irq < 8
     THEN /\ master_interrupt_mask' = master_interrupt_mask \cup {irq}
          /\ UNCHANGED << slave, slave_interrupt_mask >>
     ELSE IF irq > 15 THEN UNCHANGED << slave, slave_interrupt_mask,
                                        master_interrupt_mask >>
     ELSE /\ slave_interrupt_mask' = slave_interrupt_mask \cup {irq - 8}
          /\ slave' = Masked(slave, slave_interrupt_mask')
          /\ master_interrupt_mask' =
               Uncascaded(master_interrupt_mask, slave_interrupt_mask')
  /\ master' = IF irq > 15 THEN master
               ELSE Masked(master, master_interrupt_mask')

\* Seeded fault: the master is not told of the end of a slave's interrupt.
MasterLine_Fault(irq) == irq % 8

\* The line of the master an interrupt came through.
MasterLine(irq) == IF irq < 8 THEN irq ELSE Cascade

send_eoi(irq) ==
  /\ master' = Ended(master, MasterLine(irq))
  /\ slave' = IF irq < 8 THEN slave ELSE Ended(slave, irq - 8)
  /\ UNCHANGED masks

-----------------------------------------------------------------------------
(* entry() *)

BootOrder ==
  << <<"i8259_init", 0>>, <<"rtc_init", 0>>,
     <<"enable_irq", 0>>, <<"enable_irq", 1>>, <<"enable_irq", 8>> >>

\* The BIOS uses both controllers, with vectors of its own; curr is the
\* process the first shell will be.
Init ==
  /\ boot = BootOrder
  /\ phase = "boot"
  /\ master = Programmed(8) /\ slave = Programmed(112)
  /\ master_interrupt_mask = Lines /\ slave_interrupt_mask = Lines
  /\ wanted = {}
  /\ rtc = [periodic |-> FALSE, irqf |-> FALSE]
  /\ curr = 1 /\ ready = {1} /\ is_user_mode = Procs \ {1}
  /\ context = [p \in Procs |-> << >>]
  /\ frequency = [p \in Procs |-> 0]
  /\ rtc_count = [p \in Procs |-> 0]
  /\ reading = [p \in Procs |-> FALSE]
  /\ asked = [p \in Procs |-> 0] /\ seen = [p \in Procs |-> 0]

(***************************************************************************)
(* rtc_init: bit 6 of register B.  A period that has passed before makes   *)
(* the chip interrupt at once.                                             *)
(***************************************************************************)
rtc_init ==
  /\ \E passed \in BOOLEAN :
       /\ rtc' = [periodic |-> TRUE, irqf |-> passed]
       /\ IF passed THEN RaiseIrq(8) ELSE UNCHANGED << master, slave >>
  /\ UNCHANGED masks

BootCall ==
  /\ boot # << >>
  /\ LET call == Head(boot)[1]
         irq == Head(boot)[2] IN
     \/ call = "i8259_init" /\ i8259_init /\ UNCHANGED rtc
     \/ call = "rtc_init" /\ rtc_init
     \/ call = "enable_irq" /\ enable_irq(irq) /\ UNCHANGED rtc
  /\ boot' = Tail(boot)
  /\ phase' = IF Tail(boot) = << >> THEN "calls" ELSE phase
  /\ UNCHANGED << procs, context, clocks >>

\* enable_irq and disable_irq are there for all of the kernel: any calls of
\* them, with interrupts off, for the line of the slave on the master too.
IrqCalls ==
  /\ phase = "calls"
  /\ \E irq \in Numbers : enable_irq(irq) \/ disable_irq(irq)
  /\ UNCHANGED << boot, phase, rtc, procs, context, clocks >>

\* execute of the first shell.
Launch ==
  /\ phase = "calls"
  /\ phase' = "run"
  /\ UNCHANGED << boot, pics, rtc, procs, context, clocks >>

-----------------------------------------------------------------------------
(* The devices *)

PitTick ==
  /\ RaiseIrq(0)
  /\ UNCHANGED << boot, phase, masks, rtc, procs, context, clocks >>

KeyPress ==
  /\ RaiseIrq(1)
  /\ UNCHANGED << boot, phase, masks, rtc, procs, context, clocks >>

(***************************************************************************)
(* The clock chip holds its line until register C is read: a period that   *)
(* passes before then gives no interrupt.                                  *)
(***************************************************************************)
RtcTick ==
  /\ rtc.periodic /\ ~rtc.irqf
  /\ rtc' = [rtc EXCEPT !.irqf = TRUE]
  /\ RaiseIrq(8)
  /\ UNCHANGED << boot, phase, masks, procs, context, clocks >>

-----------------------------------------------------------------------------
(* The handlers *)

Running == phase = "run" /\ context[curr] = << >>
Handling(h) ==
  phase = "run" /\ context[curr] # << >> /\ Head(context[curr]) = h

\* The IDT: the handlers kernel.c puts at 0x20, 0x21 and 0x28.
Idt(vector) == CASE vector = 32 -> "timer"
                 [] vector = 33 -> "key"
                 [] vector = 40 -> "rtc_int"
                 [] OTHER -> "none"

\* The processor takes the first interrupt there is.
Interrupt ==
  /\ Running \/ Handling("tail")
  /\ MasterLines # {}
  /\ LET line == Min(MasterLines) IN
     /\ master' = Served(master, line)
     /\ slave' = IF line = Cascade THEN Served(slave, Min(SlaveLines))
                                    ELSE slave
     /\ LET vector == IF line = Cascade THEN slave.base + Min(SlaveLines)
                                        ELSE master.base + line
        IN context' = [context EXCEPT ![curr] = << Idt(vector) >> \o @]
  /\ UNCHANGED << boot, phase, masks, rtc, procs, clocks >>

Popped(h) == [context EXCEPT ![curr] = h \o Tail(@)]

\* Seeded fault: only the running process's clock is counted down.
CountedDown_Fault ==
  [rtc_count EXCEPT ![curr] = IF @ # 0 THEN @ - 1 ELSE @]

\* rtc_int's loop.
CountedDown ==
  [p \in Procs |-> IF rtc_count[p] # 0 THEN rtc_count[p] - 1 ELSE 0]

\* rtc_handler: rtc_int, which reads register C, then send_eoi(8).
RtcInt ==
  /\ Handling("rtc_int")
  /\ rtc_count' = CountedDown
  /\ seen' = [p \in Procs |-> IF reading[p] /\ seen[p] < asked[p]
                              THEN seen[p] + 1 ELSE seen[p]]
  /\ rtc' = [rtc EXCEPT !.irqf = FALSE]
  /\ context' = Popped(<<"rtc_eoi">>)
  /\ UNCHANGED << boot, phase, pics, procs, frequency, reading, asked >>

RtcEoi ==
  /\ Handling("rtc_eoi")
  /\ send_eoi(8)
  /\ context' = Popped(<< >>)
  /\ UNCHANGED << boot, phase, rtc, procs, clocks >>

\* key_handler: a key may start a shell on a terminal that has none.
KeyHandler ==
  /\ Handling("key")
  /\ ready' = ready \/ \E p \in Procs \ ready : ready' = ready \cup {p}
  /\ send_eoi(1)
  /\ context' = Popped(<< >>)
  /\ UNCHANGED << boot, phase, rtc, curr, is_user_mode, clocks >>

\* Seeded fault: the search does not start over at the first terminal.
NextTurn_Fault == IF \E p \in ready : p > curr
                  THEN Min({p \in ready : p > curr}) ELSE curr

\* Whose turn schedule() makes it.
NextTurn == IF \E p \in ready : p > curr THEN Min({p \in ready : p > curr})
                                         ELSE Min(ready)

\* schedule acknowledges the interrupt for a process that never ran.
EoiFirst(p) == p \in is_user_mode

Schedule ==
  /\ Handling("timer")
  /\ curr' = NextTurn
  /\ is_user_mode' = is_user_mode \ {curr, NextTurn}
  /\ context' = Popped(<<"tail">>)
  /\ IF EoiFirst(NextTurn) THEN send_eoi(0) ELSE UNCHANGED pics
  /\ UNCHANGED << boot, phase, rtc, ready, clocks >>

\* The end of scheduler_handler, in the process switched to.
TimerEoi ==
  /\ Handling("tail")
  /\ send_eoi(0)
  /\ context' = Popped(<< >>)
  /\ UNCHANGED << boot, phase, rtc, procs, clocks >>

-----------------------------------------------------------------------------
(* The system calls on the clock, of the running process. *)

rtc_open ==
  /\ Running /\ ~reading[curr]
  /\ frequency' = [frequency EXCEPT ![curr] = 2]
  /\ UNCHANGED << boot, phase, pics, rtc, procs, context, rtc_count, reading,
                  asked, seen >>

Power2(f) == \E k \in 0 .. 10 : f = 2 ^ k

rtc_write ==
  /\ Running /\ ~reading[curr] /\ frequency[curr] # 0
  /\ \E f \in Requests :
       /\ f >= 2 /\ f =< HZ /\ Power2(f)
       /\ frequency' = [frequency EXCEPT ![curr] = f]
  /\ UNCHANGED << boot, phase, pics, rtc, procs, context, rtc_count, reading,
                  asked, seen >>

rtc_close ==
  /\ Running /\ ~reading[curr]
  /\ frequency' = [frequency EXCEPT ![curr] = 0]
  /\ UNCHANGED << boot, phase, pics, rtc, procs, context, rtc_count, reading,
                  asked, seen >>

Quotient(f) == HZ \div f

\* rtc_read up to its loop.
rtc_read ==
  /\ Running /\ ~reading[curr] /\ frequency[curr] # 0
  /\ reading' = [reading EXCEPT ![curr] = TRUE]
  /\ rtc_count' = [rtc_count EXCEPT ![curr] = Quotient(frequency[curr])]
  /\ asked' = [asked EXCEPT ![curr] = HZ \div frequency[curr]]
  /\ seen' = [seen EXCEPT ![curr] = 0]
  /\ UNCHANGED << boot, phase, pics, rtc, procs, context, frequency >>

\* The loop of rtc_read ends.
ReadReturn(p) ==
  /\ Running /\ curr = p /\ reading[p]
  /\ rtc_count[p] = 0
  /\ reading' = [reading EXCEPT ![p] = FALSE]
  /\ asked' = [asked EXCEPT ![p] = 0]
  /\ seen' = [seen EXCEPT ![p] = 0]
  /\ UNCHANGED << boot, phase, pics, rtc, procs, context, frequency,
                  rtc_count >>

Calls == rtc_open \/ rtc_write \/ rtc_close \/ rtc_read
Service == RtcInt \/ RtcEoi \/ KeyHandler \/ Schedule \/ TimerEoi

Next ==
  \/ BootCall \/ IrqCalls \/ Launch
  \/ PitTick \/ KeyPress \/ RtcTick
  \/ Interrupt \/ Service
  \/ Calls
  \/ \E p \in Procs : ReadReturn(p)

Spec == Init /\ [][Next]_vars

(***************************************************************************)
(* Fairness.  The timer and the clock chip go on, the processor runs, and  *)
(* entry() reaches the first shell.  A turn of ten milliseconds lasts for  *)
(* many rounds of rtc_read's loop: strong fairness of its return.          *)
(***************************************************************************)
Fairness ==
  /\ WF_vars(BootCall) /\ WF_vars(Launch)
  /\ WF_vars(PitTick) /\ WF_vars(RtcTick)
  /\ WF_vars(Interrupt) /\ WF_vars(Service)
  /\ SF_vars(Interrupt /\ MasterLines = {Cascade})
  /\ \A p \in Procs : SF_vars(ReadReturn(p))

FairSpec == Spec /\ Fairness

-----------------------------------------------------------------------------
(* Properties *)

\* The lines of the two controllers a handler is to acknowledge.
ServedBy(h) == CASE h \in {"timer", "tail"} -> << {0}, {} >>
                 [] h = "key" -> << {1}, {} >>
                 [] h \in {"rtc_int", "rtc_eoi"} -> << {Cascade}, {0} >>
                 [] OTHER -> << {}, {} >>

(***************************************************************************)
(* What the controllers have in service is what the handler under way will *)
(* acknowledge, and nothing when a program runs: no interrupt is left      *)
(* without its EOI and none reaches another's handler (send_eoi, the       *)
(* vectors of i8259_init, the IDT entries of kernel.c, and schedule, which *)
(* acknowledges in one process an interrupt that came to another).  So no  *)
(* handler nests in another, although kernel_context_switch turns          *)
(* interrupts on before the timer's EOI is sent.                           *)
(***************************************************************************)
ServiceMatches ==
  phase = "run" =>
    /\ \A p \in Procs : Len(context[p]) =< 1
    /\ << master.isr, slave.isr >> =
         IF context[curr] = << >> THEN << {}, {} >>
                                  ELSE ServedBy(Head(context[curr]))

(***************************************************************************)
(* From the end of entry() on, an interrupt gets through to the processor  *)
(* exactly when enable_irq was called for it and disable_irq was not       *)
(* since, although i8259_init leaves every line unmasked; one of the slave *)
(* if, besides, disable_irq(2) has not been called since one of its lines  *)
(* was last enabled, for they share IRQ 2, which the last of them to be    *)
(* disabled takes with it and any of them brings back.                     *)
(***************************************************************************)
MasksAsAsked ==
  phase # "boot" =>
    \A irq \in (0 .. 15) \ {Cascade} :
      Open(irq) <=> irq \in wanted /\ (irq > 7 => Cascade \in wanted)

(***************************************************************************)
(* The clock chip never waits for a read of register C that no interrupt   *)
(* will make: with its flag set, its interrupt is still to be served.      *)
(* After an edge lost there would never be another (rtc.c:130).            *)
(***************************************************************************)
ClockNotStuck ==
  rtc.irqf => \/ 0 \in slave.irr
              \/ phase = "run" /\ \E p \in Procs : <<"rtc_int">> = context[p]

(***************************************************************************)
(* A countdown stands at what is left of the HZ / frequency interrupts its *)
(* read is to wait for, whoever else reads and whichever process the       *)
(* interrupts come to.                                                     *)
(***************************************************************************)
CountsExactly ==
  \A p \in Procs : reading[p] => rtc_count[p] = asked[p] - seen[p]

\* The processor has time for programs: it serves the timer's hundred
\* interrupts a second and the keys faster than they come.
HasTime == []<>(Running /\ master.irr \cap {0, 1} = {})

(***************************************************************************)
(* A read of the clock returns, unless the clock's interrupt, or the line  *)
(* it comes through, is disabled.                                          *)
(***************************************************************************)
ReadReturns ==
  HasTime => \A p \in Procs : reading[p] ~> (~reading[p] \/ ~({8, Cascade} \subseteq wanted))

(***************************************************************************)
(* Every interrupt is served by its own handler and acknowledged by it,    *)
(* one at a time, and the clock chip can always interrupt again.           *)
(***************************************************************************)
ClockInv == TypeOK /\ ServiceMatches /\ ClockNotStuck
==============================================================================
