------------------------------- MODULE ClockProofs -------------------------------
(***************************************************************************)
(* Theorems about the interrupts and virtual clocks of the kernel, for any *)
(* number of processes, any rate of the clock chip and any sequence of     *)
(* enable_irq and disable_irq: no interrupt is left without its EOI or     *)
(* served by another's handler, the masks are those asked for, the clock   *)
(* chip is never stuck, and each read counts its own interrupts.           *)
(***************************************************************************)
EXTENDS Clock, WellFoundedInduction, TLAPS

-----------------------------------------------------------------------------
(* Minima and the order of turns.                                          *)

\* A set of natural numbers that is not empty has a least one.
LEMMA LeastIn ==
  ASSUME NEW S \in SUBSET Nat, S # {}
  PROVE  Min(S) \in S /\ \A n \in S : Min(S) =< n
<1> DEFINE R == OpToRel(<, Nat)
<1>1. PICK m \in S : \A n \in S : ~(<<n, m>> \in R)
  <2>1. IsWellFoundedOn(R, Nat)
    BY NatLessThanWellFounded
  <2> HIDE DEF R
  <2> QED
    BY <2>1, WFMin
<1>2. \A n \in S : ~(n < m)
  BY <1>1 DEF OpToRel
<1>3. \A n \in S : m =< n
  BY <1>2
<1> QED
  BY <1>3 DEF Min

\* schedule() always finds a process: the running one, at the least.
LEMMA NextTurnReady ==
  ASSUME TypeOK
  PROVE  NextTurn \in ready
<1> DEFINE later == {p \in ready : p > curr}
<1>1. /\ ready \in SUBSET Nat /\ ready # {} /\ later \in SUBSET Nat
  BY ClockAssumption DEF TypeOK
<1>2. Min(ready) \in ready
  BY <1>1, LeastIn
<1>3. later # {} => Min(later) \in later
  BY <1>1, LeastIn
<1> QED
  BY <1>2, <1>3 DEF NextTurn

-----------------------------------------------------------------------------
(* The invariant.                                                          *)

\* What entry() has still to call says how far the hardware is set up.
Call == {"i8259_init", "rtc_init", "enable_irq"} \X {0, 1, 8}
BootCalls == Seq(Call)

\* entry() has come to its call k.
AtCall(k) ==
  /\ boot \in BootCalls /\ Len(boot) = 6 - k
  /\ \A i \in 1 .. 6 - k : boot[i] = BootOrder[k - 1 + i]

Booting(k) ==
  /\ AtCall(k)
  /\ k > 1 => master.base = 32 /\ slave.base = 40
  /\ k =< 2 => ~rtc.periodic

BootInv ==
  /\ phase # "boot" => boot = << >>
  /\ phase = "boot" => \E k \in 1 .. 5 : Booting(k)
  /\ phase # "boot" => master.base = 32 /\ slave.base = 40
  /\ ~rtc.periodic => ~rtc.irqf

\* The masks kept are those asked for, that of the slave's line on the master
\* at least while a line of the slave is unmasked, and from the last call of
\* enable_irq on the controllers have the masks kept.
Masks ==
  /\ wanted \subseteq 0 .. 15
  /\ \A irq \in Lines \ {Cascade} : irq \in master_interrupt_mask <=> irq \notin wanted
  /\ \A irq \in Lines : irq \in slave_interrupt_mask <=> irq + 8 \notin wanted
  /\ slave_interrupt_mask # Lines =>
       (Cascade \in master_interrupt_mask <=> Cascade \notin wanted)

Applied ==
  master.imr = master_interrupt_mask /\ slave.imr = slave_interrupt_mask

MaskInv == Masks /\ (phase # "boot" => Applied)

\* Only three lines are ever raised.
RaisedInv == master.irr \subseteq {0, 1} /\ slave.irr \subseteq {0}

\* Every process but the running one stands before its first turn, or in the
\* end of the timer's handler; the running one is in one handler at most.
ContextInv ==
  /\ curr \notin is_user_mode
  /\ \A p \in Procs \ {curr} :
       context[p] = IF p \in is_user_mode THEN << >> ELSE <<"tail">>
  /\ \/ context[curr] = << >> /\ master.isr = {} /\ slave.isr = {}
     \/ /\ phase = "run"
        /\ \/ /\ context[curr] \in {<<"timer">>, <<"tail">>}
              /\ master.isr = {0} /\ slave.isr = {}
           \/ context[curr] = <<"key">> /\ master.isr = {1} /\ slave.isr = {}
           \/ /\ context[curr] \in {<<"rtc_int">>, <<"rtc_eoi">>}
              /\ master.isr = {Cascade} /\ slave.isr = {0}

CountInv == CountsExactly /\ \A p \in Procs : seen[p] =< asked[p]

Inv ==
  /\ TypeOK
  /\ BootInv
  /\ MaskInv
  /\ RaisedInv
  /\ ContextInv
  /\ ClockNotStuck
  /\ CountInv

LEMMA BootOrderLength == BootOrder \in BootCalls /\ Len(BootOrder) = 5
<1>1. /\ <<"i8259_init", 0>> \in Call /\ <<"rtc_init", 0>> \in Call
      /\ <<"enable_irq", 0>> \in Call /\ <<"enable_irq", 1>> \in Call
      /\ <<"enable_irq", 8>> \in Call
  BY DEF Call
<1>2. BootOrder \in Seq(Call)
  BY <1>1 DEF BootOrder
<1>3. Len(BootOrder) = 5
  BY DEF BootOrder
<1> QED
  BY <1>2, <1>3 DEF BootCalls

LEMMA InvInit == Init => Inv
<1> SUFFICES ASSUME Init
             PROVE  Inv
  OBVIOUS
<1>1. TypeOK
  <2>1. HZ \in Nat /\ 1 \in Procs
    BY ClockAssumption
  <2>2. master \in Chips /\ slave \in Chips
    BY DEF Init, Programmed, Chips, Lines
  <2>3. rtc \in [periodic : BOOLEAN, irqf : BOOLEAN]
    BY DEF Init
  <2>4. /\ context \in [Procs -> Seq(Handlers)]
        /\ reading \in [Procs -> BOOLEAN]
    BY DEF Init
  <2> QED
    BY <2>1, <2>2, <2>3, <2>4 DEF Init, TypeOK
<1>2. BootInv
  <2>1. AtCall(1)
    BY BootOrderLength DEF Init, AtCall
  <2>2. phase = "boot" /\ ~rtc.periodic /\ ~rtc.irqf
    BY DEF Init
  <2> QED
    BY <2>1, <2>2 DEF BootInv, Booting
<1>3. MaskInv
  BY DEF Init, MaskInv, Masks, Lines, Cascade
<1>4. RaisedInv /\ ClockNotStuck
  BY DEF Init, RaisedInv, ClockNotStuck, Programmed
<1>5. ContextInv
  BY ClockAssumption DEF Init, ContextInv, Programmed
<1>6. CountInv
  BY DEF Init, CountInv, CountsExactly
<1> QED
  BY <1>1, <1>2, <1>3, <1>4, <1>5, <1>6 DEF Inv

-----------------------------------------------------------------------------
(* What the operations do to a controller, field by field.                 *)

LEMMA RaisedStep ==
  ASSUME NEW chip \in Chips, NEW line \in Lines
  PROVE  /\ Raised(chip, line) \in Chips
         /\ Raised(chip, line).irr = chip.irr \cup {line}
         /\ Raised(chip, line).imr = chip.imr
         /\ Raised(chip, line).isr = chip.isr
         /\ Raised(chip, line).base = chip.base
BY DEF Chips, Raised

LEMMA MaskedStep ==
  ASSUME NEW chip \in Chips, NEW mask \in SUBSET Lines
  PROVE  /\ Masked(chip, mask) \in Chips
         /\ Masked(chip, mask).imr = mask
         /\ Masked(chip, mask).irr = chip.irr
         /\ Masked(chip, mask).isr = chip.isr
         /\ Masked(chip, mask).base = chip.base
BY DEF Chips, Masked

LEMMA ServedStep ==
  ASSUME NEW chip \in Chips, NEW line \in Lines
  PROVE  /\ Served(chip, line) \in Chips
         /\ Served(chip, line).irr = chip.irr \ {line}
         /\ Served(chip, line).isr = chip.isr \cup {line}
         /\ Served(chip, line).imr = chip.imr
         /\ Served(chip, line).base = chip.base
BY DEF Chips, Served

LEMMA EndedStep ==
  ASSUME NEW chip \in Chips, NEW line \in Lines
  PROVE  /\ Ended(chip, line) \in Chips
         /\ Ended(chip, line).isr = chip.isr \ {line}
         /\ Ended(chip, line).irr = chip.irr
         /\ Ended(chip, line).imr = chip.imr
         /\ Ended(chip, line).base = chip.base
BY DEF Chips, Ended

\* Raising a line changes nothing but the line.
LEMMA RaiseKeeps ==
  ASSUME TypeOK, NEW irq \in {0, 1, 8}, RaiseIrq(irq)
  PROVE  /\ master' \in Chips /\ slave' \in Chips
         /\ master'.imr = master.imr /\ slave'.imr = slave.imr
         /\ master'.isr = master.isr /\ slave'.isr = slave.isr
         /\ master'.base = master.base /\ slave'.base = slave.base
         /\ RaisedInv => RaisedInv'
         /\ slave.irr \subseteq slave'.irr /\ (irq = 8 => 0 \in slave'.irr)
<1>1. master \in Chips /\ slave \in Chips /\ {0, 1} \subseteq Lines
  BY DEF TypeOK, Lines
<1>2. CASE irq < 8
  <2>1. irq \in {0, 1} /\ master' = Raised(master, irq) /\ slave' = slave
    BY <1>2 DEF RaiseIrq
  <2>2. irq \in Lines
    BY <1>1, <2>1
  <2>3. /\ master' \in Chips /\ master'.irr = master.irr \cup {irq}
        /\ master'.imr = master.imr /\ master'.isr = master.isr
        /\ master'.base = master.base
    BY <1>1, <2>1, <2>2, RaisedStep
  <2>4. RaisedInv => RaisedInv'
    BY <2>1, <2>3 DEF RaisedInv
  <2> QED
    BY <1>1, <1>2, <2>1, <2>3, <2>4
<1>3. CASE irq = 8
  <2>1. slave' = Raised(slave, 0) /\ master' = master
    BY <1>3 DEF RaiseIrq
  <2> QED
    BY <1>1, <2>1, RaisedStep DEF RaisedInv
<1> QED
  BY <1>2, <1>3

LEMMA DevicesKeep == Inv /\ (PitTick \/ KeyPress \/ RtcTick) => Inv'
<1> SUFFICES ASSUME Inv, PitTick \/ KeyPress \/ RtcTick
             PROVE  Inv'
  OBVIOUS
<1>1. PICK irq \in {0, 1, 8} :
         /\ RaiseIrq(irq)
         /\ \/ irq # 8 /\ rtc' = rtc
            \/ irq = 8 /\ rtc' = [rtc EXCEPT !.irqf = TRUE] /\ rtc.periodic
  BY DEF PitTick, KeyPress, RtcTick
<1>2. UNCHANGED << boot, phase, masks, procs, context, clocks >>
  BY DEF PitTick, KeyPress, RtcTick
<1>3. /\ master' \in Chips /\ slave' \in Chips
      /\ master'.imr = master.imr /\ slave'.imr = slave.imr
      /\ master'.isr = master.isr /\ slave'.isr = slave.isr
      /\ master'.base = master.base /\ slave'.base = slave.base
      /\ RaisedInv'
      /\ slave.irr \subseteq slave'.irr /\ (irq = 8 => 0 \in slave'.irr)
  BY <1>1, RaiseKeeps DEF Inv
<1>4. /\ rtc' \in [periodic : BOOLEAN, irqf : BOOLEAN]
      /\ rtc'.periodic = rtc.periodic
      /\ irq # 8 => rtc'.irqf = rtc.irqf
      /\ irq = 8 => rtc.periodic
  BY <1>1 DEF Inv, TypeOK
<1>5. TypeOK'
  BY <1>2, <1>3, <1>4 DEF Inv, TypeOK, masks, procs, clocks
<1>6. BootInv'
  BY <1>2, <1>3, <1>4 DEF Inv, BootInv, Booting, AtCall
<1>7. MaskInv' /\ ContextInv' /\ CountInv'
  BY <1>2, <1>3 DEF Inv, MaskInv, Masks, Applied, ContextInv, CountInv, CountsExactly, masks, procs, clocks
<1>8. ClockNotStuck'
  BY <1>2, <1>3, <1>4 DEF Inv, ClockNotStuck
<1> QED
  BY <1>3, <1>5, <1>6, <1>7, <1>8 DEF Inv

\* What the system calls and the clock's handler do to the counts.
LEMMA CallsKeep == Inv /\ (Calls \/ \E p \in Procs : ReadReturn(p)) => Inv'
<1> SUFFICES ASSUME Inv, Calls \/ \E p \in Procs : ReadReturn(p)
             PROVE  Inv'
  OBVIOUS
<1>1. UNCHANGED << boot, phase, pics, rtc, procs, context >>
  BY DEF Calls, rtc_open, rtc_write, rtc_close, rtc_read, ReadReturn
<1>a. HZ \in Nat /\ HZ >= 2
  <2>1. HZ \in Nat /\ HZ # 0 /\ HZ % 2 = 0
    BY ClockAssumption
  <2> QED
    BY <2>1
<1>2. /\ curr \in Procs /\ HZ \in Nat /\ HZ >= 2
      /\ frequency \in [Procs -> 0 .. HZ] /\ rtc_count \in [Procs -> 0 .. HZ]
      /\ reading \in [Procs -> BOOLEAN]
      /\ asked \in [Procs -> 0 .. HZ] /\ seen \in [Procs -> 0 .. HZ]
  BY <1>a DEF Inv, TypeOK
<1> DEFINE Clocks ==
             /\ frequency \in [Procs -> 0 .. HZ] /\ rtc_count \in [Procs -> 0 .. HZ]
             /\ reading \in [Procs -> BOOLEAN]
             /\ asked \in [Procs -> 0 .. HZ] /\ seen \in [Procs -> 0 .. HZ]
<1>3. Clocks' /\ CountInv'
  <2>1. ASSUME NEW f \in 0 .. HZ, frequency' = [frequency EXCEPT ![curr] = f],
               UNCHANGED << rtc_count, reading, asked, seen >>
        PROVE  Clocks' /\ CountInv'
    <3>1. Clocks'
      BY <1>2, <2>1
    <3>2. CountInv'
      BY <2>1 DEF Inv, CountInv, CountsExactly
    <3> QED
      BY <3>1, <3>2
  <2>2. CASE rtc_open \/ rtc_write \/ rtc_close
    <3>1. PICK f \in Nat : f =< HZ /\ frequency' = [frequency EXCEPT ![curr] = f]
      <4>1. CASE rtc_open
        <5>1. frequency' = [frequency EXCEPT ![curr] = 2]
          BY <4>1 DEF rtc_open
        <5>2. 2 \in Nat /\ 2 =< HZ
          BY <1>2
        <5> QED
          BY <5>1, <5>2
      <4>2. CASE rtc_write
        <5>1. Requests \subseteq Nat
          BY ClockAssumption
        <5> QED
          BY <4>2, <5>1 DEF rtc_write
      <4>3. CASE rtc_close
        <5>1. frequency' = [frequency EXCEPT ![curr] = 0]
          BY <4>3 DEF rtc_close
        <5>2. 0 \in Nat /\ 0 =< HZ
          BY <1>2
        <5> QED
          BY <5>1, <5>2
      <4> QED
        BY <2>2, <4>1, <4>2, <4>3
    <3>2. f \in 0 .. HZ
      BY <1>2, <3>1
    <3>3. UNCHANGED << rtc_count, reading, asked, seen >>
      BY <2>2 DEF rtc_open, rtc_write, rtc_close
    <3> HIDE DEF Clocks
    <3> QED
      BY <2>1, <3>1, <3>2, <3>3
  <2>5. CASE rtc_read
    <3> DEFINE f == frequency[curr]
               n == HZ \div f
    <3>1. f \in 1 .. HZ
      BY <1>2, <2>5 DEF rtc_read
    <3>2. n \in 0 .. HZ
      BY <1>2, <3>1
    <3>3. /\ reading' = [reading EXCEPT ![curr] = TRUE]
          /\ rtc_count' = [rtc_count EXCEPT ![curr] = n]
          /\ asked' = [asked EXCEPT ![curr] = n]
          /\ seen' = [seen EXCEPT ![curr] = 0]
          /\ UNCHANGED frequency
      BY <2>5 DEF rtc_read, Quotient
    <3> HIDE DEF n
    <3>4. Clocks'
      BY <1>2, <3>2, <3>3
    <3>5. ASSUME NEW p \in Procs
          PROVE  /\ reading'[p] => rtc_count'[p] = asked'[p] - seen'[p]
                 /\ seen'[p] =< asked'[p]
      <4>1. CASE p = curr
        BY <1>2, <3>2, <3>3, <4>1
      <4>2. CASE p # curr
        BY <1>2, <3>3, <4>2 DEF Inv, CountInv, CountsExactly
      <4> QED
        BY <4>1, <4>2
    <3> QED
      BY <3>4, <3>5 DEF CountInv, CountsExactly
  <2>6. ASSUME NEW q \in Procs, ReadReturn(q)
        PROVE  Clocks' /\ CountInv'
    <3>1. /\ reading' = [reading EXCEPT ![q] = FALSE]
          /\ asked' = [asked EXCEPT ![q] = 0]
          /\ seen' = [seen EXCEPT ![q] = 0]
          /\ UNCHANGED << rtc_count, frequency >>
      BY <2>6 DEF ReadReturn
    <3>2. ASSUME NEW p \in Procs
          PROVE  /\ reading'[p] => rtc_count'[p] = asked'[p] - seen'[p]
                 /\ seen'[p] =< asked'[p]
      <4>1. CASE p = q
        BY <1>2, <3>1, <4>1
      <4>2. CASE p # q
        BY <1>2, <3>1, <4>2 DEF Inv, CountInv, CountsExactly
      <4> QED
        BY <4>1, <4>2
    <3> QED
      BY <1>2, <3>1, <3>2 DEF CountInv, CountsExactly
  <2> QED
    BY <2>2, <2>5, <2>6 DEF Calls
<1>4. TypeOK'
  BY <1>1, <1>3 DEF Inv, TypeOK, pics, masks, procs
<1>5. BootInv' /\ MaskInv' /\ RaisedInv'
  BY <1>1 DEF Inv, BootInv, Booting, AtCall, MaskInv, Masks, Applied, RaisedInv, pics, masks
<1>6. ContextInv' /\ ClockNotStuck'
  BY <1>1 DEF Inv, ContextInv, ClockNotStuck, pics, masks, procs
<1> QED
  BY <1>3, <1>4, <1>5, <1>6 DEF Inv

-----------------------------------------------------------------------------
(* The masks and entry().                                                  *)

\* Of a controller only the masks change.
SameChips ==
  /\ master' \in Chips /\ slave' \in Chips
  /\ master'.irr = master.irr /\ slave'.irr = slave.irr
  /\ master'.isr = master.isr /\ slave'.isr = slave.isr
  /\ master'.base = master.base /\ slave'.base = slave.base

LEMMA EnableKeeps ==
  ASSUME TypeOK, Masks, NEW irq \in Nat, enable_irq(irq)
  PROVE  /\ SameChips
         /\ master_interrupt_mask' \subseteq Lines /\ slave_interrupt_mask' \subseteq Lines
         /\ Masks'
         /\ Applied \/ irq \in 8 .. 15 => Applied'
<1>1. /\ master \in Chips /\ slave \in Chips
      /\ master_interrupt_mask \subseteq Lines /\ slave_interrupt_mask \subseteq Lines
  BY DEF TypeOK
<1>b. wanted' = wanted \cup AskedFor(irq)
  BY DEF enable_irq
<1>2. CASE irq < 8
  <2>1. /\ wanted' = wanted \cup {irq} /\ irq \in Lines
        /\ master_interrupt_mask' = master_interrupt_mask \ {irq}
        /\ master' = Masked(master, master_interrupt_mask')
        /\ UNCHANGED << slave, slave_interrupt_mask >>
    BY <1>b, <1>2 DEF enable_irq, AskedFor, Lines
  <2>2. Masks'
    BY <1>2, <2>1 DEF Masks, Lines, Cascade
  <2>3. master_interrupt_mask' \in SUBSET Lines
    BY <1>1, <2>1
  <2>4. SameChips /\ master'.imr = master_interrupt_mask'
    BY <1>1, <2>1, <2>3, MaskedStep DEF SameChips
  <2> QED
    BY <1>1, <1>2, <2>1, <2>2, <2>3, <2>4 DEF Applied
<1>3. CASE irq > 15
  <2>1. /\ wanted' = wanted
        /\ UNCHANGED << slave, slave_interrupt_mask, master_interrupt_mask, master >>
    BY <1>b, <1>3 DEF enable_irq, AskedFor
  <2> QED
    BY <1>1, <1>3, <2>1 DEF Masks, Applied, SameChips
<1>4. CASE irq \in 8 .. 15
  <2>1. /\ wanted' = wanted \cup {irq, Cascade} /\ irq - 8 \in Lines
        /\ slave_interrupt_mask' = slave_interrupt_mask \ {irq - 8}
        /\ slave' = Masked(slave, slave_interrupt_mask')
        /\ master_interrupt_mask' = master_interrupt_mask \ {Cascade}
        /\ master' = Masked(master, master_interrupt_mask')
    BY <1>b, <1>4 DEF enable_irq, AskedFor, Lines, Cascaded
  <2>2. Masks'
    BY <1>4, <2>1 DEF Masks, Lines, Cascade
  <2>3. master_interrupt_mask' \in SUBSET Lines /\ slave_interrupt_mask' \in SUBSET Lines
    BY <1>1, <2>1
  <2>4. SameChips /\ Applied'
    BY <1>1, <2>1, <2>3, MaskedStep DEF SameChips, Applied
  <2> QED
    BY <2>2, <2>3, <2>4
<1> QED
  BY <1>2, <1>3, <1>4

LEMMA DisableKeeps ==
  ASSUME TypeOK, Masks, NEW irq \in Nat, disable_irq(irq)
  PROVE  /\ SameChips
         /\ master_interrupt_mask' \subseteq Lines /\ slave_interrupt_mask' \subseteq Lines
         /\ Masks'
         /\ Applied => Applied'
<1>1. /\ master \in Chips /\ slave \in Chips
      /\ master_interrupt_mask \subseteq Lines /\ slave_interrupt_mask \subseteq Lines
  BY DEF TypeOK
<1>2. CASE irq < 8
  <2>1. /\ wanted' = wanted \ {irq} /\ irq \in Lines
        /\ master_interrupt_mask' = master_interrupt_mask \cup {irq}
        /\ master' = Masked(master, master_interrupt_mask')
        /\ UNCHANGED << slave, slave_interrupt_mask >>
    BY <1>2 DEF disable_irq, Lines
  <2>2. Masks'
    BY <1>2, <2>1 DEF Masks, Lines, Cascade
  <2>3. master_interrupt_mask' \in SUBSET Lines
    BY <1>1, <2>1
  <2>4. SameChips /\ master'.imr = master_interrupt_mask'
    BY <1>1, <2>1, <2>3, MaskedStep DEF SameChips
  <2> QED
    BY <1>1, <1>2, <2>1, <2>2, <2>3, <2>4 DEF Applied
<1>3. CASE irq > 15
  <2>1. /\ wanted' = wanted \ {irq}
        /\ UNCHANGED << slave, slave_interrupt_mask, master_interrupt_mask, master >>
    BY <1>3 DEF disable_irq
  <2>2. wanted' = wanted
    BY <1>3, <2>1 DEF Masks
  <2> QED
    BY <1>1, <1>3, <2>1, <2>2 DEF Masks, Applied, SameChips
<1>4. CASE irq \in 8 .. 15
  <2>1. /\ wanted' = wanted \ {irq} /\ irq - 8 \in Lines
        /\ slave_interrupt_mask' = slave_interrupt_mask \cup {irq - 8}
        /\ slave' = Masked(slave, slave_interrupt_mask')
        /\ master_interrupt_mask' = IF slave_interrupt_mask' = Lines
                                    THEN master_interrupt_mask \cup {Cascade}
                                    ELSE master_interrupt_mask
        /\ master' = Masked(master, master_interrupt_mask')
    BY <1>4 DEF disable_irq, Lines, Uncascaded
  <2>2. Cascade \in Lines
    BY DEF Cascade, Lines
  <2>3. slave_interrupt_mask' # Lines =>
          (Cascade \in master_interrupt_mask' <=> Cascade \notin wanted')
    <3>1. slave_interrupt_mask' # Lines => slave_interrupt_mask # Lines
      BY <2>1
    <3>2. Cascade \in wanted' <=> Cascade \in wanted
      BY <1>4, <2>1 DEF Cascade
    <3> QED
      BY <2>1, <3>1, <3>2 DEF Masks
  <2>4. \A i \in Lines : i \in slave_interrupt_mask' <=> i + 8 \notin wanted'
    BY <1>4, <2>1 DEF Masks, Lines
  <2>5. \A i \in Lines \ {Cascade} : i \in master_interrupt_mask' <=> i \notin wanted'
    BY <1>4, <2>1 DEF Masks, Lines
  <2>6. Masks'
    BY <2>1, <2>3, <2>4, <2>5 DEF Masks
  <2>7. master_interrupt_mask' \in SUBSET Lines /\ slave_interrupt_mask' \in SUBSET Lines
    BY <1>1, <2>1, <2>2
  <2>8. SameChips /\ Applied'
    BY <1>1, <2>1, <2>7, MaskedStep DEF SameChips, Applied
  <2> QED
    BY <2>6, <2>7, <2>8
<1> QED
  BY <1>2, <1>3, <1>4

\* What is left of entry() after its call k.
LEMMA Rests ==
  ASSUME NEW k \in 1 .. 5, AtCall(k), boot' = Tail(boot)
  PROVE  /\ boot # << >>
         /\ Head(boot) = BootOrder[k]
         /\ k # 5 => AtCall(k + 1)'
         /\ boot' = << >> <=> k = 5
<1>1. /\ boot \in Seq(Call) /\ Len(boot) = 6 - k
      /\ \A i \in 1 .. 6 - k : boot[i] = BootOrder[k - 1 + i]
  BY DEF AtCall, BootCalls
<1>2. boot # << >> /\ Head(boot) = boot[1] /\ boot[1] = BootOrder[k]
  <2>1. 1 \in 1 .. 6 - k /\ k - 1 + 1 = k /\ 6 - k # 0
    OBVIOUS
  <2> QED
    BY <1>1, <2>1
<1>3. /\ boot' \in Seq(Call) /\ Len(boot') = 5 - k
      /\ \A i \in 1 .. 5 - k : boot'[i] = boot[i + 1]
  BY <1>1, <1>2
<1>4. ASSUME k # 5
      PROVE  AtCall(k + 1)'
  <2>1. 6 - (k + 1) = 5 - k /\ (k + 1) - 1 = k
    OBVIOUS
  <2>2. ASSUME NEW i \in 1 .. 5 - k
        PROVE  boot'[i] = BootOrder[k + i]
    <3>1. i + 1 \in 1 .. 6 - k /\ k - 1 + (i + 1) = k + i
      OBVIOUS
    <3> QED
      BY <1>1, <1>3, <3>1
  <2> QED
    BY <1>3, <2>1, <2>2 DEF AtCall, BootCalls
<1>5. boot' = << >> <=> k = 5
  <2>1. 5 - k = 0 <=> k = 5
    OBVIOUS
  <2>2. Len(boot') = 0 <=> k = 5
    BY <1>3, <2>1
  <2>3. Len(boot') = 0 <=> boot' = << >>
    <3>1. \A s \in Seq(Call) : Len(s) = 0 <=> s = << >>
      OBVIOUS
    <3> QED
      BY <1>3, <3>1
  <2> QED
    BY <2>2, <2>3
<1> QED
  BY <1>2, <1>4, <1>5

LEMMA BootKeeps == Inv /\ BootCall => Inv'
<1> SUFFICES ASSUME Inv, BootCall
             PROVE  Inv'
  OBVIOUS
<1>a. boot # << >> /\ boot' = Tail(boot)
  BY DEF BootCall
<1>2. phase = "boot"
  BY <1>a DEF Inv, BootInv
<1>b. PICK k \in 1 .. 5 : Booting(k)
  BY <1>2 DEF Inv, BootInv
<1>1. /\ AtCall(k)
      /\ k > 1 => master.base = 32 /\ slave.base = 40
      /\ k =< 2 => ~rtc.periodic
  BY <1>b DEF Booting
<1>3. /\ k = 5 => boot' = << >>
      /\ k # 5 => AtCall(k + 1)'
      /\ phase' = IF k = 5 THEN "calls" ELSE "boot"
      /\ Head(boot) = BootOrder[k]
      /\ UNCHANGED << procs, context, clocks >>
  BY <1>a, <1>1, <1>2, Rests DEF BootCall
<1>4. /\ master \in Chips /\ slave \in Chips
      /\ master_interrupt_mask \subseteq Lines /\ slave_interrupt_mask \subseteq Lines
      /\ rtc \in [periodic : BOOLEAN, irqf : BOOLEAN]
      /\ master.isr = {} /\ slave.isr = {} /\ RaisedInv /\ Masks
  BY <1>2 DEF Inv, TypeOK, ContextInv, MaskInv
<1>5. /\ master' \in Chips /\ slave' \in Chips
      /\ master_interrupt_mask' \subseteq Lines /\ slave_interrupt_mask' \subseteq Lines
      /\ rtc' \in [periodic : BOOLEAN, irqf : BOOLEAN]
      /\ master'.isr = {} /\ slave'.isr = {} /\ RaisedInv' /\ Masks'
      /\ k = 5 => Applied'
      /\ master'.base = 32 /\ slave'.base = 40
      /\ k =< 1 => ~rtc'.periodic
      /\ ~rtc'.periodic => ~rtc'.irqf
      /\ rtc'.irqf => 0 \in slave'.irr
  <2>1. CASE k = 1
    <3>1. i8259_init /\ UNCHANGED rtc
      BY <1>3, <2>1 DEF BootCall, BootOrder
    <3>2. ~rtc.periodic /\ ~rtc.irqf
      BY <1>1, <2>1 DEF Inv, BootInv
    <3>3. /\ master' \in Chips /\ slave' \in Chips
          /\ master'.isr = {} /\ slave'.isr = {}
          /\ master'.irr = {} /\ slave'.irr = {}
          /\ master'.base = 32 /\ slave'.base = 40
          /\ UNCHANGED masks
      BY <3>1 DEF i8259_init, Programmed, Chips, Lines
    <3> QED
      BY <1>4, <2>1, <3>1, <3>2, <3>3 DEF masks, Masks, RaisedInv
  <2>2. CASE k = 2
    <3>1. rtc_init
      BY <1>3, <2>2 DEF BootCall, BootOrder
    <3>2. PICK passed \in BOOLEAN :
            /\ rtc' = [periodic |-> TRUE, irqf |-> passed]
            /\ IF passed THEN RaiseIrq(8) ELSE UNCHANGED << master, slave >>
      BY <3>1 DEF rtc_init
    <3>3. master.base = 32 /\ slave.base = 40 /\ UNCHANGED masks
      BY <1>1, <2>2, <3>1 DEF rtc_init
    <3>4. Masks'
      BY <1>4, <3>3 DEF masks, Masks
    <3>5. CASE passed = TRUE
      <4>1. RaiseIrq(8)
        BY <3>2, <3>5
      <4> QED
        BY <1>4, <2>2, <3>2, <3>3, <3>4, <3>5, <4>1, RaiseKeeps DEF Inv, masks
    <3>6. CASE passed = FALSE
      <4>1. UNCHANGED << master, slave >>
        BY <3>2, <3>6
      <4> QED
        BY <1>4, <2>2, <3>2, <3>3, <3>4, <3>6, <4>1 DEF masks, RaisedInv
    <3> QED
      BY <3>5, <3>6
  <2>3. CASE k \in 3 .. 5
    <3>1. PICK irq \in Nat \ {Cascade} :
            enable_irq(irq) /\ (k = 5 => irq \in 8 .. 15)
      <4>1. BootOrder[k][1] = "enable_irq" /\ BootOrder[k][2] \in {0, 1, 8}
            /\ (k = 5 => BootOrder[k][2] = 8)
        BY <2>3 DEF BootOrder
      <4>2. enable_irq(BootOrder[k][2])
        BY <1>3, <4>1 DEF BootCall
      <4> QED
        BY <4>1, <4>2 DEF Cascade
    <3>2. UNCHANGED rtc
      <4>1. BootOrder[k][1] = "enable_irq"
        BY <2>3 DEF BootOrder
      <4> QED
        BY <1>3, <4>1 DEF BootCall
    <3>3. /\ SameChips /\ Masks' /\ (k = 5 => Applied')
          /\ master_interrupt_mask' \subseteq Lines /\ slave_interrupt_mask' \subseteq Lines
      BY <1>4, <3>1, EnableKeeps DEF Inv
    <3>4. master.base = 32 /\ slave.base = 40
      BY <1>1, <2>3
    <3>5. (~rtc.periodic => ~rtc.irqf) /\ (rtc.irqf => 0 \in slave.irr)
      BY <1>2 DEF Inv, BootInv, ClockNotStuck
    <3> QED
      BY <1>4, <2>3, <3>2, <3>3, <3>4, <3>5 DEF SameChips, RaisedInv
  <2> QED
    BY <1>1, <2>1, <2>2, <2>3
<1>6. TypeOK'
  BY <1>3, <1>5 DEF Inv, TypeOK, procs, clocks
<1>7. BootInv'
  <2>1. CASE k = 5
    BY <1>3, <1>5, <2>1 DEF BootInv
  <2>2. CASE k # 5
    <3>1. k + 1 \in 1 .. 5 /\ (k + 1 =< 2 => k =< 1)
      BY <2>2
    <3> QED
      BY <1>3, <1>5, <2>2, <3>1 DEF BootInv, Booting
  <2> QED
    BY <2>1, <2>2
<1>8. MaskInv'
  BY <1>3, <1>5 DEF MaskInv
<1>9. ContextInv'
  BY <1>2, <1>3, <1>5 DEF Inv, ContextInv, procs
<1>10. ClockNotStuck' /\ CountInv'
  BY <1>3, <1>5 DEF Inv, ClockNotStuck, CountInv, CountsExactly, clocks
<1> QED
  BY <1>5, <1>6, <1>7, <1>8, <1>9, <1>10 DEF Inv

LEMMA TestsKeep == Inv /\ (IrqCalls \/ Launch) => Inv'
<1> SUFFICES ASSUME Inv, IrqCalls \/ Launch
             PROVE  Inv'
  OBVIOUS
<1>1. /\ phase = "calls" /\ phase' \in {"calls", "run"}
      /\ UNCHANGED << boot, rtc, procs, context, clocks >>
  BY DEF IrqCalls, Launch
<1>2. Masks /\ Applied
  BY <1>1 DEF Inv, MaskInv
<1>3. /\ SameChips /\ Masks' /\ Applied'
      /\ master_interrupt_mask' \subseteq Lines /\ slave_interrupt_mask' \subseteq Lines
  <2>1. CASE Launch
    <3>1. UNCHANGED << master, slave, master_interrupt_mask, slave_interrupt_mask, wanted >>
      BY <2>1 DEF Launch, pics, masks
    <3>2. SameChips
      BY <3>1 DEF SameChips, Inv, TypeOK
    <3>3. Masks' /\ Applied'
      BY <1>2, <3>1 DEF Masks, Applied
    <3>4. master_interrupt_mask \subseteq Lines /\ slave_interrupt_mask \subseteq Lines
      BY DEF Inv, TypeOK
    <3> QED
      BY <3>1, <3>2, <3>3, <3>4
  <2>2. CASE IrqCalls
    <3>1. PICK irq \in Numbers : enable_irq(irq) \/ disable_irq(irq)
      BY <2>2 DEF IrqCalls
    <3>2. irq \in Nat
      BY <3>1, ClockAssumption
    <3> QED
      BY <1>2, <3>1, <3>2, EnableKeeps, DisableKeeps DEF Inv
  <2> QED
    BY <2>1, <2>2
<1>4. TypeOK'
  BY <1>1, <1>3 DEF Inv, TypeOK, SameChips, procs, clocks
<1>5. BootInv'
  BY <1>1, <1>3 DEF Inv, BootInv, SameChips
<1>6. MaskInv' /\ RaisedInv'
  BY <1>1, <1>3 DEF Inv, MaskInv, RaisedInv, SameChips
<1>7. ContextInv'
  BY <1>1, <1>3 DEF Inv, ContextInv, SameChips, procs
<1>8. ClockNotStuck' /\ CountInv'
  BY <1>1, <1>3 DEF Inv, ClockNotStuck, CountInv, CountsExactly, SameChips, clocks
<1> QED
  BY <1>4, <1>5, <1>6, <1>7, <1>8 DEF Inv

-----------------------------------------------------------------------------
(* The handlers.                                                           *)

\* Lines are served and ended, and none is raised or masked.
ChipsKept ==
  /\ master' \in Chips /\ slave' \in Chips
  /\ master'.imr = master.imr /\ slave'.imr = slave.imr
  /\ master'.base = master.base /\ slave'.base = slave.base
  /\ master'.irr \subseteq master.irr /\ slave'.irr \subseteq slave.irr

LEMMA Frame ==
  ASSUME Inv, phase = "run", UNCHANGED << boot, phase, masks >>, ChipsKept,
         rtc' = rtc \/ rtc' = [rtc EXCEPT !.irqf = FALSE],
         curr' \in ready', ready' \subseteq Procs, is_user_mode' \subseteq Procs,
         context' \in [Procs -> Seq(Handlers)]
  PROVE  /\ UNCHANGED clocks => TypeOK' /\ CountInv'
         /\ BootInv' /\ MaskInv' /\ RaisedInv'
<1>1. rtc \in [periodic : BOOLEAN, irqf : BOOLEAN] /\ (~rtc.periodic => ~rtc.irqf)
  BY DEF Inv, TypeOK, BootInv
<1>2. /\ rtc' \in [periodic : BOOLEAN, irqf : BOOLEAN]
      /\ ~rtc'.periodic => ~rtc'.irqf
  BY <1>1
<1>3. UNCHANGED << master_interrupt_mask, slave_interrupt_mask, wanted >>
  BY DEF masks
<1>4. UNCHANGED clocks => TypeOK' /\ CountInv'
  BY <1>2, <1>3 DEF Inv, TypeOK, ChipsKept, clocks, CountInv, CountsExactly
<1>5. BootInv'
  BY <1>2 DEF Inv, BootInv, ChipsKept
<1>6. MaskInv'
  BY <1>3 DEF Inv, MaskInv, Masks, Applied, ChipsKept
<1>7. RaisedInv'
  BY DEF Inv, RaisedInv, ChipsKept
<1> QED
  BY <1>4, <1>5, <1>6, <1>7

\* The handler under way is the only one on the running process's stack.
LEMMA Underway ==
  ASSUME Inv, NEW h, Handling(h)
  PROVE  /\ phase = "run" /\ curr \in Procs /\ context[curr] = <<h>>
         /\ h \in {"timer", "tail"} => master.isr = {0} /\ slave.isr = {}
         /\ h = "key" => master.isr = {1} /\ slave.isr = {}
         /\ h \in {"rtc_int", "rtc_eoi"} => master.isr = {Cascade} /\ slave.isr = {0}
<1>1. phase = "run" /\ context[curr] # << >> /\ Head(context[curr]) = h
  BY DEF Handling
<1>2. curr \in Procs
  BY DEF Inv, TypeOK
<1>3. ContextInv
  BY DEF Inv
<1> QED
  BY <1>1, <1>2, <1>3 DEF ContextInv

LEMMA PoppedTo ==
  ASSUME Inv, NEW h, Handling(h), NEW left \in Seq(Handlers), Len(left) =< 1
  PROVE  /\ Popped(left) \in [Procs -> Seq(Handlers)]
         /\ Popped(left)[curr] = left
         /\ \A p \in Procs \ {curr} : Popped(left)[p] = context[p]
<1>1. curr \in Procs /\ context[curr] = <<h>> /\ context \in [Procs -> Seq(Handlers)]
  BY Underway DEF Inv, TypeOK
<1>2. left \o Tail(<<h>>) = left
  OBVIOUS
<1> QED
  BY <1>1, <1>2 DEF Popped

LEMMA InterruptKeeps == Inv /\ Interrupt => Inv'
<1> SUFFICES ASSUME Inv, Interrupt
             PROVE  Inv'
  OBVIOUS
<1> DEFINE line == Min(MasterLines)
           below == Min(SlaveLines)
           vector == IF line = Cascade THEN slave.base + below ELSE master.base + line
<1>1. /\ master \in Chips /\ slave \in Chips /\ RaisedInv /\ curr \in Procs
      /\ context \in [Procs -> Seq(Handlers)]
  BY DEF Inv, TypeOK
<1>2. /\ phase = "run" /\ UNCHANGED << boot, phase, masks, rtc, procs, clocks >>
      /\ MasterLines # {}
      /\ master' = Served(master, line)
      /\ slave' = IF line = Cascade THEN Served(slave, below) ELSE slave
      /\ context' = [context EXCEPT ![curr] = << Idt(vector) >> \o context[curr]]
  BY <1>1 DEF Interrupt, Running, Handling
<1>3. SlaveLines \subseteq {0} /\ MasterLines \subseteq {0, 1, 2}
  BY <1>1 DEF SlaveLines, MasterLines, Requesting, RaisedInv, Cascade
<1>4. line \in MasterLines
  BY <1>2, <1>3, LeastIn
<1>5. 2 \in MasterLines => SlaveLines # {}
  BY <1>1 DEF MasterLines, Requesting, RaisedInv
<1>6. SlaveLines # {} => below = 0
  <2>1. SlaveLines \in SUBSET Nat
    BY <1>3
  <2>2. SlaveLines # {} => below \in SlaveLines
    BY <2>1, LeastIn
  <2> QED
    BY <1>3, <2>2
<1>7. context[curr] = << >> /\ master.isr = {} /\ slave.isr = {}
  <2>1. CASE Running
    BY <2>1 DEF Running, Inv, ContextInv
  <2>2. CASE Handling("tail")
    <3>1. master.isr = {0}
      BY <2>2, Underway
    <3>2. \A l \in MasterLines : l < 0
      <4>1. ASSUME NEW l \in MasterLines, NEW s \in master.isr
            PROVE  l < s
        <5> DEFINE raised == master.irr \cup {n \in {Cascade} : SlaveLines # {}}
        <5>1. l \in Requesting(master, raised)
          BY DEF MasterLines
        <5> HIDE DEF raised
        <5> QED
          BY <5>1, Zenon DEF Requesting
      <4> QED
        BY <3>1, <4>1
    <3>3. PICK l \in MasterLines : TRUE
      BY <1>2
    <3>4. l \in {0, 1, 2} /\ l < 0
      BY <1>3, <3>2
    <3> QED
      BY <3>4
  <2> QED
    BY <2>1, <2>2 DEF Interrupt
<1>8. master.base = 32 /\ slave.base = 40
  BY <1>2 DEF Inv, BootInv
<1>9. /\ line \in {0, 1, 2} /\ (line = 2 => below = 0)
      /\ Idt(vector) = IF line = 0 THEN "timer" ELSE IF line = 1 THEN "key" ELSE "rtc_int"
  <2>1. line \in {0, 1, 2} /\ (line = 2 => below = 0)
    BY <1>3, <1>4, <1>5, <1>6
  <2>2. vector = IF line = 2 THEN 40 ELSE 32 + line
    BY <1>8, <2>1 DEF Cascade
  <2> QED
    BY <2>1, <2>2 DEF Idt
<1> DEFINE h == Idt(vector)
<1> HIDE DEF line, below, vector, h
<1>10. /\ context' \in [Procs -> Seq(Handlers)]
       /\ context'[curr] = <<h>>
       /\ \A p \in Procs \ {curr} : context'[p] = context[p]
  <2>1. <<h>> \o << >> = <<h>> /\ <<h>> \in Seq(Handlers)
    BY <1>9 DEF h, Handlers
  <2> QED
    BY <1>1, <1>2, <1>7, <2>1 DEF h
<1>11. /\ ChipsKept
       /\ master'.isr = {line}
       /\ slave'.isr = IF line = 2 THEN {0} ELSE {}
       /\ line # 2 => slave' = slave
  <2>1. line \in Lines /\ 0 \in Lines
    BY <1>9 DEF Lines
  <2>2. /\ Served(master, line) \in Chips
        /\ Served(master, line).irr = master.irr \ {line}
        /\ Served(master, line).isr = master.isr \cup {line}
        /\ Served(master, line).imr = master.imr
        /\ Served(master, line).base = master.base
    BY <1>1, <2>1, ServedStep
  <2>3. /\ Served(slave, 0) \in Chips
        /\ Served(slave, 0).irr = slave.irr \ {0}
        /\ Served(slave, 0).isr = slave.isr \cup {0}
        /\ Served(slave, 0).imr = slave.imr
        /\ Served(slave, 0).base = slave.base
    BY <1>1, <2>1, ServedStep
  <2>4. CASE line = 2
    BY <1>2, <1>7, <1>9, <2>2, <2>3, <2>4 DEF ChipsKept, Cascade
  <2>5. CASE line # 2
    BY <1>1, <1>2, <1>7, <2>2, <2>5 DEF ChipsKept, Cascade
  <2> QED
    BY <2>4, <2>5
<1>12. UNCHANGED << curr, ready, is_user_mode, rtc >>
  BY <1>2 DEF procs
<1>13. /\ TypeOK' /\ CountInv' /\ BootInv' /\ MaskInv' /\ RaisedInv'
  <2>1. curr' \in ready' /\ ready' \subseteq Procs /\ is_user_mode' \subseteq Procs
    BY <1>12 DEF Inv, TypeOK
  <2> QED
    BY <1>2, <1>10, <1>11, <1>12, <2>1, Frame
<1>14. ContextInv'
  <2>1. /\ curr' \notin is_user_mode'
        /\ \A p \in Procs \ {curr'} :
             context'[p] = IF p \in is_user_mode' THEN << >> ELSE <<"tail">>
    BY <1>10, <1>12 DEF Inv, ContextInv
  <2>2. phase' = "run" /\ curr' = curr /\ context'[curr] = <<h>>
    BY <1>2, <1>10, <1>12
  <2>3. CASE line = 0
    <3>1. context'[curr] = <<"timer">> /\ master'.isr = {0} /\ slave'.isr = {}
      BY <1>9, <1>11, <2>2, <2>3 DEF h
    <3> QED
      BY <2>1, <2>2, <3>1 DEF ContextInv
  <2>4. CASE line = 1
    <3>1. context'[curr] = <<"key">> /\ master'.isr = {1} /\ slave'.isr = {}
      BY <1>9, <1>11, <2>2, <2>4 DEF h
    <3> QED
      BY <2>1, <2>2, <3>1 DEF ContextInv
  <2>5. CASE line = 2
    <3>1. context'[curr] = <<"rtc_int">> /\ master'.isr = {Cascade} /\ slave'.isr = {0}
      BY <1>9, <1>11, <2>2, <2>5 DEF h, Cascade
    <3> QED
      BY <2>1, <2>2, <3>1 DEF ContextInv
  <2> QED
    BY <1>9, <2>3, <2>4, <2>5
<1>15. ClockNotStuck'
  <2>1. CASE line = 2
    <3>1. <<"rtc_int">> = context'[curr]
      BY <1>9, <1>10, <2>1 DEF h
    <3> QED
      BY <1>1, <1>2, <3>1 DEF ClockNotStuck
  <2>2. CASE line # 2
    <3>1. ASSUME NEW p \in Procs, <<"rtc_int">> = context[p]
          PROVE  <<"rtc_int">> = context'[p]
      <4>1. p # curr
        BY <1>7, <3>1
      <4> QED
        BY <1>10, <3>1, <4>1
    <3> QED
      BY <1>2, <1>11, <2>2, <3>1 DEF Inv, ClockNotStuck
  <2> QED
    BY <2>1, <2>2
<1> QED
  BY <1>13, <1>14, <1>15 DEF Inv

LEMMA RtcIntKeeps == Inv /\ RtcInt => Inv'
<1> SUFFICES ASSUME Inv, RtcInt
             PROVE  Inv'
  OBVIOUS
<1>1. /\ Handling("rtc_int")
      /\ rtc' = [rtc EXCEPT !.irqf = FALSE]
      /\ context' = Popped(<<"rtc_eoi">>)
      /\ UNCHANGED << boot, phase, pics, procs, frequency, reading, asked >>
      /\ rtc_count' = CountedDown
      /\ seen' = [p \in Procs |-> IF reading[p] /\ seen[p] < asked[p]
                                  THEN seen[p] + 1 ELSE seen[p]]
  BY DEF RtcInt
<1>2. /\ phase = "run" /\ master.isr = {Cascade} /\ slave.isr = {0}
  BY <1>1, Underway
<1>3. /\ context' \in [Procs -> Seq(Handlers)]
      /\ context'[curr] = <<"rtc_eoi">>
      /\ \A p \in Procs \ {curr} : context'[p] = context[p]
  <2>1. <<"rtc_eoi">> \in Seq(Handlers) /\ Len(<<"rtc_eoi">>) =< 1
    BY DEF Handlers
  <2> QED
    BY <1>1, <2>1, PoppedTo
<1>4. UNCHANGED << master, slave, masks, curr, ready, is_user_mode >>
  BY <1>1 DEF pics, procs
<1>5. ChipsKept
  BY <1>4 DEF ChipsKept, Inv, TypeOK
<1>6. curr' \in ready' /\ ready' \subseteq Procs /\ is_user_mode' \subseteq Procs
  BY <1>4 DEF Inv, TypeOK
<1>7. BootInv' /\ MaskInv' /\ RaisedInv'
  BY <1>1, <1>2, <1>3, <1>4, <1>5, <1>6, Frame
<1>8. /\ HZ \in Nat
      /\ rtc_count \in [Procs -> 0 .. HZ] /\ asked \in [Procs -> 0 .. HZ]
      /\ seen \in [Procs -> 0 .. HZ]
      /\ \A p \in Procs : /\ reading[p] => rtc_count[p] = asked[p] - seen[p]
                          /\ seen[p] =< asked[p]
  BY ClockAssumption DEF Inv, TypeOK, CountInv, CountsExactly
<1>9. ASSUME NEW p \in Procs
      PROVE  /\ rtc_count'[p] \in 0 .. HZ /\ seen'[p] \in 0 .. HZ
             /\ reading'[p] => rtc_count'[p] = asked'[p] - seen'[p]
             /\ seen'[p] =< asked'[p]
  <2>1. /\ rtc_count[p] \in 0 .. HZ /\ asked[p] \in 0 .. HZ /\ seen[p] \in 0 .. HZ
        /\ asked' = asked /\ reading' = reading
    BY <1>1, <1>8
  <2>2. rtc_count'[p] = IF rtc_count[p] # 0 THEN rtc_count[p] - 1 ELSE 0
    BY <1>1 DEF CountedDown
  <2>3. CASE reading[p] /\ seen[p] < asked[p]
    <3>1. seen'[p] = seen[p] + 1 /\ rtc_count[p] = asked[p] - seen[p]
      BY <1>1, <1>8, <2>3
    <3> QED
      BY <1>8, <2>1, <2>2, <2>3, <3>1
  <2>4. CASE ~(reading[p] /\ seen[p] < asked[p])
    <3>1. seen'[p] = seen[p]
      BY <1>1, <2>4
    <3>2. reading[p] => seen[p] = asked[p] /\ rtc_count[p] = 0
      BY <1>8, <2>1, <2>4
    <3> QED
      BY <1>8, <2>1, <2>2, <3>1, <3>2
  <2> QED
    BY <2>3, <2>4
<1>10. rtc_count' \in [Procs -> 0 .. HZ] /\ seen' \in [Procs -> 0 .. HZ]
  <2>1. rtc_count' = [p \in Procs |-> rtc_count'[p]] /\ seen' = [p \in Procs |-> seen'[p]]
    BY <1>1 DEF CountedDown
  <2> QED
    BY <1>9, <2>1
<1>11. CountInv'
  BY <1>9 DEF CountInv, CountsExactly
<1>12. TypeOK'
  <2>1. rtc' \in [periodic : BOOLEAN, irqf : BOOLEAN]
    BY <1>1 DEF Inv, TypeOK
  <2> QED
    BY <1>1, <1>3, <1>4, <1>10, <2>1 DEF Inv, TypeOK, masks
<1>13. ContextInv'
  BY <1>1, <1>2, <1>3, <1>4 DEF Inv, ContextInv
<1>14. ClockNotStuck'
  <2>1. rtc \in [periodic : BOOLEAN, irqf : BOOLEAN]
    BY DEF Inv, TypeOK
  <2>2. rtc'.irqf = FALSE
    BY <1>1, <2>1
  <2> QED
    BY <2>2 DEF ClockNotStuck
<1> QED
  BY <1>7, <1>11, <1>12, <1>13, <1>14 DEF Inv

\* What send_eoi leaves of the lines in service.
LEMMA Acknowledged ==
  ASSUME Inv, NEW irq \in {0, 1, 8}, send_eoi(irq)
  PROVE  /\ ChipsKept /\ UNCHANGED masks
         /\ master'.isr = master.isr \ {IF irq = 8 THEN Cascade ELSE irq}
         /\ slave'.isr = IF irq = 8 THEN slave.isr \ {0} ELSE slave.isr
         /\ slave'.irr = slave.irr
<1> DEFINE line == IF irq = 8 THEN Cascade ELSE irq
<1>1. line \in Lines /\ 0 \in Lines
  BY DEF Lines, Cascade
<1>2. /\ master' = Ended(master, line)
      /\ slave' = IF irq = 8 THEN Ended(slave, 0) ELSE slave
      /\ UNCHANGED masks
  BY DEF send_eoi, MasterLine
<1>3. master \in Chips /\ slave \in Chips
  BY DEF Inv, TypeOK
<1>4. /\ master' \in Chips /\ master'.isr = master.isr \ {line}
      /\ master'.irr = master.irr /\ master'.imr = master.imr
      /\ master'.base = master.base
  BY <1>1, <1>2, <1>3, EndedStep
<1>5. /\ slave' \in Chips
      /\ slave'.isr = IF irq = 8 THEN slave.isr \ {0} ELSE slave.isr
      /\ slave'.irr = slave.irr /\ slave'.imr = slave.imr
      /\ slave'.base = slave.base
  BY <1>1, <1>2, <1>3, EndedStep
<1> QED
  BY <1>2, <1>4, <1>5 DEF ChipsKept

\* The ends of the handlers.
LEMMA EoisKeep == Inv /\ (RtcEoi \/ KeyHandler \/ TimerEoi) => Inv'
<1> SUFFICES ASSUME Inv, RtcEoi \/ KeyHandler \/ TimerEoi
             PROVE  Inv'
  OBVIOUS
<1>1. PICK irq \in {0, 1, 8}, h \in Handlers :
         /\ Handling(h) /\ send_eoi(irq)
         /\ <<irq, h>> \in {<<8, "rtc_eoi">>, <<1, "key">>, <<0, "tail">>}
  BY DEF RtcEoi, KeyHandler, TimerEoi, Handlers
<1>2. /\ context' = Popped(<< >>)
      /\ UNCHANGED << boot, phase, rtc, curr, is_user_mode, clocks >>
      /\ ready \subseteq ready' /\ ready' \subseteq Procs
  BY DEF RtcEoi, KeyHandler, TimerEoi, procs, Inv, TypeOK
<1>3. /\ ChipsKept /\ UNCHANGED masks
      /\ master'.isr = {} /\ slave'.isr = {}
      /\ slave'.irr = slave.irr
      /\ phase = "run" /\ context[curr] = <<h>> /\ h # "rtc_int"
  BY <1>1, Underway, Acknowledged
<1>4. /\ context' \in [Procs -> Seq(Handlers)]
      /\ context'[curr] = << >>
      /\ \A p \in Procs \ {curr} : context'[p] = context[p]
  <2>1. << >> \in Seq(Handlers) /\ Len(<< >>) =< 1
    OBVIOUS
  <2> QED
    BY <1>1, <1>2, <2>1, PoppedTo
<1>5. curr' \in ready' /\ ready' \subseteq Procs /\ is_user_mode' \subseteq Procs
  BY <1>2 DEF Inv, TypeOK
<1>6. TypeOK' /\ CountInv' /\ BootInv' /\ MaskInv' /\ RaisedInv'
  BY <1>2, <1>3, <1>4, <1>5, Frame
<1>7. ContextInv'
  BY <1>2, <1>3, <1>4 DEF Inv, ContextInv
<1>8. ClockNotStuck'
  <2>1. ASSUME NEW p \in Procs, <<"rtc_int">> = context[p]
        PROVE  <<"rtc_int">> = context'[p]
    <3>1. p # curr
      BY <1>3, <2>1
    <3> QED
      BY <1>4, <2>1, <3>1
  <2> QED
    BY <1>2, <1>3, <2>1 DEF Inv, ClockNotStuck
<1> QED
  BY <1>6, <1>7, <1>8 DEF Inv

LEMMA ScheduleKeeps == Inv /\ Schedule => Inv'
<1> SUFFICES ASSUME Inv, Schedule
             PROVE  Inv'
  OBVIOUS
<1> DEFINE next == NextTurn
<1>1. /\ Handling("timer") /\ curr' = next
      /\ is_user_mode' = is_user_mode \ {curr, next}
      /\ context' = Popped(<<"tail">>)
      /\ UNCHANGED << boot, phase, rtc, ready, clocks >>
  BY DEF Schedule
<1>2. IF next \in is_user_mode THEN send_eoi(0) ELSE UNCHANGED pics
  BY DEF Schedule, EoiFirst
<1>3. next \in ready /\ ready \subseteq Procs /\ next \in Procs /\ curr \in Procs
  BY NextTurnReady DEF Inv, TypeOK
<1> HIDE DEF next
<1>4. /\ phase = "run" /\ context[curr] = <<"timer">>
      /\ master.isr = {0} /\ slave.isr = {}
  BY <1>1, Underway
<1>5. /\ ChipsKept /\ UNCHANGED masks /\ slave'.isr = {} /\ slave'.irr = slave.irr
      /\ master'.isr = IF next \in is_user_mode THEN {} ELSE {0}
  <2>1. CASE next \in is_user_mode
    <3>1. send_eoi(0)
      BY <1>2, <2>1
    <3> QED
      BY <1>4, <2>1, <3>1, Acknowledged
  <2>2. CASE next \notin is_user_mode
    <3>1. UNCHANGED << master, slave, masks >>
      BY <1>2, <2>2 DEF pics
    <3> QED
      BY <1>4, <2>2, <3>1 DEF ChipsKept, Inv, TypeOK
  <2> QED
    BY <2>1, <2>2
<1>6. /\ context' \in [Procs -> Seq(Handlers)]
      /\ context'[curr] = <<"tail">>
      /\ \A p \in Procs \ {curr} : context'[p] = context[p]
  <2>1. <<"tail">> \in Seq(Handlers) /\ Len(<<"tail">>) =< 1
    BY DEF Handlers
  <2> QED
    BY <1>1, <2>1, PoppedTo
<1>7. curr' \in ready' /\ ready' \subseteq Procs /\ is_user_mode' \subseteq Procs
  BY <1>1, <1>3 DEF Inv, TypeOK
<1>8. TypeOK' /\ CountInv' /\ BootInv' /\ MaskInv' /\ RaisedInv'
  BY <1>1, <1>4, <1>5, <1>6, <1>7, Frame
<1>9. ContextInv'
  <2>1. ContextInv
    BY DEF Inv
  <2>2. next \notin is_user_mode' /\ phase' = "run"
    BY <1>1, <1>4
  <2>3. ASSUME NEW p \in Procs \ {next}
        PROVE  context'[p] = IF p \in is_user_mode' THEN << >> ELSE <<"tail">>
    <3>1. CASE p = curr
      BY <1>1, <1>6, <3>1
    <3>2. CASE p # curr
      BY <1>1, <1>6, <2>1, <3>2 DEF ContextInv
    <3> QED
      BY <3>1, <3>2
  <2>4. \/ context'[next] = << >> /\ master'.isr = {} /\ slave'.isr = {}
        \/ context'[next] = <<"tail">> /\ master'.isr = {0} /\ slave'.isr = {}
    <3>1. CASE next = curr
      <4>1. next \notin is_user_mode
        BY <2>1, <3>1 DEF ContextInv
      <4> QED
        BY <1>5, <1>6, <3>1, <4>1
    <3>2. CASE next # curr
      <4>1. context'[next] = IF next \in is_user_mode THEN << >> ELSE <<"tail">>
        BY <1>3, <1>6, <2>1, <3>2 DEF ContextInv
      <4> QED
        BY <1>5, <4>1
    <3> QED
      BY <3>1, <3>2
  <2> QED
    BY <1>1, <2>2, <2>3, <2>4 DEF ContextInv
<1>10. ClockNotStuck'
  <2>1. ASSUME NEW p \in Procs, <<"rtc_int">> = context[p]
        PROVE  <<"rtc_int">> = context'[p]
    <3>1. p # curr
      BY <1>4, <2>1
    <3> QED
      BY <1>6, <2>1, <3>1
  <2> QED
    BY <1>1, <1>4, <1>5, <2>1 DEF Inv, ClockNotStuck
<1> QED
  BY <1>8, <1>9, <1>10 DEF Inv

-----------------------------------------------------------------------------
(* The theorems.                                                           *)

LEMMA InvStep == Inv /\ [Next]_vars => Inv'
<1> SUFFICES ASSUME Inv, [Next]_vars
             PROVE  Inv'
  OBVIOUS
<1>1. CASE BootCall
  BY <1>1, BootKeeps
<1>2. CASE IrqCalls \/ Launch
  BY <1>2, TestsKeep
<1>3. CASE PitTick \/ KeyPress \/ RtcTick
  BY <1>3, DevicesKeep
<1>4. CASE Interrupt
  BY <1>4, InterruptKeeps
<1>5. CASE Service
  BY <1>5, RtcIntKeeps, EoisKeep, ScheduleKeeps DEF Service
<1>6. CASE Calls \/ \E p \in Procs : ReadReturn(p)
  BY <1>6, CallsKeep
<1>7. CASE UNCHANGED vars
  <2>1. UNCHANGED << boot, phase, master, slave, master_interrupt_mask,
                     slave_interrupt_mask, wanted, rtc, curr, ready, is_user_mode,
                     context, frequency, rtc_count, reading, asked, seen >>
    BY <1>7 DEF vars, pics, masks, procs, clocks
  <2>2. TypeOK' /\ CountInv' /\ ContextInv' /\ ClockNotStuck'
    BY <2>1 DEF Inv, TypeOK, CountInv, CountsExactly, ContextInv, ClockNotStuck
  <2>3. BootInv' /\ MaskInv' /\ RaisedInv'
    BY <2>1 DEF Inv, BootInv, Booting, AtCall, MaskInv, Masks, Applied, RaisedInv
  <2> QED
    BY <2>2, <2>3 DEF Inv
<1> QED
  BY <1>1, <1>2, <1>3, <1>4, <1>5, <1>6, <1>7 DEF Next

LEMMA InvAlways == Spec => []Inv
<1>1. Init => Inv
  BY InvInit
<1>2. Inv /\ [Next]_vars => Inv'
  BY InvStep
<1> QED
  BY <1>1, <1>2, PTL DEF Spec

(***************************************************************************)
(* What the controllers have in service is what the handler under way will *)
(* acknowledge, and the clock chip never waits for a handler that does not *)
(* come (send_eoi in every handler and in schedule, rtc_int's read of      *)
(* register C).                                                            *)
(***************************************************************************)
THEOREM InterruptsSound == Spec => []ClockInv
<1>1. Inv => ClockInv
  <2> SUFFICES ASSUME Inv
               PROVE  ServiceMatches
    BY DEF Inv, ClockInv
  <2>1. ContextInv /\ curr \in Procs
    BY DEF Inv, TypeOK
  <2>2. ASSUME NEW p \in Procs, phase = "run"
        PROVE  Len(context[p]) =< 1
    <3>1. context[p] = << >> \/ \E h \in Handlers : context[p] = <<h>>
      <4>1. CASE p = curr
        BY <2>1, <4>1 DEF ContextInv, Handlers
      <4>2. CASE p # curr
        BY <2>1, <4>2 DEF ContextInv, Handlers
      <4> QED
        BY <4>1, <4>2
    <3>2. Len(<< >>) = 0 /\ \A h \in Handlers : Len(<<h>>) = 1
      OBVIOUS
    <3>3. PICK n \in {0, 1} : Len(context[p]) = n
      BY <3>1, <3>2
    <3>4. n =< 1
      OBVIOUS
    <3> QED
      BY <3>3, <3>4
  <2>3. ASSUME phase = "run"
        PROVE  << master.isr, slave.isr >> =
                 IF context[curr] = << >> THEN << {}, {} >>
                                          ELSE ServedBy(Head(context[curr]))
    <3>1. CASE context[curr] = << >>
      BY <2>1, <3>1 DEF ContextInv
    <3>2. CASE context[curr] # << >>
      <4>1. PICK h \in {"timer", "tail", "key", "rtc_int", "rtc_eoi"} :
               /\ context[curr] = <<h>>
               /\ h \in {"timer", "tail"} => master.isr = {0} /\ slave.isr = {}
               /\ h = "key" => master.isr = {1} /\ slave.isr = {}
               /\ h \in {"rtc_int", "rtc_eoi"} => master.isr = {Cascade} /\ slave.isr = {0}
        BY <2>1, <3>2 DEF ContextInv
      <4>2. Head(context[curr]) = h
        BY <4>1
      <4>3. << master.isr, slave.isr >> = ServedBy(h)
        BY <4>1 DEF ServedBy
      <4> QED
        BY <3>2, <4>2, <4>3
    <3> QED
      BY <3>1, <3>2
  <2> QED
    BY <2>2, <2>3 DEF ServiceMatches
<1> QED
  BY <1>1, InvAlways, PTL

(***************************************************************************)
(* From the end of entry() on, and whatever enable_irq and disable_irq are *)
(* called with, IRQ 2 included, the controllers let through exactly the    *)
(* interrupts asked for, those of the slave while IRQ 2 is.                *)
(***************************************************************************)
THEOREM MasksRight == Spec => []MasksAsAsked
<1>1. Inv => MasksAsAsked
  <2> SUFFICES ASSUME Inv, phase # "boot", NEW irq \in (0 .. 15) \ {Cascade}
               PROVE  Open(irq) <=> irq \in wanted /\ (irq > 7 => Cascade \in wanted)
    BY DEF MasksAsAsked
  <2>1. Masks /\ Applied
    BY DEF Inv, MaskInv
  <2>2. CASE irq < 8
    <3>1. irq \in Lines \ {Cascade}
      BY <2>2 DEF Lines
    <3> QED
      BY <2>1, <2>2, <3>1 DEF Masks, Applied, Open
  <2>3. CASE irq >= 8
    <3>1. irq - 8 \in Lines /\ (irq - 8) + 8 = irq
      BY <2>3 DEF Lines
    <3>2. irq - 8 \in slave_interrupt_mask <=> irq \notin wanted
      BY <2>1, <3>1 DEF Masks
    <3>3. irq - 8 \notin slave_interrupt_mask =>
            (Cascade \notin master_interrupt_mask <=> Cascade \in wanted)
      BY <2>1, <3>1 DEF Masks
    <3> QED
      BY <2>1, <2>3, <3>2, <3>3 DEF Applied, Open
  <2> QED
    BY <2>2, <2>3
<1> QED
  BY <1>1, InvAlways, PTL

(***************************************************************************)
(* Each read of the clock counts its own interrupts, whichever process     *)
(* rtc_int runs in.                                                        *)
(***************************************************************************)
THEOREM CountsRight == Spec => []CountsExactly
<1>1. Inv => CountsExactly
  BY DEF Inv, CountInv
<1> QED
  BY <1>1, InvAlways, PTL
==============================================================================
