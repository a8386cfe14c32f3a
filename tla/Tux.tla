--------------------------------- MODULE Tux ---------------------------------
(***************************************************************************)
(* The Tux controller's driver (mp2/module/tuxctl-ioctl.c) over the line   *)
(* discipline, with the program that calls it at one end and the           *)
(* controller (mp2/module/mtcp.h) at the other.                            *)
(*                                                                         *)
(* The caller runs one ioctl at a time, and interrupts come between any    *)
(* two of its steps: a receive interrupt with some bytes of the line, or   *)
(* the serial driver's wake-up.  An interrupt runs to its end: until the   *)
(* callback has framed the bytes it fetched, one packet or stray byte a    *)
(* step, with what it sends in return queued, nothing else moves.          *)
(***************************************************************************)
EXTENDS TuxLine, FiniteSets

CONSTANTS NLeds,       \* LEDs of the controller (4)
          Shown,       \* what the program has the LEDs show
          Presses,     \* button states: <<buttons, directions>>, 4 bits each
          Chunks,      \* how many bytes a receive call brings
          MaxOpens, MaxIoctls, MaxPresses, MaxResets
                       \* bounds of the runs

ASSUME TuxAssumption ==
    /\ NLeds \in 1..4 /\ TUXCTL_BUFSIZE > NLeds + 3
    /\ Chunks \subseteq Nat \ {0}
    /\ Shown \subseteq
         [1..NLeds -> [on : BOOLEAN, digit : 0..15, point : BOOLEAN]]
    /\ Presses \subseteq (0..15) \X (0..15) /\ <<0, 0>> \in Presses
    /\ {MaxOpens, MaxIoctls, MaxPresses, MaxResets} \subseteq Nat

\* Opcodes to the controller and first bytes of its packets.
MTCP_BIOC_ON    == 195
MTCP_LED_SET    == 198
MTCP_LED_USR    == 200
MTCP_ACK        == 64
MTCP_BIOC_EVENT == 65
MTCP_RESET      == 70

LED_BUFF_SIZE == NLeds + 2
AllLeds       == <<1, 3, 7, 15>>[NLeds]

\* Segments of the sixteen digits: A E F dp G C B D from the top bit down.
ledmap == <<231, 6, 203, 143, 46, 173, 237, 134,
            239, 175, 238, 109, 225, 79, 233, 232>>
DecPoint == 16

VARIABLES
    rx, tx,               \* the line discipline's rings
    packet,               \* received bytes not yet framed
    open,                 \* the line discipline is attached (disc_data # 0)
    spam, buttons, buffer,   \* the driver: LED flag, b and c, last LED command
    pc, todo, room, chunk,   \* the caller of an ioctl and its locals
    arg, stored,          \* the LED command to store, bytes of it stored
    wire, line,           \* bytes on their way to and from the controller
    device,               \* the controller
    lost,                 \* bytes lost so far, two standing for any more
    over,                 \* more was taken out for the serial driver than it
                          \* had, or had said it had, room for
    burst,                \* a receive call brought more than is framed at once
    early,                \* the LEDs were restored before they were ever set
    ready,                \* TUX_INIT was called
    raced,                \* the answer to an LED command came before its flag
    count                 \* of what the bounds limit

rings  == <<rx, tx, packet>>
driver == <<rings, spam, buttons>>
caller == <<pc, todo, room, chunk, arg, stored>>
cables == <<wire, line>>
seen   == <<lost, over, burst, early, ready, raced>>
vars == <<driver, open, buffer, caller, cables, device, seen, count>>

\* Between calls packet holds the two bytes at most that were saved; with
\* more of them the callback is at work.
Framing == Len(packet) > 2

Byte == 0..255

Device == [got : Seq(Byte), leds : [1..NLeds -> Byte], user : BOOLEAN,
           bioc : BOOLEAN, pressed : Presses, locked : BOOLEAN]
Counts == [opens : 0..MaxOpens, ioctls : 0..MaxIoctls,
           presses : 0..MaxPresses, resets : 0..MaxResets]

LineOK ==
    /\ rx \in Seq(Byte) /\ Len(rx) < TUXCTL_BUFSIZE
    /\ tx \in Seq(Byte) /\ Len(tx) < TUXCTL_BUFSIZE
    /\ packet \in Seq(Byte) /\ Len(packet) <= PacketRoom
    /\ wire \in Seq(Byte) /\ Len(wire) <= Xmit
    /\ line \in Seq(Byte)
CallerOK ==
    /\ pc \in {"idle", "fill", "put", "room", "pop", "write", "flag"}
    /\ todo \in Seq(Seq(Byte)) /\ chunk \in Seq(Byte) /\ room \in 0..Xmit
    /\ arg \in Seq(Byte) /\ stored \in 0..LED_BUFF_SIZE
DriverOK ==
    /\ open \in BOOLEAN /\ spam \in BOOLEAN
    /\ buttons \in (0..15) \X (0..15)
    /\ buffer \in [1..LED_BUFF_SIZE -> Byte]
SeenOK ==
    /\ lost \in 0..2 /\ over \in BOOLEAN /\ burst \in BOOLEAN
    /\ early \in BOOLEAN /\ ready \in BOOLEAN /\ raced \in BOOLEAN

TypeOK == /\ LineOK /\ CallerOK /\ DriverOK /\ SeenOK
          /\ device \in Device /\ count \in Counts

NoLeds == [i \in 1..NLeds |-> 0]

Init ==
    /\ rx = <<>> /\ packet = <<>> /\ tx = <<>> /\ open = FALSE
    /\ spam = FALSE /\ buttons = <<0, 0>>
    /\ buffer = [i \in 1..LED_BUFF_SIZE |-> 0]
    /\ pc = "idle" /\ todo = <<>> /\ room = 0 /\ chunk = <<>>
    /\ arg = <<>> /\ stored = 0
    /\ wire = <<>> /\ line = <<>>
    /\ device = [got |-> <<>>, leds |-> NoLeds, user |-> FALSE,
                 bioc |-> FALSE, pressed |-> <<0, 0>>, locked |-> FALSE]
    /\ lost = 0 /\ over = FALSE /\ burst = FALSE /\ early = FALSE
    /\ ready = FALSE /\ raced = FALSE
    /\ count = [opens |-> 0, ioctls |-> 0, presses |-> 0, resets |-> 0]

-----------------------------------------------------------------------------
(* The line discipline is attached and detached.  The leftover bytes are   *)
(* static: a new attachment finds them as they were.                       *)

Open ==
    /\ ~open /\ pc = "idle" /\ count.opens < MaxOpens
    /\ open' = TRUE
    /\ rx' = <<>> /\ tx' = <<>>
    /\ count' = [count EXCEPT !.opens = @ + 1]
    /\ UNCHANGED <<packet, spam, buttons, buffer, caller, cables, device, seen>>

Missed(n) == lost' = Least(2, lost + n)

\* What the rings hold is freed with them.
Close ==
    /\ open /\ pc = "idle"
    /\ open' = FALSE
    /\ rx' = <<>> /\ tx' = <<>>
    /\ Missed(Len(rx))
    /\ UNCHANGED <<packet, spam, buttons, buffer, caller, cables, device,
                   over, burst, early, ready, raced, count>>

-----------------------------------------------------------------------------
(* Interrupts.  The way out: the ring, the serial driver's queue behind    *)
(* it, and whether that had to drop bytes.                                 *)

Port == [tx |-> tx, wire |-> wire, over |-> over]

\* The wake-up, with nothing between its steps.
Woken(p) ==
    LET n == Popped(WriteRoom(p.wire), p.tx)
    IN  [tx   |-> After(n, p.tx),
         wire |-> Sent(p.wire, First(n, p.tx)),
         over |-> p.over \/ n > WriteRoom(p.wire)]

Put(p, bytes) ==
    Woken([tx |-> Fill(p.tx, bytes), wire |-> p.wire, over |-> p.over])

\* Seeded fault: the LEDs are not restored after a reset.
Restored_Fault(p) == Put(Put(p, <<MTCP_BIOC_ON>>), <<MTCP_LED_USR>>)

\* Seeded fault: the restored command goes out without its opcode.
Restored_OpcodeFault(p) ==
    Put(Put(Put(p, <<MTCP_BIOC_ON>>), <<MTCP_LED_USR>>), After(1, buffer))

\* A controller that was reset is set up again and shown the last LEDs.
Restored(p) ==
    Put(Put(Put(p, <<MTCP_BIOC_ON>>), <<MTCP_LED_USR>>), buffer)

\* The next k bytes of the line reach receive_buf(), and the callback fetches
\* what it has room for.
Receive(k) ==
    /\ k <= Len(line)
    /\ line' = After(k, line)
    /\ IF ~open THEN Missed(k) /\ UNCHANGED <<rings, burst>>
       ELSE LET ring == Fill(rx, First(k, line))
            IN  /\ rx' = Left(packet, ring)
                /\ packet' = Taken(packet, ring)
                /\ Missed(k - (Len(ring) - Len(rx)))
                /\ burst' = (burst \/ k > PacketRoom - 2)
                /\ UNCHANGED tx
    /\ UNCHANGED <<open, spam, buttons, buffer, caller, wire, device,
                   over, early, ready, raced, count>>

\* Seeded fault: an acknowledgement that interrupts an ioctl is dropped.
Acknowledged_Fault == packet[1] = MTCP_ACK /\ pc = "idle"

Acknowledged == packet[1] = MTCP_ACK

\* An acknowledgement, or a reset that leads to one, is on its way.
AckComing ==
    \/ {MTCP_BIOC_ON, MTCP_LED_SET}
         \cap UNION {Range(tx), Range(chunk), Range(wire), Range(device.got)}
         # {}
    \/ {MTCP_ACK, MTCP_RESET} \cap UNION {Range(packet), Range(rx), Range(line)}
         # {}

\* An LED command is being sent whose flag is still to be set.
Unflagged == arg # <<>> /\ pc \in {"room", "pop", "write", "flag"}

\* tuxctl_handle_packet().  The button bits are active low.
HandlePacket ==
    /\ Framing /\ IsPacket(packet[1], packet[2], packet[3])
    /\ packet' = After(3, packet)
    /\ buttons' = IF packet[1] # MTCP_BIOC_EVENT THEN buttons
                  ELSE <<15 - (packet[2] % 16), 15 - (packet[3] % 16)>>
    /\ spam' = (spam /\ ~Acknowledged)
    /\ LET p == IF packet[1] = MTCP_RESET THEN Restored(Port) ELSE Port
       IN  tx' = p.tx /\ wire' = p.wire /\ over' = p.over
    /\ early' = \/ early
                \/ packet[1] = MTCP_RESET /\ (buffer[1] = 0 \/ buffer[2] = 0)
    /\ UNCHANGED <<rx, open, buffer, caller, line, device,
                   lost, burst, ready, count>>
    /\ raced' = (raced \/ (Acknowledged /\ Unflagged /\ ~AckComing'))

\* A byte that starts no packet is passed over.
SkipByte ==
    /\ Framing /\ ~IsPacket(packet[1], packet[2], packet[3])
    /\ packet' = Tail(packet)
    /\ UNCHANGED <<rx, tx, spam, buttons, open, buffer, caller, cables, device,
                   seen, count>>

\* The serial driver has room again and calls the wake-up.
WriteWakeup ==
    /\ open /\ tx # <<>> /\ WriteRoom(wire) > 0
    /\ tx' = Woken(Port).tx /\ wire' = Woken(Port).wire
    /\ over' = Woken(Port).over
    /\ UNCHANGED <<rx, packet, open, spam, buttons, buffer, caller, line, device,
                   lost, burst, early, ready, raced, count>>

-----------------------------------------------------------------------------
(* The ioctls.  *)

Start(next, puts, command) ==
    /\ open /\ pc = "idle" /\ count.ioctls < MaxIoctls
    /\ pc' = next /\ todo' = puts /\ arg' = command
    /\ count' = [count EXCEPT !.ioctls = @ + 1]
    /\ UNCHANGED <<driver, open, buffer, room, chunk, stored, cables, device,
                   lost, over, burst, early>>

TuxInit ==
    /\ Start("put", <<<<MTCP_BIOC_ON>>, <<MTCP_LED_USR>>>>, <<>>)
    /\ ready' = TRUE /\ UNCHANGED raced

Bit(n, i) == (n \div <<1, 2, 4, 8, 16, 32, 64, 128>>[i + 1]) % 2

\* The byte the program gets: right, left, down, up, C, B, A, START.
ButtonByte(b, c) ==
    b + 128 * Bit(c, 3) + 64 * Bit(c, 1) + 32 * Bit(c, 2) + 16 * Bit(c, 0)

\* What TUX_BUTTONS returns; it changes nothing.
TuxButtons == ButtonByte(buttons[1], buttons[2])

\* One LED's segments: of its digit if it is on, with its decimal point.
LedByte(led) == (IF led.on THEN ledmap[led.digit + 1] ELSE 0)
                + (IF led.point THEN DecPoint ELSE 0)

LedCommand(leds) ==
    <<MTCP_LED_SET, AllLeds>> \o [i \in 1..NLeds |-> LedByte(leds[i])]

\* While the flag stands the command is dropped, and success returned.
TuxSetLed(leds) ==
    /\ IF spam THEN Start("idle", <<>>, <<>>) /\ UNCHANGED raced
       ELSE Start("fill", <<>>, LedCommand(leds)) /\ raced' = FALSE
    /\ UNCHANGED ready

\* The command is stored byte by byte; then it is sent.
StoreByte ==
    /\ pc = "fill"
    /\ buffer' = [buffer EXCEPT ![stored + 1] = arg[stored + 1]]
    /\ IF stored + 1 < LED_BUFF_SIZE
         THEN stored' = stored + 1 /\ UNCHANGED <<pc, todo>>
         ELSE stored' = 0 /\ pc' = "put" /\ todo' = <<buffer'>>
    /\ UNCHANGED <<driver, open, room, chunk, arg, cables, device, seen, count>>

\* tuxctl_ldisc_put(), in the steps an interrupt can come between: the bytes
\* go into the ring, the driver is asked for its room, the ring is emptied
\* into a local buffer, and that is written.
PutBytes ==
    /\ pc = "put"
    /\ tx' = Fill(tx, Head(todo))
    /\ todo' = Tail(todo) /\ pc' = "room"
    /\ UNCHANGED <<rx, packet, spam, buttons, open, buffer, room, chunk, arg,
                   stored, cables, device, seen, count>>

AskRoom ==
    /\ pc = "room" /\ pc' = "pop"
    /\ room' = WriteRoom(wire)
    /\ UNCHANGED <<driver, open, buffer, todo, chunk, arg, stored, cables,
                   device, seen, count>>

PopBytes ==
    /\ pc = "pop" /\ pc' = "write"
    /\ chunk' = First(Popped(room, tx), tx)
    /\ tx' = After(Popped(room, tx), tx)
    /\ over' = (over \/ Popped(room, tx) > room)
    /\ UNCHANGED <<rx, packet, spam, buttons, open, buffer, todo, room, arg,
                   stored, cables, device, lost, burst, early, ready, raced, count>>

\* After an LED command the flag is still to be set.
WriteBytes ==
    /\ pc = "write"
    /\ wire' = Sent(wire, chunk)
    /\ over' = (over \/ Len(chunk) > WriteRoom(wire))
    /\ chunk' = <<>> /\ room' = 0
    /\ pc' = IF todo # <<>> THEN "put" ELSE IF arg # <<>> THEN "flag"
             ELSE "idle"
    /\ UNCHANGED <<driver, open, buffer, todo, arg, stored, line, device,
                   lost, burst, early, ready, raced, count>>

SetFlag ==
    /\ pc = "flag" /\ pc' = "idle" /\ arg' = <<>>
    /\ spam' = TRUE
    /\ UNCHANGED <<rings, buttons, open, buffer, todo, room, chunk, stored,
                   cables, device, seen, count>>

-----------------------------------------------------------------------------
(* The controller: outside src/, by what mtcp.h says of it.  It starts in  *)
(* debug-lockup mode, which the driver never leaves: a byte that is no     *)
(* command stops it until it is reset.                                     *)

Packet(first, b, c) == <<first, 128 + b, 128 + c>>
Ack == Packet(MTCP_ACK, 0, 0)
Event(p) == Packet(MTCP_BIOC_EVENT, 15 - p[1], 15 - p[2])

Bits(n) == Cardinality({i \in 0..7 : Bit(n, i) = 1})

\* The LEDs after a whole LED_SET: the data bytes in order of LED number.
Lit(d, mask, data) ==
    [i \in 1..NLeds |->
        IF Bit(mask, i - 1) = 0 THEN d.leds[i]
        ELSE data[Cardinality({j \in 1..i : Bit(mask, j - 1) = 1})]]

\* One more byte: a whole command is carried out, and all but LED_USR are
\* acknowledged.  Nothing is said of what a stopped controller is sent.
DeviceByte ==
    /\ wire # <<>>
    /\ wire' = Tail(wire)
    /\ LET got == Append(device.got, Head(wire))
           lit == [device EXCEPT !.leds = Lit(device, got[2], After(2, got))]
           partial == Len(got) = 1 \/ Len(got) < 2 + Bits(got[2])
       IN  IF device.locked THEN UNCHANGED <<device, line>>
           ELSE IF got = <<MTCP_BIOC_ON>>
             THEN /\ device' = [device EXCEPT !.bioc = TRUE]
                  /\ line' = line \o Ack
           ELSE IF got = <<MTCP_LED_USR>>
             THEN /\ device' = [device EXCEPT !.user = TRUE]
                  /\ UNCHANGED line
           ELSE IF got[1] # MTCP_LED_SET
             THEN /\ device' = [device EXCEPT !.locked = TRUE]
                  /\ UNCHANGED line
           ELSE IF partial
             THEN /\ device' = [device EXCEPT !.got = got]
                  /\ UNCHANGED line
           ELSE /\ device' = [lit EXCEPT !.got = <<>>]
                /\ line' = line \o Ack
    /\ UNCHANGED <<driver, open, buffer, caller, seen, count>>

\* The user presses or releases buttons.
Press(p) ==
    /\ p # device.pressed /\ count.presses < MaxPresses
    /\ device' = [device EXCEPT !.pressed = p]
    /\ line' = IF device.bioc /\ ~device.locked
                 THEN line \o Event(p) ELSE line
    /\ count' = [count EXCEPT !.presses = @ + 1]
    /\ UNCHANGED <<driver, open, buffer, caller, wire, seen>>

\* The reset button.  What arrives while the controller starts is lost on it.
Reset ==
    /\ count.resets < MaxResets
    /\ device' = [got |-> <<>>, leds |-> NoLeds, user |-> FALSE,
                   bioc |-> FALSE, pressed |-> device.pressed,
                   locked |-> FALSE]
    /\ wire' = <<>>
    /\ line' = line \o Packet(MTCP_RESET, 0, 0)
    /\ count' = [count EXCEPT !.resets = @ + 1]
    /\ UNCHANGED <<driver, open, buffer, caller, seen>>

\* The serial line loses a byte.
LoseByte ==
    /\ line # <<>> /\ lost = 0
    /\ line' = Tail(line)
    /\ Missed(1)
    /\ UNCHANGED <<driver, open, buffer, caller, wire, device,
                   over, burst, early, ready, raced, count>>

-----------------------------------------------------------------------------
CallerStep == StoreByte \/ PutBytes \/ AskRoom \/ PopBytes \/ WriteBytes
              \/ SetFlag
Interrupt  == WriteWakeup \/ \E k \in Chunks : Receive(k)

Others ==
    \/ Open \/ Close \/ TuxInit
    \/ \E leds \in Shown : TuxSetLed(leds)
    \/ CallerStep \/ Interrupt \/ DeviceByte \/ LoseByte \/ Reset
    \/ \E p \in Presses : Press(p)

Next == HandlePacket \/ SkipByte \/ (~Framing /\ Others)

Spec == Init /\ [][Next]_vars

-----------------------------------------------------------------------------
(* Properties.  *)

\* Packets of different moments are never mixed: with one byte lost at most,
\* wherever it is lost, the program gets the buttons of one state the user had
\* them in (tuxctl-ld.c:273, tuxctl-ioctl.c:138).
ButtonsOfOneMoment ==
    lost < 2 => TuxButtons \in {ButtonByte(p[1], p[2]) : p \in Presses}

\* Whatever interrupts whatever, commands reach the controller whole: it
\* stops at a byte that is no command only if the LEDs were restored before
\* they were set, or the serial driver ran out of room.
CommandsWhole == device.locked => early \/ over

Sound == lost = 0 /\ ~over /\ ~device.locked

\* While LED commands are refused, the answer that ends this is still to
\* come, whatever interrupts whatever.  There is one way out, which raced
\* records: the acknowledgement is handled after the command was put
\* (tuxctl-ioctl.c:244) and before the flag is set (:246), and none follows.
FlagHasAck == spam /\ Sound /\ ~raced => AckComing

Quiet == /\ pc = "idle" /\ tx = <<>> /\ wire = <<>> /\ line = <<>>
         /\ rx = <<>> /\ ~Framing

\* When all bytes have arrived, the controller shows the last LEDs
\* that were sent.
QuietAgree ==
    Quiet /\ Sound /\ open /\ device.bioc /\ ready =>
        /\ device.leds = After(2, buffer)
        /\ device.user

\* Received bytes are framed at once, unless a receive call brings more than
\* fit beside the two saved bytes (tuxctl-ld.c:266).
NothingLeftBehind == rx # <<>> => burst

\* Between ioctls and interrupts: bytes received are framed, the flag against
\* overlapping LED commands has an answer coming, and rings and registers are
\* in range (tuxctl-ld.c:257 to 292, tuxctl-ioctl.c:194 to 246).
TuxInv == TypeOK /\ FlagHasAck /\ NothingLeftBehind
=============================================================================
