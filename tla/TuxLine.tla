------------------------------- MODULE TuxLine -------------------------------
(***************************************************************************)
(* The line discipline between the serial driver and the Tux controller's  *)
(* driver (mp2/module/tuxctl-ld.c): two rings of bytes, the packets found  *)
(* in what was received, and the bytes handed to the serial driver.  The   *)
(* operators are the critical sections; Tux composes them into steps.      *)
(*                                                                         *)
(* A ring is the sequence of the bytes in it.  Bytes are numbers.          *)
(***************************************************************************)
EXTENDS Integers, Sequences, SequencesExt

CONSTANTS TUXCTL_BUFSIZE,   \* slots of a ring, one of which stays free
          PacketRoom,       \* bytes the callback frames in one go
          Xmit              \* bytes the serial driver's own queue holds

ASSUME SizesAssumption ==
    /\ TUXCTL_BUFSIZE \in Nat \ {0}
    /\ PacketRoom \in Nat /\ PacketRoom > 2
    /\ Xmit \in Nat

Least(a, b) == IF a < b THEN a ELSE b

\* The first n bytes of a sequence, and what follows them.
First(n, s) == SubSeq(s, 1, Least(n, Len(s)))
After(n, s) == SubSeq(s, n + 1, Len(s))

BufRoom(ring) == TUXCTL_BUFSIZE - Len(ring) - 1

\* Copying into a ring: bytes go in while it is not full.
Fill(ring, bytes) == ring \o First(BufRoom(ring), bytes)

-----------------------------------------------------------------------------
(* Framing.  A packet is a byte without the top bit and two bytes with it. *)

\* Seeded fault: the third byte's framing bit is not looked at.
IsPacket_Fault(a, b, c) == a < 128 /\ b >= 128

IsPacket(a, b, c) == a < 128 /\ b >= 128 /\ c >= 128

\* How many bytes the callback fetches: what fits beside those saved.
Fetch(saved) == PacketRoom - Len(saved)

\* What the callback frames: the bytes saved from last time and the fetched.
Taken(saved, ring) == saved \o First(Fetch(saved), ring)

Left(saved, ring) == After(Fetch(saved), ring)

-----------------------------------------------------------------------------
(* Sending.  `room' is what the serial driver said it can take.  *)

\* How many bytes the wake-up takes out of the ring: one more than fit, when
\* there are that many.
Popped(room, ring) == Least(room + 1, Len(ring))

\* The serial driver's write(): it takes what fits.
Sent(wire, bytes) == wire \o First(Xmit - Len(wire), bytes)
WriteRoom(wire)   == Xmit - Len(wire)
=============================================================================
