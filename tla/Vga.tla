-------------------------------- MODULE Vga --------------------------------
(***************************************************************************)
(* The registers of the display adapter as mp2/modex.c programs them.      *)
(*                                                                         *)
(* The adapter itself is external: writing the CRT controller's registers  *)
(* 0 to 7 has no effect while bit 7 of its register 11h is set, and the    *)
(* attribute port takes an index and a value in turn; reading port 3DAh    *)
(* makes it take an index next, and an index with bit 5 set gives the      *)
(* display its palette back.                                               *)
(***************************************************************************)
EXTENDS Naturals, Sequences

IMAGE_X_DIM == 320
IMAGE_Y_DIM == 200
BAR_LINES == 18
MODE_X_MEM_SIZE == 65536

\* What is written, and for the rest what was there before.
Over(new, old) ==
    [x \in DOMAIN new \cup DOMAIN old |-> IF x \in DOMAIN new THEN new[x] ELSE old[x]]

\* A table of register values is given from register 0 on.
Table(s) == [i \in 0..Len(s) - 1 |-> s[i + 1]]

mode_X_seq == Table(<<1, \h21, \h0F, 0, 6>>)
mode_X_CRTC == Table(<<\h5F, \h4F, \h50, \h82, \h54, \h80, \hBF, \h1F,
                       0, 1, 0, 0, 0, 0, 0, 0,
                       \h9C, \h8E, \h8F, \h28, 0, \h96, \hB9, \hE3, \h6B>>)
mode_X_graphics == Table(<<0, 0, 0, 0, 0, \h40, 5, \h0F, \hFF>>)

text_seq == Table(<<1, \h20, 3, 0, 2>>)
text_CRTC == Table(<<\h5F, \h4F, \h50, \h82, \h55, \h81, \hBF, \h1F,
                     0, \h4F, \h0D, \h0E, 0, 0, 0, 0,
                     \h9C, \h8E, \h8F, \h28, \h1F, \h96, \hB9, \hA3, \hFF>>)
text_graphics == Table(<<0, 0, 0, 0, 0, \h10, \h0E, 0, \hFF>>)

\* The first 16 attributes are the palette's first 16 colours in both tables.
Attributes(s) == [i \in 0..21 |-> IF i < 16 THEN i ELSE s[i - 15]]
mode_X_attr == Attributes(<<\h41, 0, \h0F, 0, 0, 0>>)
text_attr == Attributes(<<\h0C, 0, \h0F, 8, 0, 0>>)

PlaceValue(n) == <<1, 2, 4, 8, 16, 32, 64, 128>>[n + 1]
Bit(v, n) == (v \div PlaceValue(n)) % 2
WithBit(v, n, b) == v + PlaceValue(n) * b - PlaceValue(n) * Bit(v, n)

-----------------------------------------------------------------------------
(* The ports.                                                              *)

Locked(v) == Bit(v.crtc[\h11], 7) = 1

\* Words written to port 3C4h, 3D4h or 3CEh: a register and its value.
SeqOut(v, regs) == [v EXCEPT !.seq = Over(regs, @)]
GraphicsOut(v, regs) == [v EXCEPT !.graphics = Over(regs, @)]
CrtcOut(v, regs) ==
    LET kept == IF Locked(v) THEN 0..7 ELSE {}
    IN  [v EXCEPT !.crtc = Over([i \in DOMAIN regs \ kept |-> regs[i]], @)]

\* Port 3DAh is read.
StatusIn(v) == [v EXCEPT !.next = "index"]

\* Pairs of bytes written to the attribute port: when it takes a value first,
\* indices are taken for values and values for indices, and what that gives
\* is not told.
AttrOut(v, regs) ==
    [v EXCEPT !.attr = IF v.next = "index" THEN regs ELSE <<>>,
              !.palette = FALSE]

-----------------------------------------------------------------------------
(* The steps of a mode change.                                             *)

VGA_blank(v, bit) ==
    [StatusIn(SeqOut(v, [i \in {1} |-> WithBit(v.seq[1], 5, bit)]))
        EXCEPT !.palette = TRUE, !.next = "value"]

set_seq_regs_and_reset(v, table, val) ==
    SeqOut([SeqOut(v, table) EXCEPT !.misc = val], [i \in {0} |-> 3])

\* Unlocked first; the lock of the table is set after them.
set_CRTC_registers(v, table) ==
    CrtcOut(CrtcOut(v, [i \in {\h11} |-> 0]), table)

\* Seeded fault: the attribute port is taken as it is.
set_attr_registers_Fault(v, table) == AttrOut(v, table)

set_attr_registers(v, table) == AttrOut(StatusIn(v), table)

\* The planes that a write to video memory goes to: SET_WRITE_MASK.
SetWriteMask(v, mask) == SeqOut(v, [i \in {2} |-> mask])

\* write_font_data() goes to plane 2 and comes back to the text mode's
\* registers, but for one: memory mode 3 where the table has 2.
write_font_data(v) ==
    GraphicsOut(SeqOut(v, [i \in {2, 4} |-> 3]),
                [i \in 4..6 |-> <<0, \h10, \h0E>>[i - 3]])

\* The palette's entries that change; the other 61 of the 64 that are written
\* are the same in both tables.  A colour is <<red, green, blue>>, 6 bits each.
PLAYER_CENTER_COLOR == 32
WALL_OUTLINE_COLOR == 33
WALL_FILL_COLOR == 34

White == <<63, 63, 63>>
Red == <<63, 0, 0>>
Green == <<0, 63, 0>>
Blue == <<0, 0, 63>>

Dac(player, outline, fill) ==
    [c \in PLAYER_CENTER_COLOR..WALL_FILL_COLOR |->
        <<player, outline, fill>>[c - PLAYER_CENTER_COLOR + 1]]

\* fill_palette(): the table as it is compiled in.
fill_palette(v) == [v EXCEPT !.dac = Dac(White, White, Blue)]

\* set_palette() of a level and a number of ticks.
PlayerColor(ticks) ==
    <<Blue, Red, Green, <<63, 63, 0>>>>[((ticks \div 8) % 4) + 1]
WallColor(lvl) == <<Red, Green, Blue, <<63, 0, 63>>>>[(lvl % 4) + 1]

set_palette(v, lvl, ticks) ==
    [v EXCEPT !.dac = Dac(PlayerColor(ticks), White, WallColor(lvl))]

\* The part of set_mode_X() and set_text_mode_3() that programs a mode.
Programmed(v, seq, misc, crtc, attr, graphics) ==
    LET a == set_seq_regs_and_reset(VGA_blank(v, 1), seq, misc)
    IN  fill_palette(
          GraphicsOut(set_attr_registers(set_CRTC_registers(a, crtc), attr),
                      graphics))

-----------------------------------------------------------------------------
(* What the registers say, in lines of the monitor and bytes of a plane.   *)

LineCompare(v) == v.crtc[\h18] + 256 * Bit(v.crtc[7], 4)
                  + 512 * Bit(v.crtc[9], 6)
DisplayEnd(v) == v.crtc[\h12] + 256 * Bit(v.crtc[7], 1)
                 + 512 * Bit(v.crtc[7], 6)
LinesPerRow(v) == (v.crtc[9] % 32) + 1
Pitch(v) == 2 * v.crtc[\h13]
ImageStart(v) == 256 * v.crtc[\h0C] + v.crtc[\h0D]
=============================================================================
