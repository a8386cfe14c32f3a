------------------------------- MODULE ModeX -------------------------------
(***************************************************************************)
(* The build buffer and the display of the maze game (mp2/modex.c).        *)
(*                                                                         *)
(* A picture is built in memory that is one plane after the other, plane 3 *)
(* first; a window onto a larger picture moves through it, and whatever of *)
(* the window is still to be seen is carried along when the buffer ends.   *)
(* A pixel is its place in the picture and what is painted there.          *)
(***************************************************************************)
EXTENDS Vga, Integers

CONSTANTS SCROLL_X_DIM, SCROLL_Y_DIM,   \* the window, in pixels
          BLOCK_DIM,                    \* BLOCK_X_DIM, BLOCK_Y_DIM
          EXTRA,                        \* spare bytes of the build buffer
          MEM_FENCE_WIDTH,              \* guard bytes on each side of it
          SHOW_MIN,                     \* first pixel ever shown
          EdgeX, EdgeY,                 \* last position of the window
          TARGET,                       \* target_img, the image's address
          BAR_DIM, CHARS, CHAR_DIM,     \* the bar's lines and its characters
          Blocks, Players,              \* where blocks and players are drawn
          Levels, Ticks                 \* of the game, as the bar shows them

ASSUME ModeXAssumption ==
    /\ SCROLL_X_DIM \in Nat \ {0} /\ SCROLL_X_DIM % 4 = 0
    /\ SCROLL_Y_DIM \in Nat \ {0} /\ EXTRA \in Nat
    /\ BLOCK_DIM \in Nat /\ MEM_FENCE_WIDTH \in Nat
    /\ SHOW_MIN \in Nat /\ EdgeX \in Nat /\ EdgeX >= SHOW_MIN
    /\ EdgeY \in Nat /\ EdgeY >= SHOW_MIN
    /\ Blocks \cup Players \subseteq Nat \X Nat
    /\ BAR_DIM \in Nat /\ CHARS \in Nat /\ CHAR_DIM \in Nat
    /\ CHARS * CHAR_DIM = SCROLL_X_DIM
    /\ TARGET \in Nat /\ TARGET >= (SCROLL_X_DIM \div 4) * BAR_DIM
    /\ Levels \subseteq 1..10 /\ Ticks \subseteq Nat

VARIABLES
    phase,      \* "text", "graphics" or, at the end, "done"
    show,       \* <<show_x, show_y>>, the window
    img3_off,   \* where pixel (0,0) is in the build buffer
    build,      \* the build buffer and its fences
    painted,    \* where a block has been painted
    video,      \* the four planes of video memory
    vga,        \* the adapter's registers
    frame,      \* the window and the player last shown
    status      \* text length, level and ticks last shown on the bar

vars == <<phase, show, img3_off, build, painted, video, vga, frame, status>>

SCROLL_X_WIDTH == SCROLL_X_DIM \div 4
SCROLL_SIZE == SCROLL_X_WIDTH * SCROLL_Y_DIM
SCREEN_SIZE == 4 * SCROLL_SIZE + 1
BUILD_BUF_SIZE == SCREEN_SIZE + EXTRA
BUILD_BASE_INIT == (BUILD_BUF_SIZE - SCREEN_SIZE) \div 2
BAR_SIZE == SCROLL_X_WIDTH * BAR_DIM

Buffer == 0..BUILD_BUF_SIZE - 1
Fences == (-MEM_FENCE_WIDTH..-1)
          \cup (BUILD_BUF_SIZE..BUILD_BUF_SIZE + MEM_FENCE_WIDTH - 1)
Window(at) == (at[1]..at[1] + SCROLL_X_DIM - 1)
              \X (at[2]..at[2] + SCROLL_Y_DIM - 1)

\* Addresses in a plane, without and with the plane, relative to (0,0).
Address(p) == p[1] \div 4 + p[2] * SCROLL_X_WIDTH
Cell(p) == Address(p) + (3 - (p[1] % 4)) * SCROLL_SIZE

BlockAt(q) == (q[1]..q[1] + BLOCK_DIM - 1) \X (q[2]..q[2] + BLOCK_DIM - 1)

Old == [at |-> <<0, 0>>, is |-> "old"]
Magic == [at |-> <<0, 0>>, is |-> "magic"]

\* A pixel of the picture, as the game's callbacks draw it.
Pixel(p) == [at |-> p, is |-> IF \E q \in painted : p \in BlockAt(q)
                                THEN "block" ELSE "floor"]

-----------------------------------------------------------------------------
(* The window.                                                             *)

\* The window fits into the build buffer, in every plane.
Fits(off, to) ==
    /\ off + Address(to) >= 0
    /\ off + 3 * SCROLL_SIZE
         + Address(<<to[1] + SCROLL_X_DIM - 1, to[2] + SCROLL_Y_DIM - 1>>)
         < BUILD_BUF_SIZE

Apart(to, from) ==
    \/ to[1] <= from[1] - SCROLL_X_DIM \/ to[1] >= from[1] + SCROLL_X_DIM
    \/ to[2] <= from[2] - SCROLL_Y_DIM \/ to[2] >= from[2] + SCROLL_Y_DIM

Larger(i, j) == IF i > j THEN i ELSE j
Smaller(i, j) == IF i > j THEN j ELSE i

\* The offset that puts a window in the middle of the buffer.
Centred(to) == BUILD_BASE_INIT - Address(to)

\* n bytes copied one by one, from the first and from the last: what has been
\* written is read again when the areas overlap the wrong way.
Ascending(b, from, to, n) ==
    [c \in to..to + n - 1 |->
        b[from + IF to > from THEN (c - to) % (to - from) ELSE c - to]]
Descending(b, from, to, n) ==
    [c \in to..to + n - 1 |->
        LET k == to + n - 1 - c
        IN  b[from + n - 1 - (IF from > to THEN k % (from - to) ELSE k)]]

\* Seeded fault: the copy always goes upwards.
Copied_Fault(b, from, to, n) == Over(Ascending(b, from, to, n), b)

Copied(b, from, to, n) ==
    Over(IF from < to THEN Descending(b, from, to, n)
         ELSE Ascending(b, from, to, n), b)

\* What is not to be seen is old, whatever it is.
Aged(b, off, at) ==
    LET seen == {off + Cell(p) : p \in Window(at)}
    IN  Over([c \in Buffer \ seen |-> Old], b)

\* set_view_window(): a new place in the buffer and what is in the buffer.
set_view_window(to) ==
    LET first == <<Larger(to[1], show[1]), Larger(to[2], show[2])>>
        last == <<Smaller(to[1], show[1]) + SCROLL_X_DIM - 1,
                  Smaller(to[2], show[2]) + SCROLL_Y_DIM - 1>>
        off == IF Fits(img3_off, to) THEN img3_off ELSE Centred(to)
        kept == IF Fits(img3_off, to) \/ Apart(to, show) THEN build
                ELSE Copied(build, img3_off + Address(first),
                            off + Address(first),
                            Address(last) + 1 - Address(first)
                              + 3 * SCROLL_SIZE)
    IN  [show |-> to, off |-> off, build |-> Aged(kept, off, to)]

\* Pixels are put where they belong in the buffer.
Plotted(s, pixels) ==
    LET cell(p) == s.off + Cell(p)
    IN  [s EXCEPT !.build = Over(
            [c \in {cell(p) : p \in DOMAIN pixels} |->
                pixels[CHOOSE p \in DOMAIN pixels : cell(p) = c]], @)]

\* draw_vert_line() and draw_horiz_line(): a column, a row of the window.
Lined(s, line) == Plotted(s, [p \in line |-> Pixel(p)])

draw_vert_line(s, x) ==
    Lined(s, {s.show[1] + x}
             \X (s.show[2]..s.show[2] + SCROLL_Y_DIM - 1))
draw_horiz_line(s, y) ==
    Lined(s, (s.show[1]..s.show[1] + SCROLL_X_DIM - 1) \X {s.show[2] + y})

-----------------------------------------------------------------------------
(* Blocks.                                                                 *)

\* The pixels of a block that are in the window, along one dimension.
Clip(pos, from, dim) ==
    Larger(from - pos, 0)..Smaller(from + dim - pos, BLOCK_DIM) - 1

\* draw_full_block() of the pixels blk[dy][dx], except those of "skip".
DrawnBlock(s, pos, blk, skip) ==
    LET dxs == Clip(pos[1], s.show[1], SCROLL_X_DIM)
        dys == Clip(pos[2], s.show[2], SCROLL_Y_DIM)
        on == {<<pos[1] + d[1], pos[2] + d[2]>> : d \in (dxs \X dys) \ skip}
    IN  Plotted(s, [p \in on |-> blk[<<p[1] - pos[1], p[2] - pos[2]>>]])

AllPixels == (0..BLOCK_DIM - 1) \X (0..BLOCK_DIM - 1)
Image(pos, is) ==
    [d \in AllPixels |-> [at |-> <<pos[1] + d[1], pos[2] + d[2]>>, is |-> is]]

draw_full_block(s, pos, blk) == DrawnBlock(s, pos, blk, {})

\* The player is drawn where its mask, all but the first row here, is set.
MaskSkips == {d \in AllPixels : d[2] = 0}
draw_refill_block(s, pos, panel) == DrawnBlock(s, pos, panel, MaskSkips)

-----------------------------------------------------------------------------
(* Video memory.                                                           *)

Planes == 0..3
Memory == (0..BAR_SIZE - 1) \cup (TARGET..TARGET + SCROLL_SIZE - 1)

\* clear_screens().
Cleared == [i \in Planes |-> [a \in Memory |-> Old]]

\* Seeded fault: the shift of the planes on the left is forgotten.
PlaneStart_Fault(s, i) ==
    LET p_off == 3 - (s.show[1] % 4)
    IN  s.off + Address(s.show) + ((p_off - i + 4) % 4) * SCROLL_SIZE

\* Where the bytes for plane i of the display are in the build buffer.
PlaneStart(s, i) ==
    LET p_off == 3 - (s.show[1] % 4)
    IN  s.off + Address(s.show) + ((p_off - i + 4) % 4) * SCROLL_SIZE
          + (IF p_off < i THEN 1 ELSE 0)

\* copy_image() of the four planes.
show_screen(s) ==
    [i \in Planes |-> Over([k \in TARGET..TARGET + SCROLL_SIZE - 1 |->
        s.build[PlaneStart(s, i) + k - TARGET]], video[i])]

\* show_screen()'s port writes: the last plane's mask, the image's address.
ShownAt(v) ==
    CrtcOut(SetWriteMask(v, 8),
            [i \in {\h0C, \h0D} |-> IF i = \h0C THEN \h40 ELSE 0])

\* The text of the bar: "Level ", the level, "    ", the fruits, " fruit" or
\* " fruits", "    " and the time as two numbers of two digits.
Digits(n) == IF n < 10 THEN 1 ELSE 2
TextLength(lvl, fruits) ==
    6 + Digits(lvl) + 4 + Digits(fruits) + (IF fruits = 1 THEN 6 ELSE 7) + 4 + 5

\* It fits on the forty characters of the bar, whatever the level and with up
\* to 99 fruits.
ASSUME TextFits == \A lvl \in 1..10, n \in 0..99 : TextLength(lvl, n) \in 1..40

\* _changecolor(): what is behind the text has the colour numbered lvl - 1.
Behind(lvl) == lvl - 1

\* A pixel of a glyph: which one of which character, and what is behind it.
Glyph(k, x, y, lvl) == [at |-> <<k, x, y, Behind(lvl)>>, is |-> "text"]

\* strbuff() of a text of len characters: pixel (i, j) of the bar.
BarPixel(st, i, j) ==
    LET gap == (CHAR_DIM * (CHARS - st.len)) \div 2
    IN  IF j \in {0, BAR_DIM - 1} \/ i < gap \/ i >= gap + st.len * CHAR_DIM
          THEN [at |-> <<Behind(st.lvl)>>, is |-> "off"]
        ELSE Glyph((i - gap) \div CHAR_DIM, (i - gap) % CHAR_DIM, j - 1, st.lvl)

\* Seeded fault: the columns are dealt to the planes the other way round.
Dealt_Fault(st, p, k) ==
    BarPixel(st, 4 * (k % SCROLL_X_WIDTH) + 3 - p, k \div SCROLL_X_WIDTH)

\* The k-th byte of the buffer for plane p: every fourth column.
Dealt(st, p, k) ==
    BarPixel(st, 4 * (k % SCROLL_X_WIDTH) + p, k \div SCROLL_X_WIDTH)

\* copy_bar() of the four planes.
show_status(st) ==
    [p \in Planes |-> Over([k \in 0..BAR_SIZE - 1 |-> Dealt(st, p, k)], video[p])]

-----------------------------------------------------------------------------
(* The operations, as the game calls them.                                 *)

Store(s) == show' = s.show /\ img3_off' = s.off /\ build' = s.build

Level1 == <<SHOW_MIN, SHOW_MIN>>

\* The adapter in the text mode it starts in; the attribute port may take
\* either an index or a value next.
TextVga(next) == [seq |-> text_seq, misc |-> \h67, crtc |-> text_CRTC,
                  attr |-> text_attr, graphics |-> text_graphics,
                  palette |-> TRUE, dac |-> <<>>, next |-> next]

NoStatus == [len |-> 0, lvl |-> 0, ticks |-> 0]

Init ==
    /\ phase = "text" /\ show = <<0, 0>> /\ img3_off = 0
    /\ build = [c \in Fences \cup Buffer |-> Old]
    /\ painted = {} /\ frame = <<>> /\ status = NoStatus
    /\ video = Cleared
    /\ \E n \in {"index", "value"} : vga = TextVga(n)

\* The program goes into mode X; then the first level's window is drawn.
set_mode_X ==
    /\ phase = "text" /\ phase' = "graphics"
    /\ show' = <<0, 0>> /\ img3_off' = BUILD_BASE_INIT
    /\ build' = [c \in Fences \cup Buffer |-> IF c \in Fences THEN Magic ELSE Old]
    /\ vga' = VGA_blank(SetWriteMask(
                  Programmed(vga, mode_X_seq, \h63, mode_X_CRTC, mode_X_attr,
                             mode_X_graphics), \h0F), 0)
    /\ video' = Cleared
    /\ UNCHANGED <<painted, frame, status>>

\* prepare_maze_level(): the window goes back to the corner of a new picture
\* and is drawn row by row.
prepare_maze_level ==
    /\ phase = "graphics" /\ painted' = {}
    /\ LET s == set_view_window(Level1)
       IN  Store(Plotted(s, [p \in Window(Level1) |-> [at |-> p, is |-> "floor"]]))
    /\ UNCHANGED <<phase, video, vga, frame, status>>

Drawn == \E c \in Buffer : build[c] # Old

\* move_up(), move_right(), move_down() and move_left() pan by a pixel.
Pan(d) ==
    /\ phase = "graphics" /\ Drawn
    /\ LET to == CASE d = "up" -> <<show[1], show[2] - 1>>
                   [] d = "right" -> <<show[1] + 1, show[2]>>
                   [] d = "down" -> <<show[1], show[2] + 1>>
                   [] d = "left" -> <<show[1] - 1, show[2]>>
           s == set_view_window(to)
       IN  /\ to \in (SHOW_MIN..EdgeX) \X (SHOW_MIN..EdgeY)
           /\ Store(CASE d = "up" -> draw_horiz_line(s, 0)
                      [] d = "right" -> draw_vert_line(s, SCROLL_X_DIM - 1)
                      [] d = "down" -> draw_horiz_line(s, SCROLL_Y_DIM - 1)
                      [] d = "left" -> draw_vert_line(s, 0))
    /\ UNCHANGED <<phase, painted, video, vga, frame, status>>

Here == [show |-> show, off |-> img3_off, build |-> build]

\* A square of the maze is unveiled.
Paint(q) ==
    /\ phase = "graphics" /\ Drawn /\ painted = {}
    /\ painted' = {q}
    /\ Store(draw_full_block(Here, q, Image(q, "block")))
    /\ UNCHANGED <<phase, video, vga, frame, status>>

\* The picture is shown with the player in it, and the player taken out.
Frame(q) ==
    /\ phase = "graphics" /\ Drawn
    /\ LET s == draw_refill_block(Here, q, Image(q, "player"))
       IN  /\ video' = show_screen(s)
           /\ Store(draw_full_block(s, q, [d \in AllPixels |->
                  Pixel(<<q[1] + d[1], q[2] + d[2]>>)]))
    /\ vga' = ShownAt(vga) /\ frame' = <<show, q>>
    /\ UNCHANGED <<phase, painted, status>>

\* The palette is set and the status bar is shown; SET_WRITE_MASK goes from
\* plane to plane.
Status(st) ==
    /\ phase = "graphics" /\ Drawn
    /\ video' = show_status(st) /\ status' = st
    /\ vga' = SetWriteMask(set_palette(vga, st.lvl, st.ticks), 8)
    /\ UNCHANGED <<phase, show, img3_off, build, painted, frame>>

\* set_text_mode_3(1): blanks and their attributes on the text screens, which
\* are the even addresses of planes 0 and 1, and the fonts in plane 2, sixteen
\* bytes of every 32.
TEXT_SCREENS == 32768
FONTS == 256 * 32
Texted ==
    [i \in Planes |-> [a \in Memory |->
        IF i \in {0, 1} /\ a < TEXT_SCREENS /\ a % 2 = 0
          THEN [at |-> <<i>>, is |-> "text screen"]
        ELSE IF i = 2 /\ a < FONTS /\ a % 32 < 16
          THEN [at |-> <<a>>, is |-> "font"]
        ELSE video[i][a]]]

\* clear_mode_X(): text mode 3, which has its memory where the picture was.
clear_mode_X ==
    /\ phase = "graphics" /\ phase' = "done"
    /\ vga' = VGA_blank(write_font_data(
                  Programmed(vga, text_seq, \h67, text_CRTC, text_attr,
                             text_graphics)), 0)
    /\ video' = Texted
    /\ UNCHANGED <<show, img3_off, build, painted, frame, status>>

Next ==
    \/ set_mode_X \/ prepare_maze_level \/ clear_mode_X
    \/ \E d \in {"up", "right", "down", "left"} : Pan(d)
    \/ \E q \in Blocks : Paint(q)
    \/ \E q \in Players : Frame(q)
    \/ \E len \in 1..CHARS, lvl \in Levels, ticks \in Ticks :
         Status([len |-> len, lvl |-> lvl, ticks |-> ticks])

Spec == Init /\ [][Next]_vars

-----------------------------------------------------------------------------
(* Properties.                                                             *)

\* The picture of the monitor at a row and a column of the window, and of the
\* bar: every fourth column is in the same plane.
OnMonitor(i, j) == video[i % 4][TARGET + Address(<<i, j>>)]
OnBar(i, j) == video[i % 4][Address(<<i, j>>)]

InPlayer(p, q) == <<p[1] - q[1], p[2] - q[2]>> \in AllPixels \ MaskSkips

TypeOK ==
    /\ phase \in {"text", "graphics", "done"}
    /\ show \in (0..EdgeX) \X (0..EdgeY) /\ img3_off \in Int
    /\ DOMAIN build = Buffer \cup Fences
    /\ \A c \in Buffer : build[c].is \in {"old", "floor", "block"}
    /\ painted \subseteq Blocks
    /\ \A i \in Planes : DOMAIN video[i] = Memory
    /\ frame # <<>> => frame[1] \in (SHOW_MIN..EdgeX) \X (SHOW_MIN..EdgeY)
    /\ status \in [len : 0..CHARS, lvl : {0} \cup Levels, ticks : {0} \cup Ticks]

\* Whatever way the window has gone, through moves of the whole picture in the
\* buffer too, every pixel of it is where it is looked for, and current
\* (modex.c:390 to 485, "only data not previously on the screen must be drawn
\* before calling show_screen").
WindowWhole ==
    phase = "graphics" /\ Drawn =>
        \A p \in Window(show) : build[img3_off + Cell(p)] = Pixel(p)

\* Nothing is ever written next to the build buffer: clear_mode_X() never
\* reports a broken fence (modex.c:359 to 372).
FenceKept == phase # "text" => \A c \in Fences : build[c] = Magic

\* What show_screen() puts on the monitor in mode X is the window and the player, each
\* pixel in its place: the four planes fit together at every offset
\* (modex.c:496 to 526).
PictureShown ==
    [][video' # video /\ status' = status /\ phase' = "graphics" =>
        \A i \in 0..SCROLL_X_DIM - 1, j \in 0..SCROLL_Y_DIM - 1 :
            LET p == <<show[1] + i, show[2] + j>>
            IN  OnMonitor(i, j)' = IF InPlayer(p, frame'[2])
                                     THEN [at |-> p, is |-> "player"]
                                   ELSE Pixel(p)]_vars

\* As long as mode X lasts, the bar keeps the text last shown, on its level's
\* colour, whatever is shown above it, with the same margin on both sides, give
\* or take a pixel, and the player and the walls have the colours of that same
\* moment of the game (modex.c:537 to 630). Text mode has its blanks and fonts
\* there (modex.c:1269 to 1280, 1313 to 1317).
BarShown ==
    phase = "graphics" /\ status # NoStatus =>
        /\ \A i \in 0..SCROLL_X_DIM - 1, j \in 0..BAR_DIM - 1 :
               OnBar(i, j) = BarPixel(status, i, j)
        /\ vga.dac[PLAYER_CENTER_COLOR] = PlayerColor(status.ticks)
        /\ vga.dac[WALL_FILL_COLOR] = WallColor(status.lvl)

\* The registers, whose numbers are written out for a window of 182 lines on a
\* monitor of 200, say so: the bar's memory comes after the last line of the
\* window, the image's memory is that of whole lines, apart from the bar's and
\* inside a plane (modex.c:82 to 98, modex.h:49 to 57).
BarBelowWindow ==
    phase = "graphics" =>
        /\ LineCompare(vga) + 1 = LinesPerRow(vga) * (IMAGE_Y_DIM - BAR_LINES)
        /\ DisplayEnd(vga) + 1 = LinesPerRow(vga) * IMAGE_Y_DIM
        /\ Pitch(vga) = IMAGE_X_DIM \div 4
        /\ frame # <<>> =>
             /\ ImageStart(vga) >= Pitch(vga) * BAR_LINES
             /\ ImageStart(vga) + Pitch(vga) * (IMAGE_Y_DIM - BAR_LINES)
                  <= MODE_X_MEM_SIZE

\* In mode X and after it, every register has the value of the mode's table
\* but for those that are set afterwards, and the picture is not blanked:
\* none of the writes was lost or taken for another (modex.c:314 to 335).
ModeProgrammed ==
    LET seq(table, two, four) ==
            vga.seq = [table EXCEPT ![0] = 3, ![2] = two, ![4] = four,
                                    ![1] = WithBit(@, 5, 0)]
    IN  /\ vga.palette
        /\ phase = "graphics" =>
             /\ seq(mode_X_seq, vga.seq[2], 6) /\ vga.seq[2] \in {8, \h0F}
             /\ vga.attr = mode_X_attr /\ vga.graphics = mode_X_graphics
             /\ \A i \in DOMAIN mode_X_CRTC \ {\h0C, \h0D} :
                    vga.crtc[i] = mode_X_CRTC[i]
        /\ phase = "done" =>
             /\ seq(text_seq, 3, 3)
             /\ vga.attr = text_attr /\ vga.graphics = text_graphics
             /\ vga.crtc = text_CRTC
             /\ vga.dac = fill_palette(vga).dac

\* After any sequence of moves of the window the build buffer holds the window
\* in one piece and nothing was written beside it (modex.c:390 to 485).
BuildSound == TypeOK /\ WindowWhole /\ FenceKept

\* What set_mode_X(), set_text_mode_3() and show_screen() leave in the
\* registers is one of the two modes, and the places they name fit together
\* (modex.c:82 to 98, 314 to 335, 1157 to 1290).
VgaSound == ModeProgrammed /\ BarBelowWindow
=============================================================================
