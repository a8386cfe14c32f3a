------------------------------ MODULE MazeGame ------------------------------
(***************************************************************************)
(* A level of the game (mp2/mazegame.c): the player moves through the maze *)
(* pixel by pixel, the view follows, and what changes is drawn again.      *)
(*                                                                         *)
(* The picture in the build buffer is kept by lattice point: for a point   *)
(* in view, the set of pictures that some of its pixels come from.  Lines  *)
(* drawn at an edge of the view and blocks drawn off the lattice add a     *)
(* picture; a whole block replaces them.                                   *)
(***************************************************************************)
EXTENDS Maze

CONSTANTS BLOCK_DIM,      \* BLOCK_X_DIM, BLOCK_Y_DIM: pixels, the same here
          SHOW_MIN,       \* pixels of the boundary that are never shown
          SCROLL_X_DIM, SCROLL_Y_DIM, \* the view
          PAN_BORDER      \* squares to the edge at which the view pans

ASSUME GameAssumption ==
    /\ BLOCK_DIM \in Nat /\ BLOCK_DIM % 2 = 0 /\ BLOCK_DIM > 2
    /\ SHOW_MIN \in 0..BLOCK_DIM - 1 /\ PAN_BORDER \in Nat \ {0}
    /\ SCROLL_X_DIM \in Nat /\ SCROLL_Y_DIM \in Nat
    /\ SCROLL_X_DIM >= BLOCK_DIM * (2 * PAN_BORDER + 1)
    /\ SCROLL_Y_DIM >= BLOCK_DIM * (2 * PAN_BORDER + 1)
    \* MAZE_MIN_X_DIM, MAZE_MIN_Y_DIM
    /\ 2 * BLOCK_DIM * XDim + 2 * BLOCK_DIM >
         SCROLL_X_DIM + BLOCK_DIM - 1 + 2 * SHOW_MIN
    /\ 2 * BLOCK_DIM * YDim + 2 * BLOCK_DIM >
         SCROLL_Y_DIM + BLOCK_DIM - 1 + 2 * SHOW_MIN

VARIABLES
    level,             \* "making", "on" or "won"
    pos, map,          \* <<play_x, play_y>> and <<map_x, map_y>>, in pixels
    dir, next_dir,     \* 0 to 3, or DIR_STOP
    move_cnt,          \* pixels to the next lattice point
    shown,             \* pictures of the points in view
    drawn              \* the player is in the build buffer

gameVars == <<level, pos, map, dir, next_dir, move_cnt, shown, drawn>>
vars == <<mazeVars, gameVars>>

DIR_STOP == 4
Lattice == (0..2 * XDim) \X (0..2 * YDim)
Size == <<(2 * XDim + 1) * BLOCK_DIM, (2 * YDim + 1) * BLOCK_DIM>>
View == <<SCROLL_X_DIM, SCROLL_Y_DIM>>

Around(q) == (q[1] - 1..q[1] + 1) \X (q[2] - 1..q[2] + 1)
Square(xy) == <<xy[1] \div BLOCK_DIM, xy[2] \div BLOCK_DIM>>

\* The lattice points that a rectangle of pixels has some of.
Points(at, w, h) == (at[1] \div BLOCK_DIM..(at[1] + w - 1) \div BLOCK_DIM)
                    \X (at[2] \div BLOCK_DIM..(at[2] + h - 1) \div BLOCK_DIM)

Covered(xy) == Points(xy, BLOCK_DIM, BLOCK_DIM)
Visible(at) == Points(at, View[1], View[2])

TypeOK ==
    /\ MazeTypeOK
    /\ level \in {"making", "on", "won"}
    /\ \A i \in 1..2 : /\ pos[i] \in BLOCK_DIM..Size[i] - 2 * BLOCK_DIM
                       /\ map[i] \in SHOW_MIN..Size[i] - SHOW_MIN - View[i]
    /\ dir \in 0..DIR_STOP /\ next_dir \in 0..DIR_STOP
    /\ move_cnt \in 0..BLOCK_DIM - 1
    /\ level # "making" => /\ DOMAIN shown = Visible(map)
                           /\ \A p \in Visible(map) : shown[p] # {}
    /\ drawn \in BOOLEAN

-----------------------------------------------------------------------------
(* What the functions of a tick change, one after the other: a record of   *)
(* the fruits, the seen cells, the view and the build buffer.              *)

\* The pictures f drawn over the pictures g.
Over(f, g) ==
    [p \in DOMAIN f \cup DOMAIN g |-> IF p \in DOMAIN f THEN f[p] ELSE g[p]]

\* draw_full_block() of lattice points; what is out of view is clipped.
Redrawn(s, points) ==
    [s EXCEPT !.shown =
        Over([p \in points \cap DOMAIN @ |-> {find_block(p, s)}], @)]

InMaze(q) == q[1] \in 0..2 * XDim - 1 /\ q[2] \in 0..2 * YDim - 1

\* Seeded fault: the exit is not drawn when the last fruit is eaten.
Eaten_Fault(s, q) == {q}

\* What eating the fruit at q draws.
Eaten(s, q) == {q} \cup (IF s.n = 0 THEN exit ELSE {})

check_for_fruit(s, q) ==
    IF InMaze(q) /\ Cell(q) \in s.fruits
      THEN LET t == [s EXCEPT !.fruits = @ \ {Cell(q)}, !.n = @ - 1]
           IN  Redrawn(t, Eaten(t, q))
    ELSE s

\* unveil_space() of lattice points: those in the maze not seen before.
unveil_space(s, points) ==
    LET new == {p \in points \cap Lattice : Cell(p) \notin s.reach}
        t == [s EXCEPT !.reach = @ \cup {Cell(p) : p \in new}]
    IN  Redrawn(t, new)

\* unveil_around_player() at a pixel position.
Unveiled(s, xy) ==
    LET q == Square(xy)
    IN  unveil_space(check_for_fruit(s, q),
                     Around(q) \cup {Toward(q, d, 2) : d \in Dirs})

check_for_win(s, q) == InMaze(q) /\ s.n = 0 /\ IsExit(q)

\* The line of pixels that panning brings into view.
Line(at, d) == CASE d = 0 -> Points(at, View[1], 1)
                 [] d = 1 -> Points(<<at[1] + View[1] - 1, at[2]>>, 1, View[2])
                 [] d = 2 -> Points(<<at[1], at[2] + View[2] - 1>>, View[1], 1)
                 [] d = 3 -> Points(at, 1, View[2])

Kept(s, p) == IF p \in DOMAIN s.shown THEN s.shown[p] ELSE {}

\* fill_horiz_buffer() or fill_vert_buffer() of the line.
Panned(s, at, d) ==
    [s EXCEPT !.map = at, !.shown =
        Over([p \in Line(at, d) |-> Kept(s, p) \cup {find_block(p, s)}],
             [p \in Visible(at) |-> Kept(s, p)])]

\* Seeded fault: the view follows to the right and down a square late.
Follows_Fault(s, to, d) ==
    LET i == IF d \in {0, 2} THEN 2 ELSE 1
    IN  IF d \in {0, 3}
          THEN to[i] < s.map[i] + BLOCK_DIM * PAN_BORDER /\ s.map[i] > SHOW_MIN
          ELSE /\ to[i] > s.map[i] + View[i] - BLOCK_DIM * PAN_BORDER
               /\ s.map[i] + View[i] < Size[i] - SHOW_MIN

\* The view pans with a player that is near its edge, to the maze's edge.
Follows(s, to, d) ==
    LET i == IF d \in {0, 2} THEN 2 ELSE 1
    IN  IF d \in {0, 3}
          THEN to[i] < s.map[i] + BLOCK_DIM * PAN_BORDER /\ s.map[i] > SHOW_MIN
          ELSE /\ to[i] > s.map[i] + View[i] - BLOCK_DIM * (PAN_BORDER + 1)
               /\ s.map[i] + View[i] < Size[i] - SHOW_MIN

\* move_up(), move_right(), move_down() and move_left() to a pixel.
Moved(s, to, d) ==
    IF Follows(s, to, d) THEN Panned(s, Toward(s.map, d, 1), d) ELSE s

\* The lattice point behind a player that has moved to a pixel.
Behind(to, d) ==
    CASE d = 0 -> <<Square(to)[1], Square(to)[2] + 1>>
      [] d = 3 -> <<Square(to)[1] + 1, Square(to)[2]>>
      [] OTHER -> Square(to)

\* Where squares are unveiled from after a move: half a block back, for fruit
\* to be rolled over smoothly.
EatsAt(to, d) == IF d \in {0, 3} THEN Toward(to, (d + 2) % 4, BLOCK_DIM \div 2)
                 ELSE to

\* The player's masks leave out the first and the last line of the block, in
\* the direction of motion.
Picture(xy, d) ==
    IF d \in {0, 2} THEN Points(Toward(xy, 2, 1), BLOCK_DIM, BLOCK_DIM - 2)
    ELSE Points(Toward(xy, 1, 1), BLOCK_DIM - 2, BLOCK_DIM)

\* draw_refill_block() of the player.
PlayerDrawn(s, xy, d) ==
    [s EXCEPT !.shown =
        Over([p \in Picture(xy, d) |-> @[p] \cup {"player"}], @)]

\* undraw() of the player: floor over all of its block.
PlayerUndrawn(s, xy) ==
    [s EXCEPT !.shown =
        Over([p \in Covered(xy) |->
                IF Covered(xy) = {p} THEN {"empty"}
                ELSE (@[p] \ {"player"}) \cup {"empty"}], @)]

State == [fruits |-> fruits, n |-> n_fruits, reach |-> reach, map |-> map,
          shown |-> shown]
Store(s) == /\ fruits' = s.fruits /\ n_fruits' = s.n /\ reach' = s.reach
            /\ map' = s.map /\ shown' = s.shown

-----------------------------------------------------------------------------
(* The level.  *)

Start == <<BLOCK_DIM, BLOCK_DIM>>

GameInit ==
    /\ MazeInit
    /\ level = "making" /\ pos = Start /\ map = <<SHOW_MIN, SHOW_MIN>>
    /\ dir = DIR_STOP /\ next_dir = DIR_STOP /\ move_cnt = 0
    /\ shown = <<>> /\ drawn = FALSE

\* prepare_maze_level() draws the view, and the thread the first picture.
Prepare ==
    /\ level = "making" /\ phase = "play" /\ level' = "on"
    /\ LET all == [p \in Visible(map) |-> {find_block(p, State)}]
           s == Unveiled([State EXCEPT !.shown = all], Start)
       IN  Store(Redrawn(s, {Square(Start)}))
    /\ UNCHANGED <<walls, exit, phase, gen,
                   pos, dir, next_dir, move_cnt, drawn>>

\* The keyboard or the Tux thread sets the direction to take next.
Steer(d) ==
    /\ level = "on" /\ next_dir' = d /\ next_dir # d
    /\ UNCHANGED <<mazeVars, level, pos, map, dir, move_cnt, shown, drawn>>

\* Seeded fault: a player that turns back has as far to go as before.
Reversed_Fault(d, next, cnt) ==
    IF d # DIR_STOP /\ next # DIR_STOP /\ next = (d + 2) % 4
      THEN <<next, cnt>> ELSE <<d, cnt>>

\* A player that turns back does so at once, between two squares, too.
Reversed(d, next, cnt) ==
    IF d # DIR_STOP /\ next # DIR_STOP /\ next = (d + 2) % 4
      THEN <<next, IF cnt > 0 THEN BLOCK_DIM - cnt ELSE cnt>>
      ELSE <<d, cnt>>

\* The way from a new square, and how far it is to the next one.  open[] is
\* read at DIR_STOP only while the player has not moved, to no effect.
Chosen(d, next, q) ==
    LET way == IF next \in find_open_directions(q) THEN next ELSE d
    IN  IF way \in find_open_directions(q) THEN <<way, BLOCK_DIM>>
        ELSE <<DIR_STOP, 0>>

\* A tick in which the player is on an open exit ends the level.
Win ==
    /\ level = "on" /\ Reversed(dir, next_dir, move_cnt)[2] = 0
    /\ LET s == Unveiled(State, pos)
       IN  /\ check_for_win(s, Square(pos))
           /\ Store(s)
    /\ level' = "won" /\ dir' = Reversed(dir, next_dir, move_cnt)[1]
    /\ UNCHANGED <<walls, exit, phase, gen, pos, next_dir, move_cnt, drawn>>

\* Another tick: a choice on a new square, then a move of one pixel.
Tick ==
    /\ level = "on"
    /\ LET turned == Reversed(dir, next_dir, move_cnt)
           s == IF turned[2] = 0 THEN Unveiled(State, pos) ELSE State
           go == IF turned[2] = 0 THEN Chosen(turned[1], next_dir, Square(pos))
                 ELSE turned
           to == Toward(pos, go[1], 1)
       IN  /\ ~(turned[2] = 0 /\ check_for_win(s, Square(pos)))
           /\ dir' = go[1]
           /\ IF go[1] = DIR_STOP
                THEN /\ Store(s) /\ move_cnt' = go[2]
                     /\ UNCHANGED <<pos, drawn>>
                ELSE /\ LET t == Redrawn(Moved(s, to, go[1]),
                                        {Behind(to, go[1])})
                            u == Unveiled(t, EatsAt(to, go[1]))
                        IN  Store(PlayerDrawn(u, to, go[1]))
                     /\ pos' = to /\ move_cnt' = go[2] - 1 /\ drawn' = TRUE
    /\ UNCHANGED <<walls, exit, phase, gen, level, next_dir>>

\* After the ticks that one read of the clock has brought, the build buffer is
\* shown and the player taken out of it.
Show ==
    /\ drawn /\ drawn' = FALSE
    /\ Store(PlayerUndrawn(State, pos))
    /\ UNCHANGED <<walls, exit, phase, gen,
                   level, pos, dir, next_dir, move_cnt>>

Next ==
    \/ Making /\ UNCHANGED gameVars
    \/ Prepare \/ Win \/ Tick \/ Show
    \/ \E d \in Dirs : Steer(d)

Spec == GameInit /\ [][Next]_vars

-----------------------------------------------------------------------------
(* Properties.  *)

\* The player is on a path: the square it moves to is open, and it is exactly
\* move_cnt pixels from it, however often it has turned back between two
\* squares (mazegame.c:500 to 549).
OnPath ==
    level = "on" =>
        LET to == IF move_cnt = 0 THEN pos ELSE Toward(pos, dir, move_cnt)
        IN  /\ \A i \in 1..2 : to[i] % BLOCK_DIM = 0
            /\ Square(to) \in InnerPoints /\ Cell(Square(to)) \notin walls
            /\ move_cnt > 0 => dir # DIR_STOP

\* The view keeps PAN_BORDER squares around the player, except at the edges of
\* the maze, and never leaves the maze (mazegame.c:165 to 253).
PlayerFramed ==
    \A i \in 1..2 :
        /\ \/ pos[i] >= map[i] + BLOCK_DIM * PAN_BORDER
           \/ map[i] = SHOW_MIN
        /\ \/ pos[i] + BLOCK_DIM * (PAN_BORDER + 1) <= map[i] + View[i]
           \/ map[i] + View[i] = Size[i] - SHOW_MIN

\* What is in view and not under the player is up to date: fruit that was
\* eaten is gone, the exit has appeared, what was unveiled is out of the mist,
\* a line that the view has moved over continues the picture, and nothing of
\* the player is left behind, however many ticks one read of the clock brings
\* (mazegame.c:559).  Only floor may stay where the player turned back from
\* fruit or from the exit.
ScreenCurrent ==
    level = "on" =>
        \A p \in Visible(map) \ Covered(pos) :
            LET picture == find_block(p, State)
                traces == IF picture \in {"fruit", "exit"} THEN {"empty"}
                          ELSE {}
            IN  /\ picture \in shown[p]
                /\ shown[p] \subseteq {picture} \cup traces

\* The counter is the number of fruits in the maze, and a level is won on the
\* exit with none left (maze.c:619 to 666).
FruitsCounted ==
    /\ n_fruits = Cardinality(fruits)
    /\ level = "won" => /\ fruits = {}
                        /\ \A i \in 1..2 : pos[i] % BLOCK_DIM = 0
                        /\ Square(pos) \in exit

\* The maze stays one that can be played: connected, its marks where the
\* player can get, its fruits counted (maze.c:143 to 400, 619 to 666).
MazeInv == TypeOK /\ Connected /\ MarksAreReachable /\ FruitsCounted
=============================================================================
