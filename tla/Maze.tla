-------------------------------- MODULE Maze --------------------------------
(***************************************************************************)
(* The maze of the game (mp2/maze.c): how it is made, what it holds, and   *)
(* which picture each of its lattice points is drawn with.                 *)
(*                                                                         *)
(* The array of the code is a set of cells for each of its bits.  A cell   *)
(* is an index of the array, so that the last column of a row and the      *)
(* first of the next one are the same cell, as they are in the code.       *)
(***************************************************************************)
EXTENDS Integers, FiniteSets, Sequences

CONSTANTS XDim, YDim,     \* maze_x_dim, maze_y_dim
          StartFruits,    \* fruits placed in a new maze
          ScanBelow,      \* unreached points under which the maze is scanned
          MaxTrials,      \* random picks after which it is scanned
          GOD_MODES       \* the builds: whether all inner walls are removed

ASSUME MazeAssumption ==
    /\ XDim \in Nat \ {0} /\ YDim \in Nat \ {0} /\ XDim * YDim > 1
    /\ StartFruits \in 0..XDim * YDim - 1
    /\ ScanBelow \in Nat \ {0} /\ MaxTrials \in Nat
    /\ GOD_MODES \subseteq BOOLEAN

VARIABLES
    walls, reach,      \* cells with MAZE_WALL, with MAZE_REACH
    fruits, n_fruits,  \* cells with a fruit, and the counter of fruits
    exit,              \* {} or the exit's lattice point
    phase,             \* where make_maze is; "play" after its return
    gen                \* its locals x, y, pref_dir, remaining, trials; and
                       \* the rounds since anything was connected (auxiliary)

mazeVars == <<walls, reach, fruits, n_fruits, exit, phase, gen>>

MAZE_INDEX(a, b) == a + (b + 1) * XDim * 2
Cells == 0..2 * XDim * (2 * YDim + 3)

\* The (odd,odd) points, which are to be connected, and the inner ones.
OddPoints   == {<<2 * i - 1, 2 * j - 1>> : i \in 1..XDim, j \in 1..YDim}
InnerPoints == (1..2 * XDim - 1) \X (1..2 * YDim - 1)

Cell(p) == MAZE_INDEX(p[1], p[2])

\* One lattice step up, right, down and left, by direction 0 to 3.
StepOf == <<<<0, -1>>, <<1, 0>>, <<0, 1>>, <<-1, 0>>>>
Toward(p, dir, n) ==
    <<p[1] + n * StepOf[dir + 1][1], p[2] + n * StepOf[dir + 1][2]>>

Dirs == 0..3

MazeTypeOK ==
    /\ walls \subseteq Cells /\ reach \subseteq Cells /\ fruits \subseteq Cells
    /\ n_fruits \in 0..StartFruits
    /\ exit \in {{}} \cup {{p} : p \in OddPoints}
    /\ phase \in {"start", "worm", "mark", "connect", "joined", "fruit",
                  "exit", "play"}
    /\ gen.x \in 1..2 * XDim /\ gen.y \in 1..2 * YDim
    /\ gen.remaining \in 0..XDim * YDim

-----------------------------------------------------------------------------
(* Making a maze.  *)

MazeInit ==
    /\ walls = Cells /\ reach = {} /\ fruits = {} /\ n_fruits = 0
    /\ exit = {} /\ phase = "start"
    /\ gen = [x |-> 1, y |-> 1, pref |-> 0, remaining |-> XDim * YDim,
              trials |-> 0, idle |-> 0]

\* A worm starts at some point that is still a wall, in some direction.
StartWorm ==
    /\ phase = "start" /\ phase' = "worm"
    /\ \E p \in OddPoints, dir \in Dirs :
         /\ Cell(p) \in walls
         /\ walls' = walls \ {Cell(p)}
         /\ gen' = [gen EXCEPT !.x = p[1], !.y = p[2], !.pref = dir,
                               !.remaining = @ - 1]
    /\ UNCHANGED <<reach, fruits, n_fruits, exit>>

Here == <<gen.x, gen.y>>

\* Every direction that stays in the maze has a positive weight.  The worm
\* ends when it turns back; else it eats its way to the next point.
WormTurn ==
    /\ phase = "worm"
    /\ \E dir \in Dirs :
         /\ Toward(Here, dir, 2) \in OddPoints
         /\ IF (dir - gen.pref + 4) % 4 = 2
              THEN /\ phase' = IF gen.remaining > 0 THEN "start" ELSE "mark"
                   /\ UNCHANGED <<walls, gen>>
              ELSE LET next == Toward(Here, dir, 2)
                   IN  /\ walls' = walls \ {Cell(Toward(Here, dir, 1)),
                                            Cell(next)}
                       /\ gen' = [gen EXCEPT
                                    !.x = next[1], !.y = next[2], !.pref = dir,
                                    !.remaining =
                                       IF Cell(next) \in walls THEN @ - 1
                                       ELSE @]
                       /\ UNCHANGED phase
    /\ UNCHANGED <<reach, fruits, n_fruits, exit>>

\* mark_maze_area(): the breadth-first search, with the queue q of the code.
\* What was queued is marked, so that every point enters the queue once.
Seen(q, marked) == marked \cup {Cell(q[i]) : i \in 1..Len(q)}

\* One direction is explored from the point cur.
Try(q, cur, d, marked) ==
    IF \/ Cell(Toward(cur, d, 1)) \in walls
       \/ Cell(Toward(cur, d, 2)) \in Seen(q, marked)
      THEN q
      ELSE Append(q, Toward(cur, d, 2))

Explored(q, cur, marked) ==
    LET up    == Try(q, cur, 0, marked)
        right == Try(up, cur, 1, marked)
        down  == Try(right, cur, 2, marked)
    IN  Try(down, cur, 3, marked)

\* The queue after n points were taken from it and explored, if there were n.
SearchStep(q, n, marked) ==
    IF n > Len(q) THEN q ELSE Explored(q, q[n], marked)

MarkArea(from, marked) ==
    LET Queue[n \in 0..XDim * YDim] ==
          IF n = 0 THEN <<from>> ELSE SearchStep(Queue[n - 1], n, marked)
        last == Queue[XDim * YDim]
    IN  {last[i] : i \in 1..Len(last)}

MarkFirst ==
    /\ phase = "mark" /\ phase' = "connect"
    /\ LET area == MarkArea(<<1, 1>>, reach)
       IN  /\ reach' = reach \cup {Cell(p) : p \in area}
           /\ gen' = [gen EXCEPT !.trials = 0,
                        !.remaining = XDim * YDim - Cardinality(area)]
    /\ UNCHANGED <<walls, fruits, n_fruits, exit>>

-----------------------------------------------------------------------------
(* Connecting what the worms left apart.  *)

Scanning == gen.remaining < ScanBelow \/ gen.trials + 1 > MaxTrials

\* The count of random picks; it stops at MaxTrials, where all scan.
Trials == IF Scanning THEN gen.trials ELSE gen.trials + 1

\* Seeded fault: the scan wraps in the row only.
ScanNext_Fault ==
    IF gen.x + 2 <= 2 * XDim THEN <<gen.x + 2, gen.y>>
    ELSE <<gen.x + 2 - 2 * XDim, gen.y>>

\* The next point of the scan, row by row and around.
ScanNext ==
    IF gen.x + 2 <= 2 * XDim THEN <<gen.x + 2, gen.y>>
    ELSE <<gen.x + 2 - 2 * XDim,
           IF gen.y + 2 <= 2 * YDim THEN gen.y + 2 ELSE gen.y + 2 - 2 * YDim>>

\* The order in which neighbours two steps off are tried: up, left, right, down.
Tried == <<0, 3, 1, 2>>

\* Seeded fault: the neighbour need not be reached.
Usable_Fault(p) == {i \in 1..4 : Toward(p, Tried[i], 2) \in OddPoints}

\* Which of them are reached.
Usable(p) == {i \in 1..4 : /\ Toward(p, Tried[i], 2) \in OddPoints
                           /\ Cell(Toward(p, Tried[i], 2)) \in reach}

\* The direction of the first of them.
FirstUsable(p) == Tried[CHOOSE i \in Usable(p) : \A j \in Usable(p) : i <= j]

\* The point is joined to a reached neighbour, and all behind it marked.  The
\* wall that goes is that point's own, so the search may start from it.
Join(p) ==
    IF Usable(p) = {}
      THEN /\ gen' = [gen EXCEPT !.x = p[1], !.y = p[2], !.trials = Trials,
                                !.idle = @ + 1]
           /\ UNCHANGED <<walls, reach>>
      ELSE /\ walls' = walls \ {Cell(Toward(p, FirstUsable(p), 1))}
           /\ LET area == MarkArea(p, reach)
              IN  /\ reach' = reach \cup {Cell(q) : q \in area}
                  /\ gen' = [gen EXCEPT !.x = p[1], !.y = p[2],
                               !.remaining = @ - Cardinality(area),
                               !.trials = Trials, !.idle = 0]

\* One round of the loop: the next point of the scan, or one of those not
\* reached at random; a scanned point that is reached already is skipped.
Connect ==
    /\ phase = "connect"
    /\ IF Scanning
         THEN IF Cell(ScanNext) \in reach
                THEN /\ gen' = [gen EXCEPT
                                  !.x = ScanNext[1], !.y = ScanNext[2],
                                  !.trials = Trials, !.idle = @ + 1]
                     /\ UNCHANGED <<walls, reach>>
                ELSE Join(ScanNext)
         ELSE \E p \in OddPoints : Cell(p) \notin reach /\ Join(p)
    /\ phase' = IF gen'.remaining > 0 THEN "connect" ELSE "joined"
    /\ UNCHANGED <<fruits, n_fruits, exit>>

\* The markers go, and with GOD_MODE the inner walls.
ClearMarks ==
    /\ phase = "joined" /\ phase' = "fruit"
    /\ reach' = reach \ {Cell(p) : p \in OddPoints}
    /\ \E god \in GOD_MODES :
         walls' = IF god THEN walls \ {Cell(p) : p \in InnerPoints} ELSE walls
    /\ gen' = [gen EXCEPT !.x = 1, !.y = 1, !.pref = 0, !.trials = 0,
                          !.idle = 0]
    /\ UNCHANGED <<fruits, n_fruits, exit>>

AddFruit ==
    /\ phase = "fruit" /\ n_fruits < StartFruits
    /\ \E p \in OddPoints :
         /\ Cell(p) \notin fruits
         /\ fruits' = fruits \cup {Cell(p)}
    /\ n_fruits' = n_fruits + 1
    /\ UNCHANGED <<walls, reach, exit, phase, gen>>

PlaceExit ==
    /\ phase = "fruit" /\ n_fruits = StartFruits
    /\ phase' = "play"
    /\ \E p \in OddPoints : Cell(p) \notin fruits /\ exit' = {p}
    /\ UNCHANGED <<walls, reach, fruits, n_fruits, gen>>

Making == \/ StartWorm \/ WormTurn \/ MarkFirst \/ Connect \/ ClearMarks
          \/ AddFruit \/ PlaceExit

-----------------------------------------------------------------------------
(* What a lattice point looks like.  *)

IsExit(p) == \E e \in exit : Cell(e) = Cell(p)

\* find_block(), but for the walls' shapes and the kinds of fruit.  The maze as
\* the player has changed it is m.
find_block(p, m) ==
    IF m.n = 0 /\ IsExit(p) THEN "exit"
    ELSE IF Cell(p) \notin m.reach
      THEN IF Cell(p) \in m.fruits THEN "bump" ELSE "mist"
    ELSE IF Cell(p) \in m.fruits THEN "fruit"
    ELSE IF Cell(p) \in walls THEN "wall" ELSE "empty"

find_open_directions(p) ==
    {d \in Dirs : Cell(Toward(p, d, 1)) \notin walls}

-----------------------------------------------------------------------------
(* Properties of the making.  *)

Link(p, q) == \E d \in Dirs : /\ q = Toward(p, d, 2)
                              /\ Cell(Toward(p, d, 1)) \notin walls

\* No proper part of T is closed.
Joined(T) == \A S \in (SUBSET T) \ {{}, T} : \E p \in S, q \in T \ S : Link(p, q)

\* Every point of a finished maze can be reached from every other
\* (maze.c:195 to 207).  It is said of the maze as connected, before GOD_MODE
\* takes the walls away.
Connected == phase = "joined" => Joined(OddPoints)

\* While it is connected, the markers are exactly on what can be reached from
\* (1,1), and the count is of the points that cannot.
MarksAreReachable ==
    phase = "connect" =>
        LET marked == {p \in OddPoints : Cell(p) \in reach}
        IN  /\ <<1, 1>> \in marked /\ Joined(marked)
            /\ \A p \in marked, q \in OddPoints \ marked : ~Link(p, q)
            /\ gen.remaining = Cardinality(OddPoints \ marked)

\* The search for walls to knock down gets on: after the random picks, one
\* scan of the maze at most passes between two walls (maze.c:338 to 381).
ConnectGetsOn ==
    phase = "connect" => gen.idle <= MaxTrials + XDim * YDim
=============================================================================
