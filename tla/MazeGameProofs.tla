--------------------------- MODULE MazeGameProofs ---------------------------
(***************************************************************************)
(* The maze and the level, for mazes of any size, any choice of the        *)
(* generator, blocks and views of any number of pixels, and whenever the   *)
(* directions come (maze.c, mazegame.c): the player stays on the paths,    *)
(* the view follows it, the search marks what can be reached, a finished   *)
(* maze is connected, and the level stays one that can be played.          *)
(***************************************************************************)
EXTENDS MazeGame, FiniteSetTheorems, WellFoundedInduction, TLAPS

-----------------------------------------------------------------------------
(* The inductive invariant.  *)

\* The boundary of the lattice.
Edge == {p \in Lattice : p[1] \in {0, 2 * XDim} \/ p[2] \in {0, 2 * YDim}}

\* The first pixel of a lattice point.
Corner(q) == <<q[1] * BLOCK_DIM, q[2] * BLOCK_DIM>>

\* The points that no worm has been at.
Uneaten == {p \in OddPoints : Cell(p) \in walls}

OpenSquare(q) == q \in InnerPoints /\ Cell(q) \notin walls

GenFields == {"x", "y", "pref", "remaining", "trials", "idle"}

\* The generator stands on an (odd,odd) point, and counts the points that the
\* worms have left, or more.
GenInv ==
    /\ phase \in {"start", "worm", "mark", "connect", "joined", "fruit",
                  "exit", "play"}
    /\ DOMAIN gen = GenFields
    /\ Here \in OddPoints
    /\ phase \in {"start", "worm"} =>
         gen.remaining \in Int /\ Cardinality(Uneaten) <= gen.remaining

\* The boundary is never broken, and the worms have been at (1,1).
WallsInv ==
    /\ \A p \in Edge : Cell(p) \in walls
    /\ phase \notin {"start", "worm"} => OpenSquare(<<1, 1>>)

\* The player is move_cnt pixels from an open square; if it is not on it, the
\* square behind is open, too.
Moving(q) ==
    \/ move_cnt = 0 /\ pos = Corner(q)
    \/ /\ move_cnt \in 1..BLOCK_DIM - 1 /\ dir \in Dirs
       /\ OpenSquare(Toward(q, (dir + 2) % 4, 1))
       /\ pos = Toward(Corner(q), (dir + 2) % 4, move_cnt)

MotionInv ==
    /\ level \in {"making", "on", "won"}
    /\ level # "making" => phase = "play"
    /\ level = "making" => pos = Start /\ move_cnt = 0
    /\ dir \in 0..DIR_STOP /\ next_dir \in 0..DIR_STOP
    /\ level = "on" => \E q \in InnerPoints : OpenSquare(q) /\ Moving(q)

Inv == GenInv /\ WallsInv /\ MotionInv

-----------------------------------------------------------------------------
(* Arithmetic.  *)

\* A multiple of w that is less than w away from 0 is 0.
LEMMA SmallMultiple ==
    ASSUME NEW w \in Nat, NEW k \in Int, k * w < w, k * w > 0 - w
    PROVE  k = 0
<1>1. CASE k >= 1
  <2>1. k - 1 >= 0 /\ k - 1 \in Nat
    BY <1>1
  <2>2. (k - 1) * w >= 0
    BY <2>1
  <2>3. (k - 1) * w = k * w - w
    OBVIOUS
  <2> QED BY <2>2, <2>3
<1>2. CASE k =< -1
  <2>1. 0 - k - 1 \in Nat
    BY <1>2
  <2>2. (0 - k - 1) * w >= 0
    BY <2>1
  <2>3. (0 - k - 1) * w = 0 - k * w - w
    OBVIOUS
  <2> QED BY <2>2, <2>3
<1> QED BY <1>1, <1>2

\* The cells of the boundary are those of no inner point, although a row's
\* last cell is the next row's first.
LEMMA CellsApart ==
    ASSUME NEW p \in InnerPoints, NEW q \in Edge
    PROVE  Cell(p) # Cell(q)
<1> SUFFICES ASSUME Cell(p) = Cell(q) PROVE FALSE
  OBVIOUS
<1> DEFINE w == XDim * 2
<1>1. /\ XDim \in Nat /\ YDim \in Nat /\ w \in Nat /\ w = 2 * XDim /\ w > 0
  BY MazeAssumption
<1>2. /\ p[1] \in 1..w - 1 /\ p[2] \in 1..2 * YDim - 1
      /\ q[1] \in 0..w /\ q[2] \in 0..2 * YDim
      /\ q[1] \in {0, w} \/ q[2] \in {0, 2 * YDim}
  BY <1>1 DEF InnerPoints, Edge, Lattice
<1>3. p[1] + (p[2] + 1) * XDim * 2 = q[1] + (q[2] + 1) * XDim * 2
  BY DEF Cell, MAZE_INDEX
<1> DEFINE a == p[1]  b == p[2]  c == q[1]  d == q[2]  k == d - b
<1>4. /\ a \in Int /\ b \in Int /\ c \in Int /\ d \in Int /\ k \in Int
  BY <1>1, <1>2
<1>5. (b + 1) * XDim * 2 = (b + 1) * w /\ (d + 1) * XDim * 2 = (d + 1) * w
  BY <1>1, <1>4
<1>6. (d + 1) * w - (b + 1) * w = k * w
  <2> HIDE DEF w, a, b, c
  <2> QED BY <1>1, <1>4
<1>7. k * w = a - c
  <2>1. (b + 1) * w \in Int /\ (d + 1) * w \in Int
    BY <1>1, <1>4
  <2> QED BY <1>1, <1>3, <1>4, <1>5, <1>6, <2>1
<1>8. k = 0
  <2>1. a - c < w /\ a - c > 0 - w
    BY <1>1, <1>2
  <2>2. k * w < w /\ k * w > 0 - w
    BY <1>7, <2>1
  <2> HIDE DEF k, w
  <2> QED BY <1>1, <1>4, <2>2, SmallMultiple
<1>9. a = c /\ b = d
  <2>1. 0 * w = 0
    BY <1>1
  <2> QED BY <1>4, <1>7, <1>8, <2>1
<1> QED BY <1>1, <1>2, <1>9

\* One step from an inner point that is open leads to an inner point again.
LEMMA OpenIsInner ==
    ASSUME \A p \in Edge : Cell(p) \in walls,
           NEW q \in InnerPoints, NEW d \in Dirs,
           Cell(Toward(q, d, 1)) \notin walls
    PROVE  OpenSquare(Toward(q, d, 1))
<1> DEFINE t == Toward(q, d, 1)
<1>1. XDim \in Nat \ {0} /\ YDim \in Nat \ {0}
  BY MazeAssumption
<1>2. q[1] \in 1..2 * XDim - 1 /\ q[2] \in 1..2 * YDim - 1
  BY DEF InnerPoints
<1>3. t \in {<<q[1], q[2] - 1>>, <<q[1] + 1, q[2]>>, <<q[1], q[2] + 1>>,
             <<q[1] - 1, q[2]>>}
  BY <1>1, <1>2 DEF Toward, StepOf, Dirs
<1>4. t \in Lattice
  BY <1>1, <1>2, <1>3 DEF Lattice
<1>5. t \notin Edge
  OBVIOUS
<1>6. t \in InnerPoints
  BY <1>1, <1>4, <1>5 DEF Edge, Lattice, InnerPoints
<1> QED BY <1>6 DEF OpenSquare

\* From one (odd,odd) point to the next there is an inner point.
LEMMA OddSteps ==
    ASSUME NEW p \in OddPoints, NEW d \in Dirs, Toward(p, d, 2) \in OddPoints
    PROVE  p \in InnerPoints /\ Toward(p, d, 1) \in InnerPoints
<1>1. XDim \in Nat \ {0} /\ YDim \in Nat \ {0}
  BY MazeAssumption
<1>2. p[1] \in 1..2 * XDim - 1 /\ p[2] \in 1..2 * YDim - 1 /\ p = <<p[1], p[2]>>
  BY <1>1 DEF OddPoints
<1>3. /\ Toward(p, d, 2)[1] \in 1..2 * XDim - 1
      /\ Toward(p, d, 2)[2] \in 1..2 * YDim - 1
  BY <1>1 DEF OddPoints
<1>4. d = 0 \/ d = 1 \/ d = 2 \/ d = 3
  BY DEF Dirs
<1>5. /\ d = 0 => Toward(p, d, 1) = <<p[1], p[2] - 1>>
                  /\ Toward(p, d, 2) = <<p[1], p[2] - 2>>
      /\ d = 1 => Toward(p, d, 1) = <<p[1] + 1, p[2]>>
                  /\ Toward(p, d, 2) = <<p[1] + 2, p[2]>>
      /\ d = 2 => Toward(p, d, 1) = <<p[1], p[2] + 1>>
                  /\ Toward(p, d, 2) = <<p[1], p[2] + 2>>
      /\ d = 3 => Toward(p, d, 1) = <<p[1] - 1, p[2]>>
                  /\ Toward(p, d, 2) = <<p[1] - 2, p[2]>>
  BY <1>1, <1>2 DEF Toward, StepOf
<1>6. Toward(p, d, 1) \in (1..2 * XDim - 1) \X (1..2 * YDim - 1)
  BY <1>1, <1>2, <1>3, <1>4, <1>5
<1> QED BY <1>2, <1>6 DEF InnerPoints

\* A corner belongs to its lattice point.
LEMMA CornersParts ==
    ASSUME NEW q \in Nat
    PROVE  (q * BLOCK_DIM) \div BLOCK_DIM = q /\ (q * BLOCK_DIM) % BLOCK_DIM = 0
<1> DEFINE b == BLOCK_DIM
           o == q * b
           d == o \div b
<1>1. b \in Nat \ {0} /\ o \in Nat
  BY GameAssumption
<1>2. d \in Nat /\ o % b \in 0..b - 1 /\ o = d * b + (o % b)
  BY <1>1
<1>3. (q - d) * b = q * b - d * b
  <2> HIDE DEF b, d
  <2> QED BY <1>1, <1>2
<1>4. d * b \in Int
  BY <1>1, <1>2
<1>5. (q - d) * b = o % b
  BY <1>1, <1>2, <1>3, <1>4
<1>6. q - d = 0
  <2>1. (q - d) * b < b /\ (q - d) * b > 0 - b
    BY <1>1, <1>2, <1>5
  <2>2. q - d \in Int
    BY <1>2
  <2> HIDE DEF b, d
  <2> QED BY <1>1, <2>1, <2>2, SmallMultiple
<1>7. d = q
  BY <1>2, <1>6
<1>8. o % b = 0
  <2>1. 0 * b = 0
    BY <1>1
  <2> QED BY <1>5, <1>6, <2>1
<1> QED BY <1>7, <1>8

LEMMA CornersSquare ==
    ASSUME NEW q \in InnerPoints
    PROVE  /\ Square(Corner(q)) = q
           /\ \A i \in 1..2 : Corner(q)[i] % BLOCK_DIM = 0
<1>1. q[1] \in Nat /\ q[2] \in Nat /\ q = <<q[1], q[2]>>
  BY MazeAssumption DEF InnerPoints
<1>2. \A i \in 1..2 : Corner(q)[i] = q[i] * BLOCK_DIM
  BY DEF Corner
<1> QED BY <1>1, <1>2, CornersParts DEF Square

-----------------------------------------------------------------------------
(* Making the maze.  *)

LEMMA OddInner == OddPoints \subseteq InnerPoints /\ <<1, 1>> \in OddPoints
<1>1. XDim \in Nat \ {0} /\ YDim \in Nat \ {0}
  BY MazeAssumption
<1>2. \A i \in 1..XDim, j \in 1..YDim : <<2 * i - 1, 2 * j - 1>> \in InnerPoints
  BY <1>1 DEF InnerPoints
<1>3. 1 \in 1..XDim /\ 1 \in 1..YDim /\ <<2 * 1 - 1, 2 * 1 - 1>> = <<1, 1>>
  BY <1>1
<1> QED BY <1>2, <1>3 DEF OddPoints

\* There are no more (odd,odd) points than the generator counts.
LEMMA OddPointsCounted ==
    IsFiniteSet(OddPoints) /\ Cardinality(OddPoints) <= XDim * YDim
<1> DEFINE S == (1..XDim) \X (1..YDim)
           f == [p \in S |-> <<2 * p[1] - 1, 2 * p[2] - 1>>]
<1>1. XDim \in Nat \ {0} /\ YDim \in Nat \ {0}
  BY MazeAssumption
<1>2. /\ IsFiniteSet(1..XDim) /\ Cardinality(1..XDim) = XDim
      /\ IsFiniteSet(1..YDim) /\ Cardinality(1..YDim) = YDim
  BY <1>1, FS_Interval
<1>3. IsFiniteSet(S) /\ Cardinality(S) = XDim * YDim
  <2>1. /\ IsFiniteSet((1..XDim) \X (1..YDim))
        /\ Cardinality((1..XDim) \X (1..YDim))
             = Cardinality(1..XDim) * Cardinality(1..YDim)
    BY <1>2, FS_Product, Zenon
  <2> QED BY <1>2, <2>1, Zenon
<1>4. f \in Surjection(S, OddPoints)
  <2>1. \A p \in S : f[p] \in OddPoints
    BY DEF OddPoints
  <2>2. ASSUME NEW o \in OddPoints PROVE \E p \in S : f[p] = o
    <3>1. PICK i \in 1..XDim, j \in 1..YDim : o = <<2 * i - 1, 2 * j - 1>>
      BY DEF OddPoints
    <3>2. <<i, j>> \in S /\ f[<<i, j>>] = o
      BY <3>1
    <3> QED BY <3>2
  <2>3. f \in [S -> OddPoints]
    BY <2>1
  <2> QED BY <2>2, <2>3 DEF Surjection
<1> HIDE DEF f, S
<1> QED BY <1>3, <1>4, FS_Surjection

\* Uneaten points are finitely many, and fewer when one of them is eaten.
LEMMA Eating ==
    ASSUME walls' \subseteq walls
    PROVE  /\ IsFiniteSet(Uneaten) /\ Cardinality(Uneaten) \in Nat
           /\ Cardinality(Uneaten') \in Nat
           /\ Cardinality(Uneaten') <= Cardinality(Uneaten)
           /\ \A p \in Uneaten : Cell(p) \notin walls' =>
                Cardinality(Uneaten') <= Cardinality(Uneaten) - 1
<1>1. Uneaten \in SUBSET OddPoints /\ Uneaten' \in SUBSET Uneaten
  BY DEF Uneaten, OddPoints, Cell, MAZE_INDEX
<1>2. IsFiniteSet(Uneaten)
  BY <1>1, OddPointsCounted, FS_Subset
<1>3. IsFiniteSet(Uneaten') /\ Cardinality(Uneaten') <= Cardinality(Uneaten)
  BY <1>1, <1>2, FS_Subset
<1>4. ASSUME NEW p \in Uneaten, Cell(p) \notin walls'
      PROVE  Cardinality(Uneaten') <= Cardinality(Uneaten) - 1
  <2>1. Uneaten' \in SUBSET (Uneaten \ {p})
    BY <1>1, <1>4 DEF Uneaten, OddPoints, Cell, MAZE_INDEX
  <2>2. /\ IsFiniteSet(Uneaten \ {p})
        /\ Cardinality(Uneaten \ {p}) = Cardinality(Uneaten) - 1
    BY <1>2, FS_RemoveElement
  <2> QED BY <2>1, <2>2, FS_Subset
<1>5. Cardinality(Uneaten) \in Nat /\ Cardinality(Uneaten') \in Nat
  BY <1>2, <1>3, FS_CardinalityType
<1> QED BY <1>2, <1>3, <1>4, <1>5

\* Taking walls of inner points away keeps the boundary.
LEMMA EdgeKept ==
    ASSUME WallsInv, NEW Q \in SUBSET InnerPoints,
           walls' = walls \ {Cell(p) : p \in Q}
    PROVE  /\ \A p \in Edge : Cell(p) \in walls'
           /\ walls' \subseteq walls
<1>1. \A p \in Edge, q \in Q : Cell(q) # Cell(p)
  BY CellsApart
<1> QED BY <1>1 DEF WallsInv

LEMMA MakingWalls ==
    ASSUME WallsInv, NEW Q \in SUBSET InnerPoints,
           walls' = walls \ {Cell(p) : p \in Q},
           phase \notin {"start", "worm"} \/ phase' \in {"start", "worm"}
    PROVE  WallsInv'
<1>1. /\ \A p \in Edge : Cell(p) \in walls'
      /\ walls' \subseteq walls
  BY EdgeKept
<1>2. /\ \A p \in Edge : Cell(p)' = Cell(p) /\ Edge' = Edge
      /\ Cell(<<1, 1>>)' = Cell(<<1, 1>>) /\ InnerPoints' = InnerPoints
  BY DEF Edge, Lattice, Cell, MAZE_INDEX, InnerPoints
<1> QED BY <1>1, <1>2 DEF WallsInv, OpenSquare

\* The lattice lies in the array.
LEMMA LatticeCells ==
    ASSUME NEW p \in Lattice
    PROVE  Cell(p) \in Cells
<1> DEFINE w == XDim * 2
           k == 2 * YDim - p[2]
<1>1. XDim \in Nat /\ YDim \in Nat /\ w \in Nat /\ w = 2 * XDim
  BY MazeAssumption
<1>2. p[1] \in 0..w /\ p[2] \in 0..2 * YDim /\ k \in Nat
  BY <1>1 DEF Lattice
<1>3. /\ (p[2] + 1) * XDim * 2 = (p[2] + 1) * w
      /\ 2 * XDim * (2 * YDim + 3) = (2 * YDim + 3) * w
  BY <1>1, <1>2
<1>4. (2 * YDim + 3) * w = (p[2] + 1) * w + k * w + 2 * w
  <2>1. 2 * YDim + 3 = (p[2] + 1) + k + 2
    BY <1>1, <1>2
  <2>2. p[2] + 1 \in Int /\ k \in Int /\ w \in Int
    BY <1>1, <1>2
  <2>3. ((p[2] + 1) + k + 2) * w = (p[2] + 1) * w + k * w + 2 * w
    <3> HIDE DEF k, w
    <3> QED BY <2>2
  <2> QED BY <2>1, <2>3
<1>5. k * w \in Nat /\ (p[2] + 1) * w \in Nat
  BY <1>1, <1>2
<1>6. Cell(p) = p[1] + (p[2] + 1) * w
  BY <1>3 DEF Cell, MAZE_INDEX
<1>7. /\ p[1] + (p[2] + 1) * w >= 0
      /\ p[1] + (p[2] + 1) * w <= (2 * YDim + 3) * w
      /\ p[1] + (p[2] + 1) * w \in Int /\ (2 * YDim + 3) * w \in Int
  <2>1. 2 * w >= w /\ 2 * w \in Nat
    BY <1>1
  <2> HIDE DEF w, k
  <2> QED BY <1>1, <1>2, <1>4, <1>5, <2>1
<1> QED BY <1>3, <1>6, <1>7 DEF Cells

\* At the beginning nothing is eaten.
LEMMA InitInv == GameInit => Inv
<1> SUFFICES ASSUME GameInit PROVE Inv
  OBVIOUS
<1> USE DEF GameInit, MazeInit
<1>1. GenInv
  <2>1. Uneaten \in SUBSET OddPoints
    BY DEF Uneaten
  <2>2. Cardinality(Uneaten) <= Cardinality(OddPoints)
    BY <2>1, OddPointsCounted, FS_Subset
  <2>3. /\ Cardinality(Uneaten) \in Nat /\ Cardinality(OddPoints) \in Nat
        /\ XDim * YDim \in Int
    BY <2>1, OddPointsCounted, FS_Subset, FS_CardinalityType, MazeAssumption
  <2>4. Cardinality(Uneaten) <= XDim * YDim
    BY <2>2, <2>3, OddPointsCounted
  <2>5. Here \in OddPoints
    BY OddInner DEF Here
  <2> QED BY <2>3, <2>4, <2>5 DEF GenInv, GenFields
<1>2. WallsInv
  BY LatticeCells DEF WallsInv, Edge
<1>3. MotionInv
  BY DEF MotionInv, DIR_STOP
<1> QED BY <1>1, <1>2, <1>3 DEF Inv

\* The game waits while the maze is made.
LEMMA MakingMotion ==
    ASSUME MotionInv, phase # "play", UNCHANGED gameVars
    PROVE  MotionInv'
BY DEF MotionInv, gameVars

LEMMA StartWormInv ==
    ASSUME Inv, StartWorm
    PROVE  GenInv' /\ WallsInv'
<1>1. PICK p \in OddPoints, d \in Dirs :
        /\ Cell(p) \in walls
        /\ walls' = walls \ {Cell(p)}
        /\ gen' = [gen EXCEPT !.x = p[1], !.y = p[2], !.pref = d,
                              !.remaining = @ - 1]
  BY DEF StartWorm
<1>2. phase = "start" /\ phase' = "worm"
  BY DEF StartWorm
<1>3. Cardinality(Uneaten') <= Cardinality(Uneaten) - 1
      /\ Cardinality(Uneaten') \in Nat /\ Cardinality(Uneaten) \in Nat
  <2>1. p \in Uneaten /\ Cell(p) \notin walls' /\ walls' \subseteq walls
    BY <1>1 DEF Uneaten
  <2> QED BY <2>1, Eating
<1>4. GenInv'
  <2>1. /\ DOMAIN gen' = GenFields /\ gen'.x = p[1] /\ gen'.y = p[2]
        /\ gen'.remaining = gen.remaining - 1
    BY <1>1 DEF Inv, GenInv, GenFields
  <2>2. Here' = p
    BY <2>1 DEF Here, OddPoints
  <2>3. gen.remaining \in Int /\ Cardinality(Uneaten) <= gen.remaining
    BY <1>2 DEF Inv, GenInv
  <2>4. gen'.remaining \in Int /\ Cardinality(Uneaten') <= gen'.remaining
    BY <1>3, <2>1, <2>3
  <2> QED BY <1>2, <2>1, <2>2, <2>4 DEF GenInv, GenFields, OddPoints
<1>5. WallsInv'
  <2>1. walls' = walls \ {Cell(q) : q \in {p}}
    BY <1>1
  <2>2. {p} \in SUBSET InnerPoints
    BY OddInner
  <2> QED BY <1>2, <2>1, <2>2, MakingWalls DEF Inv
<1> QED BY <1>4, <1>5

LEMMA WormTurnInv ==
    ASSUME Inv, WormTurn
    PROVE  GenInv' /\ WallsInv'
<1>1. PICK d \in Dirs :
        /\ Toward(Here, d, 2) \in OddPoints
        /\ IF (d - gen.pref + 4) % 4 = 2
             THEN /\ phase' = IF gen.remaining > 0 THEN "start" ELSE "mark"
                  /\ UNCHANGED <<walls, gen>>
             ELSE LET next == Toward(Here, d, 2)
                  IN  /\ walls' = walls \ {Cell(Toward(Here, d, 1)), Cell(next)}
                      /\ gen' = [gen EXCEPT
                                   !.x = next[1], !.y = next[2], !.pref = d,
                                   !.remaining =
                                      IF Cell(next) \in walls THEN @ - 1
                                      ELSE @]
                      /\ UNCHANGED phase
  BY DEF WormTurn
<1>2. /\ phase = "worm" /\ Here \in OddPoints /\ DOMAIN gen = GenFields
      /\ gen.remaining \in Int /\ Cardinality(Uneaten) <= gen.remaining
      /\ WallsInv
  BY DEF WormTurn, Inv, GenInv
<1>3. CASE UNCHANGED <<walls, gen>>
           /\ phase' = IF gen.remaining > 0 THEN "start" ELSE "mark"
  <2>1. Uneaten' = Uneaten /\ Here' = Here
    BY <1>3 DEF Uneaten, OddPoints, Cell, MAZE_INDEX, Here
  <2>2. GenInv'
    BY <1>2, <1>3, <2>1 DEF GenInv, OddPoints
  <2>3. CASE gen.remaining > 0
    <3>1. walls' = walls \ {Cell(q) : q \in {}}
      BY <1>3
    <3> QED BY <1>2, <1>3, <2>2, <2>3, <3>1, MakingWalls
  <2>4. CASE ~(gen.remaining > 0)
    <3>1. IsFiniteSet(Uneaten) /\ Cardinality(Uneaten) \in Nat
      <4>1. walls' \subseteq walls
        BY <1>3
      <4> QED BY <4>1, Eating
    <3>2. Cardinality(Uneaten) = 0
      BY <1>2, <2>4, <3>1
    <3>3. Uneaten = {}
      BY <3>1, <3>2, FS_EmptySet
    <3>4. OpenSquare(<<1, 1>>)
      BY <3>3, OddInner DEF Uneaten, OpenSquare
    <3>5. OpenSquare(<<1, 1>>)'
      BY <1>3, <3>4 DEF OpenSquare, InnerPoints, Cell, MAZE_INDEX
    <3> QED BY <1>2, <1>3, <2>2, <3>5
              DEF WallsInv, Edge, Lattice, Cell, MAZE_INDEX
  <2> QED BY <2>3, <2>4
<1>4. CASE ~((d - gen.pref + 4) % 4 = 2)
  <2> DEFINE next == Toward(Here, d, 2)
  <2>1. /\ walls' = walls \ {Cell(Toward(Here, d, 1)), Cell(next)}
        /\ gen' = [gen EXCEPT !.x = next[1], !.y = next[2], !.pref = d,
                              !.remaining = IF Cell(next) \in walls THEN @ - 1
                                            ELSE @]
        /\ phase' = phase
    BY <1>1, <1>4
  <2>2. next \in OddPoints
    BY <1>1
  <2>3. /\ DOMAIN gen' = GenFields /\ gen'.x = next[1] /\ gen'.y = next[2]
        /\ gen'.remaining = IF Cell(next) \in walls THEN gen.remaining - 1
                            ELSE gen.remaining
    <3> HIDE DEF next
    <3> QED BY <1>2, <2>1 DEF GenFields
  <2>4. Here' = next
    <3> HIDE DEF next
    <3> QED BY <2>2, <2>3 DEF Here, OddPoints
  <2>5. /\ Cardinality(Uneaten') \in Nat /\ Cardinality(Uneaten) \in Nat
        /\ Cardinality(Uneaten') <= Cardinality(Uneaten)
        /\ Cell(next) \in walls =>
             Cardinality(Uneaten') <= Cardinality(Uneaten) - 1
    <3>1. walls' \subseteq walls /\ Cell(next) \notin walls'
      BY <2>1
    <3>2. Cell(next) \in walls => next \in Uneaten
      BY <2>2 DEF Uneaten
    <3> HIDE DEF next
    <3> QED BY <3>1, <3>2, Eating
  <2>6. gen'.remaining \in Int /\ Cardinality(Uneaten') <= gen'.remaining
    <3> HIDE DEF next
    <3> QED BY <1>2, <2>3, <2>5
  <2>7. GenInv'
    <3> HIDE DEF next
    <3> QED BY <1>2, <2>1, <2>2, <2>3, <2>4, <2>6 DEF GenInv, GenFields, OddPoints
  <2>8. WallsInv'
    <3>1. {Toward(Here, d, 1), next} \in SUBSET InnerPoints
      BY <1>1, <1>2, OddSteps, OddInner
    <3>2. walls' = walls \ {Cell(q) : q \in {Toward(Here, d, 1), next}}
      BY <2>1
    <3> HIDE DEF next
    <3> QED BY <1>2, <2>1, <3>1, <3>2, MakingWalls
  <2> QED BY <2>7, <2>8
<1> QED BY <1>1, <1>3, <1>4

\* The steps that break no wall and leave the generator where it is.
LEMMA SameWalls ==
    ASSUME Inv, UNCHANGED walls, phase \notin {"start", "worm"},
           phase' \in {"connect", "joined", "fruit", "exit", "play"},
           DOMAIN gen' = GenFields, gen'.x = gen.x, gen'.y = gen.y
    PROVE  GenInv' /\ WallsInv'
<1>1. Here' = Here /\ Here \in OddPoints /\ OddPoints' = OddPoints
  BY DEF Here, Inv, GenInv, OddPoints
<1>2. GenInv'
  BY <1>1 DEF GenInv, GenFields
<1>3. WallsInv'
  <2>1. walls' = walls \ {Cell(q) : q \in {}}
    OBVIOUS
  <2> QED BY <2>1, MakingWalls DEF Inv
<1> QED BY <1>2, <1>3

LEMMA MarkFirstInv ==
    ASSUME Inv, MarkFirst
    PROVE  GenInv' /\ WallsInv'
<1> DEFINE n == XDim * YDim - Cardinality(MarkArea(<<1, 1>>, reach))
<1>1. /\ phase = "mark" /\ phase' = "connect" /\ UNCHANGED walls
      /\ gen' = [gen EXCEPT !.trials = 0, !.remaining = n]
  BY DEF MarkFirst
<1>2. DOMAIN gen' = GenFields /\ gen'.x = gen.x /\ gen'.y = gen.y
  <2> HIDE DEF n
  <2> QED BY <1>1 DEF Inv, GenInv, GenFields
<1> QED BY <1>1, <1>2, SameWalls

\* The neighbour that a point is joined to is a reached point of the maze.
LEMMA FirstUsableFound ==
    ASSUME NEW p, Usable(p) # {}
    PROVE  /\ FirstUsable(p) \in Dirs
           /\ Toward(p, FirstUsable(p), 2) \in OddPoints
           /\ Cell(Toward(p, FirstUsable(p), 2)) \in reach
<1> DEFINE first == CHOOSE i \in Usable(p) : \A j \in Usable(p) : i <= j
<1>1. Usable(p) \subseteq 1..4
  BY DEF Usable
<1>2. \E i \in Usable(p) : \A j \in Usable(p) : i <= j
  <2>1. CASE 1 \in Usable(p)
    BY <1>1, <2>1
  <2>2. CASE 1 \notin Usable(p) /\ 2 \in Usable(p)
    BY <1>1, <2>2
  <2>3. CASE 1 \notin Usable(p) /\ 2 \notin Usable(p) /\ 3 \in Usable(p)
    BY <1>1, <2>3
  <2>4. CASE Usable(p) \subseteq {4}
    BY <2>4
  <2> QED BY <1>1, <2>1, <2>2, <2>3, <2>4
<1>3. first \in Usable(p)
  BY <1>2
<1> HIDE DEF first
<1>4. FirstUsable(p) = Tried[first]
  BY DEF FirstUsable, first
<1> QED BY <1>3, <1>4 DEF Usable, Tried, Dirs

\* A wall that is knocked down is between two points of the maze.
LEMMA JoinInv ==
    ASSUME Inv, NEW p \in OddPoints, Join(p), phase = "connect",
           phase' \in {"connect", "joined"}
    PROVE  GenInv' /\ WallsInv'
<1>1. DOMAIN gen = GenFields
  BY DEF Inv, GenInv
<1>2. GenInv'
  <2>1. DOMAIN gen' = GenFields /\ gen'.x = p[1] /\ gen'.y = p[2]
    <3>1. CASE Usable(p) = {}
      BY <1>1, <3>1 DEF Join, GenFields
    <3>2. CASE Usable(p) # {}
      <4> DEFINE n == gen.remaining - Cardinality(MarkArea(p, reach))
      <4>1. gen' = [gen EXCEPT !.x = p[1], !.y = p[2], !.remaining = n,
                               !.trials = Trials, !.idle = 0]
        BY <3>2 DEF Join
      <4> HIDE DEF n
      <4> QED BY <1>1, <4>1 DEF GenFields
    <3> QED BY <3>1, <3>2
  <2>2. Here' = p
    BY <2>1 DEF Here, OddPoints
  <2> QED BY <2>1, <2>2 DEF GenInv, OddPoints
<1>3. WallsInv'
  <2>1. CASE Usable(p) = {}
    <3>1. walls' = walls \ {Cell(q) : q \in {}}
      BY <2>1 DEF Join
    <3>2. {} \in SUBSET InnerPoints
      OBVIOUS
    <3> QED BY <3>1, <3>2, MakingWalls DEF Inv
  <2>2. CASE Usable(p) # {}
    <3>1. {Toward(p, FirstUsable(p), 1)} \in SUBSET InnerPoints
      BY <2>2, FirstUsableFound, OddSteps
    <3>2. walls' = walls \ {Cell(q) : q \in {Toward(p, FirstUsable(p), 1)}}
      BY <2>2 DEF Join
    <3> QED BY <3>1, <3>2, MakingWalls DEF Inv
  <2> QED BY <2>1, <2>2
<1> QED BY <1>2, <1>3

\* The scan goes from one (odd,odd) point to another.
LEMMA ScanInside ==
    ASSUME Inv
    PROVE  ScanNext \in OddPoints
<1>1. XDim \in Nat \ {0} /\ YDim \in Nat \ {0}
  BY MazeAssumption
<1>2. PICK i \in 1..XDim, j \in 1..YDim : gen.x = 2 * i - 1 /\ gen.y = 2 * j - 1
  BY DEF Inv, GenInv, Here, OddPoints
<1> DEFINE k == IF i < XDim THEN i + 1 ELSE 1
           l == IF i < XDim THEN j ELSE IF j < YDim THEN j + 1 ELSE 1
<1>3. k \in 1..XDim /\ l \in 1..YDim
  BY <1>1, <1>2
<1>4. ScanNext = <<2 * k - 1, 2 * l - 1>>
  BY <1>1, <1>2 DEF ScanNext
<1> QED BY <1>3, <1>4 DEF OddPoints

LEMMA ConnectInv ==
    ASSUME Inv, Connect
    PROVE  GenInv' /\ WallsInv'
<1>1. phase = "connect" /\ phase' \in {"connect", "joined"}
  BY DEF Connect
<1>2. CASE Scanning /\ Cell(ScanNext) \in reach
  <2> DEFINE m == gen.idle + 1
  <2>1. /\ gen' = [gen EXCEPT !.x = ScanNext[1], !.y = ScanNext[2],
                              !.trials = Trials, !.idle = @ + 1]
        /\ UNCHANGED walls
    BY <1>2 DEF Connect
  <2>2. DOMAIN gen' = GenFields /\ gen'.x = ScanNext[1] /\ gen'.y = ScanNext[2]
    BY <2>1 DEF Inv, GenInv, GenFields
  <2>3. Here' \in OddPoints
    BY <2>2, ScanInside DEF Here, OddPoints
  <2>4. GenInv'
    BY <1>1, <2>2, <2>3 DEF GenInv, GenFields, OddPoints
  <2>5. WallsInv'
    <3>1. walls' = walls \ {Cell(q) : q \in {}}
      BY <2>1
    <3>2. {} \in SUBSET InnerPoints /\ WallsInv /\ phase \notin {"start", "worm"}
      BY <1>1 DEF Inv
    <3> HIDE DEF m
    <3> QED BY <3>1, <3>2, MakingWalls, Zenon
  <2> QED BY <2>4, <2>5
<1>3. CASE Scanning /\ Cell(ScanNext) \notin reach
  <2>1. PICK p \in OddPoints : p = ScanNext
    BY ScanInside
  <2>2. Join(p)
    <3>1. Join(ScanNext)
      BY <1>3 DEF Connect
    <3> QED BY <2>1, <3>1 DEF Join
  <2> QED BY <1>1, <2>2, JoinInv
<1>4. CASE ~Scanning
  <2>1. \E p \in OddPoints : Join(p)
    BY <1>4 DEF Connect
  <2> QED BY <1>1, <2>1, JoinInv
<1> QED BY <1>2, <1>3, <1>4

LEMMA ClearMarksInv ==
    ASSUME Inv, ClearMarks
    PROVE  GenInv' /\ WallsInv'
<1>1. /\ phase = "joined" /\ phase' = "fruit"
      /\ gen' = [gen EXCEPT !.x = 1, !.y = 1, !.pref = 0, !.trials = 0,
                            !.idle = 0]
  BY DEF ClearMarks
<1>2. GenInv'
  <2>1. DOMAIN gen' = GenFields /\ gen'.x = 1 /\ gen'.y = 1
    BY <1>1 DEF Inv, GenInv, GenFields
  <2>2. Here' \in OddPoints
    BY <2>1, OddInner DEF Here
  <2> QED BY <1>1, <2>1, <2>2 DEF GenInv, GenFields, OddPoints
<1>3. WallsInv'
  <2>1. PICK god \in GOD_MODES :
          walls' = IF god THEN walls \ {Cell(p) : p \in InnerPoints} ELSE walls
    BY DEF ClearMarks
  <2>2. \E Q \in SUBSET InnerPoints : walls' = walls \ {Cell(p) : p \in Q}
    <3>1. CASE god
      <4>1. InnerPoints \in SUBSET InnerPoints
        OBVIOUS
      <4> QED BY <2>1, <3>1, <4>1
    <3>2. CASE ~god
      <4>1. {} \in SUBSET InnerPoints /\ walls' = walls \ {Cell(p) : p \in {}}
        BY <2>1, <3>2
      <4> QED BY <4>1
    <3> QED BY <3>1, <3>2
  <2> QED BY <1>1, <2>2, MakingWalls DEF Inv
<1> QED BY <1>2, <1>3

LEMMA MakingInv ==
    ASSUME Inv, Making, UNCHANGED gameVars
    PROVE  Inv'
<1>1. GenInv' /\ WallsInv'
  <2>1. CASE AddFruit \/ PlaceExit
    <3>1. /\ UNCHANGED <<walls, gen>> /\ phase = "fruit"
          /\ phase' \in {"fruit", "play"}
      BY <2>1 DEF AddFruit, PlaceExit
    <3> QED BY <3>1, SameWalls DEF Inv, GenInv
  <2> QED BY <2>1, StartWormInv, WormTurnInv, MarkFirstInv, ConnectInv,
             ClearMarksInv DEF Making
<1>2. phase # "play"
  BY DEF Making, StartWorm, WormTurn, MarkFirst, Connect, ClearMarks, AddFruit,
         PlaceExit
<1>3. MotionInv'
  BY <1>2, MakingMotion DEF Inv
<1> QED BY <1>1, <1>3 DEF Inv

-----------------------------------------------------------------------------
(* The level.  *)

LEMMA MazeStands ==
    ASSUME Inv, UNCHANGED <<walls, phase, gen>>
    PROVE  /\ GenInv' /\ WallsInv'
           /\ \A q : OpenSquare(q) => OpenSquare(q)'
<1>1. /\ Uneaten' = Uneaten /\ Here' = Here /\ OddPoints' = OddPoints
      /\ Edge' = Edge /\ InnerPoints' = InnerPoints
      /\ \A q : Cell(q)' = Cell(q)
  BY DEF Uneaten, OddPoints, Cell, MAZE_INDEX, Here, Edge, Lattice, InnerPoints
<1>2. \A q : OpenSquare(q)' <=> OpenSquare(q)
  BY <1>1 DEF OpenSquare
<1>3. GenInv'
  BY <1>1 DEF Inv, GenInv
<1>4. WallsInv'
  BY <1>1, <1>2 DEF Inv, WallsInv
<1> QED BY <1>2, <1>3, <1>4

\* The player begins on (1,1).
LEMMA PrepareInv ==
    ASSUME Inv, Prepare
    PROVE  MotionInv'
<1>1. /\ level = "making" /\ phase = "play" /\ level' = "on"
      /\ UNCHANGED <<walls, phase, gen, pos, dir, next_dir, move_cnt>>
  BY DEF Prepare
<1>2. OpenSquare(<<1, 1>>)'
  BY <1>1, MazeStands DEF Inv, WallsInv
<1>3. Moving(<<1, 1>>)'
  <2>1. pos = Start /\ move_cnt = 0
    BY <1>1 DEF Inv, MotionInv
  <2>2. Start = Corner(<<1, 1>>)
    BY GameAssumption DEF Start, Corner
  <2> QED BY <1>1, <2>1, <2>2 DEF Moving, Corner
<1>4. <<1, 1>> \in InnerPoints
  BY OddInner
<1>5. \E q \in InnerPoints : OpenSquare(q)' /\ Moving(q)'
  BY <1>2, <1>3, <1>4
<1>6. (\E q \in InnerPoints : OpenSquare(q) /\ Moving(q))'
  BY <1>5 DEF InnerPoints
<1> QED BY <1>1, <1>6 DEF Inv, MotionInv

\* Turning back keeps to the way the player is on.
LEMMA ReversedWay ==
    ASSUME dir \in 0..DIR_STOP, next_dir \in 0..DIR_STOP,
           move_cnt \in 0..BLOCK_DIM - 1
    PROVE  LET turned == Reversed(dir, next_dir, move_cnt)
           IN  /\ turned[1] \in 0..DIR_STOP
               /\ move_cnt = 0 => turned[2] = 0
               /\ move_cnt > 0 =>
                    \/ turned[1] = dir /\ turned[2] = move_cnt
                    \/ /\ dir \in Dirs /\ turned[1] = (dir + 2) % 4
                       /\ turned[2] = BLOCK_DIM - move_cnt
<1>1. BLOCK_DIM \in Nat
  BY GameAssumption
<1>2. CASE dir # DIR_STOP /\ next_dir # DIR_STOP /\ next_dir = (dir + 2) % 4
  <2>1. Reversed(dir, next_dir, move_cnt)
          = <<next_dir, IF move_cnt > 0 THEN BLOCK_DIM - move_cnt ELSE move_cnt>>
    BY <1>2 DEF Reversed
  <2>2. dir \in Dirs
    BY <1>2 DEF Dirs, DIR_STOP
  <2> QED BY <1>1, <1>2, <2>1, <2>2
<1>3. CASE ~(dir # DIR_STOP /\ next_dir # DIR_STOP /\ next_dir = (dir + 2) % 4)
  <2>1. Reversed(dir, next_dir, move_cnt) = <<dir, move_cnt>>
    BY <1>3 DEF Reversed
  <2> QED BY <1>1, <2>1
<1> QED BY <1>2, <1>3

\* Steps forth and back, in pixels and in squares.
LEMMA Steps ==
    ASSUME NEW q \in Int \X Int, NEW d \in Dirs, NEW n \in Int,
           NEW o, o = (d + 2) % 4, NEW b, b = BLOCK_DIM
    PROVE  /\ o \in Dirs /\ (o + 2) % 4 = d
           /\ Toward(Toward(q, o, n), d, 1) = Toward(q, o, n - 1)
           /\ Toward(q, o, 0) = q
           /\ Toward(Toward(q, d, 1), o, 1) = q
           /\ Toward(Corner(q), o, n) = Toward(Corner(Toward(q, o, 1)), d, b - n)
           /\ Corner(q) = Toward(Corner(Toward(q, d, 1)), o, b)
<1>1. b \in Int
  BY GameAssumption
<1>2. d = 0 \/ d = 1 \/ d = 2 \/ d = 3
  BY DEF Dirs
<1>3. PICK i \in Int, j \in Int : q = <<i, j>>
  OBVIOUS
<1>4. PICK u \in Int, v \in Int :
        /\ Corner(<<i, j>>) = <<u, v>>
        /\ Corner(<<i + 1, j>>) = <<u + b, v>>
        /\ Corner(<<i - 1, j>>) = <<u - b, v>>
        /\ Corner(<<i, j + 1>>) = <<u, v + b>>
        /\ Corner(<<i, j - 1>>) = <<u, v - b>>
  <2>1. /\ (i + 1) * b = i * b + b /\ (i - 1) * b = i * b - b
        /\ (j + 1) * b = j * b + b /\ (j - 1) * b = j * b - b
        /\ i * b \in Int /\ j * b \in Int
    BY <1>1
  <2> QED BY <2>1 DEF Corner
<1>5. CASE d = 0
  <2>1. o = 2 /\ (o + 2) % 4 = d /\ o \in Dirs
    BY <1>5 DEF Dirs
  <2>2. Toward(q, d, 1) = <<i, j - 1>> /\ Toward(q, o, 1) = <<i, j + 1>>
    BY <1>3, <1>5, <2>1 DEF Toward, StepOf
  <2>3. /\ Toward(Toward(q, o, n), d, 1) = Toward(q, o, n - 1)
        /\ Toward(q, o, 0) = q
        /\ Toward(Toward(q, d, 1), o, 1) = q
    BY <1>3, <1>5, <2>1 DEF Toward, StepOf
  <2>4. /\ Corner(q) = <<u, v>> /\ Corner(Toward(q, d, 1)) = <<u, v - b>>
        /\ Corner(Toward(q, o, 1)) = <<u, v + b>>
    BY <1>3, <1>4, <2>2
  <2>5. Toward(<<u, v>>, o, n) = Toward(<<u, v + b>>, d, b - n)
    BY <1>1, <1>5, <2>1 DEF Toward, StepOf
  <2>6. <<u, v>> = Toward(<<u, v - b>>, o, b)
    BY <1>1, <1>5, <2>1 DEF Toward, StepOf
  <2> QED BY <2>1, <2>3, <2>4, <2>5, <2>6
<1>6. CASE d = 1
  <2>1. o = 3 /\ (o + 2) % 4 = d /\ o \in Dirs
    BY <1>6 DEF Dirs
  <2>2. Toward(q, d, 1) = <<i + 1, j>> /\ Toward(q, o, 1) = <<i - 1, j>>
    BY <1>3, <1>6, <2>1 DEF Toward, StepOf
  <2>3. /\ Toward(Toward(q, o, n), d, 1) = Toward(q, o, n - 1)
        /\ Toward(q, o, 0) = q
        /\ Toward(Toward(q, d, 1), o, 1) = q
    BY <1>3, <1>6, <2>1 DEF Toward, StepOf
  <2>4. /\ Corner(q) = <<u, v>> /\ Corner(Toward(q, d, 1)) = <<u + b, v>>
        /\ Corner(Toward(q, o, 1)) = <<u - b, v>>
    BY <1>3, <1>4, <2>2
  <2>5. Toward(<<u, v>>, o, n) = Toward(<<u - b, v>>, d, b - n)
    BY <1>1, <1>6, <2>1 DEF Toward, StepOf
  <2>6. <<u, v>> = Toward(<<u + b, v>>, o, b)
    BY <1>1, <1>6, <2>1 DEF Toward, StepOf
  <2> QED BY <2>1, <2>3, <2>4, <2>5, <2>6
<1>7. CASE d = 2
  <2>1. o = 0 /\ (o + 2) % 4 = d /\ o \in Dirs
    BY <1>7 DEF Dirs
  <2>2. Toward(q, d, 1) = <<i, j + 1>> /\ Toward(q, o, 1) = <<i, j - 1>>
    BY <1>3, <1>7, <2>1 DEF Toward, StepOf
  <2>3. /\ Toward(Toward(q, o, n), d, 1) = Toward(q, o, n - 1)
        /\ Toward(q, o, 0) = q
        /\ Toward(Toward(q, d, 1), o, 1) = q
    BY <1>3, <1>7, <2>1 DEF Toward, StepOf
  <2>4. /\ Corner(q) = <<u, v>> /\ Corner(Toward(q, d, 1)) = <<u, v + b>>
        /\ Corner(Toward(q, o, 1)) = <<u, v - b>>
    BY <1>3, <1>4, <2>2
  <2>5. Toward(<<u, v>>, o, n) = Toward(<<u, v - b>>, d, b - n)
    BY <1>1, <1>7, <2>1 DEF Toward, StepOf
  <2>6. <<u, v>> = Toward(<<u, v + b>>, o, b)
    BY <1>1, <1>7, <2>1 DEF Toward, StepOf
  <2> QED BY <2>1, <2>3, <2>4, <2>5, <2>6
<1>8. CASE d = 3
  <2>1. o = 1 /\ (o + 2) % 4 = d /\ o \in Dirs
    BY <1>8 DEF Dirs
  <2>2. Toward(q, d, 1) = <<i - 1, j>> /\ Toward(q, o, 1) = <<i + 1, j>>
    BY <1>3, <1>8, <2>1 DEF Toward, StepOf
  <2>3. /\ Toward(Toward(q, o, n), d, 1) = Toward(q, o, n - 1)
        /\ Toward(q, o, 0) = q
        /\ Toward(Toward(q, d, 1), o, 1) = q
    BY <1>3, <1>8, <2>1 DEF Toward, StepOf
  <2>4. /\ Corner(q) = <<u, v>> /\ Corner(Toward(q, d, 1)) = <<u - b, v>>
        /\ Corner(Toward(q, o, 1)) = <<u + b, v>>
    BY <1>3, <1>4, <2>2
  <2>5. Toward(<<u, v>>, o, n) = Toward(<<u + b, v>>, d, b - n)
    BY <1>1, <1>8, <2>1 DEF Toward, StepOf
  <2>6. <<u, v>> = Toward(<<u - b, v>>, o, b)
    BY <1>1, <1>8, <2>1 DEF Toward, StepOf
  <2> QED BY <2>1, <2>3, <2>4, <2>5, <2>6
<1> QED BY <1>2, <1>5, <1>6, <1>7, <1>8

LEMMA InnerPairs ==
    ASSUME NEW q \in InnerPoints
    PROVE  q \in Int \X Int /\ Corner(q) \in Int \X Int
BY MazeAssumption, GameAssumption DEF InnerPoints, Corner

\* A move by a pixel towards an open square, with another one behind.
LEMMA OnePixel ==
    ASSUME UNCHANGED walls,
           NEW q \in InnerPoints, NEW d \in Dirs, NEW n \in 1..BLOCK_DIM,
           NEW o, o = (d + 2) % 4,
           OpenSquare(Toward(q, o, 1)),
           pos = Toward(Corner(q), o, n),
           pos' = Toward(pos, d, 1), move_cnt' = n - 1, dir' = d
    PROVE  Moving(q)'
<1>1. BLOCK_DIM \in Nat /\ n \in Int
  BY GameAssumption
<1>2. pos' = Toward(Corner(q), o, n - 1)
  BY <1>1, InnerPairs, Steps
<1>3. CASE n = 1
  <2>1. pos' = Corner(q)
    BY <1>1, <1>2, <1>3, InnerPairs, Steps
  <2> QED BY <1>3, <2>1 DEF Moving, Corner
<1>4. CASE n > 1
  <2>1. move_cnt' \in 1..BLOCK_DIM - 1
    BY <1>1, <1>4
  <2>2. OpenSquare(Toward(q, (dir + 2) % 4, 1))'
    BY DEF OpenSquare, InnerPoints, Cell, MAZE_INDEX, Toward
  <2>3. pos' = Toward(Corner(q), (dir' + 2) % 4, move_cnt')
    BY <1>2
  <2> QED BY <2>1, <2>2, <2>3 DEF Moving, Corner, Toward
<1> QED BY <1>1, <1>3, <1>4

\* A way that is chosen is open.
LEMMA ChosenWay ==
    ASSUME NEW d, NEW next, NEW q
    PROVE  \/ Chosen(d, next, q) = <<DIR_STOP, 0>>
           \/ \E way \in Dirs : /\ Chosen(d, next, q) = <<way, BLOCK_DIM>>
                                /\ Cell(Toward(q, way, 1)) \notin walls
<1> DEFINE way == IF next \in find_open_directions(q) THEN next ELSE d
<1>1. CASE way \in find_open_directions(q)
  <2>1. way \in Dirs /\ Cell(Toward(q, way, 1)) \notin walls
    BY <1>1 DEF find_open_directions
  <2>2. Chosen(d, next, q) = <<way, BLOCK_DIM>>
    BY <1>1 DEF Chosen
  <2> HIDE DEF way
  <2> QED BY <2>1, <2>2
<1>2. CASE way \notin find_open_directions(q)
  BY <1>2 DEF Chosen
<1> QED BY <1>1, <1>2

\* From a square the player goes an open way, or stays.
LEMMA FromSquare ==
    ASSUME Inv, Tick, NEW q \in InnerPoints, OpenSquare(q),
           move_cnt = 0, pos = Corner(q), UNCHANGED walls
    PROVE  dir' \in 0..DIR_STOP
           /\ \E p \in InnerPoints : OpenSquare(p) /\ Moving(p)'
<1> DEFINE turned == Reversed(dir, next_dir, move_cnt)
           go == Chosen(turned[1], next_dir, q)
<1>1. turned[2] = 0
  <2>1. 0 \in 0..BLOCK_DIM - 1
    BY GameAssumption
  <2> QED BY <2>1, ReversedWay DEF Inv, MotionInv
<1>2. Square(pos) = q
  BY CornersSquare
<1>3. /\ dir' = go[1]
      /\ go[1] = DIR_STOP => move_cnt' = go[2] /\ pos' = pos
      /\ go[1] # DIR_STOP => /\ pos' = Toward(pos, go[1], 1)
                             /\ move_cnt' = go[2] - 1
  <2> HIDE DEF turned
  <2> QED BY <1>1, <1>2 DEF Tick, turned
<1>4. CASE go = <<DIR_STOP, 0>>
  <2>1. dir' = DIR_STOP /\ move_cnt' = 0 /\ pos' = pos
    <3> HIDE DEF go
    <3> QED BY <1>3, <1>4
  <2>2. Moving(q)'
    BY <2>1 DEF Moving, Corner
  <2> QED BY <2>1, <2>2 DEF DIR_STOP
<1>5. CASE \E way \in Dirs : /\ go = <<way, BLOCK_DIM>>
                             /\ Cell(Toward(q, way, 1)) \notin walls
  <2>1. PICK way \in Dirs : /\ go = <<way, BLOCK_DIM>>
                            /\ Cell(Toward(q, way, 1)) \notin walls
    BY <1>5
  <2> DEFINE p == Toward(q, way, 1)
             o == (way + 2) % 4
  <2>2. way # DIR_STOP /\ way \in 0..DIR_STOP
    BY DEF Dirs, DIR_STOP
  <2>3. /\ dir' = way /\ pos' = Toward(pos, way, 1)
        /\ move_cnt' = BLOCK_DIM - 1
    <3> HIDE DEF go
    <3> QED BY <1>3, <2>1, <2>2
  <2>4. p \in InnerPoints /\ OpenSquare(p)
    BY <2>1, OpenIsInner DEF Inv, WallsInv, OpenSquare
  <2>5. Toward(p, o, 1) = q /\ Corner(q) = Toward(Corner(p), o, BLOCK_DIM)
    <3>1. q \in Int \X Int /\ 0 \in Int
      BY InnerPairs
    <3> QED BY <3>1, Steps
  <2>6. BLOCK_DIM \in 1..BLOCK_DIM
    BY GameAssumption
  <2>7. Moving(p)'
    <3> HIDE DEF p, o
    <3>1. o = (way + 2) % 4
      BY DEF o
    <3>2. OpenSquare(Toward(p, o, 1)) /\ pos = Toward(Corner(p), o, BLOCK_DIM)
      BY <2>5
    <3> QED BY <2>3, <2>4, <2>6, <3>1, <3>2, OnePixel
  <2> QED BY <2>2, <2>3, <2>4, <2>7
<1> QED BY <1>4, <1>5, ChosenWay

\* Between two squares it goes on, or back.
LEMMA BetweenSquares ==
    ASSUME Inv, Tick, NEW q \in InnerPoints, OpenSquare(q),
           move_cnt \in 1..BLOCK_DIM - 1, dir \in Dirs,
           OpenSquare(Toward(q, (dir + 2) % 4, 1)),
           pos = Toward(Corner(q), (dir + 2) % 4, move_cnt),
           UNCHANGED walls
    PROVE  dir' \in 0..DIR_STOP
           /\ \E p \in InnerPoints : OpenSquare(p) /\ Moving(p)'
<1> DEFINE turned == Reversed(dir, next_dir, move_cnt)
<1>0. PICK o \in Dirs, p \in InnerPoints :
        o = (dir + 2) % 4 /\ p = Toward(q, o, 1) /\ OpenSquare(p)
  BY DEF OpenSquare, Dirs
<1>1. BLOCK_DIM \in Nat /\ move_cnt \in Int
  BY GameAssumption
<1>2. \/ turned[1] = dir /\ turned[2] = move_cnt
      \/ turned[1] = o /\ turned[2] = BLOCK_DIM - move_cnt
  <2>1. move_cnt \in 0..BLOCK_DIM - 1 /\ move_cnt > 0
    BY <1>1
  <2> QED BY <1>0, <2>1, ReversedWay DEF Inv, MotionInv
<1>3. /\ o \in Dirs /\ (o + 2) % 4 = dir
      /\ pos = Toward(Corner(p), dir, BLOCK_DIM - move_cnt)
      /\ Toward(p, dir, 1) = q
  <2>1. q \in Int \X Int
    BY InnerPairs
  <2>2. /\ o \in Dirs /\ (o + 2) % 4 = dir
        /\ pos = Toward(Corner(p), dir, BLOCK_DIM - move_cnt)
    BY <1>0, <1>1, <2>1, Steps
  <2>3. Toward(Toward(q, o, 1), dir, 1) = q
    BY <1>1, <2>1, <2>2, Steps
  <2> QED BY <1>0, <2>2, <2>3
<1>4. turned[1] \in Dirs /\ turned[2] # 0 /\ turned[1] # DIR_STOP
  BY <1>1, <1>2, <1>3 DEF Dirs, DIR_STOP
<1>5. /\ dir' = turned[1] /\ pos' = Toward(pos, turned[1], 1)
      /\ move_cnt' = turned[2] - 1
  <2> HIDE DEF turned
  <2> QED BY <1>4 DEF Tick, turned
<1>6. dir' \in 0..DIR_STOP
  BY <1>4, <1>5 DEF Dirs, DIR_STOP
<1>7. CASE turned[1] = dir /\ turned[2] = move_cnt
  <2>1. move_cnt \in 1..BLOCK_DIM
    BY <1>1
  <2>2. dir' = dir /\ pos' = Toward(pos, dir, 1) /\ move_cnt' = move_cnt - 1
    BY <1>5, <1>7
  <2>3. Moving(q)'
    BY <2>1, <2>2, OnePixel
  <2> QED BY <1>6, <2>3
<1>8. CASE turned[1] = o /\ turned[2] = BLOCK_DIM - move_cnt
  <2>1. BLOCK_DIM - move_cnt \in 1..BLOCK_DIM
    BY <1>1
  <2>2. dir' = o /\ pos' = Toward(pos, o, 1)
        /\ move_cnt' = (BLOCK_DIM - move_cnt) - 1
    BY <1>5, <1>8
  <2>3. OpenSquare(Toward(p, dir, 1)) /\ dir = (o + 2) % 4
    BY <1>3
  <2>4. PICK d \in Dirs : d = dir
    OBVIOUS
  <2>5. Moving(p)'
    BY <1>3, <2>1, <2>2, <2>3, <2>4, OnePixel
  <2> QED BY <1>0, <1>6, <2>5
<1> QED BY <1>2, <1>7, <1>8

LEMMA TickInv ==
    ASSUME Inv, Tick, UNCHANGED <<walls, phase>>
    PROVE  MotionInv'
<1>1. PICK q \in InnerPoints : OpenSquare(q) /\ Moving(q)
  BY DEF Tick, Inv, MotionInv
<1>2. dir' \in 0..DIR_STOP
      /\ \E p \in InnerPoints : OpenSquare(p) /\ Moving(p)'
  BY <1>1, FromSquare, BetweenSquares DEF Moving
<1>3. (\E p \in InnerPoints : OpenSquare(p) /\ Moving(p))'
  BY <1>2 DEF InnerPoints, OpenSquare, Cell, MAZE_INDEX
<1>4. level' = level /\ next_dir' = next_dir /\ level = "on"
  BY DEF Tick
<1> QED BY <1>2, <1>3, <1>4 DEF Inv, MotionInv

-----------------------------------------------------------------------------
(* The theorem.  *)

LEMMA StepInv == Inv /\ [Next]_vars => Inv'
<1> SUFFICES ASSUME Inv, [Next]_vars PROVE Inv'
  OBVIOUS
<1>1. CASE Making /\ UNCHANGED gameVars
  BY <1>1, MakingInv
<1>2. CASE UNCHANGED <<walls, phase, gen>> /\ MotionInv'
  BY <1>2, MazeStands DEF Inv
<1>3. CASE Prepare
  BY <1>2, <1>3, PrepareInv DEF Prepare
<1>4. CASE Tick
  BY <1>2, <1>4, TickInv DEF Tick
<1>5. CASE Win
  <2>1. /\ UNCHANGED <<walls, phase, gen, next_dir>> /\ level = "on"
        /\ level' = "won" /\ dir' = Reversed(dir, next_dir, move_cnt)[1]
    BY <1>5 DEF Win
  <2>2. move_cnt \in 0..BLOCK_DIM - 1
    BY <2>1, GameAssumption DEF Inv, MotionInv, Moving
  <2>3. dir' \in 0..DIR_STOP
    BY <2>1, <2>2, ReversedWay DEF Inv, MotionInv
  <2>4. MotionInv'
    BY <2>1, <2>3 DEF Inv, MotionInv
  <2> QED BY <1>2, <2>1, <2>4
<1>6. CASE Show \/ UNCHANGED vars
  <2>1. UNCHANGED <<walls, phase, gen, level, pos, dir, next_dir, move_cnt>>
    BY <1>6 DEF Show, vars, mazeVars, gameVars
  <2>2. MotionInv'
    BY <2>1 DEF Inv, MotionInv, Moving, OpenSquare, InnerPoints, Cell,
                MAZE_INDEX, Corner, Toward, Start
  <2> QED BY <1>2, <2>1, <2>2
<1>7. CASE \E d \in Dirs : Steer(d)
  <2>1. /\ UNCHANGED <<walls, phase, gen, level, pos, dir, move_cnt>>
        /\ next_dir' \in Dirs
    BY <1>7 DEF Steer, mazeVars
  <2>2. next_dir' \in 0..DIR_STOP
    BY <2>1 DEF Dirs, DIR_STOP
  <2>3. MotionInv'
    BY <2>1, <2>2 DEF Inv, MotionInv, Moving, OpenSquare, InnerPoints, Cell,
                MAZE_INDEX, Corner, Toward, Start
  <2> QED BY <1>2, <2>1, <2>3
<1> QED BY <1>1, <1>3, <1>4, <1>5, <1>6, <1>7 DEF Next

LEMMA InvOnPath == Inv => OnPath
<1> SUFFICES ASSUME Inv, level = "on" PROVE OnPath
  BY DEF OnPath
<1>1. PICK q \in InnerPoints : OpenSquare(q) /\ Moving(q)
  BY DEF Inv, MotionInv
<1>2. /\ Square(Corner(q)) = q
      /\ \A i \in 1..2 : Corner(q)[i] % BLOCK_DIM = 0
  BY CornersSquare
<1>3. CASE move_cnt = 0 /\ pos = Corner(q)
  BY <1>1, <1>2, <1>3 DEF OnPath, OpenSquare
<1>4. CASE /\ move_cnt \in 1..BLOCK_DIM - 1 /\ dir \in Dirs
           /\ pos = Toward(Corner(q), (dir + 2) % 4, move_cnt)
  <2>1. move_cnt \in Int /\ move_cnt > 0 /\ dir # DIR_STOP
    BY <1>4, GameAssumption DEF Dirs, DIR_STOP
  <2>2. Toward(pos, dir, move_cnt) = Corner(q)
    <3>1. Corner(q) \in Int \X Int
      BY InnerPairs
    <3> QED BY <1>4, <2>1, <3>1 DEF Toward, StepOf, Dirs
  <2> QED BY <1>1, <1>2, <2>1, <2>2 DEF OnPath, OpenSquare
<1> QED BY <1>1, <1>3, <1>4 DEF Moving

\* For every size of the maze and of its blocks, every maze the generator can
\* make and every sequence of directions, ticks and frames, the player is on a
\* path: the squares before and behind it are open, and it is as far from the
\* one before it as move_cnt says (mazegame.c:500 to 549).
THEOREM PlayerOnPath == Spec => []OnPath
<1>1. GameInit => Inv
  BY InitInv
<1>2. Inv /\ [Next]_vars => Inv'
  BY StepInv
<1>3. Inv => OnPath
  BY InvOnPath
<1> QED BY <1>1, <1>2, <1>3, PTL DEF Spec

-----------------------------------------------------------------------------
(* The view.  *)

FrameInv ==
    /\ pos \in Int \X Int /\ map \in Int \X Int
    /\ \A i \in 1..2 : /\ map[i] >= SHOW_MIN
                       /\ map[i] + View[i] <= Size[i] - SHOW_MIN
    /\ PlayerFramed

\* A record of the level whose view is at m.
Views(s, m) == "map" \in DOMAIN s /\ s.map = m

\* Nothing but panning moves the view.
LEMMA DrawingKeepsView ==
    ASSUME NEW s, NEW m, Views(s, m)
    PROVE  /\ \A points : Views(Redrawn(s, points), m)
           /\ \A q : Views(check_for_fruit(s, q), m)
           /\ \A points : Views(unveil_space(s, points), m)
           /\ \A xy, d : Views(PlayerDrawn(s, xy, d), m)
           /\ \A xy : Views(PlayerUndrawn(s, xy), m)
<1>1. \A t, f : Views(t, m) => Views([t EXCEPT !.shown = f], m)
  BY DEF Views
<1>2. \A t, points : Views(t, m) => Views(Redrawn(t, points), m)
  <2> SUFFICES ASSUME NEW t, NEW points, Views(t, m)
               PROVE  Views(Redrawn(t, points), m)
    OBVIOUS
  <2> DEFINE f == Over([p \in points \cap DOMAIN t.shown |-> {find_block(p, t)}],
                      t.shown)
  <2>1. Redrawn(t, points) = [t EXCEPT !.shown = f]
    BY DEF Redrawn
  <2> HIDE DEF f
  <2> QED BY <1>1, <2>1
<1>3. \A q : Views(check_for_fruit(s, q), m)
  <2> SUFFICES ASSUME NEW q PROVE Views(check_for_fruit(s, q), m)
    OBVIOUS
  <2> DEFINE t == [s EXCEPT !.fruits = @ \ {Cell(q)}, !.n = @ - 1]
  <2>1. Views(t, m)
    BY DEF Views
  <2>2. check_for_fruit(s, q) = s \/ check_for_fruit(s, q) = Redrawn(t, Eaten(t, q))
    BY DEF check_for_fruit
  <2> HIDE DEF t
  <2> QED BY <1>2, <2>1, <2>2
<1>4. \A points : Views(unveil_space(s, points), m)
  <2> SUFFICES ASSUME NEW points PROVE Views(unveil_space(s, points), m)
    OBVIOUS
  <2> DEFINE new == {p \in points \cap Lattice : Cell(p) \notin s.reach}
             t == [s EXCEPT !.reach = @ \cup {Cell(p) : p \in new}]
  <2>1. Views(t, m)
    <3> HIDE DEF new
    <3> QED BY DEF Views
  <2>2. unveil_space(s, points) = Redrawn(t, new)
    BY DEF unveil_space
  <2> HIDE DEF t, new
  <2> QED BY <1>2, <2>1, <2>2
<1>5. \A xy, d : Views(PlayerDrawn(s, xy, d), m)
  <2> SUFFICES ASSUME NEW xy, NEW d PROVE Views(PlayerDrawn(s, xy, d), m)
    OBVIOUS
  <2> DEFINE f == Over([p \in Picture(xy, d) |-> s.shown[p] \cup {"player"}],
                      s.shown)
  <2>1. PlayerDrawn(s, xy, d) = [s EXCEPT !.shown = f]
    BY DEF PlayerDrawn
  <2> HIDE DEF f
  <2> QED BY <1>1, <2>1
<1>6. \A xy : Views(PlayerUndrawn(s, xy), m)
  <2> SUFFICES ASSUME NEW xy PROVE Views(PlayerUndrawn(s, xy), m)
    OBVIOUS
  <2> DEFINE f == Over([p \in Covered(xy) |->
                        IF Covered(xy) = {p} THEN {"empty"}
                        ELSE (s.shown[p] \ {"player"}) \cup {"empty"}], s.shown)
  <2>1. PlayerUndrawn(s, xy) = [s EXCEPT !.shown = f]
    BY DEF PlayerUndrawn
  <2> HIDE DEF f
  <2> QED BY <1>1, <2>1
<1> QED BY <1>2, <1>3, <1>4, <1>5, <1>6

LEMMA UnveilingKeepsView ==
    ASSUME NEW s, NEW m, Views(s, m), NEW xy
    PROVE  Views(Unveiled(s, xy), m)
<1>1. Views(check_for_fruit(s, Square(xy)), m)
  BY DrawingKeepsView
<1> QED BY <1>1, DrawingKeepsView DEF Unveiled

LEMMA PanningMovesView ==
    ASSUME NEW s, NEW m, Views(s, m), NEW to, NEW d
    PROVE  Views(Moved(s, to, d), IF Follows(s, to, d) THEN Toward(m, d, 1) ELSE m)
<1>1. CASE Follows(s, to, d)
  <2> DEFINE at == Toward(s.map, d, 1)
             f == Over([p \in Line(at, d) |-> Kept(s, p) \cup {find_block(p, s)}],
                      [p \in Visible(at) |-> Kept(s, p)])
  <2>1. Moved(s, to, d) = [s EXCEPT !.map = at, !.shown = f]
    BY <1>1 DEF Moved, Panned
  <2>2. at = Toward(m, d, 1)
    BY DEF Views
  <2> HIDE DEF at, f
  <2> QED BY <1>1, <2>1, <2>2 DEF Views
<1>2. CASE ~Follows(s, to, d)
  BY <1>2 DEF Moved
<1> QED BY <1>1, <1>2

\* The view holds the squares kept around the player, and the maze the view.
LEMMA Dimensions ==
    /\ SHOW_MIN \in Int /\ BLOCK_DIM * PAN_BORDER \in Int
    /\ BLOCK_DIM * PAN_BORDER >= BLOCK_DIM
    /\ BLOCK_DIM * (PAN_BORDER + 1) = BLOCK_DIM * PAN_BORDER + BLOCK_DIM
    /\ \A i \in 1..2 :
         /\ View[i] \in Int /\ Size[i] \in Int
         /\ View[i] >= 2 * (BLOCK_DIM * PAN_BORDER) + BLOCK_DIM
         /\ SHOW_MIN + View[i] <= Size[i] - SHOW_MIN
<1> DEFINE b == BLOCK_DIM
           n == PAN_BORDER
<1>1. b \in Nat /\ b > 2 /\ n \in Nat \ {0} /\ SHOW_MIN \in Int
  BY GameAssumption
<1>2. /\ SCROLL_X_DIM >= b * (2 * n + 1) /\ SCROLL_Y_DIM >= b * (2 * n + 1)
      /\ 2 * b * XDim + 2 * b > SCROLL_X_DIM + b - 1 + 2 * SHOW_MIN
      /\ 2 * b * YDim + 2 * b > SCROLL_Y_DIM + b - 1 + 2 * SHOW_MIN
  BY GameAssumption
<1>3. XDim \in Nat /\ YDim \in Nat /\ SCROLL_X_DIM \in Int /\ SCROLL_Y_DIM \in Int
  BY MazeAssumption, GameAssumption
<1>4. b * n \in Int /\ b * (n + 1) = b * n + b
      /\ b * (2 * n + 1) = 2 * (b * n) + b
  <2> HIDE DEF b, n
  <2> QED BY <1>1
<1>5. b * n >= b
  <2>1. n - 1 \in Nat
    BY <1>1
  <2>2. b * (n - 1) >= 0 /\ b * (n - 1) = b * n - b
    <3> HIDE DEF b, n
    <3> QED BY <1>1, <2>1
  <2> QED BY <1>1, <1>4, <2>2
<1>6. /\ (2 * XDim + 1) * b = 2 * b * XDim + b /\ 2 * b * XDim \in Int
      /\ (2 * YDim + 1) * b = 2 * b * YDim + b /\ 2 * b * YDim \in Int
  <2> HIDE DEF b
  <2> QED BY <1>1, <1>3
<1>7. /\ View[1] = SCROLL_X_DIM /\ Size[1] = 2 * b * XDim + b
      /\ View[2] = SCROLL_Y_DIM /\ Size[2] = 2 * b * YDim + b
  BY <1>6 DEF View, Size
<1>8. /\ SHOW_MIN + View[1] <= Size[1] - SHOW_MIN
      /\ SHOW_MIN + View[2] <= Size[2] - SHOW_MIN
      /\ \A i \in 1..2 : View[i] \in Int /\ Size[i] \in Int
  <2> HIDE DEF b
  <2> QED BY <1>1, <1>2, <1>3, <1>6, <1>7
<1>9. \A i \in 1..2 : View[i] >= 2 * (b * n) + b
  BY <1>2, <1>4, <1>7
<1> QED BY <1>1, <1>4, <1>5, <1>8, <1>9

LEMMA InitFrame == GameInit => FrameInv
<1> SUFFICES ASSUME GameInit PROVE FrameInv
  OBVIOUS
<1>1. /\ pos = <<BLOCK_DIM, BLOCK_DIM>> /\ map = <<SHOW_MIN, SHOW_MIN>>
      /\ BLOCK_DIM \in Int
  BY GameAssumption DEF GameInit, Start
<1>2. PlayerFramed
  <2> DEFINE g == BLOCK_DIM * PAN_BORDER
  <2>1. /\ g \in Int /\ g >= BLOCK_DIM /\ SHOW_MIN \in Int /\ SHOW_MIN >= 0
        /\ BLOCK_DIM * (PAN_BORDER + 1) = g + BLOCK_DIM
        /\ \A i \in 1..2 : View[i] \in Int /\ View[i] >= 2 * g + BLOCK_DIM
    BY Dimensions, GameAssumption
  <2>2. \A i \in 1..2 : pos[i] + (g + BLOCK_DIM) <= map[i] + View[i]
    <3> HIDE DEF g
    <3> QED BY <1>1, <2>1
  <2>3. \A i \in 1..2 :
           pos[i] + BLOCK_DIM * (PAN_BORDER + 1) <= map[i] + View[i]
    BY <2>1, <2>2
  <2> QED BY <1>1, <2>3 DEF PlayerFramed
<1>3. \A i \in 1..2 : /\ map[i] >= SHOW_MIN
                      /\ map[i] + View[i] <= Size[i] - SHOW_MIN
  BY <1>1, Dimensions
<1> QED BY <1>1, <1>2, <1>3, Dimensions DEF FrameInv

\* One dimension of a move: player p, view m of size v up to e, and g pixels
\* kept on both sides of a player of b.
LEMMA Follow ==
    ASSUME NEW p \in Int, NEW m \in Int, NEW v \in Int, NEW e \in Int,
           NEW g \in Int, NEW b \in Int, NEW low \in Int,
           g >= 0, b >= 0, v >= 2 * g + b, m >= low, m + v <= e,
           p >= m + g \/ m = low, p + (g + b) <= m + v \/ m + v = e
    PROVE  /\ LET n == IF p + 1 > m + v - (g + b) /\ m + v < e THEN m + 1 ELSE m
              IN  /\ n >= low /\ n + v <= e
                  /\ p + 1 >= n + g \/ n = low
                  /\ p + 1 + (g + b) <= n + v \/ n + v = e
           /\ LET n == IF p - 1 < m + g /\ m > low THEN m - 1 ELSE m
              IN  /\ n >= low /\ n + v <= e
                  /\ p - 1 >= n + g \/ n = low
                  /\ p - 1 + (g + b) <= n + v \/ n + v = e
OBVIOUS

\* The view goes with a player that moves by a pixel.
LEMMA MoveFrame ==
    ASSUME FrameInv, NEW d \in Dirs, pos' = Toward(pos, d, 1),
           NEW s, Views(s, map),
           map' = IF Follows(s, pos', d) THEN Toward(map, d, 1) ELSE map
    PROVE  FrameInv'
<1> DEFINE g == BLOCK_DIM * PAN_BORDER
<1>1. /\ g \in Int /\ g >= 0 /\ SHOW_MIN \in Int /\ BLOCK_DIM \in Int
      /\ BLOCK_DIM * (PAN_BORDER + 1) = g + BLOCK_DIM /\ BLOCK_DIM >= 0
      /\ \A i \in 1..2 : /\ View[i] \in Int /\ Size[i] \in Int
                         /\ View[i] >= 2 * g + BLOCK_DIM
  BY Dimensions, GameAssumption
<1> HIDE DEF g
<1>2. PICK x \in Int, y \in Int, m \in Int, n \in Int :
        pos = <<x, y>> /\ map = <<m, n>>
  BY DEF FrameInv
<1> DEFINE Good(i, p, k) == /\ k >= SHOW_MIN
                            /\ k + View[i] <= Size[i] - SHOW_MIN
                            /\ p >= k + g \/ k = SHOW_MIN
                            /\ \/ p + (g + BLOCK_DIM) <= k + View[i]
                               \/ k + View[i] = Size[i] - SHOW_MIN
<1>3. Good(1, x, m) /\ Good(2, y, n)
  BY <1>1, <1>2 DEF FrameInv, PlayerFramed, g
<1>4. ASSUME NEW X \in Int, NEW Y \in Int, NEW M \in Int, NEW N \in Int,
             pos' = <<X, Y>>, map' = <<M, N>>, Good(1, X, M), Good(2, Y, N)
      PROVE  FrameInv'
  <2>1. PlayerFramed'
    BY <1>1, <1>4 DEF PlayerFramed, g, View, Size
  <2> QED BY <1>1, <1>4, <2>1 DEF FrameInv, View, Size
<1>5. \A i \in 1..2, p \in Int, k \in Int : Good(i, p, k) =>
        /\ Good(i, p + 1,
                IF p + 1 > k + View[i] - (g + BLOCK_DIM)
                     /\ k + View[i] < Size[i] - SHOW_MIN THEN k + 1 ELSE k)
        /\ Good(i, p - 1, IF p - 1 < k + g /\ k > SHOW_MIN THEN k - 1 ELSE k)
  <2> SUFFICES ASSUME NEW i \in 1..2, NEW p \in Int, NEW k \in Int, Good(i, p, k)
               PROVE  /\ Good(i, p + 1,
                           IF p + 1 > k + View[i] - (g + BLOCK_DIM)
                                /\ k + View[i] < Size[i] - SHOW_MIN
                             THEN k + 1 ELSE k)
                      /\ Good(i, p - 1, IF p - 1 < k + g /\ k > SHOW_MIN
                                          THEN k - 1 ELSE k)
    OBVIOUS
  <2>1. View[i] \in Int /\ Size[i] - SHOW_MIN \in Int
    BY <1>1
  <2> QED BY <1>1, <2>1, Follow
<1>6. CASE d = 0
  <2>1. pos' = <<x, y - 1>> /\ Toward(map, d, 1) = <<m, n - 1>>
    BY <1>2, <1>6 DEF Toward, StepOf
  <2>2. Follows(s, pos', d) <=> y - 1 < n + g /\ n > SHOW_MIN
    BY <1>1, <1>2, <1>6, <2>1 DEF Follows, Views, g
  <2> DEFINE N == IF y - 1 < n + g /\ n > SHOW_MIN THEN n - 1 ELSE n
  <2>3. map' = <<m, N>> /\ N \in Int
    BY <1>2, <2>1, <2>2
  <2>4. Good(2, y - 1, N)
    BY <1>3, <1>5
  <2> HIDE DEF N
  <2> QED BY <1>3, <1>4, <2>1, <2>3, <2>4
<1>7. CASE d = 1
  <2>1. pos' = <<x + 1, y>> /\ Toward(map, d, 1) = <<m + 1, n>>
    BY <1>2, <1>7 DEF Toward, StepOf
  <2>2. Follows(s, pos', d) <=> /\ x + 1 > m + View[1] - (g + BLOCK_DIM)
                                /\ m + View[1] < Size[1] - SHOW_MIN
    BY <1>1, <1>2, <1>7, <2>1 DEF Follows, Views
  <2> DEFINE M == IF /\ x + 1 > m + View[1] - (g + BLOCK_DIM)
                     /\ m + View[1] < Size[1] - SHOW_MIN THEN m + 1 ELSE m
  <2>3. map' = <<M, n>> /\ M \in Int
    BY <1>2, <2>1, <2>2
  <2>4. Good(1, x + 1, M)
    BY <1>3, <1>5
  <2> HIDE DEF M
  <2> QED BY <1>3, <1>4, <2>1, <2>3, <2>4
<1>8. CASE d = 2
  <2>1. pos' = <<x, y + 1>> /\ Toward(map, d, 1) = <<m, n + 1>>
    BY <1>2, <1>8 DEF Toward, StepOf
  <2>2. Follows(s, pos', d) <=> /\ y + 1 > n + View[2] - (g + BLOCK_DIM)
                                /\ n + View[2] < Size[2] - SHOW_MIN
    BY <1>1, <1>2, <1>8, <2>1 DEF Follows, Views
  <2> DEFINE N == IF /\ y + 1 > n + View[2] - (g + BLOCK_DIM)
                     /\ n + View[2] < Size[2] - SHOW_MIN THEN n + 1 ELSE n
  <2>3. map' = <<m, N>> /\ N \in Int
    BY <1>2, <2>1, <2>2
  <2>4. Good(2, y + 1, N)
    BY <1>3, <1>5
  <2> HIDE DEF N
  <2> QED BY <1>3, <1>4, <2>1, <2>3, <2>4
<1>9. CASE d = 3
  <2>1. pos' = <<x - 1, y>> /\ Toward(map, d, 1) = <<m - 1, n>>
    BY <1>2, <1>9 DEF Toward, StepOf
  <2>2. Follows(s, pos', d) <=> x - 1 < m + g /\ m > SHOW_MIN
    BY <1>1, <1>2, <1>9, <2>1 DEF Follows, Views, g
  <2> DEFINE M == IF x - 1 < m + g /\ m > SHOW_MIN THEN m - 1 ELSE m
  <2>3. map' = <<M, n>> /\ M \in Int
    BY <1>2, <2>1, <2>2
  <2>4. Good(1, x - 1, M)
    BY <1>3, <1>5
  <2> HIDE DEF M
  <2> QED BY <1>3, <1>4, <2>1, <2>3, <2>4
<1> QED BY <1>6, <1>7, <1>8, <1>9 DEF Dirs

LEMMA StepFrame == Inv /\ Inv' /\ FrameInv /\ [Next]_vars => FrameInv'
<1> SUFFICES ASSUME Inv, Inv', FrameInv, [Next]_vars PROVE FrameInv'
  OBVIOUS
<1>1. CASE UNCHANGED <<pos, map>>
  BY <1>1 DEF FrameInv, PlayerFramed, View, Size
<1>2. CASE (Making /\ UNCHANGED gameVars) \/ UNCHANGED vars
  BY <1>1, <1>2 DEF gameVars, vars
<1>3. Views(State, map)
  BY DEF State, Views
<1>4. \A s : Views(s, map) /\ Store(s) => map' = map
  BY DEF Store, Views
<1>5. CASE Prepare
  <2> DEFINE all == [p \in Visible(map) |-> {find_block(p, State)}]
             t == [State EXCEPT !.shown = all]
             s == Redrawn(Unveiled(t, Start), {Square(Start)})
  <2>1. pos' = pos /\ Store(s)
    BY <1>5 DEF Prepare
  <2>2. Views(t, map)
    <3> HIDE DEF all
    <3> QED BY DEF State, Views
  <2>3. Views(s, map)
    <3> HIDE DEF t
    <3> QED BY <2>2, UnveilingKeepsView, DrawingKeepsView
  <2> HIDE DEF s
  <2> QED BY <1>1, <1>4, <2>1, <2>3
<1>6. CASE Win
  <2>1. pos' = pos /\ Store(Unveiled(State, pos))
    BY <1>6 DEF Win
  <2> QED BY <1>1, <1>3, <1>4, <2>1, UnveilingKeepsView
<1>7. CASE Show
  <2>1. pos' = pos /\ Store(PlayerUndrawn(State, pos))
    BY <1>7 DEF Show
  <2> QED BY <1>1, <1>3, <1>4, <2>1, DrawingKeepsView
<1>8. CASE \E d \in Dirs : Steer(d)
  BY <1>1, <1>8 DEF Steer
<1>9. CASE Tick
  <2> DEFINE turned == Reversed(dir, next_dir, move_cnt)
             s == IF turned[2] = 0 THEN Unveiled(State, pos) ELSE State
             go == IF turned[2] = 0
                     THEN Chosen(turned[1], next_dir, Square(pos)) ELSE turned
             to == Toward(pos, go[1], 1)
             t == Redrawn(Moved(s, to, go[1]), {Behind(to, go[1])})
             u == PlayerDrawn(Unveiled(t, EatsAt(to, go[1])), to, go[1])
  <2>1. /\ dir' = go[1]
        /\ go[1] = DIR_STOP => Store(s) /\ pos' = pos
        /\ go[1] # DIR_STOP => Store(u) /\ pos' = to
    BY <1>9 DEF Tick
  <2>2. Views(s, map)
    BY <1>3, UnveilingKeepsView
  <2> HIDE DEF turned, s, go
  <2>3. CASE go[1] = DIR_STOP
    BY <1>1, <1>4, <2>1, <2>2, <2>3
  <2>4. CASE go[1] # DIR_STOP
    <3>1. go[1] \in Dirs
      BY <2>1, <2>4 DEF Inv, MotionInv, Dirs, DIR_STOP
    <3> DEFINE m == IF Follows(s, to, go[1]) THEN Toward(map, go[1], 1) ELSE map
    <3>2. Views(Moved(s, to, go[1]), m)
      <4> HIDE DEF to
      <4> QED BY <2>2, PanningMovesView
    <3>3. Views(u, m)
      <4> HIDE DEF m, to
      <4>1. Views(t, m)
        BY <3>2, DrawingKeepsView
      <4> HIDE DEF t
      <4> QED BY <4>1, UnveilingKeepsView, DrawingKeepsView
    <3>4. map' = m /\ pos' = to
      <4> HIDE DEF m, u
      <4> QED BY <2>1, <2>4, <3>3 DEF Store, Views
    <3> HIDE DEF u, t
    <3> QED BY <2>2, <3>1, <3>4, MoveFrame
  <2> QED BY <2>3, <2>4
<1> QED BY <1>2, <1>5, <1>6, <1>7, <1>8, <1>9 DEF Next

\* For every size of maze, view and blocks, the view keeps PAN_BORDER squares
\* around the player except where the maze ends, and never leaves the maze
\* (mazegame.c:165 to 253).
THEOREM ViewFollows == Spec => []PlayerFramed
<1>1. GameInit => Inv /\ FrameInv
  BY InitInv, InitFrame
<1>2. Inv /\ FrameInv /\ [Next]_vars => (Inv /\ FrameInv)'
  BY StepInv, StepFrame
<1>3. FrameInv => PlayerFramed
  BY DEF FrameInv
<1> QED BY <1>1, <1>2, <1>3, PTL DEF Spec

-----------------------------------------------------------------------------
(* The search of mark_maze_area().  *)

\* A set of natural numbers that is not empty has a least one.
LEMMA LeastIn ==
    ASSUME NEW S \in SUBSET Nat, S # {}
    PROVE  \E m \in S : \A n \in S : m =< n
<1> DEFINE R == OpToRel(<, Nat)
<1>1. PICK m \in S : \A n \in S : ~(<<n, m>> \in R)
  <2>1. IsWellFoundedOn(R, Nat)
    BY NatLessThanWellFounded
  <2> HIDE DEF R
  <2> QED BY <2>1, WFMin
<1>2. \A n \in S : ~(n < m)
  BY <1>1 DEF OpToRel
<1> QED BY <1>2

\* Different points inside the lattice have different cells.
LEMMA OneCellEach ==
    ASSUME NEW p \in InnerPoints, NEW q \in InnerPoints, Cell(p) = Cell(q)
    PROVE  p = q
<1> DEFINE w == XDim * 2
           a == p[1]  b == p[2]  c == q[1]  d == q[2]  k == d - b
<1>1. /\ XDim \in Nat /\ YDim \in Nat /\ w \in Nat /\ w = 2 * XDim /\ w > 0
  BY MazeAssumption
<1>2. /\ a \in 1..w - 1 /\ b \in 1..2 * YDim - 1
      /\ c \in 1..w - 1 /\ d \in 1..2 * YDim - 1
      /\ p = <<a, b>> /\ q = <<c, d>>
  BY <1>1 DEF InnerPoints
<1>3. a + (b + 1) * XDim * 2 = c + (d + 1) * XDim * 2
  BY DEF Cell, MAZE_INDEX
<1>4. /\ a \in Int /\ b \in Int /\ c \in Int /\ d \in Int /\ k \in Int
  BY <1>1, <1>2
<1>5. (b + 1) * XDim * 2 = (b + 1) * w /\ (d + 1) * XDim * 2 = (d + 1) * w
  BY <1>1, <1>4
<1>6. (d + 1) * w - (b + 1) * w = k * w
  <2> HIDE DEF w, a, b, c
  <2> QED BY <1>1, <1>4
<1>7. k * w = a - c
  <2>1. (b + 1) * w \in Int /\ (d + 1) * w \in Int
    BY <1>1, <1>4
  <2> QED BY <1>1, <1>3, <1>4, <1>5, <1>6, <2>1
<1>8. k = 0
  <2>1. a - c < w /\ a - c > 0 - w
    BY <1>1, <1>2
  <2>2. k * w < w /\ k * w > 0 - w
    BY <1>7, <2>1
  <2> HIDE DEF k, w
  <2> QED BY <1>1, <1>4, <2>2, SmallMultiple
<1>9. a = c /\ b = d
  <2>1. 0 * w = 0
    BY <1>1
  <2> QED BY <1>4, <1>7, <1>8, <2>1
<1> QED BY <1>2, <1>9

\* The two points of a passage, by direction.
LEMMA Neighbours ==
    ASSUME NEW p \in OddPoints, NEW d \in Dirs
    PROVE  /\ p = <<p[1], p[2]>> /\ p[1] \in Nat /\ p[2] \in Nat
           /\ \/ /\ d = 0 /\ Toward(p, d, 1) = <<p[1], p[2] - 1>>
                 /\ Toward(p, d, 2) = <<p[1], p[2] - 2>>
              \/ /\ d = 1 /\ Toward(p, d, 1) = <<p[1] + 1, p[2]>>
                 /\ Toward(p, d, 2) = <<p[1] + 2, p[2]>>
              \/ /\ d = 2 /\ Toward(p, d, 1) = <<p[1], p[2] + 1>>
                 /\ Toward(p, d, 2) = <<p[1], p[2] + 2>>
              \/ /\ d = 3 /\ Toward(p, d, 1) = <<p[1] - 1, p[2]>>
                 /\ Toward(p, d, 2) = <<p[1] - 2, p[2]>>
<1>1. XDim \in Nat \ {0} /\ YDim \in Nat \ {0}
  BY MazeAssumption
<1>2. p[1] \in Nat /\ p[2] \in Nat /\ p = <<p[1], p[2]>>
  BY <1>1 DEF OddPoints
<1>3. d = 0 \/ d = 1 \/ d = 2 \/ d = 3
  BY DEF Dirs
<1> QED BY <1>2, <1>3 DEF Toward, StepOf

\* A passage of the maze w leads from p to q.
Passage(w, p, q) == \E d \in Dirs : /\ q = Toward(p, d, 2)
                                    /\ Cell(Toward(p, d, 1)) \notin w

\* The boundary holds.
Closed(w) == \A p \in Edge : Cell(p) \in w

\* What is open beside an (odd,odd) point leads to the next one (maze.c:124).
LEMMA PassagesStay ==
    ASSUME Closed(walls), NEW p \in OddPoints, NEW d \in Dirs,
           Cell(Toward(p, d, 1)) \notin walls
    PROVE  Toward(p, d, 2) \in OddPoints
<1>1. XDim \in Nat \ {0} /\ YDim \in Nat \ {0}
  BY MazeAssumption
<1>2. PICK i \in 1..XDim, j \in 1..YDim : p = <<2 * i - 1, 2 * j - 1>>
  BY DEF OddPoints
<1>3. Toward(p, d, 1) \in InnerPoints
  BY OddInner, OpenIsInner DEF Closed, OpenSquare
<1>4. /\ Toward(p, d, 1)[1] \in 1..2 * XDim - 1
      /\ Toward(p, d, 1)[2] \in 1..2 * YDim - 1
  BY <1>3 DEF InnerPoints
<1>5. \E k \in 1..XDim, l \in 1..YDim :
        Toward(p, d, 2) = <<2 * k - 1, 2 * l - 1>>
  <2>1. CASE d = 0
    <3>1. j - 1 \in 1..YDim /\ Toward(p, d, 2) = <<2 * i - 1, 2 * (j - 1) - 1>>
      BY <1>1, <1>2, <1>4, <2>1, Neighbours
    <3> QED BY <3>1
  <2>2. CASE d = 1
    <3>1. i + 1 \in 1..XDim /\ Toward(p, d, 2) = <<2 * (i + 1) - 1, 2 * j - 1>>
      BY <1>1, <1>2, <1>4, <2>2, Neighbours
    <3> QED BY <3>1
  <2>3. CASE d = 2
    <3>1. j + 1 \in 1..YDim /\ Toward(p, d, 2) = <<2 * i - 1, 2 * (j + 1) - 1>>
      BY <1>1, <1>2, <1>4, <2>3, Neighbours
    <3> QED BY <3>1
  <2>4. CASE d = 3
    <3>1. i - 1 \in 1..XDim /\ Toward(p, d, 2) = <<2 * (i - 1) - 1, 2 * j - 1>>
      BY <1>1, <1>2, <1>4, <2>4, Neighbours
    <3> QED BY <3>1
  <2> QED BY <2>1, <2>2, <2>3, <2>4 DEF Dirs
<1> QED BY <1>5 DEF OddPoints

\* Passages go both ways.
LEMMA BothWays ==
    ASSUME NEW w, NEW p \in OddPoints, NEW q \in OddPoints, Passage(w, p, q)
    PROVE  Passage(w, q, p)
<1>1. PICK d \in Dirs : /\ q = Toward(p, d, 2)
                        /\ Cell(Toward(p, d, 1)) \notin w
  BY DEF Passage
<1>2. \E e \in Dirs : Toward(q, e, 2) = p /\ Toward(q, e, 1) = Toward(p, d, 1)
  <2>1. 0 \in Dirs /\ 1 \in Dirs /\ 2 \in Dirs /\ 3 \in Dirs
    BY DEF Dirs
  <2>2. CASE d = 0
    BY <1>1, <2>1, <2>2, Neighbours
  <2>3. CASE d = 1
    BY <1>1, <2>1, <2>3, Neighbours
  <2>4. CASE d = 2
    BY <1>1, <2>1, <2>4, Neighbours
  <2>5. CASE d = 3
    BY <1>1, <2>1, <2>5, Neighbours
  <2> QED BY <2>2, <2>3, <2>4, <2>5 DEF Dirs
<1> QED BY <1>1, <1>2 DEF Passage

\* The wall between two points is between no other two.
LEMMA WallBetween ==
    ASSUME NEW p \in OddPoints, NEW d \in Dirs, Toward(p, d, 2) \in OddPoints,
           NEW q \in OddPoints, NEW e \in Dirs, Toward(q, e, 2) \in OddPoints,
           Cell(Toward(p, d, 1)) = Cell(Toward(q, e, 1))
    PROVE  \/ q = p /\ Toward(q, e, 2) = Toward(p, d, 2)
           \/ q = Toward(p, d, 2) /\ Toward(q, e, 2) = p
<1>1. XDim \in Nat \ {0} /\ YDim \in Nat \ {0}
  BY MazeAssumption
<1>2. Toward(p, d, 1) = Toward(q, e, 1)
  BY OddSteps, OneCellEach
<1>3. PICK i \in 1..XDim, j \in 1..YDim : p = <<2 * i - 1, 2 * j - 1>>
  BY DEF OddPoints
<1>4. PICK k \in 1..XDim, l \in 1..YDim : q = <<2 * k - 1, 2 * l - 1>>
  BY DEF OddPoints
<1>5. d \in 0..3 /\ e \in 0..3
  BY DEF Dirs
<1>6. CASE d \in {0, 2}
  <2>1. \/ /\ d = 0 /\ Toward(p, d, 1) = <<2 * i - 1, 2 * j - 2>>
           /\ Toward(p, d, 2) = <<2 * i - 1, 2 * j - 3>>
        \/ /\ d = 2 /\ Toward(p, d, 1) = <<2 * i - 1, 2 * j>>
           /\ Toward(p, d, 2) = <<2 * i - 1, 2 * j + 1>>
    BY <1>1, <1>3, <1>6 DEF Toward, StepOf
  <2>2. \/ /\ e = 0 /\ Toward(q, e, 1) = <<2 * k - 1, 2 * l - 2>>
           /\ Toward(q, e, 2) = <<2 * k - 1, 2 * l - 3>>
        \/ /\ e = 2 /\ Toward(q, e, 1) = <<2 * k - 1, 2 * l>>
           /\ Toward(q, e, 2) = <<2 * k - 1, 2 * l + 1>>
    <3>1. e \in {0, 2}
      <4>1. CASE e = 1
        <5>1. Toward(q, e, 1) = <<2 * k, 2 * l - 1>>
          BY <1>1, <1>4, <4>1 DEF Toward, StepOf
        <5> QED BY <1>1, <1>2, <2>1, <5>1
      <4>2. CASE e = 3
        <5>1. Toward(q, e, 1) = <<2 * k - 2, 2 * l - 1>>
          BY <1>1, <1>4, <4>2 DEF Toward, StepOf
        <5> QED BY <1>1, <1>2, <2>1, <5>1
      <4> QED BY <1>5, <4>1, <4>2
    <3> QED BY <1>1, <1>4, <3>1 DEF Toward, StepOf
  <2> QED BY <1>1, <1>2, <1>3, <1>4, <2>1, <2>2
<1>7. CASE d \in {1, 3}
  <2>1. \/ /\ d = 1 /\ Toward(p, d, 1) = <<2 * i, 2 * j - 1>>
           /\ Toward(p, d, 2) = <<2 * i + 1, 2 * j - 1>>
        \/ /\ d = 3 /\ Toward(p, d, 1) = <<2 * i - 2, 2 * j - 1>>
           /\ Toward(p, d, 2) = <<2 * i - 3, 2 * j - 1>>
    BY <1>1, <1>3, <1>7 DEF Toward, StepOf
  <2>2. \/ /\ e = 1 /\ Toward(q, e, 1) = <<2 * k, 2 * l - 1>>
           /\ Toward(q, e, 2) = <<2 * k + 1, 2 * l - 1>>
        \/ /\ e = 3 /\ Toward(q, e, 1) = <<2 * k - 2, 2 * l - 1>>
           /\ Toward(q, e, 2) = <<2 * k - 3, 2 * l - 1>>
    <3>1. e \in {1, 3}
      <4>1. CASE e = 0
        <5>1. Toward(q, e, 1) = <<2 * k - 1, 2 * l - 2>>
          BY <1>1, <1>4, <4>1 DEF Toward, StepOf
        <5> QED BY <1>1, <1>2, <2>1, <5>1
      <4>2. CASE e = 2
        <5>1. Toward(q, e, 1) = <<2 * k - 1, 2 * l>>
          BY <1>1, <1>4, <4>2 DEF Toward, StepOf
        <5> QED BY <1>1, <1>2, <2>1, <5>1
      <4> QED BY <1>5, <4>1, <4>2
    <3> QED BY <1>1, <1>4, <3>1 DEF Toward, StepOf
  <2> QED BY <1>1, <1>2, <1>3, <1>4, <2>1, <2>2
<1> QED BY <1>5, <1>6, <1>7

\* What the queue of the search holds, whose marked cells were marked before:
\* different (odd,odd) points, none of them marked, each of them found from
\* one that was queued earlier.
Search(q, from, marked) ==
    /\ q \in Seq(OddPoints)
    /\ 1 \in 1..Len(q) /\ q[1] = from
    /\ \A i, j \in 1..Len(q) : q[i] = q[j] => i = j
    /\ \A i \in 1..Len(q) : Cell(q[i]) \notin marked
    /\ \A i \in 1..Len(q) : i # 1 =>
         \E j \in 1..Len(q) : j < i /\ Passage(walls, q[j], q[i])

\* All that the first n points of the queue lead to is marked.
Spread(q, n, marked) ==
    \A i \in 1..Len(q), d \in Dirs :
        i =< n /\ Cell(Toward(q[i], d, 1)) \notin walls
          => Cell(Toward(q[i], d, 2)) \in Seen(q, marked)

\* The queue t begins with q.
Extends(t, q) == /\ Len(q) \in Nat /\ Len(t) \in Nat /\ Len(q) =< Len(t)
                 /\ \A i \in 1..Len(q) : t[i] = q[i]

LEMMA SeenGrows ==
    ASSUME NEW q, NEW t, NEW marked, Extends(t, q)
    PROVE  Seen(q, marked) \subseteq Seen(t, marked)
<1>1. \A i \in 1..Len(q) : i \in 1..Len(t) /\ t[i] = q[i]
  BY DEF Extends
<1> QED BY <1>1 DEF Seen

\* Exploring one direction.
LEMMA TryFinds ==
    ASSUME Closed(walls), NEW q, NEW from, NEW marked, Search(q, from, marked),
           NEW k \in 1..Len(q), NEW d \in Dirs
    PROVE  LET t == Try(q, q[k], d, marked)
           IN  /\ Search(t, from, marked) /\ Extends(t, q)
               /\ Cell(Toward(q[k], d, 1)) \notin walls
                    => Cell(Toward(q[k], d, 2)) \in Seen(t, marked)
<1> DEFINE cur == q[k]
           next == Toward(cur, d, 2)
           t == Try(q, cur, d, marked)
<1>1. q \in Seq(OddPoints) /\ Len(q) \in Nat /\ cur \in OddPoints
  BY DEF Search
<1>2. CASE \/ Cell(Toward(cur, d, 1)) \in walls
           \/ Cell(next) \in Seen(q, marked)
  <2>1. t = q
    BY <1>2 DEF Try
  <2>2. Extends(q, q)
    BY <1>1 DEF Extends
  <2> QED BY <1>2, <2>1, <2>2
<1>3. CASE /\ Cell(Toward(cur, d, 1)) \notin walls
           /\ Cell(next) \notin Seen(q, marked)
  <2>1. next \in OddPoints
    BY <1>1, <1>3, PassagesStay
  <2>2. t = Append(q, next)
    BY <1>3 DEF Try
  <2>3. Cell(next) \notin marked /\ \A i \in 1..Len(q) : q[i] # next
    BY <1>3 DEF Seen
  <2>4. Passage(walls, cur, next)
    BY <1>3 DEF Passage
  <2> HIDE DEF cur, next, t
  <2>5. /\ t \in Seq(OddPoints) /\ Len(t) = Len(q) + 1 /\ t[Len(q) + 1] = next
        /\ \A i \in 1..Len(q) : t[i] = q[i]
    BY <1>1, <2>1, <2>2
  <2>6. Extends(t, q)
    BY <1>1, <2>5 DEF Extends
  <2>7. \A i \in 1..Len(t) : i \in 1..Len(q) \/ i = Len(q) + 1
    BY <1>1, <2>5
  <2>8. 1 \in 1..Len(t) /\ t[1] = from
    BY <1>1, <2>5 DEF Search
  <2>9. \A i, j \in 1..Len(t) : t[i] = t[j] => i = j
    BY <2>3, <2>5, <2>7 DEF Search
  <2>10. \A i \in 1..Len(t) : Cell(t[i]) \notin marked
    BY <2>3, <2>5, <2>7 DEF Search
  <2>11. ASSUME NEW i \in 1..Len(t), i # 1
         PROVE  \E j \in 1..Len(t) : j < i /\ Passage(walls, t[j], t[i])
    <3>1. \A j \in 1..Len(q) : j \in 1..Len(t)
      BY <1>1, <2>5
    <3>2. CASE i \in 1..Len(q)
      <4>1. PICK j \in 1..Len(q) : j < i /\ Passage(walls, q[j], q[i])
        BY <2>11, <3>2 DEF Search
      <4> QED BY <3>1, <3>2, <4>1, <2>5
    <3>3. CASE i = Len(q) + 1
      <4>1. k \in 1..Len(t) /\ k < i /\ t[k] = cur /\ t[i] = next
        BY <1>1, <3>1, <3>3, <2>5 DEF cur
      <4> QED BY <4>1, <2>4
    <3> QED BY <3>2, <3>3, <2>7
  <2>12. Search(t, from, marked)
    BY <2>5, <2>8, <2>9, <2>10, <2>11 DEF Search
  <2>13. Cell(next) \in Seen(t, marked)
    <3>1. Len(q) + 1 \in 1..Len(t)
      BY <1>1, <2>5
    <3> QED BY <3>1, <2>5 DEF Seen
  <2> QED BY <2>6, <2>12, <2>13 DEF t, cur, next
<1> QED BY <1>2, <1>3

\* Exploring a point of the queue in all four directions.
LEMMA ExploredFinds ==
    ASSUME Closed(walls), NEW q, NEW from, NEW marked, Search(q, from, marked),
           NEW k \in 1..Len(q)
    PROVE  LET t == Explored(q, q[k], marked)
           IN  /\ Search(t, from, marked) /\ Extends(t, q)
               /\ \A d \in Dirs : Cell(Toward(q[k], d, 1)) \notin walls
                    => Cell(Toward(q[k], d, 2)) \in Seen(t, marked)
<1> DEFINE cur == q[k]
           a == Try(q, cur, 0, marked)
           b == Try(a, cur, 1, marked)
           c == Try(b, cur, 2, marked)
           t == Try(c, cur, 3, marked)
           Found(u, d) == Cell(Toward(cur, d, 1)) \notin walls
                            => Cell(Toward(cur, d, 2)) \in Seen(u, marked)
<1>0. 0 \in Dirs /\ 1 \in Dirs /\ 2 \in Dirs /\ 3 \in Dirs
  BY DEF Dirs
<1>1. Search(a, from, marked) /\ Extends(a, q) /\ Found(a, 0)
  BY <1>0, TryFinds
<1> HIDE DEF a
<1>2. k \in 1..Len(a) /\ a[k] = cur
  BY <1>1 DEF Extends
<1>3. Search(b, from, marked) /\ Extends(b, a) /\ Found(b, 1)
  <2> HIDE DEF cur
  <2> QED BY <1>0, <1>1, <1>2, TryFinds
<1> HIDE DEF b
<1>4. k \in 1..Len(b) /\ b[k] = cur
  BY <1>2, <1>3 DEF Extends
<1>5. Search(c, from, marked) /\ Extends(c, b) /\ Found(c, 2)
  <2> HIDE DEF cur
  <2> QED BY <1>0, <1>3, <1>4, TryFinds
<1> HIDE DEF c
<1>6. k \in 1..Len(c) /\ c[k] = cur
  BY <1>4, <1>5 DEF Extends
<1>7. Search(t, from, marked) /\ Extends(t, c) /\ Found(t, 3)
  <2> HIDE DEF cur
  <2> QED BY <1>0, <1>5, <1>6, TryFinds
<1> HIDE DEF t
<1>8. /\ Seen(a, marked) \subseteq Seen(b, marked)
      /\ Seen(b, marked) \subseteq Seen(c, marked)
      /\ Seen(c, marked) \subseteq Seen(t, marked)
  BY <1>3, <1>5, <1>7, SeenGrows
<1>9. \A d \in Dirs : Found(t, d)
  BY <1>1, <1>3, <1>5, <1>7, <1>8 DEF Dirs
<1>10. Extends(t, q)
  <2> HIDE DEF Found, cur
  <2>1. /\ Len(q) \in Nat /\ Len(a) \in Nat /\ Len(b) \in Nat /\ Len(c) \in Nat
        /\ Len(t) \in Nat /\ Len(q) =< Len(a) /\ Len(a) =< Len(b)
        /\ Len(b) =< Len(c) /\ Len(c) =< Len(t)
    BY <1>1, <1>3, <1>5, <1>7 DEF Extends
  <2>2. \A i \in 1..Len(q) : /\ i \in 1..Len(a) /\ i \in 1..Len(b)
                             /\ i \in 1..Len(c)
    BY <2>1
  <2>3. \A i \in 1..Len(q) : t[i] = q[i]
    BY <2>2, <1>1, <1>3, <1>5, <1>7 DEF Extends
  <2> QED BY <2>1, <2>3 DEF Extends
<1>11. t = Explored(q, cur, marked)
  BY DEF Explored, a, b, c, t
<1> QED BY <1>7, <1>9, <1>10, <1>11

LEMMA StepFinds ==
    ASSUME Closed(walls), NEW q, NEW from, NEW marked, Search(q, from, marked),
           NEW n \in Nat, n # 0, Spread(q, n - 1, marked)
    PROVE  LET t == SearchStep(q, n, marked)
           IN  Search(t, from, marked) /\ Spread(t, n, marked)
<1>1. Len(q) \in Nat
  BY DEF Search
<1>2. CASE n > Len(q)
  <2>1. SearchStep(q, n, marked) = q
    BY <1>2 DEF SearchStep
  <2>2. \A i \in 1..Len(q) : i =< n - 1
    BY <1>1, <1>2
  <2>3. Spread(q, n, marked)
    BY <2>2 DEF Spread
  <2> QED BY <2>1, <2>3
<1>3. CASE n =< Len(q)
  <2> DEFINE t == Explored(q, q[n], marked)
  <2>1. n \in 1..Len(q) /\ ~(n > Len(q))
    BY <1>1, <1>3
  <2>2. SearchStep(q, n, marked) = t
    BY <2>1 DEF SearchStep
  <2>3. /\ Search(t, from, marked) /\ Extends(t, q)
        /\ \A d \in Dirs : Cell(Toward(q[n], d, 1)) \notin walls
             => Cell(Toward(q[n], d, 2)) \in Seen(t, marked)
    BY <2>1, ExploredFinds
  <2> HIDE DEF t
  <2>4. Seen(q, marked) \subseteq Seen(t, marked)
    BY <2>3, SeenGrows
  <2>5. \A i \in 1..Len(t) : i =< n => i \in 1..Len(q) /\ t[i] = q[i]
    BY <2>1, <2>3, <1>1 DEF Extends
  <2>6. ASSUME NEW i \in 1..Len(t), NEW d \in Dirs, i =< n,
               Cell(Toward(t[i], d, 1)) \notin walls
        PROVE  Cell(Toward(t[i], d, 2)) \in Seen(t, marked)
    <3>1. i \in 1..Len(q) /\ t[i] = q[i]
      BY <2>5, <2>6
    <3>2. CASE i = n
      BY <3>1, <3>2, <2>3, <2>6
    <3>3. CASE i # n
      <4>1. i =< n - 1
        BY <2>6, <3>3
      <4> QED BY <3>1, <4>1, <2>4, <2>6 DEF Spread
    <3> QED BY <3>2, <3>3
  <2>7. Spread(t, n, marked)
    BY <2>6 DEF Spread
  <2> QED BY <2>2, <2>3, <2>7
<1> QED BY <1>1, <1>2, <1>3

\* The queue after each number of points.
Queues(w, from, marked, m) ==
    [n \in 0..m |-> IF n = 0 THEN <<from>>
                    ELSE SearchStep(w[n - 1], n, marked)]

\* The recursion has a solution.
LEMMA QueuesExist ==
    ASSUME NEW from, NEW marked, NEW N \in Nat
    PROVE  \E w : w = Queues(w, from, marked, N)
<1> DEFINE Step(q, n) == SearchStep(q, n, marked)
           Body(w, m) == [n \in 0..m |-> IF n = 0 THEN <<from>>
                                         ELSE Step(w[n - 1], n)]
           missing == {m \in Nat : ~\E w : w = Body(w, m)}
<1> HIDE DEF Step
<1>1. missing = {}
  <2> SUFFICES ASSUME missing # {} PROVE FALSE
    OBVIOUS
  <2>1. PICK m \in missing : \A n \in missing : m =< n
    <3>1. missing \in SUBSET Nat
      OBVIOUS
    <3> HIDE DEF missing
    <3> QED BY <3>1, LeastIn
  <2>2. m \in Nat /\ ~\E w : w = Body(w, m)
    BY <2>1
  <2>3. CASE m = 0
    <3> DEFINE w == [n \in 0..0 |-> <<from>>]
    <3>1. w = Body(w, 0)
      OBVIOUS
    <3> QED BY <2>2, <2>3, <3>1
  <2>4. CASE m # 0
    <3>1. m - 1 \in Nat /\ m - 1 \notin missing
      BY <2>1, <2>2, <2>4
    <3>2. PICK w : w = Body(w, m - 1)
      BY <3>1
    <3> DEFINE u == [n \in 0..m |-> IF n = m THEN Step(w[m - 1], m) ELSE w[n]]
    <3>3. \A n \in 0..m - 1 : w[n] = IF n = 0 THEN <<from>>
                                     ELSE Step(w[n - 1], n)
      BY <3>2
    <3>4. \A n \in 0..m : u[n] = IF n = 0 THEN <<from>> ELSE Step(u[n - 1], n)
      <4> TAKE n \in 0..m
      <4>1. CASE n = m
        BY <4>1, <2>2, <2>4
      <4>2. CASE n # m
        <5>1. n \in 0..m - 1 /\ u[n] = w[n]
          BY <4>2, <2>2
        <5>2. n # 0 => n - 1 \in 0..m /\ n - 1 # m
          BY <4>2, <2>2
        <5>3. n # 0 => u[n - 1] = w[n - 1]
          BY <5>2
        <5> HIDE DEF u
        <5> QED BY <5>1, <5>3, <3>3
      <4> QED BY <4>1, <4>2
    <3>5. u = [n \in 0..m |-> u[n]]
      OBVIOUS
    <3> HIDE DEF u
    <3>6. u = Body(u, m)
      BY <3>4, <3>5
    <3> QED BY <2>2, <3>6
  <2> QED BY <2>3, <2>4
<1>2. \E w : w = Body(w, N)
  BY <1>1
<1> QED BY <1>2 DEF Queues, Step

\* Everything about the points that mark_maze_area() marks.
LEMMA AreaFound ==
    ASSUME Closed(walls), NEW from \in OddPoints, NEW marked,
           Cell(from) \notin marked
    PROVE  LET A == MarkArea(from, marked)
           IN  /\ A \subseteq OddPoints /\ from \in A
               /\ \A p \in A : Cell(p) \notin marked
               /\ \A p \in A, r \in OddPoints :
                    Passage(walls, p, r) => r \in A \/ Cell(r) \in marked
               /\ \A S \in SUBSET A : from \in S /\ S # A =>
                    \E p \in S, r \in A \ S : Passage(walls, p, r)
<1> DEFINE N == XDim * YDim
           Q == CHOOSE w : w = Queues(w, from, marked, N)
<1>1. N \in Nat
  BY MazeAssumption
<1>2. Q = Queues(Q, from, marked, N)
  <2> HIDE DEF N
  <2> QED BY <1>1, QueuesExist
<1>3. MarkArea(from, marked) = {Q[N][i] : i \in 1..Len(Q[N])}
  BY DEF MarkArea, Queues
<1> HIDE DEF N, Q
<1>4. /\ Q[0] = <<from>>
      /\ \A n \in 0..N : n # 0 => Q[n] = SearchStep(Q[n - 1], n, marked)
  BY <1>1, <1>2 DEF Queues
<1> DEFINE Good(n) == Search(Q[n], from, marked) /\ Spread(Q[n], n, marked)
           bad == {n \in 0..N : ~Good(n)}
<1>5. Good(0)
  <2> DEFINE q == <<from>>
  <2>1. /\ q \in Seq(OddPoints) /\ Len(q) = 1 /\ q[1] = from
        /\ \A i \in 1..Len(q) : i = 1
    OBVIOUS
  <2> HIDE DEF q
  <2>2. Search(q, from, marked)
    BY <2>1 DEF Search
  <2>3. Spread(q, 0, marked)
    BY <2>1 DEF Spread
  <2> QED BY <1>4, <2>2, <2>3 DEF q
<1>6. bad = {}
  <2> SUFFICES ASSUME bad # {} PROVE FALSE
    OBVIOUS
  <2>1. PICK m \in bad : \A n \in bad : m =< n
    <3>1. bad \in SUBSET Nat
      OBVIOUS
    <3> HIDE DEF bad
    <3> QED BY <3>1, LeastIn
  <2>2. m \in 0..N /\ ~Good(m) /\ m # 0
    BY <2>1, <1>5
  <2>3. m - 1 \in 0..N /\ m - 1 \notin bad
    BY <2>1, <2>2, <1>1
  <2>4. Good(m - 1)
    BY <2>3
  <2>5. m \in Nat
    BY <2>2
  <2>6. Good(m)
    BY <2>2, <2>4, <2>5, <1>4, StepFinds
  <2> QED BY <2>2, <2>6
<1>7. Search(Q[N], from, marked) /\ Spread(Q[N], N, marked)
  BY <1>1, <1>6
<1> DEFINE q == Q[N]
           A == {q[i] : i \in 1..Len(q)}
<1>8. Search(q, from, marked) /\ Spread(q, N, marked)
  BY <1>7
<1> HIDE DEF q, Good, bad
<1>9. q \in Seq(OddPoints) /\ Len(q) \in Nat /\ \A i \in 1..Len(q) : q[i] \in OddPoints
  BY <1>8 DEF Search
<1>10. Len(q) =< N
  <2>1. q \in Injection(1..Len(q), OddPoints)
    <3>1. q \in [1..Len(q) -> OddPoints]
      BY <1>9
    <3> QED BY <3>1, <1>8 DEF Search, Injection, IsInjective
  <2>2. Cardinality(1..Len(q)) = Len(q)
    <3>1. Cardinality(1..Len(q)) = IF 1 > Len(q) THEN 0 ELSE Len(q) - 1 + 1
      BY <1>9, FS_Interval
    <3> QED BY <3>1, <1>9
  <2>3. Cardinality(1..Len(q)) =< Cardinality(OddPoints)
    BY <2>1, OddPointsCounted, FS_Injection
  <2>4. Cardinality(OddPoints) =< N /\ Cardinality(OddPoints) \in Nat
    BY OddPointsCounted, FS_CardinalityType DEF N
  <2> QED BY <2>2, <2>3, <2>4, <1>1, <1>9
<1>11. A \subseteq OddPoints /\ from \in A /\ \A p \in A : Cell(p) \notin marked
  BY <1>8, <1>9 DEF Search
<1>12. ASSUME NEW p \in A, NEW r \in OddPoints, Passage(walls, p, r)
       PROVE  r \in A \/ Cell(r) \in marked
  <2>1. PICK i \in 1..Len(q) : p = q[i]
    OBVIOUS
  <2>2. PICK d \in Dirs : /\ r = Toward(p, d, 2)
                          /\ Cell(Toward(p, d, 1)) \notin walls
    BY <1>12 DEF Passage
  <2>3. i =< N
    BY <1>1, <1>9, <1>10
  <2>4. Cell(r) \in Seen(q, marked)
    BY <2>1, <2>2, <2>3, <1>8 DEF Spread
  <2>5. CASE Cell(r) \notin marked
    <3>1. PICK j \in 1..Len(q) : Cell(r) = Cell(q[j])
      BY <2>4, <2>5 DEF Seen
    <3>2. r = q[j]
      BY <3>1, <1>9, OddInner, OneCellEach
    <3> QED BY <3>2
  <2> QED BY <2>5
<1>13. ASSUME NEW S \in SUBSET A, from \in S, S # A
       PROVE  \E p \in S, r \in A \ S : Passage(walls, p, r)
  <2> DEFINE out == {i \in 1..Len(q) : q[i] \notin S}
  <2>1. out # {}
    BY <1>13
  <2>2. PICK m \in out : \A n \in out : m =< n
    <3>1. out \in SUBSET Nat
      OBVIOUS
    <3> HIDE DEF out
    <3> QED BY <2>1, <3>1, LeastIn
  <2>3. m \in 1..Len(q) /\ q[m] \notin S /\ m # 1
    BY <2>2, <1>8, <1>13 DEF Search
  <2>4. PICK j \in 1..Len(q) : j < m /\ Passage(walls, q[j], q[m])
    BY <2>3, <1>8 DEF Search
  <2>5. j \notin out
    BY <2>2, <2>3, <2>4, <1>9
  <2>6. q[j] \in S /\ q[m] \in A \ S
    BY <2>3, <2>5
  <2> QED BY <2>4, <2>6
<1>14. A = MarkArea(from, marked)
  BY <1>3 DEF q
<1> HIDE DEF A
<1> QED BY <1>11, <1>12, <1>13, <1>14

-----------------------------------------------------------------------------
(* What is connected while the maze is made.  *)

\* No proper part of T is closed in the maze w.
Whole(w, T) ==
    \A S \in (SUBSET T) \ {{}, T} : \E p \in S, q \in T \ S : Passage(w, p, q)

LEMMA LinksArePassages ==
    /\ \A p, q : Link(p, q) <=> Passage(walls, p, q)
    /\ \A T : Joined(T) <=> Whole(walls, T)
<1>1. \A p, q : Link(p, q) <=> Passage(walls, p, q)
  BY DEF Link, Passage
<1> QED BY <1>1 DEF Joined, Whole

\* The same of the next state.
LEMMA NextLinks ==
    /\ \A p, q : Link(p, q)' <=> Passage(walls', p, q)
    /\ \A T : Joined(T)' <=> Whole(walls', T)
<1>1. \A p, q : Link(p, q)' <=> Passage(walls', p, q)
  BY DEF Link, Passage
<1>2. ASSUME NEW T PROVE Joined(T)' <=> Whole(walls', T)
  <2>1. Joined(T)' <=> \A S \in (SUBSET T) \ {{}, T} :
                         \E p \in S, q \in T \ S : Link(p, q)'
    BY DEF Joined
  <2> QED BY <1>1, <2>1 DEF Whole
<1> QED BY <1>1, <1>2

\* Taking walls away closes no passage.
LEMMA FewerWalls ==
    ASSUME NEW w, NEW v \in SUBSET w, NEW T, Whole(w, T)
    PROVE  Whole(v, T)
<1>1. \A p, q : Passage(w, p, q) => Passage(v, p, q)
  BY DEF Passage
<1> QED BY <1>1 DEF Whole

\* What a search has found is connected.
LEMMA FoundIsWhole ==
    ASSUME NEW w, NEW A \in SUBSET OddPoints, NEW from \in A,
           \A S \in SUBSET A : from \in S /\ S # A =>
              \E p \in S, r \in A \ S : Passage(w, p, r)
    PROVE  Whole(w, A)
<1> SUFFICES ASSUME NEW S \in SUBSET A, S # {}, S # A
             PROVE  \E p \in S, q \in A \ S : Passage(w, p, q)
  BY DEF Whole
<1>1. CASE from \in S
  BY <1>1
<1>2. CASE from \notin S
  <2>1. A \ S \in SUBSET A /\ from \in A \ S /\ A \ S # A /\ A \ (A \ S) = S
    BY <1>2
  <2>2. PICK p \in A \ S, r \in S : Passage(w, p, r)
    BY <2>1
  <2>3. Passage(w, r, p)
    BY <2>2, BothWays
  <2> QED BY <2>2, <2>3
<1> QED BY <1>1, <1>2

\* Two connected parts with a passage between them are connected.
LEMMA Together ==
    ASSUME NEW w, NEW T \in SUBSET OddPoints, NEW A \in SUBSET OddPoints,
           Whole(w, T), Whole(w, A),
           NEW p \in A, NEW r \in T, Passage(w, p, r)
    PROVE  Whole(w, T \cup A)
<1> SUFFICES ASSUME NEW S \in SUBSET (T \cup A), S # {}, S # T \cup A
             PROVE  \E a \in S, b \in (T \cup A) \ S : Passage(w, a, b)
  BY DEF Whole
<1>1. CASE T \cap S \notin {{}, T}
  <2>1. T \cap S \in (SUBSET T) \ {{}, T}
    BY <1>1
  <2>2. PICK a \in T \cap S, b \in T \ (T \cap S) : Passage(w, a, b)
    BY <2>1 DEF Whole
  <2> QED BY <2>2
<1>2. CASE A \cap S \notin {{}, A}
  <2>1. A \cap S \in (SUBSET A) \ {{}, A}
    BY <1>2
  <2>2. PICK a \in A \cap S, b \in A \ (A \cap S) : Passage(w, a, b)
    BY <2>1 DEF Whole
  <2> QED BY <2>2
<1>3. CASE T \cap S = T /\ A \cap S = {}
  <2>1. r \in S /\ p \in (T \cup A) \ S
    BY <1>3
  <2>2. Passage(w, r, p)
    BY BothWays
  <2> QED BY <2>1, <2>2
<1>4. CASE T \cap S = {} /\ A \cap S = A
  <2>1. p \in S /\ r \in (T \cup A) \ S
    BY <1>4
  <2> QED BY <2>1
<1>5. CASE T \cap S = {} /\ A \cap S = {}
  BY <1>5
<1>6. CASE T \cap S = T /\ A \cap S = A
  BY <1>6
<1> QED BY <1>1, <1>2, <1>3, <1>4, <1>5, <1>6

\* The (odd,odd) points are as many as the generator counts.
LEMMA OddPointsAll ==
    IsFiniteSet(OddPoints) /\ Cardinality(OddPoints) = XDim * YDim
<1> DEFINE S == (1..XDim) \X (1..YDim)
           f == [p \in S |-> <<2 * p[1] - 1, 2 * p[2] - 1>>]
<1>1. XDim \in Nat \ {0} /\ YDim \in Nat \ {0}
  BY MazeAssumption
<1>2. /\ IsFiniteSet(1..XDim) /\ Cardinality(1..XDim) = XDim
      /\ IsFiniteSet(1..YDim) /\ Cardinality(1..YDim) = YDim
  BY <1>1, FS_Interval
<1>3. IsFiniteSet(S) /\ Cardinality(S) = XDim * YDim
  <2>1. /\ IsFiniteSet((1..XDim) \X (1..YDim))
        /\ Cardinality((1..XDim) \X (1..YDim))
             = Cardinality(1..XDim) * Cardinality(1..YDim)
    BY <1>2, FS_Product, Zenon
  <2> QED BY <1>2, <2>1, Zenon
<1>4. f \in Injection(S, OddPoints)
  <2>1. \A p \in S : f[p] \in OddPoints
    BY DEF OddPoints
  <2>2. ASSUME NEW p \in S, NEW q \in S, f[p] = f[q]
        PROVE  p = q
    <3>1. PICK i \in 1..XDim, j \in 1..YDim : p = <<i, j>>
      OBVIOUS
    <3>2. PICK k \in 1..XDim, l \in 1..YDim : q = <<k, l>>
      OBVIOUS
    <3>3. f[p] = <<2 * i - 1, 2 * j - 1>> /\ f[q] = <<2 * k - 1, 2 * l - 1>>
      BY <3>1, <3>2
    <3> HIDE DEF f, S
    <3>4. 2 * i - 1 = 2 * k - 1 /\ 2 * j - 1 = 2 * l - 1
      BY <3>3, <2>2
    <3>5. i \in Int /\ j \in Int /\ k \in Int /\ l \in Int
      BY <1>1
    <3>6. i = k /\ j = l
      BY <3>4, <3>5
    <3> QED BY <3>1, <3>2, <3>6
  <2>3. f \in [S -> OddPoints]
    BY <2>1
  <2> HIDE DEF f, S
  <2> QED BY <2>2, <2>3 DEF Injection, IsInjective
<1> HIDE DEF f, S
<1>5. IsFiniteSet(OddPoints) /\ Cardinality(OddPoints) <= XDim * YDim
  BY OddPointsCounted
<1>6. Cardinality(S) <= Cardinality(OddPoints)
  BY <1>4, <1>5, FS_Injection
<1>7. Cardinality(OddPoints) \in Nat /\ XDim * YDim \in Nat
  BY <1>1, <1>5, FS_CardinalityType
<1> QED BY <1>3, <1>5, <1>6, <1>7

\* The points whose cells are in r.
Marked(r) == {p \in OddPoints : Cell(p) \in r}

\* In the maze w, what is marked in r is what can be reached from (1,1), and
\* k points are not.
Explains(w, r, k) ==
    /\ <<1, 1>> \in Marked(r)
    /\ Whole(w, Marked(r))
    /\ \A p \in Marked(r), q \in OddPoints \ Marked(r) : ~Passage(w, p, q)
    /\ k = Cardinality(OddPoints \ Marked(r))

MarksExplained ==
    phase = "connect" => Explains(walls, reach, gen.remaining)

LEMMA MarksMean == MarksAreReachable <=> MarksExplained
BY LinksArePassages DEF MarksAreReachable, MarksExplained, Explains, Marked

LEMMA NextMarks ==
    (phase' = "connect" => Explains(walls', reach', gen'.remaining))
      => MarksAreReachable'
<1>1. MarksAreReachable' <=> MarksExplained'
  BY MarksMean, PTL
<1> QED BY <1>1 DEF MarksExplained, Explains, Marked, Whole, Passage

\* Marking some points more.
LEMMA MarkedMore ==
    ASSUME NEW r, NEW A \in SUBSET OddPoints
    PROVE  Marked(r \cup {Cell(p) : p \in A}) = Marked(r) \cup A
<1>1. \A p \in OddPoints, q \in A : Cell(p) = Cell(q) => p = q
  BY OddInner, OneCellEach
<1> QED BY <1>1 DEF Marked

LEMMA CountedLess ==
    ASSUME NEW M \in SUBSET OddPoints, NEW A \in SUBSET (OddPoints \ M)
    PROVE  /\ Cardinality(OddPoints \ (M \cup A))
                = Cardinality(OddPoints \ M) - Cardinality(A)
           /\ Cardinality(OddPoints \ M) \in Nat
           /\ Cardinality(OddPoints \ M) = 0 => M = OddPoints
<1>1. IsFiniteSet(OddPoints \ M)
  BY OddPointsAll, FS_Difference
<1>2. Cardinality((OddPoints \ M) \ A)
        = Cardinality(OddPoints \ M) - Cardinality((OddPoints \ M) \cap A)
  BY <1>1, FS_Difference
<1>3. (OddPoints \ M) \cap A = A /\ (OddPoints \ M) \ A = OddPoints \ (M \cup A)
  OBVIOUS
<1>4. Cardinality(OddPoints \ M) \in Nat
  BY <1>1, FS_CardinalityType
<1>5. Cardinality(OddPoints \ M) = 0 => OddPoints \ M = {}
  BY <1>1, FS_EmptySet
<1> QED BY <1>2, <1>3, <1>4, <1>5

\* The first search marks what can be reached from (1,1).
LEMMA FirstMarks ==
    ASSUME Closed(walls)
    PROVE  LET A == MarkArea(<<1, 1>>, {})
           IN  Explains(walls, {Cell(p) : p \in A},
                        XDim * YDim - Cardinality(A))
<1> DEFINE A == MarkArea(<<1, 1>>, {})
<1>1. /\ A \subseteq OddPoints /\ <<1, 1>> \in A
      /\ \A p \in A, r \in OddPoints : Passage(walls, p, r) => r \in A
      /\ \A S \in SUBSET A : <<1, 1>> \in S /\ S # A =>
           \E p \in S, r \in A \ S : Passage(walls, p, r)
  BY OddInner, AreaFound
<1> HIDE DEF A
<1>2. Marked({Cell(p) : p \in A}) = A
  <2>1. Marked({} \cup {Cell(p) : p \in A}) = Marked({}) \cup A
    BY <1>1, MarkedMore
  <2>2. Marked({}) = {} /\ {} \cup {Cell(p) : p \in A} = {Cell(p) : p \in A}
    BY DEF Marked
  <2> QED BY <2>1, <2>2
<1>3. Whole(walls, A)
  BY <1>1, FoundIsWhole
<1>4. Cardinality(OddPoints \ A) = XDim * YDim - Cardinality(A)
  <2>1. Cardinality(OddPoints \ ({} \cup A))
          = Cardinality(OddPoints \ {}) - Cardinality(A)
    BY <1>1, CountedLess
  <2>2. OddPoints \ ({} \cup A) = OddPoints \ A /\ OddPoints \ {} = OddPoints
    OBVIOUS
  <2> QED BY <2>1, <2>2, OddPointsAll
<1>5. Explains(walls, {Cell(p) : p \in A}, XDim * YDim - Cardinality(A))
  BY <1>1, <1>2, <1>3, <1>4 DEF Explains
<1> QED BY <1>5 DEF A

\* Joining a point to what is marked, and marking all behind it.
LEMMA JoinMarks ==
    ASSUME Closed(walls), NEW p \in OddPoints, Cell(p) \notin reach,
           NEW d \in Dirs, Toward(p, d, 2) \in OddPoints,
           Cell(Toward(p, d, 2)) \in reach,
           NEW k, Explains(walls, reach, k)
    PROVE  LET A == MarkArea(p, reach)
           IN  Explains(walls \ {Cell(Toward(p, d, 1))},
                        reach \cup {Cell(q) : q \in A}, k - Cardinality(A))
<1> DEFINE A == MarkArea(p, reach)
           M == Marked(reach)
           next == Toward(p, d, 2)
           gone == Cell(Toward(p, d, 1))
           w == walls \ {gone}
           r == reach \cup {Cell(q) : q \in A}
<1>1. /\ A \subseteq OddPoints /\ p \in A
      /\ \A q \in A : Cell(q) \notin reach
      /\ \A q \in A, o \in OddPoints :
           Passage(walls, q, o) => o \in A \/ Cell(o) \in reach
      /\ \A S \in SUBSET A : p \in S /\ S # A =>
           \E q \in S, o \in A \ S : Passage(walls, q, o)
  BY AreaFound
<1> HIDE DEF A
<1>2. M \subseteq OddPoints /\ A \subseteq OddPoints \ M /\ next \in M
  BY <1>1 DEF Marked
<1>3. Marked(r) = M \cup A
  BY <1>1, MarkedMore
<1>4. <<1, 1>> \in M /\ Whole(walls, M) /\ k = Cardinality(OddPoints \ M)
  BY DEF Explains
<1>5. Passage(w, p, next)
  BY DEF Passage
<1>6. Whole(walls, A)
  BY <1>1, FoundIsWhole
<1>7. Whole(w, M) /\ Whole(w, A)
  BY <1>4, <1>6, FewerWalls
<1>8. Whole(w, M \cup A)
  <2> HIDE DEF M, w, next
  <2> QED BY <1>1, <1>2, <1>5, <1>7, Together
<1>9. ASSUME NEW a \in M \cup A, NEW b \in OddPoints \ (M \cup A),
             Passage(w, a, b)
      PROVE  FALSE
  <2>1. PICK e \in Dirs : /\ b = Toward(a, e, 2)
                          /\ Cell(Toward(a, e, 1)) \notin w
    BY <1>9 DEF Passage
  <2>2. CASE Cell(Toward(a, e, 1)) \notin walls
    <3>1. Passage(walls, a, b)
      BY <2>1, <2>2 DEF Passage
    <3>2. CASE a \in M
      BY <1>9, <3>1, <3>2 DEF Explains
    <3>3. CASE a \in A
      <4>1. b \in A \/ Cell(b) \in reach
        BY <1>1, <1>9, <3>1, <3>3
      <4> QED BY <4>1, <1>9 DEF Marked
    <3> QED BY <3>2, <3>3, <1>9
  <2>3. CASE Cell(Toward(a, e, 1)) \in walls
    <3>1. Cell(Toward(p, d, 1)) = Cell(Toward(a, e, 1))
      BY <2>1, <2>3
    <3>2. a \in OddPoints /\ Toward(a, e, 2) \in OddPoints
      BY <1>1, <1>2, <1>9, <2>1
    <3>3. b = next \/ b = p
      BY <2>1, <3>1, <3>2, WallBetween
    <3> QED BY <3>3, <1>1, <1>2, <1>9
  <2> QED BY <2>2, <2>3
<1>10. Cardinality(OddPoints \ (M \cup A)) = k - Cardinality(A)
  <2> HIDE DEF M
  <2> QED BY <1>2, <1>4, CountedLess
<1>11. Explains(w, r, k - Cardinality(A))
  <2> HIDE DEF M, w, r
  <2> QED BY <1>3, <1>4, <1>8, <1>9, <1>10 DEF Explains
<1> QED BY <1>11 DEF A

-----------------------------------------------------------------------------
(* Every finished maze is connected.  *)

MarksInv ==
    /\ phase \in {"start", "worm", "mark"} => reach = {}
    /\ MarksAreReachable
    /\ Connected

\* When nothing is left to mark, everything is connected.
LEMMA NothingLeft ==
    ASSUME NEW w, NEW r, NEW k, Explains(w, r, k), ~(k > 0)
    PROVE  Whole(w, OddPoints)
<1>1. Marked(r) \subseteq OddPoints
  BY DEF Marked
<1>2. k \in Nat /\ (k = 0 => Marked(r) = OddPoints)
  <2>1. {} \in SUBSET (OddPoints \ Marked(r))
    OBVIOUS
  <2> QED BY <1>1, <2>1, CountedLess DEF Explains
<1>3. k = 0
  BY <1>2
<1> QED BY <1>2, <1>3 DEF Explains

LEMMA ConnectMarks ==
    ASSUME Inv, MarksInv, Connect
    PROVE  Explains(walls', reach', gen'.remaining)
<1>1. /\ Explains(walls, reach, gen.remaining) /\ Closed(walls)
      /\ DOMAIN gen = GenFields
  BY MarksMean DEF Connect, MarksInv, MarksExplained, Inv, WallsInv, Closed, GenInv
<1>2. ASSUME NEW p \in OddPoints, Join(p), Cell(p) \notin reach
      PROVE  Explains(walls', reach', gen'.remaining)
  <2>1. CASE Usable(p) = {}
    <3>1. /\ UNCHANGED <<walls, reach>>
          /\ gen' = [gen EXCEPT !.x = p[1], !.y = p[2], !.trials = Trials,
                                !.idle = @ + 1]
      BY <1>2, <2>1 DEF Join
    <3>2. gen'.remaining = gen.remaining
      BY <1>1, <3>1 DEF GenFields
    <3> QED BY <1>1, <3>1, <3>2
  <2>2. CASE Usable(p) # {}
    <3> DEFINE A == MarkArea(p, reach)
               d == FirstUsable(p)
    <3>1. /\ walls' = walls \ {Cell(Toward(p, d, 1))}
          /\ reach' = reach \cup {Cell(q) : q \in A}
          /\ gen' = [gen EXCEPT !.x = p[1], !.y = p[2],
                        !.remaining = @ - Cardinality(A),
                        !.trials = Trials, !.idle = 0]
      BY <1>2, <2>2 DEF Join
    <3>2. /\ d \in Dirs /\ Toward(p, d, 2) \in OddPoints
          /\ Cell(Toward(p, d, 2)) \in reach
      BY <2>2, FirstUsableFound
    <3> HIDE DEF d
    <3>3. Explains(walls \ {Cell(Toward(p, d, 1))},
                   reach \cup {Cell(q) : q \in A},
                   gen.remaining - Cardinality(A))
      BY <1>1, <1>2, <3>2, JoinMarks
    <3> HIDE DEF A
    <3>4. gen'.remaining = gen.remaining - Cardinality(A)
      BY <1>1, <3>1 DEF GenFields
    <3> QED BY <3>1, <3>3, <3>4
  <2> QED BY <2>1, <2>2
<1>3. CASE Scanning /\ Cell(ScanNext) \in reach
  <2>1. /\ gen' = [gen EXCEPT !.x = ScanNext[1], !.y = ScanNext[2],
                              !.trials = Trials, !.idle = @ + 1]
        /\ UNCHANGED <<walls, reach>>
    BY <1>3 DEF Connect
  <2>2. gen'.remaining = gen.remaining
    BY <1>1, <2>1 DEF GenFields
  <2> QED BY <1>1, <2>1, <2>2
<1>4. CASE Scanning /\ Cell(ScanNext) \notin reach
  <2>1. Join(ScanNext)
    BY <1>4 DEF Connect
  <2> QED BY <1>2, <1>4, <2>1, ScanInside
<1>5. CASE ~Scanning
  <2>1. PICK p \in OddPoints : Cell(p) \notin reach /\ Join(p)
    BY <1>5 DEF Connect
  <2> QED BY <1>2, <2>1
<1> QED BY <1>3, <1>4, <1>5

LEMMA StepMarks == Inv /\ MarksInv /\ [Next]_vars => MarksInv'
<1> SUFFICES ASSUME Inv, MarksInv, [Next]_vars
             PROVE  MarksInv'
  OBVIOUS
<1>1. ASSUME phase' \in {"start", "worm", "mark"}, UNCHANGED reach,
             phase \in {"start", "worm", "mark"}
      PROVE  MarksInv'
  BY <1>1 DEF MarksInv, MarksAreReachable, Connected
<1>2. ASSUME phase' \in {"fruit", "play"}
      PROVE  MarksInv'
  BY <1>2 DEF MarksInv, MarksAreReachable, Connected
<1>3. CASE StartWorm \/ WormTurn
  BY <1>1, <1>3 DEF StartWorm, WormTurn
<1>4. CASE MarkFirst
  <2> DEFINE A == MarkArea(<<1, 1>>, {})
  <2>1. /\ reach = {} /\ Closed(walls) /\ DOMAIN gen = GenFields
        /\ phase = "mark" /\ phase' = "connect"
    BY <1>4 DEF MarkFirst, MarksInv, Inv, WallsInv, Closed, GenInv
  <2>2. Explains(walls, {Cell(p) : p \in A}, XDim * YDim - Cardinality(A))
    BY <2>1, FirstMarks
  <2>3. /\ reach' = {} \cup {Cell(p) : p \in A} /\ walls' = walls
        /\ gen' = [gen EXCEPT !.trials = 0,
                      !.remaining = XDim * YDim - Cardinality(A)]
    BY <1>4, <2>1 DEF MarkFirst
  <2> HIDE DEF A
  <2>4. {} \cup {Cell(p) : p \in A} = {Cell(p) : p \in A}
    OBVIOUS
  <2>5. gen'.remaining = XDim * YDim - Cardinality(A)
    BY <2>1, <2>3 DEF GenFields
  <2>6. Explains(walls', reach', gen'.remaining)
    BY <2>2, <2>3, <2>4, <2>5
  <2>7. MarksAreReachable'
    BY <2>6, NextMarks
  <2> QED BY <2>1, <2>7 DEF MarksInv, Connected
<1>5. CASE Connect
  <2>1. /\ phase = "connect"
        /\ phase' = IF gen'.remaining > 0 THEN "connect" ELSE "joined"
    BY <1>5 DEF Connect
  <2>2. Explains(walls', reach', gen'.remaining)
    BY <1>5, ConnectMarks
  <2>3. MarksAreReachable'
    BY <2>2, NextMarks
  <2>4. phase' = "joined" => Whole(walls', OddPoints)
    BY <2>1, <2>2, NothingLeft
  <2>5. Connected' <=> (phase' = "joined" => Joined(OddPoints)')
    BY DEF Connected
  <2>6. Connected'
    BY <2>4, <2>5, NextLinks
  <2> QED BY <2>1, <2>3, <2>6 DEF MarksInv
<1>6. CASE ClearMarks \/ AddFruit \/ PlaceExit
  BY <1>2, <1>6 DEF ClearMarks, AddFruit, PlaceExit
<1>7. CASE Prepare
  BY <1>2, <1>7 DEF Prepare
<1>8. CASE Win \/ Tick \/ \E d \in Dirs : Steer(d)
  <2>1. level = "on" /\ UNCHANGED phase
    BY <1>8 DEF Win, Tick, Steer, mazeVars
  <2>2. phase = "play"
    BY <2>1 DEF Inv, MotionInv
  <2> QED BY <1>2, <2>1, <2>2
<1>9. CASE Show \/ UNCHANGED vars
  <2>1. UNCHANGED <<walls, reach, phase, gen>>
    <3>1. CASE Show
      <4>1. PICK f : Store([State EXCEPT !.shown = f])
        BY <3>1 DEF Show, PlayerUndrawn
      <4>2. reach' = reach
        BY <4>1 DEF Store, State
      <4> QED BY <3>1, <4>2 DEF Show
    <3>2. CASE UNCHANGED vars
      BY <3>2 DEF vars, mazeVars
    <3> QED BY <1>9, <3>1, <3>2
  <2>2. MarksExplained
    BY MarksMean DEF MarksInv
  <2>3. phase' = "connect" => Explains(walls', reach', gen'.remaining)
    BY <2>1, <2>2 DEF MarksExplained
  <2>4. MarksAreReachable'
    BY <2>3, NextMarks
  <2>5. phase = "joined" => Whole(walls, OddPoints)
    BY LinksArePassages DEF MarksInv, Connected
  <2>6. phase' = "joined" => Whole(walls', OddPoints)
    BY <2>1, <2>5
  <2>7. Connected' <=> (phase' = "joined" => Joined(OddPoints)')
    BY DEF Connected
  <2>8. Connected'
    BY <2>6, <2>7, NextLinks
  <2> QED BY <2>1, <2>4, <2>8 DEF MarksInv
<1> QED BY <1>3, <1>4, <1>5, <1>6, <1>7, <1>8, <1>9 DEF Next, Making

LEMMA InitMarks == GameInit => MarksInv
BY DEF GameInit, MazeInit, MarksInv, MarksAreReachable, Connected

\* For every size of maze, whatever the worms ate and whichever points were
\* picked: the markers are on what can be reached from (1,1), the count is of
\* the rest, and in the end all points are connected (maze.c:195 to 400).
THEOREM MazeIsConnected == Spec => [](Connected /\ MarksAreReachable)
<1>1. GameInit => Inv /\ MarksInv
  BY InitInv, InitMarks
<1>2. Inv /\ MarksInv /\ [Next]_vars => (Inv /\ MarksInv)'
  BY StepInv, StepMarks
<1>3. MarksInv => Connected /\ MarksAreReachable
  BY DEF MarksInv
<1> QED BY <1>1, <1>2, <1>3, PTL DEF Spec

-----------------------------------------------------------------------------
(* What a maze holds.  *)

\* n counts the fruits f.
Counts(f, n) ==
    f \subseteq Cells /\ IsFiniteSet(f) /\ n = Cardinality(f) /\ n <= StartFruits

MazeSound ==
    /\ walls \subseteq Cells /\ reach \subseteq Cells
    /\ Counts(fruits, n_fruits)
    /\ exit \in {{}} \cup {{p} : p \in OddPoints}
    /\ gen.remaining \in 0..XDim * YDim

LEMMA OddCells == \A p \in OddPoints : Cell(p) \in Cells
<1> SUFFICES ASSUME NEW p \in OddPoints PROVE Cell(p) \in Cells
  OBVIOUS
<1>1. p \in Lattice
  BY OddInner, MazeAssumption DEF InnerPoints, Lattice
<1> QED BY <1>1, LatticeCells

LEMMA FruitAdded ==
    ASSUME NEW f, NEW n, Counts(f, n), NEW c \in Cells, c \notin f,
           n < StartFruits
    PROVE  Counts(f \cup {c}, n + 1)
<1>1. /\ IsFiniteSet(f \cup {c}) /\ Cardinality(f \cup {c}) = Cardinality(f) + 1
      /\ Cardinality(f) \in Nat
  BY FS_AddElement, FS_CardinalityType DEF Counts
<1> QED BY <1>1, MazeAssumption DEF Counts

LEMMA FruitTaken ==
    ASSUME NEW f, NEW n, Counts(f, n), NEW c \in f
    PROVE  Counts(f \ {c}, n - 1)
<1>1. /\ IsFiniteSet(f \ {c}) /\ Cardinality(f \ {c}) = Cardinality(f) - 1
      /\ Cardinality(f) \in Nat
  BY FS_RemoveElement, FS_CardinalityType DEF Counts
<1> QED BY <1>1, MazeAssumption DEF Counts

LEMMA NoFruits ==
    ASSUME NEW f, NEW n, Counts(f, n)
    PROVE  n \in 0..StartFruits /\ (n = 0 => f = {})
<1>1. n \in Nat /\ (n = 0 => f = {})
  BY FS_CardinalityType, FS_EmptySet DEF Counts
<1> QED BY <1>1, MazeAssumption DEF Counts

\* What is left to mark is a number of (odd,odd) points.
LEMMA LeftToMark ==
    ASSUME NEW w, NEW r, NEW k, Explains(w, r, k)
    PROVE  k \in 0..XDim * YDim
<1>1. /\ IsFiniteSet(OddPoints \ Marked(r))
      /\ Cardinality(OddPoints \ Marked(r)) <= Cardinality(OddPoints)
      /\ IsFiniteSet(OddPoints)
  BY OddPointsCounted, FS_Subset
<1>2. /\ Cardinality(OddPoints \ Marked(r)) \in Nat
      /\ Cardinality(OddPoints) \in Nat /\ XDim * YDim \in Nat
  BY <1>1, FS_CardinalityType, MazeAssumption
<1> QED BY <1>1, <1>2, OddPointsCounted DEF Explains

LEMMA MakingSound ==
    ASSUME Inv, Inv', MarksInv, MarksInv', MazeSound, Making
    PROVE  MazeSound'
<1>0. /\ DOMAIN gen = GenFields /\ gen.remaining \in 0..XDim * YDim
      /\ XDim * YDim \in Nat
  BY MazeAssumption DEF Inv, GenInv, MazeSound
<1>a. Cells' = Cells /\ OddPoints' = OddPoints
  BY DEF Cells, OddPoints
<1>3. ASSUME UNCHANGED <<fruits, n_fruits, exit>>, walls' \subseteq walls,
             reach' \subseteq Cells, gen'.remaining \in 0..XDim * YDim
      PROVE  MazeSound'
  <2>1. Counts(fruits', n_fruits') /\ walls' \subseteq Cells
    BY <1>3 DEF MazeSound
  <2>2. exit' \in {{}} \cup {{p} : p \in OddPoints}
    BY <1>3 DEF MazeSound
  <2> QED BY <1>3, <1>a, <2>1, <2>2 DEF MazeSound, Counts
<1>4. \A A : A \subseteq OddPoints => {Cell(p) : p \in A} \subseteq Cells
  BY OddCells
<1>5. Closed(walls)
  BY DEF Inv, WallsInv, Closed
<1>1. CASE StartWorm
  <2>1. PICK p \in OddPoints, d \in Dirs :
          /\ walls' = walls \ {Cell(p)}
          /\ gen' = [gen EXCEPT !.x = p[1], !.y = p[2], !.pref = d,
                                !.remaining = @ - 1]
    BY <1>1 DEF StartWorm
  <2>2. gen'.remaining = gen.remaining - 1
    BY <1>0, <2>1 DEF GenFields
  <2>3. phase' = "worm"
    BY <1>1 DEF StartWorm
  <2>4. gen'.remaining >= 0
    <3>1. gen'.remaining \in Int /\ Cardinality(Uneaten') <= gen'.remaining
      BY <2>3 DEF Inv, GenInv
    <3>2. Cardinality(Uneaten') \in Nat
      BY <2>1, Eating
    <3> QED BY <3>1, <3>2
  <2>5. gen'.remaining \in 0..XDim * YDim
    BY <1>0, <2>2, <2>4
  <2> QED BY <1>1, <1>3, <2>1, <2>5 DEF StartWorm, MazeSound
<1>2. CASE WormTurn
  <2>1. PICK d \in Dirs :
          IF (d - gen.pref + 4) % 4 = 2
            THEN UNCHANGED <<walls, gen>>
            ELSE LET next == Toward(Here, d, 2)
                 IN  /\ walls' = walls \ {Cell(Toward(Here, d, 1)), Cell(next)}
                     /\ gen' = [gen EXCEPT
                                  !.x = next[1], !.y = next[2], !.pref = d,
                                  !.remaining =
                                     IF Cell(next) \in walls THEN @ - 1
                                     ELSE @]
                     /\ UNCHANGED phase
    BY <1>2 DEF WormTurn
  <2> DEFINE next == Toward(Here, d, 2)
             k == IF Cell(next) \in walls THEN gen.remaining - 1
                  ELSE gen.remaining
  <2>2. walls' \subseteq walls
    BY <2>1
  <2>3. CASE UNCHANGED gen
    BY <1>0, <1>2, <1>3, <2>2, <2>3 DEF WormTurn, MazeSound
  <2>4. CASE /\ phase' = phase
             /\ gen' = [gen EXCEPT !.x = next[1], !.y = next[2], !.pref = d,
                                   !.remaining = k]
    <3>1. k = gen.remaining \/ k = gen.remaining - 1
      OBVIOUS
    <3> HIDE DEF next, k
    <3>2. gen'.remaining = k
      BY <1>0, <2>4 DEF GenFields
    <3>3. phase' = "worm"
      BY <1>2, <2>4 DEF WormTurn
    <3>4. gen'.remaining \in Int /\ Cardinality(Uneaten') <= gen'.remaining
      BY <3>3 DEF Inv, GenInv
    <3>5. Cardinality(Uneaten') \in Nat
      BY <2>2, Eating
    <3>6. gen'.remaining \in 0..XDim * YDim
      BY <1>0, <3>1, <3>2, <3>4, <3>5
    <3> QED BY <1>2, <1>3, <2>2, <3>6 DEF WormTurn, MazeSound
  <2> QED BY <2>1, <2>3, <2>4
<1>6. CASE MarkFirst
  <2> DEFINE A == MarkArea(<<1, 1>>, {})
  <2>1. reach = {} /\ UNCHANGED <<walls, fruits, n_fruits, exit>>
        /\ phase' = "connect"
    BY <1>6 DEF MarkFirst, MarksInv
  <2>2. reach' = {} \cup {Cell(p) : p \in A}
    BY <1>6, <2>1 DEF MarkFirst
  <2>3. A \subseteq OddPoints
    BY <1>5, OddInner, AreaFound
  <2> HIDE DEF A
  <2>4. gen'.remaining \in 0..XDim * YDim
    <3>1. MarksExplained'
      BY MarksMean, PTL DEF MarksInv
    <3>2. Explains(walls', reach', gen'.remaining)
      BY <2>1, <3>1 DEF MarksExplained, Explains, Marked, Whole, Passage
    <3> QED BY <3>2, LeftToMark
  <2> QED BY <1>3, <1>4, <2>1, <2>2, <2>3, <2>4
<1>7. CASE Connect
  <2>1. gen'.remaining \in 0..XDim * YDim
    BY <1>7, ConnectMarks, LeftToMark
  <2>2. /\ walls' \subseteq walls /\ reach' \subseteq Cells
        /\ UNCHANGED <<fruits, n_fruits, exit>>
    <3>1. reach \subseteq Cells /\ UNCHANGED <<fruits, n_fruits, exit>>
      BY <1>7 DEF MazeSound, Connect
    <3>2. ASSUME NEW p \in OddPoints, Cell(p) \notin reach, Join(p)
          PROVE  walls' \subseteq walls /\ reach' \subseteq Cells
      <4> DEFINE A == MarkArea(p, reach)
      <4>1. A \subseteq OddPoints
        BY <1>5, <3>2, AreaFound
      <4>2. walls' \subseteq walls
            /\ (reach' = reach \/ reach' = reach \cup {Cell(q) : q \in A})
        BY <3>2 DEF Join
      <4> HIDE DEF A
      <4> QED BY <1>4, <3>1, <4>1, <4>2
    <3>3. ScanNext \in OddPoints
      BY <1>7, ScanInside DEF Inv
    <3>4. \/ UNCHANGED <<walls, reach>>
          \/ \E p \in OddPoints : Cell(p) \notin reach /\ Join(p)
      BY <1>7, <3>3 DEF Connect
    <3> QED BY <3>1, <3>2, <3>4
  <2> QED BY <1>3, <2>1, <2>2
<1>8. CASE ClearMarks
  <2>1. /\ UNCHANGED <<fruits, n_fruits, exit>> /\ walls' \subseteq walls
        /\ reach' \subseteq reach
        /\ gen' = [gen EXCEPT !.x = 1, !.y = 1, !.pref = 0, !.trials = 0,
                              !.idle = 0]
    BY <1>8 DEF ClearMarks
  <2>2. gen'.remaining = gen.remaining
    BY <1>0, <2>1 DEF GenFields
  <2> QED BY <1>0, <1>3, <2>1, <2>2 DEF MazeSound
<1>9. CASE AddFruit
  <2>1. PICK p \in OddPoints :
          Cell(p) \notin fruits /\ fruits' = fruits \cup {Cell(p)}
    BY <1>9 DEF AddFruit
  <2>2. n_fruits < StartFruits /\ n_fruits' = n_fruits + 1
        /\ UNCHANGED <<walls, reach, exit, gen>>
    BY <1>9 DEF AddFruit
  <2>3. Counts(fruits', n_fruits')
    BY <2>1, <2>2, OddCells, FruitAdded DEF MazeSound
  <2> QED BY <1>a, <2>2, <2>3 DEF MazeSound, Counts
<1>10. CASE PlaceExit
  <2>1. exit' \in {{p} : p \in OddPoints}
        /\ UNCHANGED <<walls, reach, fruits, n_fruits, gen>>
    BY <1>10 DEF PlaceExit
  <2> QED BY <1>a, <2>1 DEF MazeSound, Counts
<1> QED BY <1>1, <1>2, <1>6, <1>7, <1>8, <1>9, <1>10 DEF Making

-----------------------------------------------------------------------------
(* Where the player can be.  *)

InPlace ==
    /\ \A i \in 1..2 : pos[i] \in BLOCK_DIM..Size[i] - 2 * BLOCK_DIM
    /\ move_cnt \in 0..BLOCK_DIM - 1

\* The corners of the inner points.
LEMMA CornerInside ==
    ASSUME NEW q \in InnerPoints
    PROVE  /\ Corner(q) \in Int \X Int
           /\ \A i \in 1..2 : Corner(q)[i] \in BLOCK_DIM..Size[i] - 2 * BLOCK_DIM
<1> DEFINE b == BLOCK_DIM
<1>1. b \in Nat /\ b > 2 /\ XDim \in Nat \ {0} /\ YDim \in Nat \ {0}
  BY GameAssumption, MazeAssumption
<1>2. /\ q[1] \in 1..2 * XDim - 1 /\ q[2] \in 1..2 * YDim - 1
  BY DEF InnerPoints
<1>3. ASSUME NEW n \in Nat, NEW k \in 1..2 * n - 1
      PROVE  k * b \in b..(2 * n + 1) * b - 2 * b
  <2>1. k - 1 \in Nat /\ 2 * n - 1 - k \in Nat
    BY <1>3
  <2>2. (k - 1) * b \in Nat /\ (2 * n - 1 - k) * b \in Nat
    BY <1>1, <2>1
  <2>3. /\ k * b = (k - 1) * b + b
        /\ (2 * n + 1) * b - 2 * b = (2 * n - 1 - k) * b + k * b
    <3> HIDE DEF b
    <3> QED BY <1>1, <1>3
  <2> HIDE DEF b
  <2> QED BY <1>1, <2>2, <2>3
<1>4. /\ q[1] * b \in b..(2 * XDim + 1) * b - 2 * b
      /\ q[2] * b \in b..(2 * YDim + 1) * b - 2 * b
  BY <1>1, <1>2, <1>3
<1>5. /\ Corner(q)[1] = q[1] * b /\ Size[1] = (2 * XDim + 1) * b
      /\ Corner(q)[2] = q[2] * b /\ Size[2] = (2 * YDim + 1) * b
  BY DEF Corner, Size
<1> QED BY <1>4, <1>5, InnerPairs

LEMMA OnInPlace == Inv /\ level = "on" => InPlace
<1> SUFFICES ASSUME Inv, level = "on" PROVE InPlace
  OBVIOUS
<1>0. BLOCK_DIM \in Nat /\ BLOCK_DIM > 2
  BY GameAssumption
<1>1. PICK q \in InnerPoints : OpenSquare(q) /\ Moving(q)
  BY DEF Inv, MotionInv
<1>2. CASE move_cnt = 0 /\ pos = Corner(q)
  BY <1>0, <1>2, CornerInside DEF InPlace
<1>3. CASE /\ move_cnt \in 1..BLOCK_DIM - 1 /\ dir \in Dirs
           /\ OpenSquare(Toward(q, (dir + 2) % 4, 1))
           /\ pos = Toward(Corner(q), (dir + 2) % 4, move_cnt)
  <2> DEFINE o == (dir + 2) % 4
             p == Toward(q, o, 1)
  <2>1. o \in Dirs /\ p \in InnerPoints
    BY <1>3 DEF Dirs, OpenSquare
  <2>2. PICK i \in Int, j \in Int : q = <<i, j>>
    BY InnerPairs
  <2>3. PICK u \in Int, v \in Int :
          /\ Corner(<<i, j>>) = <<u, v>>
          /\ Corner(<<i + 1, j>>) = <<u + BLOCK_DIM, v>>
          /\ Corner(<<i - 1, j>>) = <<u - BLOCK_DIM, v>>
          /\ Corner(<<i, j + 1>>) = <<u, v + BLOCK_DIM>>
          /\ Corner(<<i, j - 1>>) = <<u, v - BLOCK_DIM>>
    <3> DEFINE b == BLOCK_DIM
    <3>1. /\ (i + 1) * b = i * b + b /\ (i - 1) * b = i * b - b
          /\ (j + 1) * b = j * b + b /\ (j - 1) * b = j * b - b
          /\ i * b \in Int /\ j * b \in Int
      BY <1>0
    <3> QED BY <3>1 DEF Corner
  <2> HIDE DEF o
  <2>4. /\ o = 0 => p = <<i, j - 1>> /\ pos = <<u, v - move_cnt>>
        /\ o = 1 => p = <<i + 1, j>> /\ pos = <<u + move_cnt, v>>
        /\ o = 2 => p = <<i, j + 1>> /\ pos = <<u, v + move_cnt>>
        /\ o = 3 => p = <<i - 1, j>> /\ pos = <<u - move_cnt, v>>
    <3>1. pos = Toward(<<u, v>>, o, move_cnt) /\ move_cnt \in Int
      BY <1>0, <1>3, <2>2, <2>3 DEF o
    <3> QED BY <2>2, <3>1 DEF Toward, StepOf
  <2>5. /\ \A k \in 1..2 : Corner(q)[k] \in BLOCK_DIM..Size[k] - 2 * BLOCK_DIM
        /\ \A k \in 1..2 : Corner(p)[k] \in BLOCK_DIM..Size[k] - 2 * BLOCK_DIM
        /\ \A k \in 1..2 : Size[k] \in Int
    BY <2>1, CornerInside, Dimensions
  <2>6. \A k \in 1..2 : pos[k] \in BLOCK_DIM..Size[k] - 2 * BLOCK_DIM
    <3> HIDE DEF p
    <3>1. CASE o = 0
      BY <1>0, <1>3, <2>2, <2>3, <2>4, <2>5, <3>1
    <3>2. CASE o = 1
      BY <1>0, <1>3, <2>2, <2>3, <2>4, <2>5, <3>2
    <3>3. CASE o = 2
      BY <1>0, <1>3, <2>2, <2>3, <2>4, <2>5, <3>3
    <3>4. CASE o = 3
      BY <1>0, <1>3, <2>2, <2>3, <2>4, <2>5, <3>4
    <3> QED BY <2>1, <3>1, <3>2, <3>3, <3>4 DEF Dirs
  <2> QED BY <1>0, <1>3, <2>6 DEF InPlace
<1> QED BY <1>1, <1>2, <1>3 DEF Moving

\* On a square the player is the pixels of one point.
LEMMA OnSquare ==
    ASSUME Inv, level = "on", Reversed(dir, next_dir, move_cnt)[2] = 0
    PROVE  \E q \in InnerPoints : pos = Corner(q)
<1>1. move_cnt \in 0..BLOCK_DIM - 1 /\ BLOCK_DIM \in Nat
  BY OnInPlace, GameAssumption DEF InPlace
<1>2. move_cnt = 0
  <2>1. dir \in 0..DIR_STOP /\ next_dir \in 0..DIR_STOP
    BY DEF Inv, MotionInv
  <2> QED BY <1>1, <2>1, ReversedWay
<1>3. PICK q \in InnerPoints : Moving(q)
  BY DEF Inv, MotionInv
<1> QED BY <1>1, <1>2, <1>3 DEF Moving

-----------------------------------------------------------------------------
(* What the functions of a tick keep.  *)

\* All of what is in view is drawn somehow.
Filled(shows, at) ==
    DOMAIN shows = Visible(at) /\ \A p \in Visible(at) : shows[p] # {}

\* A record of the level.
Sound(s) ==
    /\ DOMAIN s = {"fruits", "n", "reach", "map", "shown"}
    /\ Counts(s.fruits, s.n) /\ s.reach \subseteq Cells
    /\ Filled(s.shown, s.map)

LEMMA DrawnOver ==
    ASSUME NEW f, NEW g, NEW at, Filled(g, at), DOMAIN f \subseteq Visible(at),
           \A p \in DOMAIN f : f[p] # {}
    PROVE  Filled(Over(f, g), at)
<1>1. /\ DOMAIN Over(f, g) = DOMAIN f \cup DOMAIN g
      /\ \A p \in DOMAIN f \cup DOMAIN g :
           Over(f, g)[p] = IF p \in DOMAIN f THEN f[p] ELSE g[p]
  BY DEF Over
<1> QED BY <1>1 DEF Filled

LEMMA ShownSound ==
    ASSUME NEW s, Sound(s), NEW f, Filled(f, s.map)
    PROVE  Sound([s EXCEPT !.shown = f]) /\ [s EXCEPT !.shown = f].map = s.map
<1> DEFINE t == [s EXCEPT !.shown = f]
<1>1. /\ DOMAIN t = {"fruits", "n", "reach", "map", "shown"}
      /\ t.fruits = s.fruits /\ t.n = s.n /\ t.reach = s.reach /\ t.map = s.map
      /\ t.shown = f
  BY DEF Sound
<1> HIDE DEF t
<1>2. Sound(t) /\ t.map = s.map
  BY <1>1 DEF Sound
<1> QED BY <1>2 DEF t

LEMMA RedrawnSound ==
    ASSUME NEW s, Sound(s), NEW points
    PROVE  Sound(Redrawn(s, points)) /\ Redrawn(s, points).map = s.map
<1> DEFINE f == [p \in points \cap DOMAIN s.shown |-> {find_block(p, s)}]
<1>1. Redrawn(s, points) = [s EXCEPT !.shown = Over(f, s.shown)]
  BY DEF Redrawn
<1>2. DOMAIN f \subseteq Visible(s.map) /\ \A p \in DOMAIN f : f[p] # {}
  BY DEF Sound, Filled
<1> HIDE DEF f
<1>3. Filled(Over(f, s.shown), s.map)
  BY <1>2, DrawnOver DEF Sound
<1> DEFINE g == Over(f, s.shown)
<1>4. Redrawn(s, points) = [s EXCEPT !.shown = g] /\ Filled(g, s.map)
  BY <1>1, <1>3
<1> HIDE DEF g
<1> QED BY <1>4, ShownSound

LEMMA FruitSound ==
    ASSUME NEW s, Sound(s), NEW q
    PROVE  Sound(check_for_fruit(s, q)) /\ check_for_fruit(s, q).map = s.map
<1>1. CASE InMaze(q) /\ Cell(q) \in s.fruits
  <2> DEFINE f == s.fruits \ {Cell(q)}
             n == s.n - 1
             t == [s EXCEPT !.fruits = f, !.n = n]
  <2>1. check_for_fruit(s, q) = Redrawn(t, Eaten(t, q))
    BY <1>1 DEF check_for_fruit
  <2>2. Counts(f, n)
    BY <1>1, FruitTaken DEF Sound
  <2> HIDE DEF f, n
  <2>3. Sound(t) /\ t.map = s.map
    <3>1. /\ DOMAIN t = {"fruits", "n", "reach", "map", "shown"}
          /\ t.fruits = f /\ t.n = n /\ t.reach = s.reach /\ t.map = s.map
          /\ t.shown = s.shown
      BY DEF Sound
    <3> HIDE DEF t
    <3> QED BY <2>2, <3>1 DEF Sound
  <2> HIDE DEF t
  <2> QED BY <2>1, <2>3, RedrawnSound
<1>2. CASE ~(InMaze(q) /\ Cell(q) \in s.fruits)
  BY <1>2 DEF check_for_fruit
<1> QED BY <1>1, <1>2

LEMMA UnveilSound ==
    ASSUME NEW s, Sound(s), NEW points
    PROVE  Sound(unveil_space(s, points)) /\ unveil_space(s, points).map = s.map
<1> DEFINE new == {p \in points \cap Lattice : Cell(p) \notin s.reach}
           r == s.reach \cup {Cell(p) : p \in new}
           t == [s EXCEPT !.reach = r]
<1>1. unveil_space(s, points) = Redrawn(t, new)
  BY DEF unveil_space
<1>2. r \subseteq Cells
  BY LatticeCells DEF Sound
<1> HIDE DEF r
<1>3. Sound(t) /\ t.map = s.map
  <2>1. /\ DOMAIN t = {"fruits", "n", "reach", "map", "shown"}
        /\ t.fruits = s.fruits /\ t.n = s.n /\ t.reach = r /\ t.map = s.map
        /\ t.shown = s.shown
    BY DEF Sound
  <2> HIDE DEF t
  <2> QED BY <1>2, <2>1 DEF Sound
<1> HIDE DEF t, new
<1> QED BY <1>1, <1>3, RedrawnSound

LEMMA UnveiledSound ==
    ASSUME NEW s, Sound(s), NEW xy
    PROVE  Sound(Unveiled(s, xy)) /\ Unveiled(s, xy).map = s.map
<1> DEFINE q == Square(xy)
           t == check_for_fruit(s, q)
           points == Around(q) \cup {Toward(q, d, 2) : d \in Dirs}
<1>1. Unveiled(s, xy) = unveil_space(t, points)
  BY DEF Unveiled
<1>2. Sound(t) /\ t.map = s.map
  BY FruitSound
<1> HIDE DEF t, points
<1> QED BY <1>1, <1>2, UnveilSound

LEMMA PlayerDrawnSound ==
    ASSUME NEW s, Sound(s), NEW xy, NEW d, Picture(xy, d) \subseteq Visible(s.map)
    PROVE  Sound(PlayerDrawn(s, xy, d))
<1> DEFINE f == [p \in Picture(xy, d) |-> s.shown[p] \cup {"player"}]
           g == Over(f, s.shown)
<1>1. PlayerDrawn(s, xy, d) = [s EXCEPT !.shown = g]
  BY DEF PlayerDrawn
<1>2. DOMAIN f \subseteq Visible(s.map) /\ \A p \in DOMAIN f : f[p] # {}
  OBVIOUS
<1>3. Filled(g, s.map)
  <2> HIDE DEF f
  <2> QED BY <1>2, DrawnOver DEF Sound
<1> HIDE DEF g
<1> QED BY <1>1, <1>3, ShownSound

LEMMA PlayerUndrawnSound ==
    ASSUME NEW s, Sound(s), NEW xy, Covered(xy) \subseteq Visible(s.map)
    PROVE  Sound(PlayerUndrawn(s, xy))
<1> DEFINE f == [p \in Covered(xy) |->
                   IF Covered(xy) = {p} THEN {"empty"}
                   ELSE (s.shown[p] \ {"player"}) \cup {"empty"}]
           g == Over(f, s.shown)
<1>1. PlayerUndrawn(s, xy) = [s EXCEPT !.shown = g]
  BY DEF PlayerUndrawn
<1>2. DOMAIN f \subseteq Visible(s.map) /\ \A p \in DOMAIN f : f[p] # {}
  OBVIOUS
<1>3. Filled(g, s.map)
  <2> HIDE DEF f
  <2> QED BY <1>2, DrawnOver DEF Sound
<1> HIDE DEF g
<1> QED BY <1>1, <1>3, ShownSound

-----------------------------------------------------------------------------
(* What is in view.  *)

\* Division keeps the order, and a step takes it one further at most.
LEMMA DivOrder ==
    ASSUME NEW n \in Nat \ {0}
    PROVE  /\ \A a \in Int : a \div n \in Int
           /\ \A a, c \in Int : a <= c => a \div n <= c \div n
           /\ \A a \in Int : (a + 1) \div n <= a \div n + 1
<1>1. \A a \in Int : /\ a \div n \in Int /\ a % n \in 0..n - 1
                     /\ a = n * (a \div n) + (a % n)
  <2> SUFFICES ASSUME NEW a \in Int
               PROVE  /\ a \div n \in Int /\ a % n \in 0..n - 1
                      /\ a = n * (a \div n) + (a % n)
    OBVIOUS
  <2>1. a \div n \in Int /\ a % n \in 0..n - 1
    OBVIOUS
  <2>2. a = (a \div n) * n + (a % n)
    OBVIOUS
  <2>3. (a \div n) * n = n * (a \div n)
    BY <2>1
  <2> QED BY <2>1, <2>2, <2>3
<1>2. ASSUME NEW a \in Int, NEW c \in Int, NEW k \in {0, 1},
             a <= c + k * n
      PROVE  a \div n <= c \div n + k
  <2> DEFINE u == a \div n
             v == c \div n + k
  <2>1. u \in Int /\ v \in Int /\ c \div n \in Int /\ k \in Int
    BY <1>1
  <2> SUFFICES ASSUME u >= v + 1 PROVE FALSE
    BY <2>1
  <2>2. PICK P \in Int, Q \in Int, K \in Int :
          P = n * u /\ Q = n * (c \div n) /\ K = k * n
    BY <2>1
  <2>3. P - (Q + K) - n >= 0
    <3>1. n * (u - v - 1) >= 0
      <4>1. u - v - 1 \in Nat
        BY <2>1
      <4> HIDE DEF u, v
      <4> QED BY <4>1
    <3>2. n * (u - v - 1) = n * u - n * v - n
      <4> HIDE DEF u, v
      <4> QED BY <2>1
    <3>3. n * v = n * (c \div n) + k * n
      <4> DEFINE e == c \div n
      <4>1. v = e + k /\ e \in Int
        BY <2>1
      <4> HIDE DEF e, v
      <4>2. n * (e + k) = n * e + k * n
        BY <2>1, <4>1
      <4> QED BY <4>1, <4>2 DEF e
    <3> HIDE DEF u, v
    <3> QED BY <2>2, <3>1, <3>2, <3>3
  <2>4. a = P + (a % n) /\ c = Q + (c % n) /\ a % n \in 0..n - 1 /\ c % n \in 0..n - 1
    BY <1>1, <2>2
  <2>5. a <= c + K
    BY <1>2, <2>2
  <2> QED BY <2>3, <2>4, <2>5
<1>3. \A a, c \in Int : a <= c => a \div n <= c \div n
  <2>1. ASSUME NEW a \in Int, NEW c \in Int, a <= c
        PROVE  a \div n <= c \div n
    <3>1. a \div n <= c \div n + 0
      <4>1. a <= c + 0 * n
        BY <2>1
      <4> QED BY <1>2, <4>1
    <3> QED BY <1>1, <3>1
  <2> QED BY <2>1
<1>4. \A a \in Int : (a + 1) \div n <= a \div n + 1
  <2>1. ASSUME NEW a \in Int PROVE (a + 1) \div n <= a \div n + 1
    <3>1. a + 1 \in Int /\ a + 1 <= a + 1 * n
      OBVIOUS
    <3> QED BY <1>2, <3>1
  <2> QED BY <2>1
<1> QED BY <1>1, <1>3, <1>4

\* A rectangle within the view.
LEMMA PointsWithin ==
    ASSUME NEW a \in Int \X Int, NEW w \in Int, NEW h \in Int,
           NEW at \in Int \X Int, a[1] >= at[1], a[2] >= at[2],
           a[1] + w <= at[1] + View[1], a[2] + h <= at[2] + View[2]
    PROVE  Points(a, w, h) \subseteq Visible(at)
<1>1. BLOCK_DIM \in Nat \ {0} /\ View[1] \in Int /\ View[2] \in Int
  BY GameAssumption, Dimensions
<1>2. /\ at[1] \div BLOCK_DIM <= a[1] \div BLOCK_DIM
      /\ at[2] \div BLOCK_DIM <= a[2] \div BLOCK_DIM
      /\ (a[1] + w - 1) \div BLOCK_DIM <= (at[1] + View[1] - 1) \div BLOCK_DIM
      /\ (a[2] + h - 1) \div BLOCK_DIM <= (at[2] + View[2] - 1) \div BLOCK_DIM
  <2>1. /\ a[1] + w - 1 \in Int /\ at[1] + View[1] - 1 \in Int
        /\ a[2] + h - 1 \in Int /\ at[2] + View[2] - 1 \in Int
        /\ a[1] + w - 1 <= at[1] + View[1] - 1
        /\ a[2] + h - 1 <= at[2] + View[2] - 1
    BY <1>1
  <2> QED BY <1>1, <2>1, DivOrder
<1>0. /\ a[1] \in Int /\ a[2] \in Int /\ at[1] \in Int /\ at[2] \in Int
  OBVIOUS
<1>3. /\ at[1] \div BLOCK_DIM \in Int /\ a[1] \div BLOCK_DIM \in Int
      /\ at[2] \div BLOCK_DIM \in Int /\ a[2] \div BLOCK_DIM \in Int
      /\ (a[1] + w - 1) \div BLOCK_DIM \in Int
      /\ (at[1] + View[1] - 1) \div BLOCK_DIM \in Int
      /\ (a[2] + h - 1) \div BLOCK_DIM \in Int
      /\ (at[2] + View[2] - 1) \div BLOCK_DIM \in Int
  <2>1. /\ a[1] + w - 1 \in Int /\ at[1] + View[1] - 1 \in Int
        /\ a[2] + h - 1 \in Int /\ at[2] + View[2] - 1 \in Int
    BY <1>0, <1>1
  <2> QED BY <1>0, <1>1, <2>1, DivOrder
<1>4. ASSUME NEW l \in Int, NEW u \in Int, NEW m \in Int, NEW n \in Int,
             l <= m, n <= u
      PROVE  m..n \subseteq l..u
  BY <1>4
<1> QED BY <1>2, <1>3, <1>4 DEF Points, Visible

\* An interval moved by one at most gains one of its ends.
LEMMA IntervalMoved ==
    ASSUME NEW l \in Int, NEW n \in Int, NEW m \in Int, NEW o \in Int
    PROVE  /\ m <= l + 1 /\ n <= o => l..n \subseteq (m..o) \cup (l..l)
           /\ m <= l /\ n <= o + 1 => l..n \subseteq (m..o) \cup (n..n)
<1>1. ASSUME m <= l + 1, n <= o
      PROVE  l..n \subseteq (m..o) \cup (l..l)
  <2> SUFFICES ASSUME NEW k \in l..n PROVE k \in m..o \/ k = l
    OBVIOUS
  <2> QED BY <1>1
<1>2. ASSUME m <= l, n <= o + 1
      PROVE  l..n \subseteq (m..o) \cup (n..n)
  <2> SUFFICES ASSUME NEW k \in l..n PROVE k \in m..o \/ k = n
    OBVIOUS
  <2> QED BY <1>2
<1> QED BY <1>1, <1>2

\* What is in view after a pixel of panning and not in the new line was in
\* view before.
LEMMA LineNew ==
    ASSUME NEW m \in Int \X Int, NEW d \in Dirs, NEW at, at = Toward(m, d, 1)
    PROVE  /\ at \in Int \X Int
           /\ Line(at, d) \subseteq Visible(at)
           /\ Visible(at) \subseteq Visible(m) \cup Line(at, d)
<1>1. BLOCK_DIM \in Nat \ {0}
  BY GameAssumption
<1> DEFINE D(z) == z \div BLOCK_DIM
<1>2. PICK x \in Int, y \in Int, v \in Int, w \in Int :
        m = <<x, y>> /\ View = <<v, w>> /\ v >= 1 /\ w >= 1
  BY Dimensions, GameAssumption DEF View
<1>3. /\ \A a \in Int : D(a) \in Int
      /\ \A a, c \in Int : a <= c => D(a) <= D(c)
      /\ \A a \in Int : D(a + 1) <= D(a) + 1
  BY <1>1, DivOrder
<1> DEFINE T(a, e) == D(a)..D(a + e - 1)
<1> HIDE DEF D
<1>4. ASSUME NEW a \in Int, NEW e \in Int, e >= 1
      PROVE  /\ T(a - 1, e) \subseteq T(a, e) \cup T(a - 1, 1)
             /\ T(a + 1, e) \subseteq T(a, e) \cup T(a + e, 1)
             /\ T(a - 1, 1) \subseteq T(a - 1, e)
             /\ T(a + e, 1) \subseteq T(a + 1, e)
  <2>1. /\ D(a - 1) \in Int /\ D(a) \in Int /\ D(a + 1) \in Int
        /\ D(a + e - 2) \in Int /\ D(a + e - 1) \in Int
        /\ D(a + e) \in Int
    <3>1. /\ a - 1 \in Int /\ a + 1 \in Int /\ a + e - 2 \in Int
          /\ a + e - 1 \in Int /\ a + e \in Int
      BY <1>4
    <3> QED BY <1>3, <3>1
  <2>2. /\ D(a - 1) <= D(a) /\ D(a) <= D(a + 1)
        /\ D(a) <= D(a - 1) + 1
        /\ D(a + e - 2) <= D(a + e - 1)
        /\ D(a + e - 1) <= D(a + e)
        /\ D(a + e) <= D(a + e - 1) + 1
        /\ D(a - 1) <= D(a + e - 2)
        /\ D(a + 1) <= D(a + e)
    <3>1. /\ a - 1 \in Int /\ a + 1 \in Int /\ a + e - 2 \in Int
          /\ a + e - 1 \in Int /\ a + e \in Int
          /\ a - 1 <= a /\ a <= a + 1 /\ a + e - 2 <= a + e - 1
          /\ a + e - 1 <= a + e /\ a - 1 <= a + e - 2 /\ a + 1 <= a + e
          /\ (a - 1) + 1 = a /\ (a + e - 1) + 1 = a + e
      BY <1>4
    <3> QED BY <1>3, <3>1
  <2>3. /\ (a - 1) + e - 1 = a + e - 2 /\ (a + 1) + e - 1 = a + e
        /\ (a + e) + 1 - 1 = a + e /\ (a - 1) + 1 - 1 = a - 1
    BY <1>4
  <2>4. /\ T(a - 1, e) = D(a - 1)..D(a + e - 2)
        /\ T(a, e) = D(a)..D(a + e - 1)
        /\ T(a + 1, e) = D(a + 1)..D(a + e)
        /\ T(a - 1, 1) = D(a - 1)..D(a - 1)
        /\ T(a + e, 1) = D(a + e)..D(a + e)
    BY <2>3
  <2> HIDE DEF T
  <2>5. PICK p \in Int, q \in Int, r \in Int, t \in Int, g \in Int, h \in Int :
          /\ p = D(a - 1) /\ q = D(a) /\ r = D(a + 1)
          /\ t = D(a + e - 2) /\ g = D(a + e - 1) /\ h = D(a + e)
    BY <2>1
  <2>6. /\ T(a - 1, e) = p..t /\ T(a, e) = q..g /\ T(a + 1, e) = r..h
        /\ T(a - 1, 1) = p..p /\ T(a + e, 1) = h..h
    BY <2>4, <2>5
  <2>7. /\ p <= q /\ q <= r /\ q <= p + 1 /\ t <= g /\ g <= h
        /\ h <= g + 1 /\ p <= t /\ r <= h
    BY <2>2, <2>5
  <2>8. p..t \subseteq (q..g) \cup (p..p) /\ r..h \subseteq (q..g) \cup (h..h)
    BY <2>7, IntervalMoved
  <2>9. p..p \subseteq p..t /\ h..h \subseteq r..h
    BY <2>7
  <2> QED BY <2>6, <2>8, <2>9
<1>5. \A i, j \in Int : Visible(<<i, j>>) = T(i, v) \X T(j, w)
  BY <1>2 DEF Visible, Points, D
<1> HIDE DEF T
<1>6. CASE d = 0
  <2>1. at = <<x, y - 1>>
    BY <1>2, <1>6 DEF Toward, StepOf
  <2>2. Line(at, d) = T(x, v) \X T(y - 1, 1)
    BY <1>2, <1>6, <2>1 DEF Line, Points, T, D
  <2> QED BY <1>2, <1>4, <1>5, <2>1, <2>2
<1>7. CASE d = 1
  <2>1. at = <<x + 1, y>>
    BY <1>2, <1>7 DEF Toward, StepOf
  <2>2. Line(at, d) = T(x + v, 1) \X T(y, w)
    <3>1. x + 1 + v - 1 = x + v
      BY <1>2
    <3> QED BY <1>2, <1>7, <2>1, <3>1 DEF Line, Points, T, D
  <2> QED BY <1>2, <1>4, <1>5, <2>1, <2>2
<1>8. CASE d = 2
  <2>1. at = <<x, y + 1>>
    BY <1>2, <1>8 DEF Toward, StepOf
  <2>2. Line(at, d) = T(x, v) \X T(y + w, 1)
    <3>1. y + 1 + w - 1 = y + w
      BY <1>2
    <3> QED BY <1>2, <1>8, <2>1, <3>1 DEF Line, Points, T, D
  <2> QED BY <1>2, <1>4, <1>5, <2>1, <2>2
<1>9. CASE d = 3
  <2>1. at = <<x - 1, y>>
    BY <1>2, <1>9 DEF Toward, StepOf
  <2>2. Line(at, d) = T(x - 1, 1) \X T(y, w)
    BY <1>2, <1>9, <2>1 DEF Line, Points, T, D
  <2> QED BY <1>2, <1>4, <1>5, <2>1, <2>2
<1> QED BY <1>6, <1>7, <1>8, <1>9 DEF Dirs

LEMMA MovedSound ==
    ASSUME NEW s, Sound(s), s.map \in Int \X Int, NEW to, NEW d \in Dirs
    PROVE  Sound(Moved(s, to, d))
<1>1. CASE Follows(s, to, d)
  <2> DEFINE at == Toward(s.map, d, 1)
             f == [p \in Line(at, d) |-> Kept(s, p) \cup {find_block(p, s)}]
             g == [p \in Visible(at) |-> Kept(s, p)]
             h == Over(f, g)
  <2>1. Moved(s, to, d) = [s EXCEPT !.map = at, !.shown = h]
    BY <1>1 DEF Moved, Panned
  <2>2. /\ Line(at, d) \subseteq Visible(at)
        /\ Visible(at) \subseteq Visible(s.map) \cup Line(at, d)
    BY LineNew
  <2>3. Filled(h, at)
    <3>1. /\ DOMAIN f = Line(at, d) /\ DOMAIN g = Visible(at)
          /\ \A p \in Line(at, d) : f[p] # {}
          /\ \A p \in Visible(at) : p \in Visible(s.map) => g[p] # {}
      BY DEF Sound, Filled, Kept
    <3> HIDE DEF f, g, at
    <3> QED BY <2>2, <3>1 DEF Filled, Over
  <2> HIDE DEF at, h
  <2>4. /\ DOMAIN Moved(s, to, d) = {"fruits", "n", "reach", "map", "shown"}
        /\ Moved(s, to, d).fruits = s.fruits /\ Moved(s, to, d).n = s.n
        /\ Moved(s, to, d).reach = s.reach /\ Moved(s, to, d).map = at
        /\ Moved(s, to, d).shown = h
    BY <2>1 DEF Sound
  <2> QED BY <2>3, <2>4 DEF Sound
<1>2. CASE ~Follows(s, to, d)
  BY <1>2 DEF Moved
<1> QED BY <1>1, <1>2

-----------------------------------------------------------------------------
(* A level is one that can be played.  *)

LevelInv ==
    /\ MazeSound /\ InPlace /\ drawn \in BOOLEAN
    /\ level = "making" => ~drawn
    /\ level # "making" => Filled(shown, map)
    /\ level = "won" => /\ fruits = {} /\ \A i \in 1..2 : pos[i] % BLOCK_DIM = 0
                        /\ Square(pos) \in exit

\* The player is in view.
PlayerInView ==
    /\ pos \in Int \X Int /\ map \in Int \X Int
    /\ \A i \in 1..2 : /\ pos[i] \in Int /\ map[i] \in Int /\ pos[i] >= map[i]
                       /\ pos[i] + BLOCK_DIM <= map[i] + View[i]

LEMMA FrameInView == FrameInv /\ InPlace => PlayerInView
<1> SUFFICES ASSUME FrameInv, InPlace PROVE PlayerInView
  OBVIOUS
<1>1. /\ BLOCK_DIM \in Int /\ SHOW_MIN \in Int /\ BLOCK_DIM * PAN_BORDER \in Int
      /\ SHOW_MIN < BLOCK_DIM /\ BLOCK_DIM * PAN_BORDER >= BLOCK_DIM
      /\ BLOCK_DIM > 2
      /\ BLOCK_DIM * (PAN_BORDER + 1) = BLOCK_DIM * PAN_BORDER + BLOCK_DIM
      /\ \A i \in 1..2 : View[i] \in Int /\ Size[i] \in Int
  BY Dimensions, GameAssumption
<1> DEFINE g == BLOCK_DIM * PAN_BORDER
<1>2. ASSUME NEW i \in 1..2
      PROVE  /\ pos[i] \in Int /\ map[i] \in Int /\ pos[i] >= map[i]
             /\ pos[i] + BLOCK_DIM <= map[i] + View[i]
  <2>1. /\ pos[i] \in Int /\ map[i] \in Int
        /\ pos[i] >= BLOCK_DIM /\ pos[i] <= Size[i] - 2 * BLOCK_DIM
        /\ pos[i] >= map[i] + g \/ map[i] = SHOW_MIN
        /\ \/ pos[i] + (g + BLOCK_DIM) <= map[i] + View[i]
           \/ map[i] + View[i] = Size[i] - SHOW_MIN
    BY <1>1 DEF FrameInv, InPlace, PlayerFramed
  <2> HIDE DEF g
  <2> QED BY <1>1, <2>1 DEF g
<1> QED BY <1>2 DEF FrameInv, PlayerInView

LEMMA PlayerCovers ==
    ASSUME NEW p \in Int \X Int, NEW m \in Int \X Int,
           \A i \in 1..2 : /\ p[i] >= m[i]
                           /\ p[i] + BLOCK_DIM <= m[i] + View[i]
    PROVE  /\ Covered(p) \subseteq Visible(m)
           /\ \A d : Picture(p, d) \subseteq Visible(m)
<1>1. BLOCK_DIM \in Nat /\ BLOCK_DIM > 2 /\ View[1] \in Int /\ View[2] \in Int
  BY GameAssumption, Dimensions
<1>2. /\ p[1] \in Int /\ p[2] \in Int /\ m[1] \in Int /\ m[2] \in Int
      /\ p[1] >= m[1] /\ p[1] + BLOCK_DIM <= m[1] + View[1]
      /\ p[2] >= m[2] /\ p[2] + BLOCK_DIM <= m[2] + View[2]
  OBVIOUS
<1>3. Covered(p) \subseteq Visible(m)
  BY <1>1, <1>2, PointsWithin DEF Covered
<1>4. Points(<<p[1], p[2] + 1>>, BLOCK_DIM, BLOCK_DIM - 2) \subseteq Visible(m)
  <2> DEFINE a == <<p[1], p[2] + 1>>
  <2>1. /\ a \in Int \X Int /\ a[1] >= m[1] /\ a[2] >= m[2]
        /\ a[1] + BLOCK_DIM <= m[1] + View[1]
        /\ a[2] + (BLOCK_DIM - 2) <= m[2] + View[2]
    BY <1>1, <1>2
  <2> HIDE DEF a
  <2>2. Points(a, BLOCK_DIM, BLOCK_DIM - 2) \subseteq Visible(m)
    BY <1>1, <2>1, PointsWithin
  <2> QED BY <2>2 DEF a
<1>5. Points(<<p[1] + 1, p[2]>>, BLOCK_DIM - 2, BLOCK_DIM) \subseteq Visible(m)
  <2> DEFINE a == <<p[1] + 1, p[2]>>
  <2>1. /\ a \in Int \X Int /\ a[1] >= m[1] /\ a[2] >= m[2]
        /\ a[1] + (BLOCK_DIM - 2) <= m[1] + View[1]
        /\ a[2] + BLOCK_DIM <= m[2] + View[2]
    BY <1>1, <1>2
  <2> HIDE DEF a
  <2>2. Points(a, BLOCK_DIM - 2, BLOCK_DIM) \subseteq Visible(m)
    BY <1>1, <2>1, PointsWithin
  <2> QED BY <2>2 DEF a
<1>6. Toward(p, 2, 1) = <<p[1], p[2] + 1>> /\ Toward(p, 1, 1) = <<p[1] + 1, p[2]>>
  BY <1>2 DEF Toward, StepOf
<1> QED BY <1>3, <1>4, <1>5, <1>6 DEF Picture

LEMMA StateSound ==
    ASSUME MazeSound, Filled(shown, map)
    PROVE  Sound(State) /\ State.map = map
BY DEF MazeSound, Sound, State

LEMMA StoredSound ==
    ASSUME MazeSound, UNCHANGED <<walls, exit, gen>>, NEW s, Sound(s), Store(s)
    PROVE  MazeSound' /\ Filled(shown', map')
<1>1. Cells' = Cells /\ OddPoints' = OddPoints
  BY DEF Cells, OddPoints
<1>2. /\ Counts(fruits', n_fruits') /\ reach' \subseteq Cells
      /\ Filled(shown', map')
  BY DEF Sound, Store
<1>3. MazeSound'
  BY <1>1, <1>2 DEF MazeSound, Counts
<1> QED BY <1>2, <1>3

LEMMA StartInPlace == Start \in Int \X Int
                      /\ \A i \in 1..2 : Start[i] \in BLOCK_DIM..Size[i] - 2 * BLOCK_DIM
<1>1. Start = Corner(<<1, 1>>)
  BY GameAssumption DEF Start, Corner
<1> QED BY <1>1, OddInner, CornerInside

LEMMA InitLevel == GameInit => LevelInv
<1> SUFFICES ASSUME GameInit PROVE LevelInv
  OBVIOUS
<1>1. Counts(fruits, n_fruits)
  BY FS_EmptySet, MazeAssumption DEF GameInit, MazeInit, Counts
<1>2. gen.remaining \in 0..XDim * YDim
  BY MazeAssumption DEF GameInit, MazeInit
<1>3. InPlace
  BY StartInPlace, GameAssumption DEF GameInit, InPlace
<1> QED BY <1>1, <1>2, <1>3 DEF GameInit, MazeInit, LevelInv, MazeSound

LEMMA StepLevel ==
    ASSUME Inv, Inv', MarksInv, MarksInv', FrameInv, FrameInv', LevelInv,
           [Next]_vars
    PROVE  LevelInv'
<1>1. \A at, f : Filled(f, at)' <=> Filled(f, at)
  BY DEF Filled, Visible, Points, View
<1>2. (Inv /\ level = "on" => InPlace)' /\ (FrameInv /\ InPlace => PlayerInView)'
  BY OnInPlace, FrameInView, PTL
<1>3. CASE Making /\ UNCHANGED gameVars
  <2>1. level = "making" /\ level' = "making"
    BY <1>3 DEF Inv, MotionInv, gameVars, Making, StartWorm, WormTurn, MarkFirst,
                Connect, ClearMarks, AddFruit, PlaceExit
  <2>2. MazeSound'
    BY <1>3, MakingSound DEF LevelInv
  <2>3. InPlace'
    BY <1>3 DEF LevelInv, InPlace, gameVars, Size
  <2>4. drawn' = drawn
    BY <1>3 DEF gameVars
  <2> QED BY <2>1, <2>2, <2>3, <2>4 DEF LevelInv
<1>4. CASE UNCHANGED vars
  <2>1. UNCHANGED <<walls, reach, fruits, n_fruits, exit, gen, level, shown,
                    map, pos, move_cnt, drawn>>
    BY <1>4 DEF vars, mazeVars, gameVars
  <2>2. Cells' = Cells /\ OddPoints' = OddPoints
    BY DEF Cells, OddPoints
  <2>3. MazeSound'
    BY <2>1, <2>2 DEF LevelInv, MazeSound, Counts
  <2>4. InPlace'
    BY <2>1 DEF LevelInv, InPlace, Size
  <2> QED BY <1>1, <2>1, <2>3, <2>4 DEF LevelInv, Square
<1>5. CASE \E d \in Dirs : Steer(d)
  <2>1. UNCHANGED <<walls, reach, fruits, n_fruits, exit, gen, level, shown,
                    map, pos, move_cnt, drawn>>
    BY <1>5 DEF Steer, mazeVars
  <2>2. Cells' = Cells /\ OddPoints' = OddPoints
    BY DEF Cells, OddPoints
  <2>3. MazeSound'
    BY <2>1, <2>2 DEF LevelInv, MazeSound, Counts
  <2>4. InPlace'
    BY <2>1 DEF LevelInv, InPlace, Size
  <2> QED BY <1>1, <2>1, <2>3, <2>4 DEF LevelInv, Square
<1>6. CASE Prepare
  <2> DEFINE all == [p \in Visible(map) |-> {find_block(p, State)}]
             t == [State EXCEPT !.shown = all]
             u == Unveiled(t, Start)
             s == Redrawn(u, {Square(Start)})
  <2>1. /\ Store(s) /\ UNCHANGED <<walls, exit, gen, drawn>>
        /\ level' = "on"
    BY <1>6 DEF Prepare
  <2>2. Filled(all, map)
    BY DEF Filled
  <2> HIDE DEF all
  <2>3. Sound(t)
    <3>1. /\ DOMAIN t = {"fruits", "n", "reach", "map", "shown"}
          /\ t.fruits = fruits /\ t.n = n_fruits /\ t.reach = reach
          /\ t.map = map /\ t.shown = all
      BY DEF State
    <3> HIDE DEF t
    <3> QED BY <2>2, <3>1 DEF Sound, LevelInv, MazeSound
  <2> HIDE DEF t
  <2>4. Sound(u)
    BY <2>3, UnveiledSound
  <2> HIDE DEF u
  <2>5. Sound(s)
    BY <2>4, RedrawnSound
  <2> HIDE DEF s
  <2>6. MazeSound' /\ Filled(shown', map')
    BY <2>1, <2>5, StoredSound DEF LevelInv
  <2>7. InPlace'
    BY <1>2, <2>1
  <2> QED BY <1>1, <2>1, <2>6, <2>7 DEF LevelInv
<1>7. level # "making" => Sound(State) /\ State.map = map
  BY StateSound DEF LevelInv
<1>8. CASE Win
  <2> DEFINE s == Unveiled(State, pos)
             q == Square(pos)
  <2>1. /\ level = "on" /\ level' = "won" /\ Store(s) /\ check_for_win(s, q)
        /\ Reversed(dir, next_dir, move_cnt)[2] = 0
        /\ UNCHANGED <<walls, exit, gen, pos, move_cnt, drawn>>
    BY <1>8 DEF Win
  <2>2. Sound(s)
    BY <1>7, <2>1, UnveiledSound
  <2> HIDE DEF s
  <2>3. MazeSound' /\ Filled(shown', map')
    BY <2>1, <2>2, StoredSound DEF LevelInv
  <2>4. InPlace'
    BY <2>1 DEF LevelInv, InPlace, Size
  <2>5. fruits' = {}
    <3>1. Counts(s.fruits, s.n) /\ s.n = 0
      BY <2>1, <2>2 DEF Sound, check_for_win
    <3> QED BY <2>1, <3>1, NoFruits DEF Store
  <2>6. PICK c \in InnerPoints : pos = Corner(c)
    BY <2>1, OnSquare
  <2>7. q = c /\ \A i \in 1..2 : pos[i] % BLOCK_DIM = 0
    BY <2>6, CornersSquare
  <2>8. q \in exit
    <3> HIDE DEF q
    <3>1. PICK e \in exit : Cell(e) = Cell(q)
      BY <2>1 DEF check_for_win, IsExit
    <3>2. e \in InnerPoints
      BY <3>1, OddInner DEF LevelInv, MazeSound
    <3> QED BY <2>7, <3>1, <3>2, OneCellEach
  <2>9. /\ \A i \in 1..2 : pos'[i] % BLOCK_DIM = 0
        /\ Square(pos') \in exit'
    BY <2>1, <2>7, <2>8
  <2> QED BY <1>1, <2>1, <2>3, <2>4, <2>5, <2>9 DEF LevelInv, Square
<1>9. CASE Show
  <2> DEFINE s == PlayerUndrawn(State, pos)
  <2>1. /\ drawn /\ ~drawn' /\ drawn' \in BOOLEAN /\ Store(s)
        /\ UNCHANGED <<walls, exit, gen, level, pos, move_cnt>>
    BY <1>9 DEF Show
  <2>2. level # "making"
    BY <2>1 DEF LevelInv
  <2>3. Covered(pos) \subseteq Visible(map)
    BY FrameInView, PlayerCovers DEF LevelInv, PlayerInView
  <2>4. Sound(s) /\ s.fruits = fruits
    <3>1. Sound(s)
      BY <1>7, <2>2, <2>3, PlayerUndrawnSound
    <3>2. PICK f : s = [State EXCEPT !.shown = f]
      BY DEF PlayerUndrawn
    <3> QED BY <3>1, <3>2 DEF State
  <2> HIDE DEF s
  <2>5. MazeSound' /\ Filled(shown', map')
    BY <2>1, <2>4, StoredSound DEF LevelInv
  <2>6. fruits' = fruits
    BY <2>1, <2>4 DEF Store
  <2>7. InPlace'
    BY <2>1 DEF LevelInv, InPlace, Size
  <2> QED BY <1>1, <2>1, <2>2, <2>5, <2>6, <2>7 DEF LevelInv, Square
<1>10. CASE Tick
  <2> DEFINE turned == Reversed(dir, next_dir, move_cnt)
             s == IF turned[2] = 0 THEN Unveiled(State, pos) ELSE State
             go == IF turned[2] = 0
                     THEN Chosen(turned[1], next_dir, Square(pos)) ELSE turned
             to == Toward(pos, go[1], 1)
             v == Moved(s, to, go[1])
             t == Redrawn(v, {Behind(to, go[1])})
             u == Unveiled(t, EatsAt(to, go[1]))
  <2>1. /\ dir' = go[1] /\ level = "on" /\ level' = "on"
        /\ UNCHANGED <<walls, exit, gen>> /\ drawn' \in BOOLEAN
        /\ go[1] = DIR_STOP => Store(s)
        /\ go[1] # DIR_STOP => Store(PlayerDrawn(u, to, go[1])) /\ pos' = to
    BY <1>10 DEF Tick, LevelInv
  <2>2. InPlace' /\ PlayerInView'
    BY <1>2, <2>1
  <2>3. Sound(s) /\ s.map = map
    BY <1>7, <2>1, UnveiledSound
  <2> HIDE DEF s, turned
  <2>4. MazeSound' /\ Filled(shown', map')
    <3>1. CASE go[1] = DIR_STOP
      BY <2>1, <2>3, <3>1, StoredSound DEF LevelInv
    <3>2. CASE go[1] # DIR_STOP
      <4> HIDE DEF go
      <4>1. go[1] \in Dirs
        BY <2>1, <3>2 DEF Inv, MotionInv, Dirs, DIR_STOP
      <4> HIDE DEF to
      <4>2. Sound(v)
        BY <2>3, <4>1, MovedSound DEF FrameInv
      <4> HIDE DEF v
      <4>3. Sound(t)
        BY <4>2, RedrawnSound
      <4> HIDE DEF t
      <4>4. Sound(u)
        BY <4>3, UnveiledSound
      <4> HIDE DEF u
      <4>5. map' = u.map /\ pos' = to
        <5>1. PICK f : PlayerDrawn(u, to, go[1]) = [u EXCEPT !.shown = f]
          BY DEF PlayerDrawn
        <5>2. map' = PlayerDrawn(u, to, go[1]).map
          BY <2>1, <3>2 DEF Store
        <5> QED BY <2>1, <3>2, <4>4, <5>1, <5>2 DEF Sound
      <4>6. Picture(to, go[1]) \subseteq Visible(u.map)
        BY <2>2, <4>5, PlayerCovers DEF PlayerInView, View
      <4>7. Sound(PlayerDrawn(u, to, go[1]))
        BY <4>4, <4>6, PlayerDrawnSound
      <4> QED BY <2>1, <3>2, <4>7, StoredSound DEF LevelInv
    <3> QED BY <3>1, <3>2
  <2> QED BY <1>1, <2>1, <2>2, <2>4 DEF LevelInv
<1> QED BY <1>3, <1>4, <1>5, <1>6, <1>8, <1>9, <1>10 DEF Next

LEMMA LevelTypes == Inv /\ FrameInv /\ LevelInv => TypeOK
<1> SUFFICES ASSUME Inv, FrameInv, LevelInv PROVE TypeOK
  OBVIOUS
<1>1. MazeTypeOK
  <2>1. gen.x \in 1..2 * XDim /\ gen.y \in 1..2 * YDim
    <3>1. <<gen.x, gen.y>> \in InnerPoints
      BY OddInner DEF Inv, GenInv, Here
    <3> QED BY <3>1, MazeAssumption DEF InnerPoints
  <2>2. n_fruits \in 0..StartFruits /\ fruits \subseteq Cells
    BY NoFruits DEF LevelInv, MazeSound, Counts
  <2> QED BY <2>1, <2>2 DEF MazeTypeOK, LevelInv, MazeSound, Inv, GenInv
<1>2. \A i \in 1..2 : /\ pos[i] \in BLOCK_DIM..Size[i] - 2 * BLOCK_DIM
                      /\ map[i] \in SHOW_MIN..Size[i] - SHOW_MIN - View[i]
  BY Dimensions DEF LevelInv, InPlace, FrameInv
<1> QED BY <1>1, <1>2 DEF TypeOK, LevelInv, InPlace, Filled, Inv, MotionInv

LEMMA LevelCounts == LevelInv => FruitsCounted
BY DEF LevelInv, MazeSound, Counts, FruitsCounted

\* For every size of maze, view and blocks, every maze that can be made and
\* every way of playing it, the maze stays one that can be played: connected
\* when it is made, its marks where the player can get, its fruits counted, and
\* a level won only on the exit with no fruit left (maze.c:143 to 400, 619 to
\* 666).
THEOREM MazeStaysSound == Spec => []MazeInv
<1>1. GameInit => Inv /\ MarksInv /\ FrameInv /\ LevelInv
  BY InitInv, InitMarks, InitFrame, InitLevel
<1>2. Inv /\ MarksInv /\ FrameInv /\ LevelInv /\ [Next]_vars
        => (Inv /\ MarksInv /\ FrameInv /\ LevelInv)'
  BY StepInv, StepMarks, StepFrame, StepLevel
<1>3. Inv /\ MarksInv /\ FrameInv /\ LevelInv => MazeInv
  BY LevelTypes, LevelCounts DEF MarksInv, MazeInv
<1> QED BY <1>1, <1>2, <1>3, PTL DEF Spec

-----------------------------------------------------------------------------
(* The search for walls to knock down gets on.  *)

\* The next point of the scan after p.
After(p) ==
    IF p[1] + 2 <= 2 * XDim THEN <<p[1] + 2, p[2]>>
    ELSE <<p[1] + 2 - 2 * XDim,
           IF p[2] + 2 <= 2 * YDim THEN p[2] + 2 ELSE p[2] + 2 - 2 * YDim>>

\* The point in column i and row j of the (odd,odd) points.
Odd(i, j) == <<2 * i - 1, 2 * j - 1>>

LEMMA OddIs ==
    /\ \A i \in 1..XDim, j \in 1..YDim : Odd(i, j) \in OddPoints
    /\ \A p \in OddPoints : \E i \in 1..XDim, j \in 1..YDim : p = Odd(i, j)
BY DEF OddPoints, Odd

LEMMA ScanOrder ==
    ASSUME NEW i \in 1..XDim, NEW j \in 1..YDim
    PROVE  After(Odd(i, j)) = IF i < XDim THEN Odd(i + 1, j)
                              ELSE Odd(1, IF j < YDim THEN j + 1 ELSE 1)
<1>1. XDim \in Nat \ {0} /\ YDim \in Nat \ {0}
  BY MazeAssumption
<1>2. CASE i < XDim
  BY <1>1, <1>2 DEF After, Odd
<1>3. CASE i = XDim /\ j < YDim
  BY <1>1, <1>3 DEF After, Odd
<1>4. CASE i = XDim /\ j = YDim
  BY <1>1, <1>4 DEF After, Odd
<1> QED BY <1>1, <1>2, <1>3, <1>4

\* A property that goes from each number to the next holds up to the last.
LEMMA Onward ==
    ASSUME NEW n \in Nat, NEW S, NEW i \in 1..n, i \in S,
           \A k \in 1..n : k \in S /\ k < n => k + 1 \in S
    PROVE  \A k \in i..n : k \in S
<1> DEFINE T == {k \in i..n : k \notin S}
<1> SUFFICES ASSUME T # {} PROVE FALSE
  OBVIOUS
<1>1. PICK m \in T : \A k \in T : m =< k
  <2>1. T \in SUBSET Nat
    OBVIOUS
  <2> HIDE DEF T
  <2> QED BY <2>1, LeastIn
<1>2. m \in i..n /\ m \notin S /\ m # i
  BY <1>1
<1>3. m - 1 \in i..n /\ m - 1 \in 1..n /\ m - 1 < n /\ m - 1 \notin T
  BY <1>1, <1>2
<1>4. m - 1 \in S
  BY <1>3
<1>5. (m - 1) + 1 \in S
  BY <1>3, <1>4
<1> QED BY <1>2, <1>5

\* The scan comes to every point.
LEMMA ScanIsRound ==
    ASSUME NEW V \in SUBSET OddPoints, V # {}, \A p \in V : After(p) \in V
    PROVE  V = OddPoints
<1>1. XDim \in Nat \ {0} /\ YDim \in Nat \ {0}
  BY MazeAssumption
<1>2. ASSUME NEW i \in 1..XDim, NEW j \in 1..YDim, Odd(i, j) \in V
      PROVE  Odd(XDim, j) \in V
  <2> DEFINE S == {k \in 1..XDim : Odd(k, j) \in V}
  <2>1. \A k \in 1..XDim : k \in S /\ k < XDim => k + 1 \in S
    <3> SUFFICES ASSUME NEW k \in 1..XDim, k \in S, k < XDim PROVE k + 1 \in S
      OBVIOUS
    <3>1. After(Odd(k, j)) = Odd(k + 1, j)
      BY ScanOrder
    <3> QED BY <1>1, <3>1
  <2>2. \A k \in i..XDim : k \in S
    <3> HIDE DEF S
    <3>1. i \in S
      BY <1>2 DEF S
    <3> QED BY <1>1, <2>1, <3>1, Onward
  <2>3. XDim \in i..XDim
    BY <1>1
  <2> QED BY <2>2, <2>3
<1>3. ASSUME NEW j \in 1..YDim, Odd(1, j) \in V
      PROVE  \A i \in 1..XDim : Odd(i, j) \in V
  <2> DEFINE S == {k \in 1..XDim : Odd(k, j) \in V}
  <2>1. \A k \in 1..XDim : k \in S /\ k < XDim => k + 1 \in S
    <3> SUFFICES ASSUME NEW k \in 1..XDim, k \in S, k < XDim PROVE k + 1 \in S
      OBVIOUS
    <3>1. After(Odd(k, j)) = Odd(k + 1, j)
      BY ScanOrder
    <3> QED BY <1>1, <3>1
  <2>2. \A k \in 1..XDim : k \in S
    <3> HIDE DEF S
    <3>1. 1 \in S /\ 1 \in 1..XDim
      BY <1>1, <1>3 DEF S
    <3> QED BY <1>1, <2>1, <3>1, Onward
  <2> QED BY <2>2
<1>4. ASSUME NEW j \in 1..YDim, Odd(XDim, j) \in V
      PROVE  Odd(1, IF j < YDim THEN j + 1 ELSE 1) \in V
  <2>1. After(Odd(XDim, j)) = Odd(1, IF j < YDim THEN j + 1 ELSE 1)
    BY <1>1, ScanOrder
  <2> QED BY <1>4, <2>1
<1> DEFINE R == {j \in 1..YDim : Odd(XDim, j) \in V}
<1>5. ASSUME NEW j \in 1..YDim, j \in R
      PROVE  (IF j < YDim THEN j + 1 ELSE 1) \in R
  <2> DEFINE k == IF j < YDim THEN j + 1 ELSE 1
  <2>1. k \in 1..YDim /\ Odd(1, k) \in V
    BY <1>1, <1>4, <1>5
  <2> HIDE DEF k
  <2>2. Odd(XDim, k) \in V
    BY <1>1, <1>3, <2>1
  <2>3. k \in R
    BY <2>1, <2>2
  <2> QED BY <2>3 DEF k
<1>6. PICK n \in 1..YDim : n \in R
  <2>1. PICK p \in V : TRUE
    OBVIOUS
  <2>2. PICK i \in 1..XDim, j \in 1..YDim : p = Odd(i, j)
    BY OddIs
  <2> QED BY <1>2, <2>1, <2>2
<1>7. \A j \in 1..YDim : j \in R /\ j < YDim => j + 1 \in R
  <2> HIDE DEF R
  <2> QED BY <1>5
<1>8. YDim \in R
  <2>1. YDim \in n..YDim
    BY <1>1
  <2> HIDE DEF R
  <2> QED BY <1>1, <1>6, <1>7, <2>1, Onward
<1>9. 1 \in R
  <2> HIDE DEF R
  <2> QED BY <1>1, <1>5, <1>8
<1>10. \A j \in 1..YDim : j \in R
  <2> HIDE DEF R
  <2>1. 1 \in 1..YDim
    BY <1>1
  <2> QED BY <1>1, <1>7, <1>9, <2>1, Onward
<1>11. ASSUME NEW i \in 1..XDim, NEW j \in 1..YDim PROVE Odd(i, j) \in V
  <2>1. Odd(1, j) \in V
    <3>1. CASE j = 1
      <4>1. YDim \in 1..YDim /\ Odd(XDim, YDim) \in V
        BY <1>1, <1>10
      <4> QED BY <1>1, <1>4, <3>1, <4>1
    <3>2. CASE j # 1
      <4>1. j - 1 \in 1..YDim /\ j - 1 < YDim /\ (j - 1) + 1 = j
        BY <1>1, <3>2
      <4>2. Odd(XDim, j - 1) \in V
        BY <1>10, <4>1
      <4> QED BY <1>4, <4>1, <4>2
    <3> QED BY <3>1, <3>2
  <2> QED BY <1>3, <2>1
<1> QED BY <1>11, OddIs

\* As long as a point is not reached, one that is not has a neighbour that is.
LEMMA SomeUsable ==
    ASSUME NEW M \in SUBSET OddPoints, <<1, 1>> \in M, M # OddPoints
    PROVE  \E p \in OddPoints \ M, d \in Dirs : Toward(p, d, 2) \in M
<1> SUFFICES ASSUME \A p \in OddPoints \ M, d \in Dirs : Toward(p, d, 2) \notin M
             PROVE  FALSE
  OBVIOUS
<1>1. XDim \in Nat \ {0} /\ YDim \in Nat \ {0}
  BY MazeAssumption
<1>2. /\ \A i, j \in Int : Toward(Odd(i + 1, j), 3, 2) = Odd(i, j)
      /\ \A i, j \in Int : Toward(Odd(i, j + 1), 0, 2) = Odd(i, j)
      /\ 0 \in Dirs /\ 3 \in Dirs
  BY DEF Toward, StepOf, Odd, Dirs
<1>3. \A i \in 1..XDim : Odd(i, 1) \in M
  <2> DEFINE S == {k \in 1..XDim : Odd(k, 1) \in M}
  <2>1. \A k \in 1..XDim : k \in S /\ k < XDim => k + 1 \in S
    <3> SUFFICES ASSUME NEW k \in 1..XDim, k \in S, k < XDim
                 PROVE  Odd(k + 1, 1) \in M
      BY <1>1
    <3>1. Odd(k + 1, 1) \in OddPoints
      BY <1>1, OddIs
    <3>2. Toward(Odd(k + 1, 1), 3, 2) \in M
      BY <1>1, <1>2
    <3> QED BY <1>2, <3>1, <3>2
  <2>2. 1 \in S /\ 1 \in 1..XDim
    BY <1>1 DEF Odd
  <2> HIDE DEF S
  <2>3. \A k \in 1..XDim : k \in S
    BY <1>1, <2>1, <2>2, Onward
  <2> QED BY <2>3 DEF S
<1>4. ASSUME NEW i \in 1..XDim
      PROVE  \A j \in 1..YDim : Odd(i, j) \in M
  <2> DEFINE S == {k \in 1..YDim : Odd(i, k) \in M}
  <2>1. \A k \in 1..YDim : k \in S /\ k < YDim => k + 1 \in S
    <3> SUFFICES ASSUME NEW k \in 1..YDim, k \in S, k < YDim
                 PROVE  Odd(i, k + 1) \in M
      BY <1>1
    <3>1. Odd(i, k + 1) \in OddPoints
      BY <1>1, OddIs
    <3>2. Toward(Odd(i, k + 1), 0, 2) \in M
      BY <1>1, <1>2
    <3> QED BY <1>2, <3>1, <3>2
  <2>2. 1 \in S /\ 1 \in 1..YDim
    BY <1>1, <1>3
  <2> HIDE DEF S
  <2>3. \A k \in 1..YDim : k \in S
    BY <1>1, <2>1, <2>2, Onward
  <2> QED BY <2>3 DEF S
<1> QED BY <1>4, OddIs

\* Points that the search would pass by.
Passed(p) == Cell(p) \in reach \/ Usable(p) = {}

\* V is what the scan came to since something was joined, up to where it is.
Scanned(V, here) ==
    /\ V \subseteq OddPoints
    /\ V # {} => here \in V
    /\ \A p \in V : p = here \/ After(p) \in V

\* After some random picks the scan has come to as many points as rounds.
IdleInv ==
    /\ phase \in {"start", "worm", "mark"} => gen.idle = 0
    /\ phase = "connect" =>
         /\ gen.trials \in 0..MaxTrials
         /\ \E V \in SUBSET OddPoints, a \in 0..gen.trials :
              /\ gen.idle = a + Cardinality(V)
              /\ Scanned(V, Here) /\ (V # {} => Scanning)
              /\ \A p \in V : Passed(p)

\* While a point is not reached, the scan has not come to all.
LEMMA NotAllPassed ==
    ASSUME Inv, MarksInv, phase = "connect", gen.remaining > 0
    PROVE  \E p \in OddPoints : ~Passed(p)
<1> DEFINE M == Marked(reach)
<1>1. <<1, 1>> \in M /\ gen.remaining = Cardinality(OddPoints \ M)
  BY MarksMean DEF MarksInv, MarksExplained, Explains
<1>2. M \subseteq OddPoints /\ M # OddPoints
  <2>1. M \subseteq OddPoints
    BY DEF Marked
  <2>2. M = OddPoints => Cardinality(OddPoints \ M) = 0
    <3> HIDE DEF M
    <3> QED BY FS_EmptySet
  <2> QED BY <1>1, <2>1, <2>2
<1>3. PICK p \in OddPoints \ M, d \in Dirs : Toward(p, d, 2) \in M
  <2> HIDE DEF M
  <2> QED BY <1>1, <1>2, SomeUsable
<1>4. Cell(p) \notin reach
  BY <1>3 DEF Marked
<1>5. PICK i \in 1..4 : Tried[i] = d
  BY DEF Tried, Dirs
<1>6. i \in Usable(p)
  BY <1>3, <1>5 DEF Usable, Marked
<1> QED BY <1>4, <1>6 DEF Passed

\* One more round of the scan finds a point it had not come to.
LEMMA ScanOn ==
    ASSUME NEW V, NEW h \in OddPoints, Scanned(V, h),
           V # OddPoints
    PROVE  LET W == V \cup {After(h)}
           IN  /\ After(h) \in OddPoints /\ Scanned(W, After(h))
               /\ Cardinality(W) = Cardinality(V) + 1
<1>1. After(h) \in OddPoints
  <2>1. PICK i \in 1..XDim, j \in 1..YDim : h = Odd(i, j)
    BY OddIs
  <2>2. /\ i < XDim => i + 1 \in 1..XDim /\ 1 \in 1..XDim
        /\ j < YDim => j + 1 \in 1..YDim /\ 1 \in 1..YDim
        /\ 1 \in 1..XDim /\ 1 \in 1..YDim
    BY MazeAssumption
  <2> QED BY <2>1, <2>2, OddIs, ScanOrder
<1>2. After(h) \notin V
  <2> SUFFICES ASSUME After(h) \in V PROVE FALSE
    OBVIOUS
  <2>1. \A p \in V : After(p) \in V
    BY DEF Scanned
  <2> QED BY <2>1, ScanIsRound DEF Scanned
<1>3. IsFiniteSet(V)
  BY OddPointsCounted, FS_Subset DEF Scanned
<1>4. Cardinality(V \cup {After(h)}) = Cardinality(V) + 1
  BY <1>2, <1>3, FS_AddElement
<1>5. Scanned(V \cup {After(h)}, After(h))
  BY <1>1 DEF Scanned
<1> QED BY <1>1, <1>4, <1>5

LEMMA InitIdle == GameInit => IdleInv
BY DEF GameInit, MazeInit, IdleInv

\* After a round in which something was joined the scan starts anew.
LEMMA Anew ==
    ASSUME gen'.idle = 0, gen'.trials \in 0..MaxTrials, phase' = "connect"
    PROVE  IdleInv'
<1>1. gen'.idle = 0 + Cardinality({})
  BY FS_EmptySet
<1>2. 0 \in 0..gen'.trials
  BY MazeAssumption
<1>3. Scanned({}, Here')
  BY DEF Scanned
<1> QED BY <1>1, <1>2, <1>3 DEF IdleInv

\* A round that joins nothing: a random pick, or a step of the scan.
IdleRound(p) ==
    /\ gen' = [gen EXCEPT !.x = p[1], !.y = p[2], !.trials = Trials,
                          !.idle = @ + 1]
    /\ UNCHANGED <<walls, reach>>

LEMMA PickIdle ==
    ASSUME Inv, IdleInv, phase = "connect", phase' = "connect", ~Scanning,
           NEW p \in OddPoints, IdleRound(p)
    PROVE  IdleInv'
<1>1. PICK V \in SUBSET OddPoints, a \in 0..gen.trials :
        /\ gen.idle = a + Cardinality(V)
        /\ Scanned(V, Here) /\ (V # {} => Scanning)
        /\ \A q \in V : Passed(q)
  BY DEF IdleInv
<1>2. V = {} /\ Cardinality({}) = 0
  BY <1>1, FS_EmptySet
<1>3. gen.trials \in 0..MaxTrials /\ ~(gen.trials + 1 > MaxTrials)
  BY DEF IdleInv, Scanning
<1>4. gen'.trials = gen.trials + 1 /\ gen'.idle = gen.idle + 1
  BY DEF IdleRound, Inv, GenInv, GenFields, Trials
<1>5. gen'.trials \in 0..MaxTrials /\ a + 1 \in 0..gen'.trials
  BY <1>3, <1>4, MazeAssumption
<1>6. gen'.idle = (a + 1) + Cardinality({})
  BY <1>1, <1>2, <1>4
<1>7. Scanned({}, Here')
  BY DEF Scanned
<1> QED BY <1>5, <1>6, <1>7 DEF IdleInv

LEMMA ScanIdle ==
    ASSUME Inv, MarksInv, IdleInv, phase = "connect", phase' = "connect",
           gen'.remaining > 0, Scanning, Passed(ScanNext), IdleRound(ScanNext)
    PROVE  IdleInv'
<1>1. PICK V \in SUBSET OddPoints, a \in 0..gen.trials :
        /\ gen.idle = a + Cardinality(V)
        /\ Scanned(V, Here) /\ (V # {} => Scanning)
        /\ \A q \in V : Passed(q)
  BY DEF IdleInv
<1>2. /\ gen'.x = ScanNext[1] /\ gen'.y = ScanNext[2]
      /\ gen'.trials = gen.trials /\ gen'.idle = gen.idle + 1
      /\ gen'.remaining = gen.remaining
  BY DEF IdleRound, Inv, GenInv, GenFields, Trials
<1>3. ScanNext = After(Here) /\ Here \in OddPoints
  BY DEF ScanNext, After, Here, Inv, GenInv
<1>4. V # OddPoints
  BY <1>1, <1>2, NotAllPassed
<1> DEFINE W == V \cup {After(Here)}
<1>5. /\ After(Here) \in OddPoints /\ Scanned(W, After(Here))
      /\ Cardinality(W) = Cardinality(V) + 1
  BY <1>1, <1>3, <1>4, ScanOn
<1>6. Cardinality(V) \in Nat
  BY OddPointsCounted, FS_Subset, FS_CardinalityType
<1>7. Here' = After(Here)
  BY <1>2, <1>3, <1>5 DEF Here, OddPoints
<1>8. \A q \in W : Passed(q)'
  <2>1. \A q \in W : Passed(q)
    BY <1>1, <1>3
  <2> HIDE DEF W
  <2> QED BY <2>1 DEF IdleRound, Passed, Usable, Toward, Cell, MAZE_INDEX
<1>9. Scanning'
  BY <1>2 DEF Scanning
<1>10. gen'.idle = a + Cardinality(W)
  BY <1>1, <1>2, <1>5, <1>6
<1>11. gen'.trials \in 0..MaxTrials /\ a \in 0..gen'.trials
  BY <1>2 DEF IdleInv
<1>12. W \in SUBSET OddPoints
  BY <1>5
<1> HIDE DEF W
<1> QED BY <1>5, <1>7, <1>8, <1>9, <1>10, <1>11, <1>12 DEF IdleInv

LEMMA ConnectIdle ==
    ASSUME Inv, MarksInv, IdleInv, Connect
    PROVE  IdleInv'
<1>1. /\ phase = "connect" /\ phase' \in {"connect", "joined"}
      /\ phase' = "connect" => gen'.remaining > 0
  BY DEF Connect
<1> SUFFICES ASSUME phase' = "connect" PROVE IdleInv'
  BY <1>1 DEF IdleInv
<1>2. Trials \in 0..MaxTrials
  BY <1>1, MazeAssumption DEF IdleInv, Trials, Scanning
<1>3. ASSUME NEW p \in OddPoints, Join(p)
      PROVE  \/ Usable(p) = {} /\ IdleRound(p)
             \/ gen'.idle = 0 /\ gen'.trials = Trials
  <2>1. CASE Usable(p) = {}
    BY <1>3, <2>1 DEF Join, IdleRound
  <2>2. CASE Usable(p) # {}
    <3> DEFINE n == gen.remaining - Cardinality(MarkArea(p, reach))
    <3>1. gen' = [gen EXCEPT !.x = p[1], !.y = p[2], !.remaining = n,
                             !.trials = Trials, !.idle = 0]
      BY <1>3, <2>2 DEF Join
    <3> HIDE DEF n
    <3> QED BY <3>1 DEF Inv, GenInv, GenFields
  <2> QED BY <2>1, <2>2
<1>4. CASE ~Scanning
  <2>1. PICK p \in OddPoints : Join(p)
    BY <1>4 DEF Connect
  <2> QED BY <1>1, <1>2, <1>3, <1>4, <2>1, PickIdle, Anew
<1>5. CASE Scanning /\ Cell(ScanNext) \in reach
  <2>1. IdleRound(ScanNext) /\ Passed(ScanNext)
    BY <1>5 DEF Connect, IdleRound, Passed
  <2> QED BY <1>1, <1>5, <2>1, ScanIdle
<1>6. CASE Scanning /\ Cell(ScanNext) \notin reach
  <2>1. Join(ScanNext) /\ ScanNext \in OddPoints
    BY <1>6, ScanInside DEF Connect
  <2>2. Usable(ScanNext) = {} => Passed(ScanNext)
    BY DEF Passed
  <2> QED BY <1>1, <1>2, <1>3, <1>6, <2>1, <2>2, ScanIdle, Anew
<1> QED BY <1>4, <1>5, <1>6

LEMMA StepIdle == Inv /\ MarksInv /\ IdleInv /\ [Next]_vars => IdleInv'
<1> SUFFICES ASSUME Inv, MarksInv, IdleInv, [Next]_vars PROVE IdleInv'
  OBVIOUS
<1>1. ASSUME phase' \in {"joined", "fruit", "play"} PROVE IdleInv'
  BY <1>1 DEF IdleInv
<1>2. ASSUME phase \in {"start", "worm", "mark"},
             phase' \in {"start", "worm", "mark"}, gen'.idle = gen.idle
      PROVE  IdleInv'
  BY <1>2 DEF IdleInv
<1>3. CASE StartWorm
  <2>1. gen'.idle = gen.idle
    BY <1>3 DEF StartWorm, Inv, GenInv, GenFields
  <2> QED BY <1>2, <1>3, <2>1 DEF StartWorm
<1>4. CASE WormTurn
  <2>1. gen'.idle = gen.idle
    BY <1>4 DEF WormTurn, Inv, GenInv, GenFields
  <2> QED BY <1>2, <1>4, <2>1 DEF WormTurn
<1>5. CASE MarkFirst
  <2> DEFINE n == XDim * YDim - Cardinality(MarkArea(<<1, 1>>, reach))
  <2>1. phase = "mark" /\ phase' = "connect"
        /\ gen' = [gen EXCEPT !.trials = 0, !.remaining = n]
    BY <1>5 DEF MarkFirst
  <2> HIDE DEF n
  <2>2. gen'.idle = 0 /\ gen'.trials = 0
    BY <2>1 DEF IdleInv, Inv, GenInv, GenFields
  <2>3. 0 \in 0..MaxTrials
    BY MazeAssumption
  <2> QED BY <2>1, <2>2, <2>3, Anew
<1>6. CASE Connect
  BY <1>6, ConnectIdle
<1>7. CASE ClearMarks \/ AddFruit \/ PlaceExit
  BY <1>1, <1>7 DEF ClearMarks, AddFruit, PlaceExit
<1>8. CASE Prepare \/ Win \/ Tick
  <2>1. phase' = "play"
    BY <1>8 DEF Prepare, Win, Tick, Inv, MotionInv
  <2> QED BY <1>1, <2>1
<1>9. CASE Show \/ (\E d \in Dirs : Steer(d)) \/ UNCHANGED vars
  <2>1. UNCHANGED <<walls, phase, gen, reach>>
    <3>1. CASE Show
      BY <3>1 DEF Show, Store, PlayerUndrawn, State
    <3> QED BY <1>9, <3>1 DEF Steer, vars, mazeVars
  <2> QED BY <2>1 DEF IdleInv, Here, Scanning, Passed, Usable, Toward, Cell,
                      MAZE_INDEX, Scanned, After
<1> QED BY <1>3, <1>4, <1>5, <1>6, <1>7, <1>8, <1>9 DEF Next, Making

LEMMA IdleBounded == IdleInv => ConnectGetsOn
<1> SUFFICES ASSUME IdleInv, phase = "connect"
             PROVE  gen.idle <= MaxTrials + XDim * YDim
  BY DEF ConnectGetsOn
<1>1. PICK V \in SUBSET OddPoints, a \in 0..gen.trials :
        gen.idle = a + Cardinality(V)
  BY DEF IdleInv
<1>2. Cardinality(V) <= Cardinality(OddPoints) /\ Cardinality(V) \in Nat
  BY OddPointsCounted, FS_Subset, FS_CardinalityType
<1>3. Cardinality(OddPoints) <= XDim * YDim /\ XDim * YDim \in Int
      /\ Cardinality(OddPoints) \in Nat
  BY OddPointsCounted, FS_CardinalityType, MazeAssumption
<1>4. a <= MaxTrials /\ a \in Nat
  <2>1. MaxTrials \in Nat /\ gen.trials \in 0..MaxTrials
    BY MazeAssumption DEF IdleInv
  <2> QED BY <2>1
<1> DEFINE c == XDim * YDim
<1>5. c \in Int /\ Cardinality(OddPoints) <= c
  BY <1>3
<1> HIDE DEF c
<1>6. gen.idle <= MaxTrials + c
  BY <1>1, <1>2, <1>3, <1>4, <1>5, MazeAssumption
<1> QED BY <1>6 DEF c

\* For every size of maze and number of random picks: while points are left,
\* the picks and one scan of the maze come to one that can be joined, so that
\* the loop never passes between two walls for longer (maze.c:338 to 381).
THEOREM ConnectingGetsOn == Spec => []ConnectGetsOn
<1>1. GameInit => Inv /\ MarksInv /\ IdleInv
  BY InitInv, InitMarks, InitIdle
<1>2. Inv /\ MarksInv /\ IdleInv /\ [Next]_vars => (Inv /\ MarksInv /\ IdleInv)'
  BY StepInv, StepMarks, StepIdle
<1>3. IdleInv => ConnectGetsOn
  BY IdleBounded
<1> QED BY <1>1, <1>2, <1>3, PTL DEF Spec

-----------------------------------------------------------------------------
(* The screen is up to date.  *)

\* Floor may stay over a fruit or the exit.
Traces(picture) == IF picture \in {"fruit", "exit"} THEN {"empty"} ELSE {}

\* The point shows what is there, but for such traces.
Current(s, p) ==
    /\ find_block(p, s) \in s.shown[p]
    /\ s.shown[p] \subseteq {find_block(p, s)} \cup Traces(find_block(p, s))

\* The player may be over the points P, and over nothing else.
Screen(s, P) ==
    \A p \in Visible(s.map) :
        /\ s.shown[p] \subseteq {find_block(p, s), "empty", "player"}
        /\ p \notin P => Current(s, p)

LEMMA ScreenMore ==
    ASSUME NEW s, NEW P, NEW Q, Screen(s, P), P \subseteq Q
    PROVE  Screen(s, Q)
BY DEF Screen

\* A record with the same fields.
LEMMA SameScreen ==
    ASSUME NEW s, NEW t, NEW P, Screen(s, P),
           t.fruits = s.fruits, t.n = s.n, t.reach = s.reach, t.map = s.map,
           t.shown = s.shown
    PROVE  Screen(t, P)
<1>1. \A p : find_block(p, t) = find_block(p, s)
  BY DEF find_block
<1> QED BY <1>1 DEF Screen, Current

\* What is drawn again is up to date.
LEMMA RedrawnScreen ==
    ASSUME NEW s, NEW t, Sound(t), NEW P, NEW points, Screen(s, P),
           t.map = s.map, t.shown = s.shown,
           \A p \in Visible(s.map) \ points : find_block(p, t) = find_block(p, s)
    PROVE  Screen(Redrawn(t, points), P \ points)
<1> DEFINE f == [p \in points \cap DOMAIN t.shown |-> {find_block(p, t)}]
           g == Over(f, t.shown)
           r == [t EXCEPT !.shown = g]
<1>1. Redrawn(t, points) = r
  BY DEF Redrawn
<1>2. /\ r.shown = g /\ r.map = t.map /\ r.fruits = t.fruits /\ r.n = t.n
      /\ r.reach = t.reach
  BY DEF Sound
<1>3. \A p : find_block(p, r) = find_block(p, t)
  <2> HIDE DEF r
  <2> QED BY <1>2 DEF find_block
<1>4. \A p \in Visible(s.map) :
        g[p] = IF p \in points THEN {find_block(p, t)} ELSE s.shown[p]
  BY DEF Over, Sound, Filled
<1> HIDE DEF r, g
<1> SUFFICES ASSUME NEW p \in Visible(s.map)
             PROVE  /\ r.shown[p] \subseteq {find_block(p, r), "empty", "player"}
                    /\ p \notin P \ points => Current(r, p)
  BY <1>1, <1>2 DEF Screen
<1>5. CASE p \in points
  BY <1>2, <1>3, <1>4, <1>5 DEF Current
<1>6. CASE p \notin points
  <2>1. r.shown[p] = s.shown[p] /\ find_block(p, r) = find_block(p, s)
    BY <1>2, <1>3, <1>4, <1>6
  <2> QED BY <1>6, <2>1 DEF Screen, Current
<1> QED BY <1>5, <1>6

\* The view moves, and the line that comes into it is drawn.
LEMMA MovedScreen ==
    ASSUME NEW s, Sound(s), s.map \in Int \X Int, NEW to, NEW d \in Dirs,
           NEW P, Screen(s, P)
    PROVE  Screen(Moved(s, to, d), P)
<1>1. CASE Follows(s, to, d)
  <2> DEFINE at == Toward(s.map, d, 1)
             f == [p \in Line(at, d) |-> Kept(s, p) \cup {find_block(p, s)}]
             g == [p \in Visible(at) |-> Kept(s, p)]
             h == Over(f, g)
  <2>1. Moved(s, to, d) = [s EXCEPT !.map = at, !.shown = h]
    BY <1>1 DEF Moved, Panned
  <2>2. /\ Line(at, d) \subseteq Visible(at)
        /\ Visible(at) \subseteq Visible(s.map) \cup Line(at, d)
    BY LineNew
  <2>3. \A p \in Visible(at) :
          h[p] = Kept(s, p)
                 \cup (IF p \in Line(at, d) THEN {find_block(p, s)} ELSE {})
    <3>1. /\ DOMAIN f = Line(at, d) /\ DOMAIN g = Visible(at)
          /\ \A p \in Line(at, d) : f[p] = Kept(s, p) \cup {find_block(p, s)}
          /\ \A p \in Visible(at) : g[p] = Kept(s, p)
      OBVIOUS
    <3> HIDE DEF f, g, at
    <3> QED BY <2>2, <3>1 DEF Over
  <2>4. \A p \in Visible(at) :
          Kept(s, p) = IF p \in Visible(s.map) THEN s.shown[p] ELSE {}
    BY DEF Kept, Sound, Filled
  <2> HIDE DEF at, h
  <2> DEFINE m == Moved(s, to, d)
  <2>5. /\ m.fruits = s.fruits /\ m.n = s.n /\ m.reach = s.reach /\ m.map = at
        /\ m.shown = h
    BY <2>1 DEF Sound
  <2>6. \A p : find_block(p, m) = find_block(p, s)
    <3> HIDE DEF m
    <3> QED BY <2>5 DEF find_block
  <2> HIDE DEF m
  <2> SUFFICES ASSUME NEW p \in Visible(at)
               PROVE  /\ m.shown[p] \subseteq {find_block(p, m), "empty", "player"}
                      /\ p \notin P => Current(m, p)
    BY <2>5 DEF Screen, m
  <2>7. CASE p \in Visible(s.map)
    BY <2>3, <2>4, <2>5, <2>6, <2>7 DEF Screen, Current
  <2>8. CASE p \notin Visible(s.map)
    BY <2>2, <2>3, <2>4, <2>5, <2>6, <2>8 DEF Current
  <2> QED BY <2>7, <2>8
<1>2. CASE ~Follows(s, to, d)
  BY <1>2 DEF Moved
<1> QED BY <1>1, <1>2

LEMMA PlayerDrawnScreen ==
    ASSUME NEW s, Sound(s), NEW xy, NEW d, NEW P, Screen(s, P)
    PROVE  Screen(PlayerDrawn(s, xy, d), P \cup Picture(xy, d))
<1> DEFINE f == [p \in Picture(xy, d) |-> s.shown[p] \cup {"player"}]
           g == Over(f, s.shown)
           r == [s EXCEPT !.shown = g]
<1>1. PlayerDrawn(s, xy, d) = r
  BY DEF PlayerDrawn
<1>2. /\ r.shown = g /\ r.map = s.map /\ r.fruits = s.fruits /\ r.n = s.n
      /\ r.reach = s.reach
  BY DEF Sound
<1>3. \A p : find_block(p, r) = find_block(p, s)
  <2> HIDE DEF r
  <2> QED BY <1>2 DEF find_block
<1>4. \A p \in Visible(s.map) :
        g[p] = IF p \in Picture(xy, d) THEN s.shown[p] \cup {"player"}
               ELSE s.shown[p]
  BY DEF Over, Sound, Filled
<1> HIDE DEF r, g
<1> QED BY <1>1, <1>2, <1>3, <1>4 DEF Screen, Current

\* Floor stays where the player was taken out, on paths only.
LEMMA PlayerUndrawnScreen ==
    ASSUME NEW s, Sound(s), NEW xy, NEW P, Screen(s, P),
           \A p \in Covered(xy) :
               /\ find_block(p, s) \in {"empty", "fruit", "exit"}
               /\ Covered(xy) = {p} => p \in P
    PROVE  Screen(PlayerUndrawn(s, xy), P)
<1> DEFINE f == [p \in Covered(xy) |->
                   IF Covered(xy) = {p} THEN {"empty"}
                   ELSE (s.shown[p] \ {"player"}) \cup {"empty"}]
           g == Over(f, s.shown)
           r == [s EXCEPT !.shown = g]
<1>1. PlayerUndrawn(s, xy) = r
  BY DEF PlayerUndrawn
<1>2. /\ r.shown = g /\ r.map = s.map /\ r.fruits = s.fruits /\ r.n = s.n
      /\ r.reach = s.reach
  BY DEF Sound
<1>3. \A p : find_block(p, r) = find_block(p, s)
  <2> HIDE DEF r
  <2> QED BY <1>2 DEF find_block
<1>4. \A p \in Visible(s.map) :
        g[p] = IF p \in Covered(xy)
                 THEN IF Covered(xy) = {p} THEN {"empty"}
                      ELSE (s.shown[p] \ {"player"}) \cup {"empty"}
               ELSE s.shown[p]
  BY DEF Over, Sound, Filled
<1> HIDE DEF r, g
<1> SUFFICES ASSUME NEW p \in Visible(s.map)
             PROVE  /\ r.shown[p] \subseteq {find_block(p, r), "empty", "player"}
                    /\ p \notin P => Current(r, p)
  BY <1>1, <1>2 DEF Screen
<1>5. CASE p \notin Covered(xy)
  BY <1>2, <1>3, <1>4, <1>5 DEF Screen, Current
<1>6. CASE p \in Covered(xy) /\ Covered(xy) = {p}
  BY <1>2, <1>4, <1>6
<1>7. CASE p \in Covered(xy) /\ Covered(xy) # {p}
  <2> DEFINE b == find_block(p, s)
  <2>1. b \in {"empty", "fruit", "exit"} /\ find_block(p, r) = b
    BY <1>3, <1>7
  <2>2. /\ s.shown[p] \subseteq {b, "empty", "player"}
        /\ p \notin P => b \in s.shown[p] /\ s.shown[p] \subseteq {b} \cup Traces(b)
    BY DEF Screen, Current
  <2>3. r.shown[p] = (s.shown[p] \ {"player"}) \cup {"empty"}
    BY <1>2, <1>4, <1>7
  <2> HIDE DEF b
  <2>4. r.shown[p] \subseteq {b, "empty", "player"}
    BY <2>2, <2>3
  <2>5. ASSUME p \notin P
        PROVE  b \in r.shown[p] /\ r.shown[p] \subseteq {b} \cup Traces(b)
    BY <2>1, <2>2, <2>3, <2>5 DEF Traces
  <2> QED BY <2>1, <2>4, <2>5 DEF Current
<1> QED BY <1>5, <1>6, <1>7

\* Of two lattice points in one cell, one is in the first column and the other
\* in the last one.
LEMMA CellsTwice ==
    ASSUME NEW p \in Lattice, NEW q \in Lattice, Cell(p) = Cell(q)
    PROVE  p = q \/ {p[1], q[1]} = {0, 2 * XDim}
<1> DEFINE w == XDim * 2
           a == p[1]  b == p[2]  c == q[1]  d == q[2]  k == d - b
<1>1. /\ XDim \in Nat /\ YDim \in Nat /\ w \in Nat /\ w = 2 * XDim /\ w > 0
  BY MazeAssumption
<1>2. /\ a \in 0..w /\ b \in 0..2 * YDim /\ c \in 0..w /\ d \in 0..2 * YDim
      /\ p = <<a, b>> /\ q = <<c, d>>
  BY <1>1 DEF Lattice
<1>3. a + (b + 1) * XDim * 2 = c + (d + 1) * XDim * 2
  BY DEF Cell, MAZE_INDEX
<1>4. /\ a \in Int /\ b \in Int /\ c \in Int /\ d \in Int /\ k \in Int
  BY <1>1, <1>2
<1>5. (b + 1) * XDim * 2 = (b + 1) * w /\ (d + 1) * XDim * 2 = (d + 1) * w
  BY <1>1, <1>4
<1>6. (d + 1) * w - (b + 1) * w = k * w
  <2> HIDE DEF w, a, b, c
  <2> QED BY <1>1, <1>4
<1>7. k * w = a - c
  <2>1. (b + 1) * w \in Int /\ (d + 1) * w \in Int
    BY <1>1, <1>4
  <2> QED BY <1>1, <1>3, <1>4, <1>5, <1>6, <2>1
<1>8. CASE a - c < w /\ a - c > 0 - w
  <2>1. k * w < w /\ k * w > 0 - w
    BY <1>7, <1>8
  <2>2. k = 0
    <3> HIDE DEF k, w
    <3> QED BY <1>1, <1>4, <2>1, SmallMultiple
  <2>3. 0 * w = 0
    BY <1>1
  <2> QED BY <1>2, <1>4, <1>7, <2>2, <2>3
<1>9. CASE a - c = w \/ a - c = 0 - w
  <2>1. {a, c} = {0, w}
    BY <1>1, <1>2, <1>9
  <2> QED BY <1>1, <2>1
<1> QED BY <1>1, <1>2, <1>8, <1>9

\* The points q and those in view are told apart by their cells.
Apart(s, points) ==
    \A p \in Visible(s.map), q \in points : Cell(p) = Cell(q) => p = q

LEMMA InnerApart ==
    ASSUME NEW s, Visible(s.map) \subseteq Lattice
    PROVE  Apart(s, InnerPoints)
<1> SUFFICES ASSUME NEW p \in Lattice, NEW q \in InnerPoints, Cell(p) = Cell(q)
             PROVE  p = q
  BY DEF Apart
<1>1. XDim \in Nat \ {0} /\ YDim \in Nat \ {0}
  BY MazeAssumption
<1>2. q \in Lattice /\ q[1] # 0 /\ q[1] # 2 * XDim
  BY <1>1 DEF InnerPoints, Lattice
<1> QED BY <1>2, CellsTwice

ExitInside == exit \in {{}} \cup {{p} : p \in OddPoints}

\* When a fruit is eaten its point changes; with the last one the exit, too.
LEMMA FruitScreen ==
    ASSUME NEW s, Sound(s), Visible(s.map) \subseteq Lattice, ExitInside,
           NEW q \in InnerPoints, NEW P, Screen(s, P)
    PROVE  Screen(check_for_fruit(s, q), P)
<1>1. CASE InMaze(q) /\ Cell(q) \in s.fruits
  <2> DEFINE f == s.fruits \ {Cell(q)}
             n == s.n - 1
             t == [s EXCEPT !.fruits = f, !.n = n]
  <2>1. check_for_fruit(s, q) = Redrawn(t, Eaten(t, q))
    BY <1>1 DEF check_for_fruit
  <2>2. Counts(f, n) /\ s.n # 0
    <3>1. Counts(s.fruits, s.n)
      BY DEF Sound
    <3>2. Counts(f, n)
      BY <1>1, <3>1, FruitTaken
    <3>3. s.n # 0
      BY <1>1, <3>1, NoFruits
    <3> QED BY <3>2, <3>3
  <2>3. /\ DOMAIN t = {"fruits", "n", "reach", "map", "shown"}
        /\ t.fruits = f /\ t.n = n /\ t.reach = s.reach /\ t.map = s.map
        /\ t.shown = s.shown
    BY DEF Sound
  <2> HIDE DEF t, n
  <2>4. Sound(t)
    <3> HIDE DEF f
    <3> QED BY <2>2, <2>3 DEF Sound
  <2>5. ASSUME NEW p \in Visible(s.map) \ Eaten(t, q)
        PROVE  find_block(p, t) = find_block(p, s)
    <3>1. Cell(p) \in t.fruits <=> Cell(p) \in s.fruits
      <4>1. p # q
        BY <2>5 DEF Eaten
      <4>2. Cell(p) # Cell(q)
        BY <4>1, InnerApart DEF Apart
      <4> QED BY <2>3, <4>2
    <3>2. ~(t.n = 0 /\ IsExit(p))
      <4> SUFFICES ASSUME t.n = 0, NEW e \in exit, Cell(e) = Cell(p)
                   PROVE  FALSE
        BY DEF IsExit
      <4>1. e \in InnerPoints
        BY OddInner DEF ExitInside
      <4>2. p = e
        BY <4>1, InnerApart DEF Apart
      <4> QED BY <2>5, <4>2 DEF Eaten
    <3> QED BY <2>2, <2>3, <3>1, <3>2 DEF find_block
  <2>6. Screen(Redrawn(t, Eaten(t, q)), P \ Eaten(t, q))
    BY <2>3, <2>4, <2>5, RedrawnScreen
  <2> QED BY <2>1, <2>6, ScreenMore
<1>2. CASE ~(InMaze(q) /\ Cell(q) \in s.fruits)
  BY <1>2 DEF check_for_fruit
<1> QED BY <1>1, <1>2

\* What is unveiled is drawn, and nothing else comes out of the mist.
LEMMA UnveilScreen ==
    ASSUME NEW s, Sound(s), NEW points, Apart(s, points \cap Lattice),
           NEW P, Screen(s, P)
    PROVE  /\ Screen(unveil_space(s, points), P)
           /\ s.reach \subseteq unveil_space(s, points).reach
           /\ \A p \in points \cap Lattice :
                Cell(p) \in unveil_space(s, points).reach
<1> DEFINE new == {p \in points \cap Lattice : Cell(p) \notin s.reach}
           r == s.reach \cup {Cell(p) : p \in new}
           t == [s EXCEPT !.reach = r]
<1>1. unveil_space(s, points) = Redrawn(t, new)
  BY DEF unveil_space
<1>2. r \subseteq Cells
  BY LatticeCells DEF Sound
<1>3. /\ DOMAIN t = {"fruits", "n", "reach", "map", "shown"}
      /\ t.fruits = s.fruits /\ t.n = s.n /\ t.reach = r /\ t.map = s.map
      /\ t.shown = s.shown
  BY DEF Sound
<1> HIDE DEF t
<1>4. Sound(t)
  <2> HIDE DEF r
  <2> QED BY <1>2, <1>3 DEF Sound
<1>5. ASSUME NEW p \in Visible(s.map) \ new
      PROVE  find_block(p, t) = find_block(p, s)
  <2>1. Cell(p) \in t.reach <=> Cell(p) \in s.reach
    BY <1>3, <1>5 DEF Apart
  <2> HIDE DEF r
  <2> QED BY <1>3, <2>1 DEF find_block
<1>6. Screen(Redrawn(t, new), P \ new)
  <2> HIDE DEF new, r
  <2> QED BY <1>3, <1>4, <1>5, RedrawnScreen
<1>7. Redrawn(t, new).reach = r
  <2>1. PICK g : Redrawn(t, new) = [t EXCEPT !.shown = g]
    BY DEF Redrawn
  <2> HIDE DEF r, new
  <2> QED BY <1>3, <2>1
<1>8. \A p \in points \cap Lattice : Cell(p) \in r
  OBVIOUS
<1>9. s.reach \subseteq r
  OBVIOUS
<1> HIDE DEF r, new
<1> QED BY <1>1, <1>6, <1>7, <1>8, <1>9, ScreenMore

\* The points that are unveiled around a square.
Near(q) == Around(q) \cup {Toward(q, d, 2) : d \in Dirs}

LEMMA UnveiledScreen ==
    ASSUME NEW s, Sound(s), Visible(s.map) \subseteq Lattice, ExitInside,
           NEW xy, Square(xy) \in InnerPoints,
           Apart(s, Near(Square(xy)) \cap Lattice), NEW P, Screen(s, P)
    PROVE  /\ Screen(Unveiled(s, xy), P)
           /\ s.reach \subseteq Unveiled(s, xy).reach
           /\ \A p \in Around(Square(xy)) \cap Lattice :
                Cell(p) \in Unveiled(s, xy).reach
<1> DEFINE q == Square(xy)
           t == check_for_fruit(s, q)
           points == Near(q)
<1>1. Unveiled(s, xy) = unveil_space(t, points)
  BY DEF Unveiled, Near
<1>2. Sound(t) /\ t.map = s.map
  BY FruitSound
<1>3. Screen(t, P)
  BY FruitScreen
<1>4. t.reach = s.reach
  <2>1. CASE InMaze(q) /\ Cell(q) \in s.fruits
    <3> DEFINE u == [s EXCEPT !.fruits = @ \ {Cell(q)}, !.n = @ - 1]
    <3>1. t = Redrawn(u, Eaten(u, q))
      BY <2>1 DEF check_for_fruit
    <3>2. DOMAIN u = DOMAIN s /\ u.reach = s.reach
      BY DEF Sound
    <3> HIDE DEF u
    <3>3. PICK g : t = [u EXCEPT !.shown = g]
      BY <3>1 DEF Redrawn
    <3> HIDE DEF t
    <3> QED BY <3>2, <3>3 DEF Sound
  <2>2. CASE ~(InMaze(q) /\ Cell(q) \in s.fruits)
    BY <2>2 DEF check_for_fruit
  <2> QED BY <2>1, <2>2
<1>5. Apart(t, points \cap Lattice)
  BY <1>2 DEF Apart
<1>6. Around(q) \subseteq points
  BY DEF Near
<1> HIDE DEF t, points, q
<1>7. /\ Screen(unveil_space(t, points), P)
      /\ t.reach \subseteq unveil_space(t, points).reach
      /\ \A p \in points \cap Lattice : Cell(p) \in unveil_space(t, points).reach
  BY <1>2, <1>3, <1>5, UnveilScreen
<1> QED BY <1>1, <1>4, <1>6, <1>7 DEF q

-----------------------------------------------------------------------------
(* Which points a player covers on its way.  *)

\* The blocks of the game that a pixel is in.
LEMMA Division ==
    ASSUME NEW a \in Nat, NEW k \in Nat
    PROVE  /\ a \div BLOCK_DIM \in Nat
           /\ k <= a \div BLOCK_DIM <=> k * BLOCK_DIM <= a
           /\ a \div BLOCK_DIM <= k <=> a < k * BLOCK_DIM + BLOCK_DIM
<1> DEFINE b == BLOCK_DIM
           d == a \div b
<1>1. b \in Nat \ {0}
  BY GameAssumption
<1>2. d \in Nat /\ a % b \in 0..b - 1 /\ a = d * b + (a % b)
  BY <1>1
<1>3. PICK r \in 0..b - 1 : a = d * b + r
  BY <1>2
<1>4. ASSUME NEW u \in Nat, NEW v \in Nat, u <= v
      PROVE  u * b <= v * b
  <2>1. (v - u) * b >= 0 /\ (v - u) * b = v * b - u * b
    <3>1. v - u \in Nat
      BY <1>4
    <3> HIDE DEF b
    <3> QED BY <1>1, <3>1
  <2>2. v * b \in Int /\ u * b \in Int
    BY <1>1
  <2> QED BY <2>1, <2>2
<1>5. (d + 1) * b = d * b + b /\ (k + 1) * b = k * b + b
      /\ d * b \in Int /\ k * b \in Int
  <2> HIDE DEF b, d
  <2> QED BY <1>1, <1>2
<1> HIDE DEF d
<1>6. k <= d => k * b <= a
  <2> SUFFICES ASSUME k <= d PROVE k * b <= a
    OBVIOUS
  <2>1. k * b <= d * b
    BY <1>2, <1>4
  <2> QED BY <1>1, <1>3, <1>5, <2>1
<1>7. d + 1 <= k => a < k * b
  <2> SUFFICES ASSUME d + 1 <= k PROVE a < k * b
    OBVIOUS
  <2>1. (d + 1) * b <= k * b
    BY <1>2, <1>4
  <2> QED BY <1>1, <1>3, <1>5, <2>1
<1>8. d <= k => a < k * b + b
  <2> SUFFICES ASSUME d <= k PROVE a < k * b + b
    OBVIOUS
  <2>1. d * b <= k * b
    BY <1>2, <1>4
  <2> QED BY <1>1, <1>3, <1>5, <2>1
<1>9. k + 1 <= d => k * b + b <= a
  <2> SUFFICES ASSUME k + 1 <= d PROVE k * b + b <= a
    OBVIOUS
  <2>1. (k + 1) * b <= d * b
    BY <1>2, <1>4
  <2> QED BY <1>1, <1>3, <1>5, <2>1
<1>10. d \in Nat /\ a \in Int /\ b \in Int /\ k * b \in Int
  BY <1>1, <1>2, <1>5
<1>11. /\ k <= d <=> k * b <= a
       /\ d <= k <=> a < k * b + b
  BY <1>6, <1>7, <1>8, <1>9, <1>10
<1> QED BY <1>10, <1>11 DEF d

LEMMA InBlock ==
    ASSUME NEW k \in Nat, NEW r \in 0..BLOCK_DIM - 1
    PROVE  (k * BLOCK_DIM + r) \div BLOCK_DIM = k
<1>1. k * BLOCK_DIM \in Nat /\ BLOCK_DIM \in Nat
  BY GameAssumption
<1> DEFINE a == k * BLOCK_DIM + r
<1>2. a \in Nat /\ k * BLOCK_DIM <= a /\ a < k * BLOCK_DIM + BLOCK_DIM
  BY <1>1
<1> HIDE DEF a
<1>3. a \div BLOCK_DIM \in Nat /\ k <= a \div BLOCK_DIM /\ a \div BLOCK_DIM <= k
  BY <1>2, Division
<1>4. a \div BLOCK_DIM = k
  BY <1>3
<1> QED BY <1>4 DEF a

\* The blocks that w pixels from the a-th on are in.
Blocks(a, w) == (a \div BLOCK_DIM)..((a + w - 1) \div BLOCK_DIM)

LEMMA BlockWise ==
    ASSUME NEW xy \in Int \X Int, NEW w \in Int, NEW h \in Int
    PROVE  Points(xy, w, h) = Blocks(xy[1], w) \X Blocks(xy[2], h)
BY DEF Points, Blocks

\* A block m pixels on from one of the lattice, and it without its first and
\* its last line.
LEMMA Stretch ==
    ASSUME NEW k \in Nat, NEW m \in 0..BLOCK_DIM
    PROVE  LET a == k * BLOCK_DIM + m
           IN  /\ a \in Nat
               /\ a \div BLOCK_DIM = IF m < BLOCK_DIM THEN k ELSE k + 1
               /\ Blocks(a, BLOCK_DIM) = IF m = 0 THEN {k}
                                         ELSE IF m = BLOCK_DIM THEN {k + 1}
                                         ELSE {k, k + 1}
               /\ Blocks(a + 1, BLOCK_DIM - 2) =
                    IF m <= 1 THEN {k}
                    ELSE IF m <= BLOCK_DIM - 2 THEN {k, k + 1}
                    ELSE {k + 1}
<1> DEFINE b == BLOCK_DIM
           K == k * b
<1>1. b \in Nat /\ b > 2 /\ K \in Nat
  BY GameAssumption
<1>2. (k + 1) * b = K + b /\ (k + 2) * b = K + b + b
  <2> HIDE DEF b
  <2> QED BY <1>1
<1>3. ASSUME NEW r \in 0..b - 1
      PROVE  /\ (K + r) \div b = k /\ (K + b + r) \div b = k + 1
             /\ (K + b + b + r) \div b = k + 2
  <2>1. /\ (k * b + r) \div b = k
        /\ ((k + 1) * b + r) \div b = k + 1
        /\ ((k + 2) * b + r) \div b = k + 2
    <3>1. k + 1 \in Nat /\ k + 2 \in Nat
      OBVIOUS
    <3> QED BY <3>1, InBlock
  <2> HIDE DEF b
  <2> QED BY <1>2, <2>1
<1> DEFINE D(x) == x \div b
<1>4. /\ \A r \in 0..b - 1 : D(K + r) = k
      /\ \A r \in b..2 * b - 1 : D(K + r) = k + 1
  <2>1. ASSUME NEW r \in b..2 * b - 1 PROVE D(K + r) = k + 1
    <3>1. r - b \in 0..b - 1
      BY <1>1
    <3>2. (K + b + (r - b)) \div b = k + 1
      <4> HIDE DEF b, K
      <4> QED BY <1>3, <3>1
    <3>3. K + b + (r - b) = K + r
      <4> HIDE DEF b, K
      <4> QED BY <1>1
    <3> QED BY <3>2, <3>3
  <2> QED BY <1>3, <2>1
<1> HIDE DEF D, K
<1>5. D(K + m) = IF m < b THEN k ELSE k + 1
  BY <1>1, <1>4
<1>6. D(K + m + b - 1) = IF m = 0 THEN k ELSE k + 1
  <2>1. K + m + b - 1 = K + (m + b - 1)
    BY <1>1
  <2>2. m = 0 => m + b - 1 \in 0..b - 1
    BY <1>1
  <2>3. m # 0 => m + b - 1 \in b..2 * b - 1
    BY <1>1
  <2> QED BY <1>4, <2>1, <2>2, <2>3
<1>7. D(K + m + 1) = IF m <= b - 2 THEN k ELSE k + 1
  <2>1. K + m + 1 = K + (m + 1)
    BY <1>1
  <2>2. m <= b - 2 => m + 1 \in 0..b - 1
    BY <1>1
  <2>3. ~(m <= b - 2) => m + 1 \in b..2 * b - 1
    BY <1>1
  <2> QED BY <1>4, <2>1, <2>2, <2>3
<1>8. D(K + m + 1 + (b - 2) - 1) = IF m <= 1 THEN k ELSE k + 1
  <2>1. K + m + 1 + (b - 2) - 1 = K + (m + b - 2)
    BY <1>1
  <2>2. m <= 1 => m + b - 2 \in 0..b - 1
    BY <1>1
  <2>3. ~(m <= 1) => m + b - 2 \in b..2 * b - 1
    BY <1>1
  <2> QED BY <1>4, <2>1, <2>2, <2>3
<1>9. k..k = {k} /\ (k + 1)..(k + 1) = {k + 1} /\ k..(k + 1) = {k, k + 1}
  OBVIOUS
<1>10. Blocks(K + m, b) = D(K + m)..D(K + m + b - 1)
       /\ Blocks(K + m + 1, b - 2) = D(K + m + 1)..D(K + m + 1 + (b - 2) - 1)
  BY DEF Blocks, D
<1>11. Blocks(K + m, b) = IF m = 0 THEN {k} ELSE IF m = b THEN {k + 1}
                          ELSE {k, k + 1}
  <2>1. CASE m = 0
    <3>1. m < b
      BY <1>1, <2>1
    <3> QED BY <1>5, <1>6, <1>9, <1>10, <2>1, <3>1
  <2>2. CASE m = b
    <3>1. m # 0 /\ ~(m < b)
      BY <1>1, <2>2
    <3> QED BY <1>5, <1>6, <1>9, <1>10, <2>2, <3>1
  <2>3. CASE m # 0 /\ m # b
    <3>1. m < b
      BY <1>1, <2>3
    <3> QED BY <1>5, <1>6, <1>9, <1>10, <2>3, <3>1
  <2> QED BY <2>1, <2>2, <2>3
<1>12. Blocks(K + m + 1, b - 2) = IF m <= 1 THEN {k}
                                  ELSE IF m <= b - 2 THEN {k, k + 1}
                                  ELSE {k + 1}
  <2>1. m <= 1 => m <= b - 2
    BY <1>1
  <2> QED BY <1>7, <1>8, <1>9, <1>10, <2>1
<1>13. K + m \in Nat
  BY <1>1
<1> QED BY <1>5, <1>11, <1>12, <1>13 DEF D, K

\* The pixel n before the point q on the way there in direction d, and the
\* next one: which points the player covers, and which it leaves.
LEMMA OnWay ==
    ASSUME NEW q \in InnerPoints, NEW p \in Nat \X Nat, NEW d \in Dirs,
           NEW o, o = (d + 2) % 4, p = Toward(q, o, 1),
           NEW n \in 0..BLOCK_DIM, NEW xy, xy = Toward(Corner(q), o, n)
    PROVE  /\ n = 0 => Covered(xy) = {q}
           /\ n = BLOCK_DIM => Covered(xy) = {p}
           /\ n # 0 /\ n # BLOCK_DIM => Covered(xy) = {p, q}
           /\ Picture(xy, d) \subseteq {p, q}
           /\ n = 0 => Picture(xy, d) = {q}
           /\ n = BLOCK_DIM => Picture(xy, d) = {p}
           /\ n > 0 => /\ Picture(xy, d) \subseteq Picture(Toward(xy, d, 1), d)
                                                  \cup {Behind(Toward(xy, d, 1), d)}
           /\ n < BLOCK_DIM => Square(EatsAt(xy, d)) \in {p, q}
<1> DEFINE b == BLOCK_DIM
<1>1. b \in Nat /\ b > 2
  BY GameAssumption
<1>h. PICK h \in Nat : h = b \div 2 /\ 2 * h = b
  BY GameAssumption
<1>2. PICK i \in Nat, j \in Nat : q = <<i, j>>
  BY MazeAssumption DEF InnerPoints
<1>3. p[1] \in Nat /\ p[2] \in Nat
  OBVIOUS
<1>4. \A k \in Nat : /\ k * b \in Nat
                     /\ (k + 1) * b = k * b + b
                     /\ k >= 1 => (k - 1) * b = k * b - b
  <2> HIDE DEF b
  <2> QED BY <1>1
<1>5. \A k \in Nat : /\ Blocks(k * b, b) = {k} /\ (k * b) \div b = k
  <2> SUFFICES ASSUME NEW k \in Nat
               PROVE  Blocks(k * b, b) = {k} /\ (k * b) \div b = k
    OBVIOUS
  <2>1. 0 \in 0..b /\ 0 < b /\ k * b + 0 = k * b
    BY <1>1, <1>4
  <2> QED BY <2>1, Stretch
\* In one dimension: forth from k, and back from k + 1.
<1>6. ASSUME NEW k \in Nat, NEW m \in 0..b - 1, NEW a, a = k * b + m
      PROVE  /\ a \in Nat
             /\ Blocks(a + 1, b - 2) \subseteq Blocks(a + 1 + 1, b - 2)
                                              \cup {(a + 1) \div b}
             /\ Blocks(a + 1 + 1, b - 2) \subseteq Blocks(a + 1, b - 2)
                                                  \cup {a \div b + 1}
             /\ a \div b = k
             /\ (a + h) \div b \in {k, k + 1}
  <2> DEFINE c == k * b + (m + 1)
  <2>1. m \in 0..b /\ m + 1 \in 0..b /\ m < b /\ c = a + 1
    BY <1>1, <1>4, <1>6
  <2>2. /\ a \in Nat /\ a \div b = k
        /\ Blocks(a + 1, b - 2) = IF m <= 1 THEN {k}
                                  ELSE IF m <= b - 2 THEN {k, k + 1} ELSE {k + 1}
    BY <1>6, <2>1, Stretch
  <2>3. /\ c \div b = IF m + 1 < b THEN k ELSE k + 1
        /\ Blocks(c + 1, b - 2) = IF m + 1 <= 1 THEN {k}
                                  ELSE IF m + 1 <= b - 2 THEN {k, k + 1}
                                  ELSE {k + 1}
    BY <2>1, Stretch
  <2>4. (a + h) \div b \in {k, k + 1}
    <3>1. CASE m + h < b
      <4>1. m + h \in 0..b - 1 /\ a + h = k * b + (m + h)
        BY <1>1, <1>h, <1>4, <1>6, <3>1
      <4> QED BY <4>1, InBlock
    <3>2. CASE m + h >= b
      <4>1. m + h - b \in 0..b - 1
        BY <1>1, <1>h, <1>6, <3>2
      <4>2. a + h = (k + 1) * b + (m + h - b)
        <5> HIDE DEF b
        <5> QED BY <1>1, <1>h, <1>4, <1>6, <3>2
      <4>3. k + 1 \in Nat
        OBVIOUS
      <4> QED BY <4>1, <4>2, <4>3, InBlock
    <3> QED BY <1>1, <1>h, <1>6, <3>1, <3>2
  <2> HIDE DEF b, c
  <2> QED BY <1>1, <1>6, <2>1, <2>2, <2>3, <2>4
<1>7. ASSUME NEW k \in Nat, NEW m \in 0..b, NEW a, a = k * b + m
      PROVE  /\ a \in Nat
             /\ Blocks(a, b) = IF m = 0 THEN {k} ELSE IF m = b THEN {k + 1}
                               ELSE {k, k + 1}
             /\ Blocks(a + 1, b - 2) \subseteq {k, k + 1}
             /\ m = 0 => Blocks(a + 1, b - 2) = {k}
             /\ m = b => Blocks(a + 1, b - 2) = {k + 1}
             /\ a \div b \in {k, k + 1}
  <2>1. /\ a \in Nat /\ a \div b \in {k, k + 1}
        /\ Blocks(a, b) = IF m = 0 THEN {k} ELSE IF m = b THEN {k + 1}
                          ELSE {k, k + 1}
        /\ Blocks(a + 1, b - 2) = IF m <= 1 THEN {k}
                                  ELSE IF m <= b - 2 THEN {k, k + 1} ELSE {k + 1}
    BY <1>7, Stretch
  <2>2. m = b => ~(m <= 1) /\ ~(m <= b - 2)
    BY <1>1
  <2>3. m = 0 => m <= 1
    OBVIOUS
  <2> HIDE DEF b
  <2> QED BY <2>1, <2>2, <2>3
<1>8. PICK I \in Nat, J \in Nat : I = i * b /\ J = j * b
  BY <1>4
<1>9. /\ Blocks(I, b) = {i} /\ I \div b = i
       /\ Blocks(J, b) = {j} /\ J \div b = j
  BY <1>5, <1>8
<1>10. Corner(q) = <<I, J>>
  BY <1>2, <1>8 DEF Corner
<1>11. CASE d = 0
  <2>1. o = 2 /\ Toward(q, o, 1) = <<i, j + 1>>
    BY <1>2, <1>11 DEF Toward, StepOf
  <2>2. PICK k \in Nat : k = j
    OBVIOUS
  <2>3. PICK m \in 0..b : m = n
    BY <1>1
  <2>a. PICK a \in Nat : a = k * b + m /\ a = J + n
    <3> DEFINE K == k * b
    <3>1. K = J /\ K \in Nat
      BY <1>4, <1>8, <2>2
    <3> HIDE DEF b, K
    <3>2. K + m \in Nat /\ K + m = J + n
      BY <1>1, <2>3, <3>1
    <3> QED BY <3>2 DEF K
  <2>4. xy = <<I, a>>
    BY <1>1, <1>10, <2>1, <2>a DEF Toward, StepOf
  <2>5. {p, q} = {<<i, k>>, <<i, k + 1>>}
    BY <1>2, <2>1, <2>2
  <2>6. /\ Blocks(a, b) = IF m = 0 THEN {k} ELSE IF m = b THEN {k + 1}
                           ELSE {k, k + 1}
        /\ Blocks(a + 1, b - 2) \subseteq {k, k + 1}
        /\ m = 0 => Blocks(a + 1, b - 2) = {k}
        /\ m = b => Blocks(a + 1, b - 2) = {k + 1}
        /\ a \div b \in {k, k + 1}
    <3>1. a = k * b + m
      BY <2>a
    <3> HIDE DEF b
    <3> QED BY <1>7, <3>1, Zenon
  <2>7. \A z \in Int : Toward(<<I, z>>, 2, 1) = <<I, z + 1>>
    BY DEF Toward, StepOf
  <2>8. /\ Covered(xy) = {i} \X Blocks(a, b)
        /\ \A z \in Nat : Picture(<<I, z>>, d) = {i} \X Blocks(z + 1, b - 2)
    <3>1. ASSUME NEW z \in Nat, NEW w \in Int
          PROVE  Points(<<I, z>>, b, w) = {i} \X Blocks(z, w)
      <4> DEFINE c == <<I, z>>
      <4>1. c \in Int \X Int /\ c[1] = I /\ c[2] = z /\ b \in Int
        BY <1>1
      <4> HIDE DEF c, b
      <4>2. Points(c, b, w) = Blocks(c[1], b) \X Blocks(c[2], w)
        BY <4>1, BlockWise
      <4> QED BY <1>9, <4>1, <4>2 DEF c
    <3>2. \A z \in Nat : Picture(<<I, z>>, d) = Points(<<I, z + 1>>, b, b - 2)
      BY <1>11, <2>7 DEF Picture
    <3>3. Covered(xy) = Points(<<I, a>>, b, b)
      BY <2>4 DEF Covered
    <3>4. \A z \in Nat : Points(<<I, z + 1>>, b, b - 2) = {i} \X Blocks(z + 1, b - 2)
      BY <1>1, <3>1
    <3>5. Points(<<I, a>>, b, b) = {i} \X Blocks(a, b)
      BY <1>1, <3>1
    <3> HIDE DEF b
    <3> QED BY <3>2, <3>3, <3>4, <3>5
  <2>9. /\ Covered(xy) = IF n = 0 THEN {q} ELSE IF n = b THEN {p} ELSE {p, q}
        /\ Picture(xy, d) \subseteq {p, q}
        /\ n = 0 => Picture(xy, d) = {q}
        /\ n = b => Picture(xy, d) = {p}
    <3>1. Picture(xy, d) = {i} \X Blocks(a + 1, b - 2)
      BY <2>4, <2>8
    <3>2. q = <<i, k>> /\ p = <<i, k + 1>>
      BY <1>2, <2>1, <2>2
    <3>3. \A S, T : /\ S \subseteq T => ({i} \X S) \subseteq ({i} \X T)
      OBVIOUS
    <3>4. ({i} \X {k, k + 1}) = {p, q} /\ ({i} \X {k}) = {<<i, k>>} /\ ({i} \X {k + 1}) = {<<i, k + 1>>}
      BY <2>5
    <3>5. m = n
      BY <2>3
    <3>6. Covered(xy) = IF n = 0 THEN {q} ELSE IF n = b THEN {p} ELSE {p, q}
      <4> HIDE DEF b
      <4> QED BY <2>6, <2>8, <3>2, <3>4, <3>5
    <3>7. Picture(xy, d) \subseteq {p, q}
      BY <2>6, <3>1, <3>3, <3>4
    <3>8. /\ n = 0 => Picture(xy, d) = {q}
          /\ n = b => Picture(xy, d) = {p}
      <4> HIDE DEF b
      <4> QED BY <2>6, <3>1, <3>2, <3>4, <3>5
    <3> QED BY <3>6, <3>7, <3>8
  <2>10. ASSUME n > 0
         PROVE  Picture(xy, d) \subseteq Picture(Toward(xy, d, 1), d)
                                        \cup {Behind(Toward(xy, d, 1), d)}
    <3>1. PICK c \in Nat : c = k * b + (m - 1) /\ a = c + 1 /\ m - 1 \in 0..b - 1
      <4>1. k * b \in Nat /\ m - 1 \in 0..b - 1
        BY <1>1, <1>4, <2>3, <2>10
      <4> DEFINE K == k * b
      <4> HIDE DEF b, K
      <4>2. a = K + m
        BY <2>a DEF K
      <4>3. K + (m - 1) \in Nat /\ a = K + (m - 1) + 1
        BY <4>1, <4>2 DEF K
      <4> QED BY <4>1, <4>3 DEF K
    <3>2. /\ Blocks(c + 1 + 1, b - 2) \subseteq Blocks(c + 1, b - 2) \cup {c \div b + 1}
      BY <1>6, <3>1
    <3>3. Toward(xy, d, 1) = <<I, c>>
      BY <1>11, <2>4, <3>1 DEF Toward, StepOf
    <3>4. Behind(<<I, c>>, d) = <<i, c \div b + 1>>
      BY <1>9, <1>11 DEF Behind, Square
    <3>5. /\ Picture(<<I, c>>, d) = {i} \X Blocks(c + 1, b - 2)
          /\ Picture(xy, d) = {i} \X Blocks(c + 1 + 1, b - 2)
      BY <2>4, <2>8, <3>1
    <3> HIDE DEF b
    <3> QED BY <3>2, <3>3, <3>4, <3>5
  <2>11. ASSUME n < b
         PROVE  Square(EatsAt(xy, d)) \in {p, q}
    <3>1. m \in 0..b - 1
      BY <1>1, <2>3, <2>11
    <3>2. (a + h) \div b \in {k, k + 1}
      BY <1>6, <2>a, <3>1
    <3>3. EatsAt(xy, d) = <<I, a + h>>
      <4>1. (d + 2) % 4 = 2
        BY <1>11
      <4> QED BY <1>11, <1>h, <2>4, <4>1 DEF EatsAt, Toward, StepOf
    <3>4. Square(<<I, a + h>>) = <<i, (a + h) \div b>>
      BY <1>9 DEF Square
    <3> HIDE DEF b
    <3> QED BY <2>5, <3>2, <3>3, <3>4
  <2> QED BY <2>9, <2>10, <2>11
<1>12. CASE d = 1
  <2>1. o = 3 /\ Toward(q, o, 1) = <<i - 1, j>>
    BY <1>2, <1>12 DEF Toward, StepOf
  <2>2. PICK k \in Nat : k = i - 1
    BY <1>2, <1>3, <2>1
  <2>3. PICK m \in 0..b : m = b - n
    BY <1>1
  <2>a. PICK a \in Nat : a = k * b + m /\ a = I - n
    <3> DEFINE K == k * b
    <3>1. K = I - b /\ K \in Nat
      <4>1. (k + 1) * b = k * b + b /\ k * b \in Nat /\ k + 1 = i
        BY <1>4, <2>2
      <4>2. I = k * b + b
        BY <1>8, <4>1
      <4> HIDE DEF b
      <4> QED BY <1>1, <4>1, <4>2
    <3> HIDE DEF b, K
    <3>2. K + m \in Nat /\ K + m = I - n
      BY <1>1, <2>3, <3>1
    <3> QED BY <3>2 DEF K
  <2>4. xy = <<a, J>>
    BY <1>1, <1>10, <2>1, <2>a DEF Toward, StepOf
  <2>5. {p, q} = {<<k, j>>, <<k + 1, j>>}
    BY <1>2, <2>1, <2>2
  <2>6. /\ Blocks(a, b) = IF m = 0 THEN {k} ELSE IF m = b THEN {k + 1}
                           ELSE {k, k + 1}
        /\ Blocks(a + 1, b - 2) \subseteq {k, k + 1}
        /\ m = 0 => Blocks(a + 1, b - 2) = {k}
        /\ m = b => Blocks(a + 1, b - 2) = {k + 1}
        /\ a \div b \in {k, k + 1}
    <3>1. a = k * b + m
      BY <2>a
    <3> HIDE DEF b
    <3> QED BY <1>7, <3>1, Zenon
  <2>7. \A z \in Int : Toward(<<z, J>>, 1, 1) = <<z + 1, J>>
    BY DEF Toward, StepOf
  <2>8. /\ Covered(xy) = Blocks(a, b) \X {j}
        /\ \A z \in Nat : Picture(<<z, J>>, d) = Blocks(z + 1, b - 2) \X {j}
    <3>1. ASSUME NEW z \in Nat, NEW w \in Int
          PROVE  Points(<<z, J>>, w, b) = Blocks(z, w) \X {j}
      <4> DEFINE c == <<z, J>>
      <4>1. c \in Int \X Int /\ c[1] = z /\ c[2] = J /\ b \in Int
        BY <1>1
      <4> HIDE DEF c, b
      <4>2. Points(c, w, b) = Blocks(c[1], w) \X Blocks(c[2], b)
        BY <4>1, BlockWise
      <4> QED BY <1>9, <4>1, <4>2 DEF c
    <3>2. \A z \in Nat : Picture(<<z, J>>, d) = Points(<<z + 1, J>>, b - 2, b)
      BY <1>12, <2>7 DEF Picture
    <3>3. Covered(xy) = Points(<<a, J>>, b, b)
      BY <2>4 DEF Covered
    <3>4. \A z \in Nat : Points(<<z + 1, J>>, b - 2, b) = Blocks(z + 1, b - 2) \X {j}
      BY <1>1, <3>1
    <3>5. Points(<<a, J>>, b, b) = Blocks(a, b) \X {j}
      BY <1>1, <3>1
    <3> HIDE DEF b
    <3> QED BY <3>2, <3>3, <3>4, <3>5
  <2>9. /\ Covered(xy) = IF n = 0 THEN {q} ELSE IF n = b THEN {p} ELSE {p, q}
        /\ Picture(xy, d) \subseteq {p, q}
        /\ n = 0 => Picture(xy, d) = {q}
        /\ n = b => Picture(xy, d) = {p}
    <3>1. Picture(xy, d) = Blocks(a + 1, b - 2) \X {j}
      BY <2>4, <2>8
    <3>2. q = <<k + 1, j>> /\ p = <<k, j>>
      BY <1>2, <2>1, <2>2
    <3>3. \A S, T : /\ S \subseteq T => (S \X {j}) \subseteq (T \X {j})
      OBVIOUS
    <3>4. ({k, k + 1} \X {j}) = {p, q} /\ ({k} \X {j}) = {<<k, j>>} /\ ({k + 1} \X {j}) = {<<k + 1, j>>}
      BY <2>5
    <3>5. (m = 0 <=> n = b) /\ (m = b <=> n = 0) /\ b # 0
      BY <1>1, <2>3
    <3>6. Covered(xy) = IF n = 0 THEN {q} ELSE IF n = b THEN {p} ELSE {p, q}
      <4> HIDE DEF b
      <4> QED BY <2>6, <2>8, <3>2, <3>4, <3>5
    <3>7. Picture(xy, d) \subseteq {p, q}
      BY <2>6, <3>1, <3>3, <3>4
    <3>8. /\ n = 0 => Picture(xy, d) = {q}
          /\ n = b => Picture(xy, d) = {p}
      <4> HIDE DEF b
      <4> QED BY <2>6, <3>1, <3>2, <3>4, <3>5
    <3> QED BY <3>6, <3>7, <3>8
  <2>10. ASSUME n > 0
         PROVE  Picture(xy, d) \subseteq Picture(Toward(xy, d, 1), d)
                                        \cup {Behind(Toward(xy, d, 1), d)}
    <3>1. m \in 0..b - 1
      BY <1>1, <2>3, <2>10
    <3>2. Blocks(a + 1, b - 2) \subseteq Blocks(a + 1 + 1, b - 2) \cup {(a + 1) \div b}
      BY <1>6, <2>a, <3>1
    <3>3. Toward(xy, d, 1) = <<a + 1, J>>
      BY <1>12, <2>4 DEF Toward, StepOf
    <3>4. Behind(<<a + 1, J>>, d) = <<(a + 1) \div b, j>>
      BY <1>9, <1>12 DEF Behind, Square
    <3>5. /\ Picture(<<a + 1, J>>, d) = Blocks(a + 1 + 1, b - 2) \X {j}
          /\ Picture(xy, d) = Blocks(a + 1, b - 2) \X {j}
      BY <2>4, <2>8
    <3> HIDE DEF b
    <3> QED BY <3>2, <3>3, <3>4, <3>5
  <2>11. ASSUME n < b
         PROVE  Square(EatsAt(xy, d)) \in {p, q}
    <3>1. EatsAt(xy, d) = xy
      BY <1>12 DEF EatsAt
    <3>2. Square(<<a, J>>) = <<a \div b, j>>
      BY <1>9 DEF Square
    <3> HIDE DEF b
    <3> QED BY <2>4, <2>5, <2>6, <3>1, <3>2
  <2> QED BY <2>9, <2>10, <2>11
<1>13. CASE d = 2
  <2>1. o = 0 /\ Toward(q, o, 1) = <<i, j - 1>>
    BY <1>2, <1>13 DEF Toward, StepOf
  <2>2. PICK k \in Nat : k = j - 1
    BY <1>2, <1>3, <2>1
  <2>3. PICK m \in 0..b : m = b - n
    BY <1>1
  <2>a. PICK a \in Nat : a = k * b + m /\ a = J - n
    <3> DEFINE K == k * b
    <3>1. K = J - b /\ K \in Nat
      <4>1. (k + 1) * b = k * b + b /\ k * b \in Nat /\ k + 1 = j
        BY <1>4, <2>2
      <4>2. J = k * b + b
        BY <1>8, <4>1
      <4> HIDE DEF b
      <4> QED BY <1>1, <4>1, <4>2
    <3> HIDE DEF b, K
    <3>2. K + m \in Nat /\ K + m = J - n
      BY <1>1, <2>3, <3>1
    <3> QED BY <3>2 DEF K
  <2>4. xy = <<I, a>>
    BY <1>1, <1>10, <2>1, <2>a DEF Toward, StepOf
  <2>5. {p, q} = {<<i, k>>, <<i, k + 1>>}
    BY <1>2, <2>1, <2>2
  <2>6. /\ Blocks(a, b) = IF m = 0 THEN {k} ELSE IF m = b THEN {k + 1}
                           ELSE {k, k + 1}
        /\ Blocks(a + 1, b - 2) \subseteq {k, k + 1}
        /\ m = 0 => Blocks(a + 1, b - 2) = {k}
        /\ m = b => Blocks(a + 1, b - 2) = {k + 1}
        /\ a \div b \in {k, k + 1}
    <3>1. a = k * b + m
      BY <2>a
    <3> HIDE DEF b
    <3> QED BY <1>7, <3>1, Zenon
  <2>7. \A z \in Int : Toward(<<I, z>>, 2, 1) = <<I, z + 1>>
    BY DEF Toward, StepOf
  <2>8. /\ Covered(xy) = {i} \X Blocks(a, b)
        /\ \A z \in Nat : Picture(<<I, z>>, d) = {i} \X Blocks(z + 1, b - 2)
    <3>1. ASSUME NEW z \in Nat, NEW w \in Int
          PROVE  Points(<<I, z>>, b, w) = {i} \X Blocks(z, w)
      <4> DEFINE c == <<I, z>>
      <4>1. c \in Int \X Int /\ c[1] = I /\ c[2] = z /\ b \in Int
        BY <1>1
      <4> HIDE DEF c, b
      <4>2. Points(c, b, w) = Blocks(c[1], b) \X Blocks(c[2], w)
        BY <4>1, BlockWise
      <4> QED BY <1>9, <4>1, <4>2 DEF c
    <3>2. \A z \in Nat : Picture(<<I, z>>, d) = Points(<<I, z + 1>>, b, b - 2)
      BY <1>13, <2>7 DEF Picture
    <3>3. Covered(xy) = Points(<<I, a>>, b, b)
      BY <2>4 DEF Covered
    <3>4. \A z \in Nat : Points(<<I, z + 1>>, b, b - 2) = {i} \X Blocks(z + 1, b - 2)
      BY <1>1, <3>1
    <3>5. Points(<<I, a>>, b, b) = {i} \X Blocks(a, b)
      BY <1>1, <3>1
    <3> HIDE DEF b
    <3> QED BY <3>2, <3>3, <3>4, <3>5
  <2>9. /\ Covered(xy) = IF n = 0 THEN {q} ELSE IF n = b THEN {p} ELSE {p, q}
        /\ Picture(xy, d) \subseteq {p, q}
        /\ n = 0 => Picture(xy, d) = {q}
        /\ n = b => Picture(xy, d) = {p}
    <3>1. Picture(xy, d) = {i} \X Blocks(a + 1, b - 2)
      BY <2>4, <2>8
    <3>2. q = <<i, k + 1>> /\ p = <<i, k>>
      BY <1>2, <2>1, <2>2
    <3>3. \A S, T : /\ S \subseteq T => ({i} \X S) \subseteq ({i} \X T)
      OBVIOUS
    <3>4. ({i} \X {k, k + 1}) = {p, q} /\ ({i} \X {k}) = {<<i, k>>} /\ ({i} \X {k + 1}) = {<<i, k + 1>>}
      BY <2>5
    <3>5. (m = 0 <=> n = b) /\ (m = b <=> n = 0) /\ b # 0
      BY <1>1, <2>3
    <3>6. Covered(xy) = IF n = 0 THEN {q} ELSE IF n = b THEN {p} ELSE {p, q}
      <4> HIDE DEF b
      <4> QED BY <2>6, <2>8, <3>2, <3>4, <3>5
    <3>7. Picture(xy, d) \subseteq {p, q}
      BY <2>6, <3>1, <3>3, <3>4
    <3>8. /\ n = 0 => Picture(xy, d) = {q}
          /\ n = b => Picture(xy, d) = {p}
      <4> HIDE DEF b
      <4> QED BY <2>6, <3>1, <3>2, <3>4, <3>5
    <3> QED BY <3>6, <3>7, <3>8
  <2>10. ASSUME n > 0
         PROVE  Picture(xy, d) \subseteq Picture(Toward(xy, d, 1), d)
                                        \cup {Behind(Toward(xy, d, 1), d)}
    <3>1. m \in 0..b - 1
      BY <1>1, <2>3, <2>10
    <3>2. Blocks(a + 1, b - 2) \subseteq Blocks(a + 1 + 1, b - 2) \cup {(a + 1) \div b}
      BY <1>6, <2>a, <3>1
    <3>3. Toward(xy, d, 1) = <<I, a + 1>>
      BY <1>13, <2>4 DEF Toward, StepOf
    <3>4. Behind(<<I, a + 1>>, d) = <<i, (a + 1) \div b>>
      BY <1>9, <1>13 DEF Behind, Square
    <3>5. /\ Picture(<<I, a + 1>>, d) = {i} \X Blocks(a + 1 + 1, b - 2)
          /\ Picture(xy, d) = {i} \X Blocks(a + 1, b - 2)
      BY <2>4, <2>8
    <3> HIDE DEF b
    <3> QED BY <3>2, <3>3, <3>4, <3>5
  <2>11. ASSUME n < b
         PROVE  Square(EatsAt(xy, d)) \in {p, q}
    <3>1. EatsAt(xy, d) = xy
      BY <1>13 DEF EatsAt
    <3>2. Square(<<I, a>>) = <<i, a \div b>>
      BY <1>9 DEF Square
    <3> HIDE DEF b
    <3> QED BY <2>4, <2>5, <2>6, <3>1, <3>2
  <2> QED BY <2>9, <2>10, <2>11
<1>14. CASE d = 3
  <2>1. o = 1 /\ Toward(q, o, 1) = <<i + 1, j>>
    BY <1>2, <1>14 DEF Toward, StepOf
  <2>2. PICK k \in Nat : k = i
    OBVIOUS
  <2>3. PICK m \in 0..b : m = n
    BY <1>1
  <2>a. PICK a \in Nat : a = k * b + m /\ a = I + n
    <3> DEFINE K == k * b
    <3>1. K = I /\ K \in Nat
      BY <1>4, <1>8, <2>2
    <3> HIDE DEF b, K
    <3>2. K + m \in Nat /\ K + m = I + n
      BY <1>1, <2>3, <3>1
    <3> QED BY <3>2 DEF K
  <2>4. xy = <<a, J>>
    BY <1>1, <1>10, <2>1, <2>a DEF Toward, StepOf
  <2>5. {p, q} = {<<k, j>>, <<k + 1, j>>}
    BY <1>2, <2>1, <2>2
  <2>6. /\ Blocks(a, b) = IF m = 0 THEN {k} ELSE IF m = b THEN {k + 1}
                           ELSE {k, k + 1}
        /\ Blocks(a + 1, b - 2) \subseteq {k, k + 1}
        /\ m = 0 => Blocks(a + 1, b - 2) = {k}
        /\ m = b => Blocks(a + 1, b - 2) = {k + 1}
        /\ a \div b \in {k, k + 1}
    <3>1. a = k * b + m
      BY <2>a
    <3> HIDE DEF b
    <3> QED BY <1>7, <3>1, Zenon
  <2>7. \A z \in Int : Toward(<<z, J>>, 1, 1) = <<z + 1, J>>
    BY DEF Toward, StepOf
  <2>8. /\ Covered(xy) = Blocks(a, b) \X {j}
        /\ \A z \in Nat : Picture(<<z, J>>, d) = Blocks(z + 1, b - 2) \X {j}
    <3>1. ASSUME NEW z \in Nat, NEW w \in Int
          PROVE  Points(<<z, J>>, w, b) = Blocks(z, w) \X {j}
      <4> DEFINE c == <<z, J>>
      <4>1. c \in Int \X Int /\ c[1] = z /\ c[2] = J /\ b \in Int
        BY <1>1
      <4> HIDE DEF c, b
      <4>2. Points(c, w, b) = Blocks(c[1], w) \X Blocks(c[2], b)
        BY <4>1, BlockWise
      <4> QED BY <1>9, <4>1, <4>2 DEF c
    <3>2. \A z \in Nat : Picture(<<z, J>>, d) = Points(<<z + 1, J>>, b - 2, b)
      BY <1>14, <2>7 DEF Picture
    <3>3. Covered(xy) = Points(<<a, J>>, b, b)
      BY <2>4 DEF Covered
    <3>4. \A z \in Nat : Points(<<z + 1, J>>, b - 2, b) = Blocks(z + 1, b - 2) \X {j}
      BY <1>1, <3>1
    <3>5. Points(<<a, J>>, b, b) = Blocks(a, b) \X {j}
      BY <1>1, <3>1
    <3> HIDE DEF b
    <3> QED BY <3>2, <3>3, <3>4, <3>5
  <2>9. /\ Covered(xy) = IF n = 0 THEN {q} ELSE IF n = b THEN {p} ELSE {p, q}
        /\ Picture(xy, d) \subseteq {p, q}
        /\ n = 0 => Picture(xy, d) = {q}
        /\ n = b => Picture(xy, d) = {p}
    <3>1. Picture(xy, d) = Blocks(a + 1, b - 2) \X {j}
      BY <2>4, <2>8
    <3>2. q = <<k, j>> /\ p = <<k + 1, j>>
      BY <1>2, <2>1, <2>2
    <3>3. \A S, T : /\ S \subseteq T => (S \X {j}) \subseteq (T \X {j})
      OBVIOUS
    <3>4. ({k, k + 1} \X {j}) = {p, q} /\ ({k} \X {j}) = {<<k, j>>} /\ ({k + 1} \X {j}) = {<<k + 1, j>>}
      BY <2>5
    <3>5. m = n
      BY <2>3
    <3>6. Covered(xy) = IF n = 0 THEN {q} ELSE IF n = b THEN {p} ELSE {p, q}
      <4> HIDE DEF b
      <4> QED BY <2>6, <2>8, <3>2, <3>4, <3>5
    <3>7. Picture(xy, d) \subseteq {p, q}
      BY <2>6, <3>1, <3>3, <3>4
    <3>8. /\ n = 0 => Picture(xy, d) = {q}
          /\ n = b => Picture(xy, d) = {p}
      <4> HIDE DEF b
      <4> QED BY <2>6, <3>1, <3>2, <3>4, <3>5
    <3> QED BY <3>6, <3>7, <3>8
  <2>10. ASSUME n > 0
         PROVE  Picture(xy, d) \subseteq Picture(Toward(xy, d, 1), d)
                                        \cup {Behind(Toward(xy, d, 1), d)}
    <3>1. PICK c \in Nat : c = k * b + (m - 1) /\ a = c + 1 /\ m - 1 \in 0..b - 1
      <4>1. k * b \in Nat /\ m - 1 \in 0..b - 1
        BY <1>1, <1>4, <2>3, <2>10
      <4> DEFINE K == k * b
      <4> HIDE DEF b, K
      <4>2. a = K + m
        BY <2>a DEF K
      <4>3. K + (m - 1) \in Nat /\ a = K + (m - 1) + 1
        BY <4>1, <4>2 DEF K
      <4> QED BY <4>1, <4>3 DEF K
    <3>2. /\ Blocks(c + 1 + 1, b - 2) \subseteq Blocks(c + 1, b - 2) \cup {c \div b + 1}
      BY <1>6, <3>1
    <3>3. Toward(xy, d, 1) = <<c, J>>
      BY <1>14, <2>4, <3>1 DEF Toward, StepOf
    <3>4. Behind(<<c, J>>, d) = <<c \div b + 1, j>>
      BY <1>9, <1>14 DEF Behind, Square
    <3>5. /\ Picture(<<c, J>>, d) = Blocks(c + 1, b - 2) \X {j}
          /\ Picture(xy, d) = Blocks(c + 1 + 1, b - 2) \X {j}
      BY <2>4, <2>8, <3>1
    <3> HIDE DEF b
    <3> QED BY <3>2, <3>3, <3>4, <3>5
  <2>11. ASSUME n < b
         PROVE  Square(EatsAt(xy, d)) \in {p, q}
    <3>1. m \in 0..b - 1
      BY <1>1, <2>3, <2>11
    <3>2. (a + h) \div b \in {k, k + 1}
      BY <1>6, <2>a, <3>1
    <3>3. EatsAt(xy, d) = <<a + h, J>>
      <4>1. (d + 2) % 4 = 1
        BY <1>14
      <4> QED BY <1>14, <1>h, <2>4, <4>1 DEF EatsAt, Toward, StepOf
    <3>4. Square(<<a + h, J>>) = <<(a + h) \div b, j>>
      BY <1>9 DEF Square
    <3> HIDE DEF b
    <3> QED BY <2>5, <3>2, <3>3, <3>4
  <2> QED BY <2>9, <2>10, <2>11
<1> QED BY <1>11, <1>12, <1>13, <1>14 DEF Dirs

-----------------------------------------------------------------------------
(* The edges of the maze, which have cells in common.  *)

\* The first and the last column of the maze, which have cells in common, are
\* not both in view, and the view pans when the player is three squares from
\* its edge or more (mazegame.c:75; maze.h:43 to 54).
EdgesApart ==
    SHOW_MIN + SCROLL_X_DIM <= 2 * BLOCK_DIM * XDim /\ PAN_BORDER >= 3

\* A view at m around a player at xy.
Framed(xy, m) ==
    /\ xy \in Int \X Int /\ m \in Int \X Int
    /\ \A i \in 1..2 :
         /\ m[i] >= SHOW_MIN /\ m[i] + View[i] <= Size[i] - SHOW_MIN
         /\ \/ xy[i] >= m[i] + BLOCK_DIM * PAN_BORDER
            \/ m[i] = SHOW_MIN
         /\ \/ xy[i] + BLOCK_DIM * (PAN_BORDER + 1) <= m[i] + View[i]
            \/ m[i] + View[i] = Size[i] - SHOW_MIN

LEMMA InLattice ==
    ASSUME NEW xy, NEW m, Framed(xy, m)
    PROVE  Visible(m) \subseteq Lattice
<1> DEFINE b == BLOCK_DIM
<1>1. /\ b \in Nat /\ b > 2 /\ XDim \in Nat /\ YDim \in Nat /\ SHOW_MIN \in Nat
      /\ View[1] \in Nat /\ View[2] \in Nat /\ View[1] > 0 /\ View[2] > 0
  <2>1. \A i \in 1..2 : View[i] \in Int /\ View[i] >= 2 * (b * PAN_BORDER) + b
        /\ b * PAN_BORDER \in Int /\ b * PAN_BORDER >= b
    BY Dimensions
  <2> HIDE DEF b
  <2>2. b \in Nat /\ b > 2
    BY GameAssumption DEF b
  <2> QED BY <2>1, <2>2, MazeAssumption, GameAssumption
<1>2. Size[1] = 2 * XDim * b + b /\ Size[2] = 2 * YDim * b + b
      /\ 2 * XDim * b \in Nat /\ 2 * YDim * b \in Nat
  <2>1. \A n \in Nat : (2 * n + 1) * b = 2 * n * b + b /\ 2 * n * b \in Nat
    <3> HIDE DEF b
    <3> QED BY <1>1
  <2> QED BY <1>1, <2>1 DEF Size
<1>3. ASSUME NEW n \in Nat, NEW a \in Int, NEW v \in Nat, v > 0, a >= SHOW_MIN,
             a + v <= 2 * n * b + b - SHOW_MIN, 2 * n * b \in Nat
      PROVE  a \div b \in 0..2 * n /\ (a + v - 1) \div b \in 0..2 * n
  <2>1. a \in Nat /\ a + v - 1 \in Nat /\ 2 * n \in Nat
    BY <1>1, <1>3
  <2>2. a < 2 * n * b + b /\ a + v - 1 < 2 * n * b + b
    BY <1>1, <1>3
  <2> DEFINE k == 2 * n
             c == a + v - 1
  <2> HIDE DEF k, c
  <2>3. k \in Nat /\ c \in Nat /\ a < k * b + b /\ c < k * b + b
    BY <2>1, <2>2 DEF k, c
  <2>4. a \div b \in Nat /\ a \div b <= k /\ c \div b \in Nat /\ c \div b <= k
    BY <2>1, <2>3, Division
  <2>5. a \div b \in 0..k /\ c \div b \in 0..k
    BY <2>3, <2>4
  <2> QED BY <2>5 DEF k, c
<1>4. /\ m[1] \div b \in 0..2 * XDim /\ (m[1] + View[1] - 1) \div b \in 0..2 * XDim
      /\ m[2] \div b \in 0..2 * YDim /\ (m[2] + View[2] - 1) \div b \in 0..2 * YDim
  <2>1. /\ m[1] \in Int /\ m[1] >= SHOW_MIN
        /\ m[1] + View[1] <= 2 * XDim * b + b - SHOW_MIN
        /\ m[2] \in Int /\ m[2] >= SHOW_MIN
        /\ m[2] + View[2] <= 2 * YDim * b + b - SHOW_MIN
    <3>1. /\ m \in Int \X Int
          /\ m[1] >= SHOW_MIN /\ m[1] + View[1] <= Size[1] - SHOW_MIN
          /\ m[2] >= SHOW_MIN /\ m[2] + View[2] <= Size[2] - SHOW_MIN
      BY DEF Framed
    <3>2. PICK s1 \in Int, s2 \in Int, u \in Int, t \in Int :
             /\ s1 = Size[1] /\ s2 = Size[2]
             /\ u = 2 * XDim * b /\ t = 2 * YDim * b
             /\ s1 = u + b /\ s2 = t + b
      BY <1>1, <1>2
    <3>3. PICK m1 \in Int, m2 \in Int, v1 \in Int, v2 \in Int :
             m1 = m[1] /\ m2 = m[2] /\ v1 = View[1] /\ v2 = View[2]
      BY <1>1, <3>1
    <3>4. /\ m1 + v1 <= s1 - SHOW_MIN /\ m2 + v2 <= s2 - SHOW_MIN
          /\ m1 >= SHOW_MIN /\ m2 >= SHOW_MIN
      BY <3>1, <3>2, <3>3
    <3> HIDE DEF b
    <3>5. m1 + v1 <= u + b - SHOW_MIN /\ m2 + v2 <= t + b - SHOW_MIN
      BY <1>1, <3>2, <3>3, <3>4
    <3> QED BY <3>2, <3>3, <3>4, <3>5
  <2> HIDE DEF b
  <2> QED BY <1>1, <1>2, <1>3, <2>1
<1>5. ASSUME NEW n \in Nat, NEW u \in 0..2 * n, NEW v \in 0..2 * n
      PROVE  u..v \subseteq 0..2 * n
  BY <1>5
<1> QED BY <1>1, <1>4, <1>5 DEF Visible, Points, Lattice

\* What is unveiled around the player shares no cell with what is in view.
LEMMA NearApart ==
    ASSUME EdgesApart, NEW s, NEW xy, Framed(xy, s.map), NEW e \in Nat \X Nat,
           Square(e) \in InnerPoints, e[1] >= xy[1], 2 * (e[1] - xy[1]) <= BLOCK_DIM
    PROVE  Apart(s, Near(Square(e)) \cap Lattice)
<1> DEFINE b == BLOCK_DIM
           q == Square(e)
           x == xy[1]
           m == s.map[1]
           v == View[1]
           w == 2 * XDim
<1>1. /\ b \in Nat /\ b > 2 /\ XDim \in Nat \ {0} /\ SHOW_MIN \in Nat
      /\ v \in Nat /\ v > 0 /\ x \in Int /\ m \in Int /\ e[1] \in Int /\ w \in Nat
      /\ SHOW_MIN + v <= w * b /\ w * b \in Int
      /\ m >= SHOW_MIN /\ SHOW_MIN < b
  <2>1. SHOW_MIN + SCROLL_X_DIM <= 2 * b * XDim /\ v = SCROLL_X_DIM /\ v \in Nat
        /\ b \in Nat /\ b > 2 /\ SHOW_MIN \in Nat /\ SHOW_MIN < b
    BY GameAssumption DEF EdgesApart, View
  <2>2. v > 0
    <3>1. /\ View[1] \in Int /\ View[1] >= 2 * (b * PAN_BORDER) + b
          /\ b * PAN_BORDER \in Int /\ b * PAN_BORDER >= b
      BY Dimensions
    <3> DEFINE z == b * PAN_BORDER
    <3> HIDE DEF b, z
    <3> QED BY <2>1, <3>1
  <2>3. XDim \in Nat \ {0} /\ w \in Nat /\ 2 * b * XDim = w * b /\ w * b \in Int
    <3>1. XDim \in Nat \ {0}
      BY MazeAssumption
    <3> HIDE DEF b
    <3> QED BY <2>1, <3>1
  <2>4. x \in Int /\ m \in Int /\ m >= SHOW_MIN /\ e[1] \in Int
    BY DEF Framed
  <2> QED BY <2>1, <2>2, <2>3, <2>4
<1>2. /\ x >= m + 3 * b \/ m = SHOW_MIN
      /\ x + 4 * b <= m + v \/ m + v = w * b + b - SHOW_MIN
  <2>1. /\ x >= m + b * PAN_BORDER \/ m = SHOW_MIN
        /\ x + (b * PAN_BORDER + b) <= m + v \/ m + v = Size[1] - SHOW_MIN
    BY Dimensions DEF Framed
  <2>2. b * PAN_BORDER >= 3 * b /\ b * PAN_BORDER \in Int
    <3>1. PAN_BORDER - 3 \in Nat /\ PAN_BORDER \in Nat
      BY GameAssumption DEF EdgesApart
    <3> DEFINE n == PAN_BORDER - 3
    <3>2. b * (n + 3) = b * n + 3 * b /\ b * n >= 0 /\ b * n \in Int
      <4> HIDE DEF b, n
      <4> QED BY <1>1, <3>1 DEF n
    <3>3. PAN_BORDER = n + 3
      BY <3>1
    <3> HIDE DEF n, b
    <3> QED BY <1>1, <3>2, <3>3
  <2>3. Size[1] = w * b + b
    <3>1. (w + 1) * b = w * b + b
      <4> HIDE DEF b, w
      <4> QED BY <1>1
    <3> QED BY <3>1 DEF Size
  <2> DEFINE z == b * PAN_BORDER
             u == w * b
  <2> HIDE DEF b, z, x, m, v, u
  <2> QED BY <1>1, <2>1, <2>2, <2>3 DEF z, u
<1>3. q[1] \in 1..w - 1 /\ q[1] = e[1] \div b
  BY DEF InnerPoints, Square
<1>4. e[1] \in Nat /\ q[1] * b <= e[1] /\ e[1] < q[1] * b + b /\ q[1] * b \in Int
  <2>1. e[1] \in Nat
    OBVIOUS
  <2>2. q[1] \in Nat
    BY <1>1, <1>3
  <2>3. q[1] * b <= e[1] /\ e[1] < q[1] * b + b
    <3> DEFINE k == q[1]
    <3>1. k \in Nat /\ k = e[1] \div b
      BY <1>3, <2>2
    <3> HIDE DEF k
    <3>2. k <= e[1] \div b /\ e[1] \div b <= k
      BY <3>1
    <3> QED BY <2>1, <3>1, <3>2, Division DEF k
  <2> QED BY <1>1, <2>1, <2>2, <2>3
<1> SUFFICES ASSUME NEW p \in Visible(s.map), NEW r \in Near(q) \cap Lattice,
                    {p[1], r[1]} = {0, w}
             PROVE  FALSE
  <2>1. Visible(s.map) \subseteq Lattice
    BY InLattice
  <2> QED BY <2>1, CellsTwice DEF Apart
<1>5. r[1] \in q[1] - 2..q[1] + 2
  <2>1. CASE r \in Around(q)
    BY <1>1, <1>3, <2>1 DEF Around
  <2>2. CASE r \in {Toward(q, d, 2) : d \in Dirs}
    BY <1>1, <1>3, <2>2 DEF Toward, StepOf, Dirs
  <2> QED BY <2>1, <2>2 DEF Near
<1>6. p[1] \in m \div b..(m + v - 1) \div b
  BY DEF Visible, Points
<1>7. m \in Nat /\ m + v - 1 \in Nat
  BY <1>1
<1>8. CASE p[1] = 0 /\ r[1] = w
  <2>1. m < b
    <3>1. m \div b <= 0
      BY <1>1, <1>6, <1>7, <1>8, Division
    <3>2. m < 0 * b + b
      BY <1>7, <3>1, Division
    <3> QED BY <1>1, <3>2
  <2>2. e[1] >= w * b - 2 * b
    <3> DEFINE k == q[1]
               n == k - (w - 2)
    <3>1. k \in Nat /\ n \in Nat
      BY <1>1, <1>3, <1>5, <1>8
    <3>2. n * b >= 0 /\ n * b = k * b - w * b + 2 * b
      <4> HIDE DEF b, w, k
      <4> QED BY <1>1, <3>1
    <3> DEFINE y == k * b
               u == w * b
    <3> HIDE DEF b, y, u
    <3> QED BY <1>1, <1>4, <3>2 DEF y, u
  <2> DEFINE u == w * b
  <2>3. e[1] >= x /\ 2 * (e[1] - x) <= b
    OBVIOUS
  <2> HIDE DEF b, x, m, v, u
  <2> QED BY <1>1, <1>2, <2>1, <2>2, <2>3 DEF u
<1>9. CASE p[1] = w /\ r[1] = 0
  <2>1. m + v - 1 >= w * b
    <3>1. w <= (m + v - 1) \div b
      <4>1. (m + v - 1) \div b \in Nat
        BY <1>1, <1>7, Division
      <4>2. m \div b \in Nat
        BY <1>1, <1>7, Division
      <4> QED BY <1>1, <1>6, <1>9, <4>1, <4>2
    <3> DEFINE c == m + v - 1
    <3> HIDE DEF c, w
    <3> QED BY <1>1, <1>7, <3>1, Division DEF c
  <2>2. e[1] < 3 * b
    <3> DEFINE k == q[1]
               n == 2 - k
    <3>1. k \in Nat /\ n \in Nat
      BY <1>1, <1>3, <1>5, <1>9
    <3>2. n * b >= 0 /\ n * b = 2 * b - k * b
      <4> HIDE DEF b, k
      <4> QED BY <1>1, <3>1
    <3> DEFINE y == k * b
    <3> HIDE DEF b, y
    <3> QED BY <1>1, <1>4, <3>2 DEF y
  <2> DEFINE u == w * b
  <2>3. e[1] >= x
    OBVIOUS
  <2> HIDE DEF b, x, m, v, u
  <2> QED BY <1>1, <1>2, <2>1, <2>2, <2>3 DEF u
<1> QED BY <1>1, <1>8, <1>9

\* A player on the square q.
LEMMA AtCorner ==
    ASSUME NEW q \in InnerPoints
    PROVE  /\ Covered(Corner(q)) = {q} /\ Square(Corner(q)) = q
           /\ \A d : Picture(Corner(q), d) = {q}
           /\ Corner(q) \in Nat \X Nat
<1>1. PICK i \in Nat, j \in Nat : q = <<i, j>>
  BY MazeAssumption DEF InnerPoints
<1>2. Corner(q) \in Nat \X Nat
  BY <1>1, GameAssumption DEF Corner
<1> DEFINE c == Corner(q)
<1>3. c = Toward(c, 2, 0) /\ c = Toward(c, 1, 0) /\ 0 \in 0..BLOCK_DIM
  <2>1. \A z \in Nat \X Nat : z = Toward(z, 2, 0) /\ z = Toward(z, 1, 0)
    BY DEF Toward, StepOf
  <2> QED BY <1>2, <2>1, GameAssumption
<1>4. Covered(c) = {q} /\ Picture(c, 0) = {q}
  <2>1. 0 \in Dirs /\ 2 = (0 + 2) % 4 /\ Toward(q, 2, 1) \in Nat \X Nat
    BY <1>1 DEF Dirs, Toward, StepOf
  <2> DEFINE p == Toward(q, 2, 1)
             n == 0
             d == 0
             o == 2
  <2>2. /\ p \in Nat \X Nat /\ d \in Dirs /\ o = (d + 2) % 4
        /\ p = Toward(q, o, 1) /\ n \in 0..BLOCK_DIM
        /\ c = Toward(Corner(q), o, n) /\ n = 0 /\ d = 0
    BY <1>3, <2>1
  <2> HIDE DEF p, n, d, o, c
  <2> QED BY <2>2, OnWay
<1>5. Picture(c, 3) = {q}
  <2>1. 3 \in Dirs /\ 1 = (3 + 2) % 4 /\ Toward(q, 1, 1) \in Nat \X Nat
    BY <1>1 DEF Dirs, Toward, StepOf
  <2> DEFINE p == Toward(q, 1, 1)
             n == 0
             d == 3
             o == 1
  <2>2. /\ p \in Nat \X Nat /\ d \in Dirs /\ o = (d + 2) % 4
        /\ p = Toward(q, o, 1) /\ n \in 0..BLOCK_DIM
        /\ c = Toward(Corner(q), o, n) /\ n = 0 /\ d = 3
    BY <1>3, <2>1
  <2> HIDE DEF p, n, d, o, c
  <2> QED BY <2>2, OnWay
<1>6. \A d : Picture(c, d) = IF d \in {0, 2} THEN Picture(c, 0) ELSE Picture(c, 3)
  BY DEF Picture
<1> QED BY <1>2, <1>4, <1>5, <1>6, CornersSquare

\* The fields that drawing and panning leave alone.
LEMMA DrawingKeeps ==
    ASSUME NEW s, Sound(s)
    PROVE  /\ \A points : Redrawn(s, points).reach = s.reach
           /\ \A to, d : Moved(s, to, d).reach = s.reach
           /\ \A xy, d : PlayerDrawn(s, xy, d).reach = s.reach
           /\ \A xy : PlayerUndrawn(s, xy).reach = s.reach
<1>1. \A f : [s EXCEPT !.shown = f].reach = s.reach
  BY DEF Sound
<1>2. \A f, at : [s EXCEPT !.map = at, !.shown = f].reach = s.reach
  BY DEF Sound
<1>3. ASSUME NEW points PROVE Redrawn(s, points).reach = s.reach
  BY <1>1 DEF Redrawn
<1>4. ASSUME NEW xy, NEW d PROVE PlayerDrawn(s, xy, d).reach = s.reach
  BY <1>1 DEF PlayerDrawn
<1>5. ASSUME NEW xy PROVE PlayerUndrawn(s, xy).reach = s.reach
  BY <1>1 DEF PlayerUndrawn
<1>6. ASSUME NEW to, NEW d PROVE Moved(s, to, d).reach = s.reach
  <2>1. CASE Follows(s, to, d)
    <3> DEFINE at == Toward(s.map, d, 1)
               f == Over([p \in Line(at, d) |->
                            Kept(s, p) \cup {find_block(p, s)}],
                        [p \in Visible(at) |-> Kept(s, p)])
    <3>1. Moved(s, to, d) = [s EXCEPT !.map = at, !.shown = f]
      BY <2>1 DEF Moved, Panned
    <3> HIDE DEF at, f
    <3> QED BY <1>2, <3>1
  <2>2. CASE ~Follows(s, to, d)
    BY <2>2 DEF Moved
  <2> QED BY <2>1, <2>2
<1> QED BY <1>3, <1>4, <1>5, <1>6

LEMMA StoredScreen ==
    ASSUME UNCHANGED <<walls, exit>>, NEW s, Store(s), NEW P, Screen(s, P)
    PROVE  Screen(State, P)'
<1>1. \A p : find_block(p, s)' = find_block(p, s)
  BY DEF find_block, IsExit, Cell, MAZE_INDEX
<1>2. \A p : find_block(p, State)' = find_block(p, s)'
  BY DEF find_block, Store, State
<1>3. (State.shown)' = s.shown /\ (State.map)' = s.map
  BY DEF Store, State
<1>4. Visible(State.map)' = Visible(s.map)
  BY <1>3 DEF Visible, Points, View
<1> QED BY <1>1, <1>2, <1>3, <1>4 DEF Screen, Current, Traces

\* The pixel xy on the way from the open square p to the open square q in
\* direction d, n pixels before q.
Goes(q, p, d, n, xy) ==
    /\ OpenSquare(q) /\ OpenSquare(p) /\ p = Toward(q, (d + 2) % 4, 1)
    /\ n \in 0..BLOCK_DIM /\ xy = Toward(Corner(q), (d + 2) % 4, n)

\* The player is on one open square or between two.
LEMMA WhereItIs ==
    ASSUME Inv, level = "on"
    PROVE  \/ move_cnt = 0 /\ \E q \in InnerPoints : OpenSquare(q) /\ pos = Corner(q)
           \/ /\ move_cnt \in 1..BLOCK_DIM - 1 /\ dir \in Dirs
              /\ \E q \in InnerPoints, p \in InnerPoints : Goes(q, p, dir, move_cnt, pos)
<1>1. PICK q \in InnerPoints : OpenSquare(q) /\ Moving(q)
  BY DEF Inv, MotionInv
<1>2. CASE move_cnt = 0 /\ pos = Corner(q)
  BY <1>1, <1>2
<1>3. CASE /\ move_cnt \in 1..BLOCK_DIM - 1 /\ dir \in Dirs
           /\ OpenSquare(Toward(q, (dir + 2) % 4, 1))
           /\ pos = Toward(Corner(q), (dir + 2) % 4, move_cnt)
  <2> DEFINE p == Toward(q, (dir + 2) % 4, 1)
  <2>1. p \in InnerPoints /\ OpenSquare(p)
    BY <1>3 DEF OpenSquare
  <2>2. move_cnt \in 0..BLOCK_DIM
    BY <1>3, GameAssumption
  <2>3. Goes(q, p, dir, move_cnt, pos)
    BY <1>1, <1>3, <2>1, <2>2 DEF Goes
  <2> QED BY <1>3, <2>1, <2>3
<1> QED BY <1>1, <1>2, <1>3 DEF Moving

\* What is known of a way.
LEMMA OnGoing ==
    ASSUME NEW q \in InnerPoints, NEW p \in InnerPoints, NEW d \in Dirs, NEW n,
           NEW xy, Goes(q, p, d, n, xy)
    PROVE  /\ n = 0 => Covered(xy) = {q}
           /\ n = BLOCK_DIM => Covered(xy) = {p}
           /\ n # 0 /\ n # BLOCK_DIM => Covered(xy) = {p, q}
           /\ Picture(xy, d) \subseteq {p, q}
           /\ n > 0 => Picture(xy, d) \subseteq Picture(Toward(xy, d, 1), d)
                                                \cup {Behind(Toward(xy, d, 1), d)}
           /\ n < BLOCK_DIM => Square(EatsAt(xy, d)) \in {p, q}
           /\ p # q
<1>1. p \in Nat \X Nat
  BY MazeAssumption DEF InnerPoints
<1>2. PICK o : o = (d + 2) % 4
  OBVIOUS
<1>3. p = Toward(q, o, 1) /\ n \in 0..BLOCK_DIM /\ xy = Toward(Corner(q), o, n)
  BY <1>2 DEF Goes
<1>4. /\ n = 0 => Covered(xy) = {q}
      /\ n = BLOCK_DIM => Covered(xy) = {p}
      /\ n # 0 /\ n # BLOCK_DIM => Covered(xy) = {p, q}
      /\ Picture(xy, d) \subseteq {p, q}
      /\ n > 0 => Picture(xy, d) \subseteq Picture(Toward(xy, d, 1), d)
                                           \cup {Behind(Toward(xy, d, 1), d)}
      /\ n < BLOCK_DIM => Square(EatsAt(xy, d)) \in {p, q}
  BY <1>1, <1>2, <1>3, OnWay
<1>5. p # q
  <2>1. q[1] \in Int /\ q[2] \in Int
    BY MazeAssumption DEF InnerPoints
  <2>2. o = 2 \/ o = 3 \/ o = 0 \/ o = 1
    BY <1>2 DEF Dirs
  <2>3. p[1] # q[1] \/ p[2] # q[2]
    BY <1>3, <2>1, <2>2 DEF Toward, StepOf
  <2> QED BY <2>3
<1> QED BY <1>4, <1>5

\* What the player covers is open.
LEMMA CoveredOpen ==
    ASSUME Inv, level = "on"
    PROVE  /\ Picture(pos, dir) \subseteq Covered(pos)
           /\ \A p \in Covered(pos) : /\ Cell(p) \notin walls
                                      /\ Covered(pos) = {p} => p \in Picture(pos, dir)
<1>0. BLOCK_DIM \in Nat
  BY GameAssumption
<1>1. CASE \E q \in InnerPoints : OpenSquare(q) /\ pos = Corner(q)
  BY <1>1, AtCorner DEF OpenSquare
<1>2. CASE /\ move_cnt \in 1..BLOCK_DIM - 1 /\ dir \in Dirs
           /\ \E q \in InnerPoints, p \in InnerPoints : Goes(q, p, dir, move_cnt, pos)
  <2>1. PICK q \in InnerPoints, p \in InnerPoints : Goes(q, p, dir, move_cnt, pos)
    BY <1>2
  <2>2. move_cnt # 0 /\ move_cnt # BLOCK_DIM
    BY <1>0, <1>2
  <2>3. Covered(pos) = {p, q} /\ Picture(pos, dir) \subseteq {p, q} /\ p # q
    BY <1>2, <2>1, <2>2, OnGoing
  <2> QED BY <2>1, <2>3 DEF Goes, OpenSquare
<1> QED BY <1>1, <1>2, WhereItIs

\* The way that a tick takes, if it takes one.
LEMMA TickWay ==
    ASSUME Inv, level = "on", NEW turned, NEW go,
           turned = Reversed(dir, next_dir, move_cnt),
           go = IF turned[2] = 0 THEN Chosen(turned[1], next_dir, Square(pos))
                ELSE turned
    PROVE  \/ turned[2] = 0 /\ go[1] = DIR_STOP
           \/ /\ go[1] \in Dirs /\ go[1] # DIR_STOP
              /\ Picture(pos, dir) = Picture(pos, go[1])
              /\ \E q \in InnerPoints, p \in InnerPoints, n \in 1..BLOCK_DIM :
                   /\ Goes(q, p, go[1], n, pos)
                   /\ IF turned[2] = 0 THEN pos = Corner(p)
                      ELSE Covered(pos) = {p, q}
<1>0. /\ BLOCK_DIM \in Nat \ {0} /\ dir \in 0..DIR_STOP
      /\ next_dir \in 0..DIR_STOP
  BY GameAssumption DEF Inv, MotionInv
<1>1. CASE /\ move_cnt = 0
           /\ \E q \in InnerPoints : OpenSquare(q) /\ pos = Corner(q)
  <2>1. PICK p \in InnerPoints : OpenSquare(p) /\ pos = Corner(p)
    BY <1>1
  <2>2. turned[2] = 0
    <3>1. move_cnt \in 0..BLOCK_DIM - 1
      BY <1>0, <1>1
    <3> QED BY <1>0, <1>1, <3>1, ReversedWay
  <2>3. go = Chosen(turned[1], next_dir, p)
    BY <2>1, <2>2, AtCorner
  <2>4. CASE go = <<DIR_STOP, 0>>
    BY <2>2, <2>4
  <2>5. CASE \E way \in Dirs : /\ go = <<way, BLOCK_DIM>>
                               /\ Cell(Toward(p, way, 1)) \notin walls
    <3>1. PICK d \in Dirs : /\ go = <<d, BLOCK_DIM>>
                            /\ Cell(Toward(p, d, 1)) \notin walls
      BY <2>5
    <3> DEFINE q == Toward(p, d, 1)
               o == (d + 2) % 4
    <3>2. q \in InnerPoints /\ OpenSquare(q)
      BY <2>1, <3>1, OpenIsInner DEF Inv, WallsInv, OpenSquare
    <3>3. Toward(q, o, 1) = p /\ Corner(p) = Toward(Corner(q), o, BLOCK_DIM)
      <4>1. p \in Int \X Int /\ 0 \in Int
        BY InnerPairs
      <4> QED BY <4>1, Steps
    <3>4. Goes(q, p, d, BLOCK_DIM, pos)
      <4> HIDE DEF q
      <4> QED BY <1>0, <2>1, <3>2, <3>3 DEF Goes
    <3>5. Picture(pos, dir) = Picture(pos, d)
      BY <2>1, AtCorner
    <3>6. go[1] = d /\ d # DIR_STOP /\ BLOCK_DIM \in 1..BLOCK_DIM
      BY <1>0, <3>1 DEF Dirs, DIR_STOP
    <3> HIDE DEF q, o
    <3> QED BY <2>1, <2>2, <3>2, <3>4, <3>5, <3>6
  <2> QED BY <2>3, <2>4, <2>5, ChosenWay
<1>2. CASE /\ move_cnt \in 1..BLOCK_DIM - 1 /\ dir \in Dirs
           /\ \E q \in InnerPoints, p \in InnerPoints : Goes(q, p, dir, move_cnt, pos)
  <2>1. PICK q \in InnerPoints, p \in InnerPoints : Goes(q, p, dir, move_cnt, pos)
    BY <1>2
  <2>2. PICK n \in 1..BLOCK_DIM - 1 : n = move_cnt
    BY <1>2
  <2>3. PICK o \in Dirs : o = (dir + 2) % 4 /\ (o + 2) % 4 = dir
    BY <1>2 DEF Dirs
  <2>4. \/ turned[1] = dir /\ turned[2] = n
        \/ turned[1] = o /\ turned[2] = BLOCK_DIM - n
    <3>1. move_cnt \in 0..BLOCK_DIM - 1 /\ move_cnt > 0
      BY <1>0, <2>2
    <3> QED BY <1>0, <2>2, <2>3, <3>1, ReversedWay
  <2>5. turned[2] # 0 /\ go = turned
    BY <1>0, <2>4
  <2>6. Covered(pos) = {p, q}
    <3>1. n # 0 /\ n # BLOCK_DIM
      BY <1>0
    <3> QED BY <1>2, <2>1, <2>2, <3>1, OnGoing
  <2>7. CASE turned[1] = dir
    <3>1. go[1] = dir /\ dir # DIR_STOP /\ n \in 1..BLOCK_DIM
      BY <1>0, <1>2, <2>5, <2>7 DEF Dirs, DIR_STOP
    <3> QED BY <1>2, <2>1, <2>2, <2>5, <2>6, <3>1
  <2>8. CASE turned[1] = o
    <3>1. go[1] = o /\ o # DIR_STOP /\ BLOCK_DIM - n \in 1..BLOCK_DIM
      BY <1>0, <2>5, <2>8 DEF Dirs, DIR_STOP
    <3>2. Picture(pos, dir) = Picture(pos, o)
      BY <1>2, <2>3 DEF Picture, Dirs
    <3>3. /\ pos = Toward(Corner(p), dir, BLOCK_DIM - n)
          /\ Toward(p, dir, 1) = q
      <4>1. q \in Int \X Int /\ n \in Int
        BY InnerPairs
      <4>2. /\ pos = Toward(Corner(q), o, n) /\ p = Toward(q, o, 1)
        BY <2>1, <2>2, <2>3 DEF Goes
      <4>3. pos = Toward(Corner(p), dir, BLOCK_DIM - n)
        BY <1>2, <2>3, <4>1, <4>2, Steps
      <4>4. Toward(Toward(q, o, 1), dir, 1) = q
        BY <1>2, <2>3, <4>1, Steps
      <4> QED BY <4>2, <4>3, <4>4
    <3>4. Goes(p, q, o, BLOCK_DIM - n, pos)
      <4>1. BLOCK_DIM - n \in 0..BLOCK_DIM
        BY <1>0
      <4> QED BY <2>1, <2>3, <3>3, <4>1 DEF Goes
    <3> QED BY <2>5, <2>6, <3>1, <3>2, <3>4
  <2> QED BY <2>4, <2>7, <2>8
<1> QED BY <1>1, <1>2, WhereItIs

-----------------------------------------------------------------------------
(* The screen stays up to date.  *)

\* What is in view and not under the player is up to date, and the player is
\* on points it has seen.
ScreenInv ==
    level = "on" => /\ Screen(State, Picture(pos, dir))
                    /\ \A p \in Covered(pos) : Cell(p) \in reach

\* Unveiling from a pixel of the player.
LEMMA UnveiledInFrame ==
    ASSUME EdgesApart, ExitInside, NEW s, Sound(s), NEW xy, Framed(xy, s.map),
           NEW e \in Nat \X Nat, Square(e) \in InnerPoints, e[1] >= xy[1],
           2 * (e[1] - xy[1]) <= BLOCK_DIM, NEW P, Screen(s, P)
    PROVE  /\ Screen(Unveiled(s, e), P)
           /\ s.reach \subseteq Unveiled(s, e).reach
           /\ Cell(Square(e)) \in Unveiled(s, e).reach
           /\ \A d \in Dirs : Toward(Square(e), d, 1) \in InnerPoints =>
                Cell(Toward(Square(e), d, 1)) \in Unveiled(s, e).reach
<1> DEFINE q == Square(e)
<1>1. /\ Screen(Unveiled(s, e), P)
      /\ s.reach \subseteq Unveiled(s, e).reach
      /\ \A p \in Around(q) \cap Lattice : Cell(p) \in Unveiled(s, e).reach
  BY InLattice, NearApart, UnveiledScreen
<1>2. InnerPoints \subseteq Lattice
  BY MazeAssumption DEF InnerPoints, Lattice
<1>3. q \in Around(q) /\ \A d \in Dirs : Toward(q, d, 1) \in Around(q)
  <2>1. PICK i \in Int, j \in Int : q = <<i, j>>
    BY InnerPairs
  <2> HIDE DEF q
  <2> QED BY <2>1 DEF Around, Toward, StepOf, Dirs
<1> QED BY <1>1, <1>2, <1>3

\* Where it unveils from, after a move.
LEMMA EatsNear ==
    ASSUME NEW xy \in Nat \X Nat, NEW d \in Dirs
    PROVE  /\ EatsAt(xy, d) \in Nat \X Nat /\ EatsAt(xy, d)[1] >= xy[1]
           /\ 2 * (EatsAt(xy, d)[1] - xy[1]) <= BLOCK_DIM
<1>1. PICK h \in Nat : h = BLOCK_DIM \div 2 /\ 2 * h = BLOCK_DIM
  BY GameAssumption
<1>2. PICK i \in Nat, j \in Nat : xy = <<i, j>>
  OBVIOUS
<1>3. BLOCK_DIM \in Nat
  BY GameAssumption
<1>4. CASE d = 0
  <2>1. (d + 2) % 4 = 2
    BY <1>4
  <2>2. EatsAt(xy, d) = <<i, j + h>>
    BY <1>1, <1>2, <1>4, <2>1 DEF EatsAt, Toward, StepOf
  <2> QED BY <1>2, <1>3, <2>2
<1>5. CASE d = 3
  <2>1. (d + 2) % 4 = 1
    BY <1>5
  <2>2. EatsAt(xy, d) = <<i + h, j>>
    BY <1>1, <1>2, <1>5, <2>1 DEF EatsAt, Toward, StepOf
  <2> QED BY <1>1, <1>2, <1>3, <2>2
<1>6. CASE d \notin {0, 3}
  BY <1>2, <1>3, <1>6 DEF EatsAt
<1> QED BY <1>4, <1>5, <1>6

\* A move by a pixel on a way, and all that is drawn with it.
LEMMA MoveScreen ==
    ASSUME EdgesApart, ExitInside, NEW s, Sound(s), s.map \in Int \X Int,
           NEW d \in Dirs, NEW q \in InnerPoints, NEW p \in InnerPoints,
           NEW n \in 1..BLOCK_DIM, Goes(q, p, d, n, pos),
           Screen(s, Picture(pos, d)), Cell(p) \in s.reach, Cell(q) \in s.reach,
           NEW to, to = Toward(pos, d, 1), to \in Nat \X Nat,
           Framed(to, Moved(s, to, d).map),
           NEW t, t = Redrawn(Moved(s, to, d), {Behind(to, d)}),
           NEW u, u = Unveiled(t, EatsAt(to, d)),
           NEW w, w = PlayerDrawn(u, to, d)
    PROVE  /\ Screen(w, Picture(to, d))
           /\ \A r \in Covered(to) : Cell(r) \in w.reach
<1> DEFINE v == Moved(s, to, d)
           P == Picture(pos, d)
<1>1. Sound(v) /\ Screen(v, P)
  BY MovedSound, MovedScreen
<1>2. Sound(t) /\ t.map = v.map
  BY <1>1, RedrawnSound
<1>3. Goes(q, p, d, n - 1, to)
  <2>1. n - 1 \in 0..BLOCK_DIM /\ n \in Int /\ q \in Int \X Int
    BY InnerPairs, GameAssumption
  <2>2. PICK o : o = (d + 2) % 4
    OBVIOUS
  <2>3. pos = Toward(Corner(q), o, n) /\ Corner(q) \in Int \X Int
    BY <2>2, InnerPairs DEF Goes
  <2>4. to = Toward(Corner(q), o, n - 1)
    BY <2>1, <2>2, <2>3, Steps
  <2> QED BY <2>1, <2>2, <2>4 DEF Goes
<1>4. /\ Covered(to) \subseteq {p, q} /\ Square(EatsAt(to, d)) \in {p, q}
      /\ P \subseteq Picture(to, d) \cup {Behind(to, d)}
  <2>1. BLOCK_DIM \in Nat /\ n - 1 < BLOCK_DIM /\ n > 0
    BY GameAssumption
  <2>2. PICK k : k = n - 1
    OBVIOUS
  <2>3. /\ k = 0 => Covered(to) = {q}
        /\ k = BLOCK_DIM => Covered(to) = {p}
        /\ k # 0 /\ k # BLOCK_DIM => Covered(to) = {p, q}
        /\ k < BLOCK_DIM => Square(EatsAt(to, d)) \in {p, q}
    BY <1>3, <2>2, OnGoing
  <2>4. P \subseteq Picture(to, d) \cup {Behind(to, d)}
    BY <2>1, OnGoing
  <2> QED BY <2>1, <2>2, <2>3, <2>4
<1>5. Screen(t, Picture(to, d))
  <2>1. Screen(t, P \ {Behind(to, d)})
    <3> HIDE DEF v, P
    <3> QED BY <1>1, RedrawnScreen DEF v
  <2> QED BY <1>4, <2>1, ScreenMore
<1>6. t.reach = s.reach
  BY <1>1, DrawingKeeps
<1>7. Screen(u, Picture(to, d)) /\ s.reach \subseteq u.reach /\ Sound(u)
  <2> DEFINE e == EatsAt(to, d)
  <2>1. e \in Nat \X Nat /\ e[1] >= to[1] /\ 2 * (e[1] - to[1]) <= BLOCK_DIM
    BY EatsNear
  <2>2. Square(e) \in InnerPoints
    BY <1>4
  <2>3. Framed(to, t.map)
    BY <1>2
  <2> HIDE DEF e
  <2>4. Screen(Unveiled(t, e), Picture(to, d))
        /\ t.reach \subseteq Unveiled(t, e).reach
    BY <1>2, <1>5, <2>1, <2>2, <2>3, UnveiledInFrame
  <2>5. Sound(Unveiled(t, e))
    BY <1>2, UnveiledSound
  <2> QED BY <1>6, <2>4, <2>5 DEF e
<1>8. Screen(w, Picture(to, d))
  BY <1>7, PlayerDrawnScreen, ScreenMore
<1>9. w.reach = u.reach
  BY <1>7, DrawingKeeps
<1> QED BY <1>4, <1>7, <1>8, <1>9

LEMMA FrameIsFramed == FrameInv => Framed(pos, map)
BY DEF FrameInv, PlayerFramed, Framed

LEMMA ScreenStored ==
    ASSUME UNCHANGED <<walls, exit>>, NEW s, Store(s), NEW xy, NEW d,
           pos' = xy, dir' = d, Screen(s, Picture(xy, d)),
           \A p \in Covered(xy) : Cell(p) \in s.reach
    PROVE  ScreenInv'
<1>1. PICK P : P = Picture(xy, d)
  OBVIOUS
<1>2. Picture(pos, dir)' = P
  BY <1>1 DEF Picture, Points, Toward, StepOf
<1>3. Screen(State, P)'
  BY <1>1, StoredScreen
<1>4. \A p \in Covered(pos)' : Cell(p)' \in reach'
  BY DEF Store, Covered, Points, Cell, MAZE_INDEX
<1> QED BY <1>2, <1>3, <1>4 DEF ScreenInv, Screen

LEMMA InitScreen == GameInit => ScreenInv
BY DEF GameInit, ScreenInv

\* The first picture of a level: all of the view, and what is seen from the
\* first square.
LEMMA PrepareScreen ==
    ASSUME EdgesApart, Inv, Inv', FrameInv, LevelInv, Prepare
    PROVE  ScreenInv'
<1> DEFINE all == [p \in Visible(map) |-> {find_block(p, State)}]
           t == [State EXCEPT !.shown = all]
           u == Unveiled(t, Start)
           c == <<1, 1>>
           s == Redrawn(u, {Square(Start)})
<1>1. /\ Store(s) /\ UNCHANGED <<walls, exit, pos, dir>> /\ level = "making"
      /\ level' = "on"
  BY DEF Prepare
<1>2. pos = Start /\ Start = Corner(c) /\ c \in InnerPoints
  <2>1. Start = Corner(c)
    BY GameAssumption DEF Start, Corner
  <2> QED BY <1>1, <2>1, OddInner DEF Inv, MotionInv
<1>3. /\ DOMAIN t = {"fruits", "n", "reach", "map", "shown"}
      /\ t.fruits = fruits /\ t.n = n_fruits /\ t.reach = reach
      /\ t.map = map /\ t.shown = all
  BY DEF State
<1>4. Filled(all, map) /\ \A p \in Visible(map) : all[p] = {find_block(p, State)}
  BY DEF Filled
<1> HIDE DEF all, t
<1>5. Sound(t)
  BY <1>3, <1>4 DEF Sound, LevelInv, MazeSound
<1>6. Screen(t, {})
  <2>1. \A p : find_block(p, t) = find_block(p, State)
    BY <1>3 DEF find_block, State
  <2> QED BY <1>3, <1>4, <2>1 DEF Screen, Current
<1>7. Sound(u) /\ Screen(u, {}) /\ Cell(c) \in u.reach
  <2>1. Framed(Start, t.map)
    BY <1>2, <1>3, FrameIsFramed
  <2>2. /\ Start \in Nat \X Nat /\ Square(Start) = c
    BY <1>2, AtCorner
  <2>3. Start[1] >= Start[1] /\ 2 * (Start[1] - Start[1]) <= BLOCK_DIM
    BY <2>2, GameAssumption
  <2>4. ExitInside
    BY DEF ExitInside, LevelInv, MazeSound
  <2> QED BY <1>2, <1>5, <1>6, <2>1, <2>2, <2>3, <2>4, UnveiledInFrame, UnveiledSound
<1> HIDE DEF u
<1>8. Screen(s, {}) /\ s.reach = u.reach
  <2>1. Screen(Redrawn(u, {Square(Start)}), {} \ {Square(Start)})
    BY <1>7, RedrawnScreen
  <2> QED BY <1>7, <2>1, ScreenMore, DrawingKeeps
<1> HIDE DEF s
<1>9. \A p \in Covered(pos) : Cell(p) \in s.reach
  BY <1>2, <1>7, <1>8, AtCorner
<1>10. pos' = pos /\ dir' = dir /\ Screen(s, Picture(pos, dir))
  BY <1>1, <1>8, ScreenMore
<1> QED BY <1>1, <1>9, <1>10, ScreenStored
LEMMA TickScreen ==
    ASSUME EdgesApart, Inv, Inv', FrameInv, FrameInv', LevelInv, LevelInv',
           ScreenInv, Tick
    PROVE  ScreenInv'
<1> DEFINE turned == Reversed(dir, next_dir, move_cnt)
           s == IF turned[2] = 0 THEN Unveiled(State, pos) ELSE State
           go == IF turned[2] = 0
                   THEN Chosen(turned[1], next_dir, Square(pos)) ELSE turned
           to == Toward(pos, go[1], 1)
           v == Moved(s, to, go[1])
           t == Redrawn(v, {Behind(to, go[1])})
           u == Unveiled(t, EatsAt(to, go[1]))
           w == PlayerDrawn(u, to, go[1])
<1>1. /\ dir' = go[1] /\ level = "on" /\ UNCHANGED <<walls, exit>>
      /\ go[1] = DIR_STOP => Store(s) /\ pos' = pos
      /\ go[1] # DIR_STOP => Store(w) /\ pos' = to
  BY DEF Tick
<1>2. Sound(State) /\ State.map = map /\ State.reach = reach
  BY <1>1, StateSound DEF LevelInv, State
<1>3. /\ Screen(State, Picture(pos, dir))
      /\ \A p \in Covered(pos) : Cell(p) \in reach
  BY <1>1 DEF ScreenInv
<1>4. ExitInside
  BY DEF ExitInside, LevelInv, MazeSound
<1>5. Sound(s) /\ s.map = map
  BY <1>2, UnveiledSound
<1>6. /\ Screen(s, Picture(pos, dir)) /\ reach \subseteq s.reach
      /\ turned[2] = 0 =>
           \A d \in Dirs : Toward(Square(pos), d, 1) \in InnerPoints =>
             Cell(Toward(Square(pos), d, 1)) \in s.reach
  <2>1. CASE turned[2] = 0
    <3>1. PICK q \in InnerPoints : pos = Corner(q)
      BY <1>1, <2>1, OnSquare
    <3>2. Square(pos) \in InnerPoints /\ pos \in Nat \X Nat
      BY <3>1, AtCorner
    <3>3. Framed(pos, State.map)
      BY <1>2, FrameIsFramed
    <3>4. pos[1] >= pos[1] /\ 2 * (pos[1] - pos[1]) <= BLOCK_DIM
      BY <3>2, GameAssumption
    <3> HIDE DEF turned
    <3> QED BY <1>2, <1>3, <1>4, <2>1, <3>2, <3>3, <3>4, UnveiledInFrame
  <2>2. CASE turned[2] # 0
    BY <1>2, <1>3, <2>2
  <2> QED BY <2>1, <2>2
<1>7. \/ turned[2] = 0 /\ go[1] = DIR_STOP
      \/ /\ go[1] \in Dirs /\ go[1] # DIR_STOP
         /\ Picture(pos, dir) = Picture(pos, go[1])
         /\ \E q \in InnerPoints, p \in InnerPoints, n \in 1..BLOCK_DIM :
              /\ Goes(q, p, go[1], n, pos)
              /\ IF turned[2] = 0 THEN pos = Corner(p)
                 ELSE Covered(pos) = {p, q}
  <2>1. /\ turned = Reversed(dir, next_dir, move_cnt)
        /\ go = IF turned[2] = 0 THEN Chosen(turned[1], next_dir, Square(pos))
                ELSE turned
    OBVIOUS
  <2> HIDE DEF turned, go
  <2> QED BY <1>1, <2>1, TickWay
<1> HIDE DEF s, go
<1>8. CASE turned[2] = 0 /\ go[1] = DIR_STOP
  <2>1. Picture(pos, dir) = Picture(pos, go[1])
    BY <1>1, <1>8, OnSquare, AtCorner
  <2> QED BY <1>1, <1>3, <1>6, <1>8, <2>1, ScreenStored
<1>9. ASSUME go[1] \in Dirs, go[1] # DIR_STOP,
             Picture(pos, dir) = Picture(pos, go[1]),
             NEW q \in InnerPoints, NEW p \in InnerPoints, NEW n \in 1..BLOCK_DIM,
             Goes(q, p, go[1], n, pos),
             IF turned[2] = 0 THEN pos = Corner(p) ELSE Covered(pos) = {p, q}
      PROVE  ScreenInv'
  <2>1. PICK d \in Dirs : d = go[1]
    BY <1>9
  <2>2. Goes(q, p, d, n, pos) /\ Screen(s, Picture(pos, d))
    BY <1>6, <1>9, <2>1
  <2>3. Cell(p) \in s.reach /\ Cell(q) \in s.reach
    <3>1. CASE turned[2] = 0
      <4>1. p = Square(pos) /\ Covered(pos) = {p}
        BY <1>9, <3>1, AtCorner
      <4>2. Toward(p, d, 1) = q
        <5>1. q \in Int \X Int /\ 0 \in Int
          BY InnerPairs
        <5>2. PICK o : o = (d + 2) % 4
          OBVIOUS
        <5>3. p = Toward(q, o, 1)
          BY <2>2, <5>2 DEF Goes
        <5>4. o \in Dirs /\ d = (o + 2) % 4
          BY <5>2 DEF Dirs
        <5> QED BY <5>1, <5>3, <5>4, Steps
      <4> QED BY <1>3, <1>6, <3>1, <4>1, <4>2
    <3>2. CASE turned[2] # 0
      BY <1>3, <1>6, <1>9, <3>2
    <3> QED BY <3>1, <3>2
  <2>4. /\ to = Toward(pos, d, 1) /\ v = Moved(s, to, d)
        /\ t = Redrawn(Moved(s, to, d), {Behind(to, d)})
        /\ u = Unveiled(t, EatsAt(to, d)) /\ w = PlayerDrawn(u, to, d)
    BY <2>1
  <2>5. Store(w) /\ pos' = to /\ dir' = d
    BY <1>1, <1>9, <2>1
  <2> HIDE DEF turned, to, v, t, u, w
  <2>6. to \in Nat \X Nat
    <3>1. InPlace' /\ FrameInv'
      BY DEF LevelInv
    <3>2. pos' \in Int \X Int /\ pos'[1] >= BLOCK_DIM /\ pos'[2] >= BLOCK_DIM
      BY <3>1 DEF InPlace, FrameInv
    <3> QED BY <2>5, <3>2, GameAssumption
  <2>7. Framed(to, v.map)
    <3>1. Sound(v)
      BY <1>5, <2>4, MovedSound DEF FrameInv
    <3>2. Sound(t) /\ t.map = v.map
      BY <2>4, <3>1, RedrawnSound
    <3>3. Sound(u) /\ u.map = v.map
      BY <2>4, <3>2, UnveiledSound
    <3>4. w.map = v.map
      <4>1. PICK f : w = [u EXCEPT !.shown = f]
        BY <2>4 DEF PlayerDrawn
      <4> QED BY <3>3, <4>1 DEF Sound
    <3>5. map' = v.map
      BY <2>5, <3>4 DEF Store
    <3>6. Framed(pos', map')
      BY DEF FrameInv, PlayerFramed, Framed, View, Size
    <3> QED BY <2>5, <3>5, <3>6
  <2>8. s.map \in Int \X Int
    BY <1>5 DEF FrameInv
  <2>9. /\ Screen(w, Picture(to, d))
        /\ \A r \in Covered(to) : Cell(r) \in w.reach
    BY <1>4, <1>5, <2>2, <2>3, <2>4, <2>6, <2>7, <2>8, MoveScreen
  <2> QED BY <1>1, <2>5, <2>9, ScreenStored
<1> QED BY <1>7, <1>8, <1>9

\* Taking the player out leaves floor over points that have some.
LEMMA ShowScreen ==
    ASSUME Inv, LevelInv, ScreenInv, Show
    PROVE  ScreenInv'
<1> DEFINE s == PlayerUndrawn(State, pos)
           P == Picture(pos, dir)
<1>1. Store(s) /\ UNCHANGED <<walls, exit, level, pos, dir>> /\ drawn
  BY DEF Show
<1>2. CASE level = "on"
  <2>1. Sound(State) /\ State.reach = reach /\ State.n = n_fruits
    BY <1>2, StateSound DEF LevelInv, State
  <2>2. /\ Screen(State, P) /\ \A p \in Covered(pos) : Cell(p) \in State.reach
    BY <1>2, <2>1 DEF ScreenInv
  <2>3. \A p \in Covered(pos) :
          /\ find_block(p, State) \in {"empty", "fruit", "exit"}
          /\ Covered(pos) = {p} => p \in P
    BY <1>2, <2>2, CoveredOpen DEF find_block
  <2>4. s.reach = State.reach
    BY <2>1, DrawingKeeps
  <2> HIDE DEF P
  <2>5. Screen(s, P)
    BY <2>1, <2>2, <2>3, PlayerUndrawnScreen
  <2> HIDE DEF s
  <2> QED BY <1>1, <2>2, <2>4, <2>5, ScreenStored DEF P
<1>3. CASE level # "on"
  BY <1>1, <1>3 DEF ScreenInv
<1> QED BY <1>2, <1>3

LEMMA StepScreen ==
    ASSUME EdgesApart, Inv, Inv', FrameInv, FrameInv', LevelInv, LevelInv',
           ScreenInv, [Next]_vars
    PROVE  ScreenInv'
<1>1. CASE UNCHANGED <<walls, exit, reach, fruits, n_fruits, map, shown, level,
                       pos, dir>>
  <2>1. Store(State)
    BY <1>1 DEF Store, State
  <2>2. CASE level = "on"
    <3>1. /\ Screen(State, Picture(pos, dir))
          /\ \A p \in Covered(pos) : Cell(p) \in State.reach
      BY <2>2 DEF ScreenInv, State
    <3> QED BY <1>1, <2>1, <3>1, ScreenStored
  <2> QED BY <1>1, <2>2 DEF ScreenInv
<1>2. CASE Making /\ UNCHANGED gameVars
  <2>1. level' # "on"
    BY <1>2 DEF Inv, MotionInv, gameVars, Making, StartWorm, WormTurn, MarkFirst,
                Connect, ClearMarks, AddFruit, PlaceExit
  <2> QED BY <2>1 DEF ScreenInv
<1>3. CASE UNCHANGED vars
  BY <1>1, <1>3 DEF vars, mazeVars, gameVars
<1>4. CASE \E d \in Dirs : Steer(d)
  BY <1>1, <1>4 DEF Steer, mazeVars
<1>5. CASE Win
  BY <1>5 DEF Win, ScreenInv
<1> QED BY <1>2, <1>3, <1>4, <1>5, PrepareScreen, TickScreen, ShowScreen DEF Next

LEMMA ScreenShows == Inv /\ ScreenInv => ScreenCurrent
<1> SUFFICES ASSUME Inv, ScreenInv, level = "on" PROVE ScreenCurrent
  BY DEF ScreenCurrent
<1>1. Screen(State, Picture(pos, dir)) /\ Picture(pos, dir) \subseteq Covered(pos)
  BY CoveredOpen DEF ScreenInv
<1>2. State.map = map /\ State.shown = shown
  BY DEF State
<1>3. ASSUME NEW p \in Visible(map), p \notin Covered(pos)
      PROVE  Current(State, p)
  BY <1>1, <1>2, <1>3 DEF Screen
<1> QED BY <1>2, <1>3 DEF ScreenCurrent, Current, Traces

\* For every size of maze, view and blocks at which the view is too small to hold
\* both columns with the same cells, as every maze of the game has it, what is in
\* view and not under the player is up to date: nothing of the player is left
\* behind, eaten fruit is gone, the exit and what was unveiled are drawn, wherever
\* the player goes, however often it turns back and however many ticks one read of
\* the clock brings (mazegame.c:500 to 562).
THEOREM ScreenStaysCurrent ==
    ASSUME EdgesApart
    PROVE  Spec => []ScreenCurrent
<1>1. GameInit => Inv /\ MarksInv /\ FrameInv /\ LevelInv /\ ScreenInv
  BY InitInv, InitMarks, InitFrame, InitLevel, InitScreen
<1>2. Inv /\ MarksInv /\ FrameInv /\ LevelInv /\ [Next]_vars
        => (Inv /\ MarksInv /\ FrameInv /\ LevelInv)'
  BY StepInv, StepMarks, StepFrame, StepLevel
<1>3. Inv /\ Inv' /\ FrameInv /\ FrameInv' /\ LevelInv /\ LevelInv'
        /\ ScreenInv /\ [Next]_vars => ScreenInv'
  BY StepScreen
<1>4. Inv /\ ScreenInv => ScreenCurrent
  BY ScreenShows
<1> QED BY <1>1, <1>2, <1>3, <1>4, PTL DEF Spec
=============================================================================
