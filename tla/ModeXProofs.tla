----------------------------- MODULE ModeXProofs -----------------------------
(***************************************************************************)
(* The build buffer holds the window in one piece between its fences, and  *)
(* every pixel of it is shown in its place, for every size of the window,  *)
(* of the picture and of the buffer's spare room, whatever way the window  *)
(* goes.                                                                   *)
(***************************************************************************)
EXTENDS ModeX, TLAPS

-----------------------------------------------------------------------------
(* Where a pixel is.  The window is W bytes of each plane wide and H lines  *)
(* high; the pixels of one plane take S consecutive bytes.                  *)

W == SCROLL_X_WIDTH
H == SCROLL_Y_DIM
S == SCROLL_SIZE

LEMMA Sizes ==
    /\ W \in Nat /\ H \in Nat \ {0} /\ S \in Nat /\ S = W * H
    /\ SCROLL_X_DIM = 4 * W /\ W > 0
    /\ BUILD_BASE_INIT = EXTRA \div 2 /\ BUILD_BUF_SIZE = 4 * S + 1 + EXTRA
    /\ BUILD_BASE_INIT \in 0 .. EXTRA /\ BUILD_BUF_SIZE \in Nat
<1>1. /\ W \in Nat /\ W > 0 /\ SCROLL_X_DIM = 4 * W /\ H \in Nat \ {0}
  BY ModeXAssumption DEF W, H, SCROLL_X_WIDTH
<1>2. S = W * H /\ S \in Nat
  <2>1. S = W * H
    BY DEF S, W, H, SCROLL_SIZE
  <2>2. \A a, b \in Nat : a * b \in Nat
    OBVIOUS
  <2> QED
    BY <1>1, <2>1, <2>2
<1>3. BUILD_BUF_SIZE = 4 * S + 1 + EXTRA
  BY <1>2, ModeXAssumption DEF BUILD_BUF_SIZE, SCREEN_SIZE, S
<1>4. BUILD_BASE_INIT = EXTRA \div 2
  <2>1. BUILD_BUF_SIZE - SCREEN_SIZE = EXTRA
    BY <1>2, ModeXAssumption DEF BUILD_BUF_SIZE, SCREEN_SIZE, S
  <2> QED
    BY <2>1 DEF BUILD_BASE_INIT
<1>5. EXTRA \div 2 \in 0 .. EXTRA
  BY ModeXAssumption
<1>6. BUILD_BUF_SIZE \in Nat
  BY <1>2, <1>3, ModeXAssumption
<1> QED
  BY <1>1, <1>2, <1>3, <1>4, <1>5, <1>6

\* Four columns share a byte of an address.
LEMMA Quarters ==
  \A n \in Nat : n % 4 \in 0 .. 3 /\ n \div 4 \in Nat /\ n = 4 * (n \div 4) + (n % 4)
OBVIOUS

\* Lines of w bytes lie one behind the other.
LEMMA Lines ==
  ASSUME NEW w \in Nat, w > 0, NEW h \in Nat,
         NEW u \in 0 .. w - 1, NEW j \in 0 .. h - 1
  PROVE  /\ j * w \in Nat /\ u + j * w \in 0 .. w * h - 1
         /\ \A v \in 0 .. w - 1, k \in 0 .. h - 1 :
               u + j * w = v + k * w => u = v /\ j = k
<1>1. \A a, b \in Nat : a * b \in Nat
  OBVIOUS
<1>2. j * w \in Nat
  BY <1>1
<1>3. u + j * w \in 0 .. w * h - 1
  <2>1. (h - 1 - j) * w \in Nat
    BY <1>1
  <2>2. (h - 1 - j) * w = w * h - w - j * w
    OBVIOUS
  <2> QED
    BY <1>2, <2>1, <2>2
<1>4. ASSUME NEW v \in 0 .. w - 1, NEW k \in 0 .. h - 1,
             u + j * w = v + k * w
      PROVE  u = v /\ j = k
  <2>1. ASSUME NEW m \in Nat, NEW n \in Nat, m < n
        PROVE  m * w + w =< n * w
    <3>1. (n - m - 1) * w \in Nat
      BY <1>1, <2>1
    <3>2. (n - m - 1) * w = n * w - m * w - w
      OBVIOUS
    <3>3. m * w \in Nat /\ n * w \in Nat
      BY <1>1
    <3> QED
      BY <3>1, <3>2, <3>3
  <2>2. j * w \in Nat /\ k * w \in Nat
    BY <1>1
  <2>3. ~(j < k)
    <3>1. j < k => j * w + w =< k * w
      BY <2>1
    <3> QED
      BY <1>4, <2>2, <3>1
  <2>4. ~(k < j)
    <3>1. k < j => k * w + w =< j * w
      BY <2>1
    <3> QED
      BY <1>4, <2>2, <3>1
  <2>5. j = k
    BY <2>3, <2>4
  <2> QED
    BY <1>4, <2>2, <2>5
<1> QED
  BY <1>2, <1>3, <1>4

\* The planes follow one another, plane 3 first.
LEMMA Planewise ==
  /\ \A c \in 0 .. 3 : (3 - c) * S \in 0 .. 3 * S
  /\ \A c, d \in 0 .. 3 : c < d => (3 - d) * S + S =< (3 - c) * S
<1>1. S \in Nat
  BY Sizes
<1>2. \A c \in 0 .. 3 : c = 0 \/ c = 1 \/ c = 2 \/ c = 3
  OBVIOUS
<1>3. /\ (3 - 0) * S = S + S + S /\ (3 - 1) * S = S + S /\ (3 - 2) * S = S
      /\ (3 - 3) * S = 0 /\ 3 * S = S + S + S
  BY <1>1
<1> QED
  BY <1>1, <1>2, <1>3

Points == Nat \X Nat

\* A plane whose first column is left of the window's begins a byte later.
Turn(at, p) == IF p[1] % 4 < at[1] % 4 THEN 1 ELSE 0

\* Where a pixel of the window is among those of its plane.
Rank(at, p) == (p[1] \div 4 - at[1] \div 4 - Turn(at, p)) + (p[2] - at[2]) * W

LEMMA InPlane ==
  ASSUME NEW at \in Points, NEW p \in Window(at)
  PROVE  /\ p \in Points /\ Turn(at, p) \in 0 .. 1
         /\ p[1] \div 4 - at[1] \div 4 - Turn(at, p) \in 0 .. W - 1
         /\ p[2] - at[2] \in 0 .. H - 1
         /\ Rank(at, p) \in 0 .. S - 1
         /\ Address(at) \in Nat /\ Address(p) \in Nat
         /\ Cell(p) = Address(at) + Turn(at, p) + (3 - (p[1] % 4)) * S + Rank(at, p)
<1>1. /\ at[1] \in Nat /\ at[2] \in Nat
      /\ p[1] \in at[1] .. at[1] + 4 * W - 1
      /\ p[2] \in at[2] .. at[2] + H - 1
      /\ p = <<p[1], p[2]>>
  BY Sizes DEF Points, Window, H
<1>2. W \in Nat /\ H \in Nat /\ S = W * H /\ W > 0
  BY Sizes
<1>3. Turn(at, p) \in 0 .. 1
  BY DEF Turn
<1> DEFINE u == p[1] \div 4 - at[1] \div 4 - Turn(at, p)
           j == p[2] - at[2]
<1>4. u \in 0 .. W - 1
  BY <1>1, <1>2 DEF Turn
<1>5. j \in 0 .. H - 1
  BY <1>1, <1>2
<1>6. Rank(at, p) = u + j * W
  BY DEF Rank
<1> HIDE DEF u, j
<1>7. u + j * W \in 0 .. S - 1
  BY <1>2, <1>4, <1>5, Lines
<1>8. /\ Address(p) = p[1] \div 4 + p[2] * W /\ Address(at) = at[1] \div 4 + at[2] * W
      /\ Address(p) \in Nat /\ Address(at) \in Nat
  <2>1. \A a, b \in Nat : a * b \in Nat
    OBVIOUS
  <2>2. p[2] * W \in Nat /\ at[2] * W \in Nat /\ p[1] \div 4 \in Nat /\ at[1] \div 4 \in Nat
    BY <1>1, <1>2, <2>1
  <2> QED
    BY <2>2 DEF Address, W
<1>9. j * W = p[2] * W - at[2] * W
  BY <1>1, <1>2 DEF j
<1>10. Cell(p) = Address(p) + (3 - (p[1] % 4)) * S
  BY DEF Cell, S
<1>11. p[2] * W \in Nat /\ at[2] * W \in Nat /\ p[1] \div 4 \in Nat /\ at[1] \div 4 \in Nat
  <2>1. \A a, b \in Nat : a * b \in Nat
    OBVIOUS
  <2> QED
    BY <1>1, <1>2, <2>1
<1>12. Address(p) = Address(at) + Turn(at, p) + u + j * W
  BY <1>1, <1>3, <1>8, <1>9, <1>11 DEF u
<1>13. p[1] % 4 \in 0 .. 3 /\ S \in Nat
  <2>1. p[1] \in Nat
    BY <1>1
  <2> QED
    BY <2>1, Quarters, Sizes
<1>14. (3 - (p[1] % 4)) * S \in Nat
  BY <1>13, Planewise
<1>15. Cell(p) = Address(at) + Turn(at, p) + (3 - (p[1] % 4)) * S + Rank(at, p)
  <2> DEFINE z == (3 - (p[1] % 4)) * S
             t == Turn(at, p)
             r == u + j * W
             A == Address(at)
  <2>1. z \in Nat /\ t \in Nat /\ r \in Nat /\ A \in Nat
    BY <1>3, <1>7, <1>8, <1>14, Sizes
  <2>2. Address(p) = A + t + r
    <3>1. j * W \in Int /\ u \in Int
      BY <1>4, <1>9, <1>11
    <3> QED
      BY <1>8, <1>12, <1>3, <3>1
  <2>3. Cell(p) = (A + t + r) + z
    BY <1>10, <2>2
  <2> HIDE DEF z, t, r, A
  <2>4. (A + t + r) + z = A + t + z + r
    BY <2>1
  <2> QED
    BY <1>6, <2>3, <2>4 DEF z, t, r, A
<1>16. p \in Points
  BY <1>1 DEF Points
<1> QED
  BY <1>3, <1>4, <1>5, <1>6, <1>7, <1>8, <1>15, <1>16 DEF u, j

\* No two pixels of the window share a byte: the planes do not overlap.
LEMMA OneCell ==
  ASSUME NEW at \in Points, NEW p \in Window(at), NEW q \in Window(at),
         Cell(p) = Cell(q)
  PROVE  p = q
<1> DEFINE A == Address(at)
           tp == Turn(at, p)
           tq == Turn(at, q)
           cp == p[1] % 4
           cq == q[1] % 4
           rp == Rank(at, p)
           rq == Rank(at, q)
<1>1. /\ p[1] \in Nat /\ q[1] \in Nat /\ at[1] \in Nat
      /\ p[2] \in Nat /\ q[2] \in Nat /\ at[2] \in Nat
      /\ p = <<p[1], p[2]>> /\ q = <<q[1], q[2]>>
  BY InPlane DEF Points
<1>2. /\ A \in Nat /\ tp \in 0 .. 1 /\ tq \in 0 .. 1 /\ S \in Nat
      /\ rp \in 0 .. S - 1 /\ rq \in 0 .. S - 1 /\ cp \in 0 .. 3 /\ cq \in 0 .. 3
      /\ A + tp + (3 - cp) * S + rp = A + tq + (3 - cq) * S + rq
  <2>1. cp \in 0 .. 3 /\ cq \in 0 .. 3
    BY <1>1, Quarters
  <2>2. /\ A \in Nat /\ tp \in 0 .. 1 /\ rp \in 0 .. S - 1
        /\ Cell(p) = A + tp + (3 - cp) * S + rp
    BY InPlane
  <2>3. tq \in 0 .. 1 /\ rq \in 0 .. S - 1 /\ Cell(q) = A + tq + (3 - cq) * S + rq
    BY InPlane
  <2>4. S \in Nat
    BY Sizes
  <2> HIDE DEF A, tp, tq, cp, cq, rp, rq
  <2> QED
    BY <2>1, <2>2, <2>3, <2>4
<1>3. (cp =< cq => tp >= tq) /\ (cq =< cp => tq >= tp)
  BY <1>1 DEF Turn
<1> HIDE DEF A, tp, tq, cp, cq, rp, rq
<1>4. cp = cq
  <2> DEFINE zp == (3 - cp) * S
             zq == (3 - cq) * S
  <2>1. /\ zp \in Nat /\ zq \in Nat
        /\ cp < cq => zq + S =< zp
        /\ cq < cp => zp + S =< zq
    BY <1>2, Planewise
  <2>2. A + tp + zp + rp = A + tq + zq + rq
    BY <1>2
  <2> HIDE DEF zp, zq
  <2> QED
    BY <1>2, <1>3, <2>1, <2>2
<1>5. tp = tq
  BY <1>2, <1>3, <1>4
<1>6. rp = rq
  <2> DEFINE zp == (3 - cp) * S
  <2>1. zp \in Nat /\ A + tp + zp + rp = A + tp + zp + rq
    BY <1>2, <1>4, <1>5, Planewise
  <2> HIDE DEF zp
  <2> QED
    BY <1>2, <2>1
<1>7. /\ p[1] \div 4 - at[1] \div 4 - tp = q[1] \div 4 - at[1] \div 4 - tq
      /\ p[2] - at[2] = q[2] - at[2]
  <2> DEFINE up == p[1] \div 4 - at[1] \div 4 - tp
             uq == q[1] \div 4 - at[1] \div 4 - tq
             jp == p[2] - at[2]
             jq == q[2] - at[2]
  <2>1. up \in 0 .. W - 1 /\ jp \in 0 .. H - 1 /\ rp = up + jp * W
    BY InPlane DEF Rank, rp, tp
  <2>4. uq \in 0 .. W - 1 /\ jq \in 0 .. H - 1 /\ rq = uq + jq * W
    BY InPlane DEF Rank, rq, tq
  <2>2. W \in Nat /\ W > 0 /\ H \in Nat
    BY Sizes
  <2> HIDE DEF up, uq, jp, jq
  <2>5. \A v \in 0 .. W - 1, k \in 0 .. H - 1 :
           up + jp * W = v + k * W => up = v /\ jp = k
    BY <2>1, <2>2, Lines
  <2>3. up = uq /\ jp = jq
    BY <1>6, <2>1, <2>4, <2>5
  <2> QED
    BY <2>3 DEF up, uq, jp, jq
<1>8. p[2] = q[2]
  BY <1>1, <1>7
<1>9. p[1] = q[1]
  <2>1. p[1] \div 4 \in Nat /\ q[1] \div 4 \in Nat /\ at[1] \div 4 \in Nat
    BY <1>1, Quarters
  <2>2. p[1] \div 4 = q[1] \div 4
    <3> DEFINE x == p[1] \div 4
               y == q[1] \div 4
               z == at[1] \div 4
    <3>1. x - z - tp = y - z - tp /\ tp \in Int
      BY <1>2, <1>5, <1>7
    <3> HIDE DEF x, y, z
    <3>2. x \in Nat /\ y \in Nat /\ z \in Nat
      BY <2>1 DEF x, y, z
    <3>3. x = y
      BY <3>1, <3>2
    <3> QED
      BY <3>3 DEF x, y
  <2>3. p[1] % 4 = q[1] % 4
    BY <1>4 DEF cp, cq
  <2>4. p[1] = 4 * (p[1] \div 4) + (p[1] % 4) /\ q[1] = 4 * (q[1] \div 4) + (q[1] % 4)
    BY <1>1, Quarters
  <2> QED
    BY <2>2, <2>3, <2>4, Zenon
<1> QED
  BY <1>1, <1>8, <1>9

\* Further right and down is not nearer in memory.
LEMMA Onward ==
  ASSUME NEW p \in Points, NEW q \in Points, p[1] =< q[1], p[2] =< q[2]
  PROVE  Address(p) =< Address(q) /\ Address(p) \in Nat /\ Address(q) \in Nat
<1>1. p[1] \in Nat /\ p[2] \in Nat /\ q[1] \in Nat /\ q[2] \in Nat /\ W \in Nat
  BY Sizes DEF Points
<1>2. \A a, b \in Nat : a * b \in Nat
  OBVIOUS
<1>3. (q[2] - p[2]) * W \in Nat /\ p[2] * W \in Nat /\ q[2] * W \in Nat
  BY <1>1, <1>2
<1>4. (q[2] - p[2]) * W = q[2] * W - p[2] * W
  BY <1>1
<1>5. p[2] * W =< q[2] * W
  BY <1>3, <1>4
<1>6. /\ Address(p) = p[1] \div 4 + p[2] * W /\ Address(q) = q[1] \div 4 + q[2] * W
  BY DEF Address, W
<1>7. p[1] \div 4 =< q[1] \div 4 /\ p[1] \div 4 \in Nat /\ q[1] \div 4 \in Nat
  BY <1>1
<1> QED
  BY <1>3, <1>5, <1>6, <1>7

Last(at) == <<at[1] + SCROLL_X_DIM - 1, at[2] + SCROLL_Y_DIM - 1>>

\* The bytes of any pixels between two of them, whatever their planes.
LEMMA Between ==
  ASSUME NEW first \in Points, NEW last \in Points, NEW p \in Points,
         \A k \in 1 .. 2 : first[k] =< p[k] /\ p[k] =< last[k]
  PROVE  /\ Address(first) =< Cell(p) /\ Cell(p) =< Address(last) + 3 * S
         /\ Cell(p) \in Nat /\ Address(first) \in Nat /\ Address(last) \in Nat
<1>1. Address(first) =< Address(p) /\ Address(p) =< Address(last)
  BY Onward
<1>2. Address(first) \in Nat /\ Address(p) \in Nat /\ Address(last) \in Nat
  BY Onward
<1>3. p[1] % 4 \in 0 .. 3 /\ S \in Nat
  BY Sizes DEF Points
<1>4. (3 - (p[1] % 4)) * S \in 0 .. 3 * S
  BY <1>3, Planewise
<1>5. Cell(p) = Address(p) + (3 - (p[1] % 4)) * S
  BY DEF Cell, S
<1> DEFINE z == (3 - (p[1] % 4)) * S
<1> HIDE DEF z
<1> QED
  BY <1>1, <1>2, <1>3, <1>4, <1>5 DEF z

LEMMA WindowCorners ==
  ASSUME NEW at \in Points
  PROVE  /\ Last(at) \in Points
         /\ \A p \in Window(at) : /\ p \in Points
                                  /\ \A k \in 1 .. 2 : at[k] =< p[k] /\ p[k] =< Last(at)[k]
<1>1. at[1] \in Nat /\ at[2] \in Nat /\ SCROLL_X_DIM \in Nat \ {0} /\ SCROLL_Y_DIM \in Nat \ {0}
  BY ModeXAssumption DEF Points
<1>2. Last(at) \in Points
  BY <1>1 DEF Last, Points
<1>3. ASSUME NEW p \in Window(at)
      PROVE  p \in Points /\ \A k \in 1 .. 2 : at[k] =< p[k] /\ p[k] =< Last(at)[k]
  BY <1>1 DEF Last, Points, Window
<1> QED
  BY <1>2, <1>3

\* A window that fits has all its pixels in the buffer.
LEMMA FitsInside ==
  ASSUME NEW at \in Points, NEW off \in Int, Fits(off, at), NEW p \in Window(at)
  PROVE  off + Cell(p) \in Buffer
<1>1. Fits(off, at) <=> off + Address(at) >= 0 /\ off + 3 * S + Address(Last(at)) < BUILD_BUF_SIZE
  BY DEF Fits, Last, S
<1>2. /\ Address(at) =< Cell(p) /\ Cell(p) =< Address(Last(at)) + 3 * S
      /\ Cell(p) \in Nat /\ Address(at) \in Nat /\ Address(Last(at)) \in Nat
  BY WindowCorners, Between
<1> QED
  BY <1>1, <1>2, Sizes DEF Buffer

\* A window is as long as a plane, but for a byte.
LEMMA Span ==
  ASSUME NEW at \in Points
  PROVE  /\ Address(at) \in Nat /\ Address(Last(at)) \in Nat
         /\ Address(Last(at)) =< Address(at) + S
<1>1. at[1] \in Nat /\ at[2] \in Nat /\ W \in Nat /\ W > 0 /\ H \in Nat \ {0}
      /\ S = W * H /\ S \in Nat /\ SCROLL_X_DIM = 4 * W
  BY Sizes DEF Points
<1>2. Address(at) = at[1] \div 4 + at[2] * W
  BY DEF Address, W
<1>3. Address(Last(at)) = (at[1] + 4 * W - 1) \div 4 + (at[2] + H - 1) * W
  BY <1>1 DEF Address, W, Last, H
<1>4. (at[2] + H - 1) * W = at[2] * W + S - W
  BY <1>1
<1>5. (at[1] + 4 * W - 1) \div 4 =< at[1] \div 4 + W /\ (at[1] + 4 * W - 1) \div 4 \in Int
  BY <1>1
<1>6. Address(at) \in Nat /\ Address(Last(at)) \in Nat
  <2>1. at \in Points /\ Last(at) \in Points /\ at[1] =< Last(at)[1] /\ at[2] =< Last(at)[2]
    BY <1>1, WindowCorners DEF Last, H
  <2> QED
    BY <2>1, Onward
<1>7. at[2] * W \in Int /\ at[1] \div 4 \in Int
  BY <1>1
<1> QED
  BY <1>1, <1>2, <1>3, <1>4, <1>5, <1>6, <1>7

\* In the middle of the buffer every window fits.
LEMMA CentredFits ==
  ASSUME NEW at \in Points
  PROVE  Centred(at) \in Int /\ Fits(Centred(at), at)
<1>1. /\ Address(at) \in Nat /\ Address(Last(at)) \in Nat /\ S \in Nat
      /\ Address(Last(at)) =< Address(at) + S
  BY Span, Sizes
<1>2. Centred(at) = BUILD_BASE_INIT - Address(at) /\ BUILD_BASE_INIT \in 0 .. EXTRA
  BY Sizes DEF Centred
<1>3. BUILD_BUF_SIZE = 4 * S + 1 + EXTRA /\ EXTRA \in Nat
  BY Sizes, ModeXAssumption
<1>4. /\ Centred(at) + Address(at) >= 0
      /\ Centred(at) + 3 * S + Address(Last(at)) < BUILD_BUF_SIZE
  BY <1>1, <1>2, <1>3
<1> QED
  BY <1>1, <1>2, <1>3, <1>4 DEF Fits, Last, S

-----------------------------------------------------------------------------
(* What is put into the buffer.                                            *)

\* The n bytes of b at "from" are at "to", and the others as they were.
IsCopy(t, b, from, to, n) ==
    /\ DOMAIN t = to .. to + n - 1 \cup DOMAIN b
    /\ \A c \in to .. to + n - 1 : t[c] = b[from + (c - to)]
    /\ \A c \in DOMAIN b \ (to .. to + n - 1) : t[c] = b[c]

\* Copied in the right order, no byte is read after it was written.
LEMMA CopiedIs ==
  ASSUME NEW b, NEW from \in Int, NEW to \in Int, NEW n \in Int
  PROVE  IsCopy(Copied(b, from, to, n), b, from, to, n)
<1> DEFINE t == Copied(b, from, to, n)
<1> DEFINE new == IF from < to THEN Descending(b, from, to, n)
                  ELSE Ascending(b, from, to, n)
<1>1. t = Over(new, b)
  BY DEF Copied
<1> HIDE DEF t
<1>2. /\ DOMAIN new = to .. to + n - 1
      /\ \A c \in to .. to + n - 1 : new[c] = b[from + (c - to)]
  <2>1. CASE from < to
    <3>1. new = Descending(b, from, to, n)
      BY <2>1
    <3>2. \A c \in to .. to + n - 1 :
             Descending(b, from, to, n)[c] = b[from + n - 1 - (to + n - 1 - c)]
      BY <2>1 DEF Descending
    <3>3. \A c \in to .. to + n - 1 : from + n - 1 - (to + n - 1 - c) = from + (c - to)
      OBVIOUS
    <3>4. DOMAIN Descending(b, from, to, n) = to .. to + n - 1
      BY DEF Descending
    <3> QED
      BY <3>1, <3>2, <3>3, <3>4
  <2>2. CASE ~(from < to)
    <3>1. new = Ascending(b, from, to, n)
      BY <2>2
    <3> QED
      BY <2>2, <3>1 DEF Ascending
  <2> QED
    BY <2>1, <2>2
<1> HIDE DEF new
<1>3. /\ DOMAIN t = DOMAIN new \cup DOMAIN b
      /\ \A x \in DOMAIN new : t[x] = new[x]
      /\ \A x \in DOMAIN b \ DOMAIN new : t[x] = b[x]
  BY <1>1 DEF Over
<1>4. /\ DOMAIN t = to .. to + n - 1 \cup DOMAIN b
      /\ \A c \in to .. to + n - 1 : t[c] = b[from + (c - to)]
      /\ \A c \in DOMAIN b \ (to .. to + n - 1) : t[c] = b[c]
  BY <1>2, <1>3
<1> QED
  BY <1>4 DEF IsCopy, t

\* A window, its offset and a build buffer it fits into.
Placed(s) ==
    /\ s = [show |-> s.show, off |-> s.off, build |-> s.build]
    /\ s.show \in Points /\ s.off \in Int /\ Fits(s.off, s.show)
    /\ DOMAIN s.build = Buffer \cup Fences

LEMMA Beside == Buffer \cap Fences = {}
BY Sizes, ModeXAssumption DEF Buffer, Fences

\* Pixels of the window get where they belong, and nothing else changes.
LEMMA PlottedIs ==
  ASSUME NEW s, Placed(s), NEW pixels, DOMAIN pixels \subseteq Window(s.show)
  PROVE  LET t == Plotted(s, pixels)
         IN  /\ Placed(t) /\ t.show = s.show /\ t.off = s.off
             /\ \A c \in Fences : t.build[c] = s.build[c]
             /\ \A p \in DOMAIN pixels : t.build[s.off + Cell(p)] = pixels[p]
             /\ \A p \in Window(s.show) \ DOMAIN pixels :
                   t.build[s.off + Cell(p)] = s.build[s.off + Cell(p)]
             /\ \A c \in Buffer :
                   \/ t.build[c] = s.build[c]
                   \/ \E p \in DOMAIN pixels : c = s.off + Cell(p) /\ t.build[c] = pixels[p]
<1> DEFINE t == Plotted(s, pixels)
           cells == {s.off + Cell(p) : p \in DOMAIN pixels}
           new == [c \in cells |-> pixels[CHOOSE p \in DOMAIN pixels : s.off + Cell(p) = c]]
<1>1. t = [show |-> s.show, off |-> s.off, build |-> Over(new, s.build)]
  <2>1. t = [s EXCEPT !.build = Over(new, @)]
    BY DEF Plotted
  <2> HIDE DEF new, t
  <2> QED
    BY <2>1 DEF Placed
<1>2. \A p \in Window(s.show) : s.off + Cell(p) \in Buffer /\ Cell(p) \in Nat
  BY FitsInside, WindowCorners, Between DEF Placed
<1>3. \A p, q \in Window(s.show) : s.off + Cell(p) = s.off + Cell(q) => p = q
  <2>1. \A p, q \in Window(s.show) : s.off + Cell(p) = s.off + Cell(q) => Cell(p) = Cell(q)
    BY <1>2 DEF Placed
  <2> QED
    BY <2>1, OneCell DEF Placed
<1>4. \A p \in DOMAIN pixels : new[s.off + Cell(p)] = pixels[p]
  <2> SUFFICES ASSUME NEW p \in DOMAIN pixels
               PROVE  new[s.off + Cell(p)] = pixels[p]
    OBVIOUS
  <2> DEFINE q == CHOOSE q \in DOMAIN pixels : s.off + Cell(q) = s.off + Cell(p)
  <2>1. q \in DOMAIN pixels /\ s.off + Cell(q) = s.off + Cell(p)
    OBVIOUS
  <2>2. new[s.off + Cell(p)] = pixels[q]
    OBVIOUS
  <2> HIDE DEF q, new
  <2>3. q = p
    BY <1>3, <2>1
  <2> QED
    BY <2>2, <2>3
<1>5. DOMAIN new = cells
  OBVIOUS
<1> HIDE DEF t, new
<1>6. /\ t.show = s.show /\ t.off = s.off /\ t.build = Over(new, s.build)
      /\ t = [show |-> t.show, off |-> t.off, build |-> t.build]
  BY <1>1
<1>7. /\ DOMAIN t.build = cells \cup DOMAIN s.build
      /\ \A c \in cells : t.build[c] = new[c]
      /\ \A c \in DOMAIN s.build \ cells : t.build[c] = s.build[c]
  BY <1>5, <1>6 DEF Over
<1>8. cells \subseteq Buffer
  BY <1>2
<1>9. DOMAIN s.build = Buffer \cup Fences
  BY DEF Placed
<1>10. Placed(t)
  BY <1>6, <1>7, <1>8, <1>9 DEF Placed
<1>11. \A p \in DOMAIN pixels : t.build[s.off + Cell(p)] = pixels[p]
  BY <1>4, <1>7
<1>12. \A p \in Window(s.show) \ DOMAIN pixels :
          t.build[s.off + Cell(p)] = s.build[s.off + Cell(p)]
  <2> SUFFICES ASSUME NEW p \in Window(s.show) \ DOMAIN pixels
               PROVE  s.off + Cell(p) \in DOMAIN s.build \ cells
    BY <1>7
  <2> QED
    BY <1>2, <1>3, <1>9
<1>13. \A c \in Fences : t.build[c] = s.build[c]
  BY <1>7, <1>8, <1>9, Beside
<1>14. \A c \in Buffer :
          \/ t.build[c] = s.build[c]
          \/ \E p \in DOMAIN pixels : c = s.off + Cell(p) /\ t.build[c] = pixels[p]
  BY <1>7, <1>9, <1>11
<1> QED
  BY <1>6, <1>10, <1>11, <1>12, <1>13, <1>14 DEF t

\* A window that moves keeps what is still to be seen.
LEMMA MovedIs ==
  ASSUME Placed(Here), NEW to \in Points
  PROVE  LET s == set_view_window(to)
         IN  /\ Placed(s) /\ s.show = to
             /\ \A c \in Fences : s.build[c] = build[c]
             /\ \A p \in Window(to) \cap Window(show) :
                   s.build[s.off + Cell(p)] = build[img3_off + Cell(p)]
             /\ \A c \in Buffer : \/ s.build[c] = Old
                                  \/ \E d \in Buffer : s.build[c] = build[d]
<1> DEFINE first == <<Larger(to[1], show[1]), Larger(to[2], show[2])>>
           last == <<Smaller(to[1], show[1]) + SCROLL_X_DIM - 1,
                     Smaller(to[2], show[2]) + SCROLL_Y_DIM - 1>>
           off == IF Fits(img3_off, to) THEN img3_off ELSE Centred(to)
           from == img3_off + Address(first)
           dest == off + Address(first)
           n == Address(last) + 1 - Address(first) + 3 * S
           kept == IF Fits(img3_off, to) \/ Apart(to, show) THEN build
                   ELSE Copied(build, from, dest, n)
           s == set_view_window(to)
<1>1. s = [show |-> to, off |-> off, build |-> Aged(kept, off, to)]
  BY DEF set_view_window, S
<1>2. /\ show \in Points /\ img3_off \in Int /\ Fits(img3_off, show)
      /\ DOMAIN build = Buffer \cup Fences
  BY DEF Placed, Here
<1>3. /\ to[1] \in Nat /\ to[2] \in Nat /\ show[1] \in Nat /\ show[2] \in Nat
      /\ SCROLL_X_DIM \in Nat \ {0} /\ SCROLL_Y_DIM \in Nat \ {0}
  BY <1>2, ModeXAssumption DEF Points
<1>4. off \in Int /\ Fits(off, to)
  BY <1>2, CentredFits
<1>5. /\ first \in Points /\ last \in Points
      /\ \A k \in 1 .. 2 : /\ to[k] =< first[k] /\ show[k] =< first[k]
                           /\ last[k] =< Last(to)[k] /\ last[k] =< Last(show)[k]
  BY <1>3 DEF Points, Larger, Smaller, Last
<1>6. ASSUME NEW p \in Window(to) \cap Window(show)
      PROVE  /\ p \in Points
             /\ \A k \in 1 .. 2 : first[k] =< p[k] /\ p[k] =< last[k]
  BY <1>3 DEF Points, Larger, Smaller, Window
<1>7. Window(to) \cap Window(show) = {} \/ ~Apart(to, show)
  <2> SUFFICES ASSUME NEW p \in Window(to), p \in Window(show), Apart(to, show)
               PROVE  FALSE
    OBVIOUS
  <2> QED
    BY <1>3 DEF Window, Apart
<1> HIDE DEF first, last, off, s
<1>8. /\ Address(first) \in Nat /\ Address(last) \in Nat
      /\ Address(to) =< Address(first) /\ Address(last) =< Address(Last(to))
      /\ Address(show) =< Address(first) /\ Address(last) =< Address(Last(show))
      /\ Address(to) \in Nat /\ Address(show) \in Nat
      /\ Address(Last(to)) \in Nat /\ Address(Last(show)) \in Nat
  <2>1. Last(to) \in Points /\ Last(show) \in Points
    BY <1>2, WindowCorners
  <2>2. Address(to) =< Address(first) /\ Address(to) \in Nat /\ Address(first) \in Nat
    BY <1>5, Onward
  <2>3. Address(show) =< Address(first) /\ Address(show) \in Nat
    BY <1>2, <1>5, Onward
  <2>4. Address(last) =< Address(Last(to)) /\ Address(Last(to)) \in Nat /\ Address(last) \in Nat
    BY <1>5, <2>1, Onward
  <2>5. Address(last) =< Address(Last(show)) /\ Address(Last(show)) \in Nat
    BY <1>5, <2>1, Onward
  <2> QED
    BY <2>2, <2>3, <2>4, <2>5
<1>9. /\ off + Address(to) >= 0 /\ off + 3 * S + Address(Last(to)) < BUILD_BUF_SIZE
      /\ img3_off + Address(show) >= 0
      /\ img3_off + 3 * S + Address(Last(show)) < BUILD_BUF_SIZE
      /\ S \in Nat /\ BUILD_BUF_SIZE \in Nat
  BY <1>2, <1>4, Sizes DEF Fits, Last, S
<1>10. /\ from \in Int /\ dest \in Int /\ n \in Int
       /\ dest .. dest + n - 1 \subseteq Buffer
       /\ \A c \in dest .. dest + n - 1 : from + (c - dest) \in Buffer
  BY <1>2, <1>4, <1>8, <1>9 DEF Buffer
<1>11. \A p \in Window(to) \cap Window(show) :
          /\ off + Cell(p) \in dest .. dest + n - 1
          /\ from + ((off + Cell(p)) - dest) = img3_off + Cell(p)
  <2> SUFFICES ASSUME NEW p \in Window(to) \cap Window(show)
               PROVE  /\ off + Cell(p) \in dest .. dest + n - 1
                      /\ from + ((off + Cell(p)) - dest) = img3_off + Cell(p)
    OBVIOUS
  <2>1. Address(first) =< Cell(p) /\ Cell(p) =< Address(last) + 3 * S /\ Cell(p) \in Nat
    BY <1>5, <1>6, Between
  <2> QED
    BY <1>2, <1>4, <1>8, <1>9, <2>1
<1> HIDE DEF from, dest, n
<1>12. /\ DOMAIN kept = Buffer \cup Fences
       /\ \A c \in Fences : kept[c] = build[c]
       /\ \A p \in Window(to) \cap Window(show) :
             kept[off + Cell(p)] = build[img3_off + Cell(p)]
       /\ \A c \in Buffer : \E d \in Buffer : kept[c] = build[d]
  <2>1. CASE Fits(img3_off, to) \/ Apart(to, show)
    <3>1. kept = build
      BY <2>1
    <3>2. Window(to) \cap Window(show) = {} \/ off = img3_off
      BY <1>7, <2>1 DEF off
    <3> QED
      BY <1>2, <3>1, <3>2
  <2>2. CASE ~(Fits(img3_off, to) \/ Apart(to, show))
    <3>1. kept = Copied(build, from, dest, n)
      BY <2>2
    <3> HIDE DEF kept
    <3>2. /\ DOMAIN kept = dest .. dest + n - 1 \cup DOMAIN build
          /\ \A c \in dest .. dest + n - 1 : kept[c] = build[from + (c - dest)]
          /\ \A c \in DOMAIN build \ (dest .. dest + n - 1) : kept[c] = build[c]
      <4>1. from \in Int /\ dest \in Int /\ n \in Int
        BY <1>10
      <4>2. IsCopy(kept, build, from, dest, n)
        BY <3>1, <4>1, CopiedIs
      <4> QED
        BY <4>2 DEF IsCopy
    <3>3. DOMAIN kept = Buffer \cup Fences
      BY <1>2, <1>10, <3>2
    <3>4. \A c \in Fences : kept[c] = build[c]
      BY <1>2, <1>10, <3>2, Beside
    <3>5. \A p \in Window(to) \cap Window(show) :
             kept[off + Cell(p)] = build[img3_off + Cell(p)]
      <4> SUFFICES ASSUME NEW p \in Window(to) \cap Window(show)
                   PROVE  kept[off + Cell(p)] = build[img3_off + Cell(p)]
        OBVIOUS
      <4>1. /\ off + Cell(p) \in dest .. dest + n - 1
            /\ from + ((off + Cell(p)) - dest) = img3_off + Cell(p)
        BY <1>11
      <4>2. kept[off + Cell(p)] = build[from + ((off + Cell(p)) - dest)]
        BY <3>2, <4>1
      <4> QED
        BY <4>1, <4>2
    <3>6. \A c \in Buffer : \E d \in Buffer : kept[c] = build[d]
      BY <1>2, <1>10, <3>2
    <3> QED
      BY <3>3, <3>4, <3>5, <3>6
  <2> QED
    BY <2>1, <2>2
<1> HIDE DEF kept
<1> DEFINE seen == {off + Cell(p) : p \in Window(to)}
           aged == Aged(kept, off, to)
<1>13. /\ DOMAIN aged = (Buffer \ seen) \cup DOMAIN kept
       /\ \A c \in Buffer \ seen : aged[c] = Old
       /\ \A c \in DOMAIN kept \ (Buffer \ seen) : aged[c] = kept[c]
  BY DEF Aged, Over
<1>14. s.show = to /\ s.off = off /\ s.build = aged
       /\ s = [show |-> s.show, off |-> s.off, build |-> s.build]
  BY <1>1
<1> HIDE DEF aged
<1>15. Placed(s)
  BY <1>4, <1>12, <1>13, <1>14 DEF Placed
<1>16. \A c \in Fences : s.build[c] = build[c]
  BY <1>12, <1>13, <1>14, Beside
<1>17. \A p \in Window(to) \cap Window(show) :
          s.build[s.off + Cell(p)] = build[img3_off + Cell(p)]
  <2> SUFFICES ASSUME NEW p \in Window(to) \cap Window(show)
               PROVE  s.build[s.off + Cell(p)] = build[img3_off + Cell(p)]
    OBVIOUS
  <2>1. off + Cell(p) \in Buffer /\ off + Cell(p) \in seen
    BY <1>4, FitsInside
  <2> HIDE DEF seen
  <2>2. off + Cell(p) \in DOMAIN kept \ (Buffer \ seen)
    BY <1>12, <2>1
  <2> QED
    BY <1>12, <1>13, <1>14, <2>2
<1>18. \A c \in Buffer : \/ s.build[c] = Old
                         \/ \E d \in Buffer : s.build[c] = build[d]
  <2> HIDE DEF seen
  <2> QED
    BY <1>12, <1>13, <1>14
<1> QED
  BY <1>14, <1>15, <1>16, <1>17, <1>18 DEF s

\* Whether a pixel is one of a block's, but for those that are skipped.
Covers(pos, skip, p) == <<p[1] - pos[1], p[2] - pos[2]>> \in AllPixels \ skip

\* A block is clipped to the window, and drawn where it belongs.
LEMMA DrawnIs ==
  ASSUME NEW s, Placed(s), NEW pos \in Points, NEW blk, NEW skip
  PROVE  LET t == DrawnBlock(s, pos, blk, skip)
         IN  /\ Placed(t) /\ t.show = s.show /\ t.off = s.off
             /\ \A c \in Fences : t.build[c] = s.build[c]
             /\ \A p \in Window(s.show) : t.build[s.off + Cell(p)] =
                   IF Covers(pos, skip, p) THEN blk[<<p[1] - pos[1], p[2] - pos[2]>>]
                   ELSE s.build[s.off + Cell(p)]
             /\ \A c \in Buffer : \/ t.build[c] = s.build[c]
                                  \/ \E p \in Window(s.show) : /\ c = s.off + Cell(p)
                                                               /\ Covers(pos, skip, p)
<1> DEFINE dxs == Clip(pos[1], s.show[1], SCROLL_X_DIM)
           dys == Clip(pos[2], s.show[2], SCROLL_Y_DIM)
           on == {<<pos[1] + d[1], pos[2] + d[2]>> : d \in (dxs \X dys) \ skip}
           pixels == [p \in on |-> blk[<<p[1] - pos[1], p[2] - pos[2]>>]]
           t == DrawnBlock(s, pos, blk, skip)
<1>1. t = Plotted(s, pixels)
  BY DEF DrawnBlock
<1>2. /\ pos[1] \in Nat /\ pos[2] \in Nat /\ s.show[1] \in Nat /\ s.show[2] \in Nat
      /\ SCROLL_X_DIM \in Nat /\ SCROLL_Y_DIM \in Nat /\ BLOCK_DIM \in Nat
  BY ModeXAssumption DEF Points, Placed
<1>3. ASSUME NEW d \in (dxs \X dys) \ skip
      PROVE  /\ <<pos[1] + d[1], pos[2] + d[2]>> \in Window(s.show)
             /\ Covers(pos, skip, <<pos[1] + d[1], pos[2] + d[2]>>)
  <2>1. /\ d \in AllPixels /\ d = <<d[1], d[2]>> /\ d[1] \in Int /\ d[2] \in Int
        /\ pos[1] + d[1] \in s.show[1] .. s.show[1] + SCROLL_X_DIM - 1
        /\ pos[2] + d[2] \in s.show[2] .. s.show[2] + SCROLL_Y_DIM - 1
    BY <1>2, <1>3 DEF Clip, Larger, Smaller, AllPixels
  <2>2. (pos[1] + d[1]) - pos[1] = d[1] /\ (pos[2] + d[2]) - pos[2] = d[2]
    BY <1>2, <2>1
  <2> QED
    BY <1>3, <2>1, <2>2 DEF Window, Covers
<1>4. ASSUME NEW p \in Window(s.show), Covers(pos, skip, p)
      PROVE  p \in on
  <2> DEFINE d == <<p[1] - pos[1], p[2] - pos[2]>>
  <2>1. /\ p[1] \in Nat /\ p[2] \in Nat /\ p = <<p[1], p[2]>>
        /\ p[1] \in s.show[1] .. s.show[1] + SCROLL_X_DIM - 1
        /\ p[2] \in s.show[2] .. s.show[2] + SCROLL_Y_DIM - 1
    BY <1>2 DEF Window
  <2>2. d \in AllPixels \ skip
    BY <1>4 DEF Covers
  <2>3. p[1] - pos[1] \in dxs /\ p[2] - pos[2] \in dys
    BY <1>2, <2>1, <2>2 DEF AllPixels, Clip, Larger, Smaller
  <2>4. d \in (dxs \X dys) \ skip
    BY <2>2, <2>3
  <2>5. pos[1] + d[1] = p[1] /\ pos[2] + d[2] = p[2]
    BY <1>2, <2>1
  <2> HIDE DEF d, dxs, dys
  <2> QED
    BY <2>1, <2>4, <2>5
<1>5. on \subseteq Window(s.show) /\ \A p \in on : Covers(pos, skip, p)
  BY <1>3
<1>6. \A p \in Window(s.show) : p \in on <=> Covers(pos, skip, p)
  BY <1>4, <1>5
<1> HIDE DEF on, t
<1>7. DOMAIN pixels = on
  OBVIOUS
<1>8. LET r == Plotted(s, pixels)
      IN  /\ Placed(r) /\ r.show = s.show /\ r.off = s.off
          /\ \A c \in Fences : r.build[c] = s.build[c]
          /\ \A p \in DOMAIN pixels : r.build[s.off + Cell(p)] = pixels[p]
          /\ \A p \in Window(s.show) \ DOMAIN pixels :
                r.build[s.off + Cell(p)] = s.build[s.off + Cell(p)]
          /\ \A c \in Buffer :
                \/ r.build[c] = s.build[c]
                \/ \E p \in DOMAIN pixels : c = s.off + Cell(p) /\ r.build[c] = pixels[p]
  <2> HIDE DEF pixels
  <2> QED
    BY <1>5, <1>7, PlottedIs
<1>9. \A p \in on : pixels[p] = blk[<<p[1] - pos[1], p[2] - pos[2]>>]
  OBVIOUS
<1> HIDE DEF pixels
<1>10. \A p \in Window(s.show) : t.build[s.off + Cell(p)] =
          IF Covers(pos, skip, p) THEN blk[<<p[1] - pos[1], p[2] - pos[2]>>]
          ELSE s.build[s.off + Cell(p)]
  BY <1>1, <1>6, <1>7, <1>8, <1>9
<1>11. \A c \in Buffer : \/ t.build[c] = s.build[c]
                         \/ \E p \in Window(s.show) : /\ c = s.off + Cell(p)
                                                      /\ Covers(pos, skip, p)
  BY <1>1, <1>5, <1>7, <1>8
<1> QED
  BY <1>1, <1>8, <1>10, <1>11 DEF t

-----------------------------------------------------------------------------
(* The invariant of the build buffer.                                      *)

\* Nothing is drawn before the window is in the picture.
DrawnInside ==
    phase = "graphics" /\ Drawn => show \in (SHOW_MIN..EdgeX) \X (SHOW_MIN..EdgeY)

\* The window fits where it is: without it, what is drawn for the window
\* could fall outside the buffer, or onto the fence.
BuildInv == TypeOK /\ Placed(Here) /\ DrawnInside /\ WindowWhole /\ FenceKept

\* The window goes somewhere and what was not in it before is drawn.
LEMMA Redrawn ==
  ASSUME BuildInv, phase = "graphics", NEW to \in (SHOW_MIN..EdgeX) \X (SHOW_MIN..EdgeY),
         NEW pixels, DOMAIN pixels \subseteq Window(to),
         \A p \in DOMAIN pixels : pixels[p] = Pixel(p)',
         \A p \in Window(to) \ DOMAIN pixels :
            p \in Window(show) /\ Drawn /\ Pixel(p)' = Pixel(p),
         Store(Plotted(set_view_window(to), pixels)), painted' \subseteq Blocks,
         UNCHANGED <<phase, video, frame, status>>
  PROVE  BuildInv'
<1> DEFINE s == set_view_window(to)
           t == Plotted(s, pixels)
<1>1. to \in Points /\ to \in (0..EdgeX) \X (0..EdgeY)
  BY ModeXAssumption DEF Points
<1>2. /\ Placed(s) /\ s.show = to
      /\ \A c \in Fences : s.build[c] = build[c]
      /\ \A p \in Window(to) \cap Window(show) :
            s.build[s.off + Cell(p)] = build[img3_off + Cell(p)]
      /\ \A c \in Buffer : \/ s.build[c] = Old
                           \/ \E d \in Buffer : s.build[c] = build[d]
  BY <1>1, MovedIs DEF BuildInv
<1> HIDE DEF s
<1>3. /\ Placed(t) /\ t.show = s.show /\ t.off = s.off
      /\ \A c \in Fences : t.build[c] = s.build[c]
      /\ \A p \in DOMAIN pixels : t.build[s.off + Cell(p)] = pixels[p]
      /\ \A p \in Window(s.show) \ DOMAIN pixels :
            t.build[s.off + Cell(p)] = s.build[s.off + Cell(p)]
      /\ \A c \in Buffer :
            \/ t.build[c] = s.build[c]
            \/ \E p \in DOMAIN pixels : c = s.off + Cell(p) /\ t.build[c] = pixels[p]
  BY <1>2, PlottedIs
<1> HIDE DEF t
<1>4. show' = to /\ img3_off' = t.off /\ build' = t.build
  BY <1>2, <1>3 DEF Store, t, s
<1>5. Placed(Here)'
  BY <1>2, <1>3, <1>4 DEF Here, Placed
<1>6. \A p \in Window(to) : build'[img3_off' + Cell(p)] = Pixel(p)'
  <2>1. \A p \in DOMAIN pixels : build'[img3_off' + Cell(p)] = Pixel(p)'
    BY <1>3, <1>4
  <2>2. \A p \in Window(to) \ DOMAIN pixels : build'[img3_off' + Cell(p)] = Pixel(p)'
    <3> SUFFICES ASSUME NEW p \in Window(to) \ DOMAIN pixels
                 PROVE  build'[img3_off' + Cell(p)] = Pixel(p)'
      OBVIOUS
    <3>1. p \in Window(show) /\ Pixel(p)' = Pixel(p) /\ build[img3_off + Cell(p)] = Pixel(p)
      BY DEF BuildInv, WindowWhole
    <3> QED
      BY <1>2, <1>3, <1>4, <3>1
  <2> QED
    BY <2>1, <2>2
<1>7. WindowWhole'
  BY <1>4, <1>6 DEF WindowWhole
<1>8. FenceKept'
  BY <1>2, <1>3, <1>4 DEF FenceKept, BuildInv
<1>9. \A c \in Buffer : build'[c].is \in {"old", "floor", "block"}
  <2>1. \A c \in Buffer : s.build[c].is \in {"old", "floor", "block"}
    BY <1>2 DEF BuildInv, TypeOK, Old
  <2>2. \A p \in DOMAIN pixels : pixels[p].is \in {"floor", "block"}
    BY DEF Pixel
  <2> QED
    BY <1>3, <1>4, <2>1, <2>2
<1>10. DOMAIN build' = Buffer \cup Fences /\ img3_off' \in Int
  BY <1>3, <1>4 DEF Placed
<1>11. TypeOK'
  BY <1>1, <1>4, <1>9, <1>10 DEF TypeOK, BuildInv
<1>12. DrawnInside'
  BY <1>4 DEF DrawnInside
<1> QED
  BY <1>5, <1>7, <1>8, <1>11, <1>12 DEF BuildInv

\* A block or a player is drawn where the window is.
LEMMA Kept ==
  ASSUME BuildInv, phase = "graphics", Drawn, NEW t, Placed(t), t.show = show, t.off = img3_off,
         Store(t), \A c \in Fences : t.build[c] = build[c],
         \A p \in Window(show) : t.build[img3_off + Cell(p)] = Pixel(p)',
         \A c \in Buffer : \/ t.build[c] = build[c]
                           \/ \E p \in Window(show) : c = img3_off + Cell(p),
         painted' \subseteq Blocks, phase' = phase
  PROVE  /\ Placed(Here)' /\ DrawnInside' /\ WindowWhole' /\ FenceKept'
         /\ \A c \in Buffer : build'[c].is \in {"old", "floor", "block"}
         /\ DOMAIN build' = Buffer \cup Fences
<1>1. show' = show /\ img3_off' = img3_off /\ build' = t.build
  BY DEF Store
<1>2. Placed(Here)' /\ DOMAIN build' = Buffer \cup Fences
  BY <1>1 DEF Here, Placed
<1>3. WindowWhole'
  BY <1>1 DEF WindowWhole
<1>4. FenceKept'
  BY <1>1 DEF FenceKept, BuildInv
<1>5. \A c \in Buffer : build'[c].is \in {"old", "floor", "block"}
  <2> SUFFICES ASSUME NEW c \in Buffer
               PROVE  build'[c].is \in {"old", "floor", "block"}
    OBVIOUS
  <2>1. CASE t.build[c] = build[c]
    BY <1>1, <2>1 DEF BuildInv, TypeOK
  <2>2. CASE \E p \in Window(show) : c = img3_off + Cell(p)
    <3>1. PICK p \in Window(show) : c = img3_off + Cell(p)
      BY <2>2
    <3>2. build'[c] = Pixel(p)'
      BY <1>1, <3>1
    <3> QED
      BY <3>2 DEF Pixel
  <2> QED
    BY <2>1, <2>2
<1>6. DrawnInside'
  BY <1>1 DEF DrawnInside, BuildInv
<1> QED
  BY <1>2, <1>3, <1>4, <1>5, <1>6

LEMMA BuildInit == Init => BuildInv
<1> SUFFICES ASSUME Init PROVE BuildInv
  OBVIOUS
<1>1. show = <<0, 0>> /\ show \in Points /\ img3_off = 0
  BY DEF Init, Points
<1>2. Address(show) = 0
  <2>1. Address(show) = 0 \div 4 + 0 * W
    BY <1>1 DEF Address, W
  <2>2. 0 \div 4 = 0 /\ 0 * W = 0
    BY Sizes
  <2> QED
    BY <2>1, <2>2
<1>3. Fits(img3_off, show)
  <2>1. Address(Last(show)) \in Nat /\ Address(Last(show)) =< 0 + S /\ S \in Nat
    BY <1>1, <1>2, Span, Sizes
  <2>2. BUILD_BUF_SIZE = 4 * S + 1 + EXTRA /\ EXTRA \in Nat
    BY Sizes, ModeXAssumption
  <2>3. /\ img3_off + Address(show) >= 0
        /\ img3_off + 3 * S + Address(Last(show)) < BUILD_BUF_SIZE
    BY <1>1, <1>2, <2>1, <2>2
  <2> QED
    BY <2>3 DEF Fits, Last, S
<1>4. /\ build = [c \in Fences \cup Buffer |-> Old] /\ DOMAIN build = Buffer \cup Fences
      /\ \A c \in Buffer : build[c] = Old
  BY DEF Init
<1>5. Placed(Here)
  BY <1>1, <1>3, <1>4 DEF Placed, Here
<1>6. TypeOK
  <2>1. show \in (0..EdgeX) \X (0..EdgeY)
    BY <1>1, ModeXAssumption
  <2>2. \A c \in Buffer : build[c].is \in {"old", "floor", "block"}
    BY <1>4 DEF Old
  <2>3. status \in [len : 0..CHARS, lvl : {0} \cup Levels, ticks : {0} \cup Ticks]
    BY ModeXAssumption DEF Init, NoStatus
  <2>4. \A i \in Planes : DOMAIN video[i] = Memory
    BY DEF Init, Cleared
  <2> QED
    BY <1>1, <1>4, <2>1, <2>2, <2>3, <2>4 DEF TypeOK, Init
<1>7. phase = "text"
  BY DEF Init
<1> QED
  BY <1>5, <1>6, <1>7 DEF BuildInv, DrawnInside, WindowWhole, FenceKept

LEMMA MemorySize ==
  /\ 0 .. BAR_SIZE - 1 \subseteq Memory
  /\ TARGET .. TARGET + SCROLL_SIZE - 1 \subseteq Memory
  /\ BAR_SIZE =< TARGET /\ BAR_SIZE = W * BAR_DIM /\ BAR_SIZE \in Nat
<1>1. BAR_SIZE = W * BAR_DIM
  BY DEF BAR_SIZE, W
<1>2. \A a, b \in Nat : a * b \in Nat
  OBVIOUS
<1>3. BAR_SIZE \in Nat
  BY <1>1, <1>2, Sizes, ModeXAssumption
<1>4. BAR_SIZE =< TARGET
  BY <1>3, ModeXAssumption DEF BAR_SIZE, SCROLL_X_WIDTH
<1> QED
  BY <1>1, <1>3, <1>4 DEF Memory

LEMMA BuildSetMode == ASSUME BuildInv, set_mode_X PROVE BuildInv'
<1>1. /\ phase' = "graphics" /\ show' = <<0, 0>> /\ img3_off' = BUILD_BASE_INIT
      /\ build' = [c \in Fences \cup Buffer |-> IF c \in Fences THEN Magic ELSE Old]
      /\ video' = Cleared /\ painted' = painted /\ frame' = frame /\ status' = status
  BY DEF set_mode_X
<1>2. show' \in Points
  BY <1>1 DEF Points
<1>3. img3_off' = Centred(show')
  <2>1. Address(<<0, 0>>) = 0 \div 4 + 0 * W
    BY DEF Address, W
  <2>2. 0 \div 4 = 0 /\ 0 * W = 0 /\ BUILD_BASE_INIT \in Int
    BY Sizes
  <2> QED
    BY <1>1, <2>1, <2>2 DEF Centred
<1>4. img3_off' \in Int /\ Fits(img3_off', show')
  BY <1>2, <1>3, CentredFits
<1>5. /\ DOMAIN build' = Buffer \cup Fences
      /\ \A c \in Fences : build'[c] = Magic
      /\ \A c \in Buffer : build'[c] = Old
  BY <1>1, Beside
<1>6. Placed(Here)'
  BY <1>2, <1>4, <1>5 DEF Placed, Here
<1>7. WindowWhole' /\ DrawnInside'
  BY <1>5 DEF WindowWhole, DrawnInside, Drawn
<1>8. FenceKept'
  BY <1>5 DEF FenceKept
<1>9. TypeOK'
  <2>1. \A c \in Buffer : build'[c].is \in {"old", "floor", "block"}
    BY <1>5 DEF Old
  <2>2. show' \in (0..EdgeX) \X (0..EdgeY)
    BY <1>1, ModeXAssumption
  <2>3. \A i \in Planes : DOMAIN video'[i] = Memory
    BY <1>1 DEF Cleared
  <2> QED
    BY <1>1, <1>4, <1>5, <2>1, <2>2, <2>3 DEF TypeOK, BuildInv
<1> QED
  BY <1>6, <1>7, <1>8, <1>9 DEF BuildInv

LEMMA BuildLevel == ASSUME BuildInv, prepare_maze_level PROVE BuildInv'
<1> DEFINE pixels == [p \in Window(Level1) |-> [at |-> p, is |-> "floor"]]
<1>1. /\ phase = "graphics" /\ painted' = {} /\ Store(Plotted(set_view_window(Level1), pixels))
      /\ UNCHANGED <<phase, video, frame, status>>
  BY DEF prepare_maze_level
<1>2. Level1 \in (SHOW_MIN..EdgeX) \X (SHOW_MIN..EdgeY)
  BY ModeXAssumption DEF Level1
<1>3. DOMAIN pixels = Window(Level1) /\ \A p \in Window(Level1) : pixels[p] = Pixel(p)'
  BY <1>1 DEF Pixel
<1> HIDE DEF pixels
<1> QED
  BY <1>1, <1>2, <1>3, Redrawn

LEMMA BuildPan == ASSUME BuildInv, NEW d \in {"up", "right", "down", "left"}, Pan(d) PROVE BuildInv'
<1> DEFINE to == CASE d = "up" -> <<show[1], show[2] - 1>>
                   [] d = "right" -> <<show[1] + 1, show[2]>>
                   [] d = "down" -> <<show[1], show[2] + 1>>
                   [] d = "left" -> <<show[1] - 1, show[2]>>
           line == CASE d = "up" -> (to[1]..to[1] + SCROLL_X_DIM - 1) \X {to[2] + 0}
                     [] d = "right" -> {to[1] + (SCROLL_X_DIM - 1)}
                                       \X (to[2]..to[2] + SCROLL_Y_DIM - 1)
                     [] d = "down" -> (to[1]..to[1] + SCROLL_X_DIM - 1)
                                      \X {to[2] + (SCROLL_Y_DIM - 1)}
                     [] d = "left" -> {to[1] + 0} \X (to[2]..to[2] + SCROLL_Y_DIM - 1)
           pixels == [p \in line |-> Pixel(p)]
           s == set_view_window(to)
<1>1. /\ phase = "graphics" /\ Drawn /\ to \in (SHOW_MIN..EdgeX) \X (SHOW_MIN..EdgeY)
      /\ UNCHANGED <<phase, painted, video, vga, frame, status>>
  BY DEF Pan
<1>2. s.show = to
  BY DEF set_view_window
<1>3. Store(Plotted(s, pixels))
  <2>1. Store(CASE d = "up" -> draw_horiz_line(s, 0)
                [] d = "right" -> draw_vert_line(s, SCROLL_X_DIM - 1)
                [] d = "down" -> draw_horiz_line(s, SCROLL_Y_DIM - 1)
                [] d = "left" -> draw_vert_line(s, 0))
    BY DEF Pan
  <2> HIDE DEF s
  <2>2. /\ d = "up" => draw_horiz_line(s, 0) = Plotted(s, pixels)
        /\ d = "right" => draw_vert_line(s, SCROLL_X_DIM - 1) = Plotted(s, pixels)
        /\ d = "down" => draw_horiz_line(s, SCROLL_Y_DIM - 1) = Plotted(s, pixels)
        /\ d = "left" => draw_vert_line(s, 0) = Plotted(s, pixels)
    BY <1>2 DEF draw_horiz_line, draw_vert_line, Lined
  <2> HIDE DEF pixels
  <2> QED
    BY <2>1, <2>2
<1>4. /\ show[1] \in Nat /\ show[2] \in Nat /\ SCROLL_X_DIM \in Nat \ {0}
      /\ SCROLL_Y_DIM \in Nat \ {0} /\ SHOW_MIN \in Nat /\ EdgeX \in Nat /\ EdgeY \in Nat
  BY ModeXAssumption DEF BuildInv, TypeOK
<1>5. line \subseteq Window(to) /\ Window(to) \ line \subseteq Window(show)
  <2>1. CASE d = "up"
    <3>1. to = <<show[1], show[2] - 1>> /\ line = (to[1]..to[1] + SCROLL_X_DIM - 1) \X {to[2] + 0}
      BY <2>1
    <3> HIDE DEF to, line
    <3> QED
      BY <1>4, <3>1 DEF Window
  <2>2. CASE d = "right"
    <3>1. /\ to = <<show[1] + 1, show[2]>>
          /\ line = {to[1] + (SCROLL_X_DIM - 1)} \X (to[2]..to[2] + SCROLL_Y_DIM - 1)
      BY <2>2
    <3> HIDE DEF to, line
    <3> QED
      BY <1>4, <3>1 DEF Window
  <2>3. CASE d = "down"
    <3>1. /\ to = <<show[1], show[2] + 1>>
          /\ line = (to[1]..to[1] + SCROLL_X_DIM - 1) \X {to[2] + (SCROLL_Y_DIM - 1)}
      BY <2>3
    <3> HIDE DEF to, line
    <3> QED
      BY <1>4, <3>1 DEF Window
  <2>4. CASE d = "left"
    <3>1. /\ to = <<show[1] - 1, show[2]>>
          /\ line = {to[1] + 0} \X (to[2]..to[2] + SCROLL_Y_DIM - 1)
      BY <2>4
    <3> HIDE DEF to, line
    <3> QED
      BY <1>4, <3>1 DEF Window
  <2> QED
    BY <2>1, <2>2, <2>3, <2>4
<1>6. DOMAIN pixels = line /\ \A p \in line : pixels[p] = Pixel(p)
  OBVIOUS
<1>7. \A p : Pixel(p)' = Pixel(p)
  BY <1>1 DEF Pixel
<1>8. painted' \subseteq Blocks
  BY <1>1 DEF BuildInv, TypeOK
<1> HIDE DEF to, line, pixels
<1> QED
  BY <1>1, <1>3, <1>5, <1>6, <1>7, <1>8, Redrawn DEF s

\* The pixels of a block are those that its square covers.
LEMMA SquareIs ==
  ASSUME NEW q \in Points, NEW p \in Points
  PROVE  /\ p \in BlockAt(q) <=> Covers(q, {}, p)
         /\ Covers(q, MaskSkips, p) => Covers(q, {}, p)
         /\ \A is : Covers(q, {}, p) =>
               Image(q, is)[<<p[1] - q[1], p[2] - q[2]>>] = [at |-> p, is |-> is]
<1>1. /\ p[1] \in Nat /\ p[2] \in Nat /\ q[1] \in Nat /\ q[2] \in Nat /\ BLOCK_DIM \in Nat
      /\ p = <<p[1], p[2]>> /\ q = <<q[1], q[2]>>
  BY ModeXAssumption DEF Points
<1>2. p \in BlockAt(q) <=> Covers(q, {}, p)
  BY <1>1 DEF BlockAt, Covers, AllPixels
<1>3. Covers(q, MaskSkips, p) => Covers(q, {}, p)
  BY DEF Covers
<1>4. \A is : Covers(q, {}, p) =>
         Image(q, is)[<<p[1] - q[1], p[2] - q[2]>>] = [at |-> p, is |-> is]
  <2> SUFFICES ASSUME NEW is, Covers(q, {}, p)
               PROVE  Image(q, is)[<<p[1] - q[1], p[2] - q[2]>>] = [at |-> p, is |-> is]
    OBVIOUS
  <2> DEFINE d == <<p[1] - q[1], p[2] - q[2]>>
  <2>1. d \in AllPixels
    BY DEF Covers
  <2>2. q[1] + d[1] = p[1] /\ q[2] + d[2] = p[2]
    BY <1>1
  <2> HIDE DEF d
  <2>3. Image(q, is)[d] = [at |-> <<q[1] + d[1], q[2] + d[2]>>, is |-> is]
    BY <2>1 DEF Image
  <2> QED
    BY <1>1, <2>2, <2>3 DEF d
<1> QED
  BY <1>2, <1>3, <1>4

LEMMA Corner == BuildInv => /\ Placed(Here) /\ show \in Points /\ Window(show) \subseteq Points
                            /\ Here.show = show /\ Here.off = img3_off /\ Here.build = build
BY WindowCorners DEF BuildInv, Placed, Here

LEMMA BuildPaint == ASSUME BuildInv, NEW q \in Blocks, Paint(q) PROVE BuildInv'
<1> DEFINE t == draw_full_block(Here, q, Image(q, "block"))
<1>1. /\ phase = "graphics" /\ Drawn /\ painted = {} /\ painted' = {q} /\ Store(t)
      /\ UNCHANGED <<phase, video, vga, frame, status>>
  BY DEF Paint
<1>2. q \in Points
  BY ModeXAssumption DEF Points
<1>3. t = DrawnBlock(Here, q, Image(q, "block"), {})
  BY DEF draw_full_block
<1> HIDE DEF t
<1>4. /\ Placed(t) /\ t.show = show /\ t.off = img3_off
      /\ \A c \in Fences : t.build[c] = build[c]
      /\ \A p \in Window(show) : t.build[img3_off + Cell(p)] =
            IF Covers(q, {}, p) THEN Image(q, "block")[<<p[1] - q[1], p[2] - q[2]>>]
            ELSE build[img3_off + Cell(p)]
      /\ \A c \in Buffer : \/ t.build[c] = build[c]
                           \/ \E p \in Window(show) : c = img3_off + Cell(p) /\ Covers(q, {}, p)
  <2>1. LET r == DrawnBlock(Here, q, Image(q, "block"), {})
        IN  /\ Placed(r) /\ r.show = Here.show /\ r.off = Here.off
            /\ \A c \in Fences : r.build[c] = Here.build[c]
            /\ \A p \in Window(Here.show) : r.build[Here.off + Cell(p)] =
                  IF Covers(q, {}, p) THEN Image(q, "block")[<<p[1] - q[1], p[2] - q[2]>>]
                  ELSE Here.build[Here.off + Cell(p)]
            /\ \A c \in Buffer : \/ r.build[c] = Here.build[c]
                                 \/ \E p \in Window(Here.show) : /\ c = Here.off + Cell(p)
                                                                 /\ Covers(q, {}, p)
    BY <1>2, Corner, DrawnIs
  <2> QED
    BY <1>3, <2>1, Corner
<1>5. \A p \in Window(show) : t.build[img3_off + Cell(p)] = Pixel(p)'
  <2> SUFFICES ASSUME NEW p \in Window(show)
               PROVE  t.build[img3_off + Cell(p)] = Pixel(p)'
    OBVIOUS
  <2>1. p \in Points
    BY Corner
  <2>2. build[img3_off + Cell(p)] = [at |-> p, is |-> "floor"]
    BY <1>1 DEF BuildInv, WindowWhole, Pixel
  <2>3. Pixel(p)' = [at |-> p, is |-> IF Covers(q, {}, p) THEN "block" ELSE "floor"]
    BY <1>1, <1>2, <2>1, SquareIs DEF Pixel
  <2>4. Covers(q, {}, p) =>
           Image(q, "block")[<<p[1] - q[1], p[2] - q[2]>>] = [at |-> p, is |-> "block"]
    BY <1>2, <2>1, SquareIs
  <2> QED
    BY <1>4, <2>2, <2>3, <2>4
<1>6. /\ Placed(Here)' /\ DrawnInside' /\ WindowWhole' /\ FenceKept'
      /\ \A c \in Buffer : build'[c].is \in {"old", "floor", "block"}
      /\ DOMAIN build' = Buffer \cup Fences
  BY <1>1, <1>4, <1>5, Kept
<1>7. TypeOK'
  BY <1>1, <1>4, <1>6 DEF TypeOK, BuildInv, Store, Placed
<1> QED
  BY <1>6, <1>7 DEF BuildInv

\* What show_screen() is given in Frame(q), and what is left after it.
WithPlayer(q) == draw_refill_block(Here, q, Image(q, "player"))
Without(q) == draw_full_block(WithPlayer(q), q,
                  [d \in AllPixels |-> Pixel(<<q[1] + d[1], q[2] + d[2]>>)])

LEMMA PlayerDrawn ==
  ASSUME BuildInv, NEW q \in Points
  PROVE  LET t == WithPlayer(q)
         IN  /\ Placed(t) /\ t.show = show /\ t.off = img3_off
             /\ \A c \in Fences : t.build[c] = build[c]
             /\ \A p \in Window(show) : t.build[img3_off + Cell(p)] =
                   IF Covers(q, MaskSkips, p) THEN [at |-> p, is |-> "player"]
                   ELSE build[img3_off + Cell(p)]
             /\ \A c \in Buffer : \/ t.build[c] = build[c]
                                  \/ \E p \in Window(show) : /\ c = img3_off + Cell(p)
                                                             /\ Covers(q, MaskSkips, p)
<1> DEFINE t == WithPlayer(q)
<1>1. t = DrawnBlock(Here, q, Image(q, "player"), MaskSkips)
  BY DEF WithPlayer, draw_refill_block
<1>2. LET r == DrawnBlock(Here, q, Image(q, "player"), MaskSkips)
      IN  /\ Placed(r) /\ r.show = Here.show /\ r.off = Here.off
          /\ \A c \in Fences : r.build[c] = Here.build[c]
          /\ \A p \in Window(Here.show) : r.build[Here.off + Cell(p)] =
                IF Covers(q, MaskSkips, p) THEN Image(q, "player")[<<p[1] - q[1], p[2] - q[2]>>]
                ELSE Here.build[Here.off + Cell(p)]
          /\ \A c \in Buffer : \/ r.build[c] = Here.build[c]
                               \/ \E p \in Window(Here.show) : /\ c = Here.off + Cell(p)
                                                               /\ Covers(q, MaskSkips, p)
  BY Corner, DrawnIs
<1>3. \A p \in Window(show) : Covers(q, MaskSkips, p) =>
         Image(q, "player")[<<p[1] - q[1], p[2] - q[2]>>] = [at |-> p, is |-> "player"]
  BY Corner, SquareIs
<1> HIDE DEF t
<1> QED
  BY <1>1, <1>2, <1>3, Corner DEF t

LEMMA PlayerTakenOut ==
  ASSUME BuildInv, NEW q \in Points
  PROVE  LET t == Without(q)
         IN  /\ Placed(t) /\ t.show = show /\ t.off = img3_off
             /\ \A c \in Fences : t.build[c] = build[c]
             /\ \A p \in Window(show) : t.build[img3_off + Cell(p)] =
                   IF Covers(q, {}, p) THEN Pixel(p) ELSE build[img3_off + Cell(p)]
             /\ \A c \in Buffer : \/ t.build[c] = build[c]
                                  \/ \E p \in Window(show) : c = img3_off + Cell(p)
<1> DEFINE s == WithPlayer(q)
           blk == [d \in AllPixels |-> Pixel(<<q[1] + d[1], q[2] + d[2]>>)]
           t == Without(q)
<1>1. /\ Placed(s) /\ s.show = show /\ s.off = img3_off
      /\ \A c \in Fences : s.build[c] = build[c]
      /\ \A p \in Window(show) : s.build[img3_off + Cell(p)] =
            IF Covers(q, MaskSkips, p) THEN [at |-> p, is |-> "player"]
            ELSE build[img3_off + Cell(p)]
      /\ \A c \in Buffer : \/ s.build[c] = build[c]
                           \/ \E p \in Window(show) : /\ c = img3_off + Cell(p)
                                                      /\ Covers(q, MaskSkips, p)
  BY PlayerDrawn
<1>2. t = DrawnBlock(s, q, blk, {})
  BY DEF Without, draw_full_block
<1> HIDE DEF s
<1>3. \A p \in Window(show) : Covers(q, {}, p) => blk[<<p[1] - q[1], p[2] - q[2]>>] = Pixel(p)
  <2> SUFFICES ASSUME NEW p \in Window(show), Covers(q, {}, p)
               PROVE  blk[<<p[1] - q[1], p[2] - q[2]>>] = Pixel(p)
    OBVIOUS
  <2> DEFINE d == <<p[1] - q[1], p[2] - q[2]>>
  <2>1. d \in AllPixels
    BY DEF Covers
  <2>2. p \in Points
    BY Corner
  <2>3. q[1] + d[1] = p[1] /\ q[2] + d[2] = p[2] /\ p = <<p[1], p[2]>>
    BY <2>2 DEF Points
  <2> HIDE DEF d
  <2>4. blk[d] = Pixel(<<q[1] + d[1], q[2] + d[2]>>)
    BY <2>1
  <2> HIDE DEF blk
  <2>5. blk[d] = Pixel(p)
    BY <2>3, <2>4
  <2> QED
    BY <2>5 DEF d
<1> HIDE DEF t, blk
<1>4. LET r == DrawnBlock(s, q, blk, {})
      IN  /\ Placed(r) /\ r.show = s.show /\ r.off = s.off
          /\ \A c \in Fences : r.build[c] = s.build[c]
          /\ \A p \in Window(s.show) : r.build[s.off + Cell(p)] =
                IF Covers(q, {}, p) THEN blk[<<p[1] - q[1], p[2] - q[2]>>]
                ELSE s.build[s.off + Cell(p)]
          /\ \A c \in Buffer : \/ r.build[c] = s.build[c]
                               \/ \E p \in Window(s.show) : /\ c = s.off + Cell(p)
                                                            /\ Covers(q, {}, p)
  BY <1>1, DrawnIs
<1>5. \A p \in Window(show) : Covers(q, MaskSkips, p) => Covers(q, {}, p)
  BY DEF Covers
<1> QED
  BY <1>1, <1>2, <1>3, <1>4, <1>5 DEF t

LEMMA BuildFrame == ASSUME BuildInv, NEW q \in Players, Frame(q) PROVE BuildInv'
<1>1. /\ phase = "graphics" /\ Drawn /\ video' = show_screen(WithPlayer(q)) /\ Store(Without(q))
      /\ frame' = <<show, q>> /\ UNCHANGED <<phase, painted, status>>
  BY DEF Frame, WithPlayer, Without
<1>2. q \in Points
  BY ModeXAssumption DEF Points
<1> DEFINE t == Without(q)
<1>3. /\ Placed(t) /\ t.show = show /\ t.off = img3_off
      /\ \A c \in Fences : t.build[c] = build[c]
      /\ \A p \in Window(show) : t.build[img3_off + Cell(p)] =
            IF Covers(q, {}, p) THEN Pixel(p) ELSE build[img3_off + Cell(p)]
      /\ \A c \in Buffer : \/ t.build[c] = build[c]
                           \/ \E p \in Window(show) : c = img3_off + Cell(p)
  BY <1>2, PlayerTakenOut
<1>4. Store(t)
  BY <1>1
<1> HIDE DEF t
<1>5. \A p \in Window(show) : t.build[img3_off + Cell(p)] = Pixel(p)'
  BY <1>1, <1>3 DEF BuildInv, WindowWhole, Pixel
<1>6. /\ Placed(Here)' /\ DrawnInside' /\ WindowWhole' /\ FenceKept'
      /\ \A c \in Buffer : build'[c].is \in {"old", "floor", "block"}
      /\ DOMAIN build' = Buffer \cup Fences
  <2>1. painted' \subseteq Blocks
    BY <1>1 DEF BuildInv, TypeOK
  <2> QED
    BY <1>1, <1>3, <1>4, <1>5, <2>1, Kept
<1>7. \A i \in Planes : DOMAIN video'[i] = Memory
  <2>1. \A i \in Planes : DOMAIN video'[i] = TARGET..TARGET + SCROLL_SIZE - 1 \cup DOMAIN video[i]
    BY <1>1 DEF show_screen, Over
  <2> QED
    BY <2>1, MemorySize DEF BuildInv, TypeOK
<1>8. frame'[1] \in (SHOW_MIN..EdgeX) \X (SHOW_MIN..EdgeY)
  BY <1>1 DEF BuildInv, DrawnInside
<1>9. TypeOK'
  BY <1>1, <1>3, <1>4, <1>6, <1>7, <1>8 DEF TypeOK, BuildInv, Store, Placed
<1> QED
  BY <1>6, <1>9 DEF BuildInv

LEMMA BuildStatus ==
  ASSUME BuildInv, NEW len \in 1..CHARS, NEW lvl \in Levels, NEW ticks \in Ticks,
         Status([len |-> len, lvl |-> lvl, ticks |-> ticks])
  PROVE  BuildInv'
<1> DEFINE st == [len |-> len, lvl |-> lvl, ticks |-> ticks]
<1>1. /\ video' = show_status(st) /\ status' = st
      /\ UNCHANGED <<phase, show, img3_off, build, painted, frame>>
  BY DEF Status
<1>2. Placed(Here)' /\ DrawnInside' /\ WindowWhole' /\ FenceKept'
  BY <1>1 DEF BuildInv, Placed, Here, DrawnInside, WindowWhole, FenceKept, Drawn, Pixel
<1>3. \A i \in Planes : DOMAIN video'[i] = Memory
  <2>1. \A i \in Planes : DOMAIN video'[i] = 0..BAR_SIZE - 1 \cup DOMAIN video[i]
    BY <1>1 DEF show_status, Over
  <2> QED
    BY <2>1, MemorySize DEF BuildInv, TypeOK
<1>4. st \in [len : 0..CHARS, lvl : {0} \cup Levels, ticks : {0} \cup Ticks]
  BY ModeXAssumption
<1> HIDE DEF st
<1>5. TypeOK'
  BY <1>1, <1>3, <1>4 DEF TypeOK, BuildInv
<1> QED
  BY <1>2, <1>5 DEF BuildInv

LEMMA BuildClear == ASSUME BuildInv, clear_mode_X PROVE BuildInv'
<1>1. /\ phase = "graphics" /\ phase' = "done"
      /\ UNCHANGED <<show, img3_off, build, painted, frame, status>>
  BY DEF clear_mode_X
<1>2. \A i \in Planes : DOMAIN video'[i] = Memory
  BY DEF clear_mode_X, Texted
<1> QED
  BY <1>1, <1>2 DEF BuildInv, TypeOK, Placed, Here, DrawnInside, WindowWhole, FenceKept

LEMMA BuildStep == BuildInv /\ [Next]_vars => BuildInv'
<1> SUFFICES ASSUME BuildInv, [Next]_vars PROVE BuildInv'
  OBVIOUS
<1>1. CASE set_mode_X
  BY <1>1, BuildSetMode
<1>2. CASE prepare_maze_level
  BY <1>2, BuildLevel
<1>3. CASE clear_mode_X
  BY <1>3, BuildClear
<1>4. CASE \E d \in {"up", "right", "down", "left"} : Pan(d)
  BY <1>4, BuildPan
<1>5. CASE \E q \in Blocks : Paint(q)
  BY <1>5, BuildPaint
<1>6. CASE \E q \in Players : Frame(q)
  BY <1>6, BuildFrame
<1>7. CASE \E len \in 1..CHARS, lvl \in Levels, ticks \in Ticks :
              Status([len |-> len, lvl |-> lvl, ticks |-> ticks])
  BY <1>7, BuildStatus
<1>8. CASE UNCHANGED vars
  BY <1>8 DEF vars, BuildInv, TypeOK, Placed, Here, DrawnInside, WindowWhole, FenceKept,
              Drawn, Pixel
<1> QED
  BY <1>1, <1>2, <1>3, <1>4, <1>5, <1>6, <1>7, <1>8 DEF Next

\* Whatever way the window goes through the buffer, and whatever is carried
\* along when it no longer fits, every pixel of it is where the next function
\* looks for it, and nothing is written on the fences (modex.c:390 to 485).
THEOREM WindowStaysWhole == Spec => []BuildSound
<1>1. BuildInv => BuildSound
  BY DEF BuildInv, BuildSound
<1> QED
  BY <1>1, BuildInit, BuildStep, PTL DEF Spec

-----------------------------------------------------------------------------
(* What is shown.                                                          *)

\* The planes of the display begin in the buffer where the pixels of their
\* columns do, whatever column the window begins with.
LEMMA PlaneOf ==
  ASSUME NEW s, Placed(s), NEW i \in 0..SCROLL_X_DIM - 1, NEW j \in 0..SCROLL_Y_DIM - 1
  PROVE  /\ PlaneStart(s, i % 4) + Address(<<i, j>>)
              = s.off + Cell(<<s.show[1] + i, s.show[2] + j>>)
         /\ <<s.show[1] + i, s.show[2] + j>> \in Window(s.show)
         /\ Address(<<i, j>>) \in 0..SCROLL_SIZE - 1 /\ i % 4 \in Planes
         /\ PlaneStart(s, i % 4) \in Int
<1> DEFINE x == s.show[1]
           y == s.show[2]
<1>1. x \in Nat /\ y \in Nat /\ i \in Nat /\ j \in Nat /\ s.off \in Int
  BY ModeXAssumption DEF Placed, Points
<1>2. /\ W \in Nat /\ W > 0 /\ S \in Nat /\ S = W * H /\ H \in Nat
      /\ SCROLL_X_DIM = 4 * W /\ SCROLL_Y_DIM = H
  BY Sizes DEF H
<1> HIDE DEF x, y
<1>3. ((3 - (x % 4)) - (i % 4) + 4) % 4 = 3 - ((x + i) % 4)
  BY <1>1
<1>4. x \div 4 + i \div 4 + (IF 3 - (x % 4) < i % 4 THEN 1 ELSE 0) = (x + i) \div 4
  BY <1>1
<1>5. i \div 4 \in 0 .. W - 1 /\ i % 4 \in 0 .. 3 /\ x \div 4 \in Nat /\ (x + i) % 4 \in 0 .. 3
  BY <1>1, <1>2
<1>6. j \in 0 .. H - 1
  BY <1>2
<1>7. Address(<<i, j>>) = i \div 4 + j * W
  BY DEF Address, W
<1>8. i \div 4 + j * W \in 0 .. W * H - 1 /\ j * W \in Nat
  BY <1>2, <1>5, <1>6, Lines
<1>9. (y + j) * W = y * W + j * W
  BY <1>1, <1>2
<1>10. \A a, b \in Nat : a * b \in Nat
  OBVIOUS
<1>11. y * W \in Nat /\ (3 - ((x + i) % 4)) * S \in Nat
  BY <1>1, <1>2, <1>5, <1>10, Planewise
<1>12. Cell(<<x + i, y + j>>) = ((x + i) \div 4 + (y + j) * W) + (3 - ((x + i) % 4)) * S
  BY DEF Cell, Address, W, S
<1>13. PlaneStart(s, i % 4) = s.off + (x \div 4 + y * W) + (3 - ((x + i) % 4)) * S
                               + (IF 3 - (x % 4) < i % 4 THEN 1 ELSE 0)
  <2>1. PlaneStart(s, i % 4) = s.off + Address(s.show)
           + (((3 - (x % 4)) - (i % 4) + 4) % 4) * S
           + (IF 3 - (x % 4) < i % 4 THEN 1 ELSE 0)
    BY DEF PlaneStart, x, S
  <2>2. Address(s.show) = x \div 4 + y * W
    BY DEF Address, x, y, W
  <2> QED
    BY <1>3, <2>1, <2>2
<1> DEFINE a == x \div 4
           b == i \div 4
           c == IF 3 - (x % 4) < i % 4 THEN 1 ELSE 0
           d == y * W
           e == j * W
           z == (3 - ((x + i) % 4)) * S
<1>14. a \in Nat /\ b \in Nat /\ c \in Nat /\ d \in Nat /\ e \in Nat /\ z \in Nat
  BY <1>5, <1>8, <1>11
<1>15. /\ PlaneStart(s, i % 4) = s.off + (a + d) + z + c
       /\ Cell(<<x + i, y + j>>) = (a + b + c) + (d + e) + z
       /\ Address(<<i, j>>) = b + e
  BY <1>4, <1>7, <1>9, <1>12, <1>13
<1> HIDE DEF a, b, c, d, e, z
<1>16. PlaneStart(s, i % 4) + Address(<<i, j>>) = s.off + Cell(<<x + i, y + j>>)
  BY <1>1, <1>14, <1>15
<1>17. <<x + i, y + j>> \in Window(s.show)
  BY <1>1, ModeXAssumption DEF Window, x, y
<1>18. PlaneStart(s, i % 4) \in Int
  BY <1>1, <1>14, <1>15
<1> QED
  BY <1>2, <1>5, <1>7, <1>8, <1>16, <1>17, <1>18 DEF x, y, Planes, S

\* Every column of the bar is put into the plane it is shown from.
LEMMA BarPlace ==
  ASSUME NEW i \in 0..SCROLL_X_DIM - 1, NEW j \in 0..BAR_DIM - 1
  PROVE  /\ Address(<<i, j>>) \in 0..BAR_SIZE - 1 /\ i % 4 \in Planes
         /\ \A st : Dealt(st, i % 4, Address(<<i, j>>)) = BarPixel(st, i, j)
<1>1. /\ W \in Nat /\ W > 0 /\ SCROLL_X_DIM = 4 * W /\ BAR_DIM \in Nat
      /\ BAR_SIZE = W * BAR_DIM /\ i \in Nat /\ j \in Nat
  BY Sizes, MemorySize, ModeXAssumption
<1>2. Address(<<i, j>>) = i \div 4 + j * W
  BY DEF Address, W
<1>3. i \div 4 \in 0 .. W - 1 /\ i % 4 \in 0 .. 3 /\ 4 * (i \div 4) + (i % 4) = i
  BY <1>1
<1>4. i \div 4 + j * W \in 0 .. W * BAR_DIM - 1
  BY <1>1, <1>3, Lines
<1>5. (i \div 4 + j * W) % W = i \div 4 /\ (i \div 4 + j * W) \div W = j
  <2> DEFINE u == i \div 4
  <2>1. u \in 0 .. W - 1
    BY <1>3
  <2> HIDE DEF u
  <2>2. (u + j * W) % W = u /\ (u + j * W) \div W = j
    BY <1>1, <2>1
  <2> QED
    BY <2>2 DEF u
<1>6. ASSUME NEW st
      PROVE  Dealt(st, i % 4, Address(<<i, j>>)) = BarPixel(st, i, j)
  <2>1. Dealt(st, i % 4, Address(<<i, j>>)) =
           BarPixel(st, 4 * (Address(<<i, j>>) % W) + (i % 4), Address(<<i, j>>) \div W)
    BY DEF Dealt, W
  <2> QED
    BY <1>2, <1>3, <1>5, <2>1
<1> QED
  BY <1>1, <1>2, <1>3, <1>4, <1>6 DEF Planes

\* Video memory has nothing on it until the bar is first shown, and from then
\* until text mode the bar has the text last put there: the picture is apart
\* from it.
VideoInv ==
    /\ video = [i \in Planes |-> [a \in Memory |-> video[i][a]]]
    /\ phase = "text" => video = Cleared /\ status = NoStatus
    /\ phase = "graphics" /\ status # NoStatus =>
         \A p \in Planes, k \in 0..BAR_SIZE - 1 : video[p][k] = Dealt(status, p, k)

LEMMA VideoInit == Init => VideoInv
BY DEF Init, VideoInv, Cleared

\* Every pixel of the window, and of the player in it, is on the monitor.
LEMMA PictureFrame ==
  ASSUME BuildInv, NEW q \in Players, Frame(q),
         NEW i \in 0..SCROLL_X_DIM - 1, NEW j \in 0..SCROLL_Y_DIM - 1
  PROVE  LET p == <<show[1] + i, show[2] + j>>
         IN  OnMonitor(i, j)' = IF InPlayer(p, frame'[2]) THEN [at |-> p, is |-> "player"]
                                ELSE Pixel(p)
<1> DEFINE p == <<show[1] + i, show[2] + j>>
           s == WithPlayer(q)
           a == Address(<<i, j>>)
<1>1. /\ phase = "graphics" /\ Drawn /\ video' = show_screen(s) /\ frame' = <<show, q>>
  BY DEF Frame, WithPlayer
<1>2. q \in Points
  BY ModeXAssumption DEF Points
<1>3. /\ Placed(s) /\ s.show = show /\ s.off = img3_off
      /\ \A r \in Window(show) : s.build[img3_off + Cell(r)] =
            IF Covers(q, MaskSkips, r) THEN [at |-> r, is |-> "player"]
            ELSE build[img3_off + Cell(r)]
  BY <1>2, PlayerDrawn
<1> HIDE DEF s
<1>4. /\ PlaneStart(s, i % 4) + a = img3_off + Cell(p) /\ p \in Window(show)
      /\ a \in 0..SCROLL_SIZE - 1 /\ i % 4 \in Planes /\ PlaneStart(s, i % 4) \in Int
  <2>1. /\ PlaneStart(s, i % 4) + a = s.off + Cell(<<s.show[1] + i, s.show[2] + j>>)
        /\ <<s.show[1] + i, s.show[2] + j>> \in Window(s.show)
        /\ a \in 0..SCROLL_SIZE - 1 /\ i % 4 \in Planes /\ PlaneStart(s, i % 4) \in Int
    BY <1>3, PlaneOf
  <2> QED
    BY <1>3, <2>1
<1> HIDE DEF a, p
<1>5. video'[i % 4][TARGET + a] = s.build[img3_off + Cell(p)]
  <2>1. TARGET + a \in TARGET..TARGET + SCROLL_SIZE - 1 /\ TARGET \in Nat /\ a \in Int
        /\ TARGET + a - TARGET = a
    BY <1>4, Sizes, ModeXAssumption DEF S
  <2>2. video'[i % 4][TARGET + a] = s.build[PlaneStart(s, i % 4) + (TARGET + a) - TARGET]
    <3> DEFINE k == TARGET + a
               e == i % 4
    <3>1. k \in TARGET..TARGET + SCROLL_SIZE - 1 /\ e \in Planes
      BY <1>4, <2>1
    <3> HIDE DEF k, e
    <3>2. video'[e] = Over([n \in TARGET..TARGET + SCROLL_SIZE - 1 |->
                              s.build[PlaneStart(s, e) + n - TARGET]], video[e])
      BY <1>1, <3>1 DEF show_screen
    <3>3. video'[e][k] = s.build[PlaneStart(s, e) + k - TARGET]
      BY <3>1, <3>2 DEF Over
    <3> QED
      BY <3>3 DEF k, e
  <2>3. PlaneStart(s, i % 4) + (TARGET + a) - TARGET = img3_off + Cell(p)
    BY <1>4, <2>1
  <2> QED
    BY <2>2, <2>3
<1>6. build[img3_off + Cell(p)] = Pixel(p)
  BY <1>1, <1>4 DEF BuildInv, WindowWhole
<1>7. InPlayer(p, frame'[2]) <=> Covers(q, MaskSkips, p)
  BY <1>1 DEF InPlayer, Covers
<1>8. OnMonitor(i, j)' = video'[i % 4][TARGET + a]
  BY DEF OnMonitor, a, Address
<1> QED
  BY <1>3, <1>4, <1>5, <1>6, <1>7, <1>8 DEF p

LEMMA VideoFrame == ASSUME BuildInv, VideoInv, NEW q \in Players, Frame(q) PROVE VideoInv'
<1>1. /\ phase = "graphics" /\ phase' = phase /\ status' = status
      /\ video' = show_screen(WithPlayer(q))
  BY DEF Frame, WithPlayer
<1>2. \A i \in Planes : video'[i] = Over([k \in TARGET..TARGET + SCROLL_SIZE - 1 |->
         WithPlayer(q).build[PlaneStart(WithPlayer(q), i) + k - TARGET]], video[i])
  BY <1>1 DEF show_screen
<1>3. \A i \in Planes : /\ video'[i] = [a \in Memory |-> video'[i][a]]
                        /\ \A k \in 0..BAR_SIZE - 1 : video'[i][k] = video[i][k]
  <2> SUFFICES ASSUME NEW i \in Planes
               PROVE  /\ video'[i] = [a \in Memory |-> video'[i][a]]
                      /\ \A k \in 0..BAR_SIZE - 1 : video'[i][k] = video[i][k]
    OBVIOUS
  <2> DEFINE new == [k \in TARGET..TARGET + SCROLL_SIZE - 1 |->
                       WithPlayer(q).build[PlaneStart(WithPlayer(q), i) + k - TARGET]]
  <2>1. DOMAIN new = TARGET..TARGET + SCROLL_SIZE - 1
    OBVIOUS
  <2>2. video'[i] = Over(new, video[i])
    BY <1>2
  <2> HIDE DEF new
  <2>3. DOMAIN video[i] = Memory
    BY DEF BuildInv, TypeOK
  <2>4. \A k \in 0..BAR_SIZE - 1 : k \in Memory /\ k \notin DOMAIN new
    BY <2>1, MemorySize, ModeXAssumption
  <2>5. DOMAIN new \cup DOMAIN video[i] = Memory
    BY <2>1, <2>3, MemorySize
  <2> QED
    BY <2>2, <2>3, <2>4, <2>5 DEF Over
<1>4. video' = [i \in Planes |-> video'[i]]
  BY <1>1 DEF show_screen
<1>5. video' = [i \in Planes |-> [a \in Memory |-> video'[i][a]]]
  BY <1>3, <1>4
<1>6. ASSUME status # NoStatus, NEW p \in Planes, NEW k \in 0..BAR_SIZE - 1
      PROVE  video'[p][k] = Dealt(status, p, k)
  <2>1. video'[p][k] = video[p][k]
    BY <1>3
  <2>2. video[p][k] = Dealt(status, p, k)
    BY <1>1, <1>6 DEF VideoInv
  <2> QED
    BY <2>1, <2>2
<1> QED
  BY <1>1, <1>5, <1>6 DEF VideoInv

LEMMA VideoStatus ==
  ASSUME BuildInv, VideoInv, NEW len \in 1..CHARS, NEW lvl \in Levels, NEW ticks \in Ticks,
         Status([len |-> len, lvl |-> lvl, ticks |-> ticks])
  PROVE  VideoInv' /\ (status' = status => video' = video)
<1> DEFINE st == [len |-> len, lvl |-> lvl, ticks |-> ticks]
<1>1. phase = "graphics" /\ phase' = phase /\ video' = show_status(st) /\ status' = st
  BY DEF Status
<1>2. st # NoStatus
  BY ModeXAssumption DEF NoStatus
<1> HIDE DEF st
<1>3. \A i \in Planes : /\ video'[i] = [a \in Memory |-> video'[i][a]]
                        /\ \A k \in 0..BAR_SIZE - 1 : video'[i][k] = Dealt(st, i, k)
                        /\ \A k \in Memory \ (0..BAR_SIZE - 1) : video'[i][k] = video[i][k]
  <2> SUFFICES ASSUME NEW i \in Planes
               PROVE  /\ video'[i] = [a \in Memory |-> video'[i][a]]
                      /\ \A k \in 0..BAR_SIZE - 1 : video'[i][k] = Dealt(st, i, k)
                      /\ \A k \in Memory \ (0..BAR_SIZE - 1) : video'[i][k] = video[i][k]
    OBVIOUS
  <2> DEFINE new == [k \in 0..BAR_SIZE - 1 |-> Dealt(st, i, k)]
  <2>1. DOMAIN new = 0..BAR_SIZE - 1 /\ \A k \in 0..BAR_SIZE - 1 : new[k] = Dealt(st, i, k)
    OBVIOUS
  <2>2. video'[i] = Over(new, video[i])
    BY <1>1 DEF show_status
  <2> HIDE DEF new
  <2>3. DOMAIN video[i] = Memory
    BY DEF BuildInv, TypeOK
  <2>4. DOMAIN new \cup DOMAIN video[i] = Memory
    BY <2>1, <2>3, MemorySize
  <2> QED
    BY <2>1, <2>2, <2>3, <2>4 DEF Over
<1>4. video' = [i \in Planes |-> video'[i]]
  BY <1>1 DEF show_status
<1>5. video' = [i \in Planes |-> [a \in Memory |-> video'[i][a]]]
  BY <1>3, <1>4
<1>6. VideoInv'
  BY <1>1, <1>3, <1>5 DEF VideoInv
<1>7. ASSUME status' = status
      PROVE  video' = video
  <2>1. \A i \in Planes, k \in 0..BAR_SIZE - 1 : video[i][k] = Dealt(st, i, k)
    BY <1>1, <1>2, <1>7 DEF VideoInv
  <2>2. ASSUME NEW i \in Planes, NEW k \in Memory
        PROVE  video'[i][k] = video[i][k]
    <3>1. CASE k \in 0..BAR_SIZE - 1
      <4>1. video'[i][k] = Dealt(st, i, k)
        BY <1>3, <3>1
      <4>2. video[i][k] = Dealt(st, i, k)
        BY <2>1, <3>1
      <4> QED
        BY <4>1, <4>2
    <3>2. CASE k \notin 0..BAR_SIZE - 1
      BY <1>3, <3>2
    <3> QED
      BY <3>1, <3>2
  <2>3. video = [i \in Planes |-> [a \in Memory |-> video[i][a]]]
    BY DEF VideoInv
  <2>4. [i \in Planes |-> [a \in Memory |-> video'[i][a]]]
           = [i \in Planes |-> [a \in Memory |-> video[i][a]]]
    BY <2>2
  <2> QED
    BY <1>5, <2>3, <2>4
<1> QED
  BY <1>6, <1>7

LEMMA VideoStep == BuildInv /\ VideoInv /\ [Next]_vars => VideoInv'
<1> SUFFICES ASSUME BuildInv, VideoInv, [Next]_vars PROVE VideoInv'
  OBVIOUS
<1>1. CASE set_mode_X
  BY <1>1 DEF set_mode_X, VideoInv, Cleared
<1>2. CASE prepare_maze_level
  BY <1>2 DEF prepare_maze_level, VideoInv
<1>3. CASE clear_mode_X
  BY <1>3 DEF clear_mode_X, VideoInv, Texted
<1>4. CASE \E d \in {"up", "right", "down", "left"} : Pan(d)
  BY <1>4 DEF Pan, VideoInv
<1>5. CASE \E q \in Blocks : Paint(q)
  BY <1>5 DEF Paint, VideoInv
<1>6. CASE \E q \in Players : Frame(q)
  BY <1>6, VideoFrame
<1>7. CASE \E len \in 1..CHARS, lvl \in Levels, ticks \in Ticks :
              Status([len |-> len, lvl |-> lvl, ticks |-> ticks])
  BY <1>7, VideoStatus
<1>8. CASE UNCHANGED vars
  BY <1>8 DEF vars, VideoInv
<1> QED
  BY <1>1, <1>2, <1>3, <1>4, <1>5, <1>6, <1>7, <1>8 DEF Next

\* What show_screen() puts on the monitor is the window and the player in it,
\* each pixel in its place, at every offset (modex.c:496 to 526).
THEOREM PictureComplete == Spec => PictureShown
<1>1. BuildInv /\ VideoInv /\ [Next]_vars =>
        [video' # video /\ status' = status /\ phase' = "graphics" =>
           \A i \in 0..SCROLL_X_DIM - 1, j \in 0..SCROLL_Y_DIM - 1 :
              LET p == <<show[1] + i, show[2] + j>>
              IN  OnMonitor(i, j)' = IF InPlayer(p, frame'[2])
                                       THEN [at |-> p, is |-> "player"]
                                     ELSE Pixel(p)]_vars
  <2> SUFFICES ASSUME BuildInv, VideoInv, Next,
                      video' # video, status' = status, phase' = "graphics"
               PROVE  \A i \in 0..SCROLL_X_DIM - 1, j \in 0..SCROLL_Y_DIM - 1 :
                         LET p == <<show[1] + i, show[2] + j>>
                         IN  OnMonitor(i, j)' = IF InPlayer(p, frame'[2])
                                                  THEN [at |-> p, is |-> "player"]
                                                ELSE Pixel(p)
    OBVIOUS
  <2>1. \E q \in Players : Frame(q)
    <3>1. ~set_mode_X
      BY DEF set_mode_X, VideoInv
    <3>2. ~prepare_maze_level /\ ~clear_mode_X
      BY DEF prepare_maze_level, clear_mode_X
    <3>3. ~\E d \in {"up", "right", "down", "left"} : Pan(d)
      BY DEF Pan
    <3>4. ~\E q \in Blocks : Paint(q)
      BY DEF Paint
    <3>5. ~\E len \in 1..CHARS, lvl \in Levels, ticks \in Ticks :
              Status([len |-> len, lvl |-> lvl, ticks |-> ticks])
      BY VideoStatus
    <3> QED
      BY <3>1, <3>2, <3>3, <3>4, <3>5 DEF Next
  <2> QED
    BY <2>1, PictureFrame
<1> QED
  BY <1>1, BuildInit, BuildStep, VideoInit, VideoStep, PTL DEF Spec, PictureShown

-----------------------------------------------------------------------------
(* The registers.                                                          *)

Registers == {"seq", "misc", "crtc", "attr", "graphics", "palette", "dac", "next"}

\* Nothing but what is named changes.
Only(v, w, changed) ==
    /\ DOMAIN w = Registers
    /\ \A r \in Registers \ changed : w[r] = v[r]

IsTable(t, last) == t = [i \in 0..last |-> t[i]]

LEMMA Tables ==
  /\ IsTable(mode_X_seq, 4) /\ IsTable(text_seq, 4)
  /\ IsTable(mode_X_CRTC, 24) /\ IsTable(text_CRTC, 24)
  /\ IsTable(mode_X_graphics, 8) /\ IsTable(text_graphics, 8)
BY DEF IsTable, mode_X_seq, text_seq, mode_X_CRTC, text_CRTC, mode_X_graphics, text_graphics, Table

\* A whole table replaces what was there.
LEMMA OverAll ==
  ASSUME NEW new, NEW old, NEW D, new = [i \in D |-> new[i]], DOMAIN old = D
  PROVE  Over(new, old) = new
BY DEF Over

LEMMA SeqOutIs ==
  ASSUME NEW v, DOMAIN v = Registers, NEW regs
  PROVE  LET w == SeqOut(v, regs) IN Only(v, w, {"seq"}) /\ w.seq = Over(regs, v.seq)
BY DEF SeqOut, Only, Registers

LEMMA GraphicsOutIs ==
  ASSUME NEW v, DOMAIN v = Registers, NEW regs
  PROVE  LET w == GraphicsOut(v, regs)
         IN  Only(v, w, {"graphics"}) /\ w.graphics = Over(regs, v.graphics)
BY DEF GraphicsOut, Only, Registers

LEMMA CrtcOutIs ==
  ASSUME NEW v, DOMAIN v = Registers, NEW regs
  PROVE  LET w == CrtcOut(v, regs)
             kept == IF Locked(v) THEN 0..7 ELSE {}
         IN  /\ Only(v, w, {"crtc"})
             /\ w.crtc = Over([i \in DOMAIN regs \ kept |-> regs[i]], v.crtc)
BY DEF CrtcOut, Only, Registers

LEMMA BlankIs ==
  ASSUME NEW v, DOMAIN v = Registers, NEW bit
  PROVE  LET w == VGA_blank(v, bit)
         IN  /\ Only(v, w, {"seq", "palette", "next"}) /\ w.palette = TRUE
             /\ DOMAIN w.seq = {1} \cup DOMAIN v.seq
             /\ w.seq[1] = WithBit(v.seq[1], 5, bit)
             /\ \A i \in DOMAIN v.seq \ {1} : w.seq[i] = v.seq[i]
BY DEF VGA_blank, SeqOut, StatusIn, Only, Registers, Over

\* The attribute port is made to take an index first.
LEMMA AttrIs ==
  ASSUME NEW v, DOMAIN v = Registers, NEW regs
  PROVE  LET w == set_attr_registers(v, regs)
         IN  Only(v, w, {"attr", "palette", "next"}) /\ w.attr = regs
BY DEF set_attr_registers, AttrOut, StatusIn, Only, Registers

\* The lock is taken off before the CRT controller's registers are written:
\* none of them is kept from what it was.
LEMMA CrtcIs ==
  ASSUME NEW v, DOMAIN v = Registers, DOMAIN v.crtc = 0..24,
         NEW crtc, IsTable(crtc, 24)
  PROVE  LET w == set_CRTC_registers(v, crtc)
         IN  Only(v, w, {"crtc"}) /\ w.crtc = crtc
<1> DEFINE x == [i \in {\h11} |-> 0]
           kept == IF Locked(v) THEN 0..7 ELSE {}
           put == [i \in DOMAIN x \ kept |-> x[i]]
           v1 == CrtcOut(v, x)
           v2 == CrtcOut(v1, crtc)
<1>1. Only(v, v1, {"crtc"}) /\ v1.crtc = Over(put, v.crtc)
  BY CrtcOutIs
<1>2. DOMAIN v1.crtc = 0..24 /\ v1.crtc[\h11] = 0
  <2>1. DOMAIN x = {\h11} /\ x[\h11] = 0
    OBVIOUS
  <2>2. \h11 \notin kept
    OBVIOUS
  <2> HIDE DEF x, kept
  <2>3. DOMAIN put = {\h11} /\ put[\h11] = 0
    BY <2>1, <2>2
  <2> HIDE DEF put, v1
  <2> QED
    BY <1>1, <2>3 DEF Over
<1> HIDE DEF v1
<1>3. ~Locked(v1)
  BY <1>2 DEF Locked, Bit, PlaceValue
<1> DEFINE all == [i \in DOMAIN crtc \ (IF Locked(v1) THEN 0..7 ELSE {}) |-> crtc[i]]
<1>4. Only(v1, v2, {"crtc"}) /\ v2.crtc = Over(all, v1.crtc)
  BY <1>1, CrtcOutIs DEF Only
<1>5. all = crtc
  BY <1>3 DEF IsTable
<1> HIDE DEF all, v2
<1>6. v2.crtc = crtc
  BY <1>2, <1>4, <1>5, OverAll DEF IsTable
<1>7. Only(v, v2, {"crtc"})
  BY <1>1, <1>4 DEF Only
<1>8. set_CRTC_registers(v, crtc) = v2
  BY DEF set_CRTC_registers, v2, v1
<1> QED
  BY <1>6, <1>7, <1>8

\* Whatever the adapter was in, it is in the mode of the tables.
LEMMA ProgrammedIs ==
  ASSUME NEW v, DOMAIN v = Registers, DOMAIN v.seq = 0..4, DOMAIN v.crtc = 0..24,
         DOMAIN v.graphics = 0..8, NEW misc, NEW attr,
         NEW seq, IsTable(seq, 4), NEW crtc, IsTable(crtc, 24),
         NEW graphics, IsTable(graphics, 8)
  PROVE  LET w == Programmed(v, seq, misc, crtc, attr, graphics)
         IN  /\ DOMAIN w = Registers
             /\ DOMAIN w.seq = 0..4 /\ w.seq[0] = 3 /\ \A i \in 1..4 : w.seq[i] = seq[i]
             /\ w.crtc = crtc /\ w.attr = attr /\ w.graphics = graphics
             /\ w.dac = Dac(White, White, Blue)
<1> DEFINE v1 == VGA_blank(v, 1)
           v2 == set_seq_regs_and_reset(v1, seq, misc)
           v3 == set_CRTC_registers(v2, crtc)
           v4 == set_attr_registers(v3, attr)
           v5 == GraphicsOut(v4, graphics)
           v6 == fill_palette(v5)
<1>1. Only(v, v1, {"seq", "palette", "next"}) /\ DOMAIN v1.seq = {1} \cup 0..4
  BY BlankIs
<1> HIDE DEF v1
<1>2. /\ Only(v1, v2, {"seq", "misc"})
      /\ DOMAIN v2.seq = 0..4 /\ v2.seq[0] = 3 /\ \A i \in 1..4 : v2.seq[i] = seq[i]
  <2> DEFINE u == SeqOut(v1, seq)
             m == [u EXCEPT !.misc = misc]
             x == [i \in {0} |-> 3]
  <2>1. Only(v1, u, {"seq"}) /\ u.seq = Over(seq, v1.seq)
    BY <1>1, SeqOutIs DEF Only
  <2>2. u.seq = seq
    <3>1. DOMAIN v1.seq = 0..4
      BY <1>1
    <3> QED
      BY <2>1, <3>1, OverAll DEF IsTable
  <2> HIDE DEF u
  <2>3. Only(v1, m, {"seq", "misc"}) /\ m.seq = seq
    BY <2>1, <2>2 DEF Only, Registers
  <2>4. v2 = SeqOut(m, x)
    BY DEF set_seq_regs_and_reset, u
  <2> HIDE DEF m, v2
  <2>5. Only(m, v2, {"seq"}) /\ v2.seq = Over(x, m.seq)
    BY <2>3, <2>4, SeqOutIs DEF Only
  <2>6. Only(v1, v2, {"seq", "misc"})
    BY <2>3, <2>5 DEF Only
  <2>7. DOMAIN x = {0} /\ x[0] = 3 /\ DOMAIN m.seq = 0..4
    BY <2>3 DEF IsTable
  <2> HIDE DEF x
  <2> QED
    BY <2>3, <2>5, <2>6, <2>7 DEF Over
<1> HIDE DEF v2
<1>3. Only(v2, v3, {"crtc"}) /\ v3.crtc = crtc
  <2>1. DOMAIN v2 = Registers /\ DOMAIN v2.crtc = 0..24
    BY <1>1, <1>2 DEF Only, Registers
  <2> QED
    BY <2>1, CrtcIs
<1> HIDE DEF v3
<1>4. Only(v3, v4, {"attr", "palette", "next"}) /\ v4.attr = attr
  BY <1>3, AttrIs DEF Only
<1> HIDE DEF v4
<1>5. Only(v4, v5, {"graphics"}) /\ v5.graphics = graphics
  <2>1. DOMAIN v4 = Registers /\ DOMAIN v4.graphics = 0..8
    BY <1>1, <1>2, <1>3, <1>4 DEF Only, Registers
  <2>2. Only(v4, v5, {"graphics"}) /\ v5.graphics = Over(graphics, v4.graphics)
    BY <2>1, GraphicsOutIs
  <2> HIDE DEF v5
  <2> QED
    BY <2>1, <2>2, OverAll DEF IsTable
<1> HIDE DEF v5
<1>6. Only(v5, v6, {"dac"}) /\ v6.dac = Dac(White, White, Blue)
  BY <1>5 DEF fill_palette, Only, Registers
<1> HIDE DEF v6
<1>7. Programmed(v, seq, misc, crtc, attr, graphics) = v6
  BY DEF Programmed, v6, v5, v4, v3, v2, v1
<1>8. /\ DOMAIN v6 = Registers /\ v6.seq = v2.seq /\ v6.crtc = crtc /\ v6.attr = attr
      /\ v6.graphics = graphics
  BY <1>3, <1>4, <1>5, <1>6 DEF Only, Registers
<1> QED
  BY <1>2, <1>6, <1>7, <1>8

\* The tables' registers that a property, or a later write, depends on.
LEMMA TableValues ==
  /\ mode_X_seq[1] = 33 /\ mode_X_seq[2] = 15 /\ mode_X_seq[3] = 0 /\ mode_X_seq[4] = 6
  /\ text_seq[1] = 32 /\ text_seq[2] = 3 /\ text_seq[3] = 0 /\ text_seq[4] = 2
  /\ mode_X_CRTC[7] = 31 /\ mode_X_CRTC[9] = 1 /\ mode_X_CRTC[\h11] = 142
  /\ mode_X_CRTC[\h12] = 143 /\ mode_X_CRTC[\h13] = 40 /\ mode_X_CRTC[\h18] = 107
  /\ text_graphics[4] = 0 /\ text_graphics[5] = 16 /\ text_graphics[6] = 14
BY DEF mode_X_seq, text_seq, mode_X_CRTC, text_graphics, Table

\* The sequencer's registers of a mode, without the bit that blanks the
\* picture.
Clocked(table, two, four) ==
    [table EXCEPT ![0] = 3, ![2] = two, ![4] = four, ![1] = WithBit(@, 5, 0)]

LEMMA ClockedValues ==
  ASSUME NEW table, IsTable(table, 4), NEW two, NEW four
  PROVE  LET t == Clocked(table, two, four)
         IN  /\ IsTable(t, 4) /\ t[0] = 3 /\ t[1] = WithBit(table[1], 5, 0) /\ t[2] = two
             /\ t[3] = table[3] /\ t[4] = four
<1> DEFINE t == Clocked(table, two, four)
<1>1. t = [i \in 0..4 |-> t[i]]
  BY DEF Clocked, IsTable
<1>2. /\ t[0] = 3 /\ t[1] = WithBit(table[1], 5, 0) /\ t[2] = two /\ t[3] = table[3]
      /\ t[4] = four
  BY DEF Clocked, IsTable
<1> HIDE DEF t
<1> QED
  BY <1>1, <1>2 DEF t, IsTable

LEMMA ClockedIs ==
  ASSUME NEW table, IsTable(table, 4), NEW two, NEW four, NEW f,
         IsTable(f, 4), f[0] = 3, f[1] = WithBit(table[1], 5, 0), f[2] = two,
         f[3] = table[3], f[4] = four
  PROVE  f = Clocked(table, two, four)
<1> DEFINE t == Clocked(table, two, four)
<1>1. /\ IsTable(t, 4) /\ t[0] = 3 /\ t[1] = WithBit(table[1], 5, 0) /\ t[2] = two
      /\ t[3] = table[3] /\ t[4] = four
  BY ClockedValues
<1>2. \A i \in 0..4 : i = 0 \/ i = 1 \/ i = 2 \/ i = 3 \/ i = 4
  OBVIOUS
<1> HIDE DEF t
<1>3. \A i \in 0..4 : f[i] = t[i]
  BY <1>1, <1>2
<1>4. f = t
  BY <1>1, <1>3 DEF IsTable
<1> QED
  BY <1>4 DEF t

\* The CRT controller stays locked but for where the image is; the attribute
\* port and the masks are left as the next picture needs them.
VgaInv ==
    /\ DOMAIN vga = Registers /\ DOMAIN vga.seq = 0..4 /\ DOMAIN vga.crtc = 0..24
    /\ DOMAIN vga.graphics = 0..8 /\ vga.palette = TRUE
    /\ IsTable(vga.seq, 4)
    /\ phase = "text" => frame = <<>> /\ status = NoStatus
    /\ phase = "graphics" =>
         /\ vga.seq = Clocked(mode_X_seq, vga.seq[2], 6) /\ vga.seq[2] \in {8, \h0F}
         /\ vga.attr = mode_X_attr /\ vga.graphics = mode_X_graphics
         /\ \A i \in 0..24 \ {\h0C, \h0D} : vga.crtc[i] = mode_X_CRTC[i]
         /\ frame # <<>> => vga.crtc[\h0C] = \h40 /\ vga.crtc[\h0D] = 0
         /\ status # NoStatus => vga.dac = Dac(PlayerColor(status.ticks), White,
                                               WallColor(status.lvl))
    /\ phase = "done" =>
         /\ vga.seq = Clocked(text_seq, 3, 3)
         /\ vga.attr = text_attr /\ vga.graphics = text_graphics /\ vga.crtc = text_CRTC
         /\ vga.dac = Dac(White, White, Blue)

LEMMA VgaInit == Init => VgaInv
<1> SUFFICES ASSUME Init PROVE VgaInv
  OBVIOUS
<1>1. PICK n \in {"index", "value"} : vga = TextVga(n)
  BY DEF Init
<1>2. /\ DOMAIN vga = Registers /\ vga.seq = text_seq /\ vga.crtc = text_CRTC
      /\ vga.graphics = text_graphics /\ vga.palette = TRUE
  BY <1>1 DEF TextVga, Registers
<1>3. /\ DOMAIN vga.seq = 0..4 /\ DOMAIN vga.crtc = 0..24 /\ DOMAIN vga.graphics = 0..8
      /\ IsTable(vga.seq, 4)
  BY <1>2, Tables DEF IsTable
<1> QED
  BY <1>2, <1>3 DEF Init, VgaInv

LEMMA VgaSetMode == ASSUME VgaInv, set_mode_X PROVE VgaInv'
<1> DEFINE v1 == Programmed(vga, mode_X_seq, \h63, mode_X_CRTC, mode_X_attr, mode_X_graphics)
           v2 == SetWriteMask(v1, \h0F)
           v3 == VGA_blank(v2, 0)
<1>1. vga' = v3 /\ phase = "text" /\ phase' = "graphics" /\ frame' = frame /\ status' = status
  BY DEF set_mode_X
<1>2. /\ DOMAIN v1 = Registers
      /\ DOMAIN v1.seq = 0..4 /\ v1.seq[0] = 3 /\ \A i \in 1..4 : v1.seq[i] = mode_X_seq[i]
      /\ v1.crtc = mode_X_CRTC /\ v1.attr = mode_X_attr /\ v1.graphics = mode_X_graphics
  <2>1. /\ DOMAIN vga = Registers /\ DOMAIN vga.seq = 0..4 /\ DOMAIN vga.crtc = 0..24
        /\ DOMAIN vga.graphics = 0..8
    BY DEF VgaInv
  <2>2. IsTable(mode_X_seq, 4) /\ IsTable(mode_X_CRTC, 24) /\ IsTable(mode_X_graphics, 8)
    BY Tables
  <2> QED
    BY <2>1, <2>2, ProgrammedIs
<1> HIDE DEF v1
<1>3. /\ Only(v1, v2, {"seq"}) /\ DOMAIN v2.seq = 0..4 /\ v2.seq[2] = 15
      /\ \A i \in 0..4 \ {2} : v2.seq[i] = v1.seq[i]
  <2> DEFINE x == [i \in {2} |-> \h0F]
  <2>1. Only(v1, v2, {"seq"}) /\ v2.seq = Over(x, v1.seq)
    BY <1>2, SeqOutIs DEF SetWriteMask
  <2>2. DOMAIN x = {2} /\ x[2] = 15
    OBVIOUS
  <2> HIDE DEF x, v2
  <2> QED
    BY <1>2, <2>1, <2>2 DEF Over
<1> HIDE DEF v2
<1>4. /\ Only(v2, v3, {"seq", "palette", "next"}) /\ v3.palette = TRUE
      /\ DOMAIN v3.seq = 0..4 /\ v3.seq[1] = WithBit(v2.seq[1], 5, 0)
      /\ \A i \in 0..4 \ {1} : v3.seq[i] = v2.seq[i]
  <2>1. DOMAIN v2 = Registers
    BY <1>3 DEF Only
  <2>2. /\ Only(v2, v3, {"seq", "palette", "next"}) /\ v3.palette = TRUE
        /\ DOMAIN v3.seq = {1} \cup DOMAIN v2.seq
        /\ v3.seq[1] = WithBit(v2.seq[1], 5, 0)
        /\ \A i \in DOMAIN v2.seq \ {1} : v3.seq[i] = v2.seq[i]
    BY <2>1, BlankIs
  <2> HIDE DEF v3
  <2>3. {1} \cup (0..4) = 0..4
    OBVIOUS
  <2> QED
    BY <1>3, <2>2, <2>3
<1>5. IsTable(v3.seq, 4)
  <2>1. \E d : v3.seq = [i \in d |-> v3.seq[i]]
    BY <1>3 DEF VGA_blank, StatusIn, SeqOut, Over, Only, Registers
  <2> HIDE DEF v3
  <2> QED
    BY <1>4, <2>1 DEF IsTable
<1> HIDE DEF v3
<1>6. v3.seq = Clocked(mode_X_seq, v3.seq[2], 6) /\ v3.seq[2] = 15
  <2>1. /\ v3.seq[0] = 3 /\ v3.seq[1] = WithBit(mode_X_seq[1], 5, 0) /\ v3.seq[2] = 15
        /\ v3.seq[3] = mode_X_seq[3] /\ v3.seq[4] = 6
    BY <1>2, <1>3, <1>4, TableValues
  <2> QED
    BY <1>4, <1>5, <2>1, ClockedIs, Tables
<1>7. /\ DOMAIN v3 = Registers /\ v3.crtc = mode_X_CRTC /\ v3.attr = mode_X_attr
      /\ v3.graphics = mode_X_graphics
  BY <1>2, <1>3, <1>4 DEF Only, Registers
<1>8. DOMAIN mode_X_CRTC = 0..24 /\ DOMAIN mode_X_graphics = 0..8
  BY Tables DEF IsTable
<1>9. frame' = <<>> /\ status' = NoStatus
  BY <1>1 DEF VgaInv
<1> QED
  BY <1>1, <1>4, <1>5, <1>6, <1>7, <1>8, <1>9 DEF VgaInv

LEMMA VgaClear == ASSUME VgaInv, clear_mode_X PROVE VgaInv'
<1> DEFINE v1 == Programmed(vga, text_seq, \h67, text_CRTC, text_attr, text_graphics)
           v2 == SeqOut(v1, [i \in {2, 4} |-> 3])
           v3 == write_font_data(v1)
           v4 == VGA_blank(v3, 0)
<1>1. vga' = v4 /\ phase' = "done"
  BY DEF clear_mode_X
<1>2. /\ DOMAIN v1 = Registers
      /\ DOMAIN v1.seq = 0..4 /\ v1.seq[0] = 3 /\ \A i \in 1..4 : v1.seq[i] = text_seq[i]
      /\ v1.crtc = text_CRTC /\ v1.attr = text_attr /\ v1.graphics = text_graphics
      /\ v1.dac = Dac(White, White, Blue)
  <2>1. /\ DOMAIN vga = Registers /\ DOMAIN vga.seq = 0..4 /\ DOMAIN vga.crtc = 0..24
        /\ DOMAIN vga.graphics = 0..8
    BY DEF VgaInv
  <2>2. IsTable(text_seq, 4) /\ IsTable(text_CRTC, 24) /\ IsTable(text_graphics, 8)
    BY Tables
  <2> QED
    BY <2>1, <2>2, ProgrammedIs
<1> HIDE DEF v1
<1>3. /\ Only(v1, v2, {"seq"}) /\ DOMAIN v2.seq = 0..4 /\ v2.seq[2] = 3 /\ v2.seq[4] = 3
      /\ \A i \in 0..4 \ {2, 4} : v2.seq[i] = v1.seq[i]
  <2> DEFINE x == [i \in {2, 4} |-> 3]
  <2>1. Only(v1, v2, {"seq"}) /\ v2.seq = Over(x, v1.seq)
    BY <1>2, SeqOutIs
  <2>2. DOMAIN x = {2, 4} /\ x[2] = 3 /\ x[4] = 3
    OBVIOUS
  <2> HIDE DEF x, v2
  <2> QED
    BY <1>2, <2>1, <2>2 DEF Over
<1>4. Only(v2, v3, {"graphics"}) /\ v3.graphics = text_graphics
  <2> DEFINE x == [i \in 4..6 |-> <<0, \h10, \h0E>>[i - 3]]
  <2>1. v3 = GraphicsOut(v2, x)
    BY DEF write_font_data
  <2>2. /\ DOMAIN x = 4..6 /\ x[4] = 0 /\ x[5] = 16 /\ x[6] = 14
    OBVIOUS
  <2>3. v2.graphics = text_graphics /\ DOMAIN v2 = Registers
    BY <1>2, <1>3 DEF Only, Registers
  <2> HIDE DEF x, v2, v3
  <2>4. Only(v2, v3, {"graphics"}) /\ v3.graphics = Over(x, v2.graphics)
    BY <2>1, <2>3, GraphicsOutIs
  <2>5. text_graphics = [i \in 0..8 |-> text_graphics[i]]
    BY Tables DEF IsTable
  <2>6. \A i \in 4..6 : i = 4 \/ i = 5 \/ i = 6
    OBVIOUS
  <2>7. \A i \in 4..6 : x[i] = text_graphics[i]
    BY <2>2, <2>6, TableValues
  <2>8. Over(x, text_graphics) = text_graphics
    BY <2>2, <2>5, <2>7 DEF Over
  <2> QED
    BY <2>3, <2>4, <2>8
<1> HIDE DEF v2, v3
<1>5. /\ Only(v3, v4, {"seq", "palette", "next"}) /\ v4.palette = TRUE
      /\ DOMAIN v4.seq = 0..4 /\ v4.seq[1] = WithBit(v2.seq[1], 5, 0)
      /\ \A i \in 0..4 \ {1} : v4.seq[i] = v2.seq[i]
  <2>1. DOMAIN v3 = Registers /\ v3.seq = v2.seq
    BY <1>3, <1>4 DEF Only, Registers
  <2>2. DOMAIN v3.seq = 0..4
    BY <1>3, <2>1
  <2> QED
    <3>1. /\ Only(v3, v4, {"seq", "palette", "next"}) /\ v4.palette = TRUE
          /\ DOMAIN v4.seq = {1} \cup DOMAIN v3.seq
          /\ v4.seq[1] = WithBit(v3.seq[1], 5, 0)
          /\ \A i \in DOMAIN v3.seq \ {1} : v4.seq[i] = v3.seq[i]
      BY <2>1, BlankIs
    <3> HIDE DEF v4
    <3>2. {1} \cup (0..4) = 0..4
      OBVIOUS
    <3> QED
      BY <2>1, <2>2, <3>1, <3>2
<1>6. IsTable(v4.seq, 4)
  <2>1. \E d : v4.seq = [i \in d |-> v4.seq[i]]
    BY <1>4 DEF VGA_blank, StatusIn, SeqOut, Over, Only, Registers
  <2> HIDE DEF v4
  <2> QED
    BY <1>5, <2>1 DEF IsTable
<1> HIDE DEF v4
<1>7. v4.seq = Clocked(text_seq, 3, 3)
  <2>1. /\ v4.seq[0] = 3 /\ v4.seq[1] = WithBit(text_seq[1], 5, 0) /\ v4.seq[2] = 3
        /\ v4.seq[3] = text_seq[3] /\ v4.seq[4] = 3
    BY <1>2, <1>3, <1>5
  <2> QED
    BY <1>5, <1>6, <2>1, ClockedIs, Tables
<1>8. /\ DOMAIN v4 = Registers /\ v4.crtc = text_CRTC /\ v4.attr = text_attr
      /\ v4.graphics = text_graphics /\ v4.dac = Dac(White, White, Blue)
  BY <1>2, <1>3, <1>4, <1>5 DEF Only, Registers
<1>9. DOMAIN text_CRTC = 0..24 /\ DOMAIN text_graphics = 0..8
  BY Tables DEF IsTable
<1> QED
  BY <1>1, <1>5, <1>6, <1>7, <1>8, <1>9 DEF VgaInv

\* Whatever is written to video memory, the mask is left at the last plane.
LEMMA MaskIs ==
  ASSUME VgaInv, phase = "graphics", NEW v, DOMAIN v = Registers, v.seq = vga.seq
  PROVE  LET w == SetWriteMask(v, 8)
         IN  /\ Only(v, w, {"seq"}) /\ DOMAIN w.seq = 0..4 /\ IsTable(w.seq, 4)
             /\ w.seq = Clocked(mode_X_seq, w.seq[2], 6) /\ w.seq[2] = 8
<1> DEFINE w == SetWriteMask(v, 8)
           x == [i \in {2} |-> 8]
           c == Clocked(mode_X_seq, vga.seq[2], 6)
<1>1. Only(v, w, {"seq"}) /\ w.seq = Over(x, vga.seq)
  BY SeqOutIs DEF SetWriteMask
<1>2. /\ vga.seq = c /\ DOMAIN vga.seq = 0..4 /\ IsTable(vga.seq, 4)
  BY DEF VgaInv
<1>3. /\ c[0] = 3 /\ c[1] = WithBit(mode_X_seq[1], 5, 0) /\ c[3] = mode_X_seq[3] /\ c[4] = 6
  BY ClockedValues, Tables
<1>4. DOMAIN x = {2} /\ x[2] = 8
  OBVIOUS
<1> HIDE DEF x, c, w
<1>5. /\ DOMAIN w.seq = 0..4 /\ w.seq[2] = 8 /\ \A i \in 0..4 \ {2} : w.seq[i] = vga.seq[i]
  BY <1>1, <1>2, <1>4 DEF Over
<1>6. IsTable(w.seq, 4)
  <2>1. w.seq = [i \in DOMAIN x \cup DOMAIN vga.seq |-> w.seq[i]]
    BY <1>1 DEF Over
  <2>2. DOMAIN x \cup DOMAIN vga.seq = 0..4
    BY <1>2, <1>4
  <2> QED
    BY <2>1, <2>2 DEF IsTable
<1>7. /\ w.seq[0] = 3 /\ w.seq[1] = WithBit(mode_X_seq[1], 5, 0)
      /\ w.seq[3] = mode_X_seq[3] /\ w.seq[4] = 6
  BY <1>2, <1>3, <1>5
<1>8. w.seq = Clocked(mode_X_seq, w.seq[2], 6)
  BY <1>6, <1>7, ClockedIs, Tables
<1> QED
  BY <1>1, <1>5, <1>6, <1>8 DEF w

LEMMA VgaFrame == ASSUME VgaInv, NEW q \in Players, Frame(q) PROVE VgaInv'
<1> DEFINE v1 == SetWriteMask(vga, 8)
           x == [i \in {\h0C, \h0D} |-> IF i = \h0C THEN \h40 ELSE 0]
           v2 == CrtcOut(v1, x)
<1>1. /\ vga' = v2 /\ phase = "graphics" /\ phase' = phase /\ status' = status
  BY DEF Frame, ShownAt
<1>2. /\ Only(vga, v1, {"seq"}) /\ DOMAIN v1.seq = 0..4 /\ IsTable(v1.seq, 4)
      /\ v1.seq = Clocked(mode_X_seq, v1.seq[2], 6) /\ v1.seq[2] = 8
  <2>1. DOMAIN vga = Registers
    BY DEF VgaInv
  <2> QED
    BY <1>1, <2>1, MaskIs
<1> HIDE DEF v1
<1> DEFINE kept == IF Locked(v1) THEN 0..7 ELSE {}
           put == [i \in DOMAIN x \ kept |-> x[i]]
<1>3. Only(v1, v2, {"crtc"}) /\ v2.crtc = Over(put, v1.crtc)
  BY <1>2, CrtcOutIs DEF Only
<1>4. DOMAIN put = {\h0C, \h0D} /\ put[\h0C] = \h40 /\ put[\h0D] = 0
  <2>1. DOMAIN x = {\h0C, \h0D} /\ x[\h0C] = \h40 /\ x[\h0D] = 0
    OBVIOUS
  <2>2. \h0C \notin kept /\ \h0D \notin kept
    OBVIOUS
  <2> HIDE DEF x, kept
  <2> QED
    BY <2>1, <2>2
<1> HIDE DEF put, v2
<1>5. /\ DOMAIN v2 = Registers /\ v2.seq = v1.seq /\ v2.attr = vga.attr
      /\ v2.graphics = vga.graphics /\ v2.palette = vga.palette /\ v2.dac = vga.dac
      /\ v1.crtc = vga.crtc
  BY <1>2, <1>3 DEF Only, Registers
<1>6. /\ DOMAIN v2.crtc = 0..24 /\ v2.crtc[\h0C] = \h40 /\ v2.crtc[\h0D] = 0
      /\ \A i \in 0..24 \ {\h0C, \h0D} : v2.crtc[i] = vga.crtc[i]
  <2>1. DOMAIN vga.crtc = 0..24
    BY DEF VgaInv
  <2> QED
    BY <1>3, <1>4, <1>5, <2>1 DEF Over
<1>7. /\ vga.attr = mode_X_attr /\ vga.graphics = mode_X_graphics /\ vga.palette = TRUE
      /\ DOMAIN vga.graphics = 0..8
      /\ \A i \in 0..24 \ {\h0C, \h0D} : vga.crtc[i] = mode_X_CRTC[i]
      /\ status # NoStatus => vga.dac = Dac(PlayerColor(status.ticks), White,
                                            WallColor(status.lvl))
  BY <1>1 DEF VgaInv
<1> QED
  BY <1>1, <1>2, <1>5, <1>6, <1>7 DEF VgaInv

LEMMA VgaStatus ==
  ASSUME VgaInv, NEW len \in 1..CHARS, NEW lvl \in Levels, NEW ticks \in Ticks,
         Status([len |-> len, lvl |-> lvl, ticks |-> ticks])
  PROVE  VgaInv'
<1> DEFINE v1 == set_palette(vga, lvl, ticks)
           v2 == SetWriteMask(v1, 8)
<1>1. /\ vga' = v2 /\ phase = "graphics" /\ phase' = phase /\ frame' = frame
      /\ status'.ticks = ticks /\ status'.lvl = lvl
  BY DEF Status
<1>2. Only(vga, v1, {"dac"}) /\ v1.dac = Dac(PlayerColor(ticks), White, WallColor(lvl))
  BY DEF VgaInv, set_palette, Only, Registers
<1> HIDE DEF v1
<1>3. DOMAIN v1 = Registers /\ v1.seq = vga.seq
  BY <1>2 DEF Only, Registers
<1>4. /\ Only(v1, v2, {"seq"}) /\ DOMAIN v2.seq = 0..4 /\ IsTable(v2.seq, 4)
      /\ v2.seq = Clocked(mode_X_seq, v2.seq[2], 6) /\ v2.seq[2] = 8
  BY <1>1, <1>3, MaskIs
<1> HIDE DEF v2
<1>5. /\ DOMAIN v2 = Registers /\ v2.crtc = vga.crtc /\ v2.attr = vga.attr
      /\ v2.graphics = vga.graphics /\ v2.palette = vga.palette
      /\ v2.dac = Dac(PlayerColor(ticks), White, WallColor(lvl))
  BY <1>2, <1>4 DEF Only, Registers
<1>6. /\ vga.attr = mode_X_attr /\ vga.graphics = mode_X_graphics /\ vga.palette = TRUE
      /\ DOMAIN vga.graphics = 0..8 /\ DOMAIN vga.crtc = 0..24
      /\ \A i \in 0..24 \ {\h0C, \h0D} : vga.crtc[i] = mode_X_CRTC[i]
      /\ frame # <<>> => vga.crtc[\h0C] = \h40 /\ vga.crtc[\h0D] = 0
  BY <1>1 DEF VgaInv
<1> QED
  BY <1>1, <1>4, <1>5, <1>6 DEF VgaInv

LEMMA VgaStep == VgaInv /\ [Next]_vars => VgaInv'
<1> SUFFICES ASSUME VgaInv, [Next]_vars PROVE VgaInv'
  OBVIOUS
<1>1. CASE set_mode_X
  BY <1>1, VgaSetMode
<1>2. CASE prepare_maze_level
  BY <1>2 DEF prepare_maze_level, VgaInv
<1>3. CASE clear_mode_X
  BY <1>3, VgaClear
<1>4. CASE \E d \in {"up", "right", "down", "left"} : Pan(d)
  BY <1>4 DEF Pan, VgaInv
<1>5. CASE \E q \in Blocks : Paint(q)
  BY <1>5 DEF Paint, VgaInv
<1>6. CASE \E q \in Players : Frame(q)
  BY <1>6, VgaFrame
<1>7. CASE \E len \in 1..CHARS, lvl \in Levels, ticks \in Ticks :
              Status([len |-> len, lvl |-> lvl, ticks |-> ticks])
  BY <1>7, VgaStatus
<1>8. CASE UNCHANGED vars
  BY <1>8 DEF vars, VgaInv
<1> QED
  BY <1>1, <1>2, <1>3, <1>4, <1>5, <1>6, <1>7, <1>8 DEF Next

\* As long as mode X lasts, the bar keeps its text and the palette its
\* colours, whatever is shown above it (modex.c:537 to 630).
THEOREM BarStays == Spec => []BarShown
<1>1. VideoInv /\ VgaInv => BarShown
  <2> SUFFICES ASSUME VideoInv, VgaInv, phase = "graphics", status # NoStatus
               PROVE  /\ \A i \in 0..SCROLL_X_DIM - 1, j \in 0..BAR_DIM - 1 :
                            OnBar(i, j) = BarPixel(status, i, j)
                      /\ vga.dac[PLAYER_CENTER_COLOR] = PlayerColor(status.ticks)
                      /\ vga.dac[WALL_FILL_COLOR] = WallColor(status.lvl)
    BY DEF BarShown
  <2>1. ASSUME NEW i \in 0..SCROLL_X_DIM - 1, NEW j \in 0..BAR_DIM - 1
        PROVE  OnBar(i, j) = BarPixel(status, i, j)
    <3>1. /\ Address(<<i, j>>) \in 0..BAR_SIZE - 1 /\ i % 4 \in Planes
          /\ Dealt(status, i % 4, Address(<<i, j>>)) = BarPixel(status, i, j)
      BY BarPlace
    <3>2. video[i % 4][Address(<<i, j>>)] = Dealt(status, i % 4, Address(<<i, j>>))
      BY <3>1 DEF VideoInv
    <3> QED
      BY <3>1, <3>2 DEF OnBar
  <2>2. /\ vga.dac[PLAYER_CENTER_COLOR] = PlayerColor(status.ticks)
        /\ vga.dac[WALL_FILL_COLOR] = WallColor(status.lvl)
    <3>1. vga.dac = Dac(PlayerColor(status.ticks), White, WallColor(status.lvl))
      BY DEF VgaInv
    <3>2. \A a, b, c : Dac(a, b, c)[32] = a /\ Dac(a, b, c)[34] = c
      BY DEF Dac, PLAYER_CENTER_COLOR, WALL_FILL_COLOR
    <3> QED
      BY <3>1, <3>2 DEF PLAYER_CENTER_COLOR, WALL_FILL_COLOR
  <2> QED
    BY <2>1, <2>2
<1> QED
  BY <1>1, BuildInit, BuildStep, VideoInit, VideoStep, VgaInit, VgaStep, PTL DEF Spec

\* Whatever the attribute port takes next and whatever has been shown, the
\* registers are those of a mode's table, and the places that they name do
\* not overlap (modex.c:82 to 98, 314 to 335, 1157 to 1290).
THEOREM ModesProgrammed == Spec => []VgaSound
<1>1. VgaInv => ModeProgrammed
  <2> SUFFICES ASSUME VgaInv PROVE ModeProgrammed
    OBVIOUS
  <2>1. ASSUME phase = "graphics"
        PROVE  /\ vga.seq = Clocked(mode_X_seq, vga.seq[2], 6) /\ vga.seq[2] \in {8, \h0F}
               /\ vga.attr = mode_X_attr /\ vga.graphics = mode_X_graphics
               /\ \A i \in DOMAIN mode_X_CRTC \ {\h0C, \h0D} : vga.crtc[i] = mode_X_CRTC[i]
    BY <2>1, Tables DEF VgaInv, IsTable
  <2>2. ASSUME phase = "done"
        PROVE  /\ vga.seq = Clocked(text_seq, 3, 3)
               /\ vga.attr = text_attr /\ vga.graphics = text_graphics /\ vga.crtc = text_CRTC
               /\ vga.dac = fill_palette(vga).dac
    BY <2>2 DEF VgaInv, fill_palette, Registers
  <2>3. vga.palette
    BY DEF VgaInv
  <2> QED
    BY <2>1, <2>2, <2>3, Zenon DEF ModeProgrammed, Clocked
<1>2. VgaInv => BarBelowWindow
  <2> SUFFICES ASSUME VgaInv, phase = "graphics" PROVE BarBelowWindow
    BY DEF BarBelowWindow
  <2>1. /\ vga.crtc[7] = 31 /\ vga.crtc[9] = 1 /\ vga.crtc[\h12] = 143
        /\ vga.crtc[\h13] = 40 /\ vga.crtc[\h18] = 107
    BY TableValues DEF VgaInv
  <2>2. frame # <<>> => vga.crtc[\h0C] = 64 /\ vga.crtc[\h0D] = 0
    BY DEF VgaInv
  <2>3. Bit(31, 4) = 1 /\ Bit(1, 6) = 0 /\ Bit(31, 1) = 1 /\ Bit(31, 6) = 0 /\ 1 % 32 = 1
    BY DEF Bit, PlaceValue
  <2>4. LineCompare(vga) = 363 /\ DisplayEnd(vga) = 399 /\ LinesPerRow(vga) = 2 /\ Pitch(vga) = 80
    BY <2>1, <2>3 DEF LineCompare, DisplayEnd, LinesPerRow, Pitch
  <2>5. frame # <<>> => ImageStart(vga) = 16384
    BY <2>2 DEF ImageStart
  <2> QED
    BY <2>4, <2>5 DEF BarBelowWindow, IMAGE_X_DIM, IMAGE_Y_DIM, BAR_LINES, MODE_X_MEM_SIZE
<1>3. VgaInv => VgaSound
  BY <1>1, <1>2 DEF VgaSound
<1> QED
  BY <1>3, VgaInit, VgaStep, PTL DEF Spec
=============================================================================
