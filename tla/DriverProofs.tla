----------------------------- MODULE DriverProofs -----------------------------
(***************************************************************************)
(* Theorems about the two modules for the Linux kernel.  mp1: the list of  *)
(* blinking characters stays sound under the tasklet.  mp2: the Tux driver *)
(* and its line discipline keep what they promise for every size of the    *)
(* rings, every receive call and every order of interrupts.                *)
(***************************************************************************)
EXTENDS Tux, BlinkList, FiniteSetTheorems, SequenceTheorems, WellFoundedInduction, TLAPS

-----------------------------------------------------------------------------
(* mp1: lists along NEXT.                                                  *)

\* A set of natural numbers that is not empty has a least one.
LEMMA LeastIn ==
  ASSUME NEW S \in SUBSET Nat, S # {}
  PROVE  \E m \in S : \A n \in S : m =< n
<1> DEFINE R == OpToRel(<, Nat)
<1>1. PICK m \in S : \A n \in S : ~(<<n, m>> \in R)
  <2>1. IsWellFoundedOn(R, Nat)
    BY NatLessThanWellFounded
  <2> HIDE DEF R
  <2> QED
    BY <2>1, WFMin
<1>2. \A n \in S : ~(n < m)
  BY <1>1 DEF OpToRel
<1> QED
  BY <1>2

\* A list as it should be: its structures are apart and the last has no next one.
Chain(s, head, nodes) ==
  /\ s \in Seq(Cells)
  /\ \A i, j \in 1 .. Len(s) : s[i] = s[j] => i = j
  /\ s = << >> => head = Null
  /\ s # << >> => s[1] = head /\ nodes[s[Len(s)]].next = Null
  /\ \A i \in 1 .. Len(s) - 1 : s[i + 1] = nodes[s[i]].next

\* A list whose structures are apart is not longer than there are cells.
LEMMA ChainFits ==
  ASSUME NEW h, NEW nd, NEW s, Chain(s, h, nd)
  PROVE  Len(s) =< Cardinality(Cells) /\ Cardinality(Cells) \in Nat
<1>1. s \in [1 .. Len(s) -> Cells] /\ Len(s) \in Nat
  BY DEF Chain
<1>2. s \in Injection(1 .. Len(s), Cells)
  BY <1>1 DEF Chain, Injection, IsInjective
<1>3. IsFiniteSet(Cells)
  BY BlinkListAssumption
<1>4. Cardinality(1 .. Len(s)) = Len(s)
  <2>1. Cardinality(1 .. Len(s)) = IF 1 > Len(s) THEN 0 ELSE Len(s) - 1 + 1
    BY <1>1, FS_Interval
  <2> QED
    BY <2>1, <1>1
<1> QED
  BY <1>2, <1>3, <1>4, FS_Injection, FS_CardinalityType

\* The walk follows a list to its end.
LEMMA ChainFollowed ==
  ASSUME NEW h, NEW nd, NEW s, Chain(s, h, nd)
  PROVE  Path(h, nd) = s
<1> DEFINE N == Cardinality(Cells)
           Step(t) == LET next == IF t = << >> THEN h ELSE nd[Last(t)].next
                      IN  IF next = Null THEN t ELSE Append(t, next)
           Min2(n) == IF n =< Len(s) THEN n ELSE Len(s)
           part == [n \in 0 .. N |-> SubSeq(s, 1, Min2(n))]
           way == CHOOSE w : w = [n \in 0 .. N |-> IF n = 0 THEN << >> ELSE Step(w[n - 1])]
<1>2. s \in Seq(Cells) /\ Null \notin Cells
  BY BlinkListAssumption DEF Chain
<1>1. N \in Nat /\ Len(s) \in 0 .. N
  <2>1. Len(s) \in Nat
    BY <1>2
  <2> QED
    BY <2>1, ChainFits
<1>3. ASSUME NEW n \in 0 .. N
      PROVE  /\ part[n] \in Seq(Cells) /\ Len(part[n]) = Min2(n)
             /\ \A i \in 1 .. Min2(n) : part[n][i] = s[i]
  BY <1>1, <1>2
<1>4. ASSUME NEW n \in 1 .. N
      PROVE  part[n] = Step(part[n - 1])
  <2>1. CASE n > Len(s)
    <3>1. part[n] = part[n - 1]
      <4>1. Min2(n) = Len(s) /\ Min2(n - 1) = Len(s)
        BY <2>1, <1>1
      <4>2. part[n] = SubSeq(s, 1, Min2(n)) /\ part[n - 1] = SubSeq(s, 1, Min2(n - 1))
        BY <1>1
      <4> QED
        BY <4>1, <4>2
    <3>2. part[n - 1] = s
      BY <2>1, <1>1, <1>2
    <3>3. Step(s) = s
      BY <1>1, <1>2 DEF Chain, Last
    <3> HIDE DEF Step, part
    <3> QED
      BY <3>1, <3>2, <3>3
  <2>2. CASE n =< Len(s)
    <3> DEFINE t == part[n - 1]
    <3>1. /\ t \in Seq(Cells) /\ Len(t) = n - 1
          /\ \A i \in 1 .. n - 1 : t[i] = s[i]
      <4>1. n - 1 \in 0 .. N /\ Min2(n - 1) = n - 1
        BY <2>2, <1>1
      <4> HIDE DEF part, Min2, N
      <4> QED
        BY <4>1, <1>3
    <3>2. /\ part[n] \in Seq(Cells) /\ Len(part[n]) = n
          /\ \A i \in 1 .. n : part[n][i] = s[i]
      <4>1. n \in 0 .. N /\ Min2(n) = n
        BY <2>2, <1>1
      <4> HIDE DEF part, Min2, N
      <4> QED
        BY <4>1, <1>3
    <3> HIDE DEF t
    <3>3. s[n] = IF t = << >> THEN h ELSE nd[Last(t)].next
      <4>1. CASE n = 1
        BY <4>1, <3>1, <2>2, <1>1, <1>2 DEF Chain
      <4>2. CASE n > 1
        <5>1. t # << >> /\ Last(t) = s[n - 1]
          BY <4>2, <3>1 DEF Last
        <5>2. n - 1 \in 1 .. Len(s) - 1
          BY <4>2, <2>2, <1>1
        <5>3. s[(n - 1) + 1] = nd[s[n - 1]].next
          BY <5>2 DEF Chain
        <5> QED
          BY <5>1, <5>3, <1>1
      <4> QED
        BY <4>1, <4>2
    <3>4. s[n] \in Cells
      BY <2>2, <1>1, <1>2
    <3>5. Step(t) = Append(t, s[n])
      BY <3>3, <3>4, <1>2
    <3>6. part[n] = Append(t, s[n])
      <4>1. Len(Append(t, s[n])) = n /\ Append(t, s[n]) \in Seq(Cells)
        BY <3>1, <3>4
      <4>2. \A i \in 1 .. n : Append(t, s[n])[i] = s[i]
        BY <3>1, <3>4
      <4> HIDE DEF part
      <4> QED
        BY <3>2, <4>1, <4>2
    <3> QED
      BY <3>5, <3>6 DEF t
  <2> HIDE DEF part, Step
  <2> QED
    BY <2>1, <2>2, <1>1
<1>5. part[0] = << >>
  BY <1>1, <1>2
<1> HIDE DEF Step
<1>6. part = [n \in 0 .. N |-> IF n = 0 THEN << >> ELSE Step(part[n - 1])]
  <2>1. \A n \in 0 .. N : part[n] = IF n = 0 THEN << >> ELSE Step(part[n - 1])
    <3> HIDE DEF part
    <3> QED
      BY <1>4, <1>5, <1>1
  <2>2. part = [n \in 0 .. N |-> part[n]]
    OBVIOUS
  <2> HIDE DEF part
  <2> QED
    BY <2>1, <2>2
<1>7. way = [n \in 0 .. N |-> IF n = 0 THEN << >> ELSE Step(way[n - 1])]
  <2> HIDE DEF part
  <2> QED
    BY <1>6
<1> HIDE DEF part, way
<1>8. \A n \in 0 .. N : way[n] = part[n]
  <2> DEFINE bad == {n \in 0 .. N : way[n] # part[n]}
  <2> SUFFICES ASSUME bad # {} PROVE FALSE
    OBVIOUS
  <2>1. PICK m \in bad : \A n \in bad : m =< n
    <3>1. bad \in SUBSET Nat
      BY <1>1
    <3> HIDE DEF bad
    <3> QED
      BY <3>1, LeastIn
  <2>2. m # 0
    BY <1>5, <1>7, <1>1, <2>1
  <2>3. m - 1 \in 0 .. N /\ m - 1 \notin bad
    BY <2>1, <2>2, <1>1
  <2>4. way[m - 1] = part[m - 1]
    BY <2>3
  <2>5. way[m] = Step(way[m - 1]) /\ part[m] = Step(part[m - 1])
    BY <2>1, <2>2, <1>6, <1>7
  <2> QED
    BY <2>1, <2>4, <2>5
<1>9. part[N] = s
  BY <1>1, <1>2 DEF part
<1> QED
  <2>1. Path(h, nd) = way[N]
    BY DEF Path, way, Step
  <2> QED
    BY <2>1, <1>8, <1>9, <1>1

\* A list is not changed by what is stored elsewhere, or in other fields.
LEMMA ChainElsewhere ==
  ASSUME NEW h, NEW nd, NEW other, NEW s, Chain(s, h, nd),
         \A i \in 1 .. Len(s) : other[s[i]].next = nd[s[i]].next
  PROVE  Chain(s, h, other)
<1>1. s # << >> => Len(s) \in 1 .. Len(s)
  BY DEF Chain
<1>2. \A i \in 1 .. Len(s) - 1 : i \in 1 .. Len(s)
  BY DEF Chain
<1> QED
  BY <1>1, <1>2 DEF Chain

\* mp1_ioctl_add puts a structure in front.
LEMMA ChainLonger ==
  ASSUME NEW h, NEW nd, NEW s, Chain(s, h, nd),
         NEW c \in Cells, \A i \in 1 .. Len(s) : s[i] # c, nd[c].next = h
  PROVE  Chain(<< c >> \o s, c, nd)
<1> DEFINE t == << c >> \o s
<1>1. /\ t \in Seq(Cells) /\ Len(t) = Len(s) + 1 /\ Len(s) \in Nat
      /\ t[1] = c /\ \A i \in 2 .. Len(t) : t[i] = s[i - 1]
  BY DEF Chain
<1> HIDE DEF t
<1>2. ASSUME NEW i \in 1 .. Len(t), NEW j \in 1 .. Len(t), t[i] = t[j]
      PROVE  i = j
  <2>1. ASSUME NEW k \in 2 .. Len(t)
        PROVE  t[k] # c /\ k - 1 \in 1 .. Len(s) /\ t[k] = s[k - 1]
    BY <1>1
  <2>2. CASE i = 1 \/ j = 1
    BY <2>1, <2>2, <1>1, <1>2
  <2>3. CASE i # 1 /\ j # 1
    <3>1. i \in 2 .. Len(t) /\ j \in 2 .. Len(t)
      BY <2>3
    <3>2. i - 1 = j - 1
      BY <2>1, <3>1, <1>2 DEF Chain
    <3> QED
      BY <3>1, <3>2
  <2> QED
    BY <2>2, <2>3
<1>3. t # << >> /\ nd[t[Len(t)]].next = Null
  <2>1. CASE s = << >>
    BY <2>1, <1>1 DEF Chain
  <2>2. CASE s # << >>
    <3>1. Len(t) \in 2 .. Len(t) /\ Len(t) - 1 = Len(s)
      BY <2>2, <1>1 DEF Chain
    <3> QED
      BY <3>1, <2>2, <1>1 DEF Chain
  <2> QED
    BY <2>1, <2>2
<1>4. ASSUME NEW i \in 1 .. Len(t) - 1
      PROVE  t[i + 1] = nd[t[i]].next
  <2>1. t[i + 1] = s[i] /\ i \in 1 .. Len(s)
    BY <1>1
  <2>2. CASE i = 1
    <3>1. s # << >>
      BY <2>1, <1>1
    <3> QED
      BY <2>1, <2>2, <3>1, <1>1 DEF Chain
  <2>3. CASE i # 1
    <3>1. i - 1 \in 1 .. Len(s) - 1 /\ i \in 2 .. Len(t)
      BY <2>3, <1>1
    <3>2. s[(i - 1) + 1] = nd[s[i - 1]].next
      BY <3>1 DEF Chain
    <3>3. t[i] = s[i - 1] /\ (i - 1) + 1 = i
      BY <3>1, <1>1
    <3> QED
      BY <2>1, <3>2, <3>3
  <2> QED
    BY <2>2, <2>3
<1>5. Chain(t, c, nd)
  BY <1>1, <1>2, <1>3, <1>4 DEF Chain
<1> QED
  BY <1>5 DEF t

\* mp1_ioctl_remove takes one out: the head, or by a store to the one before it.
Without(s, k) == [i \in 1 .. Len(s) - 1 |-> IF i < k THEN s[i] ELSE s[i + 1]]

LEMMA OthersStay ==
  ASSUME NEW s \in Seq(Cells), NEW k \in 1 .. Len(s),
         \A i, j \in 1 .. Len(s) : s[i] = s[j] => i = j
  PROVE  ToSet(Without(s, k)) = ToSet(s) \ {s[k]}
<1> DEFINE t == Without(s, k)
           at(i) == IF i < k THEN i ELSE i + 1
<1>1. s \in Seq(Cells) /\ Len(s) \in Nat \ {0} /\ k \in Nat \ {0}
  OBVIOUS
<1>2. /\ t \in Seq(Cells) /\ Len(t) = Len(s) - 1
      /\ \A i \in 1 .. Len(t) : t[i] = s[at(i)] /\ at(i) \in 1 .. Len(s) /\ at(i) # k
  <2>1. t = [i \in 1 .. Len(s) - 1 |-> IF i < k THEN s[i] ELSE s[i + 1]]
    BY DEF Without
  <2>2. \A i \in 1 .. Len(s) - 1 : t[i] \in Cells
    BY <2>1, <1>1
  <2>3. t \in Seq(Cells) /\ Len(t) = Len(s) - 1
    BY <2>1, <2>2, <1>1
  <2> QED
    BY <2>1, <2>3, <1>1
<1> HIDE DEF t
<1>3. \A i, j \in 1 .. Len(s) : s[i] = s[j] => i = j
  OBVIOUS
<1>4. ASSUME NEW c
       PROVE  (\E i \in 1 .. Len(t) : t[i] = c) <=> (\E i \in 1 .. Len(s) : s[i] = c) /\ c # s[k]
  <2>1. ASSUME NEW i \in 1 .. Len(t), t[i] = c
        PROVE  (\E j \in 1 .. Len(s) : s[j] = c) /\ c # s[k]
    <3>1. at(i) \in 1 .. Len(s) /\ at(i) # k /\ c = s[at(i)]
      BY <2>1, <1>2
    <3> HIDE DEF at
    <3> QED
      BY <3>1, <1>3
  <2>2. ASSUME NEW j \in 1 .. Len(s), s[j] = c, c # s[k]
        PROVE  \E i \in 1 .. Len(t) : t[i] = c
    <3>1. j # k
      BY <2>2
    <3>2. CASE j < k
      <4>1. j \in 1 .. Len(t) /\ at(j) = j
        BY <3>2, <1>1, <1>2
      <4> QED
        BY <4>1, <1>2, <2>2
    <3>3. CASE j > k
      <4>1. j - 1 \in 1 .. Len(t) /\ at(j - 1) = j
        BY <3>3, <1>1, <1>2
      <4> QED
        BY <4>1, <1>2, <2>2
    <3> QED
      BY <3>1, <3>2, <3>3, <1>1
  <2> QED
    BY <2>1, <2>2
<1>5. DOMAIN t = 1 .. Len(t) /\ DOMAIN s = 1 .. Len(s)
  BY <1>1, <1>2
<1>6. \A c : c \in ToSet(t) <=> \E i \in 1 .. Len(t) : t[i] = c
  BY <1>5 DEF ToSet
<1>7. \A c : c \in ToSet(s) <=> \E i \in 1 .. Len(s) : s[i] = c
  BY <1>5 DEF ToSet
<1>8. ToSet(t) = ToSet(s) \ {s[k]}
  BY <1>4, <1>6, <1>7
<1> QED
  BY <1>8 DEF t

LEMMA ChainShorter ==
  ASSUME NEW h, NEW nd, NEW other, NEW s, Chain(s, h, nd), NEW k \in 1 .. Len(s),
         NEW g, k = 1 => g = nd[s[k]].next, k # 1 => g = h,
         \A i \in 1 .. Len(s) :
            /\ i + 1 = k => other[s[i]].next = nd[s[k]].next
            /\ i + 1 # k => other[s[i]].next = nd[s[i]].next
  PROVE  Chain(Without(s, k), g, other)
<1> DEFINE t == Without(s, k)
           at(i) == IF i < k THEN i ELSE i + 1
<1>1. s \in Seq(Cells) /\ Len(s) \in Nat \ {0} /\ k \in Nat \ {0}
  BY DEF Chain
<1>2. /\ t \in Seq(Cells) /\ Len(t) = Len(s) - 1
      /\ \A i \in 1 .. Len(t) : t[i] = s[at(i)] /\ at(i) \in 1 .. Len(s) /\ at(i) # k
  <2>1. t = [i \in 1 .. Len(s) - 1 |-> IF i < k THEN s[i] ELSE s[i + 1]]
    BY DEF Without
  <2>2. \A i \in 1 .. Len(s) - 1 : t[i] \in Cells
    BY <2>1, <1>1
  <2>3. t \in Seq(Cells) /\ Len(t) = Len(s) - 1
    BY <2>1, <2>2, <1>1
  <2> QED
    BY <2>1, <2>3, <1>1
<1> HIDE DEF t
<1>3. \A i, j \in 1 .. Len(s) : s[i] = s[j] => i = j
  BY DEF Chain
<1>4. \A i \in 1 .. Len(s) - 1 : nd[s[i]].next = s[i + 1]
  BY DEF Chain
<1>5. nd[s[Len(s)]].next = Null /\ s[1] = h
  BY <1>1 DEF Chain
<1>6. ASSUME NEW i \in 1 .. Len(t), NEW j \in 1 .. Len(t), t[i] = t[j]
      PROVE  i = j
  <2>1. at(i) = at(j)
    <3>1. /\ at(i) \in 1 .. Len(s) /\ at(j) \in 1 .. Len(s) /\ s[at(i)] = s[at(j)]
      BY <1>2, <1>6
    <3> HIDE DEF at
    <3> QED
      BY <3>1, <1>3
  <2> QED
    BY <2>1, <1>1, <1>2
<1>7. t = << >> => g = Null
  <2> SUFFICES ASSUME t = << >> PROVE g = Null
    OBVIOUS
  <2>1. Len(s) = 1 /\ k = 1
    <3>1. Len(t) = 0
      OBVIOUS
    <3>2. Len(t) = Len(s) - 1
      BY <1>2
    <3>3. Len(s) = 1
      BY <3>1, <3>2, <1>1
    <3>4. k \in 1 .. 1
      BY <3>3
    <3> QED
      BY <3>3, <3>4
  <2> QED
    BY <2>1, <1>5
<1>8. t # << >> => t[1] = g
  <2> SUFFICES ASSUME t # << >> PROVE t[1] = g
    OBVIOUS
  <2>1. 1 \in 1 .. Len(t) /\ Len(s) > 1
    BY <1>1, <1>2
  <2>2. CASE k = 1
    BY <2>1, <2>2, <1>2, <1>4, <1>1
  <2>3. CASE k # 1
    BY <2>1, <2>3, <1>2, <1>5, <1>1
  <2> QED
    BY <2>2, <2>3
<1>9. t # << >> => other[t[Len(t)]].next = Null
  <2> SUFFICES ASSUME t # << >> PROVE other[t[Len(t)]].next = Null
    OBVIOUS
  <2>1. Len(t) \in 1 .. Len(t) /\ Len(t) = Len(s) - 1
    BY <1>1, <1>2
  <2>2. CASE k = Len(s)
    <3>1. at(Len(t)) = Len(s) - 1 /\ Len(s) - 1 \in 1 .. Len(s)
      BY <2>1, <2>2, <1>1
    <3>2. t[Len(t)] = s[Len(s) - 1]
      BY <2>1, <3>1, <1>2
    <3>3. (Len(s) - 1) + 1 = k
      BY <2>2, <1>1
    <3> QED
      BY <3>1, <3>2, <3>3, <2>2, <1>5
  <2>3. CASE k # Len(s)
    <3>1. at(Len(t)) = Len(s) /\ Len(s) \in 1 .. Len(s) /\ Len(s) + 1 # k
      BY <2>1, <2>3, <1>1
    <3>2. t[Len(t)] = s[Len(s)]
      BY <2>1, <3>1, <1>2
    <3> QED
      BY <3>1, <3>2, <1>5
  <2> QED
    BY <2>2, <2>3
<1>10. ASSUME NEW i \in 1 .. Len(t) - 1
       PROVE  t[i + 1] = other[t[i]].next
  <2>1. /\ i \in 1 .. Len(t) /\ i + 1 \in 1 .. Len(t) /\ Len(t) = Len(s) - 1
        /\ i \in 1 .. Len(s) /\ i + 1 \in 1 .. Len(s) - 1 /\ i + 1 \in 1 .. Len(s)
        /\ i \in 1 .. Len(s) - 1
    BY <1>1, <1>2
  <2>2. t[i] = s[at(i)] /\ t[i + 1] = s[at(i + 1)]
    BY <2>1, <1>2
  <2>3. CASE i + 1 < k
    <3>1. at(i) = i /\ at(i + 1) = i + 1
      BY <2>3, <2>1, <1>1
    <3> QED
      BY <2>1, <2>2, <2>3, <3>1, <1>4
  <2>4. CASE i + 1 = k
    <3>1. at(i) = i /\ at(i + 1) = (i + 1) + 1
      BY <2>4, <2>1, <1>1
    <3>2. nd[s[i + 1]].next = s[(i + 1) + 1]
      BY <2>1, <1>4
    <3> QED
      BY <2>1, <2>2, <2>4, <3>1, <3>2
  <2>5. CASE i + 1 > k
    <3>1. at(i) = i + 1 /\ at(i + 1) = (i + 1) + 1 /\ (i + 1) + 1 # k
      BY <2>5, <2>1, <1>1
    <3>2. nd[s[i + 1]].next = s[(i + 1) + 1]
      BY <2>1, <1>4
    <3> QED
      BY <2>1, <2>2, <3>1, <3>2
  <2> QED
    BY <2>1, <2>3, <2>4, <2>5, <1>1
<1>11. Chain(t, g, other)
  BY <1>2, <1>6, <1>7, <1>8, <1>9, <1>10 DEF Chain
<1> QED
  BY <1>11 DEF t

-----------------------------------------------------------------------------
(* The list and the ioctl that works on it.  *)

\* While no location was refused.
BlinkInv ==
  /\ BlinkTypeOK
  /\ eip # "lost"
  /\ Chain(List, mp1_list_head, node)
  /\ Listed \subseteq allocated
  /\ \A c \in allocated : c \in Listed \/ (c = esi /\ eip \in {"link", "free"})
  /\ eip = "link" => esi \in allocated \ Listed /\ node[esi].next = mp1_list_head
  /\ eip = "free" => esi \notin Listed \/ node[esi].location \in OffScreen
  /\ eip # "idle" => esi \in Cells
  /\ eip \notin {"idle", "link", "check", "free"} => edi \in Cells
  /\ eip \in {"store status", "poke"} => bx \in {0, 1}

\* Once a structure that is on the list was freed.
LostInv ==
  /\ BlinkTypeOK
  /\ eip = "lost"
  /\ \E c \in Listed \ allocated : node[c].location \in OffScreen

LEMMA OnList ==
  ASSUME NEW c, List \in Seq(Cells)
  PROVE  c \in Listed <=> \E i \in 1 .. Len(List) : List[i] = c
<1>1. DOMAIN List = 1 .. Len(List)
  OBVIOUS
<1> QED
  BY <1>1 DEF Listed, ToSet

\* What the list is after a step.
LEMMA NewList ==
  ASSUME NEW s, Chain(s, mp1_list_head', node')
  PROVE  /\ List' = s
         /\ \A c : c \in Listed' <=> \E i \in 1 .. Len(s) : s[i] = c
<1>1. List' = s
  BY ChainFollowed DEF List
<1>2. DOMAIN s = 1 .. Len(s)
  BY DEF Chain
<1> QED
  BY <1>1, <1>2 DEF Listed, ToSet

\* What a step leaves in NEXT decides whether it leaves the list alone.
LEMMA SameList ==
  ASSUME BlinkInv, mp1_list_head' = mp1_list_head,
         \A c \in Listed : node'[c].next = node[c].next
  PROVE  Chain(List', mp1_list_head', node') /\ Listed' = Listed
<1>1. List \in Seq(Cells) /\ Chain(List, mp1_list_head, node)
  BY DEF BlinkInv, Chain
<1>2. \A i \in 1 .. Len(List) : node'[List[i]].next = node[List[i]].next
  BY <1>1, OnList
<1>3. Chain(List, mp1_list_head', node')
  BY <1>1, <1>2, ChainElsewhere
<1>4. List' = List
  BY <1>3, NewList
<1> QED
  BY <1>3, <1>4 DEF Listed

LEMMA GarbageIsStructure == Garbage \in Structures
<1>1. (CHOOSE l \in Locations : TRUE) \in Locations
  BY BlinkListAssumption
<1>2. (CHOOSE n \in Lengths : TRUE) \in Lengths
  BY BlinkListAssumption
<1> QED
  BY <1>1, <1>2, BlinkListAssumption DEF Garbage, Structures

LEMMA FreshList == BlinkInit => BlinkInv
<1> SUFFICES ASSUME BlinkInit PROVE BlinkInv
  OBVIOUS
<1>1. Chain(<< >>, mp1_list_head, node)
  BY DEF BlinkInit, Chain
<1>2. List = << >>
  BY <1>1, ChainFollowed DEF List
<1>3. Listed = {}
  BY <1>2 DEF Listed, ToSet
<1>4. BlinkTypeOK
  BY GarbageIsStructure, BlinkListAssumption DEF BlinkInit, BlinkTypeOK
<1> QED
  BY <1>1, <1>2, <1>3, <1>4 DEF BlinkInit, BlinkInv

LEMMA AddKeepsList ==
  ASSUME BlinkInv, Add
  PROVE  BlinkInv'
<1> USE DEF BlinkTypeOK
<1>1. PICK c \in Cells \ allocated, l \in Locations \cup OffScreen,
           on \in Lengths, off \in Lengths :
        /\ allocated' = allocated \cup {c}
        /\ node' = [node EXCEPT ![c] = Filled(l, on, off)]
        /\ esi' = c
  BY DEF Add
<1>2. /\ eip = "idle" /\ eip' = "link"
      /\ UNCHANGED << mp1_list_head, screen, edi, bx >>
  BY DEF Add
<1>3. Filled(l, on, off) \in Structures
  BY BlinkListAssumption DEF Filled, Structures, BlinkInv
<1>4. BlinkTypeOK'
  BY <1>1, <1>2, <1>3 DEF BlinkInv
<1>5. c \notin Listed
  BY DEF BlinkInv
<1>6. \A d \in Listed : node'[d].next = node[d].next
  BY <1>1, <1>5 DEF BlinkInv
<1>7. Chain(List', mp1_list_head', node') /\ Listed' = Listed
  BY <1>2, <1>6, SameList
<1>8. node'[c].next = mp1_list_head
  BY <1>1 DEF BlinkInv, Filled
<1> QED
  BY <1>1, <1>2, <1>4, <1>5, <1>7, <1>8 DEF BlinkInv

LEMMA LinkKeepsList ==
  ASSUME BlinkInv, Link
  PROVE  BlinkInv'
<1>1. /\ eip = "link" /\ eip' = "check" /\ mp1_list_head' = esi
      /\ UNCHANGED << node, allocated, screen, esi, edi, bx >>
  BY DEF Link, registers
<1>2. /\ esi \in Cells /\ esi \in allocated \ Listed /\ node[esi].next = mp1_list_head
      /\ Chain(List, mp1_list_head, node) /\ List \in Seq(Cells)
  BY <1>1 DEF BlinkInv, Chain
<1>3. \A i \in 1 .. Len(List) : List[i] # esi
  BY <1>2, OnList
<1> DEFINE s == << esi >> \o List
<1>4. Chain(s, mp1_list_head', node')
  BY <1>1, <1>2, <1>3, ChainLonger
<1>5. Len(s) = Len(List) + 1 /\ s[1] = esi /\ \A i \in 1 .. Len(List) : s[i + 1] = List[i]
  BY <1>2
<1> HIDE DEF s
<1>6. \A c : c \in Listed' <=> c = esi \/ c \in Listed
  <2>1. \A c : c \in Listed' <=> \E i \in 1 .. Len(s) : s[i] = c
    BY <1>4, NewList
  <2>2. ASSUME NEW c
        PROVE  (\E i \in 1 .. Len(s) : s[i] = c)
                 <=> c = esi \/ \E i \in 1 .. Len(List) : List[i] = c
    <3>1. Len(List) \in Nat
      BY <1>2
    <3>2. \A i \in 1 .. Len(s) : i = 1 \/ (i - 1 \in 1 .. Len(List) /\ s[i] = List[i - 1])
      BY <3>1, <1>5
    <3>3. \A i \in 1 .. Len(List) : i + 1 \in 1 .. Len(s) /\ 1 \in 1 .. Len(s)
      BY <3>1, <1>5
    <3>4. 1 \in 1 .. Len(s)
      BY <3>1, <1>5
    <3>5. ASSUME NEW i \in 1 .. Len(s), s[i] = c
          PROVE  c = esi \/ \E j \in 1 .. Len(List) : List[j] = c
      BY <3>2, <3>5, <1>5
    <3>6. ASSUME NEW i \in 1 .. Len(List), List[i] = c
          PROVE  \E j \in 1 .. Len(s) : s[j] = c
      <4>1. i + 1 \in 1 .. Len(s) /\ s[i + 1] = List[i]
        BY <3>1, <3>3, <1>5
      <4> QED
        BY <3>6, <4>1
    <3>7. c = esi => \E j \in 1 .. Len(s) : s[j] = c
      BY <3>4, <1>5
    <3> QED
      BY <3>5, <3>6, <3>7
  <2> QED
    BY <2>1, <2>2, <1>2, OnList
<1>7. Chain(List', mp1_list_head', node')
  BY <1>4, NewList
<1>8. BlinkTypeOK'
  BY <1>1, <1>2 DEF BlinkInv, BlinkTypeOK
<1> QED
  BY <1>1, <1>2, <1>6, <1>7, <1>8 DEF BlinkInv

LEMMA CheckKeepsList ==
  ASSUME BlinkInv, Check
  PROVE  BlinkInv'
<1>1. /\ eip = "check"
      /\ \/ eip' = "free" /\ node[esi].location \in OffScreen /\ UNCHANGED << edi, bx >>
         \/ eip' = "poke" /\ edi' = esi /\ bx' = 1
      /\ UNCHANGED << mp1_list_head, node, allocated, screen, esi >>
  BY DEF Check
<1>2. Chain(List', mp1_list_head', node') /\ Listed' = Listed
  BY <1>1, SameList
<1>3. 1 \in 0 .. Width - 1
  BY BlinkListAssumption
<1> QED
  BY <1>1, <1>2, <1>3 DEF BlinkInv, BlinkTypeOK

\* A structure that mp1_ioctl_add refuses is still on the list when it is freed.
LEMMA FreeLosesList ==
  ASSUME BlinkInv, Free, esi \in Listed
  PROVE  LostInv'
<1>1. /\ eip = "free" /\ eip' = "lost" /\ node[esi].location \in OffScreen
      /\ allocated' = allocated \ {esi} /\ esi' = Null
      /\ UNCHANGED << mp1_list_head, screen, edi, bx, node >>
  BY DEF Free, BlinkInv
<1>2. Chain(List', mp1_list_head', node') /\ Listed' = Listed
  BY <1>1, SameList
<1> QED
  BY <1>1, <1>2 DEF BlinkInv, LostInv, BlinkTypeOK

LEMMA FreeKeepsList ==
  ASSUME BlinkInv, Free, esi \notin Listed
  PROVE  BlinkInv'
<1>1. /\ eip = "free" /\ eip' = "idle" /\ esi \in Cells /\ esi \notin Listed
      /\ allocated' = allocated \ {esi} /\ esi' = Null
      /\ UNCHANGED << mp1_list_head, screen, edi, bx >>
  BY DEF Free, BlinkInv
<1>2. node' = [node EXCEPT ![esi] = Garbage]
  BY <1>1 DEF Free
<1>3. \A d \in Listed : node'[d].next = node[d].next
  BY <1>1, <1>2 DEF BlinkInv, BlinkTypeOK
<1>4. Chain(List', mp1_list_head', node') /\ Listed' = Listed
  BY <1>1, <1>3, SameList
<1>5. BlinkTypeOK'
  BY <1>1, <1>2, GarbageIsStructure DEF BlinkInv, BlinkTypeOK
<1> QED
  BY <1>1, <1>4, <1>5 DEF BlinkInv

LEMMA PokeKeepsList ==
  ASSUME BlinkInv, Poke
  PROVE  BlinkInv'
<1>1. /\ eip = "poke" /\ eip' = "idle" /\ bx \in {0, 1} /\ esi' = Null /\ edi' = Null /\ bx' = 0
      /\ UNCHANGED << mp1_list_head, node, allocated >>
  BY DEF Poke, BlinkInv
<1>2. Chain(List', mp1_list_head', node') /\ Listed' = Listed
  BY <1>1, SameList
<1>3. screen' \in [Locations -> 0 .. 2]
  <2>1. screen' = [screen EXCEPT ![node[edi].location] = bx]
    BY DEF Poke, Poked
  <2>2. screen \in [Locations -> 0 .. 2] /\ bx \in 0 .. 2
    BY <1>1 DEF BlinkInv, BlinkTypeOK
  <2> QED
    BY <2>1, <2>2
<1>4. 0 \in 0 .. Width - 1
  BY BlinkListAssumption
<1> QED
  BY <1>1, <1>2, <1>3, <1>4 DEF BlinkInv, BlinkTypeOK

\* The structure that mp1_ioctl_remove finds is unlinked, and none other.
LEMMA UnlinkKeepsList ==
  ASSUME BlinkInv, NEW l \in Locations, Unlink(l)
  PROVE  BlinkInv'
<1>1. PICK c \in Cells :
        /\ Found(c, l)
        /\ IF c = mp1_list_head
           THEN mp1_list_head' = node[c].next /\ UNCHANGED node
           ELSE \E prev \in Listed :
                  /\ node[prev].next = c
                  /\ node' = [node EXCEPT ![prev].next = node[c].next]
                  /\ UNCHANGED mp1_list_head
        /\ esi' = c
  BY DEF Unlink
<1>2. /\ eip = "idle" /\ eip' = "free"
      /\ UNCHANGED << allocated, screen, edi, bx >>
  BY DEF Unlink
<1>3. /\ List \in Seq(Cells) /\ Chain(List, mp1_list_head, node)
      /\ \A i, j \in 1 .. Len(List) : List[i] = List[j] => i = j
      /\ List # << >> => List[1] = mp1_list_head /\ node[List[Len(List)]].next = Null
      /\ \A i \in 1 .. Len(List) - 1 : List[i + 1] = node[List[i]].next
  BY DEF BlinkInv, Chain
<1>4. PICK k \in 1 .. Len(List) : List[k] = c
  <2>1. DOMAIN List = 1 .. Len(List)
    BY <1>3
  <2> QED
    BY <1>1, <2>1 DEF Found
<1>5. Len(List) \in Nat \ {0} /\ List # << >> /\ k \in Nat \ {0}
  BY <1>3, <1>4
<1>6. /\ BlinkTypeOK /\ node[c].next \in Cells \cup {Null}
  BY DEF BlinkInv, BlinkTypeOK, Structures
<1>7. /\ mp1_list_head' = (IF k = 1 THEN node[List[k]].next ELSE mp1_list_head)
      /\ \A i \in 1 .. Len(List) :
           node'[List[i]].next =
             (IF i + 1 = k THEN node[List[k]].next ELSE node[List[i]].next)
      /\ node' \in [Cells -> Structures]
  <2>1. CASE c = mp1_list_head
    <3>1. k = 1
      BY <2>1, <1>3, <1>4, <1>5
    <3>2. \A i \in 1 .. Len(List) : i + 1 # k
      BY <3>1
    <3> QED
      BY <2>1, <3>1, <3>2, <1>1, <1>4, <1>6 DEF BlinkTypeOK
  <2>2. CASE c # mp1_list_head
    <3>1. k # 1
      BY <2>2, <1>3, <1>4, <1>5
    <3>2. PICK prev \in Listed :
            /\ node[prev].next = c
            /\ node' = [node EXCEPT ![prev].next = node[c].next]
            /\ UNCHANGED mp1_list_head
      BY <2>2, <1>1
    <3>3. PICK j \in 1 .. Len(List) : List[j] = prev
      BY <1>3, OnList
    <3>4. j # Len(List)
      BY <3>2, <3>3, <1>3, <1>5, BlinkListAssumption
    <3>5. j \in 1 .. Len(List) - 1 /\ j + 1 \in 1 .. Len(List)
      BY <3>4, <1>5
    <3>6. j + 1 = k
      BY <3>2, <3>3, <3>5, <1>3, <1>4
    <3>7. prev \in Cells
      BY <3>3, <1>3
    <3>8. \A i \in 1 .. Len(List) : List[i] \in Cells /\ (List[i] = prev <=> i + 1 = k)
      BY <3>3, <3>6, <1>3, <1>5
    <3>9. \A d \in Cells : node'[d].next = IF d = prev THEN node[c].next ELSE node[d].next
      BY <3>2, <3>7, <1>6 DEF BlinkTypeOK, Structures
    <3>10. node' \in [Cells -> Structures]
      BY <3>2, <3>7, <1>6 DEF BlinkTypeOK, Structures
    <3> QED
      BY <3>1, <3>2, <3>8, <3>9, <3>10, <1>4
  <2> QED
    BY <2>1, <2>2
<1> DEFINE s == Without(List, k)
<1>8. /\ Chain(s, mp1_list_head', node')
      /\ ToSet(s) = ToSet(List) \ {List[k]}
  <2>1. Chain(List, mp1_list_head, node)
    BY <1>3
  <2>2. /\ k = 1 => mp1_list_head' = node[List[k]].next
        /\ k # 1 => mp1_list_head' = mp1_list_head
    BY <1>7
  <2>3. \A i \in 1 .. Len(List) :
          /\ i + 1 = k => node'[List[i]].next = node[List[k]].next
          /\ i + 1 # k => node'[List[i]].next = node[List[i]].next
    BY <1>7
  <2>4. Chain(s, mp1_list_head', node')
    BY <2>1, <2>2, <2>3, ChainShorter
  <2>5. ToSet(s) = ToSet(List) \ {List[k]}
    BY <1>3, OthersStay
  <2> QED
    BY <2>4, <2>5
<1> HIDE DEF s
<1>9. Chain(List', mp1_list_head', node')
  BY <1>8, NewList
<1>10. Listed' = Listed \ {c}
  BY <1>4, <1>8, NewList DEF Listed
<1>11. BlinkTypeOK'
  BY <1>1, <1>2, <1>6, <1>7 DEF BlinkTypeOK
<1> QED
  BY <1>1, <1>2, <1>9, <1>10, <1>11 DEF BlinkInv

LEMMA SyncKeepsList ==
  ASSUME BlinkInv, SyncStep
  PROVE  BlinkInv'
<1> USE DEF BlinkTypeOK
<1>1. CASE \E first, second \in Locations : Sync(first, second)
  <2>1. PICK first \in Locations, second \in Locations : Sync(first, second)
    BY <1>1
  <2>2. /\ eip = "idle" /\ eip' = "lengths" /\ esi' \in Cells /\ edi' \in Cells
        /\ UNCHANGED << mp1_list_head, node, allocated, screen, bx >>
    BY <2>1 DEF Sync
  <2>3. Chain(List', mp1_list_head', node') /\ Listed' = Listed
    BY <2>2, SameList
  <2> QED
    BY <2>2, <2>3 DEF BlinkInv
<1>2. CASE CopyLengths
  <2>1. /\ eip = "lengths" /\ eip' = "load countdown" /\ esi \in Cells /\ edi \in Cells
        /\ UNCHANGED << mp1_list_head, allocated, screen, esi, edi, bx >>
    BY <1>2 DEF CopyLengths, registers, BlinkInv
  <2>2. /\ node' \in [Cells -> Structures]
        /\ \A c \in Cells : node'[c].next = node[c].next
    BY <1>2, <2>1 DEF CopyLengths, BlinkInv, Structures
  <2>3. Chain(List', mp1_list_head', node') /\ Listed' = Listed
    BY <2>1, <2>2, SameList DEF BlinkInv
  <2> QED
    BY <2>1, <2>2, <2>3 DEF BlinkInv
<1>3. CASE StoreCountdown
  <2>1. /\ eip = "store countdown" /\ eip' = "load status" /\ esi \in Cells /\ edi \in Cells
        /\ UNCHANGED << mp1_list_head, allocated, screen, esi, edi, bx >>
    BY <1>3 DEF StoreCountdown, registers, BlinkInv
  <2>2. /\ node' \in [Cells -> Structures]
        /\ \A c \in Cells : node'[c].next = node[c].next
    BY <1>3, <2>1 DEF StoreCountdown, BlinkInv, Structures
  <2>3. Chain(List', mp1_list_head', node') /\ Listed' = Listed
    BY <2>1, <2>2, SameList DEF BlinkInv
  <2> QED
    BY <2>1, <2>2, <2>3 DEF BlinkInv
<1>4. CASE StoreStatus
  <2>1. /\ eip = "store status" /\ eip' = "load char" /\ esi \in Cells /\ edi \in Cells
        /\ bx \in {0, 1}
        /\ UNCHANGED << mp1_list_head, allocated, screen, esi, edi, bx >>
    BY <1>4 DEF StoreStatus, registers, BlinkInv
  <2>2. /\ node' \in [Cells -> Structures]
        /\ \A c \in Cells : node'[c].next = node[c].next
    BY <1>4, <2>1 DEF StoreStatus, BlinkInv, Structures
  <2>3. Chain(List', mp1_list_head', node') /\ Listed' = Listed
    BY <2>1, <2>2, SameList DEF BlinkInv
  <2> QED
    BY <2>1, <2>2, <2>3 DEF BlinkInv
<1>5. ASSUME NEW at, NEW value, NEW then, Load(at, value, then),
             at \in {"load countdown", "load status", "load char"},
             then \in {"store countdown", "store status", "poke"},
             esi \in Cells => value \in 0 .. Width - 1,
             then # "store countdown" => value \in {0, 1}
      PROVE  BlinkInv'
  <2>1. /\ eip = at /\ eip' = then /\ bx' = value /\ esi \in Cells /\ edi \in Cells
        /\ UNCHANGED << mp1_list_head, node, allocated, screen, esi, edi >>
    BY <1>5 DEF Load, BlinkInv
  <2>2. Chain(List', mp1_list_head', node') /\ Listed' = Listed
    BY <2>1, SameList
  <2> QED
    BY <2>1, <2>2, <1>5 DEF BlinkInv
<1>6. /\ \A c \in Cells : node[c].countdown \in 0 .. Width - 1 /\ node[c].status \in {0, 1}
      /\ {0, 1} \subseteq 0 .. Width - 1
  <2>1. \A c \in Cells : node[c].countdown \in 0 .. Width - 1 /\ node[c].status \in {0, 1}
    BY DEF BlinkInv, Structures
  <2>2. {0, 1} \subseteq 0 .. Width - 1
    BY BlinkListAssumption
  <2> QED
    BY <2>1, <2>2
<1>7. CASE Load("load countdown", node[esi].countdown, "store countdown")
  BY <1>5, <1>6, <1>7
<1>8. CASE Load("load status", node[esi].status, "store status")
  <2>1. esi \in Cells
    BY <1>8 DEF Load, BlinkInv
  <2> QED
    BY <1>5, <1>6, <1>8, <2>1
<1>9. CASE Load("load char", node[edi].status, "poke")
  <2>1. edi \in Cells
    BY <1>9 DEF Load, BlinkInv
  <2> QED
    BY <1>5, <1>6, <1>9, <2>1
<1> QED
  BY <1>1, <1>2, <1>3, <1>4, <1>7, <1>8, <1>9 DEF SyncStep

\* The tasklet stores no NEXT.
LEMMA TickKeepsList ==
  ASSUME BlinkInv, Tick
  PROVE  BlinkInv'
<1> USE DEF BlinkTypeOK
<1>1. /\ node' = [c \in Cells |-> IF c \in Listed THEN Ticked(node[c]) ELSE node[c]]
      /\ screen' = [l \in Locations |->
           IF \E c \in Listed : LastPoke(c, l)
           THEN 1 - node[CHOOSE c \in Listed : LastPoke(c, l)].status
           ELSE screen[l]]
      /\ UNCHANGED << mp1_list_head, allocated, eip, esi, edi, bx >>
  BY DEF Tick, registers
<1>2. ASSUME NEW c \in Cells
      PROVE  /\ node'[c] \in Structures /\ node'[c].next = node[c].next
             /\ node'[c].location = node[c].location
  <2>1. node[c] \in Structures
    BY DEF BlinkInv
  <2>2. CountedDown(node[c]) \in 0 .. Width - 1
    BY <2>1, BlinkListAssumption DEF CountedDown, Structures
  <2>3. /\ Ticked(node[c]) \in Structures /\ Ticked(node[c]).next = node[c].next
        /\ Ticked(node[c]).location = node[c].location
    <3>1. node[c].on_length \in 0 .. Width - 1 /\ node[c].off_length \in 0 .. Width - 1
      BY <2>1, BlinkListAssumption DEF Structures
    <3>2. 1 - node[c].status \in {0, 1}
      BY <2>1 DEF Structures
    <3> DEFINE n == IF node[c].status = 0 THEN node[c].on_length ELSE node[c].off_length
    <3>3. n \in 0 .. Width - 1
      BY <3>1
    <3> HIDE DEF n
    <3>4. /\ [node[c] EXCEPT !.countdown = CountedDown(node[c])] \in Structures
          /\ [node[c] EXCEPT !.countdown = CountedDown(node[c])].next = node[c].next
          /\ [node[c] EXCEPT !.countdown = CountedDown(node[c])].location = node[c].location
      BY <2>1, <2>2 DEF Structures
    <3>5. /\ [node[c] EXCEPT !.status = 1 - node[c].status, !.countdown = n] \in Structures
          /\ [node[c] EXCEPT !.status = 1 - node[c].status, !.countdown = n].next = node[c].next
          /\ [node[c] EXCEPT !.status = 1 - node[c].status, !.countdown = n].location
               = node[c].location
      BY <2>1, <3>2, <3>3 DEF Structures
    <3> QED
      BY <3>4, <3>5 DEF Ticked, n
  <2> QED
    BY <1>1, <2>1, <2>3
<1>3. \A c \in Cells : node[c].status \in {0, 1}
  BY DEF BlinkInv, Structures
<1>4. Listed \subseteq Cells
  BY DEF BlinkInv
<1>5. screen' \in [Locations -> 0 .. 2]
  <2>1. ASSUME NEW l \in Locations
        PROVE  screen'[l] \in 0 .. 2
    <3>1. CASE \E c \in Listed : LastPoke(c, l)
      <4>1. (CHOOSE c \in Listed : LastPoke(c, l)) \in Cells
        BY <3>1, <1>4
      <4> QED
        BY <3>1, <4>1, <1>1, <1>3
    <3>2. CASE ~ \E c \in Listed : LastPoke(c, l)
      BY <3>2, <1>1 DEF BlinkInv
    <3> QED
      BY <3>1, <3>2
  <2> QED
    BY <1>1, <2>1
<1>6. node' \in [Cells -> Structures]
  BY <1>1, <1>2
<1>7. Chain(List', mp1_list_head', node') /\ Listed' = Listed
  BY <1>1, <1>2, <1>4, SameList
<1>8. BlinkTypeOK'
  BY <1>1, <1>5, <1>6 DEF BlinkInv
<1> QED
  BY <1>1, <1>2, <1>4, <1>7, <1>8 DEF BlinkInv

LEMMA BlinkStep ==
  ASSUME BlinkInv, [BlinkNext]_blinkVars
  PROVE  BlinkInv' \/ LostInv'
<1>1. CASE UNCHANGED blinkVars
  <2>1. UNCHANGED << mp1_list_head, node, allocated, screen, eip, esi, edi, bx >>
    BY <1>1 DEF blinkVars, registers
  <2>2. Chain(List', mp1_list_head', node') /\ Listed' = Listed
    BY <2>1, SameList
  <2> QED
    BY <2>1, <2>2 DEF BlinkInv, BlinkTypeOK
<1>2. CASE Free
  BY <1>2, FreeKeepsList, FreeLosesList
<1>3. ~Lost
  BY DEF Lost, BlinkInv
<1> QED
  BY <1>1, <1>2, <1>3, AddKeepsList, LinkKeepsList, CheckKeepsList, PokeKeepsList,
     UnlinkKeepsList, SyncKeepsList, TickKeepsList DEF BlinkNext

\* The model goes no further than that.
LEMMA LostStep ==
  ASSUME LostInv, [BlinkNext]_blinkVars
  PROVE  LostInv'
<1>1. eip = "lost"
  BY DEF LostInv
<1>2. UNCHANGED blinkVars
  BY <1>1 DEF BlinkNext, Add, Link, Check, Free, Poke, Unlink, SyncStep, Sync, CopyLengths,
     Load, StoreCountdown, StoreStatus, Tick, Lost
<1>3. UNCHANGED << mp1_list_head, node, allocated, screen, eip, esi, edi, bx >>
  BY <1>2 DEF blinkVars, registers
<1>4. Listed' = Listed
  <2>1. Path(mp1_list_head, node)' = Path(mp1_list_head, node)
    BY <1>3 DEF Path
  <2> QED
    BY <2>1 DEF Listed, List
<1> QED
  BY <1>3, <1>4 DEF LostInv, BlinkTypeOK

LEMMA ListIsSound == BlinkInv => BlinkListInv
<1> SUFFICES ASSUME BlinkInv PROVE BlinkListInv
  OBVIOUS
<1>1. Chain(List, mp1_list_head, node)
  BY DEF BlinkInv
<1>2. DOMAIN List = 1 .. Len(List)
  BY <1>1 DEF Chain
<1>3. IsInjective(List)
  BY <1>1, <1>2 DEF Chain, IsInjective
<1>4. List # << >> => node[Last(List)].next = Null
  BY <1>1 DEF Chain, Last
<1> QED
  BY <1>3, <1>4 DEF BlinkInv, BlinkListInv, ListSound

(***************************************************************************)
(* mp1_rtc_tasklet may interrupt mp1_ioctl_add, mp1_ioctl_remove and       *)
(* mp1_ioctl_sync after any store: it finds a list that ends, of           *)
(* structures that are allocated, and none is ever lost.  Only a structure *)
(* off the screen can end that: mp1_ioctl_add frees what it refuses        *)
(* without taking it off the list (mp1.S:160).                             *)
(***************************************************************************)
THEOREM BlinkListStaysSound == BlinkSpec => []BlinkListInv
<1>1. BlinkInit => BlinkInv
  BY FreshList
<1>2. (BlinkInv \/ LostInv) /\ [BlinkNext]_blinkVars => (BlinkInv \/ LostInv)'
  BY BlinkStep, LostStep
<1>3. BlinkInv \/ LostInv => BlinkListInv
  BY ListIsSound DEF LostInv, BlinkListInv
<1> QED
  BY <1>1, <1>2, <1>3, PTL DEF BlinkSpec

-----------------------------------------------------------------------------
(* mp2: the Tux driver.                                                    *)

USE SizesAssumption

-----------------------------------------------------------------------------
(* Sequences, and the parts the rings are moved in.  *)

\* A sequence is cut into its first bytes and the rest.
LEMMA Parts ==
  ASSUME NEW S, NEW s \in Seq(S), NEW n \in Nat
  PROVE  /\ First(n, s) \in Seq(S) /\ After(n, s) \in Seq(S)
         /\ Len(First(n, s)) = Least(n, Len(s))
         /\ Len(After(n, s)) = Len(s) - Least(n, Len(s))
         /\ \A i \in 1 .. Least(n, Len(s)) : First(n, s)[i] = s[i]
         /\ \A i \in 1 .. Len(s) - n : After(n, s)[i] = s[n + i]
<1>1. Len(s) \in Nat
  OBVIOUS
<1>2. Least(n, Len(s)) \in 0 .. Len(s)
  BY <1>1 DEF Least
<1>3. CASE n =< Len(s)
  <2>1. Least(n, Len(s)) = n
    BY <1>1, <1>3 DEF Least
  <2>2. First(n, s) = SubSeq(s, 1, n) /\ After(n, s) = SubSeq(s, n + 1, Len(s))
    BY <2>1 DEF First, After
  <2>3. /\ SubSeq(s, 1, n) \in Seq(S) /\ Len(SubSeq(s, 1, n)) = n
        /\ \A i \in 1 .. n : SubSeq(s, 1, n)[i] = s[i]
    BY <1>1, <1>3
  <2>4. /\ SubSeq(s, n + 1, Len(s)) \in Seq(S) /\ Len(SubSeq(s, n + 1, Len(s))) = Len(s) - n
        /\ \A i \in 1 .. Len(s) - n : SubSeq(s, n + 1, Len(s))[i] = s[n + i]
    BY <1>1, <1>3
  <2> QED
    BY <2>1, <2>2, <2>3, <2>4
<1>4. CASE n > Len(s)
  <2>1. After(n, s) = << >>
    BY <1>1, <1>4 DEF After
  <2> QED
    BY <1>1, <1>2, <1>4, <2>1 DEF First, Least
<1> QED
  BY <1>1, <1>3, <1>4

\* The parts put together again are the sequence.
LEMMA Joined ==
  ASSUME NEW S, NEW s \in Seq(S), NEW n \in Nat
  PROVE  First(n, s) \o After(n, s) = s
<1> DEFINE f == First(n, s)
           a == After(n, s)
           k == Least(n, Len(s))
<1>1. Len(s) \in Nat /\ k \in 0 .. Len(s)
  BY DEF Least
<1>2. /\ f \in Seq(S) /\ a \in Seq(S)
      /\ Len(f) = k /\ Len(a) = Len(s) - k
      /\ \A i \in 1 .. k : f[i] = s[i]
      /\ \A i \in 1 .. Len(s) - n : a[i] = s[n + i]
  BY Parts
<1>3. k < Len(s) => k = n
  BY <1>1 DEF Least
<1> HIDE DEF f, a, k
<1>4. f \o a \in Seq(S) /\ Len(f \o a) = Len(s)
  <2>1. f \o a \in Seq(S) /\ Len(f \o a) = Len(f) + Len(a)
    BY <1>2, ConcatProperties
  <2> QED
    BY <1>1, <1>2, <2>1
<1>5. ASSUME NEW i \in 1 .. Len(s)
      PROVE  (f \o a)[i] = s[i]
  <2>1. CASE i =< k
    BY <1>1, <1>2, <2>1
  <2>2. CASE ~(i =< k)
    <3>1. k = n /\ i - n \in 1 .. Len(s) - n
      BY <1>1, <1>3, <2>2
    <3>2. a[i - n] = s[n + (i - n)]
      BY <1>2, <3>1
    <3>3. (f \o a)[i] = a[i - n]
      BY <1>1, <1>2, <2>2, <3>1
    <3> QED
      BY <1>1, <3>1, <3>2, <3>3
  <2> QED
    BY <2>1, <2>2
<1> QED
  BY <1>4, <1>5, SeqEqual DEF f, a

\* A ring takes bytes while it has room.
LEMMA RingFilled ==
  ASSUME NEW ring \in Seq(Byte), Len(ring) < TUXCTL_BUFSIZE,
         NEW bytes \in Seq(Byte)
  PROVE  /\ BufRoom(ring) \in Nat
         /\ Fill(ring, bytes) \in Seq(Byte)
         /\ Len(Fill(ring, bytes)) = Len(ring) + Least(BufRoom(ring), Len(bytes))
         /\ Len(Fill(ring, bytes)) < TUXCTL_BUFSIZE
<1>1. BufRoom(ring) \in Nat
  BY DEF BufRoom
<1>2. /\ First(BufRoom(ring), bytes) \in Seq(Byte)
      /\ Len(First(BufRoom(ring), bytes)) = Least(BufRoom(ring), Len(bytes))
  BY <1>1, Parts
<1>3. /\ Fill(ring, bytes) \in Seq(Byte)
      /\ Len(Fill(ring, bytes)) = Len(ring) + Least(BufRoom(ring), Len(bytes))
  BY <1>2 DEF Fill
<1>4. /\ Least(BufRoom(ring), Len(bytes)) \in Nat
      /\ Least(BufRoom(ring), Len(bytes)) =< TUXCTL_BUFSIZE - Len(ring) - 1
  <2>1. BufRoom(ring) = TUXCTL_BUFSIZE - Len(ring) - 1 /\ Len(bytes) \in Nat
    BY DEF BufRoom
  <2> QED
    BY <1>1, <2>1 DEF Least
<1> QED
  BY <1>1, <1>3, <1>4

\* The serial driver's queue takes what fits.
LEMMA SentFits ==
  ASSUME NEW w \in Seq(Byte), Len(w) =< Xmit, NEW bytes \in Seq(Byte)
  PROVE  /\ Sent(w, bytes) \in Seq(Byte) /\ Len(Sent(w, bytes)) =< Xmit
         /\ Len(w) =< Len(Sent(w, bytes))
         /\ WriteRoom(w) \in 0 .. Xmit
<1>1. Xmit - Len(w) \in Nat
  OBVIOUS
<1>2. /\ First(Xmit - Len(w), bytes) \in Seq(Byte)
      /\ Len(First(Xmit - Len(w), bytes)) = Least(Xmit - Len(w), Len(bytes))
  BY <1>1, Parts
<1> QED
  BY <1>1, <1>2 DEF Sent, WriteRoom, Least

\* The way out, as a record.
Ports == {p \in [tx : Seq(Byte), wire : Seq(Byte), over : BOOLEAN] :
             Len(p.tx) < TUXCTL_BUFSIZE /\ Len(p.wire) =< Xmit}

LEMMA WokenPort ==
  ASSUME NEW p \in Ports
  PROVE  Woken(p) \in Ports
<1> DEFINE n == Popped(WriteRoom(p.wire), p.tx)
<1>1. n \in Nat
  BY SentFits DEF Popped, Least, Ports, WriteRoom
<1>2. /\ First(n, p.tx) \in Seq(Byte) /\ After(n, p.tx) \in Seq(Byte)
      /\ Len(After(n, p.tx)) =< Len(p.tx)
  <2> HIDE DEF n
  <2> QED
    BY <1>1, Parts DEF Ports, Least
<1>3. /\ Sent(p.wire, First(n, p.tx)) \in Seq(Byte)
      /\ Len(Sent(p.wire, First(n, p.tx))) =< Xmit
  <2> HIDE DEF n
  <2> QED
    BY <1>2, SentFits DEF Ports
<1>4. Woken(p) = [tx |-> After(n, p.tx), wire |-> Sent(p.wire, First(n, p.tx)),
                  over |-> p.over \/ n > WriteRoom(p.wire)]
  BY DEF Woken
<1> HIDE DEF n
<1>5. Len(After(n, p.tx)) < TUXCTL_BUFSIZE
  BY <1>2 DEF Ports
<1> QED
  BY <1>2, <1>3, <1>4, <1>5 DEF Ports

LEMMA PutPort ==
  ASSUME NEW p \in Ports, NEW bytes \in Seq(Byte)
  PROVE  Put(p, bytes) \in Ports
<1>1. [tx |-> Fill(p.tx, bytes), wire |-> p.wire, over |-> p.over] \in Ports
  BY RingFilled DEF Ports
<1> QED
  BY <1>1, WokenPort DEF Put

LEMMA RestoredPort ==
  ASSUME NEW p \in Ports, buffer \in Seq(Byte)
  PROVE  Restored(p) \in Ports
<1>1. << MTCP_BIOC_ON >> \in Seq(Byte) /\ << MTCP_LED_USR >> \in Seq(Byte)
  BY DEF MTCP_BIOC_ON, MTCP_LED_USR, Byte
<1>2. Put(p, << MTCP_BIOC_ON >>) \in Ports
  BY <1>1, PutPort
<1>3. Put(Put(p, << MTCP_BIOC_ON >>), << MTCP_LED_USR >>) \in Ports
  BY <1>1, <1>2, PutPort
<1> QED
  BY <1>3, PutPort DEF Restored

-----------------------------------------------------------------------------
(* Where the caller is, and what the controller has gathered.  *)

\* A command to the controller, whole: MTCP_LED_SET says how many bytes follow.
Command(c) ==
    /\ c \in Seq(Byte)
    /\ \/ c = << MTCP_BIOC_ON >> \/ c = << MTCP_LED_USR >>
       \/ Len(c) = LED_BUFF_SIZE /\ c[1] = MTCP_LED_SET /\ c[2] = AllLeds

\* What the ioctl in progress still has to do, and the LED command it stored.
Calling ==
    /\ pc # "write" => chunk = << >>
    /\ pc # "fill" => stored = 0
    /\ pc = "idle" => todo = << >> /\ arg = << >>
    /\ pc \in {"fill", "flag"} => arg # << >>
    /\ pc = "fill" => stored < LED_BUFF_SIZE
    /\ pc = "put" => todo # << >>
    /\ \A i \in 1 .. Len(todo) : Command(todo[i])
    /\ arg # << >> =>
         /\ Command(arg) /\ Len(arg) = LED_BUFF_SIZE
         /\ \A j \in 1 .. stored : buffer[j] = arg[j]
         /\ pc # "fill" => buffer = arg /\ todo = IF pc = "put" THEN << arg >> ELSE << >>
    /\ buffer[1] \in {0, MTCP_LED_SET} /\ buffer[2] \in {0, AllLeds}

\* The controller gathers nothing but LED commands, and carries them out as
\* soon as they are whole.
Gathering ==
    device.got # << >> => /\ device.got[1] = MTCP_LED_SET
                          /\ \/ Len(device.got) = 1
                             \/ Len(device.got) < 2 + Bits(device.got[2])

TypeInv == TypeOK /\ Calling /\ Gathering

LEMMA Constants ==
  /\ NLeds \in 1 .. 4 /\ LED_BUFF_SIZE = NLeds + 2
  /\ LED_BUFF_SIZE + 1 < TUXCTL_BUFSIZE
  /\ AllLeds \in {1, 3, 7, 15}
  /\ Presses \subseteq (0 .. 15) \X (0 .. 15) /\ << 0, 0 >> \in Presses
<1>1. /\ NLeds \in 1 .. 4 /\ TUXCTL_BUFSIZE > NLeds + 3
      /\ Presses \subseteq (0 .. 15) \X (0 .. 15) /\ << 0, 0 >> \in Presses
  BY TuxAssumption
<1>2. AllLeds \in {1, 3, 7, 15}
  BY <1>1 DEF AllLeds
<1> QED
  BY <1>1, <1>2 DEF LED_BUFF_SIZE

\* The LED command of an argument is a command.
LEMMA LedCommandWhole ==
  ASSUME NEW leds \in Shown
  PROVE  Command(LedCommand(leds)) /\ Len(LedCommand(leds)) = LED_BUFF_SIZE
<1>1. \A i \in 1 .. NLeds : LedByte(leds[i]) \in Byte
  <2> SUFFICES ASSUME NEW i \in 1 .. NLeds
               PROVE  LedByte(leds[i]) \in Byte
    OBVIOUS
  <2>1. leds[i] \in [on : BOOLEAN, digit : 0 .. 15, point : BOOLEAN]
    BY TuxAssumption
  <2>2. \A d \in 0 .. 15 : ledmap[d + 1] \in 0 .. 239
    BY DEF ledmap
  <2>3. /\ ledmap[leds[i].digit + 1] \in 0 .. 239
        /\ leds[i].on \in BOOLEAN /\ leds[i].point \in BOOLEAN
    BY <2>1, <2>2
  <2> DEFINE segments == IF leds[i].on THEN ledmap[leds[i].digit + 1] ELSE 0
             point    == IF leds[i].point THEN DecPoint ELSE 0
  <2>4. segments \in 0 .. 239 /\ point \in 0 .. 16
    <3> HIDE DEF segments, point
    <3>1. segments \in 0 .. 239
      BY <2>3 DEF segments
    <3>2. point \in 0 .. 16
      BY <2>3 DEF point, DecPoint
    <3> QED
      BY <3>1, <3>2
  <2>5. LedByte(leds[i]) = segments + point
    BY DEF LedByte
  <2> HIDE DEF segments, point
  <2> QED
    BY <2>4, <2>5 DEF Byte
<1>2. /\ [i \in 1 .. NLeds |-> LedByte(leds[i])] \in Seq(Byte)
      /\ Len([i \in 1 .. NLeds |-> LedByte(leds[i])]) = NLeds
  BY <1>1, Constants
<1>3. << MTCP_LED_SET, AllLeds >> \in Seq(Byte)
  BY Constants DEF MTCP_LED_SET, Byte
<1> QED
  BY <1>2, <1>3, Constants DEF LedCommand, Command

-----------------------------------------------------------------------------
(* Types.  *)

LEMMA TypeInit == Init => TypeInv
<1> SUFFICES ASSUME Init
             PROVE  TypeInv
  OBVIOUS
<1>1. TypeOK
  <2>1. /\ NoLeds \in [1 .. NLeds -> Byte]
        /\ [i \in 1 .. LED_BUFF_SIZE |-> 0] \in [1 .. LED_BUFF_SIZE -> Byte]
        /\ [opens |-> 0, ioctls |-> 0, presses |-> 0, resets |-> 0] \in Counts
    BY TuxAssumption DEF NoLeds, Byte, Counts
  <2>2. LED_BUFF_SIZE \in Nat /\ << 0, 0 >> \in Presses
    BY Constants
  <2>3. device \in Device
    <3>1. device = [got |-> << >>, leds |-> NoLeds, user |-> FALSE,
                    bioc |-> FALSE, pressed |-> << 0, 0 >>, locked |-> FALSE]
      BY DEF Init
    <3>2. << >> \in Seq(Byte)
      OBVIOUS
    <3> HIDE DEF NoLeds
    <3> QED
      BY <2>1, <2>2, <3>1, <3>2 DEF Device
  <2>4. LineOK /\ CallerOK
    BY <2>2 DEF Init, LineOK, CallerOK
  <2>5. DriverOK /\ SeenOK
    <3>1. buffer \in [1 .. LED_BUFF_SIZE -> Byte]
      BY <2>1 DEF Init
    <3>2. buttons \in (0 .. 15) \X (0 .. 15)
      BY DEF Init
    <3>3. lost \in 0 .. 2
      BY DEF Init
    <3>4. /\ open \in BOOLEAN /\ spam \in BOOLEAN /\ over \in BOOLEAN
          /\ burst \in BOOLEAN /\ early \in BOOLEAN /\ ready \in BOOLEAN
          /\ raced \in BOOLEAN
      BY Zenon DEF Init
    <3> QED
      BY <3>1, <3>2, <3>3, <3>4 DEF DriverOK, SeenOK
  <2> QED
    BY <2>1, <2>3, <2>4, <2>5 DEF Init, TypeOK
<1>2. Calling
  BY Constants DEF Init, Calling
<1>3. Gathering
  BY DEF Init, Gathering
<1> QED
  BY <1>1, <1>2, <1>3 DEF TypeInv

\* What a receive call puts into the ring, and what the callback fetches.
LEMMA ReceiveTypes ==
  ASSUME TypeOK, NEW k \in Nat, k =< Len(line), ~Framing
  PROVE  LET ring == Fill(rx, First(k, line))
         IN  /\ ring \in Seq(Byte) /\ Len(ring) < TUXCTL_BUFSIZE
             /\ Len(ring) = Len(rx) + Least(BufRoom(rx), k)
             /\ BufRoom(rx) \in Nat
             /\ Fetch(packet) \in Nat /\ Fetch(packet) >= PacketRoom - 2
             /\ Left(packet, ring) \in Seq(Byte)
             /\ Len(Left(packet, ring)) =< Len(ring)
             /\ Len(Left(packet, ring)) = Len(ring) - Least(Fetch(packet), Len(ring))
             /\ Taken(packet, ring) \in Seq(Byte)
             /\ Len(Taken(packet, ring)) =< PacketRoom
             /\ After(k, line) \in Seq(Byte)
<1> DEFINE ring == Fill(rx, First(k, line))
<1>1. /\ line \in Seq(Byte) /\ rx \in Seq(Byte) /\ Len(rx) < TUXCTL_BUFSIZE
      /\ packet \in Seq(Byte) /\ Len(packet) =< 2
  BY DEF TypeOK, LineOK, Framing
<1>2. /\ First(k, line) \in Seq(Byte) /\ Len(First(k, line)) = k
      /\ After(k, line) \in Seq(Byte)
  <2>1. Least(k, Len(line)) = k
    BY <1>1 DEF Least
  <2> QED
    BY <1>1, <2>1, Parts
<1>3. /\ ring \in Seq(Byte) /\ Len(ring) < TUXCTL_BUFSIZE /\ BufRoom(rx) \in Nat
      /\ Len(ring) = Len(rx) + Least(BufRoom(rx), k)
  BY <1>1, <1>2, RingFilled
<1>4. Fetch(packet) \in Nat /\ Fetch(packet) = PacketRoom - Len(packet)
  BY <1>1 DEF Fetch
<1> HIDE DEF ring
<1>5. /\ First(Fetch(packet), ring) \in Seq(Byte)
      /\ Len(First(Fetch(packet), ring)) = Least(Fetch(packet), Len(ring))
      /\ After(Fetch(packet), ring) \in Seq(Byte)
      /\ Len(After(Fetch(packet), ring)) = Len(ring) - Least(Fetch(packet), Len(ring))
  BY <1>3, <1>4, Parts
<1>6. /\ Least(Fetch(packet), Len(ring)) =< Fetch(packet)
      /\ Least(Fetch(packet), Len(ring)) \in Nat
  <2>1. Len(ring) \in Nat
    BY <1>3
  <2> QED
    BY <1>4, <2>1 DEF Least
<1>7. /\ Taken(packet, ring) \in Seq(Byte)
      /\ Len(Taken(packet, ring)) =< PacketRoom
  <2>1. /\ Taken(packet, ring) \in Seq(Byte)
        /\ Len(Taken(packet, ring)) = Len(packet) + Len(First(Fetch(packet), ring))
    BY <1>1, <1>5, ConcatProperties DEF Taken
  <2> QED
    BY <1>1, <1>4, <1>5, <1>6, <2>1
<1>8. Len(After(Fetch(packet), ring)) =< Len(ring)
  <2>1. Len(ring) \in Nat
    BY <1>3
  <2> QED
    BY <1>5, <1>6, <2>1
<1>9. Fetch(packet) >= PacketRoom - 2
  BY <1>1, <1>4
<1> QED
  BY <1>2, <1>3, <1>4, <1>5, <1>7, <1>8, <1>9 DEF ring, Left

LEMMA Bounds == {MaxOpens, MaxIoctls, MaxPresses, MaxResets} \subseteq Nat
BY TuxAssumption

\* Attaching and detaching.
LEMMA OpenTypes == TypeInv /\ (Open \/ Close) => TypeInv'
<1> SUFFICES ASSUME TypeInv, Open \/ Close
             PROVE  TypeInv'
  OBVIOUS
<1>1. TypeOK /\ Calling /\ Gathering
  BY DEF TypeInv
<1>2. /\ UNCHANGED << packet, spam, buttons, buffer, caller, cables, device,
                      over, burst, early, ready, raced >>
      /\ rx' = << >> /\ tx' = << >> /\ open' \in BOOLEAN
  BY DEF Open, Close, seen
<1>3. Len(rx) \in Nat
  BY <1>1 DEF TypeOK, LineOK
<1>4. lost' \in 0 .. 2
  <2>1. CASE Open
    BY <1>1, <2>1 DEF Open, seen, TypeOK, SeenOK
  <2>2. CASE Close
    BY <1>1, <1>3, <2>2 DEF Close, Missed, Least, TypeOK, SeenOK
  <2> QED
    BY <2>1, <2>2
<1>5. count' \in Counts
  <2>1. CASE Open
    <3>1. /\ count \in Counts /\ count.opens < MaxOpens
          /\ count' = [count EXCEPT !.opens = @ + 1]
      BY <1>1, <2>1 DEF Open, TypeOK
    <3>2. count.opens \in 0 .. MaxOpens /\ MaxOpens \in Nat
      BY <3>1, Bounds DEF Counts
    <3>3. count.opens + 1 \in 0 .. MaxOpens
      BY <3>1, <3>2
    <3> QED
      BY <3>1, <3>3 DEF Counts
  <2>2. CASE Close
    BY <1>1, <2>2 DEF Close, TypeOK
  <2> QED
    BY <2>1, <2>2
<1>6. LineOK'
  BY <1>1, <1>2 DEF TypeOK, LineOK, cables
<1>7. CallerOK' /\ Calling'
  BY <1>1, <1>2 DEF TypeOK, CallerOK, caller, Calling
<1>8. DriverOK' /\ SeenOK'
  BY <1>1, <1>2, <1>4 DEF TypeOK, DriverOK, SeenOK
<1> QED
  BY <1>1, <1>2, <1>5, <1>6, <1>7, <1>8 DEF TypeInv, TypeOK, Gathering

LEMMA ReceiveKeepsTypes == ASSUME NEW k \in Chunks, ~Framing, TypeInv, Receive(k)
                      PROVE  TypeInv'
<1>1. TypeOK /\ Calling /\ Gathering
  BY DEF TypeInv
<1>2. k \in Nat /\ k =< Len(line)
  BY TuxAssumption DEF Receive
<1>3. /\ UNCHANGED << open, spam, buttons, buffer, caller, wire, device,
                      over, early, ready, raced, count, tx >>
      /\ line' = After(k, line)
  BY DEF Receive, rings
<1>4. /\ rx' \in Seq(Byte) /\ Len(rx') < TUXCTL_BUFSIZE
      /\ packet' \in Seq(Byte) /\ Len(packet') =< PacketRoom
      /\ lost' \in 0 .. 2 /\ burst' \in BOOLEAN
  <2>1. CASE ~open
    BY <1>1, <1>2, <2>1 DEF Receive, rings, Missed, Least, TypeOK, LineOK, SeenOK
  <2>2. CASE open
    <3> DEFINE ring == Fill(rx, First(k, line))
    <3>1. /\ rx' = Left(packet, ring) /\ packet' = Taken(packet, ring)
          /\ lost' = Least(2, lost + (k - (Len(ring) - Len(rx))))
          /\ burst' = (burst \/ k > PacketRoom - 2)
      BY <2>2 DEF Receive, Missed
    <3>2. /\ Left(packet, ring) \in Seq(Byte)
          /\ Len(Left(packet, ring)) =< Len(ring) /\ Len(ring) < TUXCTL_BUFSIZE
          /\ Taken(packet, ring) \in Seq(Byte)
          /\ Len(Taken(packet, ring)) =< PacketRoom
          /\ Len(ring) = Len(rx) + Least(BufRoom(rx), k) /\ BufRoom(rx) \in Nat
      BY <1>1, <1>2, ReceiveTypes
    <3> HIDE DEF ring
    <3>3. k - (Len(ring) - Len(rx)) \in Nat
      <4>1. Len(rx) \in Nat
        BY <1>1 DEF TypeOK, LineOK
      <4>2. Least(BufRoom(rx), k) \in 0 .. k
        BY <1>2, <3>2 DEF Least
      <4> QED
        BY <1>2, <3>2, <4>1, <4>2
    <3>4. lost' \in 0 .. 2
      BY <1>1, <3>1, <3>3 DEF Least, TypeOK, SeenOK
    <3>5. burst' \in BOOLEAN
      BY <3>1
    <3>6. Len(Left(packet, ring)) \in Nat /\ Len(ring) \in Nat
      BY <1>1, <3>2, <1>2, <3>3 DEF TypeOK, LineOK, Least
    <3> QED
      BY <3>1, <3>2, <3>4, <3>5, <3>6
  <2> QED
    BY <1>1, <2>1, <2>2 DEF TypeOK, DriverOK
<1>5. line' \in Seq(Byte)
  BY <1>1, <1>2, <1>3, ReceiveTypes
<1>6. LineOK'
  BY <1>1, <1>3, <1>4, <1>5 DEF TypeOK, LineOK
<1>7. CallerOK' /\ Calling'
  BY <1>1, <1>3 DEF TypeOK, CallerOK, caller, Calling
<1>8. DriverOK' /\ SeenOK'
  BY <1>1, <1>3, <1>4 DEF TypeOK, DriverOK, SeenOK
<1> QED
  BY <1>1, <1>3, <1>6, <1>7, <1>8 DEF TypeInv, TypeOK, Gathering

LEMMA BufferIsSeq ==
  ASSUME TypeOK
  PROVE  buffer \in Seq(Byte) /\ Len(buffer) = LED_BUFF_SIZE
BY Constants DEF TypeOK, DriverOK

LEMMA PortIsPort == ASSUME TypeOK PROVE Port \in Ports
BY DEF TypeOK, LineOK, SeenOK, Port, Ports

\* A packet handled, a byte passed over.
LEMMA FrameKeepsTypes == TypeInv /\ (HandlePacket \/ SkipByte) => TypeInv'
<1> SUFFICES ASSUME TypeInv, HandlePacket \/ SkipByte
             PROVE  TypeInv'
  OBVIOUS
<1>1. TypeOK /\ Calling /\ Gathering
  BY DEF TypeInv
<1>2. /\ packet \in Seq(Byte) /\ Len(packet) > 2 /\ Len(packet) =< PacketRoom
      /\ packet[1] \in Byte /\ packet[2] \in Byte /\ packet[3] \in Byte
  <2>1. /\ packet \in Seq(Byte) /\ Len(packet) =< PacketRoom
        /\ Len(packet) > 2
    BY <1>1 DEF HandlePacket, SkipByte, Framing, TypeOK, LineOK
  <2>2. \A i \in 1 .. Len(packet) : packet[i] \in Byte
    BY <2>1, ElementOfSeq
  <2>3. 1 \in 1 .. Len(packet) /\ 2 \in 1 .. Len(packet) /\ 3 \in 1 .. Len(packet)
    BY <2>1
  <2> QED
    BY <2>1, <2>2, <2>3
<1>3. /\ UNCHANGED << rx, open, buffer, caller, line, device, lost, burst, ready,
                      count >>
  BY DEF HandlePacket, SkipByte, seen, cables
<1>4. packet' \in Seq(Byte) /\ Len(packet') =< PacketRoom
  <2>1. CASE HandlePacket
    <3>1. packet' = After(3, packet)
      BY <2>1 DEF HandlePacket
    <3> QED
      BY <1>2, <3>1, Parts DEF Least
  <2>2. CASE SkipByte
    BY <1>2, <2>2 DEF SkipByte
  <2> QED
    BY <2>1, <2>2
<1>5. /\ tx' \in Seq(Byte) /\ Len(tx') < TUXCTL_BUFSIZE
      /\ wire' \in Seq(Byte) /\ Len(wire') =< Xmit /\ over' \in BOOLEAN
  <2>1. CASE HandlePacket
    <3>1. \E p \in Ports : tx' = p.tx /\ wire' = p.wire /\ over' = p.over
      BY <1>1, <2>1, PortIsPort, RestoredPort, BufferIsSeq DEF HandlePacket
    <3> QED
      BY <3>1 DEF Ports
  <2>2. CASE SkipByte
    BY <1>1, <2>2 DEF SkipByte, TypeOK, LineOK, SeenOK, cables, seen
  <2> QED
    BY <2>1, <2>2
<1>6. buttons' \in (0 .. 15) \X (0 .. 15)
  <2>1. \A b \in Byte : 15 - (b % 16) \in 0 .. 15
    BY DEF Byte
  <2>2. << 15 - (packet[2] % 16), 15 - (packet[3] % 16) >> \in (0 .. 15) \X (0 .. 15)
    BY <1>2, <2>1
  <2> QED
    BY <1>1, <2>2 DEF HandlePacket, SkipByte, TypeOK, DriverOK
<1>7. spam' \in BOOLEAN /\ early' \in BOOLEAN /\ raced' \in BOOLEAN
  <2>1. spam \in BOOLEAN /\ early \in BOOLEAN /\ raced \in BOOLEAN
    BY <1>1 DEF TypeOK, DriverOK, SeenOK
  <2>2. CASE HandlePacket
    <3>1. /\ spam' = (spam /\ ~Acknowledged)
          /\ early' = \/ early
                      \/ packet[1] = MTCP_RESET /\ (buffer[1] = 0 \/ buffer[2] = 0)
          /\ raced' = (raced \/ (Acknowledged /\ Unflagged /\ ~AckComing'))
      BY <2>2 DEF HandlePacket
    <3> QED
      BY <3>1, Zenon
  <2>3. CASE SkipByte
    BY <2>1, <2>3 DEF SkipByte, seen
  <2> QED
    BY <2>2, <2>3
<1>8. LineOK'
  BY <1>1, <1>3, <1>4, <1>5 DEF TypeOK, LineOK
<1>9. CallerOK' /\ Calling'
  BY <1>1, <1>3 DEF TypeOK, CallerOK, caller, Calling
<1>10. DriverOK' /\ SeenOK'
  BY <1>1, <1>3, <1>5, <1>6, <1>7 DEF TypeOK, DriverOK, SeenOK
<1> QED
  BY <1>1, <1>3, <1>8, <1>9, <1>10 DEF TypeInv, TypeOK, Gathering

LEMMA WakeupKeepsTypes == TypeInv /\ WriteWakeup => TypeInv'
<1> SUFFICES ASSUME TypeInv, WriteWakeup
             PROVE  TypeInv'
  OBVIOUS
<1>1. TypeOK /\ Calling /\ Gathering
  BY DEF TypeInv
<1>2. UNCHANGED << rx, packet, open, spam, buttons, buffer, caller, line, device,
                   lost, burst, early, ready, raced, count >>
  BY DEF WriteWakeup
<1>3. /\ tx' \in Seq(Byte) /\ Len(tx') < TUXCTL_BUFSIZE
      /\ wire' \in Seq(Byte) /\ Len(wire') =< Xmit /\ over' \in BOOLEAN
  <2>1. Woken(Port) \in Ports
    BY <1>1, PortIsPort, WokenPort
  <2> QED
    BY <2>1 DEF Ports, WriteWakeup
<1>4. LineOK'
  BY <1>1, <1>2, <1>3 DEF TypeOK, LineOK
<1>5. CallerOK' /\ Calling'
  BY <1>1, <1>2 DEF TypeOK, CallerOK, caller, Calling
<1>6. DriverOK' /\ SeenOK'
  BY <1>1, <1>2, <1>3 DEF TypeOK, DriverOK, SeenOK
<1> QED
  BY <1>1, <1>2, <1>4, <1>5, <1>6 DEF TypeInv, TypeOK, Gathering

\* The caller of an ioctl: the commands it stores and sends are whole.
LEMMA StartKeepsTypes ==
  TypeInv /\ (TuxInit \/ \E leds \in Shown : TuxSetLed(leds)) => TypeInv'
<1> SUFFICES ASSUME TypeInv, TuxInit \/ \E leds \in Shown : TuxSetLed(leds)
             PROVE  TypeInv'
  OBVIOUS
<1>1. TypeOK /\ Calling /\ Gathering
  BY DEF TypeInv
<1>2. /\ UNCHANGED << driver, open, buffer, room, chunk, stored, cables, device,
                      lost, over, burst, early >>
      /\ count.ioctls < MaxIoctls /\ count' = [count EXCEPT !.ioctls = @ + 1]
      /\ pc = "idle"
  BY DEF TuxInit, TuxSetLed, Start
<1>3. \/ pc' = "idle" /\ todo' = << >> /\ arg' = << >>
      \/ /\ pc' = "put" /\ arg' = << >>
         /\ todo' = << << MTCP_BIOC_ON >>, << MTCP_LED_USR >> >>
      \/ /\ pc' = "fill" /\ todo' = << >>
         /\ Command(arg') /\ Len(arg') = LED_BUFF_SIZE
  BY LedCommandWhole DEF TuxInit, TuxSetLed, Start
<1>4. count' \in Counts
  BY <1>1, <1>2, Bounds DEF TypeOK, Counts
<1>5. ready' \in BOOLEAN /\ raced' \in BOOLEAN
  <2>1. ready \in BOOLEAN /\ raced \in BOOLEAN
    BY <1>1 DEF TypeOK, SeenOK
  <2> QED
    BY <2>1, Zenon DEF TuxInit, TuxSetLed
<1>6. LineOK' /\ DriverOK' /\ SeenOK'
  BY <1>1, <1>2, <1>5 DEF TypeOK, LineOK, DriverOK, SeenOK, driver, rings, cables
<1>7. Command(<< MTCP_BIOC_ON >>) /\ Command(<< MTCP_LED_USR >>)
  BY DEF Command, MTCP_BIOC_ON, MTCP_LED_USR, Byte
<1>8. todo' \in Seq(Seq(Byte)) /\ \A i \in 1 .. Len(todo') : Command(todo'[i])
  <2>1. << MTCP_BIOC_ON >> \in Seq(Byte) /\ << MTCP_LED_USR >> \in Seq(Byte)
    BY <1>7 DEF Command
  <2> QED
    <3>1. CASE todo' = << >>
      BY <3>1
    <3>2. CASE todo' = << << MTCP_BIOC_ON >>, << MTCP_LED_USR >> >>
      <4>1. /\ todo' \in Seq(Seq(Byte)) /\ Len(todo') = 2
            /\ todo'[1] = << MTCP_BIOC_ON >> /\ todo'[2] = << MTCP_LED_USR >>
        BY <2>1, <3>2
      <4> QED
        BY <1>7, <4>1
    <3> QED
      BY <1>3, <3>1, <3>2
<1>9. CallerOK'
  <2>1. arg' \in Seq(Byte)
    <3>1. << >> \in Seq(Byte)
      OBVIOUS
    <3> QED
      BY <1>3, <3>1 DEF Command
  <2> QED
    BY <1>1, <1>2, <1>3, <1>8, <2>1 DEF TypeOK, CallerOK
<1>10. Calling'
  <2>1. LED_BUFF_SIZE \in Nat \ {0}
    BY Constants
  <2>2. stored' = 0 /\ stored = 0 /\ UNCHANGED << chunk, buffer >>
    BY <1>1, <1>2 DEF Calling
  <2>3. pc' = "fill" => arg' # << >>
    BY <1>3, <2>1
  <2>4. arg' # << >> => pc' = "fill" /\ Command(arg') /\ Len(arg') = LED_BUFF_SIZE
    BY <1>3
  <2> QED
    <3>1. buffer'[1] \in {0, MTCP_LED_SET} /\ buffer'[2] \in {0, AllLeds}
      BY <1>1, <2>2 DEF Calling
    <3>2. chunk' = << >>
      BY <1>1, <1>2, <2>2 DEF Calling
    <3>3. CASE pc' = "idle" /\ todo' = << >> /\ arg' = << >>
      BY <1>8, <2>2, <3>1, <3>2, <3>3 DEF Calling
    <3>4. CASE pc' = "put" /\ arg' = << >>
               /\ todo' = << << MTCP_BIOC_ON >>, << MTCP_LED_USR >> >>
      <4>1. todo' # << >>
        BY <3>4
      <4> QED
        BY <1>8, <2>2, <3>1, <3>2, <3>4, <4>1 DEF Calling
    <3>5. CASE pc' = "fill" /\ todo' = << >>
               /\ Command(arg') /\ Len(arg') = LED_BUFF_SIZE
      <4>1. stored' < LED_BUFF_SIZE /\ \A j \in 1 .. stored' : buffer'[j] = arg'[j]
        BY <2>1, <2>2
      <4> QED
        BY <1>8, <2>2, <2>3, <3>1, <3>2, <3>5, <4>1 DEF Calling
    <3> QED
      BY <1>3, <3>3, <3>4, <3>5
<1> QED
  BY <1>1, <1>2, <1>4, <1>6, <1>9, <1>10 DEF TypeInv, TypeOK, Gathering

LEMMA LongCommand ==
  ASSUME NEW c, Command(c), Len(c) = LED_BUFF_SIZE
  PROVE  c[1] = MTCP_LED_SET /\ c[2] = AllLeds
<1>1. Len(<< MTCP_BIOC_ON >>) = 1 /\ Len(<< MTCP_LED_USR >>) = 1
  OBVIOUS
<1>2. LED_BUFF_SIZE # 1
  BY Constants
<1>3. c # << MTCP_BIOC_ON >> /\ c # << MTCP_LED_USR >>
  BY <1>1, <1>2
<1> QED
  BY <1>3 DEF Command

\* A byte of the LED command is stored.
LEMMA StoreKeepsTypes == TypeInv /\ StoreByte => TypeInv'
<1> SUFFICES ASSUME TypeInv, StoreByte
             PROVE  TypeInv'
  OBVIOUS
<1>1. TypeOK /\ Calling /\ Gathering
  BY DEF TypeInv
<1>2. /\ pc = "fill" /\ stored < LED_BUFF_SIZE /\ stored \in Nat /\ chunk = << >>
      /\ arg \in Seq(Byte) /\ Len(arg) = LED_BUFF_SIZE /\ Command(arg) /\ arg # << >>
      /\ \A j \in 1 .. stored : buffer[j] = arg[j]
      /\ buffer \in [1 .. LED_BUFF_SIZE -> Byte] /\ LED_BUFF_SIZE \in Nat
      /\ LED_BUFF_SIZE > 2
  BY <1>1, Constants DEF StoreByte, Calling, TypeOK, CallerOK, DriverOK
<1>3. /\ UNCHANGED << driver, open, room, chunk, arg, cables, device, seen, count >>
      /\ buffer' = [buffer EXCEPT ![stored + 1] = arg[stored + 1]]
  BY DEF StoreByte
<1>4. /\ buffer' \in [1 .. LED_BUFF_SIZE -> Byte]
      /\ \A j \in 1 .. stored + 1 : buffer'[j] = arg[j]
  BY <1>2, <1>3
<1>5. arg[1] = MTCP_LED_SET /\ arg[2] = AllLeds
  BY <1>2, LongCommand
<1>6. buffer'[1] \in {0, MTCP_LED_SET} /\ buffer'[2] \in {0, AllLeds}
  BY <1>1, <1>2, <1>3, <1>5 DEF Calling
<1>7. LineOK' /\ SeenOK' /\ DriverOK'
  BY <1>1, <1>3, <1>4 DEF TypeOK, LineOK, SeenOK, DriverOK, driver, rings, cables, seen
<1>8. CASE stored + 1 < LED_BUFF_SIZE
  <2>1. stored' = stored + 1 /\ UNCHANGED << pc, todo >>
    BY <1>8 DEF StoreByte
  <2>2. CallerOK'
    BY <1>1, <1>2, <1>3, <1>8, <2>1 DEF TypeOK, CallerOK
  <2>3. Calling'
    BY <1>1, <1>2, <1>3, <1>4, <1>6, <1>8, <2>1 DEF Calling
  <2> QED
    BY <1>1, <1>3, <1>7, <2>2, <2>3 DEF TypeInv, TypeOK, Gathering
<1>9. CASE stored + 1 = LED_BUFF_SIZE
  <2>1. stored' = 0 /\ pc' = "put" /\ todo' = << buffer' >>
    BY <1>2, <1>9 DEF StoreByte
  <2>2. buffer' \in Seq(Byte) /\ Len(buffer') = LED_BUFF_SIZE
    BY <1>2, <1>4
  <2>3. buffer' = arg
    BY <1>2, <1>4, <1>9, <2>2, SeqEqual
  <2>4. todo' = << arg >> /\ todo' \in Seq(Seq(Byte))
    BY <1>2, <2>1, <2>3
  <2>5. CallerOK'
    BY <1>1, <1>2, <1>3, <2>1, <2>4 DEF TypeOK, CallerOK
  <2>6. Calling'
    <3>1. todo' # << >> /\ \A i \in 1 .. Len(todo') : Command(todo'[i])
      BY <1>2, <2>4
    <3>2. \A j \in 1 .. stored' : buffer'[j] = arg'[j]
      BY <2>1
    <3> QED
      BY <1>2, <1>3, <1>6, <2>1, <2>3, <2>4, <3>1, <3>2 DEF Calling
  <2> QED
    BY <1>1, <1>3, <1>7, <2>5, <2>6 DEF TypeInv, TypeOK, Gathering
<1> QED
  BY <1>2, <1>8, <1>9

\* tuxctl_ldisc_put(), step by step.
LEMMA PutKeepsTypes ==
  TypeInv /\ (PutBytes \/ AskRoom \/ PopBytes \/ WriteBytes \/ SetFlag) => TypeInv'
<1> SUFFICES ASSUME TypeInv, PutBytes \/ AskRoom \/ PopBytes \/ WriteBytes \/ SetFlag
             PROVE  TypeInv'
  OBVIOUS
<1>1. TypeOK /\ Calling /\ Gathering /\ stored = 0
  BY DEF TypeInv, Calling, PutBytes, AskRoom, PopBytes, WriteBytes, SetFlag
<1>2. /\ UNCHANGED << rx, packet, buttons, open, buffer, stored, line, device,
                      lost, burst, early, ready, raced, count >>
  BY DEF PutBytes, AskRoom, PopBytes, WriteBytes, SetFlag, driver, rings, cables, seen
<1>3. CASE PutBytes
  <2>1. /\ pc = "put" /\ pc' = "room" /\ tx' = Fill(tx, Head(todo)) /\ todo' = Tail(todo)
        /\ UNCHANGED << spam, room, chunk, arg, wire, over >>
    BY <1>3 DEF PutBytes, cables, seen
  <2>2. /\ todo \in Seq(Seq(Byte)) /\ todo # << >> /\ tx \in Seq(Byte)
        /\ Len(tx) < TUXCTL_BUFSIZE
    BY <1>1, <2>1 DEF Calling, TypeOK, CallerOK, LineOK
  <2>3. Head(todo) \in Seq(Byte) /\ todo' \in Seq(Seq(Byte))
    BY <2>1, <2>2
  <2>4. tx' \in Seq(Byte) /\ Len(tx') < TUXCTL_BUFSIZE
    BY <2>1, <2>2, <2>3, RingFilled
  <2>5. LineOK' /\ CallerOK' /\ DriverOK' /\ SeenOK'
    BY <1>1, <1>2, <2>1, <2>3, <2>4 DEF TypeOK, LineOK, CallerOK, DriverOK, SeenOK
  <2>6. Calling'
    <3>1. \A i \in 1 .. Len(todo') : Command(todo'[i])
      BY <1>1, <2>1, <2>2 DEF Calling
    <3>2. arg # << >> => todo' = << >>
      BY <1>1, <2>1 DEF Calling
    <3> QED
      BY <1>1, <1>2, <2>1, <3>1, <3>2 DEF Calling
  <2> QED
    BY <1>1, <1>2, <2>5, <2>6 DEF TypeInv, TypeOK, Gathering
<1>4. CASE AskRoom
  <2>1. /\ pc = "room" /\ pc' = "pop" /\ room' = WriteRoom(wire)
        /\ UNCHANGED << tx, spam, todo, chunk, arg, wire, over >>
    BY <1>4 DEF AskRoom, driver, rings, cables, seen
  <2>2. room' \in 0 .. Xmit
    BY <1>1, <2>1 DEF WriteRoom, TypeOK, LineOK
  <2>3. LineOK' /\ CallerOK' /\ DriverOK' /\ SeenOK'
    BY <1>1, <1>2, <2>1, <2>2 DEF TypeOK, LineOK, CallerOK, DriverOK, SeenOK
  <2>4. Calling'
    BY <1>1, <1>2, <2>1 DEF Calling
  <2> QED
    BY <1>1, <1>2, <2>3, <2>4 DEF TypeInv, TypeOK, Gathering
<1>5. CASE PopBytes
  <2> DEFINE n == Popped(room, tx)
  <2>1. /\ pc = "pop" /\ pc' = "write"
        /\ chunk' = First(n, tx) /\ tx' = After(n, tx)
        /\ UNCHANGED << spam, todo, room, arg, wire >>
        /\ over' = (over \/ n > room)
    BY <1>5 DEF PopBytes, cables
  <2>2. n \in Nat /\ tx \in Seq(Byte) /\ Len(tx) < TUXCTL_BUFSIZE
    BY <1>1 DEF TypeOK, CallerOK, LineOK, Popped, Least
  <2> HIDE DEF n
  <2>3. /\ chunk' \in Seq(Byte) /\ tx' \in Seq(Byte) /\ Len(tx') < TUXCTL_BUFSIZE
        /\ over' \in BOOLEAN
    BY <2>1, <2>2, Parts DEF Least
  <2>4. LineOK' /\ CallerOK' /\ DriverOK' /\ SeenOK'
    BY <1>1, <1>2, <2>1, <2>3 DEF TypeOK, LineOK, CallerOK, DriverOK, SeenOK
  <2>5. Calling'
    BY <1>1, <1>2, <2>1 DEF Calling
  <2> QED
    BY <1>1, <1>2, <2>4, <2>5 DEF TypeInv, TypeOK, Gathering
<1>6. CASE WriteBytes
  <2>1. /\ pc = "write" /\ wire' = Sent(wire, chunk) /\ chunk' = << >> /\ room' = 0
        /\ over' = (over \/ Len(chunk) > WriteRoom(wire))
        /\ pc' = IF todo # << >> THEN "put" ELSE IF arg # << >> THEN "flag" ELSE "idle"
        /\ UNCHANGED << tx, spam, todo, arg >>
    BY <1>6 DEF WriteBytes, driver, rings
  <2>2. wire' \in Seq(Byte) /\ Len(wire') =< Xmit
    BY <1>1, <2>1, SentFits DEF TypeOK, LineOK, CallerOK
  <2>3. over' \in BOOLEAN
    BY <2>1
  <2>4. LineOK' /\ CallerOK' /\ DriverOK' /\ SeenOK'
    BY <1>1, <1>2, <2>1, <2>2, <2>3 DEF TypeOK, LineOK, CallerOK, DriverOK, SeenOK
  <2>5. Calling'
    BY <1>1, <1>2, <2>1 DEF Calling
  <2> QED
    BY <1>1, <1>2, <2>4, <2>5 DEF TypeInv, TypeOK, Gathering
<1>7. CASE SetFlag
  <2>1. /\ pc = "flag" /\ pc' = "idle" /\ arg' = << >> /\ spam' = TRUE
        /\ UNCHANGED << tx, todo, room, chunk, wire, over >>
    BY <1>7 DEF SetFlag, rings, cables, seen
  <2>2. LineOK' /\ CallerOK' /\ DriverOK' /\ SeenOK'
    BY <1>1, <1>2, <2>1 DEF TypeOK, LineOK, CallerOK, DriverOK, SeenOK
  <2>3. Calling'
    BY <1>1, <1>2, <2>1 DEF Calling
  <2> QED
    BY <1>1, <1>2, <2>2, <2>3 DEF TypeInv, TypeOK, Gathering
<1> QED
  BY <1>3, <1>4, <1>5, <1>6, <1>7

-----------------------------------------------------------------------------
(* The controller.  *)

LEMMA BitValue == ASSUME NEW n \in Byte, NEW i \in 0 .. 7 PROVE Bit(n, i) \in {0, 1}
<1> DEFINE p == << 1, 2, 4, 8, 16, 32, 64, 128 >>[i + 1]
<1>1. p \in {1, 2, 4, 8, 16, 32, 64, 128}
  OBVIOUS
<1>2. Bit(n, i) = (n \div p) % 2
  BY DEF Bit
<1> HIDE DEF p
<1>3. n \div p \in Nat
  BY <1>1 DEF Byte
<1> QED
  BY <1>2, <1>3

LEMMA BitsOfMask ==
  ASSUME NEW n
  PROVE  /\ IsFiniteSet({i \in 0 .. 7 : Bit(n, i) = 1}) /\ Bits(n) \in Nat
<1> DEFINE T == {i \in 0 .. 7 : Bit(n, i) = 1}
<1>1. IsFiniteSet(0 .. 7)
  <2>1. \A a, b \in Int : IsFiniteSet(a .. b)
    BY FS_Interval
  <2>2. 0 \in Int /\ 7 \in Int
    OBVIOUS
  <2> QED
    BY <2>1, <2>2
<1>2. T \in SUBSET (0 .. 7)
  OBVIOUS
<1> HIDE DEF T
<1>3. IsFiniteSet(T)
  BY <1>1, <1>2, FS_Subset
<1>4. Cardinality(T) \in Nat
  BY <1>3, FS_CardinalityType
<1> QED
  BY <1>3, <1>4 DEF Bits, T

\* The data byte of an LED is one of those the mask announces.
LEMMA LitFromData ==
  ASSUME NEW mask \in Byte, NEW i \in 1 .. NLeds, Bit(mask, i - 1) # 0
  PROVE  Cardinality({j \in 1 .. i : Bit(mask, j - 1) = 1}) \in 1 .. Bits(mask)
<1> DEFINE S == {j \in 1 .. i : Bit(mask, j - 1) = 1}
           T == {j \in 0 .. 7 : Bit(mask, j) = 1}
           f == [j \in S |-> j - 1]
<1>1. i \in 1 .. 4 /\ i - 1 \in 0 .. 7
  BY Constants
<1>2. Bit(mask, i - 1) = 1
  BY <1>1, BitValue
<1>3. i \in S
  BY <1>1, <1>2
<1>4. IsFiniteSet(S) /\ IsFiniteSet(T)
  <2>1. IsFiniteSet(1 .. i)
    BY <1>1, FS_Interval
  <2>2. S \in SUBSET (1 .. i)
    OBVIOUS
  <2>3. IsFiniteSet(T)
    BY BitsOfMask
  <2> HIDE DEF S, T
  <2> QED
    BY <2>1, <2>2, <2>3, FS_Subset
<1>5. \A j \in S : j \in Nat /\ j - 1 \in T
  BY <1>1
<1> HIDE DEF S, T
<1>6. f \in Injection(S, T)
  BY <1>5 DEF Injection, IsInjective
<1> HIDE DEF f
<1>7. Cardinality(S) =< Cardinality(T)
  BY <1>4, <1>6, FS_Injection
<1>8. Cardinality(S) \in Nat /\ Cardinality(T) \in Nat /\ Cardinality(S) # 0
  BY <1>3, <1>4, FS_CardinalityType, FS_EmptySet
<1> QED
  BY <1>7, <1>8 DEF S, T, Bits

LEMMA DeviceFields ==
  ASSUME TypeOK
  PROVE  /\ device \in Device /\ device.got \in Seq(Byte)
         /\ device.leds \in [1 .. NLeds -> Byte] /\ device.pressed \in Presses
         /\ device.user \in BOOLEAN /\ device.bioc \in BOOLEAN
         /\ device.locked \in BOOLEAN
BY DEF TypeOK, Device

\* A packet is three bytes, and only its first has no framing bit.
LEMMA PacketTypes ==
  ASSUME NEW a \in {MTCP_ACK, MTCP_RESET, MTCP_BIOC_EVENT},
         NEW b \in 0 .. 15, NEW c \in 0 .. 15
  PROVE  /\ Packet(a, b, c) \in Seq(Byte) /\ Len(Packet(a, b, c)) = 3
         /\ Packet(a, b, c)[1] = a
         /\ Packet(a, b, c)[2] = 128 + b /\ Packet(a, b, c)[3] = 128 + c
<1>1. a \in Byte /\ 128 + b \in Byte /\ 128 + c \in Byte
  BY DEF MTCP_ACK, MTCP_RESET, MTCP_BIOC_EVENT, Byte
<1> QED
  BY <1>1 DEF Packet

LEMMA EventTypes ==
  ASSUME NEW p \in Presses
  PROVE  /\ p[1] \in 0 .. 15 /\ p[2] \in 0 .. 15 /\ p = << p[1], p[2] >>
         /\ 15 - p[1] \in 0 .. 15 /\ 15 - p[2] \in 0 .. 15
BY Constants

LEMMA EventBytes ==
  ASSUME NEW p \in Presses
  PROVE  /\ Event(p) \in Seq(Byte) /\ Len(Event(p)) = 3
         /\ Event(p)[1] = MTCP_BIOC_EVENT
         /\ Event(p)[2] = 128 + (15 - p[1]) /\ Event(p)[3] = 128 + (15 - p[2])
<1>1. 15 - p[1] \in 0 .. 15 /\ 15 - p[2] \in 0 .. 15
  BY EventTypes
<1>2. MTCP_BIOC_EVENT \in Byte /\ \A b \in 0 .. 15 : 128 + b \in Byte
  BY DEF MTCP_BIOC_EVENT, Byte
<1>3. Event(p) = << MTCP_BIOC_EVENT, 128 + (15 - p[1]), 128 + (15 - p[2]) >>
  BY DEF Event, Packet
<1>4. 128 + (15 - p[1]) \in Byte /\ 128 + (15 - p[2]) \in Byte
  BY <1>1, <1>2
<1> QED
  BY <1>2, <1>3, <1>4

LEMMA AnswerBytes ==
  ASSUME NEW a \in {MTCP_ACK, MTCP_RESET}
  PROVE  /\ Packet(a, 0, 0) \in Seq(Byte) /\ Len(Packet(a, 0, 0)) = 3
         /\ Packet(a, 0, 0)[1] = a
         /\ Packet(a, 0, 0)[2] >= 128 /\ Packet(a, 0, 0)[3] >= 128
<1> DEFINE f == 128 + 0
<1>1. Packet(a, 0, 0) = << a, f, f >>
  BY DEF Packet
<1>2. a \in Byte
  BY DEF MTCP_ACK, MTCP_RESET, Byte
<1>3. f \in Byte /\ f >= 128
  BY DEF Byte
<1> HIDE DEF f
<1>4. /\ << a, f, f >> \in Seq(Byte) /\ << a, f, f >>[1] = a
      /\ Len(<< a, f, f >>) = 3 /\ << a, f, f >>[2] >= 128 /\ << a, f, f >>[3] >= 128
  BY <1>2, <1>3
<1> QED
  BY <1>1, <1>4, Zenon

\* One more byte for the controller.
LEMMA FedKeepsTypes == TypeInv /\ DeviceByte => TypeInv'
<1> SUFFICES ASSUME TypeInv, DeviceByte
             PROVE  TypeInv'
  OBVIOUS
<1> DEFINE got == Append(device.got, Head(wire))
           lit == [device EXCEPT !.leds = Lit(device, got[2], After(2, got))]
<1>1. TypeOK /\ Calling /\ Gathering
  BY DEF TypeInv
<1>2. /\ wire # << >> /\ wire' = Tail(wire)
      /\ UNCHANGED << driver, open, buffer, caller, seen, count >>
  BY DEF DeviceByte
<1>3. wire \in Seq(Byte) /\ Len(wire) =< Xmit /\ line \in Seq(Byte)
  BY <1>1 DEF TypeOK, LineOK
<1>4. wire' \in Seq(Byte) /\ Len(wire') =< Xmit /\ Head(wire) \in Byte
  BY <1>2, <1>3
<1>5. /\ got \in Seq(Byte) /\ Len(got) = Len(device.got) + 1
      /\ device.got # << >> => got[1] = device.got[1]
      /\ Len(device.got) > 1 => got[2] = device.got[2]
  BY <1>1, <1>4, DeviceFields
<1>6. Ack \in Seq(Byte)
  BY AnswerBytes DEF Ack
<1> HIDE DEF got
<1>7. \/ UNCHANGED << device, line >>
      \/ device' = [device EXCEPT !.bioc = TRUE] /\ line' = line \o Ack
      \/ device' = [device EXCEPT !.user = TRUE] /\ UNCHANGED line
      \/ device' = [device EXCEPT !.locked = TRUE] /\ UNCHANGED line
      \/ /\ device' = [device EXCEPT !.got = got] /\ UNCHANGED line
         /\ got[1] = MTCP_LED_SET
         /\ Len(got) = 1 \/ Len(got) < 2 + Bits(got[2])
      \/ /\ device' = [lit EXCEPT !.got = << >>] /\ line' = line \o Ack
         /\ got[1] = MTCP_LED_SET
         /\ ~(Len(got) = 1 \/ Len(got) < 2 + Bits(got[2]))
  <2> DEFINE partial == Len(got) = 1 \/ Len(got) < 2 + Bits(got[2])
  <2>1. IF device.locked THEN UNCHANGED << device, line >>
        ELSE IF got = << MTCP_BIOC_ON >>
          THEN device' = [device EXCEPT !.bioc = TRUE] /\ line' = line \o Ack
        ELSE IF got = << MTCP_LED_USR >>
          THEN device' = [device EXCEPT !.user = TRUE] /\ UNCHANGED line
        ELSE IF got[1] # MTCP_LED_SET
          THEN device' = [device EXCEPT !.locked = TRUE] /\ UNCHANGED line
        ELSE IF partial
          THEN device' = [device EXCEPT !.got = got] /\ UNCHANGED line
        ELSE device' = [lit EXCEPT !.got = << >>] /\ line' = line \o Ack
    BY DEF DeviceByte, got
  <2> HIDE DEF lit, partial
  <2>2. CASE device.locked
    BY <2>1, <2>2, Zenon
  <2>3. CASE ~device.locked /\ got[1] # MTCP_LED_SET
    BY <2>1, <2>3, Zenon
  <2>4. CASE ~device.locked /\ got[1] = MTCP_LED_SET /\ partial
    BY <2>1, <2>4, Zenon DEF partial
  <2>5. CASE ~device.locked /\ got[1] = MTCP_LED_SET /\ ~partial
    BY <2>1, <2>5, Zenon DEF partial
  <2> QED
    BY <2>2, <2>3, <2>4, <2>5, Zenon
<1>8. line' \in Seq(Byte)
  <2>1. line' = line \/ line' = line \o Ack
    BY <1>7, Zenon
  <2>2. line \o Ack \in Seq(Byte)
    BY <1>3, <1>6, ConcatProperties
  <2> QED
    BY <1>3, <2>1, <2>2, Zenon
<1>9. device' \in Device /\ Gathering'
  <2>1. CASE \/ UNCHANGED device
             \/ device' = [device EXCEPT !.bioc = TRUE]
             \/ device' = [device EXCEPT !.user = TRUE]
             \/ device' = [device EXCEPT !.locked = TRUE]
    <3>1. device' \in Device /\ device'.got = device.got
      BY <1>1, <2>1, DeviceFields DEF Device
    <3> QED
      BY <1>1, <3>1 DEF Gathering
  <2>2. CASE /\ device' = [device EXCEPT !.got = got] /\ got[1] = MTCP_LED_SET
             /\ Len(got) = 1 \/ Len(got) < 2 + Bits(got[2])
    <3>1. device' \in Device /\ device'.got = got
      BY <1>1, <1>5, <2>2, DeviceFields DEF Device
    <3> QED
      BY <2>2, <3>1 DEF Gathering
  <2>3. CASE /\ device' = [lit EXCEPT !.got = << >>] /\ got[1] = MTCP_LED_SET
             /\ ~(Len(got) = 1 \/ Len(got) < 2 + Bits(got[2]))
    <3> DEFINE data == After(2, got)
    <3>1. Len(got) > 1 /\ got[2] \in Byte /\ Bits(got[2]) \in Nat
      <4> DEFINE l == Len(device.got)
      <4>1. l \in Nat /\ Len(got) = l + 1 /\ Len(got) # 1
        BY <1>1, <1>5, <2>3, DeviceFields
      <4> HIDE DEF l
      <4>2. l + 1 # 1
        BY <4>1
      <4>3. Len(got) > 1 /\ 2 \in 1 .. Len(got)
        BY <4>1, <4>2
      <4>4. got[2] \in Byte
        BY <1>5, <4>3, ElementOfSeq
      <4>5. Bits(got[2]) \in Nat
        BY BitsOfMask
      <4> QED
        BY <4>3, <4>4, <4>5
    <3>2. data \in Seq(Byte) /\ Len(data) = Len(got) - 2
      BY <1>5, <3>1, Parts DEF Least
    <3>3. Len(data) >= Bits(got[2])
      BY <1>5, <2>3, <3>1, <3>2
    <3> HIDE DEF data
    <3>4. Lit(device, got[2], data) \in [1 .. NLeds -> Byte]
      <4>1. ASSUME NEW i \in 1 .. NLeds
            PROVE  (IF Bit(got[2], i - 1) = 0 THEN device.leds[i]
                    ELSE data[Cardinality({j \in 1 .. i : Bit(got[2], j - 1) = 1})])
                      \in Byte
        <5>1. CASE Bit(got[2], i - 1) = 0
          BY <1>1, <5>1, DeviceFields
        <5>2. CASE Bit(got[2], i - 1) # 0
          <6> DEFINE k == Cardinality({j \in 1 .. i : Bit(got[2], j - 1) = 1})
          <6>1. k \in 1 .. Bits(got[2])
            BY <3>1, <5>2, LitFromData
          <6> HIDE DEF k
          <6>2. k \in 1 .. Len(data)
            BY <3>1, <3>2, <3>3, <6>1
          <6>3. data[k] \in Byte
            BY <3>2, <6>2, ElementOfSeq
          <6> QED
            BY <5>2, <6>3 DEF k
        <5> QED
          BY <5>1, <5>2
      <4> QED
        BY <4>1 DEF Lit
    <3>5. lit \in Device
      BY <1>1, <3>4, DeviceFields DEF Device, data
    <3> HIDE DEF lit
    <3>6. device' \in Device /\ device'.got = << >>
      <4>1. << >> \in Seq(Byte) /\ device' = [lit EXCEPT !.got = << >>]
        BY <2>3
      <4> QED
        BY <3>5, <4>1 DEF Device
    <3> QED
      BY <3>6 DEF Gathering
  <2> QED
    BY <1>7, <2>1, <2>2, <2>3
<1>10. LineOK' /\ CallerOK' /\ DriverOK' /\ SeenOK' /\ Calling' /\ count' \in Counts
  BY <1>1, <1>2, <1>4, <1>8
     DEF TypeOK, LineOK, CallerOK, DriverOK, SeenOK, Calling, driver, rings, caller, seen
<1> QED
  BY <1>9, <1>10 DEF TypeInv, TypeOK

\* Buttons, the reset button and the line.
LEMMA LineKeepsTypes ==
  TypeInv /\ ((\E p \in Presses : Press(p)) \/ Reset \/ LoseByte) => TypeInv'
<1> SUFFICES ASSUME TypeInv, (\E p \in Presses : Press(p)) \/ Reset \/ LoseByte
             PROVE  TypeInv'
  OBVIOUS
<1>1. TypeOK /\ Calling /\ Gathering
  BY DEF TypeInv
<1>2. UNCHANGED << driver, open, buffer, caller, over, burst, early, ready, raced >>
  BY DEF Press, Reset, LoseByte, seen
<1>3. line \in Seq(Byte) /\ wire \in Seq(Byte) /\ Len(wire) =< Xmit /\ lost \in 0 .. 2
  BY <1>1 DEF TypeOK, LineOK, SeenOK
<1>4. /\ line' \in Seq(Byte) /\ wire' \in Seq(Byte) /\ Len(wire') =< Xmit
      /\ lost' \in 0 .. 2 /\ count' \in Counts /\ device' \in Device /\ Gathering'
  <2>1. ASSUME NEW p \in Presses, Press(p)
        PROVE  /\ line' \in Seq(Byte) /\ wire' \in Seq(Byte) /\ Len(wire') =< Xmit
               /\ lost' \in 0 .. 2 /\ count' \in Counts /\ device' \in Device
               /\ Gathering'
    <3>1. /\ device' = [device EXCEPT !.pressed = p]
          /\ line' = line \/ line' = line \o Event(p)
          /\ count.presses < MaxPresses
          /\ count' = [count EXCEPT !.presses = @ + 1]
          /\ UNCHANGED << wire, lost >>
      BY <2>1 DEF Press, seen
    <3>2. Event(p) \in Seq(Byte)
      BY EventBytes
    <3>3. line \o Event(p) \in Seq(Byte)
      BY <1>3, <3>2, ConcatProperties
    <3>4. device' \in Device /\ device'.got = device.got
      BY <1>1, <3>1, DeviceFields DEF Device
    <3>5. count' \in Counts
      BY <1>1, <3>1, Bounds, SMTT(20) DEF TypeOK, Counts
    <3>6. line' \in Seq(Byte)
      BY <1>3, <3>1, <3>3, Zenon
    <3>7. Gathering'
      BY <1>1, <3>4 DEF Gathering
    <3> QED
      BY <1>3, <3>1, <3>4, <3>5, <3>6, <3>7
  <2>2. CASE Reset
    <3>1. /\ device' = [got |-> << >>, leds |-> NoLeds, user |-> FALSE,
                        bioc |-> FALSE, pressed |-> device.pressed, locked |-> FALSE]
          /\ wire' = << >> /\ line' = line \o Packet(MTCP_RESET, 0, 0)
          /\ count.resets < MaxResets /\ count' = [count EXCEPT !.resets = @ + 1]
          /\ UNCHANGED lost
      BY <2>2 DEF Reset, seen
    <3>2. Packet(MTCP_RESET, 0, 0) \in Seq(Byte)
      BY AnswerBytes
    <3>3. line' \in Seq(Byte)
      BY <1>3, <3>1, <3>2, ConcatProperties
    <3>4. NoLeds \in [1 .. NLeds -> Byte] /\ << >> \in Seq(Byte)
      BY DEF NoLeds, Byte
    <3>5. device' \in Device /\ device'.got = << >>
      BY <1>1, <3>1, <3>4, DeviceFields DEF Device
    <3>6. count' \in Counts
      BY <1>1, <3>1, Bounds, SMTT(20) DEF TypeOK, Counts
    <3> QED
      BY <1>3, <3>1, <3>3, <3>4, <3>5, <3>6 DEF Gathering
  <2>3. CASE LoseByte
    <3>1. /\ line # << >> /\ line' = Tail(line) /\ lost' = Least(2, lost + 1)
          /\ UNCHANGED << wire, device, count >>
      BY <2>3 DEF LoseByte, Missed
    <3>2. lost' \in 0 .. 2
      BY <1>3, <3>1 DEF Least
    <3> QED
      BY <1>1, <1>3, <3>1, <3>2 DEF TypeOK, Gathering
  <2> QED
    BY <2>1, <2>2, <2>3
<1>5. LineOK' /\ CallerOK' /\ DriverOK' /\ SeenOK' /\ Calling'
  BY <1>1, <1>2, <1>4
     DEF TypeOK, LineOK, CallerOK, DriverOK, SeenOK, Calling, driver, rings, caller
<1> QED
  BY <1>4, <1>5 DEF TypeInv, TypeOK

LEMMA TypeStep == TypeInv /\ [Next]_vars => TypeInv'
<1>1. TypeInv /\ UNCHANGED vars => TypeInv'
  BY DEF TypeInv, TypeOK, LineOK, CallerOK, DriverOK, SeenOK, Calling, Gathering,
         vars, driver, rings, caller, cables, seen
<1> QED
  BY <1>1, OpenTypes, ReceiveKeepsTypes, FrameKeepsTypes, WakeupKeepsTypes,
     StartKeepsTypes, StoreKeepsTypes, PutKeepsTypes, FedKeepsTypes, LineKeepsTypes
     DEF Next, Others, CallerStep, Interrupt

\* Rings, registers and counters stay in range, the command of an ioctl is
\* stored and sent whole, and the controller never holds a command that is
\* whole (tuxctl-ld.c:100 to 292, tuxctl-ioctl.c:114 to 250).
THEOREM TuxTypes == Spec => []TypeInv
<1> QED
  BY TypeInit, TypeStep, PTL DEF Spec

-----------------------------------------------------------------------------
(* A receive call leaves nothing in the ring that the callback could frame. *)

LeftInv == NothingLeftBehind

LEMMA LeftStep == TypeInv /\ LeftInv /\ [Next]_vars => LeftInv'
<1> SUFFICES ASSUME TypeInv, LeftInv, [Next]_vars
             PROVE  LeftInv'
  OBVIOUS
<1>1. ASSUME NEW k \in Chunks, Receive(k), ~Framing
      PROVE  rx' # << >> => burst'
  <2>1. CASE ~open
    BY <1>1, <2>1 DEF Receive, rings, LeftInv, NothingLeftBehind
  <2>2. CASE open /\ ~burst'
    <3> DEFINE ring == Fill(rx, First(k, line))
    <3>1. /\ rx' = Left(packet, ring) /\ ~burst /\ ~(k > PacketRoom - 2)
      BY <1>1, <2>2 DEF Receive
    <3>2. rx = << >> /\ k \in Nat /\ k =< Len(line)
      BY <1>1, <3>1, TuxAssumption DEF LeftInv, NothingLeftBehind, Receive
    <3>3. /\ Len(ring) = Len(rx) + Least(BufRoom(rx), k) /\ BufRoom(rx) \in Nat
          /\ ring \in Seq(Byte)
          /\ Fetch(packet) \in Nat /\ Fetch(packet) >= PacketRoom - 2
          /\ Left(packet, ring) \in Seq(Byte)
          /\ Len(Left(packet, ring)) = Len(ring) - Least(Fetch(packet), Len(ring))
      BY <1>1, <3>2, ReceiveTypes DEF TypeInv
    <3> HIDE DEF ring
    <3>4. Len(rx) = 0
      BY <3>2
    <3>5. Len(ring) \in Nat /\ Len(ring) =< k
      BY <3>2, <3>3, <3>4 DEF Least
    <3>6. Least(Fetch(packet), Len(ring)) = Len(ring)
      BY <3>1, <3>2, <3>3, <3>5 DEF Least
    <3>7. Len(Left(packet, ring)) = 0
      BY <3>3, <3>5, <3>6
    <3> QED
      BY <3>1, <3>3, <3>7, EmptySeq
  <2> QED
    BY <2>1, <2>2
<1>2. CASE Open \/ Close
  BY <1>2 DEF Open, Close, LeftInv, NothingLeftBehind
<1>3. CASE \/ HandlePacket \/ SkipByte \/ WriteWakeup \/ CallerStep \/ TuxInit
           \/ (\E leds \in Shown : TuxSetLed(leds)) \/ DeviceByte \/ LoseByte \/ Reset
           \/ (\E p \in Presses : Press(p)) \/ UNCHANGED vars
  <2>1. UNCHANGED << rx, burst >>
    BY <1>3 DEF HandlePacket, SkipByte, WriteWakeup, CallerStep, StoreByte, PutBytes,
         AskRoom, PopBytes, WriteBytes, SetFlag, TuxInit, TuxSetLed, Start, DeviceByte,
         LoseByte, Reset, Press, vars, driver, rings, seen
  <2> QED
    BY <2>1 DEF LeftInv, NothingLeftBehind
<1> QED
  BY <1>1, <1>2, <1>3 DEF Next, Others, Interrupt, LeftInv, NothingLeftBehind

-----------------------------------------------------------------------------
(* What is on the way from the controller.  *)

\* Every byte received and not framed yet, and those still on the line.
Incoming == packet \o (rx \o line)

\* An event carries one state of the buttons.
Truthful(s, i) ==
    s[i] = MTCP_BIOC_EVENT =>
        \E p \in Presses : s[i + 1] = 143 - p[1] /\ s[i + 2] = 143 - p[2]

\* Whatever would be taken for a packet is one that was sent.
Genuine(s) ==
    \A i \in 1 .. Len(s) - 2 : IsPacket(s[i], s[i + 1], s[i + 2]) => Truthful(s, i)

\* Nothing but whole packets.
Aligned(s) ==
    /\ Len(s) % 3 = 0
    /\ \A i \in 1 .. Len(s) :
          /\ i % 3 = 1 => s[i] < 128 /\ Truthful(s, i)
          /\ i % 3 # 1 => s[i] >= 128

\* The same bytes with the one after the first q missing.
Missing(s, q) == [i \in 1 .. Len(s) - 1 |-> IF i =< q THEN s[i] ELSE s[i + 1]]

LEMMA ByteNumber == \A b \in Byte : b \in Nat /\ b =< 255
BY DEF Byte

\* The bytes of a sequence are numbers.
LEMMA BytesNumbers ==
  ASSUME NEW s \in Seq(Byte)
  PROVE  \A i \in 1 .. Len(s) : s[i] \in Byte /\ s[i] \in Nat
<1>1. \A i \in 1 .. Len(s) : s[i] \in Byte
  BY ElementOfSeq
<1> QED
  BY <1>1, ByteNumber

LEMMA Concatenated ==
  ASSUME NEW s \in Seq(Byte), NEW p \in Seq(Byte)
  PROVE  /\ s \o p \in Seq(Byte) /\ Len(s) \in Nat /\ Len(p) \in Nat
         /\ Len(s \o p) = Len(s) + Len(p)
         /\ \A i \in 1 .. Len(s) : (s \o p)[i] = s[i]
         /\ \A i \in 1 .. Len(p) : (s \o p)[Len(s) + i] = p[i]
<1>1. s \o p \in Seq(Byte) /\ Len(s \o p) = Len(s) + Len(p)
  BY ConcatProperties
<1>2. Len(s) \in Nat /\ Len(p) \in Nat
  OBVIOUS
<1>3. \A i \in 1 .. Len(s) + Len(p) :
         (s \o p)[i] = IF i =< Len(s) THEN s[i] ELSE p[i - Len(s)]
  BY ConcatProperties
<1>4. \A i \in 1 .. Len(s) : (s \o p)[i] = s[i]
  BY <1>2, <1>3
<1>5. ASSUME NEW i \in 1 .. Len(p)
      PROVE  (s \o p)[Len(s) + i] = p[i]
  <2>1. /\ Len(s) + i \in 1 .. Len(s) + Len(p) /\ ~(Len(s) + i =< Len(s))
        /\ (Len(s) + i) - Len(s) = i
    BY <1>2
  <2> QED
    BY <1>3, <2>1
<1> QED
  BY <1>1, <1>2, <1>4, <1>5

LEMMA ByteAssociative ==
  ASSUME NEW s \in Seq(Byte), NEW t \in Seq(Byte), NEW u \in Seq(Byte)
  PROVE  /\ (s \o t) \o u = s \o (t \o u)
         /\ s \o t \in Seq(Byte) /\ t \o u \in Seq(Byte)
         /\ s \o (t \o u) \in Seq(Byte)
<1>1. s \o t \in Seq(Byte) /\ t \o u \in Seq(Byte)
  BY Concatenated
<1>2. s \o (t \o u) \in Seq(Byte)
  BY <1>1, Concatenated
<1>3. (s \o t) \o u = s \o (t \o u)
  BY ConcatAssociative
<1> QED
  BY <1>1, <1>2, <1>3

LEMMA Associative ==
  \A s, t, u \in Seq(Byte) : (s \o t) \o u = s \o (t \o u)
BY ByteAssociative

LEMMA LastOfFour ==
  \A s, t, u, v \in Seq(Byte) : s \o (t \o (u \o v)) = (s \o (t \o u)) \o v
<1> SUFFICES ASSUME NEW s \in Seq(Byte), NEW t \in Seq(Byte), NEW u \in Seq(Byte),
                    NEW v \in Seq(Byte)
             PROVE  s \o (t \o (u \o v)) = (s \o (t \o u)) \o v
  OBVIOUS
<1> DEFINE x == t \o u
<1>1. t \o (u \o v) = x \o v
  BY Associative, Zenon
<1>2. x \in Seq(Byte)
  BY Concatenated
<1> HIDE DEF x
<1>3. s \o (x \o v) = (s \o x) \o v
  BY <1>2, Associative, Zenon
<1> QED
  BY <1>1, <1>3 DEF x

LEMMA AlignedGenuine ==
  ASSUME NEW s \in Seq(Byte), Aligned(s)
  PROVE  Genuine(s)
<1> SUFFICES ASSUME NEW i \in 1 .. Len(s) - 2, IsPacket(s[i], s[i + 1], s[i + 2])
             PROVE  Truthful(s, i)
  BY DEF Genuine
<1>1. i \in 1 .. Len(s) /\ s[i] \in Byte /\ s[i] < 128
  BY ElementOfSeq DEF IsPacket
<1>2. i % 3 = 1
  <2>1. s[i] \in Nat
    BY <1>1, ByteNumber
  <2>2. ~(s[i] >= 128)
    BY <1>1, <2>1
  <2> QED
    BY <1>1, <2>2 DEF Aligned
<1> QED
  BY <1>1, <1>2 DEF Aligned

\* A whole packet behind the others.
LEMMA PacketBehind ==
  ASSUME NEW s \in Seq(Byte), NEW p \in Seq(Byte), Len(p) = 3,
         p[1] < 128, p[2] >= 128, p[3] >= 128, Truthful(p, 1)
  PROVE  /\ Genuine(s) => Genuine(s \o p)
         /\ Aligned(s) => Aligned(s \o p)
<1> DEFINE t == s \o p
           n == Len(s)
<1>1. /\ n \in Nat /\ t \in Seq(Byte) /\ Len(t) = n + 3
      /\ \A i \in 1 .. n : t[i] = s[i]
      /\ t[n + 1] = p[1] /\ t[n + 2] = p[2] /\ t[n + 3] = p[3]
  <2>1. /\ n \in Nat /\ t \in Seq(Byte) /\ Len(t) = n + Len(p)
        /\ \A i \in 1 .. n : t[i] = s[i]
        /\ \A i \in 1 .. Len(p) : t[n + i] = p[i]
    BY Concatenated
  <2> HIDE DEF t, n
  <2>2. 1 \in 1 .. Len(p) /\ 2 \in 1 .. Len(p) /\ 3 \in 1 .. Len(p)
    OBVIOUS
  <2>3. t[n + 1] = p[1] /\ t[n + 2] = p[2] /\ t[n + 3] = p[3]
    BY <2>1, <2>2
  <2> QED
    BY <2>1, <2>3
<1> HIDE DEF t, n
<1>2. Truthful(t, n + 1)
  BY <1>1 DEF Truthful
<1>3. ASSUME Genuine(s) PROVE Genuine(t)
  <2> SUFFICES ASSUME NEW i \in 1 .. Len(t) - 2, IsPacket(t[i], t[i + 1], t[i + 2])
               PROVE  Truthful(t, i)
    BY DEF Genuine
  <2>1. CASE i =< n - 2
    <3>1. i \in 1 .. Len(s) - 2 /\ t[i] = s[i] /\ t[i + 1] = s[i + 1] /\ t[i + 2] = s[i + 2]
      BY <1>1, <2>1 DEF n
    <3>2. Truthful(s, i)
      BY <1>3, <3>1 DEF Genuine
    <3> QED
      BY <3>1, <3>2 DEF Truthful
  <2>2. CASE i = n - 1 \/ i = n
    <3>1. t[i + 1] = p[1] \/ t[i + 2] = p[1]
      BY <1>1, <2>2
    <3>2. p[1] \in Nat
      BY BytesNumbers
    <3>3. ~(p[1] >= 128)
      BY <3>2
    <3> QED
      BY <3>1, <3>3 DEF IsPacket
  <2>3. CASE i = n + 1
    BY <1>2, <2>3
  <2>4. i \in 1 .. n + 1 /\ n \in Nat
    BY <1>1
  <2> QED
    BY <2>1, <2>2, <2>3, <2>4
<1>4. ASSUME Aligned(s) PROVE Aligned(t)
  <2>1. n % 3 = 0
    BY <1>4 DEF Aligned, n
  <2>2. Len(t) % 3 = 0 /\ (n + 1) % 3 = 1 /\ (n + 2) % 3 = 2 /\ (n + 3) % 3 = 0
    BY <1>1, <2>1
  <2>3. ASSUME NEW i \in 1 .. n
        PROVE  /\ i % 3 = 1 => t[i] < 128 /\ Truthful(t, i)
               /\ i % 3 # 1 => t[i] >= 128
    <3>1. /\ i % 3 = 1 => s[i] < 128 /\ Truthful(s, i)
          /\ i % 3 # 1 => s[i] >= 128
      BY <1>4 DEF Aligned, n
    <3>2. CASE i % 3 = 1
      <4>1. i + 2 =< n
        BY <1>1, <2>1, <3>2
      <4>2. t[i] = s[i] /\ t[i + 1] = s[i + 1] /\ t[i + 2] = s[i + 2]
        BY <1>1, <4>1
      <4> QED
        BY <3>1, <3>2, <4>2 DEF Truthful
    <3> QED
      BY <1>1, <3>1, <3>2
  <2>4. \A i \in 1 .. Len(t) : i \in 1 .. n \/ i = n + 1 \/ i = n + 2 \/ i = n + 3
    BY <1>1
  <2>5. ASSUME NEW i \in 1 .. Len(t)
        PROVE  /\ i % 3 = 1 => t[i] < 128 /\ Truthful(t, i)
               /\ i % 3 # 1 => t[i] >= 128
    <3>1. CASE i \in 1 .. n
      BY <2>3, <3>1
    <3>2. CASE i = n + 1
      BY <1>1, <1>2, <2>2, <3>2
    <3>3. CASE i = n + 2
      BY <1>1, <2>2, <3>3
    <3>4. CASE i = n + 3
      BY <1>1, <2>2, <3>4
    <3> QED
      BY <2>4, <3>1, <3>2, <3>3, <3>4
  <2> QED
    BY <2>2, <2>5, Zenon DEF Aligned
<1> QED
  BY <1>3, <1>4 DEF t

\* Bytes framed, or passed over.
LEMMA BytesGone ==
  ASSUME NEW s \in Seq(Byte), NEW n \in Nat, n =< Len(s)
  PROVE  /\ Genuine(s) => Genuine(After(n, s))
         /\ Aligned(s) /\ n = 3 => Aligned(After(n, s))
<1> DEFINE t == After(n, s)
<1>1. /\ t \in Seq(Byte) /\ Len(t) = Len(s) - n /\ Len(s) \in Nat
      /\ \A i \in 1 .. Len(s) - n : t[i] = s[n + i]
  <2>1. Least(n, Len(s)) = n /\ Len(s) \in Nat
    BY DEF Least
  <2>2. t \in Seq(Byte) /\ Len(t) = Len(s) - Least(n, Len(s))
    BY Parts
  <2>3. \A i \in 1 .. Len(s) - n : t[i] = s[n + i]
    BY Parts
  <2> QED
    BY <2>1, <2>2, <2>3
<1> HIDE DEF t
<1>2. \A i \in 1 .. Len(t) - 2 :
         /\ n + i \in 1 .. Len(s) - 2 /\ t[i] = s[n + i]
         /\ t[i + 1] = s[n + i + 1] /\ t[i + 2] = s[n + i + 2]
  <2> SUFFICES ASSUME NEW i \in 1 .. Len(t) - 2
               PROVE  /\ n + i \in 1 .. Len(s) - 2 /\ t[i] = s[n + i]
                      /\ t[i + 1] = s[n + i + 1] /\ t[i + 2] = s[n + i + 2]
    OBVIOUS
  <2>1. /\ i \in 1 .. Len(s) - n /\ i + 1 \in 1 .. Len(s) - n /\ i + 2 \in 1 .. Len(s) - n
        /\ n + (i + 1) = n + i + 1 /\ n + (i + 2) = n + i + 2
    BY <1>1
  <2> QED
    BY <1>1, <2>1
<1>3. ASSUME Genuine(s) PROVE Genuine(t)
  <2> SUFFICES ASSUME NEW i \in 1 .. Len(t) - 2, IsPacket(t[i], t[i + 1], t[i + 2])
               PROVE  Truthful(t, i)
    BY DEF Genuine
  <2>1. Truthful(s, n + i)
    BY <1>2, <1>3 DEF Genuine
  <2> QED
    BY <1>2, <2>1 DEF Truthful
<1>4. ASSUME Aligned(s), n = 3 PROVE Aligned(t)
  <2>1. Len(s) % 3 = 0 /\ Len(t) % 3 = 0
    BY <1>1, <1>4 DEF Aligned
  <2>2. ASSUME NEW i \in 1 .. Len(t)
        PROVE  /\ i % 3 = 1 => t[i] < 128 /\ Truthful(t, i)
               /\ i % 3 # 1 => t[i] >= 128
    <3>1. 3 + i \in 1 .. Len(s) /\ t[i] = s[3 + i] /\ (3 + i) % 3 = i % 3
      BY <1>1, <1>4
    <3>2. /\ i % 3 = 1 => s[3 + i] < 128 /\ Truthful(s, 3 + i)
          /\ i % 3 # 1 => s[3 + i] >= 128
      BY <1>4, <3>1 DEF Aligned
    <3>3. CASE i % 3 = 1
      <4>1. i \in 1 .. Len(t) - 2
        <5>1. Len(t) \in Nat /\ i \in Nat /\ i =< Len(t) /\ i >= 1
          BY <1>1
        <5>2. i # Len(t) /\ i # Len(t) - 1
          BY <2>1, <3>3, <5>1
        <5> QED
          BY <5>1, <5>2
      <4> QED
        BY <1>2, <1>4, <3>1, <3>2, <3>3, <4>1 DEF Truthful
    <3> QED
      BY <3>1, <3>2, <3>3
  <2> QED
    BY <2>1, <2>2 DEF Aligned
<1> QED
  BY <1>3, <1>4 DEF t

\* One byte missing from whole packets never makes up another packet.
LEMMA OneMissing ==
  ASSUME NEW s \in Seq(Byte), Aligned(s), NEW q \in 0 .. Len(s) - 1
  PROVE  Genuine(Missing(s, q))
<1> DEFINE t == Missing(s, q)
<1>1. /\ Len(s) \in Nat /\ Len(s) > 0
      /\ Len(t) = Len(s) - 1
      /\ \A i \in 1 .. Len(s) - 1 : t[i] = IF i =< q THEN s[i] ELSE s[i + 1]
      /\ \A i \in 1 .. Len(s) : s[i] \in Nat
  <2>1. Len(s) \in Nat /\ Len(s) - 1 \in Nat
    OBVIOUS
  <2>2. \A i \in 1 .. Len(s) : s[i] \in Nat
    BY BytesNumbers
  <2>3. t = [i \in 1 .. Len(s) - 1 |-> IF i =< q THEN s[i] ELSE s[i + 1]]
    BY DEF Missing
  <2> HIDE DEF t
  <2>4. Len(t) = Len(s) - 1
    BY <2>1, <2>3
  <2> QED
    BY <2>1, <2>2, <2>3, <2>4
<1> HIDE DEF t
<1> SUFFICES ASSUME NEW i \in 1 .. Len(t) - 2, IsPacket(t[i], t[i + 1], t[i + 2])
             PROVE  Truthful(t, i)
  BY DEF Genuine, t
<1>2. /\ i \in 1 .. Len(s) - 3 /\ i \in Nat
      /\ t[i] = IF i =< q THEN s[i] ELSE s[i + 1]
      /\ t[i + 1] = IF i + 1 =< q THEN s[i + 1] ELSE s[i + 2]
      /\ t[i + 2] = IF i + 2 =< q THEN s[i + 2] ELSE s[i + 3]
  <2>1. i \in 1 .. Len(s) - 1 /\ i + 1 \in 1 .. Len(s) - 1 /\ i + 2 \in 1 .. Len(s) - 1
    BY <1>1
  <2> QED
    BY <1>1, <2>1
<1>3. \A j \in 1 .. Len(s) : s[j] < 128 => j % 3 = 1 /\ Truthful(s, j)
  BY <1>1 DEF Aligned
<1>4. \A j \in 1 .. Len(s) : j % 3 = 1 => s[j] < 128
  BY DEF Aligned
<1>5. CASE i + 2 =< q
  <2>1. t[i] = s[i] /\ t[i + 1] = s[i + 1] /\ t[i + 2] = s[i + 2] /\ i \in 1 .. Len(s)
    BY <1>2, <1>5
  <2>2. t[i] < 128
    BY DEF IsPacket
  <2>3. Truthful(s, i)
    BY <1>3, <2>1, <2>2
  <2> QED
    BY <2>1, <2>3, Zenon DEF Truthful
<1>6. CASE i > q
  <2>1. /\ t[i] = s[i + 1] /\ t[i + 1] = s[(i + 1) + 1] /\ t[i + 2] = s[(i + 1) + 2]
        /\ i + 1 \in 1 .. Len(s)
    BY <1>2, <1>6
  <2>2. t[i] < 128
    BY DEF IsPacket
  <2>3. Truthful(s, i + 1)
    BY <1>3, <2>1, <2>2
  <2> QED
    BY <2>1, <2>3, Zenon DEF Truthful
<1>7. CASE i =< q /\ ~(i + 2 =< q)
  <2>1. t[i] = s[i] /\ t[i + 2] = s[i + 3] /\ i \in 1 .. Len(s) /\ i + 3 \in 1 .. Len(s)
    BY <1>2, <1>7
  <2>2. i % 3 = 1
    BY <1>3, <2>1 DEF IsPacket
  <2>3. (i + 3) % 3 = 1
    BY <1>2, <2>2
  <2>4. s[i + 3] < 128
    BY <1>4, <2>1, <2>3
  <2> QED
    BY <1>1, <2>1, <2>4 DEF IsPacket
<1> QED
  BY <1>2, <1>5, <1>6, <1>7

\* The byte that is lost between those before it and those behind it.
LEMMA ByteLost ==
  ASSUME NEW u \in Seq(Byte), NEW v \in Seq(Byte), NEW k \in 1 .. Len(v)
  PROVE  /\ Len(u) + k - 1 \in 0 .. Len(u \o v) - 1
         /\ u \o (First(k - 1, v) \o After(k, v)) = Missing(u \o v, Len(u) + k - 1)
<1> DEFINE f == First(k - 1, v)
           a == After(k, v)
           w == f \o a
           s == u \o v
           q == Len(u) + k - 1
<1>1. /\ Len(u) \in Nat /\ Len(v) \in Nat /\ k \in Nat /\ k - 1 \in Nat
      /\ Least(k - 1, Len(v)) = k - 1 /\ Least(k, Len(v)) = k
  BY DEF Least
<1>2. /\ f \in Seq(Byte) /\ Len(f) = k - 1 /\ \A i \in 1 .. k - 1 : f[i] = v[i]
  <2>1. /\ f \in Seq(Byte) /\ Len(f) = Least(k - 1, Len(v))
        /\ \A i \in 1 .. Least(k - 1, Len(v)) : f[i] = v[i]
    BY <1>1, Parts
  <2> QED
    BY <1>1, <2>1
<1>3. /\ a \in Seq(Byte) /\ Len(a) = Len(v) - k
      /\ \A i \in 1 .. Len(v) - k : a[i] = v[k + i]
  <2>1. /\ a \in Seq(Byte) /\ Len(a) = Len(v) - Least(k, Len(v))
        /\ \A i \in 1 .. Len(v) - k : a[i] = v[k + i]
    BY <1>1, Parts
  <2> QED
    BY <1>1, <2>1
<1> HIDE DEF f, a
<1>4. /\ w \in Seq(Byte) /\ Len(w) = Len(v) - 1
      /\ \A i \in 1 .. k - 1 : w[i] = v[i]
      /\ \A i \in k .. Len(v) - 1 : w[i] = v[i + 1]
  <2>1. /\ w \in Seq(Byte) /\ Len(w) = Len(f) + Len(a)
        /\ \A i \in 1 .. Len(f) : w[i] = f[i]
        /\ \A i \in 1 .. Len(a) : w[Len(f) + i] = a[i]
    BY <1>2, <1>3, Concatenated
  <2> HIDE DEF w
  <2>2. Len(w) = Len(v) - 1
    BY <1>1, <1>2, <1>3, <2>1
  <2>3. ASSUME NEW i \in k .. Len(v) - 1
        PROVE  w[i] = v[i + 1]
    <3> DEFINE j == i - (k - 1)
    <3>1. j \in 1 .. Len(v) - k /\ (k - 1) + j = i /\ k + j = i + 1
      BY <1>1
    <3> HIDE DEF j
    <3>2. a[j] = v[k + j]
      BY <1>3, <3>1
    <3>3. w[Len(f) + j] = a[j]
      BY <1>3, <2>1, <3>1
    <3> QED
      BY <1>2, <3>1, <3>2, <3>3
  <2> QED
    BY <1>2, <2>1, <2>2, <2>3
<1> HIDE DEF w
<1>5. /\ s \in Seq(Byte) /\ Len(s) = Len(u) + Len(v)
      /\ \A i \in 1 .. Len(u) : s[i] = u[i]
      /\ \A i \in 1 .. Len(v) : s[Len(u) + i] = v[i]
  BY Concatenated
<1>6. /\ u \o w \in Seq(Byte) /\ Len(u \o w) = Len(u) + Len(w)
      /\ \A i \in 1 .. Len(u) : (u \o w)[i] = u[i]
      /\ \A i \in 1 .. Len(w) : (u \o w)[Len(u) + i] = w[i]
  BY <1>4, Concatenated
<1> HIDE DEF s
<1>7. q \in 0 .. Len(s) - 1 /\ q = Len(u) + (k - 1)
  BY <1>1, <1>5
<1>8. ASSUME NEW i \in 1 .. Len(s) - 1
      PROVE  (u \o w)[i] = IF i =< q THEN s[i] ELSE s[i + 1]
  <2>1. CASE i =< Len(u)
    <3>1. i \in 1 .. Len(u) /\ i =< q
      BY <1>1, <1>7, <2>1
    <3> QED
      BY <1>5, <1>6, <3>1
  <2>2. CASE ~(i =< Len(u)) /\ i =< q
    <3> DEFINE j == i - Len(u)
    <3>1. /\ j \in 1 .. k - 1 /\ j \in 1 .. Len(v) /\ j \in 1 .. Len(w)
          /\ Len(u) + j = i
      BY <1>1, <1>4, <1>7, <2>2
    <3> HIDE DEF j
    <3>2. (u \o w)[i] = w[j] /\ w[j] = v[j] /\ s[i] = v[j]
      BY <1>4, <1>5, <1>6, <3>1
    <3> QED
      BY <2>2, <3>2
  <2>3. CASE ~(i =< Len(u)) /\ ~(i =< q)
    <3> DEFINE j == i - Len(u)
    <3>1. /\ j \in k .. Len(v) - 1 /\ j + 1 \in 1 .. Len(v) /\ j \in 1 .. Len(w)
          /\ Len(u) + j = i /\ Len(u) + (j + 1) = i + 1
      BY <1>1, <1>4, <1>5, <1>7, <2>3
    <3> HIDE DEF j
    <3>2. (u \o w)[i] = w[j] /\ w[j] = v[j + 1] /\ s[i + 1] = v[j + 1]
      BY <1>4, <1>5, <1>6, <3>1
    <3> QED
      BY <2>3, <3>2
  <2> QED
    BY <1>1, <1>7, <2>1, <2>2, <2>3
<1>9. Missing(s, q) \in Seq(Byte) /\ Len(Missing(s, q)) = Len(s) - 1
  <2>1. Len(s) - 1 \in Nat /\ Len(s) \in Nat
    BY <1>1, <1>5
  <2>2. \A i \in 1 .. Len(s) - 1 : (IF i =< q THEN s[i] ELSE s[i + 1]) \in Byte
    BY <1>5, <2>1, BytesNumbers
  <2> HIDE DEF q
  <2> QED
    BY <2>1, <2>2 DEF Missing
<1>10. Len(u \o w) = Len(s) - 1
  BY <1>1, <1>4, <1>5, <1>6
<1> HIDE DEF q
<1>11. u \o w = Missing(s, q)
  <2>1. \A i \in 1 .. Len(s) - 1 : (u \o w)[i] = Missing(s, q)[i]
    BY <1>8 DEF Missing
  <2> QED
    BY <1>6, <1>9, <1>10, <2>1, SeqEqual
<1> QED
  BY <1>7, <1>11 DEF w, f, a, s, q

\* Bytes move on, and those that are lost are counted.
Moved ==
    \/ lost' = lost /\ Incoming' = Incoming
    \/ /\ lost' = Least(2, lost + 1)
       /\ \E q \in 0 .. Len(Incoming) - 1 : Incoming' = Missing(Incoming, q)
    \/ lost' = 2

LEMMA LostCount ==
  ASSUME lost \in 0 .. 2, NEW n \in Nat, Missed(n)
  PROVE  \/ n = 0 /\ lost' = lost
         \/ n = 1 /\ lost' = Least(2, lost + 1)
         \/ lost' = 2
<1>1. lost' = Least(2, lost + n)
  BY DEF Missed
<1>2. CASE n = 0
  BY <1>1, <1>2 DEF Least
<1>3. CASE n = 1
  BY <1>1, <1>3
<1>4. CASE n > 1
  BY <1>1, <1>4 DEF Least
<1> QED
  BY <1>2, <1>3, <1>4

\* A receive call moves bytes of the line into the ring and on to be framed;
\* those it has no room for, or nobody is there to receive, are lost.
LEMMA ReceiveMoves ==
  ASSUME TypeInv, ~open => rx = << >>, NEW k \in Chunks, Receive(k), ~Framing
  PROVE  Moved
<1>1. /\ packet \in Seq(Byte) /\ rx \in Seq(Byte) /\ line \in Seq(Byte)
      /\ lost \in 0 .. 2 /\ k \in Nat /\ k # 0 /\ k =< Len(line) /\ Len(rx) < TUXCTL_BUFSIZE
  BY TuxAssumption DEF TypeInv, TypeOK, LineOK, SeenOK, Receive
<1>2. line' = After(k, line)
  BY DEF Receive
<1> DEFINE u == packet \o rx
<1>3. u \in Seq(Byte)
  BY <1>1, Concatenated
<1>4. Incoming = u \o line
  BY <1>1, Associative, ZenonT(30) DEF Incoming
<1>5. CASE ~open
  <2>1. Missed(k) /\ UNCHANGED << packet, rx >>
    BY <1>5 DEF Receive, rings
  <2>2. CASE k = 1
    <3>1. /\ Len(u) + 1 - 1 \in 0 .. Len(u \o line) - 1
          /\ u \o (First(1 - 1, line) \o After(1, line)) = Missing(u \o line, Len(u) + 1 - 1)
      <4>1. 1 \in 1 .. Len(line)
        BY <1>1, <2>2
      <4> QED
        BY <1>1, <1>3, <4>1, ByteLost
    <3>2. After(1, line) \in Seq(Byte)
      BY <1>1, Parts
    <3>3. First(1 - 1, line) = << >>
      BY <1>1 DEF First, Least
    <3>4. First(1 - 1, line) \o After(1, line) = After(1, line)
      BY <3>2, <3>3, ConcatEmptySeq
    <3>5. Incoming' = u \o After(1, line)
      <4>1. Incoming' = packet \o (rx \o After(1, line))
        BY <1>2, <2>1, <2>2 DEF Incoming
      <4> HIDE DEF u
      <4> QED
        BY <1>1, <3>2, <4>1, Associative, Zenon DEF u
    <3> QED
      BY <1>1, <1>4, <2>1, <2>2, <3>1, <3>4, <3>5 DEF Moved, Missed
  <2>3. CASE k # 1
    BY <1>1, <2>1, <2>3, LostCount DEF Moved
  <2> QED
    BY <2>2, <2>3
<1>6. CASE open
  <2> DEFINE m == Least(BufRoom(rx), k)
             ring == Fill(rx, First(k, line))
  <2>1. /\ rx' = Left(packet, ring) /\ packet' = Taken(packet, ring)
        /\ Missed(k - (Len(ring) - Len(rx)))
    BY <1>6 DEF Receive
  <2>2. /\ ring \in Seq(Byte) /\ Len(ring) = Len(rx) + m /\ BufRoom(rx) \in Nat
        /\ Fetch(packet) \in Nat /\ After(k, line) \in Seq(Byte)
    BY <1>1, ReceiveTypes DEF TypeInv
  <2>3. m \in 0 .. k /\ k - (Len(ring) - Len(rx)) = k - m
    BY <1>1, <2>2 DEF Least
  <2>4. First(m, line) \in Seq(Byte)
    BY <1>1, <2>3, Parts
  <2>5. ring = rx \o First(m, line)
    <3>1. Len(First(k, line)) = k
      BY <1>1, Parts DEF Least
    <3>2. First(BufRoom(rx), First(k, line)) = SubSeq(SubSeq(line, 1, k), 1, m)
      <4>1. First(k, line) = SubSeq(line, 1, k)
        BY <1>1 DEF First, Least
      <4> QED
        BY <3>1, <4>1 DEF First
    <3>3. SubSeq(SubSeq(line, 1, k), 1, m) = SubSeq(line, 1, m)
      BY <1>1, <2>3
    <3>4. First(m, line) = SubSeq(line, 1, m)
      BY <1>1, <2>3 DEF First, Least
    <3> QED
      BY <3>2, <3>3, <3>4 DEF Fill
  <2> HIDE DEF m, ring
  <2>6. Incoming' = u \o (First(m, line) \o After(k, line))
    <3> DEFINE f == First(Fetch(packet), ring)
               l == After(Fetch(packet), ring)
               e == After(k, line)
    <3>1. f \in Seq(Byte) /\ l \in Seq(Byte) /\ f \o l = ring /\ e \in Seq(Byte)
      BY <2>2, Parts, Joined
    <3>2. packet' = packet \o f /\ rx' = l /\ line' = e
      BY <1>2, <2>1 DEF Taken, Left
    <3> HIDE DEF f, l, e
    <3>3. Incoming' = (packet \o f) \o (l \o e)
      BY <3>2 DEF Incoming
    <3>4. (packet \o f) \o (l \o e) = packet \o (f \o (l \o e))
      <4>1. l \o e \in Seq(Byte)
        BY <3>1, Concatenated
      <4> DEFINE z == l \o e
      <4> HIDE DEF z
      <4>2. packet \in Seq(Byte) /\ f \in Seq(Byte) /\ z \in Seq(Byte)
        BY <1>1, <3>1, <4>1 DEF z
      <4>3. (packet \o f) \o z = packet \o (f \o z)
        BY <4>2, Associative, Zenon
      <4> QED
        BY <4>3 DEF z
    <3>5. f \o (l \o e) = ring \o e
      BY <3>1, Associative, Zenon
    <3>6. ring \o e = rx \o (First(m, line) \o e)
      <4>1. (rx \o First(m, line)) \o e = rx \o (First(m, line) \o e)
        BY <1>1, <2>4, <3>1, Associative, ZenonT(30)
      <4> QED
        BY <2>5, <4>1
    <3>7. First(m, line) \o e \in Seq(Byte)
      BY <2>4, <3>1, Concatenated
    <3>8. packet \o (rx \o (First(m, line) \o e)) = u \o (First(m, line) \o e)
      BY <1>1, <3>7, Associative, Zenon
    <3> QED
      BY <3>3, <3>4, <3>5, <3>6, <3>8 DEF e
  <2>7. CASE m = k
    <3>1. Incoming' = Incoming
      BY <1>1, <1>4, <2>6, <2>7, Joined
    <3>2. k - (Len(ring) - Len(rx)) = 0
      BY <1>1, <2>3, <2>7
    <3>3. lost' = lost
      BY <1>1, <2>1, <3>2 DEF Missed, Least
    <3> QED
      BY <3>1, <3>3 DEF Moved
  <2>8. CASE m = k - 1
    <3>1. k \in 1 .. Len(line)
      BY <1>1
    <3>2. /\ Len(u) + k - 1 \in 0 .. Len(u \o line) - 1
          /\ u \o (First(k - 1, line) \o After(k, line)) = Missing(u \o line, Len(u) + k - 1)
      BY <1>1, <1>3, <3>1, ByteLost
    <3>3. k - (Len(ring) - Len(rx)) = 1
      BY <1>1, <2>3, <2>8
    <3>4. lost' = Least(2, lost + 1)
      BY <2>1, <3>3 DEF Missed
    <3> QED
      BY <1>4, <2>6, <2>8, <3>2, <3>4 DEF Moved
  <2>9. CASE m # k /\ m # k - 1
    <3>1. k - m \in Nat /\ k - m # 0 /\ k - m # 1
      BY <1>1, <2>3, <2>9
    <3>2. Missed(k - m)
      BY <2>1, <2>3
    <3> QED
      BY <1>1, <3>1, <3>2, LostCount DEF Moved
  <2> QED
    BY <2>7, <2>8, <2>9
<1> QED
  BY <1>5, <1>6

\* Bytes go from the front of a ring whatever is behind it.
LEMMA FrontGone ==
  ASSUME NEW s \in Seq(Byte), NEW z \in Seq(Byte), NEW n \in Nat, n =< Len(s)
  PROVE  After(n, s) \o z = After(n, s \o z)
<1> DEFINE a == After(n, s)
           b == After(n, s \o z)
<1>1. /\ s \o z \in Seq(Byte) /\ Len(s) \in Nat /\ Len(z) \in Nat
      /\ Len(s \o z) = Len(s) + Len(z)
      /\ \A i \in 1 .. Len(s) : (s \o z)[i] = s[i]
      /\ \A i \in 1 .. Len(z) : (s \o z)[Len(s) + i] = z[i]
  BY Concatenated
<1>2. /\ a \in Seq(Byte) /\ Len(a) = Len(s) - n
      /\ \A i \in 1 .. Len(s) - n : a[i] = s[n + i]
  <2>1. Least(n, Len(s)) = n
    BY <1>1 DEF Least
  <2>2. /\ a \in Seq(Byte) /\ Len(a) = Len(s) - Least(n, Len(s))
        /\ \A i \in 1 .. Len(s) - n : a[i] = s[n + i]
    BY Parts
  <2> QED
    BY <2>1, <2>2
<1>3. /\ b \in Seq(Byte) /\ Len(b) = Len(s) + Len(z) - n
      /\ \A i \in 1 .. Len(s) + Len(z) - n : b[i] = (s \o z)[n + i]
  <2>1. Least(n, Len(s \o z)) = n
    BY <1>1 DEF Least
  <2>2. /\ b \in Seq(Byte) /\ Len(b) = Len(s \o z) - Least(n, Len(s \o z))
        /\ \A i \in 1 .. Len(s \o z) - n : b[i] = (s \o z)[n + i]
    BY <1>1, Parts
  <2> QED
    BY <1>1, <2>1, <2>2
<1> HIDE DEF a, b
<1>4. /\ a \o z \in Seq(Byte) /\ Len(a \o z) = Len(a) + Len(z)
      /\ \A i \in 1 .. Len(a) : (a \o z)[i] = a[i]
      /\ \A i \in 1 .. Len(z) : (a \o z)[Len(a) + i] = z[i]
  BY <1>2, Concatenated
<1>5. Len(a \o z) = Len(b)
  BY <1>1, <1>2, <1>3, <1>4
<1>6. ASSUME NEW i \in 1 .. Len(b)
      PROVE  (a \o z)[i] = b[i]
  <2>1. b[i] = (s \o z)[n + i]
    BY <1>1, <1>3
  <2>2. CASE i =< Len(s) - n
    <3>1. i \in 1 .. Len(s) - n /\ n + i \in 1 .. Len(s) /\ i \in 1 .. Len(a)
      BY <1>1, <1>2, <2>2
    <3> QED
      BY <1>1, <1>2, <1>4, <2>1, <3>1
  <2>3. CASE ~(i =< Len(s) - n)
    <3> DEFINE j == i - Len(a)
    <3>1. j \in 1 .. Len(z) /\ Len(a) + j = i /\ Len(s) + j = n + i
      BY <1>1, <1>2, <1>3, <2>3
    <3> HIDE DEF j
    <3>2. (a \o z)[i] = z[j] /\ (s \o z)[n + i] = z[j]
      BY <1>1, <1>4, <3>1
    <3> QED
      BY <2>1, <3>2
  <2> QED
    BY <2>2, <2>3
<1>7. a \o z = b
  BY <1>3, <1>4, <1>5, <1>6, SeqEqual
<1> QED
  BY <1>7 DEF a, b

LEMMA IncomingBytes ==
  ASSUME TypeOK
  PROVE  /\ packet \in Seq(Byte) /\ rx \in Seq(Byte) /\ line \in Seq(Byte)
         /\ rx \o line \in Seq(Byte) /\ Incoming \in Seq(Byte)
         /\ Len(Incoming) = Len(packet) + Len(rx \o line) /\ Len(packet) \in Nat
         /\ \A i \in 1 .. Len(packet) : Incoming[i] = packet[i]
<1>1. packet \in Seq(Byte) /\ rx \in Seq(Byte) /\ line \in Seq(Byte)
  BY DEF TypeOK, LineOK
<1>2. rx \o line \in Seq(Byte)
  BY <1>1, Concatenated
<1> DEFINE z == rx \o line
<1> HIDE DEF z
<1>3. /\ packet \o z \in Seq(Byte) /\ Len(packet) \in Nat
      /\ Len(packet \o z) = Len(packet) + Len(z)
      /\ \A i \in 1 .. Len(packet) : (packet \o z)[i] = packet[i]
  BY <1>1, <1>2, Concatenated DEF z
<1>4. Incoming = packet \o z
  BY DEF Incoming, z
<1> QED
  BY <1>1, <1>2, <1>3, <1>4 DEF z

\* With one byte lost at most, what arrives holds no packet that was not sent,
\* and the buttons are those of one moment.
InInv ==
    /\ ~open => rx = << >>
    /\ lost = 0 => Aligned(Incoming)
    /\ lost < 2 => Genuine(Incoming) /\ buttons \in Presses

InSound == /\ lost = 0 => Aligned(Incoming)
           /\ lost < 2 => Genuine(Incoming) /\ buttons \in Presses

LEMMA MovedSound ==
  ASSUME TypeInv, InInv, Moved, UNCHANGED buttons
  PROVE  InSound'
<1>1. lost \in 0 .. 2 /\ Incoming \in Seq(Byte)
  BY IncomingBytes DEF TypeInv, TypeOK, SeenOK
<1>2. CASE lost' = lost /\ Incoming' = Incoming
  <2>1. (lost = 0 => Aligned(Incoming)) /\ (lost < 2 => Genuine(Incoming) /\ buttons \in Presses)
    BY DEF InInv
  <2>2. lost' = 0 => Aligned(Incoming')
    BY <1>2, <2>1
  <2>3. lost' < 2 => Genuine(Incoming') /\ buttons' \in Presses
    BY <1>2, <2>1
  <2> QED
    BY <2>2, <2>3 DEF InSound, Aligned, Genuine, Truthful
<1>3. CASE /\ lost' = Least(2, lost + 1)
           /\ \E q \in 0 .. Len(Incoming) - 1 : Incoming' = Missing(Incoming, q)
  <2>1. CASE lost = 0
    <3>1. PICK q \in 0 .. Len(Incoming) - 1 : Incoming' = Missing(Incoming, q)
      BY <1>3
    <3>2. Aligned(Incoming) /\ buttons \in Presses
      BY <2>1 DEF InInv
    <3>3. Genuine(Missing(Incoming, q))
      BY <1>1, <3>2, OneMissing
    <3>4. Genuine(Incoming')
      BY <3>1, <3>3
    <3>5. lost' = 1
      BY <1>3, <2>1 DEF Least
    <3> QED
      BY <3>2, <3>4, <3>5 DEF InSound, Genuine, Truthful
  <2>2. CASE lost # 0
    <3>1. lost' = 2
      BY <1>1, <1>3, <2>2 DEF Least
    <3> QED
      BY <3>1 DEF InSound
  <2> QED
    BY <2>1, <2>2
<1>4. CASE lost' = 2
  BY <1>4 DEF InSound
<1> QED
  BY <1>2, <1>3, <1>4 DEF Moved

\* What the ring held when the line discipline is detached.
LEMMA CloseMoves ==
  ASSUME TypeInv, Close
  PROVE  Moved
<1>1. /\ packet \in Seq(Byte) /\ rx \in Seq(Byte) /\ line \in Seq(Byte)
      /\ lost \in 0 .. 2
  BY DEF TypeInv, TypeOK, LineOK, SeenOK
<1>2. rx' = << >> /\ UNCHANGED << packet, line >> /\ Missed(Len(rx))
  BY DEF Close, cables
<1>3. Incoming' = packet \o line
  <2>1. Incoming' = packet \o (<< >> \o line)
    BY <1>2 DEF Incoming
  <2>2. << >> \o line = line
    BY <1>1, ConcatEmptySeq
  <2> QED
    BY <2>1, <2>2
<1>4. CASE Len(rx) = 0
  <2>1. rx = << >>
    BY <1>1, <1>4
  <2>2. Incoming = packet \o (<< >> \o line)
    BY <2>1 DEF Incoming
  <2>3. << >> \o line = line
    BY <1>1, ConcatEmptySeq
  <2>4. lost' = lost
    BY <1>1, <1>2, <1>4 DEF Missed, Least
  <2> QED
    BY <1>3, <2>2, <2>3, <2>4 DEF Moved
<1>5. CASE Len(rx) = 1
  <2> DEFINE v == rx \o line
  <2>1. /\ v \in Seq(Byte) /\ Len(v) = 1 + Len(line) /\ Len(line) \in Nat
    <3>1. v \in Seq(Byte) /\ Len(v) = Len(rx) + Len(line) /\ Len(line) \in Nat
      BY <1>1, Concatenated
    <3> QED
      BY <1>5, <3>1
  <2>2. 1 \in 1 .. Len(v)
    BY <2>1
  <2>3. First(1 - 1, v) \o After(1, v) = line
    <3>1. First(0, v) = << >>
      BY <2>1 DEF First, Least
    <3>2. After(1, rx) \o line = After(1, v)
      <4>1. 1 \in Nat /\ 1 =< Len(rx)
        BY <1>5
      <4> QED
        BY <1>1, <4>1, FrontGone
    <3>3. After(1, rx) = << >>
      BY <1>1, <1>5 DEF After
    <3>4. After(1, v) = line
      BY <1>1, <3>2, <3>3, ConcatEmptySeq
    <3> QED
      BY <1>1, <3>1, <3>4, ConcatEmptySeq
  <2>4. Incoming = packet \o v
    BY DEF Incoming
  <2> HIDE DEF v
  <2>5. /\ Len(packet) + 1 - 1 \in 0 .. Len(packet \o v) - 1
        /\ packet \o (First(1 - 1, v) \o After(1, v)) = Missing(packet \o v, Len(packet) + 1 - 1)
    BY <1>1, <2>1, <2>2, ByteLost
  <2>6. lost' = Least(2, lost + 1)
    BY <1>2, <1>5 DEF Missed
  <2> QED
    BY <1>3, <2>3, <2>4, <2>5, <2>6 DEF Moved
<1>6. CASE Len(rx) # 0 /\ Len(rx) # 1
  <2>1. Len(rx) \in Nat
    BY <1>1
  <2> QED
    BY <1>1, <1>2, <1>6, <2>1, LostCount DEF Moved
<1> QED
  BY <1>4, <1>5, <1>6

\* The controller sends whole packets.
LEMMA PacketSound ==
  ASSUME TypeInv, InInv, UNCHANGED << packet, rx, lost, buttons >>,
         \/ UNCHANGED line
         \/ line' = line \o Ack
         \/ line' = line \o Packet(MTCP_RESET, 0, 0)
         \/ \E p \in Presses : line' = line \o Event(p)
  PROVE  InSound'
<1>1. /\ packet \in Seq(Byte) /\ rx \in Seq(Byte) /\ line \in Seq(Byte)
      /\ rx \o line \in Seq(Byte) /\ Incoming \in Seq(Byte)
  BY IncomingBytes DEF TypeInv
<1>2. ASSUME NEW p \in Seq(Byte), Len(p) = 3, p[1] < 128, p[2] >= 128, p[3] >= 128,
             Truthful(p, 1), line' = line \o p
      PROVE  InSound'
  <2>1. Incoming' = Incoming \o p
    <3>1. Incoming' = packet \o (rx \o (line \o p))
      BY <1>2 DEF Incoming
    <3>2. packet \o (rx \o (line \o p)) = (packet \o (rx \o line)) \o p
      <4>1. /\ packet \in Seq(Byte) /\ rx \in Seq(Byte) /\ line \in Seq(Byte)
            /\ p \in Seq(Byte)
        BY <1>1
      <4> QED
        BY <4>1, LastOfFour, SMTT(20)
    <3> QED
      BY <3>1, <3>2 DEF Incoming
  <2>2. /\ Genuine(Incoming) => Genuine(Incoming \o p)
        /\ Aligned(Incoming) => Aligned(Incoming \o p)
    BY <1>1, <1>2, PacketBehind
  <2>3. /\ Genuine(Incoming) => Genuine(Incoming')
        /\ Aligned(Incoming) => Aligned(Incoming')
    BY <2>1, <2>2
  <2>4. lost' = lost /\ buttons' = buttons
    OBVIOUS
  <2> QED
    BY <2>3, <2>4 DEF InInv, InSound, Genuine, Aligned, Truthful
<1>3. CASE UNCHANGED line
  <2>1. Incoming' = Incoming /\ lost' = lost /\ buttons' = buttons
    BY <1>3 DEF Incoming
  <2>2. (Genuine(Incoming) => Genuine(Incoming')) /\ (Aligned(Incoming) => Aligned(Incoming'))
    BY <2>1
  <2> QED
    BY <2>1, <2>2 DEF InInv, InSound, Genuine, Aligned, Truthful
<1>4. CASE line' = line \o Ack
  <2>1. /\ Ack \in Seq(Byte) /\ Len(Ack) = 3 /\ Ack[1] = MTCP_ACK
        /\ Ack[2] >= 128 /\ Ack[3] >= 128
    BY AnswerBytes DEF Ack
  <2>2. Ack[1] < 128 /\ Ack[2] >= 128 /\ Ack[3] >= 128 /\ Truthful(Ack, 1)
    BY <2>1 DEF MTCP_ACK, MTCP_BIOC_EVENT, Truthful
  <2> QED
    BY <1>2, <1>4, <2>1, <2>2
<1>5. CASE line' = line \o Packet(MTCP_RESET, 0, 0)
  <2> DEFINE r == Packet(MTCP_RESET, 0, 0)
  <2>1. /\ r \in Seq(Byte) /\ Len(r) = 3 /\ r[1] = MTCP_RESET
        /\ r[2] >= 128 /\ r[3] >= 128
    BY AnswerBytes
  <2> HIDE DEF r
  <2>2. r[1] < 128 /\ r[2] >= 128 /\ r[3] >= 128 /\ Truthful(r, 1)
    BY <2>1 DEF MTCP_RESET, MTCP_BIOC_EVENT, Truthful
  <2> QED
    BY <1>2, <1>5, <2>1, <2>2 DEF r
<1>6. CASE \E p \in Presses : line' = line \o Event(p)
  <2>1. PICK p \in Presses : line' = line \o Event(p)
    BY <1>6
  <2> DEFINE e == Event(p)
  <2>2. 15 - p[1] \in 0 .. 15 /\ 15 - p[2] \in 0 .. 15 /\ p[1] \in 0 .. 15 /\ p[2] \in 0 .. 15
    BY EventTypes
  <2>3. /\ e \in Seq(Byte) /\ Len(e) = 3 /\ e[1] = MTCP_BIOC_EVENT
        /\ e[2] = 128 + (15 - p[1]) /\ e[3] = 128 + (15 - p[2])
    BY EventBytes
  <2> HIDE DEF e
  <2> DEFINE b == p[1]
             c == p[2]
  <2> HIDE DEF b, c
  <2>7. /\ b \in 0 .. 15 /\ c \in 0 .. 15
        /\ e[1] = 65 /\ e[2] = 128 + (15 - b) /\ e[3] = 128 + (15 - c)
    BY <2>2, <2>3 DEF MTCP_BIOC_EVENT, b, c
  <2>4. e[1] < 128 /\ e[2] >= 128 /\ e[3] >= 128
    BY <2>7
  <2>8. e[2] = 143 - b /\ e[3] = 143 - c
    BY <2>7
  <2>5. e[1 + 1] = 143 - p[1] /\ e[1 + 2] = 143 - p[2]
    BY <2>8 DEF b, c
  <2>6. Truthful(e, 1)
    BY <2>5 DEF Truthful
  <2> QED
    BY <1>2, <2>1, <2>3, <2>4, <2>6 DEF e
<1> QED
  BY <1>3, <1>4, <1>5, <1>6

\* A packet is handled: what it says of the buttons is true.
LEMMA HandleSound ==
  ASSUME TypeInv, InInv, HandlePacket
  PROVE  InSound'
<1>1. /\ packet \in Seq(Byte) /\ Len(packet) \in Nat /\ Len(packet) > 2
      /\ rx \o line \in Seq(Byte) /\ Incoming \in Seq(Byte)
      /\ Len(Incoming) >= 3
      /\ Incoming[1] = packet[1] /\ Incoming[2] = packet[2] /\ Incoming[3] = packet[3]
  <2>1. /\ packet \in Seq(Byte) /\ Len(packet) \in Nat /\ rx \o line \in Seq(Byte)
        /\ Incoming \in Seq(Byte) /\ Len(Incoming) = Len(packet) + Len(rx \o line)
        /\ \A i \in 1 .. Len(packet) : Incoming[i] = packet[i]
    BY IncomingBytes DEF TypeInv
  <2>2. Len(packet) > 2
    BY DEF HandlePacket, Framing
  <2>3. 1 \in 1 .. Len(packet) /\ 2 \in 1 .. Len(packet) /\ 3 \in 1 .. Len(packet)
    BY <2>1, <2>2
  <2>4. Len(rx \o line) \in Nat
    BY <2>1
  <2> QED
    BY <2>1, <2>2, <2>3, <2>4
<1>2. /\ packet' = After(3, packet) /\ UNCHANGED << rx, line, lost >>
      /\ IsPacket(packet[1], packet[2], packet[3])
  BY DEF HandlePacket
<1>3. Incoming' = After(3, Incoming)
  <2>1. After(3, packet) \o (rx \o line) = After(3, packet \o (rx \o line))
    <3>1. 3 \in Nat /\ 3 =< Len(packet)
      BY <1>1
    <3> QED
      BY <1>1, <3>1, FrontGone
  <2> QED
    BY <1>2, <2>1 DEF Incoming
<1>4. /\ Genuine(Incoming) => Genuine(Incoming')
      /\ Aligned(Incoming) => Aligned(Incoming')
  BY <1>1, <1>3, BytesGone
<1>5. ASSUME lost < 2
      PROVE  buttons' \in Presses
  <2>1. Genuine(Incoming) /\ buttons \in Presses
    BY <1>5 DEF InInv
  <2>2. CASE packet[1] # MTCP_BIOC_EVENT
    BY <2>1, <2>2 DEF HandlePacket
  <2>3. CASE packet[1] = MTCP_BIOC_EVENT
    <3>1. 1 \in 1 .. Len(Incoming) - 2
      BY <1>1
    <3>2. IsPacket(Incoming[1], Incoming[1 + 1], Incoming[1 + 2])
      BY <1>1, <1>2
    <3>3. Truthful(Incoming, 1)
      BY <2>1, <3>1, <3>2 DEF Genuine
    <3>4. PICK p \in Presses : Incoming[1 + 1] = 143 - p[1] /\ Incoming[1 + 2] = 143 - p[2]
      BY <1>1, <2>3, <3>3 DEF Truthful
    <3>5. packet[2] = 143 - p[1] /\ packet[3] = 143 - p[2]
      BY <1>1, <3>4
    <3>6. p[1] \in 0 .. 15 /\ p[2] \in 0 .. 15 /\ p = << p[1], p[2] >>
      BY EventTypes
    <3>7. (143 - p[1]) % 16 = 15 - p[1] /\ (143 - p[2]) % 16 = 15 - p[2]
      BY <3>6
    <3>8. buttons' = << 15 - (packet[2] % 16), 15 - (packet[3] % 16) >>
      BY <2>3 DEF HandlePacket
    <3>9. buttons' = << p[1], p[2] >>
      BY <3>5, <3>6, <3>7, <3>8
    <3> QED
      BY <3>6, <3>9
  <2> QED
    BY <2>2, <2>3
<1> QED
  BY <1>2, <1>4, <1>5 DEF InInv, InSound, Genuine, Aligned, Truthful

\* A byte is passed over only after a loss.
LEMMA SkipSound ==
  ASSUME TypeInv, InInv, SkipByte
  PROVE  InSound' /\ lost # 0
<1>1. /\ packet \in Seq(Byte) /\ Len(packet) \in Nat /\ Len(packet) > 2
      /\ rx \o line \in Seq(Byte) /\ Incoming \in Seq(Byte)
      /\ Len(Incoming) \in Nat /\ Len(Incoming) >= 3
      /\ Incoming[1] = packet[1] /\ Incoming[2] = packet[2] /\ Incoming[3] = packet[3]
  <2>1. /\ packet \in Seq(Byte) /\ Len(packet) \in Nat /\ rx \o line \in Seq(Byte)
        /\ Incoming \in Seq(Byte) /\ Len(Incoming) = Len(packet) + Len(rx \o line)
        /\ \A i \in 1 .. Len(packet) : Incoming[i] = packet[i]
    BY IncomingBytes DEF TypeInv
  <2>2. Len(packet) > 2
    BY DEF SkipByte, Framing
  <2>3. 1 \in 1 .. Len(packet) /\ 2 \in 1 .. Len(packet) /\ 3 \in 1 .. Len(packet)
    BY <2>1, <2>2
  <2>4. Len(rx \o line) \in Nat
    BY <2>1
  <2> QED
    BY <2>1, <2>2, <2>3, <2>4
<1>2. /\ packet' = Tail(packet) /\ UNCHANGED << rx, line, lost, buttons >>
      /\ ~IsPacket(packet[1], packet[2], packet[3])
  BY DEF SkipByte, seen, cables
<1>3. ~Aligned(Incoming)
  <2> SUFFICES ASSUME Aligned(Incoming)
               PROVE  FALSE
    OBVIOUS
  <2>1. 1 \in 1 .. Len(Incoming) /\ 2 \in 1 .. Len(Incoming) /\ 3 \in 1 .. Len(Incoming)
    BY <1>1
  <2>2. 1 % 3 = 1 /\ 2 % 3 # 1 /\ 3 % 3 # 1
    OBVIOUS
  <2>3. Incoming[1] < 128 /\ Incoming[2] >= 128 /\ Incoming[3] >= 128
    BY <2>1, <2>2 DEF Aligned
  <2> QED
    BY <1>1, <1>2, <2>3 DEF IsPacket
<1>4. Incoming' = After(1, Incoming)
  <2>1. After(1, packet) \o (rx \o line) = After(1, packet \o (rx \o line))
    <3>1. 1 \in Nat /\ 1 =< Len(packet)
      BY <1>1
    <3> QED
      BY <1>1, <3>1, FrontGone
  <2>2. Tail(packet) = After(1, packet)
    BY <1>1 DEF After
  <2> QED
    BY <1>2, <2>1, <2>2 DEF Incoming
<1>5. Genuine(Incoming) => Genuine(Incoming')
  <2>1. 1 \in Nat /\ 1 =< Len(Incoming)
    BY <1>1
  <2> QED
    BY <1>1, <1>4, <2>1, BytesGone
<1> QED
  <2>1. lost # 0
    BY <1>3 DEF InInv
  <2>2. InSound'
    BY <1>2, <1>3, <1>5 DEF InInv, InSound, Genuine, Truthful
  <2> QED
    BY <2>1, <2>2

LEMMA InInit == Init => InInv
<1> SUFFICES ASSUME Init
             PROVE  InInv
  OBVIOUS
<1>1. rx = << >> /\ packet = << >> /\ line = << >> /\ buttons = << 0, 0 >>
  BY DEF Init
<1>2. Incoming = << >>
  BY <1>1 DEF Incoming
<1>3. Aligned(Incoming) /\ Genuine(Incoming)
  BY <1>2 DEF Aligned, Genuine
<1> QED
  BY <1>1, <1>3, Constants DEF InInv

LEMMA InStep == TypeInv /\ InInv /\ [Next]_vars => InInv'
<1> SUFFICES ASSUME TypeInv, InInv, [Next]_vars
             PROVE  InInv'
  OBVIOUS
<1>1. (~open => rx = << >>)'
  <2>1. ~open => rx = << >>
    BY DEF InInv
  <2>2. CASE Open \/ Close
    BY <2>2 DEF Open, Close
  <2>3. ASSUME NEW k \in Chunks, Receive(k)
        PROVE  (~open => rx = << >>)'
    BY <2>1, <2>3 DEF Receive, rings
  <2>4. CASE \/ HandlePacket \/ SkipByte \/ WriteWakeup \/ CallerStep \/ TuxInit
             \/ (\E leds \in Shown : TuxSetLed(leds)) \/ DeviceByte \/ LoseByte \/ Reset
             \/ (\E p \in Presses : Press(p)) \/ UNCHANGED vars
    <3>1. UNCHANGED << rx, open >>
      BY <2>4 DEF HandlePacket, SkipByte, WriteWakeup, CallerStep, StoreByte, PutBytes,
           AskRoom, PopBytes, WriteBytes, SetFlag, TuxInit, TuxSetLed, Start, DeviceByte,
           LoseByte, Reset, Press, vars, driver, rings, seen
    <3> QED
      BY <2>1, <3>1
  <2> QED
    BY <2>2, <2>3, <2>4 DEF Next, Others, Interrupt
<1>2. InSound'
  <2>1. ASSUME NEW k \in Chunks, Receive(k), ~Framing
        PROVE  InSound'
    <3>1. Moved
      BY <2>1, ReceiveMoves DEF InInv
    <3>2. UNCHANGED buttons
      BY <2>1 DEF Receive
    <3> QED
      BY <3>1, <3>2, MovedSound
  <2>2. CASE Close
    BY <2>2, CloseMoves, MovedSound DEF Close
  <2>3. CASE LoseByte
    <3>1. line \in Seq(Byte) /\ packet \o rx \in Seq(Byte)
          /\ packet \in Seq(Byte) /\ rx \in Seq(Byte)
      BY Concatenated DEF TypeInv, TypeOK, LineOK
    <3>2. line # << >> /\ line' = Tail(line) /\ Missed(1)
          /\ UNCHANGED << packet, rx, buttons >>
      BY <2>3 DEF LoseByte, driver, rings
    <3> DEFINE u == packet \o rx
    <3>3. Incoming = u \o line
      <4>1. (packet \o rx) \o line = packet \o (rx \o line)
        BY <3>1, ByteAssociative
      <4> QED
        BY <4>1, Zenon DEF Incoming
    <3>4. Tail(line) = After(1, line) /\ Tail(line) \in Seq(Byte) /\ 1 \in 1 .. Len(line)
      <4>1. Len(line) \in Nat /\ Len(line) # 0
        BY <3>1, <3>2
      <4>2. Tail(line) = After(1, line)
        BY <3>1, <3>2 DEF After
      <4>3. Tail(line) \in Seq(Byte)
        BY <3>1, <3>2
      <4> QED
        BY <4>1, <4>2, <4>3
    <3>5. Incoming' = packet \o (rx \o After(1, line))
      BY <3>2, <3>4 DEF Incoming
    <3>6. packet \o (rx \o After(1, line)) = u \o After(1, line)
      <4>1. After(1, line) \in Seq(Byte)
        BY <3>4
      <4> QED
        BY <3>1, <4>1, Associative, Zenon
    <3> HIDE DEF u
    <3>7. /\ Len(u) + 1 - 1 \in 0 .. Len(u \o line) - 1
          /\ u \o (First(1 - 1, line) \o After(1, line)) = Missing(u \o line, Len(u) + 1 - 1)
      BY <3>1, <3>4, ByteLost DEF u
    <3>8. First(1 - 1, line) \o After(1, line) = After(1, line)
      <4>1. First(0, line) = << >>
        BY <3>1 DEF First, Least
      <4> QED
        BY <3>4, <4>1, ConcatEmptySeq
    <3>9. Incoming' = Missing(Incoming, Len(u) + 1 - 1)
      BY <3>3, <3>5, <3>6, <3>7, <3>8
    <3>10. Moved
      BY <3>2, <3>3, <3>7, <3>9 DEF Moved, Missed
    <3> QED
      BY <3>2, <3>10, MovedSound
  <2>4. CASE HandlePacket
    BY <2>4, HandleSound
  <2>5. CASE SkipByte
    BY <2>5, SkipSound
  <2>6. CASE Open
    <3>1. rx' = rx
      BY <2>6 DEF Open, InInv
    <3>2. UNCHANGED << packet, line, lost, buttons >>
      BY <2>6 DEF Open, cables, seen
    <3> QED
      BY <3>1, <3>2, PacketSound
  <2>7. CASE \/ WriteWakeup \/ CallerStep \/ TuxInit
             \/ (\E leds \in Shown : TuxSetLed(leds)) \/ UNCHANGED vars
    <3>1. UNCHANGED << packet, rx, line, lost, buttons >>
      BY <2>7 DEF WriteWakeup, CallerStep, StoreByte, PutBytes,
           AskRoom, PopBytes, WriteBytes, SetFlag, TuxInit, TuxSetLed, Start,
           vars, driver, rings, seen, cables
    <3> QED
      BY <3>1, PacketSound
  <2>8. CASE DeviceByte \/ Reset \/ \E p \in Presses : Press(p)
    <3>1. UNCHANGED << packet, rx, lost, buttons >>
      BY <2>8 DEF DeviceByte, Reset, Press, driver, rings, seen
    <3>2. CASE DeviceByte
      <4>1. UNCHANGED line \/ line' = line \o Ack
        BY <3>2, Zenon DEF DeviceByte
      <4> QED
        BY <3>1, <4>1, PacketSound
    <3>3. CASE Reset
      BY <3>1, <3>3, PacketSound DEF Reset
    <3>4. ASSUME NEW p \in Presses, Press(p)
          PROVE  InSound'
      <4>1. UNCHANGED line \/ line' = line \o Event(p)
        BY <3>4, Zenon DEF Press
      <4> QED
        BY <3>1, <4>1, PacketSound
    <3> QED
      BY <2>8, <3>2, <3>3, <3>4
  <2> QED
    BY <2>1, <2>2, <2>3, <2>4, <2>5, <2>6, <2>7, <2>8 DEF Next, Others, Interrupt
<1> QED
  BY <1>1, <1>2 DEF InInv, InSound

\* With one byte lost at most, wherever it is lost, the program gets the
\* buttons of one moment (tuxctl-ld.c:273, tuxctl-ioctl.c:138).
THEOREM ButtonsFromOneMoment == Spec => []ButtonsOfOneMoment
<1>1. TypeInv /\ InInv => ButtonsOfOneMoment
  BY DEF InInv, ButtonsOfOneMoment, TuxButtons
<1> QED
  BY <1>1, TypeInit, TypeStep, InInit, InStep, PTL DEF Spec

-----------------------------------------------------------------------------
(* What is sent.  A call of the serial driver that had to drop nothing left *)
(* nothing in the ring.                                                     *)

LEMMA AllOf ==
  ASSUME NEW s \in Seq(Byte), NEW n \in Nat, Len(s) =< n
  PROVE  First(n, s) = s /\ After(n, s) = << >>
<1>1. Len(s) \in Nat
  OBVIOUS
<1>2. Least(n, Len(s)) = Len(s)
  BY <1>1 DEF Least
<1>3. SubSeq(s, 1, Len(s)) = s
  BY SubSeqFull
<1>4. SubSeq(s, n + 1, Len(s)) = << >>
  BY <1>1
<1> QED
  BY <1>2, <1>3, <1>4 DEF First, After

LEMMA WokenSends ==
  ASSUME NEW p \in Ports
  PROVE  /\ Len(p.wire) =< Len(Woken(p).wire) /\ Len(Woken(p).tx) =< Len(p.tx)
         /\ ~Woken(p).over =>
              /\ ~p.over /\ Woken(p).tx = << >> /\ Woken(p).wire = p.wire \o p.tx
<1> DEFINE r == WriteRoom(p.wire)
           n == Popped(r, p.tx)
<1>1. /\ p.tx \in Seq(Byte) /\ p.wire \in Seq(Byte) /\ Len(p.wire) =< Xmit
      /\ Len(p.tx) \in Nat /\ Len(p.wire) \in Nat
  BY DEF Ports
<1>2. r \in Nat /\ r = Xmit - Len(p.wire)
  BY <1>1 DEF WriteRoom
<1>3. /\ Woken(p).tx = After(n, p.tx) /\ Woken(p).wire = Sent(p.wire, First(n, p.tx))
      /\ Woken(p).over = (p.over \/ n > r)
  BY DEF Woken
<1> HIDE DEF r
<1>4. n \in Nat /\ (n =< r => n = Len(p.tx)) /\ (r + 1 < Len(p.tx) => n = r + 1)
  <2> DEFINE l == Len(p.tx)
  <2>1. l \in Nat /\ r \in Nat /\ n = IF r + 1 < l THEN r + 1 ELSE l
    BY <1>1, <1>2 DEF Popped, Least
  <2> HIDE DEF l, n
  <2>2. n \in Nat /\ (n =< r => n = l) /\ (r + 1 < l => n = r + 1)
    BY <2>1
  <2> QED
    BY <2>2 DEF l
<1> HIDE DEF n
<1>5. /\ First(n, p.tx) \in Seq(Byte) /\ Len(After(n, p.tx)) = Len(p.tx) - Least(n, Len(p.tx))
  BY <1>1, <1>4, Parts
<1>6. Least(n, Len(p.tx)) \in Nat
  BY <1>1, <1>4 DEF Least
<1>7. Len(p.wire) =< Len(Sent(p.wire, First(n, p.tx)))
  BY <1>1, <1>5, SentFits
<1>8. ASSUME ~Woken(p).over
      PROVE  ~p.over /\ Woken(p).tx = << >> /\ Woken(p).wire = p.wire \o p.tx
  <2>1. ~p.over /\ ~(n > r)
    BY <1>3, <1>8, Zenon
  <2>2. n = Len(p.tx) /\ Len(p.tx) =< r
    <3>1. n =< r
      BY <1>2, <1>4, <2>1
    <3> QED
      BY <1>4, <3>1
  <2>3. First(n, p.tx) = p.tx /\ After(n, p.tx) = << >>
    BY <1>1, <1>4, <2>2, AllOf
  <2>4. First(r, p.tx) = p.tx
    BY <1>1, <1>2, <2>2, AllOf
  <2>5. Sent(p.wire, p.tx) = p.wire \o p.tx
    BY <1>2, <2>4 DEF Sent
  <2>6. Woken(p).tx = << >> /\ Woken(p).wire = p.wire \o p.tx
    BY <1>3, <2>3, <2>5, Zenon
  <2> QED
    BY <2>1, <2>6
<1>9. Len(p.wire) =< Len(Woken(p).wire)
  BY <1>3, <1>7, Zenon
<1>10. Len(Woken(p).tx) =< Len(p.tx)
  <2>1. Len(After(n, p.tx)) =< Len(p.tx)
    BY <1>1, <1>5, <1>6
  <2> QED
    BY <1>3, <2>1, Zenon
<1> QED
  BY <1>8, <1>9, <1>10, Zenon

LEMMA PutSends ==
  ASSUME NEW p \in Ports, NEW x \in Seq(Byte)
  PROVE  /\ Len(p.wire) =< Len(Put(p, x).wire)
         /\ ~Put(p, x).over => ~p.over /\ Put(p, x).tx = << >>
         /\ ~Put(p, x).over /\ Len(p.tx) + Len(x) < TUXCTL_BUFSIZE =>
              Put(p, x).wire = p.wire \o (p.tx \o x)
<1> DEFINE q == [tx |-> Fill(p.tx, x), wire |-> p.wire, over |-> p.over]
<1>1. q \in Ports
  BY RingFilled DEF Ports
<1>2. Put(p, x) = Woken(q) /\ q.tx = Fill(p.tx, x) /\ q.wire = p.wire /\ q.over = p.over
  BY DEF Put
<1> HIDE DEF q
<1>3. /\ Len(q.wire) =< Len(Woken(q).wire)
      /\ ~Woken(q).over =>
           /\ ~q.over /\ Woken(q).tx = << >> /\ Woken(q).wire = q.wire \o q.tx
  BY <1>1, WokenSends
<1>4. ASSUME Len(p.tx) + Len(x) < TUXCTL_BUFSIZE
      PROVE  Fill(p.tx, x) = p.tx \o x
  <2>1. Len(p.tx) \in Nat /\ Len(x) \in Nat
    BY DEF Ports
  <2>2. BufRoom(p.tx) \in Nat /\ Len(x) =< BufRoom(p.tx)
    <3>1. BufRoom(p.tx) = TUXCTL_BUFSIZE - Len(p.tx) - 1
      BY DEF BufRoom
    <3>2. TUXCTL_BUFSIZE \in Nat
      OBVIOUS
    <3> QED
      <4> DEFINE a == Len(p.tx)
                 b == Len(x)
                 c == TUXCTL_BUFSIZE
      <4>1. a \in Nat /\ b \in Nat /\ c \in Nat /\ a + b < c
        BY <1>4, <2>1, <3>2
      <4> HIDE DEF a, b, c
      <4>2. c - a - 1 \in Nat /\ b =< c - a - 1
        BY <4>1
      <4> QED
        BY <3>1, <4>2 DEF a, b, c
  <2> QED
    BY <2>2, AllOf DEF Fill
<1> QED
  BY <1>2, <1>3, <1>4

\* A controller that was reset gets three commands, behind those of the ring.
LEMMA RestoredSends ==
  ASSUME NEW p \in Ports, TypeOK
  PROVE  LET a == p.wire \o (p.tx \o << MTCP_BIOC_ON >>)
             b == a \o << MTCP_LED_USR >>
         IN  /\ Len(p.wire) =< Len(Restored(p).wire)
             /\ ~Restored(p).over => ~p.over /\ Restored(p).tx = << >>
             /\ ~Restored(p).over /\ Len(p.tx) =< LED_BUFF_SIZE =>
                  Restored(p).wire = b \o buffer
<1> DEFINE on == << MTCP_BIOC_ON >>
           usr == << MTCP_LED_USR >>
           q == Put(p, on)
           r == Put(q, usr)
           s == Put(r, buffer)
           a == p.wire \o (p.tx \o on)
           b == a \o usr
<1>1. on \in Seq(Byte) /\ usr \in Seq(Byte) /\ Len(on) = 1 /\ Len(usr) = 1
  BY DEF MTCP_BIOC_ON, MTCP_LED_USR, Byte
<1>2. buffer \in Seq(Byte) /\ Len(buffer) = LED_BUFF_SIZE
  BY BufferIsSeq
<1>3. Restored(p) = s
  BY DEF Restored
<1> HIDE DEF on, usr
<1>4. q \in Ports
  BY <1>1, PutPort
<1>5. /\ Len(p.wire) =< Len(q.wire) /\ (~q.over => ~p.over /\ q.tx = << >>)
      /\ ~q.over /\ Len(p.tx) + Len(on) < TUXCTL_BUFSIZE => q.wire = p.wire \o (p.tx \o on)
  BY <1>1, PutSends
<1>6. p.tx \in Seq(Byte) /\ Len(p.tx) \in Nat /\ p.wire \in Seq(Byte) /\ Len(p.wire) \in Nat
  BY DEF Ports
<1>7. /\ Len(p.tx) =< LED_BUFF_SIZE => Len(p.tx) + Len(on) < TUXCTL_BUFSIZE
      /\ LED_BUFF_SIZE \in Nat
  BY <1>1, <1>6, Constants
<1> HIDE DEF q
<1>8. r \in Ports
  BY <1>1, <1>4, PutPort
<1>9. /\ Len(q.wire) =< Len(r.wire) /\ (~r.over => ~q.over /\ r.tx = << >>)
      /\ ~r.over /\ Len(q.tx) + Len(usr) < TUXCTL_BUFSIZE => r.wire = q.wire \o (q.tx \o usr)
  BY <1>1, <1>4, PutSends
<1> HIDE DEF r
<1>10. /\ Len(r.wire) =< Len(s.wire) /\ (~s.over => ~r.over /\ s.tx = << >>)
       /\ ~s.over /\ Len(r.tx) + Len(buffer) < TUXCTL_BUFSIZE
            => s.wire = r.wire \o (r.tx \o buffer)
  BY <1>2, <1>8, PutSends
<1>11. s \in Ports
  BY <1>2, <1>8, PutPort
<1> HIDE DEF s
<1>12. Len(p.wire) =< Len(s.wire)
  <2>1. Len(q.wire) \in Nat /\ Len(r.wire) \in Nat /\ Len(s.wire) \in Nat
    BY <1>4, <1>8, <1>11 DEF Ports
  <2> QED
    BY <1>5, <1>6, <1>9, <1>10, <2>1
<1>13. ASSUME ~s.over
       PROVE  /\ ~p.over /\ s.tx = << >>
              /\ Len(p.tx) =< LED_BUFF_SIZE => s.wire = b \o buffer
  <2>1. ~r.over /\ ~q.over /\ ~p.over /\ q.tx = << >> /\ r.tx = << >> /\ s.tx = << >>
    BY <1>5, <1>9, <1>10, <1>13
  <2> SUFFICES ASSUME Len(p.tx) =< LED_BUFF_SIZE
               PROVE  s.wire = b \o buffer
    BY <2>1
  <2>2. q.wire = a
    BY <1>5, <1>7, <2>1
  <2>3. Len(q.tx) + Len(usr) < TUXCTL_BUFSIZE /\ Len(r.tx) + Len(buffer) < TUXCTL_BUFSIZE
    BY <1>1, <1>2, <2>1, Constants
  <2>4. << >> \o usr = usr /\ << >> \o buffer = buffer
    BY <1>1, <1>2, ConcatEmptySeq
  <2>5. r.wire = b
    BY <1>9, <2>1, <2>2, <2>3, <2>4
  <2> QED
    BY <1>10, <1>13, <2>1, <2>3, <2>4, <2>5
<1> QED
  BY <1>3, <1>12, <1>13 DEF on, usr

\* Where commands begin and end in bytes that are nothing but commands.
Cut(B, c) ==
    /\ B \subseteq 0 .. Len(c) /\ 0 \in B /\ Len(c) \in B
    /\ \A b \in B : b < Len(c) =>
          \/ c[b + 1] \in {MTCP_BIOC_ON, MTCP_LED_USR} /\ b + 1 \in B
          \/ /\ c[b + 1] = MTCP_LED_SET /\ c[b + 2] = AllLeds
             /\ b + LED_BUFF_SIZE \in B

Whole(c) == \E B \in SUBSET (0 .. Len(c)) : Cut(B, c)

LEMMA WholeEmpty == Whole(<< >>)
<1>1. Cut({0}, << >>)
  BY DEF Cut
<1>2. {0} \in SUBSET (0 .. Len(<< >>))
  OBVIOUS
<1> QED
  BY <1>1, <1>2 DEF Whole

LEMMA CommandIsWhole ==
  ASSUME NEW c, Command(c)
  PROVE  c \in Seq(Byte) /\ Whole(c) /\ Len(c) \in 1 .. LED_BUFF_SIZE
<1>1. /\ c \in Seq(Byte) /\ Len(c) \in Nat
      /\ \/ Len(c) = 1 /\ c[1] \in {MTCP_BIOC_ON, MTCP_LED_USR}
         \/ Len(c) = LED_BUFF_SIZE /\ c[1] = MTCP_LED_SET /\ c[2] = AllLeds
  BY DEF Command
<1>2. LED_BUFF_SIZE \in 3 .. 6
  BY Constants
<1> DEFINE B == {0, Len(c)}
<1>3. B \in SUBSET (0 .. Len(c))
  BY <1>1
<1>4. ASSUME NEW b \in B, b < Len(c)
      PROVE  \/ c[b + 1] \in {MTCP_BIOC_ON, MTCP_LED_USR} /\ b + 1 \in B
             \/ /\ c[b + 1] = MTCP_LED_SET /\ c[b + 2] = AllLeds
                /\ b + LED_BUFF_SIZE \in B
  <2>1. b = 0
    BY <1>1, <1>4
  <2> QED
    BY <1>1, <1>2, <2>1
<1>5. Cut(B, c)
  BY <1>1, <1>3, <1>4 DEF Cut
<1> QED
  BY <1>1, <1>2, <1>3, <1>5 DEF Whole

LEMMA WholeJoined ==
  ASSUME NEW c \in Seq(Byte), NEW x \in Seq(Byte), Whole(c), Whole(x)
  PROVE  Whole(c \o x)
<1> DEFINE n == Len(c)
           m == Len(x)
           t == c \o x
<1>1. /\ n \in Nat /\ m \in Nat /\ t \in Seq(Byte) /\ Len(t) = n + m
      /\ \A i \in 1 .. n : t[i] = c[i]
      /\ \A i \in 1 .. m : t[n + i] = x[i]
  BY Concatenated
<1>2. PICK B \in SUBSET (0 .. n) : Cut(B, c)
  BY DEF Whole
<1>3. PICK A \in SUBSET (0 .. m) : Cut(A, x)
  BY DEF Whole
<1>4. /\ 0 \in B /\ n \in B
      /\ \A b \in B : b < n =>
            \/ c[b + 1] \in {MTCP_BIOC_ON, MTCP_LED_USR} /\ b + 1 \in B
            \/ c[b + 1] = MTCP_LED_SET /\ c[b + 2] = AllLeds /\ b + LED_BUFF_SIZE \in B
  BY <1>2 DEF Cut
<1>5. /\ 0 \in A /\ m \in A
      /\ \A b \in A : b < m =>
            \/ x[b + 1] \in {MTCP_BIOC_ON, MTCP_LED_USR} /\ b + 1 \in A
            \/ x[b + 1] = MTCP_LED_SET /\ x[b + 2] = AllLeds /\ b + LED_BUFF_SIZE \in A
  BY <1>3 DEF Cut
<1> HIDE DEF n, m, t
<1>0. (\A b \in B : b \in Nat /\ b =< n) /\ (\A a \in A : a \in Nat /\ a =< m)
  <2>1. n \in Nat /\ m \in Nat
    BY <1>1
  <2>2. ASSUME NEW b \in B
        PROVE  b \in Nat /\ b =< n
    <3>1. b \in 0 .. n
      OBVIOUS
    <3> QED
      BY <2>1, <3>1
  <2>3. ASSUME NEW a \in A
        PROVE  a \in Nat /\ a =< m
    <3>1. a \in 0 .. m
      OBVIOUS
    <3> QED
      BY <2>1, <3>1
  <2> QED
    BY <2>2, <2>3
<1> DEFINE C == B \cup {n + a : a \in A}
<1>6. LED_BUFF_SIZE \in 3 .. 6
  BY Constants
<1>7. C \in SUBSET (0 .. n + m)
  <2>1. \A b \in B : b \in 0 .. n + m
    BY <1>0, <1>1
  <2>2. \A a \in A : n + a \in 0 .. n + m
    BY <1>0, <1>1
  <2> QED
    BY <2>1, <2>2
<1>8. 0 \in C /\ n + m \in C
  BY <1>4, <1>5
<1>9. ASSUME NEW b \in B, b < n
      PROVE  \/ t[b + 1] \in {MTCP_BIOC_ON, MTCP_LED_USR} /\ b + 1 \in C
             \/ t[b + 1] = MTCP_LED_SET /\ t[b + 2] = AllLeds /\ b + LED_BUFF_SIZE \in C
  <2>1. CASE c[b + 1] \in {MTCP_BIOC_ON, MTCP_LED_USR} /\ b + 1 \in B
    <3>1. b + 1 \in 1 .. n
      <4>1. n \in Nat /\ b \in Nat
        BY <1>0, <1>1
      <4> QED
        BY <4>1, <1>9
    <3> QED
      BY <1>1, <2>1, <3>1
  <2>2. CASE c[b + 1] = MTCP_LED_SET /\ c[b + 2] = AllLeds /\ b + LED_BUFF_SIZE \in B
    <3>1. b + 1 \in 1 .. n /\ b + 2 \in 1 .. n
      <4> DEFINE z == LED_BUFF_SIZE
      <4>1. b \in Nat /\ b + z =< n /\ z \in 3 .. 6 /\ n \in Nat
        BY <1>0, <1>1, <1>6, <2>2
      <4> HIDE DEF z
      <4> QED
        BY <4>1
    <3> QED
      BY <1>1, <2>2, <3>1
  <2> QED
    BY <1>4, <1>9, <2>1, <2>2
<1>10. ASSUME NEW a \in A, a < m
       PROVE  \/ t[n + a + 1] \in {MTCP_BIOC_ON, MTCP_LED_USR} /\ n + a + 1 \in C
              \/ /\ t[n + a + 1] = MTCP_LED_SET /\ t[n + a + 2] = AllLeds
                 /\ n + a + LED_BUFF_SIZE \in C
  <2>1. CASE x[a + 1] \in {MTCP_BIOC_ON, MTCP_LED_USR} /\ a + 1 \in A
    <3>1. a + 1 \in 1 .. m /\ n + (a + 1) = n + a + 1
      <4>1. a \in Nat /\ a < m /\ m \in Nat /\ n \in Nat
        BY <1>0, <1>1, <1>10
      <4> QED
        BY <4>1
    <3>2. t[n + (a + 1)] = x[a + 1] /\ n + (a + 1) \in C
      BY <1>1, <2>1, <3>1
    <3> QED
      BY <2>1, <3>1, <3>2
  <2>2. CASE x[a + 1] = MTCP_LED_SET /\ x[a + 2] = AllLeds /\ a + LED_BUFF_SIZE \in A
    <3>1. /\ a + 1 \in 1 .. m /\ a + 2 \in 1 .. m
          /\ n + (a + 1) = n + a + 1 /\ n + (a + 2) = n + a + 2
          /\ n + (a + LED_BUFF_SIZE) = n + a + LED_BUFF_SIZE
      <4>1. a \in Nat /\ a + LED_BUFF_SIZE =< m
        BY <1>0, <2>2
      <4> QED
        BY <1>1, <1>6, <4>1
    <3>2. /\ t[n + (a + 1)] = x[a + 1] /\ t[n + (a + 2)] = x[a + 2]
          /\ n + (a + LED_BUFF_SIZE) \in C
      BY <1>1, <2>2, <3>1
    <3> QED
      BY <2>2, <3>1, <3>2
  <2> QED
    BY <1>5, <1>10, <2>1, <2>2
<1>11. ASSUME NEW b \in C, b < n + m
       PROVE  \/ t[b + 1] \in {MTCP_BIOC_ON, MTCP_LED_USR} /\ b + 1 \in C
              \/ t[b + 1] = MTCP_LED_SET /\ t[b + 2] = AllLeds /\ b + LED_BUFF_SIZE \in C
  <2>1. CASE b \in B /\ b < n
    BY <1>9, <2>1
  <2>2. CASE ~(b \in B /\ b < n)
    <3>1. \E a \in A : b = n + a
      <4>1. CASE b \in B
        <5>1. b = n + 0
          <6>1. b \in Nat /\ b =< n /\ ~(b < n)
            BY <1>0, <2>2, <4>1
          <6> QED
            BY <1>1, <6>1
        <5> QED
          BY <1>5, <5>1
      <4> QED
        BY <4>1
    <3>2. PICK a \in A : b = n + a
      BY <3>1
    <3>3. a < m
      <4>1. a \in Nat /\ n + a < n + m
        BY <1>0, <1>11, <3>2
      <4> QED
        BY <1>1, <4>1
    <3> HIDE DEF C
    <3> QED
      BY <1>10, <3>2, <3>3
  <2> QED
    BY <2>1, <2>2
<1>12. Cut(C, t)
  BY <1>1, <1>7, <1>8, <1>11 DEF Cut
<1> HIDE DEF C
<1>13. Whole(t)
  BY <1>1, <1>7, <1>12 DEF Whole
<1> QED
  BY <1>13 DEF t

\* After a command that was carried out the rest is still whole.
LEMMA WholeRest ==
  ASSUME NEW c \in Seq(Byte), NEW B \in SUBSET (0 .. Len(c)), Cut(B, c), NEW n \in B
  PROVE  Whole(After(n, c))
<1> DEFINE t == After(n, c)
           m == Len(c)
<1>1. /\ n \in Nat /\ m \in Nat /\ n =< m
      /\ t \in Seq(Byte) /\ Len(t) = m - n
      /\ \A i \in 1 .. m - n : t[i] = c[n + i]
  <2>1. n \in Nat /\ m \in Nat /\ n =< m
    OBVIOUS
  <2>2. Least(n, m) = n
    BY <2>1 DEF Least
  <2>3. t \in Seq(Byte) /\ Len(t) = m - Least(n, m) /\ \A i \in 1 .. m - n : t[i] = c[n + i]
    BY <2>1, Parts
  <2> QED
    BY <2>1, <2>2, <2>3
<1>2. /\ 0 \in B /\ m \in B
      /\ \A b \in B : b < m =>
            \/ c[b + 1] \in {MTCP_BIOC_ON, MTCP_LED_USR} /\ b + 1 \in B
            \/ c[b + 1] = MTCP_LED_SET /\ c[b + 2] = AllLeds /\ b + LED_BUFF_SIZE \in B
  BY DEF Cut
<1> HIDE DEF t, m
<1>3. LED_BUFF_SIZE \in 3 .. 6 /\ \A b \in B : b \in 0 .. m
  BY Constants DEF m
<1> DEFINE A == {a \in 0 .. m - n : n + a \in B}
<1>4. A \in SUBSET (0 .. m - n) /\ 0 \in A /\ m - n \in A
  <2>1. n + 0 = n /\ n + (m - n) = m /\ m - n \in Nat
    BY <1>1
  <2> QED
    BY <1>1, <1>2, <2>1
<1>5. ASSUME NEW a \in A, a < m - n
      PROVE  \/ t[a + 1] \in {MTCP_BIOC_ON, MTCP_LED_USR} /\ a + 1 \in A
             \/ t[a + 1] = MTCP_LED_SET /\ t[a + 2] = AllLeds /\ a + LED_BUFF_SIZE \in A
  <2>1. n + a \in B /\ n + a < m /\ a \in Nat
    BY <1>1, <1>5
  <2>2. CASE c[n + a + 1] \in {MTCP_BIOC_ON, MTCP_LED_USR} /\ n + a + 1 \in B
    <3>1. a + 1 \in 1 .. m - n /\ n + a + 1 = n + (a + 1)
      BY <1>1, <1>5, <2>1
    <3> QED
      BY <1>1, <2>2, <3>1
  <2>3. CASE /\ c[n + a + 1] = MTCP_LED_SET /\ c[n + a + 2] = AllLeds
             /\ n + a + LED_BUFF_SIZE \in B
    <3>1. n + a + LED_BUFF_SIZE =< m
      BY <1>3, <2>3
    <3>2. /\ a + 1 \in 1 .. m - n /\ n + a + 1 = n + (a + 1)
          /\ a + 2 \in 1 .. m - n /\ n + a + 2 = n + (a + 2)
          /\ a + LED_BUFF_SIZE \in 0 .. m - n
          /\ n + a + LED_BUFF_SIZE = n + (a + LED_BUFF_SIZE)
      BY <1>1, <1>3, <1>5, <2>1, <3>1
    <3> HIDE DEF A
    <3>3. t[a + 1] = MTCP_LED_SET /\ t[a + 2] = AllLeds
      <4>1. t[a + 1] = c[n + (a + 1)] /\ t[a + 2] = c[n + (a + 2)]
        BY <1>1, <3>2
      <4> QED
        BY <2>3, <3>2, <4>1
    <3>4. a + LED_BUFF_SIZE \in A
      BY <2>3, <3>2 DEF A
    <3> QED
      BY <3>3, <3>4
  <2> QED
    BY <1>2, <2>1, <2>2, <2>3
<1>6. Cut(A, t)
  BY <1>1, <1>4, <1>5 DEF Cut
<1> HIDE DEF A
<1>7. Whole(t)
  BY <1>1, <1>4, <1>6 DEF Whole
<1> QED
  BY <1>7 DEF t

-----------------------------------------------------------------------------
(* Nothing is left over.  While the serial driver had to drop nothing, what *)
(* is in the ring between two steps of an ioctl is one whole command.       *)

Loaded(s) == s = << >> \/ Command(s)

SendInv ==
    ~over =>
      /\ Len(tx) =< LED_BUFF_SIZE
      /\ pc \in {"idle", "fill", "put", "write", "flag"} => tx = << >>
      /\ pc \in {"room", "pop"} => Loaded(tx)
      /\ pc = "write" => Loaded(chunk)

\* What an interrupt does to the way out.
Interrupted ==
    /\ UNCHANGED << pc, todo, room, chunk, arg >>
    /\ ~over' => ~over /\ (tx' = << >> \/ (tx' = tx /\ wire' = wire))

LEMMA InterruptsOut ==
  ASSUME TypeInv, HandlePacket \/ WriteWakeup
  PROVE  Interrupted
<1>1. TypeOK /\ Port \in Ports
  BY PortIsPort DEF TypeInv
<1>2. UNCHANGED << pc, todo, room, chunk, arg >>
  BY DEF HandlePacket, WriteWakeup, caller
<1>3. wire \in Seq(Byte)
  BY <1>1 DEF TypeOK, LineOK
<1>4. Port.tx = tx /\ Port.wire = wire /\ Port.over = over
  BY DEF Port
<1>5. ASSUME NEW p \in Ports, tx' = p.tx, wire' = p.wire, over' = p.over,
             ~p.over => ~over /\ (p.tx = << >> \/ (p.tx = tx /\ p.wire = wire))
      PROVE  Interrupted
  BY <1>2, <1>5 DEF Interrupted
<1>6. CASE WriteWakeup
  <2>1. /\ tx' = Woken(Port).tx /\ wire' = Woken(Port).wire /\ over' = Woken(Port).over
    BY <1>6 DEF WriteWakeup
  <2>2. ~Woken(Port).over => ~Port.over /\ Woken(Port).tx = << >>
    BY <1>1, WokenSends
  <2>3. Woken(Port) \in Ports
    BY <1>1, WokenPort
  <2> DEFINE p == Woken(Port)
  <2> HIDE DEF p
  <2>4. ~p.over => ~over /\ p.tx = << >>
    BY <1>4, <2>2, Zenon DEF p
  <2>5. p \in Ports /\ tx' = p.tx /\ wire' = p.wire /\ over' = p.over
    BY <2>1, <2>3 DEF p
  <2>6. ~p.over => ~over /\ (p.tx = << >> \/ (p.tx = tx /\ p.wire = wire))
    BY <2>4, Zenon
  <2> QED
    BY <1>5, <2>5, <2>6
<1>7. CASE HandlePacket /\ packet[1] = MTCP_RESET
  <2>1. /\ tx' = Restored(Port).tx /\ wire' = Restored(Port).wire
        /\ over' = Restored(Port).over
    BY <1>7 DEF HandlePacket
  <2>2. ~Restored(Port).over => ~Port.over /\ Restored(Port).tx = << >>
    BY <1>1, RestoredSends
  <2>3. Restored(Port) \in Ports
    BY <1>1, RestoredPort, BufferIsSeq
  <2> DEFINE p == Restored(Port)
  <2> HIDE DEF p
  <2>4. ~p.over => ~over /\ p.tx = << >>
    BY <1>4, <2>2, Zenon DEF p
  <2>5. p \in Ports /\ tx' = p.tx /\ wire' = p.wire /\ over' = p.over
    BY <2>1, <2>3 DEF p
  <2>6. ~p.over => ~over /\ (p.tx = << >> \/ (p.tx = tx /\ p.wire = wire))
    BY <2>4, Zenon
  <2> QED
    BY <1>5, <2>5, <2>6
<1>8. CASE HandlePacket /\ packet[1] # MTCP_RESET
  <2>1. tx' = tx /\ wire' = wire /\ over' = over
    BY <1>4, <1>8 DEF HandlePacket
  <2> QED
    BY <1>1, <1>3, <1>4, <1>5, <2>1
<1> QED
  BY <1>6, <1>7, <1>8

LEMMA InterruptedSends ==
  ASSUME TypeInv, SendInv, Interrupted
  PROVE  SendInv'
<1>1. /\ UNCHANGED << pc, chunk >>
      /\ ~over' => ~over /\ (tx' = << >> \/ tx' = tx)
  BY DEF Interrupted
<1>2. ASSUME ~over'
      PROVE  /\ Len(tx') =< LED_BUFF_SIZE
             /\ pc' \in {"idle", "fill", "put", "write", "flag"} => tx' = << >>
             /\ pc' \in {"room", "pop"} => Loaded(tx')
             /\ pc' = "write" => Loaded(chunk')
  <2>1. /\ Len(tx) =< LED_BUFF_SIZE
        /\ pc \in {"idle", "fill", "put", "write", "flag"} => tx = << >>
        /\ pc \in {"room", "pop"} => Loaded(tx)
        /\ pc = "write" => Loaded(chunk)
    BY <1>1, <1>2 DEF SendInv
  <2>2. Len(tx') =< LED_BUFF_SIZE
    BY <1>1, <1>2, <2>1, Constants
  <2>3. Loaded(<< >>)
    BY DEF Loaded
  <2> QED
    BY <1>1, <1>2, <2>1, <2>2, <2>3
<1> QED
  BY <1>2 DEF SendInv, Loaded, Command, LED_BUFF_SIZE

LEMMA SendInit == Init => SendInv
<1> SUFFICES ASSUME Init
             PROVE  SendInv
  OBVIOUS
<1>1. tx = << >> /\ pc = "idle"
  BY DEF Init
<1>2. Len(tx) =< LED_BUFF_SIZE
  BY <1>1, Constants
<1> QED
  BY <1>1, <1>2 DEF SendInv

\* The empty ring takes a whole command.
LEMMA FillEmpty ==
  ASSUME NEW h, Command(h)
  PROVE  Fill(<< >>, h) = h
<1>1. h \in Seq(Byte) /\ Len(h) \in 1 .. LED_BUFF_SIZE
  BY CommandIsWhole
<1>2. BufRoom(<< >>) = TUXCTL_BUFSIZE - 1
  BY DEF BufRoom
<1>3. TUXCTL_BUFSIZE - 1 \in Nat /\ Len(h) =< TUXCTL_BUFSIZE - 1
  BY <1>1, Constants
<1>4. First(TUXCTL_BUFSIZE - 1, h) = h
  BY <1>1, <1>3, AllOf
<1>5. Fill(<< >>, h) = << >> \o h
  BY <1>2, <1>4 DEF Fill
<1> QED
  BY <1>1, <1>5, ConcatEmptySeq

\* What is popped is all there was, unless there was too much.
LEMMA PoppedAll ==
  ASSUME TypeInv, PopBytes, ~over'
  PROVE  chunk' = tx /\ tx' = << >>
<1> DEFINE n == Popped(room, tx)
           l == Len(tx)
<1>1. tx \in Seq(Byte) /\ l \in Nat /\ room \in Nat
  BY DEF TypeInv, TypeOK, LineOK, CallerOK
<1>2. chunk' = First(n, tx) /\ tx' = After(n, tx) /\ ~(n > room)
  BY DEF PopBytes
<1>3. n = IF room + 1 < l THEN room + 1 ELSE l
  BY DEF Popped, Least
<1> HIDE DEF n, l
<1>4. n = l
  BY <1>1, <1>2, <1>3
<1>5. First(l, tx) = tx /\ After(l, tx) = << >>
  <2>1. l \in Nat /\ Len(tx) =< l
    BY <1>1 DEF l
  <2> QED
    BY <1>1, <2>1, AllOf
<1> QED
  BY <1>2, <1>4, <1>5

\* One step of the caller, with the ring as the last one left it.
LEMMA CallerSends ==
  ASSUME TypeInv, SendInv, CallerStep
  PROVE  SendInv'
<1> USE DEF Loaded
<1>1. /\ tx \in Seq(Byte) /\ Len(tx) \in Nat /\ room \in 0 .. Xmit /\ Xmit \in Nat
      /\ todo \in Seq(Seq(Byte)) /\ Calling
  BY DEF TypeInv, TypeOK, LineOK, CallerOK
<1>2. ~over' => ~over
  BY DEF CallerStep, StoreByte, PutBytes, AskRoom, PopBytes, WriteBytes, SetFlag, seen
<1> SUFFICES ASSUME ~over'
             PROVE  /\ Len(tx') =< LED_BUFF_SIZE
                    /\ pc' \in {"idle", "fill", "put", "write", "flag"} => tx' = << >>
                    /\ pc' \in {"room", "pop"} => Loaded(tx')
                    /\ pc' = "write" => Loaded(chunk')
  BY DEF SendInv, Command, LED_BUFF_SIZE
<1>3. /\ ~over /\ Len(tx) =< LED_BUFF_SIZE
      /\ pc \in {"idle", "fill", "put", "write", "flag"} => tx = << >>
      /\ pc \in {"room", "pop"} => Loaded(tx)
      /\ pc = "write" => Loaded(chunk)
  BY <1>2 DEF SendInv
<1>4. CASE StoreByte
  <2>1. pc = "fill" /\ pc' \in {"fill", "put"} /\ tx' = tx
    BY <1>4 DEF StoreByte, driver, rings
  <2> QED
    BY <1>3, <2>1
<1>5. CASE PutBytes
  <2>1. pc = "put" /\ pc' = "room" /\ tx' = Fill(tx, Head(todo))
    BY <1>5 DEF PutBytes
  <2>2. tx = << >> /\ todo # << >> /\ Head(todo) = todo[1] /\ 1 \in 1 .. Len(todo)
    BY <1>1, <1>3, <2>1 DEF Calling
  <2>3. Command(Head(todo))
    BY <1>1, <2>2 DEF Calling
  <2> DEFINE h == Head(todo)
  <2> HIDE DEF h
  <2>4. Len(h) \in 1 .. LED_BUFF_SIZE
    BY <2>3, CommandIsWhole DEF h
  <2>5. Fill(<< >>, h) = h
    BY <2>3, FillEmpty DEF h
  <2>6. tx' = h /\ Len(h) =< LED_BUFF_SIZE
    BY <2>1, <2>2, <2>4, <2>5, Constants DEF h
  <2> QED
    BY <2>1, <2>3, <2>6 DEF h
<1>6. CASE AskRoom
  <2>1. pc = "room" /\ pc' = "pop" /\ tx' = tx
    BY <1>6 DEF AskRoom, driver, rings
  <2> QED
    BY <1>3, <2>1
<1>7. CASE PopBytes
  <2>1. chunk' = tx /\ tx' = << >> /\ pc = "pop" /\ pc' = "write"
    BY <1>7, PoppedAll DEF PopBytes
  <2>2. Len(tx') =< LED_BUFF_SIZE
    BY <2>1, Constants
  <2> QED
    BY <1>3, <2>1, <2>2
<1>8. CASE WriteBytes
  <2>1. pc = "write" /\ pc' \in {"put", "flag", "idle"} /\ tx' = tx
    BY <1>8 DEF WriteBytes, driver, rings
  <2> QED
    BY <1>3, <2>1
<1>9. CASE SetFlag
  <2>1. pc = "flag" /\ pc' = "idle" /\ tx' = tx
    BY <1>9 DEF SetFlag, rings
  <2> QED
    BY <1>3, <2>1
<1> QED
  BY <1>4, <1>5, <1>6, <1>7, <1>8, <1>9 DEF CallerStep

LEMMA SendStep ==
  ASSUME TypeInv, SendInv, [Next]_vars
  PROVE  SendInv'
<1>1. CASE HandlePacket \/ WriteWakeup
  BY <1>1, InterruptsOut, InterruptedSends
<1>2. CASE CallerStep
  BY <1>2, CallerSends
<1>3. CASE Open \/ Close \/ TuxInit \/ (\E leds \in Shown : TuxSetLed(leds))
  <2>1. /\ pc = "idle" /\ pc' \in {"idle", "fill", "put"} /\ over' = over
        /\ tx' = tx \/ tx' = << >>
    BY <1>3 DEF Open, Close, TuxInit, TuxSetLed, Start, caller, seen, driver, rings
  <2>2. Len(<< >>) =< LED_BUFF_SIZE
    BY Constants
  <2>3. over' \/ (tx' = << >> /\ Len(tx') =< LED_BUFF_SIZE)
    BY <2>1, <2>2 DEF SendInv
  <2>4. pc' # "room" /\ pc' # "pop" /\ pc' # "write"
    BY <2>1
  <2> QED
    BY <2>3, <2>4 DEF SendInv, LED_BUFF_SIZE
<1>4. CASE \/ SkipByte \/ (\E k \in Chunks : Receive(k)) \/ LoseByte \/ DeviceByte \/ Reset
           \/ (\E p \in Presses : Press(p)) \/ UNCHANGED vars
  <2>1. UNCHANGED << tx, pc, chunk, over >>
    BY <1>4 DEF SkipByte, Receive, LoseByte, DeviceByte, Reset, Press, vars, caller, seen,
         driver, rings
  <2> QED
    BY <2>1 DEF SendInv, Loaded, Command, LED_BUFF_SIZE
<1> QED
  BY <1>1, <1>2, <1>3, <1>4 DEF Next, Others, Interrupt

-----------------------------------------------------------------------------
(* What the controller gets.  *)

\* The mask of an LED command announces a byte for each LED.
LEMMA AllLedsBits == Bits(AllLeds) = NLeds
<1> DEFINE T == {i \in 0 .. 7 : Bit(AllLeds, i) = 1}
<1>1. NLeds \in 1 .. 4
  BY Constants
<1>2. AllLeds = IF NLeds = 1 THEN 1 ELSE IF NLeds = 2 THEN 3 ELSE IF NLeds = 3 THEN 7 ELSE 15
  BY <1>1 DEF AllLeds
<1>3. ASSUME NEW i \in 0 .. 7
      PROVE  Bit(AllLeds, i) = 1 <=> i \in 0 .. NLeds - 1
  <2>1. CASE NLeds = 1
    BY <1>2, <2>1 DEF Bit
  <2>2. CASE NLeds = 2
    BY <1>2, <2>2 DEF Bit
  <2>3. CASE NLeds = 3
    BY <1>2, <2>3 DEF Bit
  <2>4. CASE NLeds = 4
    BY <1>2, <2>4 DEF Bit
  <2> QED
    BY <1>1, <2>1, <2>2, <2>3, <2>4
<1>4. T = 0 .. NLeds - 1
  BY <1>1, <1>3
<1> HIDE DEF T
<1>5. Cardinality(0 .. NLeds - 1) = NLeds
  <2>1. \A a, b \in Int : Cardinality(a .. b) = IF a > b THEN 0 ELSE b - a + 1
    BY FS_Interval
  <2>2. 0 \in Int /\ NLeds - 1 \in Int /\ ~(0 > NLeds - 1)
    BY <1>1
  <2>3. Cardinality(0 .. NLeds - 1) = (NLeds - 1) - 0 + 1
    BY <2>1, <2>2
  <2> QED
    BY <1>1, <2>3
<1> QED
  BY <1>4, <1>5 DEF Bits, T

LEMMA LoadedIsWhole ==
  ASSUME NEW s, Loaded(s)
  PROVE  s \in Seq(Byte) /\ Whole(s)
<1>1. CASE s = << >>
  <2>1. << >> \in Seq(Byte)
    OBVIOUS
  <2> QED
    BY <1>1, <2>1, WholeEmpty
<1>2. CASE Command(s)
  BY <1>2, CommandIsWhole
<1> QED
  BY <1>1, <1>2 DEF Loaded

\* Unless something was dropped, the controller gets whole commands, the one it
\* has begun to gather included.
StreamInv ==
    ~over /\ ~early =>
        /\ ~device.locked
        /\ Whole(device.got \o wire)

LEMMA StreamInit == Init => StreamInv
<1> SUFFICES ASSUME Init
             PROVE  StreamInv
  OBVIOUS
<1>1. device.got = << >> /\ ~device.locked /\ wire = << >>
  BY DEF Init
<1>2. Whole(device.got \o wire)
  <2>1. device.got \o wire = << >>
    BY <1>1
  <2> QED
    BY <2>1, WholeEmpty
<1> QED
  BY <1>1, <1>2 DEF StreamInv

\* More commands behind those on their way.
LEMMA WholeBehind ==
  ASSUME NEW g \in Seq(Byte), NEW w \in Seq(Byte), NEW x \in Seq(Byte),
         Whole(g \o w), Whole(x)
  PROVE  Whole(g \o (w \o x)) /\ w \o x \in Seq(Byte)
<1>1. g \o w \in Seq(Byte) /\ w \o x \in Seq(Byte)
  BY Concatenated
<1>2. Whole((g \o w) \o x)
  BY <1>1, WholeJoined
<1>3. (g \o w) \o x = g \o (w \o x)
  BY Associative, Zenon
<1> QED
  BY <1>1, <1>2, <1>3

\* The LEDs are restored with whole commands, if they were ever set.
LEMMA RestoredWhole ==
  ASSUME TypeInv, NEW g \in Seq(Byte), Whole(g \o wire), Loaded(tx),
         Len(tx) =< LED_BUFF_SIZE, buffer[1] # 0, buffer[2] # 0,
         ~Restored(Port).over
  PROVE  Whole(g \o Restored(Port).wire)
<1> DEFINE on == << MTCP_BIOC_ON >>
           usr == << MTCP_LED_USR >>
           a == wire \o (tx \o on)
           b == a \o usr
<1>1. TypeOK /\ wire \in Seq(Byte) /\ Port \in Ports
  BY PortIsPort DEF TypeInv, TypeOK, LineOK
<1>2. on \in Seq(Byte) /\ usr \in Seq(Byte) /\ Whole(on) /\ Whole(usr)
  <2>1. on \in Seq(Byte) /\ usr \in Seq(Byte)
    BY DEF MTCP_BIOC_ON, MTCP_LED_USR, Byte
  <2>2. Command(on) /\ Command(usr)
    BY <2>1 DEF Command
  <2> QED
    BY <2>1, <2>2, CommandIsWhole
<1>3. buffer \in Seq(Byte) /\ Whole(buffer)
  <2>1. buffer \in Seq(Byte) /\ Len(buffer) = LED_BUFF_SIZE
    BY <1>1, BufferIsSeq
  <2>2. buffer[1] = MTCP_LED_SET /\ buffer[2] = AllLeds
    BY DEF TypeInv, Calling
  <2>3. Command(buffer)
    BY <2>1, <2>2 DEF Command
  <2> QED
    BY <2>3, CommandIsWhole
<1>4. Restored(Port).wire = b \o buffer
  <2>1. Port.tx = tx /\ Port.wire = wire
    BY DEF Port
  <2>2. /\ ~Restored(Port).over /\ Len(Port.tx) =< LED_BUFF_SIZE =>
             Restored(Port).wire
               = ((Port.wire \o (Port.tx \o << MTCP_BIOC_ON >>)) \o << MTCP_LED_USR >>) \o buffer
    BY <1>1, RestoredSends
  <2> QED
    BY <2>1, <2>2
<1> HIDE DEF on, usr
<1>5. tx \in Seq(Byte) /\ Whole(tx \o on) /\ tx \o on \in Seq(Byte)
  <2>1. tx \in Seq(Byte) /\ Whole(tx)
    BY LoadedIsWhole
  <2> QED
    BY <1>2, <2>1, WholeJoined, Concatenated
<1>6. Whole(g \o a) /\ a \in Seq(Byte)
  BY <1>1, <1>5, WholeBehind
<1> HIDE DEF a
<1>7. Whole(g \o b) /\ b \in Seq(Byte)
  BY <1>2, <1>6, WholeBehind
<1> HIDE DEF b
<1>8. Whole(g \o (b \o buffer))
  BY <1>3, <1>7, WholeBehind
<1> QED
  BY <1>4, <1>8

\* The byte the controller takes, between what it has gathered and the rest.
LEMMA NextByte ==
  ASSUME NEW g \in Seq(Byte), NEW w \in Seq(Byte), w # << >>
  PROVE  LET h == Append(g, Head(w))
             c == g \o w
         IN  /\ h \in Seq(Byte) /\ Len(h) = Len(g) + 1 /\ Tail(w) \in Seq(Byte)
             /\ c \in Seq(Byte) /\ Len(g) + 1 =< Len(c)
             /\ h \o Tail(w) = c /\ Tail(w) = After(Len(g) + 1, c)
             /\ \A i \in 1 .. Len(g) + 1 : h[i] = c[i]
             /\ \A i \in 1 .. Len(g) : g[i] = c[i]
<1> DEFINE e == << Head(w) >>
           t == Tail(w)
           h == Append(g, Head(w))
           c == g \o w
<1>1. /\ Head(w) \in Byte /\ t \in Seq(Byte) /\ e \in Seq(Byte) /\ Len(e) = 1
      /\ Len(w) \in Nat /\ Len(w) # 0 /\ Len(g) \in Nat
  OBVIOUS
<1>2. e \o t = w
  <2>1. First(1, w) \o After(1, w) = w
    BY Joined
  <2>2. First(1, w) = e
    <3> DEFINE f == First(1, w)
               l == Len(w)
    <3>1. l \in Nat /\ l # 0
      BY <1>1
    <3>2. Least(1, l) = 1
      <4> HIDE DEF l
      <4> QED
        BY <3>1 DEF Least
    <3>3. /\ f \in Seq(Byte) /\ Len(f) = Least(1, l)
          /\ \A i \in 1 .. Least(1, l) : f[i] = w[i]
      BY Parts
    <3> HIDE DEF f, l
    <3>4. Len(f) = 1 /\ f[1] = w[1]
      BY <3>2, <3>3
    <3>5. Len(e) = 1 /\ e[1] = w[1] /\ e \in Seq(Byte)
      BY <1>1
    <3> HIDE DEF e
    <3>6. f = e
      <4>1. \A i \in 1 .. Len(f) : f[i] = e[i]
        BY <3>4, <3>5
      <4> QED
        BY <3>3, <3>4, <3>5, <4>1, SeqEqual
    <3> QED
      BY <3>6 DEF f
  <2>3. After(1, w) = t
    BY <1>1 DEF After
  <2> QED
    BY <2>1, <2>2, <2>3
<1>3. h = g \o e
  BY <1>1
<1>4. h \in Seq(Byte) /\ Len(h) = Len(g) + 1
  BY <1>1
<1> HIDE DEF e, t, h
<1>5. h \o t = c
  <2>1. (g \o e) \o t = g \o (e \o t)
    BY <1>1, Associative, Zenon
  <2> QED
    BY <1>2, <1>3, <2>1
<1>6. /\ c \in Seq(Byte) /\ Len(c) = Len(g) + Len(w) /\ \A i \in 1 .. Len(g) : c[i] = g[i]
  BY Concatenated
<1> HIDE DEF c
<1>7. \A i \in 1 .. Len(h) : c[i] = h[i]
  BY <1>1, <1>4, <1>5, Concatenated
<1>8. t = After(Len(g) + 1, c)
  <2> DEFINE n == Len(g) + 1
  <2>1. n \in Nat /\ n = Len(h)
    BY <1>1, <1>4
  <2> HIDE DEF n
  <2>2. n =< Len(h) /\ Len(h) =< n
    BY <2>1
  <2>3. After(n, h) \o t = After(n, h \o t)
    BY <1>1, <1>4, <2>1, <2>2, FrontGone
  <2>4. After(n, h) = << >>
    BY <1>4, <2>1, <2>2, AllOf
  <2>5. << >> \o t = t
    BY <1>1, ConcatEmptySeq
  <2> QED
    BY <1>5, <2>3, <2>4, <2>5 DEF n
<1>9. Len(g) + 1 =< Len(c)
  BY <1>1, <1>6
<1> QED
  BY <1>1, <1>4, <1>5, <1>6, <1>7, <1>8, <1>9 DEF h, c, t

Plain == {MTCP_BIOC_ON, MTCP_LED_USR}

\* The bytes the controller has still to carry out.
Sending == device.got \o wire

LEMMA FirstBytes ==
  ASSUME NEW c \in Seq(Byte), NEW k \in 0 .. Len(c)
  PROVE  /\ First(k, c) \in Seq(Byte) /\ Len(First(k, c)) = k
         /\ \A i \in 1 .. k : First(k, c)[i] = c[i]
         /\ After(k, c) \in Seq(Byte) /\ Len(After(k, c)) = Len(c) - k
         /\ \A i \in 1 .. Len(c) - k : After(k, c)[i] = c[k + i]
<1>1. Len(c) \in Nat /\ k \in Nat /\ k =< Len(c)
  OBVIOUS
<1>2. Least(k, Len(c)) = k
  BY <1>1 DEF Least
<1> QED
  BY <1>1, <1>2, Parts

\* The first of some commands, and those behind it.
LEMMA FirstCommand ==
  ASSUME NEW c \in Seq(Byte), Whole(c), c # << >>
  PROVE  \/ c[1] \in Plain /\ Whole(After(1, c))
         \/ /\ c[1] = MTCP_LED_SET /\ c[2] = AllLeds /\ LED_BUFF_SIZE =< Len(c)
            /\ Whole(After(LED_BUFF_SIZE, c))
<1>1. PICK B \in SUBSET (0 .. Len(c)) : Cut(B, c)
  BY DEF Whole
<1>2. Len(c) \in Nat /\ Len(c) # 0 /\ LED_BUFF_SIZE \in 3 .. 6
  BY Constants, EmptySeq
<1>3. \/ c[0 + 1] \in Plain /\ 0 + 1 \in B
      \/ c[0 + 1] = MTCP_LED_SET /\ c[0 + 2] = AllLeds /\ 0 + LED_BUFF_SIZE \in B
  <2>1. 0 \in B /\ 0 < Len(c)
    BY <1>1, <1>2 DEF Cut
  <2> QED
    BY <1>1, <2>1 DEF Cut, Plain
<1>4. CASE c[0 + 1] \in Plain /\ 0 + 1 \in B
  <2>1. Whole(After(1, c))
    BY <1>1, <1>4, WholeRest
  <2> QED
    BY <1>4, <2>1
<1>5. CASE c[0 + 1] = MTCP_LED_SET /\ c[0 + 2] = AllLeds /\ 0 + LED_BUFF_SIZE \in B
  <2>1. LED_BUFF_SIZE \in B /\ LED_BUFF_SIZE =< Len(c)
    BY <1>1, <1>2, <1>5
  <2>2. Whole(After(LED_BUFF_SIZE, c))
    BY <1>1, <2>1, WholeRest
  <2> QED
    BY <1>5, <2>1, <2>2
<1> QED
  BY <1>3, <1>4, <1>5

LEMMA AllLit ==
  ASSUME NEW d, NEW data
  PROVE  Lit(d, AllLeds, data) = [i \in 1 .. NLeds |-> data[i]]
<1>1. NLeds \in 1 .. 4
  BY Constants
<1>2. AllLeds = IF NLeds = 1 THEN 1 ELSE IF NLeds = 2 THEN 3 ELSE IF NLeds = 3 THEN 7 ELSE 15
  BY <1>1 DEF AllLeds
<1>3. ASSUME NEW i \in 1 .. NLeds
      PROVE  Bit(AllLeds, i - 1) = 1
  <2>1. i - 1 \in 0 .. 3
    BY <1>1
  <2>2. CASE NLeds = 1
    BY <1>2, <2>1, <2>2 DEF Bit
  <2>3. CASE NLeds = 2
    BY <1>2, <2>1, <2>3 DEF Bit
  <2>4. CASE NLeds = 3
    BY <1>2, <2>1, <2>4 DEF Bit
  <2>5. CASE NLeds = 4
    BY <1>2, <2>1, <2>5 DEF Bit
  <2> QED
    BY <1>1, <2>2, <2>3, <2>4, <2>5
<1>4. ASSUME NEW i \in 1 .. NLeds
      PROVE  Cardinality({j \in 1 .. i : Bit(AllLeds, j - 1) = 1}) = i
  <2>1. \A j \in 1 .. i : j \in 1 .. NLeds
    BY <1>1
  <2>2. {j \in 1 .. i : Bit(AllLeds, j - 1) = 1} = 1 .. i
    BY <1>3, <2>1
  <2>3. Cardinality(1 .. i) = i
    <3>1. \A a, b \in Int : Cardinality(a .. b) = IF a > b THEN 0 ELSE b - a + 1
      BY FS_Interval
    <3>2. 1 \in Int /\ i \in Int /\ ~(1 > i)
      BY <1>1
    <3>3. Cardinality(1 .. i) = i - 1 + 1
      BY <3>1, <3>2
    <3> QED
      BY <3>2, <3>3
  <2> QED
    BY <2>2, <2>3
<1> QED
  BY <1>3, <1>4 DEF Lit

\* What the controller does with the byte it takes.
LEMMA DeviceDoes ==
  ASSUME DeviceByte, ~device.locked
  PROVE  LET h   == Append(device.got, Head(wire))
             lit == [device EXCEPT !.leds = Lit(device, h[2], After(2, h))]
             partial == Len(h) = 1 \/ Len(h) < 2 + Bits(h[2])
         IN  /\ h = << MTCP_BIOC_ON >> => device' = [device EXCEPT !.bioc = TRUE]
             /\ h = << MTCP_LED_USR >> => device' = [device EXCEPT !.user = TRUE]
             /\ h[1] \notin Plain \cup {MTCP_LED_SET}
                  => device' = [device EXCEPT !.locked = TRUE]
             /\ h[1] = MTCP_LED_SET /\ partial => device' = [device EXCEPT !.got = h]
             /\ h[1] = MTCP_LED_SET /\ ~partial => device' = [lit EXCEPT !.got = << >>]
<1> DEFINE h == Append(device.got, Head(wire))
           lit == [device EXCEPT !.leds = Lit(device, h[2], After(2, h))]
           partial == Len(h) = 1 \/ Len(h) < 2 + Bits(h[2])
<1>1. IF h = << MTCP_BIOC_ON >>
        THEN device' = [device EXCEPT !.bioc = TRUE] /\ line' = line \o Ack
      ELSE IF h = << MTCP_LED_USR >>
        THEN device' = [device EXCEPT !.user = TRUE] /\ UNCHANGED line
      ELSE IF h[1] # MTCP_LED_SET
        THEN device' = [device EXCEPT !.locked = TRUE] /\ UNCHANGED line
      ELSE IF partial
        THEN device' = [device EXCEPT !.got = h] /\ UNCHANGED line
      ELSE device' = [lit EXCEPT !.got = << >>] /\ line' = line \o Ack
  BY DEF DeviceByte
<1> HIDE DEF h, lit, partial
<1>2. h = << MTCP_BIOC_ON >> => h[1] = MTCP_BIOC_ON
  OBVIOUS
<1>3. h = << MTCP_LED_USR >> => h[1] = MTCP_LED_USR
  OBVIOUS
<1>4. /\ MTCP_BIOC_ON # MTCP_LED_USR /\ MTCP_BIOC_ON # MTCP_LED_SET
      /\ MTCP_LED_USR # MTCP_LED_SET
  BY DEF MTCP_BIOC_ON, MTCP_LED_USR, MTCP_LED_SET
<1>5. << MTCP_BIOC_ON >> # << MTCP_LED_USR >>
  BY <1>4
<1>6. h[1] \notin Plain \cup {MTCP_LED_SET}
        => h[1] # MTCP_BIOC_ON /\ h[1] # MTCP_LED_USR /\ h[1] # MTCP_LED_SET
  BY DEF Plain
<1> USE DEF h, lit, partial
<1>7. /\ h = << MTCP_BIOC_ON >> => device' = [device EXCEPT !.bioc = TRUE]
      /\ h = << MTCP_LED_USR >> => device' = [device EXCEPT !.user = TRUE]
      /\ h[1] \notin Plain \cup {MTCP_LED_SET}
           => device' = [device EXCEPT !.locked = TRUE]
      /\ h[1] = MTCP_LED_SET /\ partial => device' = [device EXCEPT !.got = h]
      /\ h[1] = MTCP_LED_SET /\ ~partial => device' = [lit EXCEPT !.got = << >>]
  <2> HIDE DEF h, lit, partial
  <2> QED
    BY <1>1, <1>2, <1>3, <1>4, <1>5, <1>6, Zenon
<1> QED
  BY <1>7

LEMMA SendingBytes ==
  ASSUME TypeInv
  PROVE  /\ device.got \in Seq(Byte) /\ wire \in Seq(Byte) /\ Sending \in Seq(Byte)
         /\ Len(Sending) = Len(device.got) + Len(wire)
         /\ \A i \in 1 .. Len(device.got) : Sending[i] = device.got[i]
<1>1. device.got \in Seq(Byte) /\ wire \in Seq(Byte)
  BY DeviceFields DEF TypeInv, TypeOK, LineOK
<1> QED
  BY <1>1, Concatenated DEF Sending

\* The controller takes a byte of a command: it waits for more of them, or
\* carries the command out.
LEMMA CommandTaken ==
  ASSUME TypeInv, DeviceByte, ~device.locked,
         \/ Sending[1] \in Plain
         \/ /\ Sending[1] = MTCP_LED_SET /\ Sending[2] = AllLeds
            /\ LED_BUFF_SIZE =< Len(Sending)
  PROVE  /\ ~device'.locked
         /\ \/ /\ Sending' = Sending
               /\ device'.leds = device.leds /\ device'.user = device.user
            \/ /\ Sending[1] \in Plain /\ Sending' = After(1, Sending)
               /\ device'.leds = device.leds
               /\ device'.user = (device.user \/ Sending[1] = MTCP_LED_USR)
            \/ /\ Sending[1] = MTCP_LED_SET /\ Sending' = After(LED_BUFF_SIZE, Sending)
               /\ device'.leds = [i \in 1 .. NLeds |-> Sending[i + 2]]
               /\ device'.user = device.user
<1> DEFINE g == device.got
           n == Len(g)
           h == Append(g, Head(wire))
           c == Sending
           lit == [device EXCEPT !.leds = Lit(device, h[2], After(2, h))]
           partial == Len(h) = 1 \/ Len(h) < 2 + Bits(h[2])
<1>1. /\ g \in Seq(Byte) /\ wire \in Seq(Byte) /\ n \in Nat /\ device \in Device
      /\ wire # << >> /\ wire' = Tail(wire) /\ device.user \in BOOLEAN
  BY DeviceFields DEF TypeInv, TypeOK, LineOK, DeviceByte, Device
<1>2. /\ h \in Seq(Byte) /\ Len(h) = n + 1 /\ Tail(wire) \in Seq(Byte)
      /\ c \in Seq(Byte) /\ n + 1 =< Len(c)
      /\ h \o Tail(wire) = c /\ Tail(wire) = After(n + 1, c)
      /\ \A i \in 1 .. n + 1 : h[i] = c[i]
      /\ \A i \in 1 .. n : g[i] = c[i]
  BY <1>1, NextByte DEF Sending
<1>3. /\ h = << MTCP_BIOC_ON >> => device' = [device EXCEPT !.bioc = TRUE]
      /\ h = << MTCP_LED_USR >> => device' = [device EXCEPT !.user = TRUE]
      /\ h[1] = MTCP_LED_SET /\ partial => device' = [device EXCEPT !.got = h]
      /\ h[1] = MTCP_LED_SET /\ ~partial => device' = [lit EXCEPT !.got = << >>]
  BY DeviceDoes
<1>4. Sending' = device'.got \o Tail(wire)
  BY <1>1 DEF Sending
<1>5. << >> \o Tail(wire) = After(n + 1, c)
  BY <1>2, ConcatEmptySeq
<1>6. LED_BUFF_SIZE = NLeds + 2 /\ NLeds \in 1 .. 4 /\ Bits(AllLeds) = NLeds
  BY Constants, AllLedsBits
<1>7. h[1] = c[1]
  <2>1. 1 \in 1 .. n + 1
    BY <1>1
  <2> QED
    BY <1>2, <2>1
<1>8. g # << >> => c[1] = MTCP_LED_SET /\ (n = 1 \/ n < 2 + Bits(g[2])) /\ n # 0
  <2>1. g # << >> => /\ g[1] = MTCP_LED_SET /\ n # 0
                     /\ (n = 1 \/ n < 2 + Bits(g[2]))
    BY <1>1 DEF TypeInv, Gathering
  <2>2. n # 0 => g[1] = c[1]
    <3>1. n # 0 => 1 \in 1 .. n
      BY <1>1
    <3> QED
      BY <1>2, <3>1
  <2> QED
    BY <2>1, <2>2
<1>9. c[1] \in Plain => c[1] # MTCP_LED_SET
  BY DEF Plain, MTCP_BIOC_ON, MTCP_LED_USR, MTCP_LED_SET
<1>10. \/ c[1] \in Plain
       \/ c[1] = MTCP_LED_SET /\ c[2] = AllLeds /\ LED_BUFF_SIZE =< Len(c)
  OBVIOUS
<1> HIDE DEF h, c, lit, partial
<1>11. CASE c[1] \in Plain
  <2>1. g = << >> /\ n = 0 /\ Len(h) = 1
    BY <1>2, <1>8, <1>9, <1>11
  <2>2. h = << c[1] >>
    BY <1>2, <1>7, <2>1
  <2>3. CASE c[1] = MTCP_BIOC_ON
    <3>1. device' = [device EXCEPT !.bioc = TRUE]
      BY <1>3, <2>2, <2>3
    <3>2. /\ device'.got = g /\ device'.locked = device.locked
          /\ device'.leds = device.leds /\ device'.user = device.user
      BY <1>1, <3>1 DEF Device
    <3>3. Sending' = After(1, c)
      BY <1>4, <1>5, <2>1, <3>2
    <3>4. MTCP_BIOC_ON # MTCP_LED_USR
      BY DEF MTCP_BIOC_ON, MTCP_LED_USR
    <3> QED
      BY <1>1, <1>11, <2>3, <3>2, <3>3, <3>4 DEF c
  <2>4. CASE c[1] = MTCP_LED_USR
    <3>1. device' = [device EXCEPT !.user = TRUE]
      BY <1>3, <2>2, <2>4
    <3>2. /\ device'.got = g /\ device'.locked = device.locked
          /\ device'.leds = device.leds /\ device'.user = TRUE
      BY <1>1, <3>1 DEF Device
    <3>3. Sending' = After(1, c)
      BY <1>4, <1>5, <2>1, <3>2
    <3> QED
      BY <1>1, <1>11, <2>4, <3>2, <3>3 DEF c
  <2> QED
    BY <1>11, <2>3, <2>4 DEF Plain
<1>12. CASE c[1] = MTCP_LED_SET /\ c[2] = AllLeds /\ LED_BUFF_SIZE =< Len(c)
  <2>1. n # 0 => h[2] = AllLeds
    <3>1. n # 0 => 2 \in 1 .. n + 1
      BY <1>1
    <3> QED
      BY <1>2, <1>12, <3>1
  <2>2. partial <=> n + 1 < LED_BUFF_SIZE
    BY <1>1, <1>2, <1>6, <2>1 DEF partial
  <2>3. CASE partial
    <3>1. device' = [device EXCEPT !.got = h]
      BY <1>3, <1>7, <1>12, <2>3
    <3>2. /\ device'.got = h /\ device'.locked = device.locked
          /\ device'.leds = device.leds /\ device'.user = device.user
      BY <1>1, <3>1 DEF Device
    <3>3. Sending' = c
      BY <1>2, <1>4, <3>2
    <3> QED
      BY <3>2, <3>3 DEF c
  <2>4. CASE ~partial
    <3>1. n + 1 >= LED_BUFF_SIZE /\ n # 0 /\ n # 1
      <4>1. ~(n + 1 < LED_BUFF_SIZE)
        BY <2>2, <2>4, Zenon
      <4>2. n \in Nat
        BY <1>1
      <4> HIDE DEF n
      <4> QED
        BY <1>6, <4>1, <4>2
    <3>2. n < 2 + NLeds
      <4>1. 2 \in 1 .. n
        <5>1. n \in Nat
          BY <1>1
        <5> HIDE DEF n
        <5> QED
          BY <3>1, <5>1
      <4>2. g[2] = AllLeds /\ g # << >>
        BY <1>2, <1>12, <4>1
      <4> QED
        BY <1>6, <1>8, <3>1, <4>2
    <3>3. n + 1 = LED_BUFF_SIZE
      BY <1>1, <1>6, <3>1, <3>2
    <3>4. device' = [lit EXCEPT !.got = << >>]
      BY <1>3, <1>7, <1>12, <2>4
    <3>5. /\ device'.got = << >> /\ device'.locked = device.locked
          /\ device'.leds = Lit(device, h[2], After(2, h)) /\ device'.user = device.user
      BY <1>1, <3>4 DEF Device, lit
    <3>6. Sending' = After(LED_BUFF_SIZE, c)
      BY <1>4, <1>5, <3>3, <3>5
    <3>7. Lit(device, h[2], After(2, h)) = [i \in 1 .. NLeds |-> After(2, h)[i]]
      <4>1. Lit(device, AllLeds, After(2, h)) = [i \in 1 .. NLeds |-> After(2, h)[i]]
        BY AllLit
      <4> QED
        BY <2>1, <3>1, <4>1, Zenon
    <3>8. ASSUME NEW i \in 1 .. NLeds
          PROVE  After(2, h)[i] = c[i + 2]
      <4>1. 2 \in 0 .. Len(h) /\ i \in 1 .. Len(h) - 2 /\ i + 2 \in 1 .. n + 1 /\ 2 + i = i + 2
        BY <1>1, <1>2, <1>6, <3>3
      <4>2. After(2, h)[i] = h[2 + i]
        BY <1>2, <4>1, FirstBytes
      <4> QED
        BY <1>2, <4>1, <4>2
    <3>9. device'.leds = [i \in 1 .. NLeds |-> c[i + 2]]
      BY <3>5, <3>7, <3>8
    <3> QED
      BY <1>12, <3>5, <3>6, <3>9 DEF c
  <2> QED
    BY <2>3, <2>4
<1> QED
  BY <1>10, <1>11, <1>12

\* The controller understands every byte of whole commands.
LEMMA DeviceStream ==
  ASSUME TypeInv, DeviceByte, ~device.locked, Whole(device.got \o wire)
  PROVE  ~device'.locked /\ Whole(device'.got \o wire')
<1>1. Sending \in Seq(Byte) /\ Sending # << >> /\ Whole(Sending)
  <2>1. wire # << >> /\ wire \in Seq(Byte)
    BY SendingBytes DEF DeviceByte
  <2> QED
    BY <2>1, SendingBytes, EmptySeq DEF Sending
<1>2. \/ Sending[1] \in Plain /\ Whole(After(1, Sending))
      \/ /\ Sending[1] = MTCP_LED_SET /\ Sending[2] = AllLeds
         /\ LED_BUFF_SIZE =< Len(Sending) /\ Whole(After(LED_BUFF_SIZE, Sending))
  BY <1>1, FirstCommand
<1>3. MTCP_LED_SET \notin Plain
  BY DEF Plain, MTCP_BIOC_ON, MTCP_LED_USR, MTCP_LED_SET
<1>4. /\ ~device'.locked
      /\ \/ Sending' = Sending
         \/ Sending[1] \in Plain /\ Sending' = After(1, Sending)
         \/ Sending[1] = MTCP_LED_SET /\ Sending' = After(LED_BUFF_SIZE, Sending)
  BY <1>2, CommandTaken
<1>5. Whole(Sending')
  BY <1>1, <1>2, <1>3, <1>4
<1> QED
  BY <1>4, <1>5 DEF Sending

LEMMA StreamStep ==
  ASSUME TypeInv, SendInv, StreamInv, [Next]_vars
  PROVE  StreamInv'
<1>1. /\ device \in Device /\ device.got \in Seq(Byte) /\ wire \in Seq(Byte)
      /\ tx \in Seq(Byte) /\ chunk \in Seq(Byte)
  BY DeviceFields DEF TypeInv, TypeOK, LineOK, CallerOK
<1>2. ASSUME UNCHANGED << device, wire >>, over => over', early' = early
      PROVE  StreamInv'
  BY <1>2 DEF StreamInv, Whole, Cut, AllLeds, LED_BUFF_SIZE
<1>3. CASE \/ Open \/ Close \/ TuxInit \/ (\E leds \in Shown : TuxSetLed(leds))
           \/ StoreByte \/ PutBytes \/ AskRoom \/ PopBytes \/ SetFlag
  <2>1. UNCHANGED << device, wire, early >>
    BY <1>3 DEF Open, Close, TuxInit, TuxSetLed, Start, StoreByte, PutBytes, AskRoom,
         PopBytes, SetFlag, seen, cables
  <2>2. over => over'
    BY <1>3, Zenon DEF Open, Close, TuxInit, TuxSetLed, Start, StoreByte, PutBytes, AskRoom,
         PopBytes, SetFlag, seen
  <2> QED
    BY <1>2, <2>1, <2>2
<1>4. CASE SkipByte \/ (\E k \in Chunks : Receive(k)) \/ LoseByte \/ UNCHANGED vars
  <2>1. UNCHANGED << device, wire, over, early >>
    BY <1>4 DEF SkipByte, Receive, LoseByte, vars, seen, cables
  <2> QED
    BY <1>2, <2>1
<1>5. ASSUME ~over', ~early'
      PROVE  HandlePacket \/ WriteWakeup \/ WriteBytes \/ DeviceByte \/ Reset
               \/ (\E p \in Presses : Press(p))
             => ~device'.locked /\ Whole(device'.got \o wire')
  <2>1. ASSUME HandlePacket \/ WriteWakeup
        PROVE  ~device'.locked /\ Whole(device'.got \o wire')
    <3>1. Interrupted
      BY <2>1, InterruptsOut
    <3>2. ~over /\ ~early /\ UNCHANGED << device, pc >>
      <4>1. UNCHANGED << device, pc >> /\ (~over' => ~over)
        BY <2>1, <3>1 DEF Interrupted, HandlePacket, WriteWakeup
      <4>2. early => early'
        BY <2>1, Zenon DEF HandlePacket, WriteWakeup
      <4> QED
        BY <1>5, <4>1, <4>2
    <3>3. ~device.locked /\ Whole(device.got \o wire)
      BY <3>2 DEF StreamInv
    <3>4. ~device'.locked /\ Whole(device'.got \o wire')
      <4>1. Loaded(tx) /\ Len(tx) =< LED_BUFF_SIZE
        <5>1. pc \in {"idle", "fill", "put", "room", "pop", "write", "flag"}
          BY DEF TypeInv, TypeOK, CallerOK
        <5> QED
          BY <3>2, <5>1 DEF SendInv, Loaded
      <4>2. tx \in Seq(Byte) /\ Whole(tx) /\ Whole(device.got \o wire)
        BY <3>3, <4>1, LoadedIsWhole
      <4>3. Port \in Ports /\ Port.tx = tx /\ Port.wire = wire
        BY PortIsPort DEF Port, TypeInv
      <4>4. CASE WriteWakeup
        <5>1. wire' = Woken(Port).wire /\ over' = Woken(Port).over
          BY <4>4 DEF WriteWakeup
        <5>2. ~Woken(Port).over
          BY <1>5, <5>1
        <5>3. wire' = wire \o tx
          BY <4>3, <5>1, <5>2, WokenSends
        <5>4. Whole(device.got \o (wire \o tx))
          BY <1>1, <4>2, WholeBehind
        <5> QED
          BY <3>2, <3>3, <5>3, <5>4
      <4>5. CASE HandlePacket /\ packet[1] = MTCP_RESET
        <5>1. /\ wire' = Restored(Port).wire /\ over' = Restored(Port).over
              /\ early' = (early \/ (packet[1] = MTCP_RESET
                                     /\ (buffer[1] = 0 \/ buffer[2] = 0)))
          BY <4>5 DEF HandlePacket
        <5>2. ~Restored(Port).over
          BY <1>5, <5>1
        <5>3. buffer[1] # 0 /\ buffer[2] # 0
          BY <1>5, <4>5, <5>1
        <5>4. Whole(device.got \o Restored(Port).wire)
          BY <1>1, <4>1, <4>2, <5>2, <5>3, RestoredWhole
        <5> QED
          BY <3>2, <3>3, <5>1, <5>4
      <4>6. CASE HandlePacket /\ packet[1] # MTCP_RESET
        <5>1. wire' = wire
          BY <4>6 DEF HandlePacket, Port
        <5> QED
          BY <3>2, <3>3, <4>2, <5>1
      <4> QED
        BY <2>1, <4>4, <4>5, <4>6
    <3> QED
      BY <3>4
  <2>2. ASSUME WriteBytes
        PROVE  ~device'.locked /\ Whole(device'.got \o wire')
    <3>1. /\ pc = "write" /\ wire' = Sent(wire, chunk) /\ UNCHANGED << device, early >>
          /\ over' = (over \/ Len(chunk) > WriteRoom(wire))
      BY <2>2 DEF WriteBytes
    <3>2. ~over /\ ~(Len(chunk) > WriteRoom(wire))
      BY <1>5, <3>1, Zenon
    <3>4. Loaded(chunk) /\ ~device.locked /\ Whole(device.got \o wire)
      BY <1>5, <3>1, <3>2 DEF SendInv, StreamInv
    <3>5. Whole(chunk)
      BY <3>4, LoadedIsWhole
    <3>6. wire' = wire \o chunk
      <4>1. WriteRoom(wire) \in Nat /\ WriteRoom(wire) = Xmit - Len(wire)
        BY SentFits DEF TypeInv, TypeOK, LineOK, WriteRoom
      <4>2. Len(chunk) =< WriteRoom(wire)
        <5>1. Len(chunk) \in Nat
          BY <1>1
        <5> QED
          BY <3>2, <4>1, <5>1
      <4>3. First(WriteRoom(wire), chunk) = chunk
        BY <1>1, <4>1, <4>2, AllOf
      <4> QED
        BY <3>1, <4>1, <4>3 DEF Sent
    <3>7. Whole(device.got \o (wire \o chunk))
      BY <1>1, <3>4, <3>5, WholeBehind
    <3> QED
      BY <3>1, <3>4, <3>6, <3>7
  <2>3. ASSUME DeviceByte
        PROVE  ~device'.locked /\ Whole(device'.got \o wire')
    <3>1. ~over /\ ~early
      BY <1>5, <2>3 DEF DeviceByte, seen
    <3>2. ~device.locked /\ Whole(device.got \o wire)
      BY <3>1 DEF StreamInv
    <3> QED
      BY <2>3, <3>2, DeviceStream
  <2>4. ASSUME Reset
        PROVE  ~device'.locked /\ Whole(device'.got \o wire')
    <3>1. device'.got = << >> /\ ~device'.locked /\ wire' = << >>
      BY <2>4 DEF Reset
    <3>2. << >> \o << >> = << >>
      OBVIOUS
    <3> QED
      BY <3>1, <3>2, WholeEmpty
  <2>5. ASSUME NEW p \in Presses, Press(p)
        PROVE  ~device'.locked /\ Whole(device'.got \o wire')
    <3>1. /\ device' = [device EXCEPT !.pressed = p]
          /\ UNCHANGED << wire, over, early >>
      BY <2>5 DEF Press, seen
    <3>2. device'.got = device.got /\ device'.locked = device.locked
      BY <1>1, <3>1 DEF Device
    <3>3. ~device.locked /\ Whole(device.got \o wire)
      BY <1>5, <3>1 DEF StreamInv
    <3> QED
      BY <3>1, <3>2, <3>3
  <2> QED
    BY <2>1, <2>2, <2>3, <2>4, <2>5
<1>6. CASE HandlePacket \/ WriteWakeup \/ WriteBytes \/ DeviceByte \/ Reset
           \/ (\E p \in Presses : Press(p))
  BY <1>5, <1>6 DEF StreamInv, Whole, Cut, AllLeds, LED_BUFF_SIZE
<1> QED
  BY <1>3, <1>4, <1>6 DEF Next, Others, Interrupt, CallerStep

\* Whatever interrupts whatever, and whenever the controller takes its bytes
\* or is reset, commands reach it whole (tuxctl-ioctl.c:231, tuxctl-ld.c:156).
THEOREM CommandsReachWhole == Spec => []CommandsWhole
<1>1. SendInv /\ StreamInv => CommandsWhole
  BY DEF StreamInv, CommandsWhole
<1>2. TypeInv /\ SendInv /\ StreamInv /\ [Next]_vars => SendInv' /\ StreamInv'
  BY SendStep, StreamStep
<1> QED
  BY <1>1, <1>2, TypeInit, TypeStep, SendInit, StreamInit, PTL DEF Spec

-----------------------------------------------------------------------------
(* The flag and its acknowledgement.  *)

LEMMA JoinedRange ==
  ASSUME NEW s \in Seq(Byte), NEW t \in Seq(Byte)
  PROVE  Range(s \o t) = Range(s) \cup Range(t)
<1> DEFINE u == s \o t
<1>1. /\ u \in Seq(Byte) /\ Len(s) \in Nat /\ Len(t) \in Nat /\ Len(u) = Len(s) + Len(t)
      /\ \A i \in 1 .. Len(s) : u[i] = s[i]
      /\ \A i \in 1 .. Len(t) : u[Len(s) + i] = t[i]
  BY Concatenated
<1>2. DOMAIN u = 1 .. Len(u) /\ DOMAIN s = 1 .. Len(s) /\ DOMAIN t = 1 .. Len(t)
  BY <1>1
<1> HIDE DEF u
<1>3. \A i \in 1 .. Len(s) : i \in 1 .. Len(u)
  BY <1>1
<1>4. \A i \in 1 .. Len(t) : Len(s) + i \in 1 .. Len(u)
  BY <1>1
<1>5. ASSUME NEW i \in 1 .. Len(u)
      PROVE  u[i] \in Range(s) \cup Range(t)
  <2>1. CASE i \in 1 .. Len(s)
    BY <1>1, <1>2, <2>1 DEF Range
  <2>2. CASE ~(i \in 1 .. Len(s))
    <3>1. i - Len(s) \in 1 .. Len(t) /\ Len(s) + (i - Len(s)) = i
      BY <1>1, <2>2
    <3>2. u[i] = t[i - Len(s)]
      BY <1>1, <3>1
    <3> QED
      BY <1>2, <3>1, <3>2 DEF Range
  <2> QED
    BY <2>1, <2>2
<1>6. \A i \in 1 .. Len(s) : s[i] \in Range(u)
  BY <1>1, <1>2, <1>3 DEF Range
<1>7. \A i \in 1 .. Len(t) : t[i] \in Range(u)
  BY <1>1, <1>2, <1>4 DEF Range
<1> QED
  BY <1>2, <1>5, <1>6, <1>7 DEF Range, u

LEMMA PartsRange ==
  ASSUME NEW s \in Seq(Byte), NEW n \in Nat
  PROVE  Range(s) = Range(First(n, s)) \cup Range(After(n, s))
<1>1. First(n, s) \in Seq(Byte) /\ After(n, s) \in Seq(Byte)
  BY Parts
<1>2. First(n, s) \o After(n, s) = s
  BY Joined
<1> QED
  BY <1>1, <1>2, JoinedRange

LEMMA ByteRange ==
  ASSUME NEW s \in Seq(Byte)
  PROVE  /\ \A x : x \in Range(s) <=> \E i \in 1 .. Len(s) : x = s[i]
         /\ s # << >> => s[1] \in Range(s)
<1>1. DOMAIN s = 1 .. Len(s) /\ Len(s) \in Nat
  OBVIOUS
<1>2. s # << >> => 1 \in 1 .. Len(s)
  OBVIOUS
<1> QED
  BY <1>1, <1>2 DEF Range

\* Commands that are acknowledged, and answers, wherever they are.
Asked == {MTCP_BIOC_ON, MTCP_LED_SET}
Answers == {MTCP_ACK, MTCP_RESET}
Out == Range(tx) \cup Range(chunk) \cup Range(wire)

Coming ==
  \/ \E x \in Asked : x \in Out \cup Range(device.got)
  \/ \E x \in Answers : x \in Range(Incoming)

\* AckComing, said of the bytes together.
LEMMA ComingForm == TypeOK => (AckComing <=> Coming)
<1> SUFFICES ASSUME TypeOK PROVE AckComing <=> Coming
  OBVIOUS
<1>1. packet \in Seq(Byte) /\ rx \in Seq(Byte) /\ line \in Seq(Byte)
  BY DEF TypeOK, LineOK
<1>2. Range(Incoming) = UNION {Range(packet), Range(rx), Range(line)}
  <2>1. rx \o line \in Seq(Byte)
    BY <1>1, Concatenated
  <2>2. Range(packet \o (rx \o line)) = Range(packet) \cup Range(rx \o line)
    BY <1>1, <2>1, JoinedRange
  <2>3. Range(rx \o line) = Range(rx) \cup Range(line)
    BY <1>1, JoinedRange
  <2>4. Range(packet) \cup (Range(rx) \cup Range(line))
          = UNION {Range(packet), Range(rx), Range(line)}
    OBVIOUS
  <2> QED
    BY <2>2, <2>3, <2>4, Zenon DEF Incoming
<1>3. UNION {Range(tx), Range(chunk), Range(wire), Range(device.got)}
        = Out \cup Range(device.got)
  BY DEF Out
<1>4. AckComing <=> \/ Asked \cap (Out \cup Range(device.got)) # {}
                    \/ Answers \cap Range(Incoming) # {}
  BY <1>2, <1>3, Zenon DEF AckComing, Asked, Answers
<1>5. \A S, T : S \cap T # {} <=> \E x \in S : x \in T
  OBVIOUS
<1> QED
  BY <1>4, <1>5, Zenon DEF Coming

LEMMA ComingFormNext == (TypeOK => (AckComing <=> Coming))'
  BY ComingForm, PTL

\* What was coming still comes.
LEMMA StillComing ==
  ASSUME TypeOK, TypeOK', AckComing,
         \A x \in Asked : x \in Out \cup Range(device.got)
                             => x \in (Out \cup Range(device.got))',
         \A x \in Answers : x \in Range(Incoming) => x \in Range(Incoming)'
  PROVE  AckComing'
<1>1. Coming
  BY ComingForm
<1>2. Coming'
  BY <1>1 DEF Coming, Asked, Answers
<1> QED
  BY <1>2, ComingFormNext

\* Nothing in the ring is lost, unless the serial driver had to drop it, and a
\* controller that was reset is sent a command it acknowledges.
LEMMA InterruptKeepsOut ==
  ASSUME TypeInv, SendInv, HandlePacket \/ WriteWakeup, ~over'
  PROVE  /\ \A x : x \in Out => x \in Out'
         /\ HandlePacket /\ packet[1] = MTCP_RESET => MTCP_BIOC_ON \in Out'
<1>1. /\ TypeOK /\ Port \in Ports /\ Port.tx = tx /\ Port.wire = wire /\ Port.over = over
      /\ tx \in Seq(Byte) /\ wire \in Seq(Byte)
  BY PortIsPort DEF TypeInv, TypeOK, LineOK, Port
<1>2. chunk' = chunk
  BY DEF HandlePacket, WriteWakeup, caller
<1>3. ASSUME \A x \in Range(tx) \cup Range(wire) : x \in Range(wire')
      PROVE  \A x : x \in Out => x \in Out'
  <2>1. \A x : x \in Out => x \in Range(tx) \cup Range(wire) \/ x \in Range(chunk)
    BY DEF Out
  <2>2. \A x : x \in Range(wire') \/ x \in Range(chunk') => x \in Out'
    BY DEF Out, Range
  <2>3. Range(chunk') = Range(chunk)
    BY <1>2
  <2>4. \A x : x \in Range(tx) \cup Range(wire) => x \in Range(wire')
    BY <1>3
  <2> QED
    BY <2>1, <2>2, <2>3, <2>4, Zenon
<1>4. CASE WriteWakeup /\ ~HandlePacket
  <2>1. wire' = wire \o tx
    <3>1. wire' = Woken(Port).wire /\ over' = Woken(Port).over
      BY <1>4 DEF WriteWakeup
    <3> QED
      BY <1>1, <3>1, WokenSends
  <2>2. Range(wire') = Range(wire) \cup Range(tx)
    BY <1>1, <2>1, JoinedRange
  <2> QED
    BY <1>3, <1>4, <2>2
<1>5. CASE HandlePacket /\ packet[1] # MTCP_RESET
  <2>1. tx' = tx /\ wire' = wire
    BY <1>1, <1>5 DEF HandlePacket
  <2>2. Out' = Out
    BY <1>2, <2>1 DEF Out, Range
  <2> QED
    BY <1>5, <2>2
<1>6. CASE HandlePacket /\ packet[1] = MTCP_RESET
  <2> DEFINE a == wire \o (tx \o << MTCP_BIOC_ON >>)
             b == a \o << MTCP_LED_USR >>
  <2>1. wire' = Restored(Port).wire /\ over' = Restored(Port).over
    BY <1>6 DEF HandlePacket
  <2>2. ~Restored(Port).over => ~Port.over
    BY <1>1, RestoredSends
  <2>3. ~over
    BY <1>1, <2>1, <2>2
  <2>4. Len(tx) =< LED_BUFF_SIZE
    BY <2>3 DEF SendInv
  <2>5. wire' = b \o buffer
    BY <1>1, <2>1, <2>4, RestoredSends
  <2>6. /\ << MTCP_BIOC_ON >> \in Seq(Byte) /\ << MTCP_LED_USR >> \in Seq(Byte)
        /\ MTCP_BIOC_ON \in Range(<< MTCP_BIOC_ON >>) /\ buffer \in Seq(Byte)
    BY <1>1, BufferIsSeq DEF MTCP_BIOC_ON, MTCP_LED_USR, Byte, Range
  <2>7. tx \o << MTCP_BIOC_ON >> \in Seq(Byte)
        /\ Range(tx \o << MTCP_BIOC_ON >>) = Range(tx) \cup Range(<< MTCP_BIOC_ON >>)
    BY <1>1, <2>6, JoinedRange, Concatenated
  <2>8. a \in Seq(Byte) /\ Range(a) = Range(wire) \cup Range(tx \o << MTCP_BIOC_ON >>)
    BY <1>1, <2>7, JoinedRange, Concatenated
  <2> HIDE DEF a
  <2>9. b \in Seq(Byte) /\ Range(b) = Range(a) \cup Range(<< MTCP_LED_USR >>)
    BY <2>6, <2>8, JoinedRange, Concatenated
  <2> HIDE DEF b
  <2>10. Range(wire') = Range(b) \cup Range(buffer)
    BY <2>5, <2>6, <2>9, JoinedRange
  <2>11. /\ \A x \in Range(tx) \cup Range(wire) : x \in Range(wire')
         /\ MTCP_BIOC_ON \in Range(wire')
    BY <2>6, <2>7, <2>8, <2>9, <2>10
  <2>12. MTCP_BIOC_ON \in Out'
    BY <2>11 DEF Out, Range, MTCP_BIOC_ON
  <2> QED
    BY <1>3, <2>11, <2>12
<1> QED
  BY <1>4, <1>5, <1>6

\* Nor is anything between two steps of the caller; and an LED command goes
\* into the ring with its opcode.
LEMMA CallerKeepsOut ==
  ASSUME TypeInv, SendInv, CallerStep, ~over'
  PROVE  /\ \A x : x \in Out => x \in Out'
         /\ PutBytes /\ arg # << >> => MTCP_LED_SET \in Out'
<1>1. /\ tx \in Seq(Byte) /\ wire \in Seq(Byte) /\ chunk \in Seq(Byte) /\ Len(wire) =< Xmit
      /\ Len(wire) \in Nat /\ Xmit \in Nat /\ Len(chunk) \in Nat /\ room \in 0 .. Xmit
      /\ todo \in Seq(Seq(Byte)) /\ Calling
  BY DEF TypeInv, TypeOK, LineOK, CallerOK
<1>2. ~over
  BY DEF CallerStep, StoreByte, PutBytes, AskRoom, PopBytes, WriteBytes, SetFlag, seen
<1>3. CASE StoreByte \/ AskRoom \/ SetFlag
  <2>1. UNCHANGED << tx, chunk, wire >> /\ ~PutBytes
    BY <1>3 DEF StoreByte, AskRoom, SetFlag, PutBytes, driver, rings, cables
  <2>2. Out' = Out
    BY <2>1 DEF Out, Range
  <2> QED
    BY <2>1, <2>2
<1>4. CASE PutBytes
  <2>1. pc = "put" /\ tx' = Fill(tx, Head(todo)) /\ UNCHANGED << chunk, wire >>
    BY <1>4 DEF PutBytes, cables
  <2>2. tx = << >> /\ todo # << >> /\ Head(todo) = todo[1] /\ 1 \in 1 .. Len(todo)
    BY <1>1, <1>2, <2>1 DEF SendInv, Calling
  <2>3. Range(tx) = {}
    BY <2>2 DEF Range
  <2>4. \A x : x \in Out => x \in Out'
    BY <2>1, <2>3 DEF Out, Range
  <2>5. ASSUME arg # << >>
        PROVE  MTCP_LED_SET \in Out'
    <3>1. Command(arg) /\ Len(arg) = LED_BUFF_SIZE /\ todo = << arg >>
      BY <1>1, <2>1, <2>5 DEF Calling
    <3>2. Head(todo) = arg
      BY <3>1
    <3>3. tx' = arg
      BY <2>1, <2>2, <3>1, <3>2, FillEmpty
    <3>4. arg[1] = MTCP_LED_SET /\ arg \in Seq(Byte)
      <4>1. Len(arg) # 1 /\ arg \in Seq(Byte)
        BY <3>1, Constants DEF Command
      <4> QED
        BY <3>1, <4>1 DEF Command
    <3>5. MTCP_LED_SET \in Range(arg)
      BY <2>5, <3>4, ByteRange
    <3> QED
      BY <3>3, <3>5 DEF Out, Range, MTCP_LED_SET
  <2> QED
    BY <2>4, <2>5
<1>5. CASE PopBytes
  <2> DEFINE n == Popped(room, tx)
  <2>1. /\ pc = "pop" /\ chunk' = First(n, tx) /\ tx' = After(n, tx) /\ wire' = wire
    BY <1>5 DEF PopBytes, cables
  <2>2. n \in Nat
    BY <1>1 DEF Popped, Least
  <2> HIDE DEF n
  <2>3. chunk = << >> /\ Range(chunk) = {}
    BY <1>1, <2>1 DEF Calling, Range
  <2>4. Range(tx) = Range(First(n, tx)) \cup Range(After(n, tx))
    BY <1>1, <2>2, PartsRange
  <2>5. \A x : x \in Out => x \in Range(tx') \cup Range(chunk') \cup Range(wire')
    BY <2>1, <2>3, <2>4 DEF Out
  <2>6. ~PutBytes
    BY <2>1 DEF PutBytes
  <2> QED
    BY <2>5, <2>6 DEF Out, Range
<1>6. CASE WriteBytes
  <2>1. /\ pc = "write" /\ wire' = Sent(wire, chunk) /\ chunk' = << >> /\ tx' = tx
        /\ over' = (over \/ Len(chunk) > WriteRoom(wire))
    BY <1>6 DEF WriteBytes, driver, rings
  <2>2. Len(chunk) =< WriteRoom(wire) /\ WriteRoom(wire) = Xmit - Len(wire)
    <3>1. WriteRoom(wire) = Xmit - Len(wire)
      BY DEF WriteRoom
    <3>2. ~(Len(chunk) > WriteRoom(wire))
      BY <2>1, Zenon
    <3> QED
      BY <1>1, <3>1, <3>2
  <2>3. First(Xmit - Len(wire), chunk) = chunk
    <3>1. Xmit - Len(wire) \in Nat /\ Len(chunk) =< Xmit - Len(wire)
      BY <1>1, <2>2
    <3> QED
      BY <1>1, <3>1, AllOf
  <2>4. wire' = wire \o chunk
    BY <2>1, <2>3 DEF Sent
  <2>5. Range(wire') = Range(wire) \cup Range(chunk)
    BY <1>1, <2>4, JoinedRange
  <2>6. \A x : x \in Out => x \in Range(tx') \cup Range(chunk') \cup Range(wire')
    BY <2>1, <2>5 DEF Out
  <2>7. ~PutBytes
    BY <2>1 DEF PutBytes
  <2> QED
    BY <2>6, <2>7 DEF Out, Range
<1> QED
  BY <1>3, <1>4, <1>5, <1>6 DEF CallerStep

\* A packet that is no answer takes none with it.
LEMMA HandleKeepsAnswers ==
  ASSUME TypeInv, HandlePacket, NEW a \in Answers, packet[1] # a
  PROVE  a \in Range(Incoming) => a \in Range(Incoming)'
<1>1. /\ packet \in Seq(Byte) /\ Len(packet) \in Nat /\ Len(packet) > 2
      /\ rx \o line \in Seq(Byte) /\ Incoming \in Seq(Byte) /\ Len(Incoming) \in Nat
      /\ Len(Incoming) >= 3
      /\ Incoming[1] = packet[1] /\ Incoming[2] = packet[2] /\ Incoming[3] = packet[3]
  <2>1. /\ packet \in Seq(Byte) /\ Len(packet) \in Nat /\ rx \o line \in Seq(Byte)
        /\ Incoming \in Seq(Byte) /\ Len(Incoming) = Len(packet) + Len(rx \o line)
        /\ \A i \in 1 .. Len(packet) : Incoming[i] = packet[i]
    BY IncomingBytes DEF TypeInv
  <2>2. Len(packet) > 2
    BY DEF HandlePacket, Framing
  <2>3. 1 \in 1 .. Len(packet) /\ 2 \in 1 .. Len(packet) /\ 3 \in 1 .. Len(packet)
    BY <2>1, <2>2
  <2>4. Len(rx \o line) \in Nat
    BY <2>1
  <2> QED
    BY <2>1, <2>2, <2>3, <2>4
<1>2. /\ packet' = After(3, packet) /\ UNCHANGED << rx, line >>
      /\ packet[2] >= 128 /\ packet[3] >= 128
  BY DEF HandlePacket, IsPacket
<1>3. Incoming' = After(3, Incoming)
  <2>1. After(3, packet) \o (rx \o line) = After(3, packet \o (rx \o line))
    <3>1. 3 \in Nat /\ 3 =< Len(packet)
      BY <1>1
    <3> QED
      BY <1>1, <3>1, FrontGone
  <2> QED
    BY <1>2, <2>1 DEF Incoming
<1>4. /\ First(3, Incoming) \in Seq(Byte) /\ Len(First(3, Incoming)) = 3
      /\ \A i \in 1 .. 3 : First(3, Incoming)[i] = Incoming[i]
  <2> DEFINE n == Len(Incoming)
  <2>1. n \in Nat /\ n >= 3
    BY <1>1
  <2> HIDE DEF n
  <2>2. Least(3, n) = 3
    BY <2>1 DEF Least
  <2>3. 3 \in Nat
    OBVIOUS
  <2>4. /\ First(3, Incoming) \in Seq(Byte) /\ Len(First(3, Incoming)) = Least(3, n)
        /\ \A i \in 1 .. Least(3, n) : First(3, Incoming)[i] = Incoming[i]
    BY <1>1, <2>3, Parts DEF n
  <2> QED
    BY <2>2, <2>4
<1>5. \A x : x \in Range(First(3, Incoming)) <=> \E i \in 1 .. 3 : x = First(3, Incoming)[i]
  BY <1>4, ByteRange
<1>6. a \notin Range(First(3, Incoming))
  <2>1. a < 128
    BY DEF Answers, MTCP_ACK, MTCP_RESET
  <2>2. packet[2] # a /\ packet[3] # a
    BY <1>2, <2>1 DEF Answers, MTCP_ACK, MTCP_RESET
  <2>3. \A i \in 1 .. 3 : First(3, Incoming)[i] # a
    BY <1>1, <1>4, <2>2
  <2> QED
    BY <1>5, <2>3
<1>7. Range(Incoming) = Range(First(3, Incoming)) \cup Range(After(3, Incoming))
  <2>1. 3 \in Nat
    OBVIOUS
  <2> QED
    BY <1>1, <2>1, PartsRange
<1>8. Range(Incoming)' = Range(After(3, Incoming))
  BY <1>3 DEF Range
<1> QED
  BY <1>6, <1>7, <1>8

\* What the controller sends comes behind what is on its way.
LEMMA LineGrows ==
  ASSUME TypeOK, UNCHANGED << packet, rx >>, NEW p \in Seq(Byte), line' = line \o p
  PROVE  \A x : x \in Range(Incoming) \/ x \in Range(p) => x \in Range(Incoming)'
<1>1. /\ packet \in Seq(Byte) /\ rx \in Seq(Byte) /\ line \in Seq(Byte)
      /\ Incoming \in Seq(Byte)
  BY IncomingBytes
<1>2. Incoming' = packet \o (rx \o (line \o p))
  BY DEF Incoming
<1>3. packet \o (rx \o (line \o p)) = (packet \o (rx \o line)) \o p
  BY <1>1, LastOfFour, SMTT(60)
<1>4. Incoming' = Incoming \o p
  BY <1>2, <1>3 DEF Incoming
<1>5. Range(Incoming \o p) = Range(Incoming) \cup Range(p)
  BY <1>1, JoinedRange
<1>6. Range(Incoming)' = Range(Incoming \o p)
  BY <1>4 DEF Range
<1> QED
  BY <1>5, <1>6

\* The answer that a packet of the controller is.
LEMMA AnswerComes ==
  ASSUME TypeOK, TypeOK', UNCHANGED << packet, rx >>, NEW a \in Answers,
         line' = line \o Packet(a, 0, 0)
  PROVE  AckComing'
<1>1. a \in {MTCP_ACK, MTCP_RESET}
  BY DEF Answers
<1>2. Packet(a, 0, 0) \in Seq(Byte) /\ Packet(a, 0, 0)[1] = a /\ Len(Packet(a, 0, 0)) = 3
  BY <1>1, AnswerBytes
<1>3. a \in Range(Packet(a, 0, 0))
  <2> DEFINE q == Packet(a, 0, 0)
  <2> HIDE DEF q
  <2>1. q \in Seq(Byte) /\ q[1] = a /\ Len(q) = 3
    BY <1>2 DEF q
  <2>2. q # << >>
    <3>1. Len(<< >>) = 0 /\ 0 # 3
      OBVIOUS
    <3> QED
      BY <2>1, <3>1, Zenon
  <2>3. a \in Range(q)
    BY <2>1, <2>2, ByteRange
  <2> QED
    BY <2>3 DEF q
<1>4. a \in Range(Incoming)'
  BY <1>2, <1>3, LineGrows
<1>5. Coming'
  BY <1>4 DEF Coming, Answers
<1> QED
  BY <1>5, ComingFormNext

\* The controller takes a byte: it answers, or what was coming still comes.
LEMMA DeviceKeepsComing ==
  ASSUME TypeInv, TypeInv', AckComing, DeviceByte, ~device.locked, ~device'.locked
  PROVE  AckComing'
<1> DEFINE g == device.got
           h == Append(g, Head(wire))
           lit == [device EXCEPT !.leds = Lit(device, h[2], After(2, h))]
           partial == Len(h) = 1 \/ Len(h) < 2 + Bits(h[2])
<1>1. /\ g \in Seq(Byte) /\ wire \in Seq(Byte) /\ device \in Device
      /\ wire # << >> /\ wire' = Tail(wire) /\ TypeOK /\ TypeOK'
      /\ UNCHANGED << packet, rx, tx, chunk >>
  BY DeviceFields DEF TypeInv, TypeOK, LineOK, DeviceByte, driver, rings, caller
<1>2. IF h = << MTCP_BIOC_ON >>
        THEN device' = [device EXCEPT !.bioc = TRUE] /\ line' = line \o Ack
      ELSE IF h = << MTCP_LED_USR >>
        THEN device' = [device EXCEPT !.user = TRUE] /\ UNCHANGED line
      ELSE IF h[1] # MTCP_LED_SET
        THEN device' = [device EXCEPT !.locked = TRUE] /\ UNCHANGED line
      ELSE IF partial
        THEN device' = [device EXCEPT !.got = h] /\ UNCHANGED line
      ELSE device' = [lit EXCEPT !.got = << >>] /\ line' = line \o Ack
  BY DEF DeviceByte
<1>3. /\ Head(wire) \in Byte /\ Tail(wire) \in Seq(Byte) /\ h \in Seq(Byte)
      /\ wire = << Head(wire) >> \o Tail(wire) /\ h = g \o << Head(wire) >>
  BY <1>1
<1> DEFINE e == << Head(wire) >>
<1>4. e \in Seq(Byte) /\ Range(e) = {Head(wire)}
  BY <1>3 DEF Range
<1>5. Range(wire) = Range(e) \cup Range(wire') /\ Range(h) = Range(g) \cup Range(e)
  BY <1>1, <1>3, <1>4, JoinedRange
<1> HIDE DEF lit, partial, h, e
<1>6. CASE line' = line \o Ack
  <2>1. MTCP_ACK \in Answers /\ Ack = Packet(MTCP_ACK, 0, 0)
    BY DEF Answers, Ack
  <2> QED
    BY <1>1, <1>6, <2>1, AnswerComes
<1>7. ASSUME UNCHANGED line,
             \A x \in Asked : x \in Range(e) \cup Range(g)
                 => x \in Range(device'.got)
      PROVE  AckComing'
  <2>1. Incoming' = Incoming
    BY <1>1, <1>7 DEF Incoming
  <2>2. \A x : x \in Range(tx) \cup Range(chunk) \cup Range(wire') \cup Range(device'.got)
            => x \in (Out \cup Range(device.got))'
    BY <1>1 DEF Out, Range
  <2>3. \A x \in Asked : x \in Out \cup Range(device.got)
                 => x \in (Out \cup Range(device.got))'
    BY <1>5, <1>7, <2>2 DEF Out
  <2>4. Range(Incoming)' = Range(Incoming)
    BY <2>1 DEF Range
  <2> QED
    BY <1>1, <2>3, <2>4, StillComing
<1>8. CASE h = << MTCP_LED_USR >> /\ UNCHANGED line
  <2>1. device' = [device EXCEPT !.user = TRUE]
    <3>1. << MTCP_LED_USR >> # << MTCP_BIOC_ON >>
      BY DEF MTCP_LED_USR, MTCP_BIOC_ON
    <3> QED
      BY <1>2, <1>8, <3>1, Zenon
  <2>2. device'.got = g
    BY <1>1, <2>1 DEF Device
  <2>3. Range(h) = {MTCP_LED_USR}
    BY <1>8 DEF Range
  <2>4. MTCP_LED_USR \notin Asked
    BY DEF Asked, MTCP_LED_USR, MTCP_BIOC_ON, MTCP_LED_SET
  <2>5. \A x \in Asked : x \notin Range(e) \cup Range(g)
    BY <1>5, <2>3, <2>4
  <2> QED
    BY <1>7, <1>8, <2>5
<1>9. CASE device' = [device EXCEPT !.got = h] /\ UNCHANGED line
  <2>1. device'.got = h
    BY <1>1, <1>9 DEF Device
  <2>2. \A x \in Asked : x \in Range(e) \cup Range(g) => x \in Range(device'.got)
    BY <1>5, <2>1
  <2> QED
    BY <1>7, <1>9, <2>2
<1>10. CASE device' = [device EXCEPT !.locked = TRUE]
  <2>1. device'.locked = TRUE
    BY <1>1, <1>10 DEF Device
  <2> QED
    BY <2>1
<1> QED
  BY <1>2, <1>6, <1>8, <1>9, <1>10, Zenon

\* From the put of an LED command on, until its acknowledgement is handled, the
\* command or the answer is on its way.
FlagInv == (spam \/ Unflagged) /\ Sound /\ ~raced => AckComing

LEMMA FlagInit == Init => FlagInv
BY DEF Init, FlagInv, Unflagged

LEMMA FlagStep ==
  ASSUME TypeInv, TypeInv', SendInv, InInv, FlagInv, [Next]_vars
  PROVE  FlagInv'
<1> SUFFICES ASSUME spam' \/ Unflagged', lost' = 0, ~over', ~device'.locked, ~raced'
             PROVE  AckComing'
  BY DEF FlagInv, Sound
<1>2. (spam \/ Unflagged) /\ ~raced /\ lost = 0 /\ ~over /\ ~device.locked => AckComing
  BY DEF FlagInv, Sound
<1>3. /\ TypeOK /\ TypeOK' /\ lost \in 0 .. 2 /\ device \in Device /\ Calling
      /\ packet \in Seq(Byte) /\ rx \in Seq(Byte) /\ line \in Seq(Byte)
  BY DEF TypeInv, TypeOK, SeenOK, LineOK
<1>4. pc \in {"idle", "fill", "put", "write", "flag"} /\ ~over => tx = << >>
  BY DEF SendInv
\* A step that takes nothing away.
<1>5. ASSUME spam \/ Unflagged, ~raced, lost = 0, ~over, UNCHANGED device,
             \A x : x \in Out => x \in Out',
             \A x \in Answers : x \in Range(Incoming) => x \in Range(Incoming)'
      PROVE  AckComing'
  <2>1. AckComing
    BY <1>2, <1>5
  <2>2. \A x : x \in Out \cup Range(device.got) => x \in (Out \cup Range(device.got))'
    <3>1. (Out \cup Range(device.got))' = Out' \cup Range(device.got)
      BY <1>5 DEF Range
    <3> QED
      BY <1>5, <3>1
  <2> QED
    BY <1>3, <1>5, <2>1, <2>2, StillComing
<1>6. ASSUME UNCHANGED << packet, rx, line >>
      PROVE  Range(Incoming)' = Range(Incoming)
  BY <1>6 DEF Incoming, Range
<1>7. ASSUME UNCHANGED << tx, chunk, wire >>
      PROVE  Out' = Out
  BY <1>7 DEF Out, Range
<1>0. ASSUME UNCHANGED << spam, pc, arg, raced >>
      PROVE  (spam \/ Unflagged) /\ ~raced
  BY <1>0 DEF Unflagged
<1>8. CASE HandlePacket
  <2>1. /\ lost' = lost /\ device' = device /\ (spam' = (spam /\ ~Acknowledged))
        /\ raced' = (raced \/ (Acknowledged /\ Unflagged /\ ~AckComing'))
        /\ UNCHANGED << pc, arg >>
    BY <1>8 DEF HandlePacket, caller
  <2>2. Unflagged' <=> Unflagged
    BY <2>1 DEF Unflagged
  <2>3. ~over
    BY <1>8, InterruptsOut DEF Interrupted
  <2>4. \A x : x \in Out => x \in Out'
    BY <1>8, InterruptKeepsOut
  <2>5. CASE packet[1] = MTCP_RESET
    <3>1. MTCP_BIOC_ON \in Out'
      BY <1>8, <2>5, InterruptKeepsOut
    <3>2. Coming'
      BY <3>1 DEF Coming, Asked, MTCP_BIOC_ON
    <3> QED
      BY <1>3, <3>2, ComingFormNext
  <2>6. CASE packet[1] = MTCP_ACK
    <3>1. Acknowledged
      BY <2>6 DEF Acknowledged
    <3>2. Unflagged
      BY <2>1, <2>2, <3>1, Zenon
    <3> QED
      BY <2>1, <3>1, <3>2, Zenon
  <2>7. CASE packet[1] # MTCP_RESET /\ packet[1] # MTCP_ACK
    <3>1. packet[1] \notin Answers
      BY <2>7 DEF Answers
    <3>2. \A x \in Answers : x \in Range(Incoming) => x \in Range(Incoming)'
      BY <1>8, <3>1, HandleKeepsAnswers
    <3>3. (spam \/ Unflagged) /\ ~raced
      BY <2>1, <2>2, Zenon
    <3> QED
      BY <1>5, <2>1, <2>3, <2>4, <3>2, <3>3
  <2> QED
    BY <2>5, <2>6, <2>7
<1>9. CASE SkipByte
  <2>1. lost # 0 /\ lost' = lost
    BY <1>9, SkipSound DEF SkipByte, seen
  <2> QED
    BY <2>1
<1>10. CASE WriteWakeup
  <2>1. UNCHANGED << packet, rx, line, device, lost, spam, pc, arg, raced >>
    BY <1>10 DEF WriteWakeup, caller
  <2>2. ~over
    BY <1>10, InterruptsOut DEF Interrupted
  <2>3. \A x : x \in Out => x \in Out'
    BY <1>10, InterruptKeepsOut
  <2>4. Range(Incoming)' = Range(Incoming)
    BY <1>6, <2>1
  <2> QED
    BY <1>0, <1>5, <2>1, <2>2, <2>3, <2>4
<1>11. CASE CallerStep
  <2>1. UNCHANGED << packet, rx, line, device, lost, raced >>
    BY <1>11 DEF CallerStep, StoreByte, PutBytes, AskRoom, PopBytes, WriteBytes, SetFlag,
         driver, rings, cables, seen
  <2>2. ~over
    BY <1>11, Zenon DEF CallerStep, StoreByte, PutBytes, AskRoom, PopBytes, WriteBytes,
         SetFlag, seen
  <2>3. \A x : x \in Out => x \in Out'
    BY <1>11, CallerKeepsOut
  <2>4. Range(Incoming)' = Range(Incoming)
    BY <1>6, <2>1
  <2>5. ASSUME spam \/ Unflagged
        PROVE  AckComing'
    BY <1>5, <2>1, <2>2, <2>3, <2>4, <2>5
  <2>6. CASE PutBytes /\ arg # << >>
    <3>1. MTCP_LED_SET \in Out'
      BY <1>11, <2>6, CallerKeepsOut
    <3>2. Coming'
      BY <3>1 DEF Coming, Asked, MTCP_LED_SET
    <3> QED
      BY <1>3, <3>2, ComingFormNext
  <2>7. CASE StoreByte \/ (PutBytes /\ arg = << >>)
    <3>1. spam' = spam /\ (pc' \in {"fill", "put"} \/ arg' = << >>)
      BY <2>7 DEF StoreByte, PutBytes, driver
    <3>2. spam
      BY <3>1 DEF Unflagged
    <3> QED
      BY <2>5, <3>2
  <2>8. CASE AskRoom \/ PopBytes \/ WriteBytes
    <3>1. spam' = spam /\ arg' = arg /\ pc \in {"room", "pop", "write"}
      BY <2>8 DEF AskRoom, PopBytes, WriteBytes, driver
    <3> QED
      BY <2>5, <3>1 DEF Unflagged
  <2>9. CASE SetFlag
    <3>1. pc = "flag" /\ arg # << >>
      BY <1>3, <2>9 DEF SetFlag, Calling
    <3> QED
      BY <2>5, <3>1 DEF Unflagged
  <2> QED
    BY <1>11, <2>6, <2>7, <2>8, <2>9 DEF CallerStep
<1>13. ASSUME Moved, UNCHANGED << chunk, wire, device, spam, over, pc, arg, raced >>,
              tx' = tx \/ (pc = "idle" /\ tx' = << >>)
       PROVE  AckComing'
  <2>1. lost = 0 /\ Incoming' = Incoming
    <3>1. lost' = Least(2, lost + 1) => lost' # 0
      BY <1>3 DEF Least
    <3> QED
      BY <1>13, <3>1 DEF Moved
  <2>2. tx' = tx
    BY <1>4, <1>13
  <2>3. Range(Incoming)' = Range(Incoming) /\ Out' = Out
    BY <1>7, <1>13, <2>1, <2>2 DEF Range
  <2> QED
    BY <1>0, <1>5, <1>13, <2>1, <2>3
<1>14. ASSUME NEW k \in Chunks, Receive(k), ~Framing
       PROVE  AckComing'
  <2>1. Moved
    BY <1>14, ReceiveMoves DEF InInv
  <2>2. UNCHANGED << chunk, wire, device, spam, over, tx, pc, arg, raced >>
    BY <1>14 DEF Receive, caller, rings
  <2> QED
    BY <1>13, <2>1, <2>2
<1>15. CASE Close
  <2>1. /\ UNCHANGED << chunk, wire, device, spam, over, pc, arg, raced >>
        /\ pc = "idle" /\ tx' = << >>
    BY <1>15 DEF Close, caller, cables
  <2> QED
    BY <1>13, <1>15, <2>1, CloseMoves
<1>16. CASE LoseByte
  <2>1. lost' = Least(2, lost + 1)
    BY <1>16 DEF LoseByte, Missed
  <2> QED
    BY <1>3, <2>1 DEF Least
<1>17. CASE Open
  <2>1. /\ UNCHANGED << packet, line, chunk, wire, device, spam, over, lost, pc, arg, raced >>
        /\ pc = "idle" /\ tx' = << >> /\ rx' = << >> /\ ~open
    BY <1>17 DEF Open, caller, cables, seen
  <2>2. tx' = tx /\ rx' = rx
    BY <1>4, <2>1 DEF InInv
  <2>3. Range(Incoming)' = Range(Incoming) /\ Out' = Out
    BY <1>6, <1>7, <2>1, <2>2
  <2> QED
    BY <1>0, <1>5, <2>1, <2>3
<1>18. CASE TuxInit \/ (\E leds \in Shown : TuxSetLed(leds)) \/ UNCHANGED vars
  <2>1. UNCHANGED << packet, rx, line, tx, chunk, wire, device, spam, over, lost >>
    BY <1>18 DEF TuxInit, TuxSetLed, Start, vars, driver, rings, caller, cables, seen
  <2>2. Range(Incoming)' = Range(Incoming) /\ Out' = Out
    BY <1>6, <1>7, <2>1
  <2>3. (spam \/ Unflagged) /\ ~raced
    <3>1. CASE TuxInit
      BY <2>1, <3>1 DEF TuxInit, Start, Unflagged
    <3>2. CASE \E leds \in Shown : TuxSetLed(leds)
      <4>1. pc' \in {"idle", "fill"}
        BY <3>2 DEF TuxSetLed, Start
      <4>2. spam
        BY <2>1, <4>1 DEF Unflagged
      <4>3. UNCHANGED raced
        BY <3>2, <4>2 DEF TuxSetLed
      <4> QED
        BY <4>2, <4>3
    <3>3. CASE UNCHANGED vars
      BY <1>0, <3>3 DEF vars, driver, caller, seen
    <3> QED
      BY <1>18, <3>1, <3>2, <3>3
  <2> QED
    BY <1>5, <2>1, <2>2, <2>3
<1>19. CASE DeviceByte
  <2>1. UNCHANGED << spam, over, lost, pc, arg, raced >>
    BY <1>19 DEF DeviceByte, driver, caller, seen
  <2>2. ~device.locked
    BY <1>19, Zenon DEF DeviceByte
  <2>3. AckComing
    BY <1>0, <1>2, <2>1, <2>2
  <2> QED
    BY <1>19, <2>2, <2>3, DeviceKeepsComing
<1>20. CASE Reset
  <2>1. UNCHANGED << packet, rx >> /\ line' = line \o Packet(MTCP_RESET, 0, 0)
    BY <1>20 DEF Reset, driver, rings
  <2>2. MTCP_RESET \in Answers
    BY DEF Answers
  <2> QED
    BY <1>3, <2>1, <2>2, AnswerComes
<1>21. ASSUME NEW p \in Presses, Press(p)
       PROVE  AckComing'
  <2>1. /\ UNCHANGED << packet, rx, tx, chunk, wire, spam, over, lost, pc, arg, raced >>
        /\ device' = [device EXCEPT !.pressed = p]
        /\ line' = line \/ line' = line \o Event(p)
    BY <1>21, Zenon DEF Press, driver, rings, caller, seen
  <2>2. device'.got = device.got /\ device'.locked = device.locked
    BY <1>3, <2>1 DEF Device
  <2>3. AckComing
    BY <1>0, <1>2, <2>1, <2>2
  <2>4. \A x : x \in Range(Incoming) => x \in Range(Incoming)'
    <3>1. CASE line' = line
      BY <1>6, <2>1, <3>1
    <3>2. CASE line' = line \o Event(p)
      BY <1>3, <2>1, <3>2, EventBytes, LineGrows
    <3> QED
      BY <2>1, <3>1, <3>2
  <2>5. Out' = Out
    BY <1>7, <2>1
  <2>6. (Out \cup Range(device.got))' = Out \cup Range(device.got)
    BY <2>2, <2>5 DEF Range
  <2> QED
    BY <1>3, <2>3, <2>4, <2>6, StillComing
<1> QED
  BY <1>8, <1>9, <1>10, <1>11, <1>14, <1>15, <1>16, <1>17, <1>18, <1>19,
     <1>20, <1>21 DEF Next, Others, Interrupt

\* While LED commands are refused, the answer that ends this is still to come,
\* unless it was handled between the put and the setting of the flag; received
\* bytes are framed at once; rings and registers are in range
\* (tuxctl-ioctl.c:194, :246, tuxctl-ld.c:257 to 292).
THEOREM FlagAnswered == Spec => []TuxInv
<1>1. TypeInv /\ LeftInv /\ FlagInv => TuxInv
  BY DEF TypeInv, LeftInv, FlagInv, FlagHasAck, TuxInv
<1>2. Init => LeftInv
  BY DEF Init, LeftInv, NothingLeftBehind
<1>3. /\ TypeInv /\ TypeInv' /\ SendInv /\ InInv /\ FlagInv /\ [Next]_vars => FlagInv'
      /\ TypeInv /\ SendInv /\ [Next]_vars => SendInv'
  BY FlagStep, SendStep
<1> QED
  BY <1>1, <1>2, <1>3, TypeInit, TypeStep, InInit, InStep, SendInit, LeftStep, FlagInit,
     PTL DEF Spec

-----------------------------------------------------------------------------
(* What the controller shows in the end.  *)

\* A byte that is no command follows: zeros of a command that was never stored.
Dead(c) ==
    \E k \in 0 .. Len(c) - 1 :
        /\ Whole(First(k, c))
        /\ \/ c[k + 1] = 0
           \/ k + 2 < Len(c) /\ c[k + 1] = MTCP_LED_SET /\ c[k + 2] = 0 /\ c[k + 3] = 0

\* Behind the last LED command, which is b, or if there is none come only
\* commands that leave the LEDs as they are.
Shows(c, leds, b) ==
    \/ leds = After(2, b) /\ \A i \in 1 .. Len(c) : c[i] \in Plain
    \/ /\ b[1] = MTCP_LED_SET /\ b[2] = AllLeds
       /\ \E k \in 0 .. Len(c) - LED_BUFF_SIZE :
             /\ Whole(First(k, c))
             /\ \A i \in 1 .. LED_BUFF_SIZE : c[k + i] = b[i]
             /\ \A i \in k + LED_BUFF_SIZE + 1 .. Len(c) : c[i] \in Plain

\* The controller is told that the program drives its LEDs.
UserIn(c) ==
    \E k \in 0 .. Len(c) - 1 : Whole(First(k, c)) /\ c[k + 1] = MTCP_LED_USR

LEMMA FirstOfJoined ==
  ASSUME NEW c \in Seq(Byte), NEW x \in Seq(Byte), NEW k \in 0 .. Len(c)
  PROVE  First(k, c \o x) = First(k, c)
<1> DEFINE t == c \o x
<1>1. /\ t \in Seq(Byte) /\ Len(c) \in Nat /\ Len(x) \in Nat /\ Len(t) = Len(c) + Len(x)
      /\ \A i \in 1 .. Len(c) : t[i] = c[i]
  BY Concatenated
<1> HIDE DEF t
<1>2. k \in 0 .. Len(t)
  BY <1>1
<1>3. /\ First(k, t) \in Seq(Byte) /\ Len(First(k, t)) = k
      /\ \A i \in 1 .. k : First(k, t)[i] = t[i]
  BY <1>1, <1>2, FirstBytes
<1>4. /\ First(k, c) \in Seq(Byte) /\ Len(First(k, c)) = k
      /\ \A i \in 1 .. k : First(k, c)[i] = c[i]
  BY FirstBytes
<1>5. \A i \in 1 .. k : i \in 1 .. Len(c)
  BY <1>1
<1>6. \A i \in 1 .. k : First(k, t)[i] = First(k, c)[i]
  BY <1>1, <1>3, <1>4, <1>5
<1> QED
  BY <1>3, <1>4, <1>6, SeqEqual DEF t

LEMMA FirstOfRest ==
  ASSUME NEW c \in Seq(Byte), NEW k \in 0 .. Len(c), NEW m \in 0 .. k
  PROVE  First(k - m, After(m, c)) = After(m, First(k, c))
<1> DEFINE f == First(k, c)
           a == After(m, c)
           n == Len(c)
<1>1. n \in Nat /\ m \in 0 .. n /\ k \in 0 .. n
  OBVIOUS
<1>2. /\ f \in Seq(Byte) /\ Len(f) = k /\ \A i \in 1 .. k : f[i] = c[i]
  BY FirstBytes
<1>3. /\ a \in Seq(Byte) /\ Len(a) = n - m
      /\ \A i \in 1 .. n - m : a[i] = c[m + i]
  BY <1>1, FirstBytes
<1> HIDE DEF f, a, n
<1>4. k - m \in 0 .. Len(a) /\ m \in 0 .. Len(f)
  BY <1>1, <1>2, <1>3
<1>5. /\ First(k - m, a) \in Seq(Byte) /\ Len(First(k - m, a)) = k - m
      /\ \A i \in 1 .. k - m : First(k - m, a)[i] = a[i]
  BY <1>3, <1>4, FirstBytes
<1>6. /\ After(m, f) \in Seq(Byte) /\ Len(After(m, f)) = k - m
      /\ \A i \in 1 .. k - m : After(m, f)[i] = f[m + i]
  BY <1>2, <1>4, FirstBytes
<1>7. ASSUME NEW i \in 1 .. k - m
      PROVE  First(k - m, a)[i] = After(m, f)[i]
  <2>1. i \in 1 .. n - m /\ m + i \in 1 .. k
    BY <1>1
  <2> QED
    BY <1>2, <1>3, <1>5, <1>6, <2>1
<1> QED
  BY <1>5, <1>6, <1>7, SeqEqual DEF f, a

\* The same of commands that other bytes follow.
LEMMA FirstOfMany ==
  ASSUME NEW c \in Seq(Byte), NEW k \in 1 .. Len(c), Whole(First(k, c))
  PROVE  \/ c[1] \in Plain /\ Whole(First(k - 1, After(1, c)))
         \/ /\ c[1] = MTCP_LED_SET /\ c[2] = AllLeds /\ LED_BUFF_SIZE =< k
            /\ Whole(First(k - LED_BUFF_SIZE, After(LED_BUFF_SIZE, c)))
<1> DEFINE f == First(k, c)
<1>1. k \in 0 .. Len(c) /\ LED_BUFF_SIZE \in 3 .. 6 /\ k \in Nat
  BY Constants
<1>2. f \in Seq(Byte) /\ Len(f) = k /\ \A i \in 1 .. k : f[i] = c[i]
  BY <1>1, FirstBytes
<1>3. Whole(f)
  OBVIOUS
<1> HIDE DEF f
<1>4. f # << >>
  BY <1>2
<1>5. f[1] = c[1]
  BY <1>2
<1>6. CASE f[1] \in Plain /\ Whole(After(1, f))
  <2>1. 1 \in 0 .. k
    BY <1>1
  <2>2. First(k - 1, After(1, c)) = After(1, f)
    BY <1>1, <2>1, FirstOfRest DEF f
  <2> QED
    BY <1>5, <1>6, <2>2
<1>7. CASE /\ f[1] = MTCP_LED_SET /\ f[2] = AllLeds /\ LED_BUFF_SIZE =< Len(f)
           /\ Whole(After(LED_BUFF_SIZE, f))
  <2>1. LED_BUFF_SIZE \in 0 .. k /\ 2 \in 1 .. k
    BY <1>1, <1>2, <1>7
  <2>2. First(k - LED_BUFF_SIZE, After(LED_BUFF_SIZE, c)) = After(LED_BUFF_SIZE, f)
    BY <1>1, <2>1, FirstOfRest DEF f
  <2>3. f[2] = c[2]
    BY <1>2, <2>1
  <2> QED
    BY <1>2, <1>5, <1>7, <2>2, <2>3
<1> QED
  BY <1>2, <1>3, <1>4, <1>6, <1>7, FirstCommand

LEMMA DeadGrows ==
  ASSUME NEW c \in Seq(Byte), NEW x \in Seq(Byte), Dead(c)
  PROVE  Dead(c \o x)
<1> DEFINE t == c \o x
<1>1. /\ t \in Seq(Byte) /\ Len(c) \in Nat /\ Len(x) \in Nat /\ Len(t) = Len(c) + Len(x)
      /\ \A i \in 1 .. Len(c) : t[i] = c[i]
  BY Concatenated
<1>2. PICK k \in 0 .. Len(c) - 1 :
        /\ Whole(First(k, c))
        /\ \/ c[k + 1] = 0
           \/ k + 2 < Len(c) /\ c[k + 1] = MTCP_LED_SET /\ c[k + 2] = 0 /\ c[k + 3] = 0
  BY DEF Dead
<1>3. k \in 0 .. Len(c) /\ k \in Nat
  BY <1>1
<1>4. Whole(First(k, t))
  BY <1>2, <1>3, FirstOfJoined
<1> HIDE DEF t
<1>5. k \in 0 .. Len(t) - 1
  BY <1>1
<1>6. t[k + 1] = c[k + 1]
  <2>1. k + 1 \in 1 .. Len(c)
    BY <1>1
  <2> QED
    BY <1>1, <2>1
<1>7. k + 2 < Len(c) => k + 2 < Len(t) /\ t[k + 2] = c[k + 2] /\ t[k + 3] = c[k + 3]
  <2> SUFFICES ASSUME k + 2 < Len(c)
               PROVE  k + 2 < Len(t) /\ t[k + 2] = c[k + 2] /\ t[k + 3] = c[k + 3]
    OBVIOUS
  <2>1. k + 2 \in 1 .. Len(c) /\ k + 3 \in 1 .. Len(c) /\ k + 2 < Len(t)
    BY <1>1, <1>3
  <2> QED
    BY <1>1, <2>1
<1>8. Dead(t)
  BY <1>2, <1>4, <1>5, <1>6, <1>7 DEF Dead
<1> QED
  BY <1>8 DEF t

LEMMA UserGrows ==
  ASSUME NEW c \in Seq(Byte), NEW x \in Seq(Byte)
  PROVE  /\ UserIn(c) => UserIn(c \o x)
         /\ Whole(c) /\ x # << >> /\ x[1] = MTCP_LED_USR => UserIn(c \o x)
<1> DEFINE t == c \o x
<1>1. /\ t \in Seq(Byte) /\ Len(c) \in Nat /\ Len(x) \in Nat /\ Len(t) = Len(c) + Len(x)
      /\ \A i \in 1 .. Len(c) : t[i] = c[i]
      /\ \A i \in 1 .. Len(x) : t[Len(c) + i] = x[i]
  BY Concatenated
<1>2. \A k \in 0 .. Len(c) : First(k, t) = First(k, c)
  BY FirstOfJoined
<1> HIDE DEF t
<1>3. ASSUME UserIn(c)
      PROVE  UserIn(t)
  <2>1. PICK k \in 0 .. Len(c) - 1 : Whole(First(k, c)) /\ c[k + 1] = MTCP_LED_USR
    BY <1>3 DEF UserIn
  <2>2. k \in 0 .. Len(c) /\ k \in 0 .. Len(t) - 1 /\ k + 1 \in 1 .. Len(c)
    BY <1>1
  <2>3. Whole(First(k, t)) /\ t[k + 1] = MTCP_LED_USR
    BY <1>1, <1>2, <2>1, <2>2
  <2> QED
    BY <2>2, <2>3 DEF UserIn
<1>4. ASSUME Whole(c), x # << >>, x[1] = MTCP_LED_USR
      PROVE  UserIn(t)
  <2>1. Len(x) # 0 /\ 1 \in 1 .. Len(x)
    BY <1>1, <1>4, EmptySeq
  <2>2. Len(c) \in 0 .. Len(c) /\ Len(c) \in 0 .. Len(t) - 1
    BY <1>1, <2>1
  <2>3. First(Len(c), t) = c
    <3>1. First(Len(c), c) = c
      BY <1>1, AllOf
    <3> QED
      BY <1>2, <2>2, <3>1
  <2>4. t[Len(c) + 1] = MTCP_LED_USR
    BY <1>1, <1>4, <2>1
  <2> QED
    BY <1>4, <2>2, <2>3, <2>4 DEF UserIn
<1> QED
  BY <1>3, <1>4 DEF t

\* Commands that leave the LEDs alone.
LEMMA ShowsGrows ==
  ASSUME NEW c \in Seq(Byte), NEW x \in Seq(Byte), NEW leds, NEW b,
         Shows(c, leds, b), \A i \in 1 .. Len(x) : x[i] \in Plain
  PROVE  Shows(c \o x, leds, b)
<1> DEFINE t == c \o x
           z == LED_BUFF_SIZE
<1>1. /\ t \in Seq(Byte) /\ Len(c) \in Nat /\ Len(x) \in Nat /\ Len(t) = Len(c) + Len(x)
      /\ \A i \in 1 .. Len(c) : t[i] = c[i]
      /\ \A i \in 1 .. Len(x) : t[Len(c) + i] = x[i]
  BY Concatenated
<1>2. \A k \in 0 .. Len(c) : First(k, t) = First(k, c)
  BY FirstOfJoined
<1>3. z \in 3 .. 6
  BY Constants
<1> HIDE DEF t, z
<1>4. ASSUME NEW i \in 1 .. Len(t), ~(i \in 1 .. Len(c))
      PROVE  t[i] \in Plain
  <2>1. i - Len(c) \in 1 .. Len(x) /\ Len(c) + (i - Len(c)) = i
    BY <1>1, <1>4
  <2>2. t[i] = x[i - Len(c)]
    BY <1>1, <2>1
  <2> QED
    BY <2>1, <2>2
<1>5. CASE leds = After(2, b) /\ \A i \in 1 .. Len(c) : c[i] \in Plain
  <2>1. \A i \in 1 .. Len(t) : t[i] \in Plain
    BY <1>1, <1>4, <1>5
  <2> QED
    BY <1>5, <2>1 DEF Shows, t
<1>6. CASE /\ b[1] = MTCP_LED_SET /\ b[2] = AllLeds
           /\ \E k \in 0 .. Len(c) - z :
                 /\ Whole(First(k, c))
                 /\ \A i \in 1 .. z : c[k + i] = b[i]
                 /\ \A i \in k + z + 1 .. Len(c) : c[i] \in Plain
  <2>1. PICK k \in 0 .. Len(c) - z :
             /\ Whole(First(k, c))
             /\ \A i \in 1 .. z : c[k + i] = b[i]
             /\ \A i \in k + z + 1 .. Len(c) : c[i] \in Plain
    BY <1>6
  <2>2. k \in 0 .. Len(c) /\ k \in 0 .. Len(t) - z
    BY <1>1, <1>3
  <2>3. Whole(First(k, t))
    BY <1>2, <2>1, <2>2
  <2>4. ASSUME NEW i \in 1 .. z
        PROVE  t[k + i] = b[i]
    <3>1. k + i \in 1 .. Len(c)
      BY <1>1, <1>3
    <3> QED
      BY <1>1, <2>1, <3>1
  <2>5. ASSUME NEW i \in k + z + 1 .. Len(t)
        PROVE  t[i] \in Plain
    <3>1. i \in 1 .. Len(t) /\ (i \in 1 .. Len(c) => i \in k + z + 1 .. Len(c))
      BY <1>1, <1>3
    <3> QED
      BY <1>1, <1>4, <2>1, <3>1
  <2> QED
    BY <1>6, <2>2, <2>3, <2>4, <2>5 DEF Shows, t, z
<1> QED
  BY <1>5, <1>6 DEF Shows, z

\* An LED command behind whatever there is.
LEMMA ShowsLast ==
  ASSUME NEW c \in Seq(Byte), NEW b \in Seq(Byte), NEW leds, Whole(c),
         Len(b) = LED_BUFF_SIZE, b[1] = MTCP_LED_SET, b[2] = AllLeds
  PROVE  Shows(c \o b, leds, b)
<1> DEFINE t == c \o b
           z == LED_BUFF_SIZE
<1>1. /\ t \in Seq(Byte) /\ Len(c) \in Nat /\ Len(t) = Len(c) + z
      /\ \A i \in 1 .. z : t[Len(c) + i] = b[i]
  BY Concatenated
<1>2. z \in 3 .. 6
  BY Constants
<1>3. First(Len(c), t) = c
  <2>1. Len(c) \in 0 .. Len(c)
    BY <1>1
  <2>2. First(Len(c), c) = c
    BY <1>1, AllOf
  <2> QED
    BY <2>1, <2>2, FirstOfJoined
<1> HIDE DEF t, z
<1>4. Len(c) \in 0 .. Len(t) - z
  BY <1>1, <1>2
<1>5. \A i \in Len(c) + z + 1 .. Len(t) : t[i] \in Plain
  BY <1>1, <1>2
<1>6. Whole(First(Len(c), t))
  BY <1>3
<1> QED
  BY <1>1, <1>4, <1>5, <1>6 DEF Shows, t, z

\* A buffer that holds no command yet.
LEMMA DeadLast ==
  ASSUME NEW c \in Seq(Byte), NEW b \in Seq(Byte), Whole(c), Len(b) = LED_BUFF_SIZE,
         b[1] = 0 \/ (b[1] = MTCP_LED_SET /\ b[2] = 0 /\ b[3] = 0)
  PROVE  Dead(c \o b)
<1> DEFINE t == c \o b
           z == LED_BUFF_SIZE
<1>1. /\ t \in Seq(Byte) /\ Len(c) \in Nat /\ Len(t) = Len(c) + z
      /\ \A i \in 1 .. z : t[Len(c) + i] = b[i]
  BY Concatenated
<1>2. z \in 3 .. 6
  BY Constants
<1>3. First(Len(c), t) = c
  <2>1. Len(c) \in 0 .. Len(c)
    BY <1>1
  <2>2. First(Len(c), c) = c
    BY <1>1, AllOf
  <2> QED
    BY <2>1, <2>2, FirstOfJoined
<1> HIDE DEF t, z
<1>4. Len(c) \in 0 .. Len(t) - 1 /\ Len(c) + 2 < Len(t)
  BY <1>1, <1>2
<1>5. 1 \in 1 .. z /\ 2 \in 1 .. z /\ 3 \in 1 .. z
  BY <1>2
<1>6. t[Len(c) + 1] = b[1] /\ t[Len(c) + 2] = b[2] /\ t[Len(c) + 3] = b[3]
  BY <1>1, <1>5
<1>7. Whole(First(Len(c), t))
  BY <1>3
<1> QED
  BY <1>4, <1>6, <1>7 DEF Dead, t

\* A command that leaves the LEDs alone is carried out.
LEMMA PlainTaken ==
  ASSUME NEW c \in Seq(Byte), c # << >>, c[1] \in Plain, NEW leds, NEW b
  PROVE  /\ Shows(c, leds, b) => Shows(After(1, c), leds, b)
         /\ UserIn(c) => c[1] = MTCP_LED_USR \/ UserIn(After(1, c))
<1> DEFINE a == After(1, c)
           n == Len(c)
           z == LED_BUFF_SIZE
<1>1. n \in Nat /\ n # 0 /\ 1 \in 0 .. n
  BY EmptySeq
<1>2. a \in Seq(Byte) /\ Len(a) = n - 1 /\ \A i \in 1 .. n - 1 : a[i] = c[1 + i]
  BY <1>1, FirstBytes
<1>3. z \in 3 .. 6
  BY Constants
<1>4. c[1] # MTCP_LED_SET
  BY DEF Plain, MTCP_BIOC_ON, MTCP_LED_USR, MTCP_LED_SET
<1>5. ASSUME NEW k \in 1 .. n, Whole(First(k, c))
      PROVE  Whole(First(k - 1, a))
  BY <1>4, <1>5, FirstOfMany
<1> HIDE DEF a, n, z
<1>6. ASSUME Shows(c, leds, b)
      PROVE  Shows(a, leds, b)
  <2>1. CASE leds = After(2, b) /\ \A i \in 1 .. n : c[i] \in Plain
    <3>1. \A i \in 1 .. Len(a) : 1 + i \in 1 .. n /\ i \in 1 .. n - 1
      BY <1>1, <1>2
    <3>2. \A i \in 1 .. Len(a) : a[i] \in Plain
      BY <1>2, <2>1, <3>1
    <3> QED
      BY <2>1, <3>2 DEF Shows
  <2>2. CASE /\ b[1] = MTCP_LED_SET /\ b[2] = AllLeds
             /\ \E k \in 0 .. n - z :
                   /\ Whole(First(k, c))
                   /\ \A i \in 1 .. z : c[k + i] = b[i]
                   /\ \A i \in k + z + 1 .. n : c[i] \in Plain
    <3>1. PICK k \in 0 .. n - z :
                   /\ Whole(First(k, c))
                   /\ \A i \in 1 .. z : c[k + i] = b[i]
                   /\ \A i \in k + z + 1 .. n : c[i] \in Plain
      BY <2>2
    <3>2. k # 0
      <4>1. k = 0 => c[0 + 1] = b[1]
        <5>1. 1 \in 1 .. z
          BY <1>3
        <5> QED
          BY <3>1, <5>1
      <4> QED
        BY <1>4, <2>2, <4>1
    <3>3. k \in 1 .. n /\ k - 1 \in 0 .. Len(a) - z
      BY <1>1, <1>2, <1>3, <3>2
    <3>4. Whole(First(k - 1, a))
      BY <1>5, <3>1, <3>3
    <3>5. ASSUME NEW i \in 1 .. z
          PROVE  a[(k - 1) + i] = b[i]
      <4>1. (k - 1) + i \in 1 .. n - 1 /\ 1 + ((k - 1) + i) = k + i
        BY <1>1, <1>2, <1>3, <3>3
      <4> QED
        BY <1>2, <3>1, <4>1
    <3>6. ASSUME NEW i \in (k - 1) + z + 1 .. Len(a)
          PROVE  a[i] \in Plain
      <4>1. i \in 1 .. n - 1 /\ 1 + i \in k + z + 1 .. n
        BY <1>1, <1>2, <1>3, <3>3
      <4> QED
        BY <1>2, <3>1, <4>1
    <3> QED
      BY <2>2, <3>3, <3>4, <3>5, <3>6 DEF Shows, z
  <2> QED
    BY <1>6, <2>1, <2>2 DEF Shows, n, z
<1>7. ASSUME UserIn(c)
      PROVE  c[1] = MTCP_LED_USR \/ UserIn(a)
  <2>1. PICK k \in 0 .. n - 1 : Whole(First(k, c)) /\ c[k + 1] = MTCP_LED_USR
    BY <1>7 DEF UserIn, n
  <2>2. CASE k = 0
    BY <2>1, <2>2
  <2>3. CASE k # 0
    <3>1. k \in 1 .. n /\ k - 1 \in 0 .. Len(a) - 1 /\ k \in 1 .. n - 1 /\ 1 + k = k + 1
      BY <1>1, <1>2, <2>3
    <3>2. Whole(First(k - 1, a)) /\ a[(k - 1) + 1] = MTCP_LED_USR
      <4>1. a[k] = c[k + 1] /\ (k - 1) + 1 = k
        BY <1>2, <3>1
      <4> QED
        BY <1>5, <2>1, <3>1, <4>1
    <3> QED
      BY <3>1, <3>2 DEF UserIn
  <2> QED
    BY <2>2, <2>3
<1> QED
  BY <1>6, <1>7 DEF a

\* An LED command is carried out: it was the last one, or the last is to come.
LEMMA LedsTaken ==
  ASSUME NEW c \in Seq(Byte), c[1] = MTCP_LED_SET, c[2] = AllLeds,
         LED_BUFF_SIZE =< Len(c), NEW leds,
         NEW b \in Seq(Byte), Len(b) = LED_BUFF_SIZE
  PROVE  /\ Shows(c, leds, b)
              => Shows(After(LED_BUFF_SIZE, c), [i \in 1 .. NLeds |-> c[i + 2]], b)
         /\ UserIn(c) => UserIn(After(LED_BUFF_SIZE, c))
<1> DEFINE n == Len(c)
           z == LED_BUFF_SIZE
           a == After(z, c)
           lit == [i \in 1 .. NLeds |-> c[i + 2]]
<1>1. n \in Nat /\ z \in 3 .. 6 /\ z \in 0 .. n /\ z = NLeds + 2 /\ NLeds \in 1 .. 4
  BY Constants
<1>2. a \in Seq(Byte) /\ Len(a) = n - z /\ \A i \in 1 .. n - z : a[i] = c[z + i]
  BY <1>1, FirstBytes
<1>4. c[1] \notin Plain
  BY DEF Plain, MTCP_BIOC_ON, MTCP_LED_USR, MTCP_LED_SET
<1>5. ASSUME NEW k \in 1 .. n, Whole(First(k, c))
      PROVE  z =< k /\ Whole(First(k - z, a))
  BY <1>4, <1>5, FirstOfMany
<1> HIDE DEF a, n, z
<1>6. ASSUME Shows(c, leds, b)
      PROVE  Shows(a, lit, b)
  <2>1. CASE leds = After(2, b) /\ \A i \in 1 .. n : c[i] \in Plain
    <3>1. 1 \in 1 .. n
      BY <1>1
    <3> QED
      BY <1>4, <2>1, <3>1
  <2>2. CASE /\ b[1] = MTCP_LED_SET /\ b[2] = AllLeds
             /\ \E k \in 0 .. n - z :
                   /\ Whole(First(k, c))
                   /\ \A i \in 1 .. z : c[k + i] = b[i]
                   /\ \A i \in k + z + 1 .. n : c[i] \in Plain
    <3>1. PICK k \in 0 .. n - z :
                   /\ Whole(First(k, c))
                   /\ \A i \in 1 .. z : c[k + i] = b[i]
                   /\ \A i \in k + z + 1 .. n : c[i] \in Plain
      BY <2>2
    <3>2. CASE k = 0
      <4>1. lit = After(2, b)
        <5> DEFINE e == After(2, b)
        <5>1. 2 \in 0 .. Len(b) /\ Len(b) = z /\ z - 2 = NLeds
          BY <1>1 DEF z
        <5>2. e \in Seq(Byte) /\ Len(e) = NLeds /\ \A i \in 1 .. NLeds : e[i] = b[2 + i]
          BY <5>1, FirstBytes
        <5> HIDE DEF e
        <5>3. ASSUME NEW i \in 1 .. NLeds
              PROVE  e[i] = c[i + 2]
          <6>1. i + 2 \in 1 .. z /\ 0 + (i + 2) = i + 2 /\ 2 + i = i + 2
            BY <1>1
          <6>2. c[0 + (i + 2)] = b[i + 2]
            BY <3>1, <3>2, <6>1
          <6> QED
            BY <5>2, <6>1, <6>2
        <5>4. e = [i \in 1 .. NLeds |-> e[i]]
          BY <5>2
        <5> QED
          BY <5>3, <5>4 DEF e
      <4>2. ASSUME NEW i \in 1 .. Len(a)
            PROVE  a[i] \in Plain
        <5>1. i \in 1 .. n - z /\ z + i \in k + z + 1 .. n
          BY <1>1, <1>2, <3>2
        <5> QED
          BY <1>2, <3>1, <5>1
      <4> QED
        BY <4>1, <4>2 DEF Shows
    <3>3. CASE k # 0
      <4>1. k \in 1 .. n
        BY <1>1, <3>3
      <4>2. z =< k /\ Whole(First(k - z, a))
        BY <1>5, <3>1, <4>1
      <4>3. k - z \in 0 .. Len(a) - z
        BY <1>1, <1>2, <4>1, <4>2
      <4>5. ASSUME NEW i \in 1 .. z
            PROVE  a[(k - z) + i] = b[i]
        <5>1. (k - z) + i \in 1 .. n - z /\ z + ((k - z) + i) = k + i
          BY <1>1, <1>2, <4>3
        <5> QED
          BY <1>2, <3>1, <5>1
      <4>6. ASSUME NEW i \in (k - z) + z + 1 .. Len(a)
            PROVE  a[i] \in Plain
        <5>1. i \in 1 .. n - z /\ z + i \in k + z + 1 .. n
          BY <1>1, <1>2, <4>3
        <5> QED
          BY <1>2, <3>1, <5>1
      <4> QED
        BY <2>2, <4>2, <4>3, <4>5, <4>6 DEF Shows, z
    <3> QED
      BY <3>2, <3>3
  <2> QED
    BY <1>6, <2>1, <2>2 DEF Shows, n, z
<1>7. ASSUME UserIn(c)
      PROVE  UserIn(a)
  <2>1. PICK k \in 0 .. n - 1 : Whole(First(k, c)) /\ c[k + 1] = MTCP_LED_USR
    BY <1>7 DEF UserIn, n
  <2>2. k # 0
    BY <1>4, <2>1 DEF Plain
  <2>3. k \in 1 .. n
    BY <1>1, <2>2
  <2>4. z =< k /\ Whole(First(k - z, a))
    BY <1>5, <2>1, <2>3
  <2>5. /\ k - z \in 0 .. Len(a) - 1 /\ (k - z) + 1 \in 1 .. n - z
        /\ z + ((k - z) + 1) = k + 1
    BY <1>1, <1>2, <2>3, <2>4
  <2>6. a[(k - z) + 1] = MTCP_LED_USR
    BY <1>2, <2>1, <2>5
  <2> QED
    BY <2>4, <2>5, <2>6 DEF UserIn
<1> QED
  BY <1>6, <1>7 DEF a, z

\* What comes before a byte that is no command is carried out.
LEMMA DeadTaken ==
  ASSUME NEW c \in Seq(Byte), Dead(c)
  PROVE  \/ c[1] \in Plain /\ Dead(After(1, c))
         \/ /\ c[1] = MTCP_LED_SET /\ c[2] = AllLeds /\ LED_BUFF_SIZE =< Len(c)
            /\ Dead(After(LED_BUFF_SIZE, c))
         \/ c[1] = 0
         \/ /\ c[1] = MTCP_LED_SET /\ c[2] = 0 /\ c[3] = 0 /\ Len(c) >= 3
<1> DEFINE n == Len(c)
           z == LED_BUFF_SIZE
           No(d, k) == \/ d[k + 1] = 0
                       \/ /\ k + 2 < Len(d) /\ d[k + 1] = MTCP_LED_SET
                          /\ d[k + 2] = 0 /\ d[k + 3] = 0
<1>1. n \in Nat /\ z \in 3 .. 6
  BY Constants
<1>2. PICK k \in 0 .. n - 1 : Whole(First(k, c)) /\ No(c, k)
  BY DEF Dead
<1>3. ASSUME NEW m \in 1 .. 6, m =< k, Whole(First(k - m, After(m, c)))
      PROVE  Dead(After(m, c))
  <2> DEFINE a == After(m, c)
  <2>1. m \in 0 .. n
    BY <1>1, <1>3
  <2>2. a \in Seq(Byte) /\ Len(a) = n - m /\ \A i \in 1 .. n - m : a[i] = c[m + i]
    BY <2>1, FirstBytes
  <2> HIDE DEF a, n
  <2>3. k - m \in 0 .. Len(a) - 1
    BY <1>1, <1>3, <2>2
  <2>4. a[(k - m) + 1] = c[k + 1]
    <3>1. (k - m) + 1 \in 1 .. n - m /\ m + ((k - m) + 1) = k + 1
      BY <1>1, <1>3
    <3> QED
      BY <2>2, <3>1
  <2>5. k + 2 < n => /\ (k - m) + 2 < Len(a) /\ a[(k - m) + 2] = c[k + 2]
                     /\ a[(k - m) + 3] = c[k + 3]
    <3> SUFFICES ASSUME k + 2 < n
                 PROVE  /\ (k - m) + 2 < Len(a) /\ a[(k - m) + 2] = c[k + 2]
                        /\ a[(k - m) + 3] = c[k + 3]
      OBVIOUS
    <3>1. /\ (k - m) + 2 \in 1 .. n - m /\ m + ((k - m) + 2) = k + 2
          /\ (k - m) + 3 \in 1 .. n - m /\ m + ((k - m) + 3) = k + 3
          /\ (k - m) + 2 < n - m
      BY <1>1, <1>3
    <3> QED
      BY <2>2, <3>1
  <2>6. No(a, k - m)
    BY <1>2, <2>4, <2>5 DEF n
  <2>7. Whole(First(k - m, a))
    BY <1>3 DEF a
  <2>8. Dead(a)
    BY <2>3, <2>6, <2>7 DEF Dead
  <2> QED
    BY <2>8 DEF a
<1>4. CASE k = 0
  BY <1>1, <1>2, <1>4
<1>5. CASE k # 0
  <2>1. k \in 1 .. Len(c)
    BY <1>1, <1>5
  <2>2. CASE c[1] \in Plain /\ Whole(First(k - 1, After(1, c)))
    <3>1. 1 \in 1 .. 6 /\ 1 =< k
      BY <2>1
    <3> QED
      BY <1>3, <2>2, <3>1
  <2>3. CASE /\ c[1] = MTCP_LED_SET /\ c[2] = AllLeds /\ z =< k
             /\ Whole(First(k - z, After(z, c)))
    <3>1. z \in 1 .. 6 /\ z =< Len(c)
      BY <1>1, <2>1, <2>3
    <3> QED
      BY <1>3, <2>3, <3>1
  <2> QED
    BY <1>2, <2>1, <2>2, <2>3, FirstOfMany
<1> QED
  BY <1>4, <1>5

\* A mask of no LEDs announces no bytes, that of all an LED for each byte.
LEMMA NoBits == Bits(0) = 0
<1>1. \A i \in 0 .. 7 : Bit(0, i) # 1
  <2> SUFFICES ASSUME NEW i \in 0 .. 7
               PROVE  Bit(0, i) # 1
    OBVIOUS
  <2> DEFINE p == << 1, 2, 4, 8, 16, 32, 64, 128 >>[i + 1]
  <2>1. p \in {1, 2, 4, 8, 16, 32, 64, 128}
    OBVIOUS
  <2>2. Bit(0, i) = (0 \div p) % 2
    BY DEF Bit
  <2> HIDE DEF p
  <2>3. 0 \div p = 0
    BY <2>1
  <2> QED
    BY <2>2, <2>3
<1>2. {i \in 0 .. 7 : Bit(0, i) = 1} = {}
  BY <1>1
<1> QED
  BY <1>2, FS_EmptySet DEF Bits

\* The controller takes a byte of what is no command, or of the empty one
\* before it.
LEMMA NoCommandTaken ==
  ASSUME TypeInv, DeviceByte, ~device.locked,
         \/ Sending[1] = 0
         \/ /\ Sending[1] = MTCP_LED_SET /\ Sending[2] = 0 /\ Sending[3] = 0
            /\ Len(Sending) >= 3
  PROVE  device'.locked \/ Dead(Sending')
<1> DEFINE g == device.got
           n == Len(g)
           h == Append(g, Head(wire))
           c == Sending
           lit == [device EXCEPT !.leds = Lit(device, h[2], After(2, h))]
           partial == Len(h) = 1 \/ Len(h) < 2 + Bits(h[2])
<1>1. /\ g \in Seq(Byte) /\ wire \in Seq(Byte) /\ n \in Nat /\ device \in Device
      /\ wire # << >> /\ wire' = Tail(wire)
  BY DeviceFields DEF TypeInv, TypeOK, LineOK, DeviceByte
<1>2. /\ h \in Seq(Byte) /\ Len(h) = n + 1 /\ Tail(wire) \in Seq(Byte)
      /\ c \in Seq(Byte) /\ n + 1 =< Len(c)
      /\ h \o Tail(wire) = c /\ Tail(wire) = After(n + 1, c)
      /\ \A i \in 1 .. n + 1 : h[i] = c[i]
      /\ \A i \in 1 .. n : g[i] = c[i]
  BY <1>1, NextByte DEF Sending
<1>3. /\ h[1] \notin Plain \cup {MTCP_LED_SET}
           => device' = [device EXCEPT !.locked = TRUE]
      /\ h[1] = MTCP_LED_SET /\ partial => device' = [device EXCEPT !.got = h]
      /\ h[1] = MTCP_LED_SET /\ ~partial => device' = [lit EXCEPT !.got = << >>]
  BY DeviceDoes
<1>4. Sending' = device'.got \o Tail(wire)
  BY <1>1 DEF Sending
<1>5. << >> \o Tail(wire) = After(n + 1, c)
  BY <1>2, ConcatEmptySeq
<1>6. h[1] = c[1]
  <2>1. 1 \in 1 .. n + 1
    BY <1>1
  <2> QED
    BY <1>2, <2>1
<1>7. \/ c[1] = 0
      \/ c[1] = MTCP_LED_SET /\ c[2] = 0 /\ c[3] = 0 /\ Len(c) >= 3
  OBVIOUS
\* Nothing comes before it.
<1>8. ASSUME NEW d \in Seq(Byte), Len(d) >= 1, d[1] = 0
      PROVE  Dead(d)
  <2>1. First(0, d) = << >> /\ 0 \in 0 .. Len(d) - 1
    <3>1. 0 \in 0 .. Len(d)
      BY <1>8
    <3>2. First(0, d) \in Seq(Byte) /\ Len(First(0, d)) = 0
      BY <3>1, FirstBytes
    <3> QED
      BY <1>8, <3>2, EmptySeq
  <2>2. Whole(First(0, d)) /\ d[0 + 1] = 0
    BY <1>8, <2>1, WholeEmpty
  <2> QED
    BY <2>1, <2>2 DEF Dead
<1> HIDE DEF h, c, lit, partial
<1>9. CASE c[1] = 0
  <2>1. 0 \notin Plain \cup {MTCP_LED_SET}
    BY DEF Plain, MTCP_BIOC_ON, MTCP_LED_USR, MTCP_LED_SET
  <2>2. device' = [device EXCEPT !.locked = TRUE]
    BY <1>3, <1>6, <1>9, <2>1
  <2> QED
    BY <1>1, <2>2 DEF Device
<1>10. CASE c[1] = MTCP_LED_SET /\ c[2] = 0 /\ c[3] = 0 /\ Len(c) >= 3
  <2>1. CASE partial
    <3>1. device' = [device EXCEPT !.got = h]
      BY <1>3, <1>6, <1>10, <2>1
    <3>2. device'.got = h
      BY <1>1, <3>1 DEF Device
    <3>3. Sending' = c
      BY <1>2, <1>4, <3>2
    <3>4. First(0, c) = << >> /\ 0 \in 0 .. Len(c) - 1
      <4>1. 0 \in 0 .. Len(c)
        BY <1>2, <1>10
      <4>2. First(0, c) \in Seq(Byte) /\ Len(First(0, c)) = 0
        BY <1>2, <4>1, FirstBytes
      <4> QED
        BY <1>2, <1>10, <4>2, EmptySeq
    <3>5. /\ Whole(First(0, c)) /\ 0 + 2 < Len(c) /\ c[0 + 1] = MTCP_LED_SET
          /\ c[0 + 2] = 0 /\ c[0 + 3] = 0
      BY <1>2, <1>10, <3>4, WholeEmpty
    <3>6. Dead(c)
      BY <3>4, <3>5 DEF Dead
    <3> QED
      BY <3>3, <3>6
  <2>2. CASE ~partial
    <3>1. n # 0
      BY <1>2, <2>2 DEF partial
    <3>2. n = 1
      <4> SUFFICES ASSUME n # 1
                   PROVE  FALSE
        OBVIOUS
      <4>1. 2 \in 1 .. n
        <5>1. n \in Nat
          BY <1>1
        <5> HIDE DEF n
        <5> QED
          BY <3>1, <5>1
      <4>2. g[2] = 0 /\ g # << >>
        BY <1>2, <1>10, <4>1
      <4>3. n < 2 + Bits(g[2])
        BY <4>2 DEF TypeInv, Gathering
      <4>4. n \in Nat /\ n < 2
        BY <1>1, <4>2, <4>3, NoBits
      <4> HIDE DEF n
      <4> QED
        BY <3>1, <4>4
    <3>3. device' = [lit EXCEPT !.got = << >>]
      BY <1>3, <1>6, <1>10, <2>2
    <3>4. device'.got = << >>
      BY <1>1, <3>3 DEF Device, lit
    <3>5. Sending' = After(2, c)
      BY <1>4, <1>5, <3>2, <3>4
    <3>6. 2 \in 0 .. Len(c) /\ 1 \in 1 .. Len(c) - 2 /\ 2 + 1 = 3
      BY <1>2, <1>10
    <3>7. /\ After(2, c) \in Seq(Byte) /\ Len(After(2, c)) >= 1 /\ After(2, c)[1] = 0
      <4>1. /\ After(2, c) \in Seq(Byte) /\ Len(After(2, c)) = Len(c) - 2
            /\ After(2, c)[1] = c[2 + 1]
        BY <1>2, <3>6, FirstBytes
      <4> QED
        BY <1>2, <1>10, <3>6, <4>1
    <3>8. Dead(After(2, c))
      BY <1>8, <3>7
    <3> QED
      BY <3>5, <3>8
  <2> QED
    BY <2>1, <2>2
<1> QED
  BY <1>7, <1>9, <1>10

\* The command the ioctl is sending, between the ring and the serial driver.
Rest == IF pc = "write" THEN chunk ELSE tx

\* Commands of TUX_INIT.
Setup == {<< MTCP_BIOC_ON >>, << MTCP_LED_USR >>}

\* TUX_INIT has still to tell the controller that the program drives its LEDs.
Asking == \E i \in 1 .. Len(todo) : todo[i] = << MTCP_LED_USR >>

\* An ioctl sends what TUX_INIT sends, or the buffer it has filled.
RestInv ==
    ~over =>
        /\ arg = << >> => Rest \in Setup \cup {<< >>}
        /\ arg = << >> => \A i \in 1 .. Len(todo) : todo[i] \in Setup
        /\ arg # << >> => (Rest = << >> \/ Rest = buffer) /\ ~Asking

\* The buffer is filled from its beginning.
BufferInv == buffer[2] = 0 => buffer[3] = 0

LEMMA RestInit == Init => RestInv /\ BufferInv
<1> SUFFICES ASSUME Init PROVE RestInv /\ BufferInv
  OBVIOUS
<1>1. pc = "idle" /\ tx = << >> /\ todo = << >> /\ arg = << >>
  BY DEF Init
<1>2. buffer = [i \in 1 .. LED_BUFF_SIZE |-> 0] /\ 3 \in 1 .. LED_BUFF_SIZE
  BY Constants DEF Init
<1>3. BufferInv
  BY <1>2 DEF BufferInv
<1> QED
  BY <1>1, <1>3 DEF RestInv, Rest

LEMMA BufferStep == TypeInv /\ BufferInv /\ [Next]_vars => BufferInv'
<1> SUFFICES ASSUME TypeInv, BufferInv, [Next]_vars
             PROVE  BufferInv'
  OBVIOUS
<1>1. CASE UNCHANGED buffer
  BY <1>1 DEF BufferInv
<1>2. CASE StoreByte
  <2> DEFINE n == stored + 1
  <2>1. /\ pc = "fill" /\ buffer' = [buffer EXCEPT ![n] = arg[n]]
    BY <1>2 DEF StoreByte
  <2>2. /\ buffer \in [1 .. LED_BUFF_SIZE -> Byte] /\ LED_BUFF_SIZE \in 3 .. 6
        /\ stored \in Nat /\ stored < LED_BUFF_SIZE
        /\ arg[2] = AllLeds /\ AllLeds # 0
        /\ \A j \in 1 .. stored : buffer[j] = arg[j]
    <3>1. arg # << >> /\ Command(arg) /\ Len(arg) = LED_BUFF_SIZE
      BY <2>1 DEF TypeInv, Calling
    <3>2. LED_BUFF_SIZE \in 3 .. 6 /\ AllLeds # 0
      BY Constants
    <3>3. arg[2] = AllLeds
      BY <3>1, LongCommand
    <3> QED
      BY <2>1, <3>1, <3>2, <3>3 DEF TypeInv, Calling, TypeOK, DriverOK, CallerOK
  <2>3. CASE n = 2
    <3>1. buffer'[2] = arg[2]
      BY <2>1, <2>2, <2>3
    <3> QED
      BY <2>2, <3>1 DEF BufferInv
  <2>4. CASE n > 2
    <3>1. 2 \in 1 .. stored /\ 2 # n
      BY <2>2, <2>4
    <3>2. buffer'[2] = arg[2]
      BY <2>1, <2>2, <3>1
    <3> QED
      BY <2>2, <3>2 DEF BufferInv
  <2>5. CASE n < 2
    <3>1. 2 # n /\ 3 # n
      BY <2>2, <2>5
    <3>2. buffer'[2] = buffer[2] /\ buffer'[3] = buffer[3]
      BY <2>1, <2>2, <3>1
    <3> QED
      BY <3>2 DEF BufferInv
  <2> QED
    BY <2>2, <2>3, <2>4, <2>5
<1> QED
  BY <1>1, <1>2 DEF Next, Others, Interrupt, CallerStep, Open, Close, TuxInit, TuxSetLed,
     Start, PutBytes, AskRoom, PopBytes, WriteBytes, SetFlag, WriteWakeup, Receive,
     DeviceByte, LoseByte, Reset, Press, HandlePacket, SkipByte, vars

\* An LED command is no command of TUX_INIT.
LEMMA LongBuffer ==
  ASSUME TypeInv
  PROVE  /\ buffer \notin Setup \cup {<< >>}
         /\ arg # << >> => /\ Command(arg) /\ arg[1] = MTCP_LED_SET /\ arg[2] = AllLeds
                           /\ Len(arg) = LED_BUFF_SIZE
<1>1. buffer \in Seq(Byte) /\ Len(buffer) = LED_BUFF_SIZE /\ LED_BUFF_SIZE \in 3 .. 6
  BY BufferIsSeq, Constants DEF TypeInv
<1>2. \A x \in Setup \cup {<< >>} : Len(x) =< 1
  <2>1. Len(<< MTCP_BIOC_ON >>) =< 1 /\ Len(<< MTCP_LED_USR >>) =< 1 /\ Len(<< >>) =< 1
    OBVIOUS
  <2> QED
    BY <2>1, Zenon DEF Setup
<1>3. arg # << >> => Command(arg) /\ Len(arg) = LED_BUFF_SIZE
  BY DEF TypeInv, Calling
<1>5. buffer \notin Setup \cup {<< >>}
  <2>1. ~(Len(buffer) =< 1)
    BY <1>1
  <2> QED
    BY <1>2, <2>1, Zenon
<1>6. arg # << >> => arg[1] = MTCP_LED_SET /\ arg[2] = AllLeds
  BY <1>3, LongCommand
<1> QED
  BY <1>3, <1>5, <1>6, Zenon

LEMMA LongBufferNext == TypeInv' => (buffer \notin Setup \cup {<< >>})'
  BY LongBuffer, PTL

LEMMA RestStep ==
  ASSUME TypeInv, TypeInv', SendInv, RestInv, [Next]_vars
  PROVE  RestInv'
<1> DEFINE Carried == /\ arg = << >> => Rest \in Setup \cup {<< >>}
                      /\ arg = << >> => \A i \in 1 .. Len(todo) : todo[i] \in Setup
                      /\ arg # << >> => (Rest = << >> \/ Rest = buffer) /\ ~Asking
<1> SUFFICES ASSUME ~over'
             PROVE  Carried'
  BY DEF RestInv, Setup, Asking, Rest
<1>1. ~over => Carried
  BY DEF RestInv
<1>2. /\ todo \in Seq(Seq(Byte)) /\ tx \in Seq(Byte) /\ chunk \in Seq(Byte) /\ Calling
      /\ Calling'
  BY DEF TypeInv, TypeOK, CallerOK, LineOK
<1>3. ~over /\ pc \in {"idle", "fill", "put", "write", "flag"} => tx = << >>
  BY DEF SendInv
\* Rest is kept or gone.
<1>5. ASSUME UNCHANGED << arg, todo, buffer >>, ~over, Rest' = Rest \/ Rest' = << >>
      PROVE  Carried'
  <2>1. Carried
    BY <1>1, <1>5
  <2> QED
    BY <1>5, <2>1 DEF Setup, Asking
<1>7. CASE HandlePacket \/ WriteWakeup
  <2>1. /\ UNCHANGED << pc, todo, chunk, arg >> /\ ~over /\ (tx' = << >> \/ tx' = tx)
    BY <1>7, InterruptsOut DEF Interrupted
  <2>2. UNCHANGED buffer
    BY <1>7 DEF HandlePacket, WriteWakeup
  <2>3. Rest' = Rest \/ Rest' = << >>
    BY <2>1 DEF Rest
  <2> QED
    BY <1>5, <2>1, <2>2, <2>3
<1>8. CASE \/ SkipByte \/ (\E k \in Chunks : Receive(k)) \/ LoseByte
           \/ (\E p \in Presses : Press(p)) \/ DeviceByte \/ Reset \/ UNCHANGED vars
  <2>1. UNCHANGED << tx, pc, todo, chunk, arg, buffer, over >>
    BY <1>8 DEF SkipByte, Receive, LoseByte, Press, DeviceByte, Reset, vars, caller, cables,
         seen, driver, rings
  <2>2. Rest' = Rest
    BY <2>1 DEF Rest
  <2> QED
    BY <1>5, <2>1, <2>2
<1>9. CASE Open \/ Close
  <2>1. /\ pc = "idle" /\ UNCHANGED << pc, todo, chunk, arg, buffer, over >>
        /\ (tx' = tx \/ tx' = << >>)
    BY <1>9 DEF Open, Close, caller, seen
  <2>2. Rest' = Rest \/ Rest' = << >>
    BY <2>1 DEF Rest
  <2> QED
    BY <1>5, <2>1, <2>2
<1>10. CASE TuxInit \/ (\E leds \in Shown : TuxSetLed(leds))
  <2>1. /\ pc = "idle" /\ pc' # "write" /\ UNCHANGED << tx, over >>
        /\ \/ todo' = << << MTCP_BIOC_ON >>, << MTCP_LED_USR >> >> /\ arg' = << >>
           \/ todo' = << >>
    BY <1>10 DEF TuxInit, TuxSetLed, Start, driver, rings
  <2>2. Rest' = << >>
    BY <1>3, <2>1 DEF Rest
  <2>3. CASE todo' = << << MTCP_BIOC_ON >>, << MTCP_LED_USR >> >> /\ arg' = << >>
    BY <2>2, <2>3 DEF Setup
  <2>4. CASE todo' = << >>
    BY <2>2, <2>4 DEF Setup, Asking
  <2> QED
    BY <2>1, <2>3, <2>4
<1>11. CASE StoreByte
  <2>1. /\ pc = "fill" /\ pc' # "write" /\ UNCHANGED << tx, arg, over >> /\ arg # << >>
        /\ todo' = todo \/ todo' = << buffer' >>
    BY <1>2, <1>11 DEF StoreByte, driver, rings, seen, Calling
  <2>2. Rest' = << >>
    BY <1>3, <2>1 DEF Rest
  <2>3. ~Asking'
    <3>1. CASE todo' = todo
      <4>1. ~Asking
        BY <1>1, <2>1
      <4> QED
        BY <3>1, <4>1 DEF Asking
    <3>2. CASE todo' = << buffer' >>
      <4>1. buffer' # << MTCP_LED_USR >>
        BY LongBufferNext DEF Setup
      <4> QED
        BY <3>2, <4>1 DEF Asking
    <3> QED
      BY <2>1, <3>1, <3>2
  <2> QED
    BY <2>1, <2>2, <2>3
<1>12. CASE PutBytes
  <2>1. /\ pc = "put" /\ pc' = "room" /\ tx' = Fill(tx, Head(todo)) /\ todo' = Tail(todo)
        /\ UNCHANGED << arg, buffer, over >>
    BY <1>12 DEF PutBytes, seen
  <2>2. tx = << >> /\ Carried
    BY <1>1, <1>3, <2>1
  <2>3. todo # << >> /\ Command(todo[1]) /\ Head(todo) = todo[1]
    BY <1>2, <2>1 DEF Calling
  <2>4. Rest' = todo[1]
    BY <2>1, <2>2, <2>3, FillEmpty DEF Rest
  <2>5. \A i \in 1 .. Len(todo') : todo'[i] = todo[i + 1] /\ i + 1 \in 1 .. Len(todo)
    BY <1>2, <2>1, <2>3
  <2>6. ~Asking => ~Asking'
    BY <2>5 DEF Asking
  <2>7. CASE arg = << >>
    <3>1. Rest' \in Setup
      BY <1>2, <2>2, <2>3, <2>4, <2>7
    <3>2. \A i \in 1 .. Len(todo') : todo'[i] \in Setup
      BY <2>2, <2>5, <2>7
    <3> QED
      BY <2>1, <2>7, <3>1, <3>2 DEF Setup
  <2>8. CASE arg # << >>
    <3>1. todo = << arg >> /\ buffer = arg
      BY <1>2, <2>1, <2>8 DEF Calling
    <3>2. Rest' = buffer'
      BY <2>1, <2>4, <3>1
    <3>3. ~Asking'
      BY <2>2, <2>6, <2>8
    <3> QED
      BY <2>1, <2>8, <3>2, <3>3
  <2> QED
    BY <2>7, <2>8
<1>13. CASE AskRoom
  <2>1. /\ pc = "room" /\ pc' = "pop" /\ UNCHANGED << tx, todo, arg, buffer, over >>
    BY <1>13 DEF AskRoom, driver, rings, seen
  <2>2. Rest' = Rest
    BY <2>1 DEF Rest
  <2> QED
    BY <1>5, <2>1, <2>2
<1>14. CASE PopBytes
  <2>1. /\ pc = "pop" /\ pc' = "write" /\ UNCHANGED << todo, arg, buffer >> /\ ~over
    BY <1>14 DEF PopBytes
  <2>2. Rest' = Rest
    BY <1>14, <2>1, PoppedAll DEF Rest
  <2> QED
    BY <1>5, <2>1, <2>2
<1>15. CASE WriteBytes
  <2>1. /\ pc = "write" /\ pc' # "write" /\ UNCHANGED << tx, todo, arg, buffer >>
        /\ over' = (over \/ Len(chunk) > WriteRoom(wire))
    BY <1>15 DEF WriteBytes, driver, rings
  <2>2. ~over
    BY <2>1, Zenon
  <2>3. Rest' = << >>
    BY <1>3, <2>1, <2>2 DEF Rest
  <2> QED
    BY <1>5, <2>1, <2>2, <2>3
<1>16. CASE SetFlag
  <2>1. pc = "flag" /\ pc' = "idle" /\ arg' = << >> /\ UNCHANGED << tx, todo, over >>
    BY <1>16 DEF SetFlag, rings, seen
  <2>2. arg # << >> /\ todo = << >>
    BY <1>2, <2>1 DEF Calling
  <2>3. Rest' = << >>
    BY <1>3, <2>1 DEF Rest
  <2> QED
    BY <2>1, <2>2, <2>3
<1> QED
  BY <1>7, <1>8, <1>9, <1>10, <1>11, <1>12, <1>13, <1>14, <1>15, <1>16
     DEF Next, Others, Interrupt, CallerStep

\* The ioctl in progress does not change the buffer, or not any more.
Active == pc # "fill" /\ (pc = "put" => arg = << >>)

\* What the controller has been sent leads it to show the buffer, and to know
\* that the program drives its LEDs.
Told ==
    /\ Active => Shows(Sending \o Rest, device.leds, buffer)
    /\ ready => device.user \/ UserIn(Sending \o Rest) \/ Asking

\* The controller is sent whole commands, until one that was never stored; and
\* unless it was reset and the driver does not know yet, they lead it to show
\* the buffer.
AgreeInv ==
    ~over /\ ~device.locked =>
        \/ Dead(Sending)
        \/ /\ Whole(Sending)
           /\ lost = 0 /\ MTCP_RESET \notin Range(Incoming) => Told

\* What a step has to show of it.
AgreedNext ==
    \/ Dead(Sending')
    \/ /\ Whole(Sending')
       /\ lost' = 0 /\ MTCP_RESET \notin Range(Incoming)' =>
            /\ Active' => Shows(Sending' \o Rest', device'.leds, buffer')
            /\ ready' => device'.user \/ UserIn(Sending' \o Rest') \/ Asking'

LEMMA AgreedIsInv == (~over' /\ ~device'.locked => AgreedNext) => AgreeInv'
BY DEF AgreedNext, AgreeInv, Told, Shows, UserIn, Dead, Whole, Cut, First, After, Least,
   Plain, AllLeds, LED_BUFF_SIZE, MTCP_BIOC_ON, MTCP_LED_USR, MTCP_LED_SET, MTCP_RESET

LEMMA AgreeInit == Init => AgreeInv
<1> SUFFICES ASSUME Init PROVE AgreeInv
  OBVIOUS
<1>1. /\ device.got = << >> /\ wire = << >> /\ tx = << >> /\ pc = "idle"
      /\ device.leds = [i \in 1 .. NLeds |-> 0] /\ ~ready
      /\ buffer = [i \in 1 .. LED_BUFF_SIZE |-> 0]
  BY DEF Init, NoLeds
<1>2. Sending = << >> /\ Rest = << >> /\ << >> \o << >> = << >>
  BY <1>1 DEF Sending, Rest
<1>3. LED_BUFF_SIZE = NLeds + 2 /\ NLeds \in 1 .. 4
  BY Constants
<1>4. buffer \in Seq(Byte) /\ Len(buffer) = LED_BUFF_SIZE
  BY <1>1, <1>3 DEF Byte
<1>5. After(2, buffer) = [i \in 1 .. NLeds |-> 0]
  <2> DEFINE e == After(2, buffer)
  <2>1. 2 \in 0 .. Len(buffer) /\ Len(buffer) - 2 = NLeds
    BY <1>3, <1>4
  <2>2. e \in Seq(Byte) /\ Len(e) = NLeds /\ \A i \in 1 .. NLeds : e[i] = buffer[2 + i]
    BY <1>4, <2>1, FirstBytes
  <2> HIDE DEF e
  <2>3. \A i \in 1 .. NLeds : e[i] = 0
    BY <1>1, <1>3, <2>2
  <2>4. e = [i \in 1 .. NLeds |-> e[i]]
    BY <2>2
  <2> QED
    BY <2>3, <2>4 DEF e
<1>6. \A i \in 1 .. Len(<< >>) : << >>[i] \in Plain
  OBVIOUS
<1>7. Shows(<< >>, device.leds, buffer)
  BY <1>1, <1>5, <1>6 DEF Shows
<1> QED
  BY <1>1, <1>2, <1>7, WholeEmpty DEF AgreeInv, Told

\* A step that leaves what is sent as it is.
LEMMA SameSent ==
  ASSUME AgreeInv, ~over, ~device.locked,
         lost' = 0 => lost = 0,
         lost' = 0 /\ MTCP_RESET \in Range(Incoming) => MTCP_RESET \in Range(Incoming)',
         device'.got = device.got, device'.leds = device.leds,
         device'.user = device.user, wire' = wire,
         Rest' = Rest, Active' => Active /\ buffer' = buffer,
         Asking => Asking', ready' => ready \/ Asking'
  PROVE  AgreedNext
<1>1. Sending' = Sending
  BY DEF Sending
<1>2. \/ Dead(Sending)
      \/ /\ Whole(Sending)
         /\ lost = 0 /\ MTCP_RESET \notin Range(Incoming) => Told
  BY DEF AgreeInv
<1>3. ASSUME Told
      PROVE  /\ Active' => Shows(Sending' \o Rest', device'.leds, buffer')
             /\ ready' => device'.user \/ UserIn(Sending' \o Rest') \/ Asking'
  BY <1>1, <1>3 DEF Told
<1> QED
  BY <1>1, <1>2, <1>3 DEF AgreedNext

\* A step that hands on what was to be sent.
LEMMA HandedOn ==
  ASSUME TypeInv, AgreeInv, ~over, ~device.locked, Loaded(Rest),
         UNCHANGED << device, lost, Incoming, buffer, todo, ready >>,
         wire' = wire \o Rest, Rest' = << >>, Active' => Active
  PROVE  AgreedNext
<1>1. /\ Sending \in Seq(Byte) /\ device.got \in Seq(Byte) /\ wire \in Seq(Byte)
      /\ Rest \in Seq(Byte) /\ Whole(Rest)
  BY SendingBytes, LoadedIsWhole
<1>2. Sending' = Sending \o Rest
  BY <1>1, Associative DEF Sending
<1>3. Sending' \o Rest' = Sending \o Rest
  <2>1. Sending \o Rest \in Seq(Byte)
    BY <1>1, Concatenated
  <2> QED
    BY <1>2, <2>1, ConcatEmptySeq
<1>4. \/ Dead(Sending)
      \/ /\ Whole(Sending)
         /\ lost = 0 /\ MTCP_RESET \notin Range(Incoming) => Told
  BY DEF AgreeInv
<1>5. CASE Dead(Sending)
  <2>1. Dead(Sending')
    BY <1>1, <1>2, <1>5, DeadGrows
  <2> QED
    BY <2>1 DEF AgreedNext
<1>6. CASE /\ Whole(Sending)
           /\ lost = 0 /\ MTCP_RESET \notin Range(Incoming) => Told
  <2>1. Whole(Sending')
    BY <1>1, <1>2, <1>6, WholeJoined
  <2>2. Asking => Asking'
    BY DEF Asking
  <2>3. ASSUME Told
        PROVE  /\ Active' => Shows(Sending' \o Rest', device'.leds, buffer')
               /\ ready' => device'.user \/ UserIn(Sending' \o Rest') \/ Asking'
    BY <1>3, <2>2, <2>3 DEF Told
  <2>4. Range(Incoming)' = Range(Incoming)
    BY DEF Range
  <2> QED
    BY <1>6, <2>1, <2>3, <2>4 DEF AgreedNext
<1> QED
  BY <1>4, <1>5, <1>6

\* What is left to be sent, and nothing more.
LEMMA NothingBehind ==
  ASSUME TypeInv
  PROVE  Sending \o << >> = Sending
  BY SendingBytes, ConcatEmptySeq

\* The ioctl puts its next command into the ring.
LEMMA PutAgrees ==
  ASSUME TypeInv, SendInv, RestInv, AgreeInv, ~over, ~device.locked, PutBytes
  PROVE  AgreedNext
<1>1. /\ pc = "put" /\ pc' = "room" /\ tx' = Fill(tx, Head(todo)) /\ todo' = Tail(todo)
      /\ UNCHANGED << arg, buffer, device, wire, packet, rx, line, lost, ready >>
  BY DEF PutBytes, seen, cables
<1>2. tx = << >> /\ Calling /\ todo \in Seq(Seq(Byte))
  BY <1>1 DEF SendInv, TypeInv, TypeOK, CallerOK
<1>3. /\ todo # << >> /\ Len(todo) \in Nat /\ Len(todo) >= 1 /\ Command(todo[1])
      /\ Head(todo) = todo[1] /\ todo[1] \in Seq(Byte)
  BY <1>1, <1>2 DEF Calling
<1>4. Rest = << >> /\ Rest' = todo[1]
  BY <1>1, <1>2, <1>3, FillEmpty DEF Rest
<1>5. \A i \in 1 .. Len(todo) : i # 1 => i - 1 \in 1 .. Len(todo') /\ todo'[i - 1] = todo[i]
  BY <1>1, <1>2, <1>3
<1>6. Sending \in Seq(Byte) /\ Sending \o << >> = Sending
  BY SendingBytes, NothingBehind
<1>7. Sending' = Sending
  BY <1>1 DEF Sending
<1>8. Range(Incoming)' = Range(Incoming)
  BY <1>1 DEF Incoming, Range
<1>9. CASE Dead(Sending)
  BY <1>7, <1>9 DEF AgreedNext
<1>10. CASE /\ Whole(Sending)
            /\ lost = 0 /\ MTCP_RESET \notin Range(Incoming) => Told
  <2>1. ASSUME Told
        PROVE  /\ Shows(Sending \o todo[1], device.leds, buffer)
               /\ ready => device.user \/ UserIn(Sending \o todo[1]) \/ Asking'
    <3>1. ready => device.user \/ UserIn(Sending) \/ Asking
      BY <1>4, <1>6, <2>1 DEF Told
    <3>2. UserIn(Sending) => UserIn(Sending \o todo[1])
      BY <1>3, <1>6, UserGrows
    <3>3. CASE arg = << >>
      <4>1. Shows(Sending, device.leds, buffer)
        BY <1>1, <1>4, <1>6, <2>1, <3>3 DEF Told, Active
      <4>2. todo[1] \in Setup
        BY <1>2, <1>3, <3>3 DEF RestInv
      <4>3. \A i \in 1 .. Len(todo[1]) : todo[1][i] \in Plain
        BY <4>2 DEF Setup, Plain
      <4>4. Shows(Sending \o todo[1], device.leds, buffer)
        BY <1>3, <1>6, <4>1, <4>3, ShowsGrows
      <4>5. ASSUME Asking, ~Asking'
            PROVE  UserIn(Sending \o todo[1])
        <5>1. PICK i \in 1 .. Len(todo) : todo[i] = << MTCP_LED_USR >>
          BY <4>5 DEF Asking
        <5>2. i = 1
          BY <1>5, <4>5, <5>1 DEF Asking
        <5>3. todo[1] # << >> /\ todo[1][1] = MTCP_LED_USR
          BY <5>1, <5>2
        <5> QED
          BY <1>3, <1>6, <1>10, <5>3, UserGrows
      <4> QED
        BY <3>1, <3>2, <4>4, <4>5
    <3>4. CASE arg # << >>
      <4>1. todo = << arg >> /\ buffer = arg
        BY <1>1, <1>2, <3>4 DEF Calling
      <4>2. todo[1] = buffer
        BY <4>1
      <4>3. /\ buffer \in Seq(Byte) /\ Len(buffer) = LED_BUFF_SIZE
            /\ buffer[1] = MTCP_LED_SET /\ buffer[2] = AllLeds
        BY <3>4, <4>1, LongBuffer, BufferIsSeq DEF TypeInv
      <4>4. Shows(Sending \o buffer, device.leds, buffer)
        BY <1>6, <1>10, <4>3, ShowsLast
      <4>5. ~Asking
        BY <1>2, <3>4 DEF RestInv
      <4> QED
        BY <3>1, <3>2, <4>2, <4>4, <4>5
    <3> QED
      BY <3>3, <3>4
  <2> QED
    BY <1>1, <1>4, <1>7, <1>8, <1>10, <2>1 DEF AgreedNext
<1> QED
  BY <1>9, <1>10 DEF AgreeInv

\* What is sent after a reset comes behind what is being sent.
LEMMA RestoredBehind ==
  ASSUME TypeInv, UNCHANGED device,
         wire' = ((wire \o (tx \o << MTCP_BIOC_ON >>)) \o << MTCP_LED_USR >>) \o buffer
  PROVE  Sending' = ((Sending \o (tx \o << MTCP_BIOC_ON >>)) \o << MTCP_LED_USR >>) \o buffer
<1> DEFINE J(s, t) == s \o t
           g == device.got
           x == tx \o << MTCP_BIOC_ON >>
           y == << MTCP_LED_USR >>
           z == buffer
<1>1. \A s, t \in Seq(Byte) : J(s, t) \in Seq(Byte)
  BY Concatenated
<1>2. \A s, t, u \in Seq(Byte) : J(J(s, t), u) = J(s, J(t, u))
  BY Associative
<1>3. /\ g \in Seq(Byte) /\ wire \in Seq(Byte) /\ x \in Seq(Byte)
      /\ y \in Seq(Byte) /\ z \in Seq(Byte)
  <2>1. tx \in Seq(Byte) /\ << MTCP_BIOC_ON >> \in Seq(Byte) /\ y \in Seq(Byte)
    BY DEF MTCP_BIOC_ON, MTCP_LED_USR, Byte, TypeInv, TypeOK, LineOK
  <2> QED
    BY <2>1, SendingBytes, BufferIsSeq, Concatenated DEF TypeInv
<1>4. Sending' = J(g, J(J(J(wire, x), y), z))
  BY DEF Sending
<1> HIDE DEF J, g, x, y, z
<1>5. J(wire, x) \in Seq(Byte) /\ J(J(wire, x), y) \in Seq(Byte)
  BY <1>1, <1>3
<1>6. J(J(g, wire), x) = J(g, J(wire, x))
  BY <1>2, <1>3
<1>7. J(J(g, J(wire, x)), y) = J(g, J(J(wire, x), y))
  BY <1>2, <1>3, <1>5
<1>8. J(J(g, J(J(wire, x), y)), z) = J(g, J(J(J(wire, x), y), z))
  BY <1>2, <1>3, <1>5
<1>9. J(g, J(J(J(wire, x), y), z)) = J(J(J(J(g, wire), x), y), z)
  BY <1>6, <1>7, <1>8
<1> QED
  BY <1>4, <1>9, Zenon DEF J, g, x, y, z, Sending

\* A controller that was reset is set up again, and shown the buffer.
LEMMA RestoredAgrees ==
  ASSUME TypeInv, SendInv, RestInv, BufferInv, AgreeInv, ~over', ~device.locked,
         HandlePacket, packet[1] = MTCP_RESET
  PROVE  AgreedNext
<1> DEFINE on == << MTCP_BIOC_ON >>
           usr == << MTCP_LED_USR >>
           u == Sending \o (tx \o on)
           v == u \o usr
<1>1. ~over /\ UNCHANGED << pc, chunk, arg >>
  BY InterruptsOut DEF Interrupted
<1>2. /\ tx' = Restored(Port).tx /\ wire' = Restored(Port).wire
      /\ ~Restored(Port).over /\ UNCHANGED << device, buffer >>
  BY DEF HandlePacket
<1>3. /\ device.got \in Seq(Byte) /\ wire \in Seq(Byte) /\ tx \in Seq(Byte)
      /\ Sending \in Seq(Byte) /\ chunk \in Seq(Byte)
      /\ buffer \in Seq(Byte) /\ Len(buffer) = LED_BUFF_SIZE
  BY SendingBytes, BufferIsSeq DEF TypeInv, TypeOK, LineOK, CallerOK
<1>4. on \in Seq(Byte) /\ usr \in Seq(Byte) /\ Whole(on) /\ Whole(usr)
  <2>1. on \in Seq(Byte) /\ usr \in Seq(Byte)
    BY DEF MTCP_BIOC_ON, MTCP_LED_USR, Byte
  <2>2. Command(on) /\ Command(usr)
    BY <2>1 DEF Command
  <2> QED
    BY <2>1, <2>2, CommandIsWhole
<1>5. usr # << >> /\ usr[1] = MTCP_LED_USR
  OBVIOUS
<1>11. Loaded(tx) /\ Len(tx) =< LED_BUFF_SIZE /\ (pc = "write" => tx = << >> /\ Loaded(chunk))
  <2>1. pc \in {"idle", "fill", "put", "room", "pop", "write", "flag"}
    BY DEF TypeInv, TypeOK, CallerOK
  <2> QED
    BY <1>1, <2>1 DEF SendInv, Loaded
<1>12. /\ wire' = ((wire \o (tx \o on)) \o usr) \o buffer
      /\ tx' = << >>
  <2>1. Port \in Ports /\ Port.tx = tx /\ Port.wire = wire /\ TypeOK
    BY PortIsPort DEF Port, TypeInv
  <2> QED
    BY <1>2, <1>11, <2>1, RestoredSends
<1>13. /\ tx \o on \in Seq(Byte) /\ u \in Seq(Byte) /\ v \in Seq(Byte)
      /\ v \o buffer \in Seq(Byte) /\ wire \o (tx \o on) \in Seq(Byte)
      /\ (wire \o (tx \o on)) \o usr \in Seq(Byte)
  <2> HIDE DEF on, usr
  <2>1. tx \o on \in Seq(Byte)
    BY <1>3, <1>4, Concatenated
  <2>2. u \in Seq(Byte) /\ wire \o (tx \o on) \in Seq(Byte)
    BY <1>3, <2>1, Concatenated
  <2>3. v \in Seq(Byte) /\ (wire \o (tx \o on)) \o usr \in Seq(Byte)
    BY <1>4, <2>2, Concatenated
  <2>4. v \o buffer \in Seq(Byte)
    BY <1>3, <2>3, Concatenated
  <2> QED
    BY <2>1, <2>2, <2>3, <2>4
<1> HIDE DEF on, usr
<1>14. Sending' = v \o buffer
  BY <1>2, <1>12, RestoredBehind DEF on, usr
<1> HIDE DEF u
<1>15. Dead(Sending) => Dead(v \o buffer)
  <2>1. Dead(Sending) => Dead(u)
    BY <1>3, <1>13, DeadGrows DEF u
  <2>2. Dead(u) => Dead(v)
    BY <1>4, <1>13, DeadGrows
  <2> HIDE DEF v
  <2>3. Dead(v) => Dead(v \o buffer)
    BY <1>3, <1>13, DeadGrows
  <2> QED
    BY <2>1, <2>2, <2>3
<1>16. Whole(Sending) => Whole(u) /\ Whole(v)
  <2>1. Whole(tx \o on)
    <3>1. Whole(tx)
      BY <1>11, LoadedIsWhole
    <3> QED
      BY <1>3, <1>4, <3>1, WholeJoined
  <2>2. Whole(Sending) => Whole(u)
    BY <1>3, <1>13, <2>1, WholeJoined DEF u
  <2>3. Whole(u) => Whole(v)
    BY <1>4, <1>13, WholeJoined
  <2> QED
    BY <2>2, <2>3
<1>17. Whole(u) => UserIn(v)
  BY <1>4, <1>5, <1>13, UserGrows DEF usr
<1> HIDE DEF v
<1>18. CASE Dead(Sending)
  BY <1>14, <1>15, <1>18 DEF AgreedNext
<1>19. CASE Whole(Sending) /\ (buffer[1] = 0 \/ buffer[2] = 0)
  <2>1. buffer[1] = 0 \/ (buffer[1] = MTCP_LED_SET /\ buffer[2] = 0 /\ buffer[3] = 0)
    BY <1>19 DEF BufferInv, TypeInv, Calling
  <2>2. Dead(v \o buffer)
    BY <1>3, <1>13, <1>16, <1>19, <2>1, DeadLast
  <2> QED
    BY <1>14, <2>2 DEF AgreedNext
<1>20. CASE Whole(Sending) /\ buffer[1] # 0 /\ buffer[2] # 0
  <2> DEFINE s == v \o buffer
  <2>1. buffer[1] = MTCP_LED_SET /\ buffer[2] = AllLeds
    BY <1>20 DEF TypeInv, Calling
  <2>2. Whole(s) /\ Shows(s, device.leds, buffer) /\ UserIn(s)
    <3>1. Command(buffer)
      BY <1>3, <2>1 DEF Command
    <3>2. Whole(buffer)
      BY <3>1, CommandIsWhole
    <3>3. Whole(s)
      BY <1>3, <1>13, <1>16, <1>20, <3>2, WholeJoined
    <3>4. Shows(s, device.leds, buffer)
      BY <1>3, <1>13, <1>16, <1>20, <2>1, ShowsLast
    <3>5. UserIn(s)
      BY <1>3, <1>13, <1>16, <1>17, <1>20, UserGrows
    <3> QED
      BY <3>3, <3>4, <3>5
  <2>3. s \in Seq(Byte) /\ s \o << >> = s
    BY <1>13, ConcatEmptySeq
  <2> HIDE DEF s
  <2>4. Rest' \in Setup \cup {<< >>} \/ Rest' = buffer
    <3>1. Rest' = << >> \/ (Rest' = chunk /\ pc = "write")
      BY <1>1, <1>12 DEF Rest
    <3>2. pc = "write" => chunk \in Setup \cup {<< >>} \/ chunk = buffer
      BY <1>1 DEF RestInv, Rest
    <3> QED
      BY <3>1, <3>2
  <2>5. Shows(s \o Rest', device.leds, buffer) /\ UserIn(s \o Rest')
    <3>1. CASE Rest' = << >>
      BY <2>2, <2>3, <3>1
    <3>2. CASE Rest' \in Setup
      <4>1. \A x \in Setup : /\ x \in Seq(Byte)
                            /\ \A i \in 1 .. Len(x) : x[i] \in Plain
        <5>1. \A x \in Setup : x = on \/ x = usr
          BY DEF Setup, on, usr
        <5>2. \A x \in Setup : \A i \in 1 .. Len(x) : x[i] \in Plain
          BY DEF Setup, Plain
        <5> QED
          BY <1>4, <5>1, <5>2
      <4>2. Shows(s \o Rest', device.leds, buffer)
        BY <2>2, <2>3, <3>2, <4>1, ShowsGrows
      <4>3. UserIn(s \o Rest')
        BY <2>2, <2>3, <3>2, <4>1, UserGrows
      <4> QED
        BY <4>2, <4>3
    <3>3. CASE Rest' = buffer
      <4>1. Shows(s \o buffer, device.leds, buffer)
        BY <1>3, <2>1, <2>2, <2>3, ShowsLast
      <4>2. UserIn(s \o buffer)
        BY <1>3, <2>2, <2>3, UserGrows
      <4> QED
        BY <3>3, <4>1, <4>2
    <3> QED
      BY <2>4, <3>1, <3>2, <3>3
  <2>6. Sending' = s
    BY <1>14 DEF s
  <2> QED
    BY <1>2, <2>2, <2>5, <2>6 DEF AgreedNext
<1>21. Dead(Sending) \/ Whole(Sending)
  BY <1>1 DEF AgreeInv
<1> QED
  BY <1>18, <1>19, <1>20, <1>21

\* The controller takes a byte: of a command, or of the first that is none.
LEMMA DeviceAgrees ==
  ASSUME TypeInv, SendInv, AgreeInv, ~over, ~device'.locked, DeviceByte
  PROVE  AgreedNext
<1> DEFINE S == Sending \o Rest
<1>1. /\ wire # << >>
      /\ UNCHANGED << tx, pc, chunk, arg, buffer, todo, packet, rx, lost, ready >>
  BY DEF DeviceByte, caller, driver, rings, seen
<1>2. line' = line \/ line' = line \o Ack
  BY Zenon DEF DeviceByte
<1>3. ~device.locked
  <2>1. device.locked => UNCHANGED device
    BY DEF DeviceByte
  <2> QED
    BY <2>1
<1>4. Rest' = Rest /\ (Active' <=> Active) /\ (Asking' <=> Asking)
  BY <1>1 DEF Rest, Active, Asking
<1>5. /\ Sending \in Seq(Byte) /\ Sending # << >>
      /\ Len(Sending) \in Nat /\ Len(Sending) # 0 /\ LED_BUFF_SIZE \in 3 .. 6
  <2>1. /\ Sending \in Seq(Byte) /\ wire \in Seq(Byte) /\ Len(device.got) \in Nat
        /\ Len(Sending) = Len(device.got) + Len(wire)
    BY SendingBytes
  <2>2. Len(wire) \in Nat /\ Len(wire) # 0
    BY <1>1, <2>1, EmptySeq
  <2>3. Len(Sending) # 0
    BY <2>1, <2>2
  <2> QED
    BY <2>1, <2>3, Constants
<1>6. MTCP_RESET \in Range(Incoming) => MTCP_RESET \in Range(Incoming)'
  <2>1. CASE line' = line
    BY <1>1, <2>1 DEF Incoming, Range
  <2>2. CASE line' = line \o Ack
    <3>1. Ack \in Seq(Byte) /\ TypeOK
      BY AnswerBytes DEF Ack, TypeInv
    <3> QED
      BY <1>1, <2>2, <3>1, LineGrows
  <2> QED
    BY <1>2, <2>1, <2>2
<1>7. MTCP_LED_SET \notin Plain
  BY DEF Plain, MTCP_BIOC_ON, MTCP_LED_USR, MTCP_LED_SET
<1>8. CASE Dead(Sending)
  <2>1. CASE Sending[1] \in Plain /\ Dead(After(1, Sending))
    <3>1. Dead(Sending')
      BY <1>3, <1>7, <1>8, <2>1, CommandTaken
    <3> QED
      BY <3>1 DEF AgreedNext
  <2>2. CASE /\ Sending[1] = MTCP_LED_SET /\ Sending[2] = AllLeds
             /\ LED_BUFF_SIZE =< Len(Sending) /\ Dead(After(LED_BUFF_SIZE, Sending))
    <3>1. Dead(Sending')
      BY <1>3, <1>7, <1>8, <2>2, CommandTaken
    <3> QED
      BY <3>1 DEF AgreedNext
  <2>3. CASE \/ Sending[1] = 0
             \/ /\ Sending[1] = MTCP_LED_SET /\ Sending[2] = 0 /\ Sending[3] = 0
                /\ Len(Sending) >= 3
    <3>1. Dead(Sending')
      BY <1>3, <2>3, NoCommandTaken
    <3> QED
      BY <3>1 DEF AgreedNext
  <2> QED
    BY <1>5, <1>8, <2>1, <2>2, <2>3, DeadTaken
<1>9. CASE /\ Whole(Sending)
           /\ lost = 0 /\ MTCP_RESET \notin Range(Incoming) => Told
  <2>1. \/ Sending[1] \in Plain /\ Whole(After(1, Sending))
        \/ /\ Sending[1] = MTCP_LED_SET /\ Sending[2] = AllLeds
           /\ LED_BUFF_SIZE =< Len(Sending) /\ Whole(After(LED_BUFF_SIZE, Sending))
    BY <1>5, <1>9, FirstCommand
  <2>2. Whole(Sending')
    BY <1>3, <1>7, <1>9, <2>1, CommandTaken
  <2>3. Rest \in Seq(Byte)
    BY DEF Rest, TypeInv, TypeOK, LineOK, CallerOK
  <2>4. /\ S \in Seq(Byte) /\ Len(S) \in Nat /\ Len(S) = Len(Sending) + Len(Rest)
        /\ Len(Rest) \in Nat /\ \A i \in 1 .. Len(Sending) : S[i] = Sending[i]
    BY <1>5, <2>3, Concatenated
  <2>5. S # << >> /\ S[1] = Sending[1]
    <3>1. Len(S) # 0 /\ 1 \in 1 .. Len(Sending)
      BY <1>5, <2>4
    <3> HIDE DEF S
    <3> QED
      BY <2>4, <3>1, EmptySeq
  <2>6. ASSUME NEW n \in 1 .. 6, n =< Len(Sending)
        PROVE  After(n, Sending) \o Rest = After(n, S)
    <3>1. n \in Nat
      OBVIOUS
    <3> QED
      BY <1>5, <2>3, <2>6, <3>1, FrontGone
  <2> HIDE DEF S
  <2>7. ASSUME Told, Active'
        PROVE  Shows(Sending' \o Rest', device'.leds, buffer)
    <3>1. Shows(S, device.leds, buffer)
      BY <1>4, <2>7 DEF Told, S
    <3>2. CASE Sending' = Sending /\ device'.leds = device.leds
      BY <1>4, <3>1, <3>2 DEF S
    <3>3. CASE /\ Sending[1] \in Plain /\ Sending' = After(1, Sending)
               /\ device'.leds = device.leds
      <4>1. Shows(After(1, S), device.leds, buffer)
        BY <2>4, <2>5, <3>1, <3>3, PlainTaken
      <4>2. 1 \in 1 .. 6 /\ 1 =< Len(Sending)
        BY <1>5
      <4> QED
        BY <1>4, <2>6, <3>3, <4>1, <4>2
    <3>4. CASE /\ Sending[1] = MTCP_LED_SET /\ Sending' = After(LED_BUFF_SIZE, Sending)
               /\ device'.leds = [i \in 1 .. NLeds |-> Sending[i + 2]]
      <4>1. Sending[2] = AllLeds /\ LED_BUFF_SIZE =< Len(Sending)
        BY <1>7, <2>1, <3>4
      <4>2. buffer \in Seq(Byte) /\ Len(buffer) = LED_BUFF_SIZE
        BY BufferIsSeq DEF TypeInv
      <4>3. LED_BUFF_SIZE \in 1 .. 6 /\ LED_BUFF_SIZE = NLeds + 2 /\ NLeds \in 1 .. 4
        BY Constants
      <4>4. \A i \in 1 .. LED_BUFF_SIZE : S[i] = Sending[i]
        BY <1>5, <2>4, <4>1, <4>3
      <4>5. /\ S[1] = MTCP_LED_SET /\ S[2] = AllLeds /\ LED_BUFF_SIZE =< Len(S)
            /\ \A i \in 1 .. NLeds : Sending[i + 2] = S[i + 2]
        BY <1>5, <2>4, <2>5, <3>4, <4>1, <4>3, <4>4
      <4>6. device'.leds = [i \in 1 .. NLeds |-> S[i + 2]]
        BY <3>4, <4>5
      <4>7. Shows(After(LED_BUFF_SIZE, S), device'.leds, buffer)
        BY <2>4, <3>1, <4>2, <4>5, <4>6, LedsTaken
      <4> QED
        BY <1>4, <2>6, <3>4, <4>1, <4>3, <4>7
    <3> QED
      BY <1>3, <2>1, <3>2, <3>3, <3>4, CommandTaken
  <2>8. ASSUME Told, ready'
        PROVE  device'.user \/ UserIn(Sending' \o Rest') \/ Asking'
    <3>1. device.user \/ UserIn(S) \/ Asking
      BY <1>1, <2>8 DEF Told, S
    <3>2. CASE Sending' = Sending /\ device'.user = device.user
      BY <1>4, <3>1, <3>2 DEF S
    <3>3. CASE /\ Sending[1] \in Plain /\ Sending' = After(1, Sending)
               /\ device'.user = (device.user \/ Sending[1] = MTCP_LED_USR)
      <4>1. UserIn(S) => S[1] = MTCP_LED_USR \/ UserIn(After(1, S))
        BY <2>4, <2>5, <3>3, PlainTaken
      <4>2. 1 \in 1 .. 6 /\ 1 =< Len(Sending)
        BY <1>5
      <4>3. Sending' \o Rest' = After(1, S)
        BY <1>4, <2>6, <3>3, <4>2
      <4> QED
        BY <1>4, <2>5, <3>1, <3>3, <4>1, <4>3
    <3>4. CASE /\ Sending[1] = MTCP_LED_SET /\ Sending' = After(LED_BUFF_SIZE, Sending)
               /\ device'.user = device.user
      <4>1. Sending[2] = AllLeds /\ LED_BUFF_SIZE =< Len(Sending)
        BY <1>7, <2>1, <3>4
      <4>2. buffer \in Seq(Byte) /\ Len(buffer) = LED_BUFF_SIZE
        BY BufferIsSeq DEF TypeInv
      <4>3. LED_BUFF_SIZE \in 3 .. 6 /\ LED_BUFF_SIZE \in 1 .. 6
        BY Constants
      <4>4. S[1] = MTCP_LED_SET /\ S[2] = AllLeds /\ LED_BUFF_SIZE =< Len(S)
        <5>1. 2 \in 1 .. Len(Sending)
          BY <1>5, <4>1, <4>3
        <5> QED
          BY <1>5, <2>4, <2>5, <3>4, <4>1, <4>3, <5>1
      <4>5. UserIn(S) => UserIn(After(LED_BUFF_SIZE, S))
        BY <2>4, <4>2, <4>4, LedsTaken
      <4>6. Sending' \o Rest' = After(LED_BUFF_SIZE, S)
        BY <1>4, <2>6, <3>4, <4>1, <4>3
      <4> QED
        BY <1>4, <3>1, <3>4, <4>5, <4>6
    <3> QED
      BY <1>3, <2>1, <3>2, <3>3, <3>4, CommandTaken
  <2> QED
    BY <1>1, <1>6, <1>9, <2>2, <2>7, <2>8 DEF AgreedNext
<1> QED
  BY <1>3, <1>8, <1>9 DEF AgreeInv

\* A controller that was reset has been sent nothing, and says so.
LEMMA ResetAgrees ==
  ASSUME TypeInv, Reset
  PROVE  AgreedNext
<1>1. /\ device'.got = << >> /\ wire' = << >> /\ UNCHANGED << packet, rx >>
      /\ line' = line \o Packet(MTCP_RESET, 0, 0)
  BY DEF Reset, driver, rings
<1>2. Whole(Sending')
  <2>1. Sending' = << >> \o << >> /\ << >> \o << >> = << >>
    BY <1>1 DEF Sending
  <2> QED
    BY <2>1, WholeEmpty
<1>3. MTCP_RESET \in Range(Incoming)'
  <2> DEFINE q == Packet(MTCP_RESET, 0, 0)
  <2>1. q \in Seq(Byte) /\ q[1] = MTCP_RESET /\ Len(q) = 3 /\ TypeOK
    BY AnswerBytes DEF TypeInv
  <2>2. line' = line \o q
    BY <1>1
  <2> HIDE DEF q
  <2>3. q # << >>
    <3>1. Len(<< >>) = 0 /\ 0 # 3
      OBVIOUS
    <3> QED
      BY <2>1, <3>1, Zenon
  <2>4. MTCP_RESET \in Range(q)
    BY <2>1, <2>3, ByteRange
  <2> QED
    BY <1>1, <2>1, <2>2, <2>4, LineGrows
<1> QED
  BY <1>2, <1>3 DEF AgreedNext

\* Another interrupt leaves what is sent as it is, or hands it on.
LEMMA InterruptAgrees ==
  ASSUME TypeInv, SendInv, AgreeInv, ~over', ~device.locked,
         \/ HandlePacket /\ packet[1] # MTCP_RESET
         \/ WriteWakeup
  PROVE  AgreedNext
<1>1. ~over /\ UNCHANGED << pc, todo, chunk, arg >>
  BY InterruptsOut DEF Interrupted
<1>2. UNCHANGED << device, buffer, lost, ready >>
  BY DEF HandlePacket, WriteWakeup
<1>3. (Active' <=> Active) /\ (Asking' <=> Asking)
  BY <1>1 DEF Active, Asking
<1>4. CASE HandlePacket /\ packet[1] # MTCP_RESET
  <2>1. tx' = tx /\ wire' = wire
    BY <1>4 DEF HandlePacket, Port
  <2>2. Rest' = Rest
    BY <1>1, <2>1 DEF Rest
  <2>3. MTCP_RESET \in Range(Incoming) => MTCP_RESET \in Range(Incoming)'
    <3>1. MTCP_RESET \in Answers
      BY DEF Answers
    <3> QED
      BY <1>4, <3>1, HandleKeepsAnswers
  <2> QED
    BY <1>1, <1>2, <1>3, <2>1, <2>2, <2>3, SameSent
<1>6. CASE WriteWakeup
  <2>1. UNCHANGED << packet, rx, line >> /\ tx # << >>
    BY <1>6 DEF WriteWakeup
  <2>2. UNCHANGED Incoming
    BY <2>1 DEF Incoming
  <2>3. pc \in {"room", "pop"} /\ Loaded(tx)
    <3>1. pc \in {"idle", "fill", "put", "room", "pop", "write", "flag"}
      BY DEF TypeInv, TypeOK, CallerOK
    <3> QED
      BY <1>1, <1>6, <2>1, <3>1 DEF SendInv
  <2>4. tx' = << >> /\ wire' = wire \o tx
    <3>1. Port \in Ports /\ Port.tx = tx /\ Port.wire = wire
      BY PortIsPort DEF Port, TypeInv
    <3>2. /\ wire' = Woken(Port).wire /\ tx' = Woken(Port).tx
          /\ over' = Woken(Port).over
      BY <1>6 DEF WriteWakeup
    <3>3. ~Woken(Port).over
      BY <3>2
    <3> QED
      BY <3>1, <3>2, <3>3, WokenSends
  <2>5. Rest = tx /\ Rest' = << >>
    BY <1>1, <2>3, <2>4 DEF Rest
  <2> QED
    BY <1>1, <1>2, <1>3, <1>6, <2>2, <2>3, <2>4, <2>5, HandedOn
<1> QED
  BY <1>4, <1>6

\* The ioctl hands on what it was sending.
LEMMA WriteAgrees ==
  ASSUME TypeInv, SendInv, AgreeInv, ~over', ~device.locked, WriteBytes
  PROVE  AgreedNext
<1>1. /\ pc = "write" /\ wire' = Sent(wire, chunk)
      /\ UNCHANGED << device, lost, packet, rx, line, buffer, todo, ready, tx, arg >>
      /\ over' = (over \/ Len(chunk) > WriteRoom(wire))
      /\ pc' = IF todo # << >> THEN "put" ELSE IF arg # << >> THEN "flag" ELSE "idle"
  BY DEF WriteBytes, driver, rings
<1>2. ~over /\ ~(Len(chunk) > WriteRoom(wire))
  BY <1>1, Zenon
<1>4. Loaded(chunk) /\ tx = << >>
  BY <1>1, <1>2 DEF SendInv
<1>5. wire' = wire \o chunk
  <2>1. WriteRoom(wire) \in Nat /\ WriteRoom(wire) = Xmit - Len(wire)
    BY SentFits DEF TypeInv, TypeOK, LineOK, WriteRoom
  <2>2. Len(chunk) =< WriteRoom(wire) /\ chunk \in Seq(Byte)
    <3>1. Len(chunk) \in Nat /\ chunk \in Seq(Byte)
      BY DEF TypeInv, TypeOK, CallerOK
    <3> QED
      BY <1>2, <2>1, <3>1
  <2>3. First(WriteRoom(wire), chunk) = chunk
    BY <2>1, <2>2, AllOf
  <2> QED
    BY <1>1, <2>1, <2>3 DEF Sent
<1>6. pc' \in {"put", "flag", "idle"}
  BY <1>1
<1>7. Rest = chunk /\ Rest' = << >>
  BY <1>1, <1>4, <1>6 DEF Rest
<1>8. Active
  BY <1>1 DEF Active
<1>9. UNCHANGED Incoming
  BY <1>1 DEF Incoming
<1> QED
  BY <1>1, <1>2, <1>4, <1>5, <1>7, <1>8, <1>9, HandedOn

LEMMA AgreeStep ==
  ASSUME TypeInv, SendInv, InInv, RestInv, BufferInv, AgreeInv, [Next]_vars
  PROVE  AgreeInv'
<1> SUFFICES ASSUME ~over', ~device'.locked
             PROVE  AgreedNext
  BY AgreedIsInv
<1>1. /\ device \in Device /\ lost \in 0 .. 2 /\ TypeOK
      /\ pc \in {"idle", "fill", "put", "room", "pop", "write", "flag"}
  BY DeviceFields DEF TypeInv, TypeOK, SeenOK, CallerOK
<1>2. ASSUME UNCHANGED << packet, rx, line >>
      PROVE  Range(Incoming)' = Range(Incoming)
  BY <1>2 DEF Incoming, Range
\* Steps before or after the bytes are sent, and of the input.
<1>3. ASSUME UNCHANGED << device, wire >>, over => over', lost' = 0 => lost = 0,
             lost' = 0 /\ MTCP_RESET \in Range(Incoming) => MTCP_RESET \in Range(Incoming)',
             Rest' = Rest,
             Active' => Active /\ buffer' = buffer, Asking => Asking',
             ready' => ready \/ Asking'
      PROVE  AgreedNext
  BY <1>3, SameSent
<1>4. CASE HandlePacket
  <2>1. ~device.locked
    BY <1>4 DEF HandlePacket
  <2> QED
    BY <1>4, <2>1, RestoredAgrees, InterruptAgrees
<1>5. CASE WriteWakeup
  <2>1. ~device.locked
    BY <1>5 DEF WriteWakeup
  <2> QED
    BY <1>5, <2>1, InterruptAgrees
<1>6. CASE WriteBytes
  <2>1. ~device.locked
    BY <1>6 DEF WriteBytes
  <2> QED
    BY <1>6, <2>1, WriteAgrees
<1>7. CASE PutBytes
  <2>1. UNCHANGED << device, over >>
    BY <1>7 DEF PutBytes, seen
  <2> QED
    BY <1>7, <2>1, PutAgrees
<1>8. CASE DeviceByte
  <2>1. UNCHANGED over
    BY <1>8 DEF DeviceByte, seen
  <2> QED
    BY <1>8, <2>1, DeviceAgrees
<1>9. CASE Reset
  BY <1>9, ResetAgrees
<1>10. CASE SkipByte
  <2>1. lost # 0 /\ lost' = lost
    BY <1>10, SkipSound DEF SkipByte, seen
  <2>2. UNCHANGED << device, wire, over, buffer, ready, pc, tx, chunk, todo, arg >>
    BY <1>10 DEF SkipByte, seen, cables, caller
  <2>3. /\ Rest' = Rest /\ (Active' => Active) /\ (Asking => Asking')
    BY <2>2 DEF Rest, Active, Asking
  <2> QED
    BY <1>3, <2>1, <2>2, <2>3
<1>11. CASE LoseByte
  <2>1. lost' # 0
    BY <1>1, <1>11 DEF LoseByte, Missed, Least
  <2>2. UNCHANGED << device, wire, over, buffer, ready, pc, tx, chunk, todo, arg >>
    BY <1>11 DEF LoseByte, driver, rings, caller
  <2>3. /\ Rest' = Rest /\ (Active' => Active) /\ (Asking => Asking')
    BY <2>2 DEF Rest, Active, Asking
  <2> QED
    BY <1>3, <2>1, <2>2, <2>3
<1>12. ASSUME Moved, UNCHANGED << device, wire, over, buffer, ready, pc, chunk, todo, arg >>,
              tx' = tx \/ (pc = "idle" /\ tx' = << >>)
       PROVE  AgreedNext
  <2>1. lost' = 0 => lost = 0 /\ Incoming' = Incoming
    <3>1. lost' = Least(2, lost + 1) => lost' # 0
      BY <1>1 DEF Least
    <3> QED
      BY <1>1, <1>12, <3>1 DEF Moved
  <2>2. tx' = tx
    BY <1>12 DEF SendInv
  <2>3. /\ Rest' = Rest /\ (Active' => Active) /\ (Asking => Asking')
    BY <1>12, <2>2 DEF Rest, Active, Asking
  <2>4. lost' = 0 => Range(Incoming)' = Range(Incoming)
    BY <2>1 DEF Range
  <2> QED
    BY <1>3, <1>12, <2>1, <2>3, <2>4
<1>13. ASSUME NEW k \in Chunks, Receive(k), ~Framing
       PROVE  AgreedNext
  <2>1. Moved
    BY <1>13, ReceiveMoves DEF InInv
  <2>2. UNCHANGED << device, wire, over, buffer, ready, pc, chunk, todo, arg, tx >>
    BY <1>13 DEF Receive, caller, rings
  <2> QED
    BY <1>12, <2>1, <2>2
<1>14. CASE Close
  <2>1. /\ UNCHANGED << device, wire, over, buffer, ready, pc, chunk, todo, arg >>
        /\ pc = "idle" /\ tx' = << >>
    BY <1>14 DEF Close, caller, cables
  <2> QED
    BY <1>12, <1>14, <2>1, CloseMoves
<1>15. CASE Open
  <2>1. /\ UNCHANGED << packet, line, device, wire, over, lost, buffer, ready, pc, chunk,
                        todo, arg >>
        /\ pc = "idle" /\ tx' = << >> /\ rx' = << >> /\ ~open
    BY <1>15 DEF Open, caller, cables, seen
  <2>2. tx' = tx /\ rx' = rx
    BY <2>1 DEF InInv, SendInv
  <2>3. Range(Incoming)' = Range(Incoming)
    BY <1>2, <2>1, <2>2
  <2>4. /\ Rest' = Rest /\ (Active' => Active) /\ (Asking => Asking')
    BY <2>1, <2>2 DEF Rest, Active, Asking
  <2> QED
    BY <1>3, <2>1, <2>3, <2>4
<1>16. ASSUME NEW p \in Presses, Press(p)
       PROVE  AgreedNext
  <2>1. /\ UNCHANGED << packet, rx, tx, pc, chunk, todo, arg, wire, over, lost, buffer, ready >>
        /\ device' = [device EXCEPT !.pressed = p]
        /\ line' = line \/ line' = line \o Event(p)
    BY <1>16, Zenon DEF Press, driver, rings, caller, seen
  <2>2. /\ device'.got = device.got /\ device'.locked = device.locked
        /\ device'.leds = device.leds /\ device'.user = device.user
    BY <1>1, <2>1 DEF Device
  <2>3. MTCP_RESET \in Range(Incoming) => MTCP_RESET \in Range(Incoming)'
    <3>1. CASE line' = line
      BY <1>2, <2>1, <3>1
    <3>2. CASE line' = line \o Event(p)
      BY <1>1, <2>1, <3>2, EventBytes, LineGrows
    <3> QED
      BY <2>1, <3>1, <3>2
  <2>4. /\ Rest' = Rest /\ (Active' => Active) /\ (Asking => Asking')
    BY <2>1 DEF Rest, Active, Asking
  <2> QED
    BY <2>1, <2>2, <2>3, <2>4, SameSent
<1>17. CASE TuxInit
  <2>1. /\ UNCHANGED << packet, rx, line, tx, wire, device, over, lost, buffer, chunk >>
        /\ pc = "idle" /\ pc' = "put"
        /\ todo' = << << MTCP_BIOC_ON >>, << MTCP_LED_USR >> >>
    BY <1>17 DEF TuxInit, Start, driver, rings, cables
  <2>2. todo = << >>
    BY <2>1 DEF TypeInv, Calling
  <2>3. Asking'
    BY <2>1 DEF Asking
  <2>4. Rest' = Rest /\ Active
    BY <2>1 DEF Rest, Active
  <2>5. Range(Incoming)' = Range(Incoming)
    BY <1>2, <2>1
  <2> QED
    BY <1>3, <2>1, <2>3, <2>4, <2>5
<1>18. ASSUME NEW leds \in Shown, TuxSetLed(leds)
       PROVE  AgreedNext
  <2>1. /\ UNCHANGED << packet, rx, line, tx, wire, device, over, lost, buffer, ready, chunk >>
        /\ pc = "idle" /\ pc' \in {"idle", "fill"} /\ todo' = << >>
    BY <1>18 DEF TuxSetLed, Start, driver, rings, cables
  <2>2. todo = << >>
    BY <2>1 DEF TypeInv, Calling
  <2>3. Rest' = Rest /\ Active /\ ~Asking
    BY <2>1, <2>2 DEF Rest, Active, Asking
  <2>4. Range(Incoming)' = Range(Incoming)
    BY <1>2, <2>1
  <2> QED
    BY <1>3, <2>1, <2>3, <2>4
<1>19. CASE StoreByte
  <2>1. /\ UNCHANGED << packet, rx, line, tx, wire, device, over, lost, ready, arg, chunk >>
        /\ pc = "fill" /\ pc' \in {"fill", "put"}
    BY <1>19 DEF StoreByte, driver, rings, cables, seen
  <2>2. arg # << >>
    BY <2>1 DEF TypeInv, Calling
  <2>3. Rest' = Rest /\ ~Active'
    BY <2>1, <2>2 DEF Rest, Active
  <2>4. ~Asking
    BY <2>1, <2>2, <2>3 DEF RestInv
  <2>5. Range(Incoming)' = Range(Incoming)
    BY <1>2, <2>1
  <2> QED
    BY <1>3, <2>1, <2>3, <2>4, <2>5
<1>20. CASE AskRoom \/ SetFlag
  <2>1. /\ UNCHANGED << packet, rx, line, tx, wire, device, over, lost, buffer, ready, todo,
                       chunk >>
        /\ pc \in {"room", "flag"} /\ pc' \in {"pop", "idle"}
    BY <1>20 DEF AskRoom, SetFlag, driver, rings, cables, seen
  <2>2. Rest' = Rest /\ Active /\ (Asking => Asking')
    BY <2>1 DEF Rest, Active, Asking
  <2>3. Range(Incoming)' = Range(Incoming)
    BY <1>2, <2>1
  <2> QED
    BY <1>3, <2>1, <2>2, <2>3
<1>21. CASE PopBytes
  <2>1. /\ UNCHANGED << packet, rx, line, wire, device, lost, buffer, ready, todo >>
        /\ pc = "pop" /\ pc' = "write"
    BY <1>21 DEF PopBytes, cables
  <2>2. over => over'
    BY <1>21, Zenon DEF PopBytes
  <2>3. Rest' = Rest
    BY <1>21, <2>1, PoppedAll DEF Rest
  <2>4. Active /\ (Asking => Asking')
    BY <2>1 DEF Active, Asking
  <2>5. Range(Incoming)' = Range(Incoming)
    BY <1>2, <2>1
  <2> QED
    BY <1>3, <2>1, <2>2, <2>3, <2>4, <2>5
<1>22. CASE UNCHANGED vars
  <2>1. UNCHANGED << packet, rx, line, tx, wire, device, over, lost, buffer, ready, todo,
                     pc, chunk, arg >>
    BY <1>22 DEF vars, driver, rings, caller, cables, seen
  <2>2. /\ Rest' = Rest /\ (Active' => Active) /\ (Asking => Asking')
    BY <2>1 DEF Rest, Active, Asking
  <2>3. Range(Incoming)' = Range(Incoming)
    BY <1>2, <2>1
  <2> QED
    BY <1>3, <2>1, <2>2, <2>3
<1> QED
  BY <1>4, <1>5, <1>6, <1>7, <1>8, <1>9, <1>10, <1>11, <1>13, <1>14, <1>15, <1>16,
     <1>17, <1>18, <1>19, <1>20, <1>21, <1>22 DEF Next, Others, Interrupt, CallerStep

\* When all bytes have arrived, nothing follows that could still change the
\* LEDs, and no reset waits to be handled.
LEMMA QuietIsAgreed ==
  ASSUME TypeInv, InInv, AgreeInv
  PROVE  QuietAgree
<1> SUFFICES ASSUME Quiet, Sound, ready
             PROVE  device.leds = After(2, buffer) /\ device.user
  BY DEF QuietAgree
<1>1. /\ pc = "idle" /\ tx = << >> /\ wire = << >> /\ line = << >> /\ rx = << >>
      /\ ~Framing /\ lost = 0 /\ ~over /\ ~device.locked
  BY DEF Quiet, Sound
<1>2. /\ device.got \in Seq(Byte) /\ Sending \in Seq(Byte)
      /\ packet \in Seq(Byte) /\ Len(packet) \in Nat
  BY SendingBytes, IncomingBytes DEF TypeInv
<1>3. Incoming = << >>
  <2>1. Incoming = packet
    <3>1. Incoming = packet \o (<< >> \o << >>)
      BY <1>1 DEF Incoming
    <3>2. << >> \o << >> = << >>
      OBVIOUS
    <3>3. packet \o << >> = packet
      BY <1>2, ConcatEmptySeq
    <3> QED
      BY <3>1, <3>2, <3>3
  <2>2. Len(packet) % 3 = 0
    BY <1>1, <2>1 DEF InInv, Aligned
  <2>3. Len(packet) =< 2
    BY <1>1, <1>2 DEF Framing
  <2>4. Len(packet) = 0
    BY <1>2, <2>2, <2>3
  <2> QED
    BY <1>2, <2>1, <2>4, EmptySeq
<1>4. MTCP_RESET \notin Range(Incoming)
  BY <1>3 DEF Range
<1>5. Sending = device.got
  BY <1>1, <1>2, ConcatEmptySeq DEF Sending
<1>6. Rest = << >> /\ Active /\ ~Asking
  BY <1>1 DEF Rest, Active, Asking, TypeInv, Calling
<1>7. device.got # << >> => /\ device.got[1] = MTCP_LED_SET
                            /\ \/ Len(device.got) = 1
                               \/ Len(device.got) < 2 + Bits(device.got[2])
  BY DEF TypeInv, Gathering
<1>8. MTCP_LED_SET \notin Plain /\ MTCP_LED_SET # 0
  BY DEF Plain, MTCP_BIOC_ON, MTCP_LED_USR, MTCP_LED_SET
<1>9. LED_BUFF_SIZE = NLeds + 2 /\ NLeds \in 1 .. 4 /\ Bits(AllLeds) = NLeds
  BY Constants, AllLedsBits
\* No command the controller has gathered is whole, and no byte of it wrong.
<1>10. ~(device.got # << >> /\ device.got[2] = AllLeds /\ LED_BUFF_SIZE =< Len(device.got))
  <2> SUFFICES ASSUME device.got # << >>, device.got[2] = AllLeds,
                      LED_BUFF_SIZE =< Len(device.got)
               PROVE  FALSE
    OBVIOUS
  <2>1. Len(device.got) = 1 \/ Len(device.got) < 2 + NLeds
    BY <1>7, <1>9
  <2>2. Len(device.got) \in Nat
    BY <1>2
  <2> QED
    BY <1>9, <2>1, <2>2
<1>11. ~Dead(Sending)
  <2> SUFFICES ASSUME Dead(Sending)
               PROVE  FALSE
    OBVIOUS
  <2>1. device.got # << >>
    <3>1. \E k \in 0 .. Len(device.got) - 1 : TRUE
      BY <1>5 DEF Dead
    <3>2. Len(device.got) # 0
      BY <3>1
    <3> QED
      BY <3>2
  <2>2. \/ /\ device.got[1] = MTCP_LED_SET /\ device.got[2] = AllLeds
           /\ LED_BUFF_SIZE =< Len(device.got)
        \/ /\ device.got[2] = 0 /\ Len(device.got) >= 3
    BY <1>2, <1>5, <1>7, <1>8, <2>1, DeadTaken
  <2>3. CASE device.got[2] = 0 /\ Len(device.got) >= 3
    <3>1. Len(device.got) = 1 \/ Len(device.got) < 2 + 0
      BY <1>7, <2>1, <2>3, NoBits
    <3>2. Len(device.got) \in Nat
      BY <1>2
    <3> QED
      BY <2>3, <3>1, <3>2
  <2> QED
    BY <1>10, <2>1, <2>2, <2>3
<1>12. Whole(Sending) /\ Told
  BY <1>1, <1>4, <1>6, <1>11 DEF AgreeInv
<1>13. Sending = << >>
  <2> SUFFICES ASSUME Sending # << >>
               PROVE  FALSE
    OBVIOUS
  <2> QED
    BY <1>2, <1>5, <1>7, <1>8, <1>10, <1>12, FirstCommand
<1>14. Shows(<< >>, device.leds, buffer) /\ (device.user \/ UserIn(<< >>))
  <2>1. << >> \o << >> = << >>
    OBVIOUS
  <2> QED
    BY <1>6, <1>12, <1>13, <2>1 DEF Told
<1>15. device.leds = After(2, buffer)
  <2>1. ~\E k \in 0 .. Len(<< >>) - LED_BUFF_SIZE : TRUE
    BY <1>9
  <2> QED
    BY <1>14, <2>1 DEF Shows
<1>16. ~UserIn(<< >>)
  BY DEF UserIn
<1> QED
  BY <1>14, <1>15, <1>16

\* When all bytes have arrived, the controller shows the last LEDs that were
\* sent and knows that the program drives them, whenever it took its bytes or
\* was reset (tuxctl-ioctl.c:75, :194 to 246).
THEOREM QuietlyAgreed == Spec => []QuietAgree
<1>1. TypeInv /\ InInv /\ AgreeInv => QuietAgree
  BY QuietIsAgreed
<1>2. /\ TypeInv /\ SendInv /\ [Next]_vars => SendInv'
      /\ TypeInv /\ TypeInv' /\ SendInv /\ RestInv /\ [Next]_vars => RestInv'
      /\ /\ TypeInv /\ SendInv /\ InInv /\ RestInv /\ BufferInv /\ AgreeInv
            /\ [Next]_vars
         => AgreeInv'
  BY SendStep, RestStep, AgreeStep
<1> QED
  BY <1>1, <1>2, TypeInit, TypeStep, InInit, InStep, SendInit, RestInit, BufferStep,
     AgreeInit, PTL DEF Spec
=============================================================================
