------------------------- MODULE PacketQueue_proofs -------------------------
(***************************************************************************)
(* What the other proofs use of sequences of packets: the tails and the    *)
(* outcomes of the contract, and the bytes a sequence holds.  BytesUpTo is *)
(* recursive; what it computes is proved by induction, which is obtained   *)
(* from the well-foundedness of < on the natural numbers.                  *)
(***************************************************************************)
EXTENDS PacketQueue, Integers, WellFoundedInduction, TLAPS

\* Every set of natural numbers that is not empty has a least element.
LEMMA LeastNat ==
    ASSUME NEW T, T \subseteq Nat, T # {}
    PROVE  \E x \in T : \A y \in T : x <= y
<1> DEFINE R == OpToRel(<, Nat)
<1>1. R = {ss \in Nat \X Nat : ss[1] < ss[2]}
  BY DEF OpToRel
<1>2. IsWellFoundedOn(R, Nat)
  BY NatLessThanWellFounded
<1> HIDE DEF R
<1>3. PICK x \in T : \A y \in T : ~(<<y, x>> \in R)
  BY <1>2, WFMin
<1>4. ASSUME NEW y \in T PROVE x <= y
  <2>1. x \in Nat /\ y \in Nat
    OBVIOUS
  <2>2. <<y, x>> \in Nat \X Nat /\ ~(<<y, x>> \in R)
    BY <1>3, <2>1
  <2>3. ~(y < x)
    BY <1>1, <2>2
  <2> QED BY <2>1, <2>3
<1> QED BY <1>4

\* Induction: a set that holds 0 and with every number the next one holds all.
\* (A property is given as the set of the numbers that have it.)
LEMMA InductionOnNat ==
    ASSUME NEW T, T \subseteq Nat, 0 \in T, \A n \in T : n + 1 \in T
    PROVE  T = Nat
<1> DEFINE F == Nat \ T
<1> SUFFICES ASSUME F # {} PROVE FALSE
  OBVIOUS
<1>1. PICK x \in F : \A y \in F : x <= y
  <2>1. F \subseteq Nat
    OBVIOUS
  <2> QED BY <2>1, LeastNat
<1>2. x \in Nat /\ x # 0
  BY <1>1
<1>3. x - 1 \in Nat /\ ~(x <= x - 1) /\ (x - 1) + 1 = x
  BY <1>2
<1>4. x - 1 \in T
  BY <1>1, <1>3
<1>5. (x - 1) + 1 \in T
  BY <1>4
<1> QED BY <1>1, <1>3, <1>5
-----------------------------------------------------------------------------
(* Tails and outcomes                                                      *)

\* A tail of a sequence of packets holds the packets at the end of it.
LEMMA FromProperties ==
    ASSUME NEW S, NEW s \in Seq(S), NEW k \in 1..(Len(s) + 1)
    PROVE  /\ From(s, k) \in Seq(S)
           /\ Len(From(s, k)) = Len(s) - k + 1
           /\ \A i \in 1..Len(From(s, k)) :
                  /\ i + k - 1 \in 1..Len(s)
                  /\ From(s, k)[i] = s[i + k - 1]
  BY DEF From

\* Popping the head of a queue leaves the packets from the second on.
LEMMA TailIsFrom ==
    ASSUME NEW S, NEW q \in Seq(S), q # <<>>
    PROVE  /\ Tail(q) = From(q, 2)
           /\ Head(q) = q[1] /\ Head(q) \in S
           /\ Tail(q) \in Seq(S) /\ Len(Tail(q)) = Len(q) - 1
           /\ Len(q) \in Nat \ {0}
  BY DEF From

\* r holds packets that stand together in q, in the same order; the first d
\* packets of q are not among them.
PartOf(r, q, d) ==
    \A i \in 1..Len(r) : i + d \in 1..Len(q) /\ r[i] = q[i + d]

\* The same, but r may end with p.
PartThen(r, q, d, p) ==
    \A i \in 1..Len(r) : \/ i + d \in 1..Len(q) /\ r[i] = q[i + d]
                         \/ i = Len(r) /\ r[i] = p

\* What an enqueue leaves in the queue is the queue as it was, or the packets
\* at the end of it, in order, and then the new packet, or nothing.
LEMMA EnqueueProperties ==
    ASSUME NEW S, NEW q \in Seq(S), NEW p \in S,
           NEW r \in EnqueueOutcomes(q, p)
    PROVE  /\ r \in Seq(S)
           /\ Len(r) <= Len(q) + 1
           /\ \E d \in Nat : PartThen(r, q, d, p)
<1>1. CASE r = q
  <2>1. PartThen(q, q, 0, p)
    BY DEF PartThen
  <2> QED BY <1>1, <2>1
<1>2. CASE \E k \in 1..(Len(q) + 2) : r = From(Append(q, p), k)
  <2>1. PICK k \in 1..(Len(q) + 2) : r = From(Append(q, p), k)
    BY <1>2
  <2> DEFINE filled == Append(q, p)
  <2>2. /\ filled \in Seq(S) /\ Len(filled) = Len(q) + 1 /\ Len(q) \in Nat
        /\ \A j \in 1..(Len(q) + 1) :
               filled[j] = IF j <= Len(q) THEN q[j] ELSE p
    OBVIOUS
  <2>3. r = From(filled, k)
    BY <2>1
  <2> HIDE DEF filled
  <2>4. k \in 1..(Len(filled) + 1) /\ k - 1 \in Nat
    BY <2>1, <2>2
  <2>5. /\ r \in Seq(S)
        /\ Len(r) = Len(filled) - k + 1
        /\ \A i \in 1..Len(r) : i + k - 1 \in 1..Len(filled)
                                /\ r[i] = filled[i + k - 1]
    BY <2>2, <2>3, <2>4, FromProperties
  <2>6. Len(r) <= Len(q) + 1
    BY <2>2, <2>4, <2>5
  <2>7. ASSUME NEW i \in 1..Len(r)
        PROVE  \/ i + (k - 1) \in 1..Len(q) /\ r[i] = q[i + (k - 1)]
               \/ i = Len(r) /\ r[i] = p
    <3>1. i + (k - 1) = i + k - 1 /\ i + k - 1 \in 1..(Len(q) + 1)
          /\ r[i] = filled[i + (k - 1)]
      BY <2>2, <2>5, <2>4
    <3>2. CASE i + (k - 1) \in 1..Len(q)
      BY <2>2, <3>1, <3>2
    <3>3. CASE i + (k - 1) = Len(q) + 1
      <4>1. i = Len(r)
        BY <2>2, <2>4, <2>5, <3>3
      <4> QED BY <2>2, <3>1, <3>3, <4>1
    <3> QED BY <2>2, <3>1, <3>2, <3>3
  <2>8. PartThen(r, q, k - 1, p)
    BY <2>7 DEF PartThen
  <2> QED BY <2>4, <2>5, <2>6, <2>8
<1> QED BY <1>1, <1>2 DEF EnqueueOutcomes

\* A dequeue returns the head, and leaves packets at the end of the queue, in
\* order; all packets but the head unless the discipline drops at dequeue.
LEMMA DequeueProperties ==
    ASSUME NEW S, NEW q \in Seq(S), q # <<>>, NEW drops,
           NEW r \in DequeueOutcomes(q, drops)
    PROVE  /\ Head(q) \in S
           /\ Head(q) = q[1]
           /\ Len(q) \in Nat \ {0}
           /\ r \in Seq(S)
           /\ ~drops => Len(r) = Len(q) - 1
           /\ \E d \in Nat \ {0} : PartOf(r, q, d)
<1>1. Head(q) \in S /\ Head(q) = q[1] /\ Len(q) \in Nat \ {0}
  OBVIOUS
<1>2. PICK k \in 2..(Len(q) + 1) : r = From(q, k) /\ (~drops => k = 2)
  BY <1>1 DEF DequeueOutcomes
<1>3. k \in 1..(Len(q) + 1) /\ k - 1 \in Nat \ {0}
      /\ \A i \in Nat : i + k - 1 = i + (k - 1)
  BY <1>1, <1>2
<1>4. /\ r \in Seq(S)
      /\ Len(r) = Len(q) - k + 1
      /\ \A i \in 1..Len(r) : i + k - 1 \in 1..Len(q) /\ r[i] = q[i + k - 1]
  <2>1. /\ From(q, k) \in Seq(S)
        /\ Len(From(q, k)) = Len(q) - k + 1
        /\ \A i \in 1..Len(From(q, k)) :
               i + k - 1 \in 1..Len(q) /\ From(q, k)[i] = q[i + k - 1]
    BY <1>3, FromProperties
  <2> QED BY ONLY <1>2, <2>1, Zenon
<1>5. PartOf(r, q, k - 1)
  BY <1>3, <1>4 DEF PartOf
<1>6. ~drops => Len(r) = Len(q) - 1
  BY <1>1, <1>2, <1>4
<1> QED BY <1>1, <1>3, <1>4, <1>5, <1>6
-----------------------------------------------------------------------------
(* The bytes of a sequence of packets                                      *)

Sized(S) == \A p \in S : p.size \in Nat

IsSum(f, s, m) ==
    f = [k \in 0..m |-> IF k = 0 THEN 0 ELSE f[k - 1] + s[k].size]

\* The recursive definition of BytesUpTo has a solution.
LEMMA SumExists ==
    ASSUME NEW s, NEW n \in Nat
    PROVE  \E f : IsSum(f, s, n)
<1> DEFINE T == {m \in Nat : \E f : IsSum(f, s, m)}
<1>1. 0 \in T
  <2>1. IsSum([k \in 0..0 |-> 0], s, 0)
    BY DEF IsSum
  <2> QED BY <2>1
<1>2. ASSUME NEW m \in T PROVE m + 1 \in T
  <2>1. PICK f : IsSum(f, s, m)
    OBVIOUS
  <2>2. m \in Nat
    OBVIOUS
  <2> DEFINE n1 == m + 1
             g == [k \in 0..n1 |-> IF k = n1 THEN f[m] + s[n1].size ELSE f[k]]
  <2>3. ASSUME NEW k \in 0..n1
        PROVE  g[k] = IF k = 0 THEN 0 ELSE g[k - 1] + s[k].size
    <3>1. CASE k = n1
      <4>1. n1 - 1 = m /\ m \in 0..n1 /\ m # n1 /\ n1 # 0
        BY <2>2
      <4> QED BY <3>1, <4>1
    <3>2. CASE k # n1
      <4>1. k \in 0..m /\ (k = 0 \/ (k - 1 \in 0..n1 /\ k - 1 # n1))
        BY <2>2, <3>2
      <4>2. f[k] = IF k = 0 THEN 0 ELSE f[k - 1] + s[k].size
        BY <2>1, <4>1 DEF IsSum
      <4> QED BY <3>2, <4>1, <4>2
    <3> QED BY <3>1, <3>2
  <2>4. IsSum(g, s, n1)
    BY <2>3 DEF IsSum
  <2> QED BY <2>2, <2>4
<1>3. T \subseteq Nat
  OBVIOUS
<1> HIDE DEF T
<1>4. T = Nat
  BY <1>1, <1>2, <1>3, InductionOnNat
<1> QED BY <1>4 DEF T

\* BytesUpTo adds up the sizes from the first packet on.
LEMMA BytesUnrolled ==
    ASSUME NEW s, Len(s) \in Nat
    PROVE  /\ BytesUpTo(s)[0] = 0
           /\ \A k \in 1..Len(s) :
                 BytesUpTo(s)[k] = BytesUpTo(s)[k - 1] + s[k].size
<1> DEFINE f == BytesUpTo(s)
<1>1. IsSum(f, s, Len(s))
  <2>1. \E g : IsSum(g, s, Len(s))
    BY SumExists
  <2>2. f = CHOOSE g : IsSum(g, s, Len(s))
    BY DEF BytesUpTo, IsSum
  <2> QED BY <2>1, <2>2
<1> HIDE DEF f
<1>2. f = [k \in 0..Len(s) |-> IF k = 0 THEN 0 ELSE f[k - 1] + s[k].size]
  BY <1>1 DEF IsSum
<1>3. \A k \in 0..Len(s) : f[k] = IF k = 0 THEN 0 ELSE f[k - 1] + s[k].size
  BY <1>2
<1> QED BY <1>3 DEF f

\* The n packets of s that follow its first a ones are those of t that follow
\* its first b ones.
AgreeOn(S, s, a, t, b, n) ==
    /\ Sized(S) /\ s \in Seq(S) /\ t \in Seq(S)
    /\ a \in Nat /\ b \in Nat /\ n \in Nat
    /\ a + n <= Len(s) /\ b + n <= Len(t)
    /\ \A i \in 1..n : s[a + i] = t[b + i]
    /\ BytesUpTo(s)[a] \in Nat /\ BytesUpTo(t)[b] \in Nat

\* Two sequences that agree on n packets have the same number of bytes there.
LEMMA SameBytes ==
    ASSUME NEW S, NEW s, NEW a, NEW t, NEW b, NEW n, AgreeOn(S, s, a, t, b, n)
    PROVE  /\ BytesUpTo(s)[a + n] \in Nat
           /\ BytesUpTo(t)[b + n] \in Nat
           /\ BytesUpTo(s)[a + n] - BytesUpTo(s)[a]
                = BytesUpTo(t)[b + n] - BytesUpTo(t)[b]
<1> DEFINE f == BytesUpTo(s)
           g == BytesUpTo(t)
           P(m) == m <= n => /\ f[a + m] \in Nat /\ g[b + m] \in Nat
                             /\ f[a + m] - f[a] = g[b + m] - g[b]
           T == {m \in Nat : P(m)}
<1> USE DEF AgreeOn
<1>1. \A k \in 1..Len(s) : f[k] = f[k - 1] + s[k].size
  BY BytesUnrolled
<1>2. \A k \in 1..Len(t) : g[k] = g[k - 1] + t[k].size
  BY BytesUnrolled
<1>0. f[a] \in Nat /\ g[b] \in Nat /\ n \in Nat
  OBVIOUS
<1> HIDE DEF f, g
<1>3. 0 \in T
  <2>1. a + 0 = a /\ b + 0 = b
    OBVIOUS
  <2> QED BY <1>0, <2>1
<1>4. ASSUME NEW m \in T PROVE m + 1 \in T
  <2>1. m \in Nat /\ P(m)
    OBVIOUS
  <2> DEFINE n1 == m + 1
  <2>2. n1 \in Nat /\ n1 = m + 1
    BY <2>1
  <2> HIDE DEF n1
  <2>3. SUFFICES ASSUME n1 <= n PROVE P(n1)
    BY <2>2
  <2>4. a + n1 \in 1..Len(s) /\ b + n1 \in 1..Len(t) /\ n1 \in 1..n
        /\ (a + n1) - 1 = a + m /\ (b + n1) - 1 = b + m /\ m <= n
    BY <2>1, <2>2, <2>3
  <2> DEFINE i == a + n1
             j == b + n1
  <2>5. s[i] = t[j]
    BY <2>4
  <2>6. s[i].size \in Nat
    BY <2>4 DEF Sized
  <2>7. f[i] = f[a + m] + s[i].size /\ g[j] = g[b + m] + s[i].size
    BY <1>1, <1>2, <2>4, <2>5
  <2>8. f[a + m] \in Nat /\ g[b + m] \in Nat /\ f[a + m] - f[a] = g[b + m] - g[b]
    BY <2>1, <2>4
  <2>9. f[i] \in Nat /\ g[j] \in Nat /\ f[i] - f[a] = g[j] - g[b]
    <3> DEFINE size == s[i].size
               fa == f[a + m]
               gb == g[b + m]
    <3> HIDE DEF size, fa, gb, i, j, P, T, AgreeOn
    <3>1. /\ size \in Nat /\ fa \in Nat /\ gb \in Nat /\ fa - f[a] = gb - g[b]
          /\ f[i] = fa + size /\ g[j] = gb + size
      BY <2>6, <2>7, <2>8 DEF size, fa, gb
    <3> QED BY <1>0, <3>1
  <2> QED BY <2>9
<1>5. T \subseteq Nat
  OBVIOUS
<1> HIDE DEF T
<1>6. T = Nat
  BY <1>3, <1>4, <1>5, InductionOnNat
<1>7. P(n)
  <2>1. n \in T
    BY <1>0, <1>6
  <2> QED BY <2>1 DEF T
<1> QED BY <1>7 DEF f, g

\* No sequence of packets has a negative number of bytes.
LEMMA BytesType ==
    ASSUME NEW S, Sized(S), NEW s \in Seq(S)
    PROVE  /\ BytesUpTo(s)[0] = 0
           /\ \A k \in 0..Len(s) : BytesUpTo(s)[k] \in Nat
           /\ BytesIn(s) \in Nat
<1>1. Len(s) \in Nat /\ BytesUpTo(s)[0] = 0
  BY BytesUnrolled
<1>2. ASSUME NEW k \in 0..Len(s) PROVE BytesUpTo(s)[k] \in Nat
  <2>1. k \in Nat /\ 0 \in Nat /\ 0 + k = k /\ k <= Len(s)
    BY <1>1
  <2>2. AgreeOn(S, s, 0, s, 0, k)
    BY <1>1, <2>1 DEF AgreeOn
  <2>3. BytesUpTo(s)[0 + k] \in Nat
    BY <2>2, SameBytes
  <2> QED BY <2>1, <2>3
<1> QED BY <1>1, <1>2 DEF BytesIn

\* An empty sequence has no bytes.
LEMMA BytesOfNone == BytesIn(<<>>) = 0
<1>1. Len(<<>>) = 0
  OBVIOUS
<1> QED BY <1>1, BytesUnrolled DEF BytesIn

\* A packet that is appended adds its size.
LEMMA BytesOfAppend ==
    ASSUME NEW S, Sized(S), NEW s \in Seq(S), NEW p \in S
    PROVE  BytesIn(Append(s, p)) = BytesIn(s) + p.size
<1> DEFINE t == Append(s, p)
           n == Len(s)
<1>1. t \in Seq(S) /\ Len(t) = n + 1 /\ n \in Nat /\ t[n + 1] = p
      /\ \A i \in 1..n : s[i] = t[i]
  OBVIOUS
<1> HIDE DEF t
<1> DEFINE z == 0
<1>2. z \in Nat /\ z + n = n /\ \A i \in 1..n : z + i = i
  BY <1>1
<1>3. BytesUpTo(s)[z] = 0 /\ BytesUpTo(t)[z] = 0
  BY <1>1, BytesType
<1> HIDE DEF z
<1>4. /\ z + n <= Len(s) /\ z + n <= Len(t)
      /\ \A i \in 1..n : s[z + i] = t[z + i]
      /\ BytesUpTo(s)[z] \in Nat /\ BytesUpTo(t)[z] \in Nat
  BY <1>1, <1>2, <1>3
<1>5. /\ BytesUpTo(s)[z + n] \in Nat
      /\ BytesUpTo(t)[z + n] \in Nat
      /\ BytesUpTo(s)[z + n] - BytesUpTo(s)[z]
            = BytesUpTo(t)[z + n] - BytesUpTo(t)[z]
  <2>1. AgreeOn(S, s, z, t, z, n)
    BY <1>1, <1>2, <1>4 DEF AgreeOn
  <2> QED BY <2>1, SameBytes
<1>6. BytesUpTo(s)[n] = BytesUpTo(t)[n]
  BY <1>2, <1>3, <1>5
<1>7. n + 1 \in 1..Len(t) /\ (n + 1) - 1 = n
  BY <1>1
<1>8. BytesUpTo(t)[n + 1] = BytesUpTo(t)[n] + p.size
  BY <1>1, <1>7, BytesUnrolled
<1> QED BY <1>1, <1>6, <1>8 DEF BytesIn, t

\* The bytes of a queue are those of its first k packets and of the others.
LEMMA BytesOfParts ==
    ASSUME NEW S, Sized(S), NEW s \in Seq(S), NEW k \in 0..Len(s)
    PROVE  /\ SubSeq(s, 1, k) \in Seq(S)
           /\ From(s, k + 1) \in Seq(S)
           /\ BytesIn(s) = BytesIn(SubSeq(s, 1, k)) + BytesIn(From(s, k + 1))
<1> DEFINE a == SubSeq(s, 1, k)
           b == From(s, k + 1)
           m == Len(s) - k
<1>1. Len(s) \in Nat /\ k \in Nat /\ m \in Nat /\ k + m = Len(s)
      /\ k + 1 \in 1..(Len(s) + 1)
  OBVIOUS
<1>2. a \in Seq(S) /\ Len(a) = k /\ \A i \in 1..k : a[i] = s[i]
  BY <1>1
<1>3. b \in Seq(S) /\ Len(b) = Len(s) - (k + 1) + 1
      /\ \A i \in 1..Len(b) : b[i] = s[i + (k + 1) - 1]
  BY <1>1, FromProperties
<1> HIDE DEF a, b
<1>4. Len(b) = m /\ \A i \in 1..m : b[i] = s[k + i]
  <2>1. Len(b) = m
    BY <1>1, <1>3
  <2>2. ASSUME NEW i \in 1..m PROVE b[i] = s[k + i]
    <3>1. b[i] = s[i + (k + 1) - 1]
      BY <1>3, <2>1
    <3>2. i + (k + 1) - 1 = k + i
      BY <1>1
    <3> QED BY <3>1, <3>2
  <2> QED BY <2>1, <2>2
<1> HIDE DEF m
<1> DEFINE z == 0
<1>5. BytesUpTo(a)[z] = 0 /\ BytesUpTo(b)[z] = 0 /\ BytesUpTo(s)[z] = 0
      /\ BytesUpTo(s)[k] \in Nat /\ BytesUpTo(s)[Len(s)] \in Nat
  BY <1>1, <1>2, <1>3, BytesType
<1>6. z \in Nat /\ z + k = k /\ z + m = m /\ \A i \in Nat : z + i = i
  BY <1>1
<1> HIDE DEF z
<1>7. BytesUpTo(a)[z + k] - BytesUpTo(a)[z]
         = BytesUpTo(s)[z + k] - BytesUpTo(s)[z]
      /\ BytesUpTo(a)[z + k] \in Nat
  <2>1. \A i \in 1..k : a[z + i] = s[z + i]
    BY <1>1, <1>2, <1>6, SMTT(30)
  <2>2. /\ z + k <= Len(a) /\ z + k <= Len(s)
        /\ BytesUpTo(a)[z] \in Nat /\ BytesUpTo(s)[z] \in Nat
    BY <1>1, <1>2, <1>5, <1>6
  <2>3. AgreeOn(S, a, z, s, z, k)
    BY <1>1, <1>2, <1>6, <2>1, <2>2 DEF AgreeOn
  <2> QED BY <2>3, SameBytes
<1>8. BytesUpTo(b)[z + m] - BytesUpTo(b)[z]
         = BytesUpTo(s)[k + m] - BytesUpTo(s)[k]
      /\ BytesUpTo(b)[z + m] \in Nat
  <2>1. \A i \in 1..m : b[z + i] = s[k + i]
    BY <1>1, <1>4, <1>6
  <2>2. /\ z + m <= Len(b) /\ k + m <= Len(s)
        /\ BytesUpTo(b)[z] \in Nat
    BY <1>1, <1>4, <1>5, <1>6
  <2>3. AgreeOn(S, b, z, s, k, m)
    BY <1>1, <1>3, <1>5, <1>6, <2>1, <2>2 DEF AgreeOn
  <2> QED BY <2>3, SameBytes
<1>9. BytesUpTo(s)[Len(s)] = BytesUpTo(a)[k] + BytesUpTo(b)[m]
  BY <1>1, <1>5, <1>6, <1>7, <1>8
<1> QED BY <1>2, <1>3, <1>4, <1>9 DEF BytesIn, a, b

\* The head and the packets behind it.
LEMMA BytesOfTail ==
    ASSUME NEW S, Sized(S), NEW s \in Seq(S), s # <<>>
    PROVE  BytesIn(s) = Head(s).size + BytesIn(Tail(s))
<1>1. Len(s) \in Nat \ {0} /\ Head(s) = s[1] /\ Head(s) \in S
      /\ Tail(s) = From(s, 2)
  BY TailIsFrom
<1>2. 1 \in 0..Len(s) /\ 1 + 1 = 2 /\ <<>> \in Seq(S)
  BY <1>1
<1> DEFINE h == SubSeq(s, 1, 1)
<1>3. h \in Seq(S) /\ Len(h) = 1 /\ h[1] = Head(s)
  BY <1>1, <1>2
<1>4. BytesIn(s) = BytesIn(h) + BytesIn(From(s, 1 + 1))
  BY <1>2, BytesOfParts
<1> HIDE DEF h
<1>5. 1 \in 1..Len(h) /\ 1 - 1 = 0
  BY <1>3
<1>6. BytesIn(h) = BytesUpTo(h)[0] + Head(s).size /\ BytesUpTo(h)[0] = 0
  BY <1>3, <1>5, BytesUnrolled DEF BytesIn
<1>7. Head(s).size \in Nat
  BY <1>1 DEF Sized
<1>8. BytesIn(Tail(s)) \in Nat
  BY TailIsFrom, BytesType
<1>9. BytesIn(h) = Head(s).size
  BY <1>6, <1>7
<1>10. BytesIn(s) = BytesIn(h) + BytesIn(Tail(s))
  BY <1>1, <1>2, <1>4
<1> QED BY <1>7, <1>8, <1>9, <1>10
=============================================================================
