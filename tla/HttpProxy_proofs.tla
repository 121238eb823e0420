-------------------------- MODULE HttpProxy_proofs --------------------------
(***************************************************************************)
(* The recording proxy, for every script of well-formed exchanges.         *)
(***************************************************************************)
EXTENDS HttpProxy, TLAPS

PQ == INSTANCE PacketQueue_proofs
-----------------------------------------------------------------------------
(* Sequences, and sequences one after the other                            *)

\* The symbols of t that follow its first n ones.
LEMMA DropFirstProperties ==
    ASSUME NEW S, NEW t \in Seq(S), NEW n \in 0..Len(t)
    PROVE  /\ DropFirst(t, n) \in Seq(S)
           /\ Len(DropFirst(t, n)) = Len(t) - n
           /\ \A i \in 1..(Len(t) - n) : DropFirst(t, n)[i] = t[n + i]
<1>1. n + 1 >= 1 /\ n \in Nat /\ Len(t) \in Nat
  OBVIOUS
<1> DEFINE u == DropFirst(t, n)
<1>2. u = [i \in 1..(Len(t) - n) |-> t[n + i]]
  <2>1. Len(t) - (n + 1) + 1 = Len(t) - n
    BY <1>1
  <2> QED BY <1>1, <2>1 DEF DropFirst
<1> QED BY <1>1, <1>2

\* Two sequences are the same if they agree at every position.
LEMMA SameSeq ==
    ASSUME NEW S, NEW s \in Seq(S), NEW t \in Seq(S), Len(s) = Len(t),
           \A i \in 1..Len(s) : s[i] = t[i]
    PROVE  s = t
  OBVIOUS

Joins(u, s, t) ==
    /\ Len(u) = Len(s) + Len(t)
    /\ \A i \in 1..Len(s) : u[i] = s[i]
    /\ \A i \in 1..Len(t) : u[Len(s) + i] = t[i]

\* Two sequences one after the other: its length and elements.
LEMMA Joined ==
    ASSUME NEW S, NEW s \in Seq(S), NEW t \in Seq(S)
    PROVE  s \o t \in Seq(S) /\ Joins(s \o t, s, t)
  BY DEF Joins

IsFlat(f, s, n) ==
    f = [i \in 1..n |-> IF i = 1 THEN s[i] ELSE f[i - 1] \o s[i]]

\* The recursive definition of FlattenSeq has a solution, and any two of them
\* agree, whatever their lengths, on sequences that agree.
LEMMA FlatExists ==
    ASSUME NEW s, NEW n \in Nat
    PROVE  \E f : IsFlat(f, s, n)
<1> DEFINE T == {m \in Nat : \E f : IsFlat(f, s, m)}
<1>1. 0 \in T
  <2>1. IsFlat([i \in 1..0 |-> 0], s, 0)
    BY DEF IsFlat
  <2> QED BY <2>1
<1>2. ASSUME NEW m \in T PROVE m + 1 \in T
  <2>1. PICK f : IsFlat(f, s, m)
    OBVIOUS
  <2>2. m \in Nat
    OBVIOUS
  <2> DEFINE n1 == m + 1
             g == [i \in 1..n1 |-> IF i # n1 THEN f[i]
                                   ELSE IF i = 1 THEN s[i] ELSE f[i - 1] \o s[i]]
  <2>3. ASSUME NEW i \in 1..n1
        PROVE  g[i] = IF i = 1 THEN s[i] ELSE g[i - 1] \o s[i]
    <3>1. i # 1 => i - 1 \in 1..n1 /\ i - 1 # n1 /\ g[i - 1] = f[i - 1]
      BY <2>2
    <3>2. CASE i = n1
      BY <3>1, <3>2
    <3>3. CASE i # n1
      <4>1. i \in 1..m
        BY <2>2, <3>3
      <4>2. f[i] = IF i = 1 THEN s[i] ELSE f[i - 1] \o s[i]
        BY <2>1, <4>1 DEF IsFlat
      <4> QED BY <3>1, <3>3, <4>2
    <3> QED BY <3>2, <3>3
  <2>4. IsFlat(g, s, n1)
    BY <2>3 DEF IsFlat
  <2> QED BY <2>2, <2>4
<1>3. T \subseteq Nat
  OBVIOUS
<1> HIDE DEF T
<1>4. T = Nat
  BY <1>1, <1>2, <1>3, PQ!InductionOnNat
<1> QED BY <1>4 DEF T

\* Two flattenings agree where the sequences that they flatten agree.
LEMMA FlatUnique ==
    ASSUME NEW s, NEW n \in Nat, NEW f, IsFlat(f, s, n),
           NEW t, NEW m \in Nat, NEW g, IsFlat(g, t, m),
           n <= m, \A i \in 1..n : s[i] = t[i]
    PROVE  \A i \in 1..n : f[i] = g[i]
<1> DEFINE T == {i \in Nat : i \in 1..n => f[i] = g[i]}
<1>1. 0 \in T
  OBVIOUS
<1>2. ASSUME NEW i \in T PROVE i + 1 \in T
  <2> DEFINE j == i + 1
  <2>1. SUFFICES ASSUME j \in 1..n PROVE f[j] = g[j]
    OBVIOUS
  <2>2. j \in 1..m /\ s[j] = t[j] /\ (j # 1 => f[j - 1] = g[j - 1])
    BY <2>1
  <2>3. f[j] = IF j = 1 THEN s[j] ELSE f[j - 1] \o s[j]
    BY <2>1 DEF IsFlat
  <2>4. g[j] = IF j = 1 THEN t[j] ELSE g[j - 1] \o t[j]
    BY <2>2 DEF IsFlat
  <2> QED BY <2>2, <2>3, <2>4
<1>3. T \subseteq Nat
  OBVIOUS
<1> HIDE DEF T
<1>4. T = Nat
  BY <1>1, <1>2, <1>3, PQ!InductionOnNat
<1> QED BY <1>4 DEF T

\* FlattenSeq of one sequence more.
LEMMA FlattenAppend ==
    ASSUME NEW s, NEW n \in Nat, Len(s) = n + 1, NEW t, Len(t) = n,
           \A i \in 1..n : s[i] = t[i]
    PROVE  FlattenSeq(s) = IF n = 0 THEN s[1] ELSE FlattenSeq(t) \o s[n + 1]
<1> DEFINE n1 == n + 1
<1>1. /\ n1 \in Nat /\ n1 # 0 /\ n <= n1 /\ n1 \in 1..n1 /\ n1 - 1 = n
      /\ Len(s) = n1 /\ n1 = n + 1
  OBVIOUS
<1> HIDE DEF n1
<1>2. PICK f : IsFlat(f, s, n1) /\ FlattenSeq(s) = f[n1]
  <2>1. \E f : IsFlat(f, s, n1)
    BY <1>1, FlatExists
  <2>2. FlattenSeq(s) = (CHOOSE f : IsFlat(f, s, n1))[n1]
    BY <1>1 DEF FlattenSeq, IsFlat
  <2> QED BY <2>1, <2>2
<1>3. f[n1] = IF n1 = 1 THEN s[n1] ELSE f[n1 - 1] \o s[n1]
  BY <1>1, <1>2 DEF IsFlat
<1>4. CASE n = 0
  BY <1>1, <1>2, <1>3, <1>4
<1>5. CASE n # 0
  <2>1. PICK g : IsFlat(g, t, n) /\ FlattenSeq(t) = g[n]
    <3>1. \E g : IsFlat(g, t, n)
      BY FlatExists
    <3>2. FlattenSeq(t) = (CHOOSE g : IsFlat(g, t, n))[n]
      BY <1>5 DEF FlattenSeq, IsFlat
    <3> QED BY <3>1, <3>2
  <2>2. \A i \in 1..n : g[i] = f[i]
    <3>1. \A i \in 1..n : t[i] = s[i]
      OBVIOUS
    <3> QED BY <1>1, <1>2, <2>1, <3>1, FlatUnique
  <2>3. g[n] = f[n]
    BY <1>5, <2>2
  <2>4. n1 # 1
    BY <1>1, <1>5
  <2> QED BY <1>1, <1>2, <1>3, <1>5, <2>1, <2>3, <2>4
<1> QED BY <1>4, <1>5
-----------------------------------------------------------------------------
(* Messages and streams, symbol by symbol                                  *)

\* The text of a line: of the first one, or of header i.
Text(m, i) == IF i = 0 THEN m.first_line ELSE m.headers[i]

\* Where the body begins: the symbols of the lines before it.
BodyAt(m) == 3 * Len(m.headers) + 5

\* CR, LF and CRLF.
LEMMA LineEnds ==
    /\ CR \in Symbols /\ LF \in Symbols /\ CR # LF
    /\ CRLF \in Seq(Symbols) /\ Len(CRLF) = 2
    /\ CRLF[1] = CR /\ CRLF[2] = LF
<1>1. CR \in Symbols /\ LF \in Symbols
  BY DEF CR, LF, Symbols, Kinds
<1>2. CR # LF
  BY DEF CR, LF
<1>3. /\ CRLF \in Seq(Symbols) /\ Len(CRLF) = 2
      /\ CRLF[1] = CR /\ CRLF[2] = LF
  BY <1>1 DEF CRLF
<1> QED BY <1>1, <1>2, <1>3

\* A line: its text, CR and LF.
LEMMA OneLine ==
    ASSUME NEW x \in Symbols
    PROVE  /\ <<x>> \o CRLF \in Seq(Symbols)
           /\ Len(<<x>> \o CRLF) = 3
           /\ (<<x>> \o CRLF)[1] = x
           /\ (<<x>> \o CRLF)[2] = CR /\ (<<x>> \o CRLF)[3] = LF
<1> DEFINE t == <<x>>
<1>1. t \in Seq(Symbols) /\ Len(t) = 1 /\ t[1] = x
  OBVIOUS
<1> HIDE DEF t
<1>2. t \o CRLF \in Seq(Symbols) /\ Joins(t \o CRLF, t, CRLF)
  BY <1>1, LineEnds, Joined
<1>3. /\ Len(t \o CRLF) = 1 + 2 /\ (t \o CRLF)[1] = x
      /\ (t \o CRLF)[1 + 1] = CR /\ (t \o CRLF)[1 + 2] = LF
  BY <1>1, <1>2, LineEnds DEF Joins
<1> QED BY <1>2, <1>3 DEF t

\* The lines of the first n headers.
Lines(headers, n) == FlattenSeq([i \in 1..n |-> <<headers[i]>> \o CRLF])

AreLines(s, headers, n) ==
    /\ s \in Seq(Symbols) /\ Len(s) = 3 * n
    /\ \A i \in 1..n :
          s[3 * i - 2] = headers[i] /\ s[3 * i - 1] = CR /\ s[3 * i] = LF

\* No headers, no lines.
LEMMA NoLines ==
    ASSUME NEW headers
    PROVE  AreLines(Lines(headers, 0), headers, 0)
<1> DEFINE none == [i \in 1..0 |-> <<headers[i]>> \o CRLF]
<1>1. none = <<>>
  OBVIOUS
<1>2. FlattenSeq(none) = none
  BY <1>1 DEF FlattenSeq
<1>3. Lines(headers, 0) = <<>>
  BY <1>1, <1>2 DEF Lines
<1>4. AreLines(<<>>, headers, 0)
  BY DEF AreLines
<1> QED BY <1>3, <1>4

\* Lines of one header more.
LEMMA OneLineMore ==
    ASSUME NEW headers \in Seq(Symbols), NEW m \in Nat, m + 1 <= Len(headers),
           AreLines(Lines(headers, m), headers, m)
    PROVE  AreLines(Lines(headers, m + 1), headers, m + 1)
<1> DEFINE n1 == m + 1
           s == [i \in 1..n1 |-> <<headers[i]>> \o CRLF]
           t == [i \in 1..m |-> <<headers[i]>> \o CRLF]
           line == <<headers[n1]>> \o CRLF
           a == Lines(headers, m)
           b == Lines(headers, n1)
<1>1. n1 = m + 1 /\ n1 \in Nat /\ 3 * m \in Nat /\ n1 \in 1..n1
  OBVIOUS
<1>2. \A i \in 1..n1 : headers[i] \in Symbols
  OBVIOUS
<1>3. Len(s) = n1 /\ Len(t) = m /\ s[n1] = line
  OBVIOUS
<1>4. ASSUME NEW i \in 1..m PROVE s[i] = t[i]
  OBVIOUS
<1>5. /\ line \in Seq(Symbols) /\ Len(line) = 3
      /\ line[1] = headers[n1] /\ line[2] = CR /\ line[3] = LF
  BY <1>1, <1>2, OneLine
<1>6. FlattenSeq(s) = b /\ FlattenSeq(t) = a
  BY DEF Lines
<1>7. AreLines(a, headers, m)
  OBVIOUS
<1> HIDE DEF s, t, line, a, b, n1
<1>8. b = IF m = 0 THEN line ELSE a \o line
  <2>1. Len(s) = m + 1 /\ s[m + 1] = line
    BY <1>1, <1>3
  <2>2. FlattenSeq(s) = IF m = 0 THEN s[1] ELSE FlattenSeq(t) \o s[m + 1]
    BY <1>3, <1>4, <2>1, FlattenAppend
  <2>3. m = 0 => s[1] = line
    BY <2>1
  <2> QED BY <1>6, <2>1, <2>2, <2>3
<1>9. a \in Seq(Symbols) /\ Len(a) = 3 * m
  BY <1>7 DEF AreLines
<1>10. b = a \o line
  <2>1. CASE m = 0
    <3>1. a = <<>>
      BY <1>9, <2>1
    <3> QED BY <1>5, <1>8, <2>1, <3>1
  <2> QED BY <1>8, <2>1
<1>11. b \in Seq(Symbols) /\ Joins(b, a, line)
  BY <1>5, <1>9, <1>10, Joined
<1>12. /\ Len(b) = 3 * m + 3
       /\ \A i \in 1..(3 * m) : b[i] = a[i]
       /\ b[3 * m + 1] = headers[n1] /\ b[3 * m + 2] = CR /\ b[3 * m + 3] = LF
  BY <1>5, <1>9, <1>11 DEF Joins
<1>13. ASSUME NEW i \in 1..n1
       PROVE  b[3 * i - 2] = headers[i] /\ b[3 * i - 1] = CR /\ b[3 * i] = LF
  <2>1. CASE i = n1
    <3>1. 3 * i - 2 = 3 * m + 1 /\ 3 * i - 1 = 3 * m + 2 /\ 3 * i = 3 * m + 3
      BY <1>1, <2>1
    <3> QED BY <1>12, <2>1, <3>1
  <2>2. CASE i # n1
    <3>1. /\ i \in 1..m /\ 3 * i - 2 \in 1..(3 * m) /\ 3 * i - 1 \in 1..(3 * m)
          /\ 3 * i \in 1..(3 * m)
      BY <1>1, <2>2
    <3> QED BY <1>7, <1>12, <3>1 DEF AreLines
  <2> QED BY <2>1, <2>2
<1>14. Len(b) = 3 * n1
  BY <1>1, <1>12
<1>15. AreLines(b, headers, n1)
  BY <1>11, <1>13, <1>14 DEF AreLines
<1> QED BY <1>15 DEF b, n1

\* The symbols of the first n header lines stand where AreLines says.
LEMMA LinesLayout ==
    ASSUME NEW headers \in Seq(Symbols), NEW n \in 0..Len(headers)
    PROVE  AreLines(Lines(headers, n), headers, n)
<1> DEFINE T == {m \in Nat : m <= Len(headers) =>
                                AreLines(Lines(headers, m), headers, m)}
<1>1. 0 \in T
  BY NoLines
<1>2. ASSUME NEW m \in T PROVE m + 1 \in T
  <2>1. m \in Nat /\ (m <= Len(headers) => AreLines(Lines(headers, m), headers, m))
    OBVIOUS
  <2>2. SUFFICES ASSUME m + 1 <= Len(headers)
                 PROVE  AreLines(Lines(headers, m + 1), headers, m + 1)
    BY <2>1
  <2>3. m <= Len(headers)
    BY <2>1, <2>2
  <2> QED BY <2>1, <2>2, <2>3, OneLineMore
<1>3. T \subseteq Nat
  OBVIOUS
<1> HIDE DEF T
<1>4. T = Nat
  BY <1>1, <1>2, <1>3, PQ!InductionOnNat
<1>5. n \in T /\ n <= Len(headers)
  BY <1>4
<1> QED BY <1>5 DEF T

\* s is m, symbol by symbol.
IsSerialized(s, m) ==
    /\ s \in Seq(Symbols)
    /\ Len(s) = BodyAt(m) + Len(m.body)
    /\ \A i \in 0..Len(m.headers) :
          s[3 * i + 1] = Text(m, i) /\ s[3 * i + 2] = CR /\ s[3 * i + 3] = LF
    /\ s[BodyAt(m) - 1] = CR /\ s[BodyAt(m)] = LF
    /\ \A i \in 1..Len(m.body) : s[BodyAt(m) + i] = m.body[i]

\* The parts of a message, and where its body begins.
LEMMA MessageType ==
    ASSUME NEW m \in Messages
    PROVE  /\ m.first_line \in Symbols
           /\ m.headers \in Seq(Symbols) /\ m.body \in Seq(Symbols)
           /\ BodyAt(m) \in Nat /\ BodyAt(m) >= 5
           /\ BodyAt(m) = 3 * Len(m.headers) + 5
  BY DEF Messages, BodyAt

\* Where the parts of a serialized message stand.
LEMMA SerializedLayout ==
    ASSUME NEW m \in Messages
    PROVE  IsSerialized(Serialized(m), m)
<1> DEFINE h == Len(m.headers)
           first == <<m.first_line>> \o CRLF
           lines == Lines(m.headers, h)
           a == first \o lines
           b == a \o CRLF
           c == b \o m.body
<1>1. m.first_line \in Symbols /\ m.headers \in Seq(Symbols)
      /\ m.body \in Seq(Symbols) /\ h \in Nat /\ h \in 0..Len(m.headers)
      /\ Len(m.body) \in Nat
  BY MessageType
<1>2. Serialized(m) = c
  <2>1. DOMAIN m.headers = 1..h
    BY <1>1
  <2> QED BY <2>1 DEF Serialized, Lines
<1>3. /\ first \in Seq(Symbols) /\ Len(first) = 3
      /\ first[1] = m.first_line /\ first[2] = CR /\ first[3] = LF
  BY <1>1, OneLine
<1>4. AreLines(lines, m.headers, h)
  BY <1>1, LinesLayout
<1>5. lines \in Seq(Symbols) /\ Len(lines) = 3 * h
  BY <1>4 DEF AreLines
<1> HIDE DEF first, lines, a, b, c, h
<1>6. a \in Seq(Symbols) /\ Joins(a, first, lines)
  BY <1>3, <1>5, Joined DEF a
<1>7. b \in Seq(Symbols) /\ Joins(b, a, CRLF)
  BY <1>6, LineEnds, Joined DEF b
<1>8. c \in Seq(Symbols) /\ Joins(c, b, m.body)
  BY <1>1, <1>7, Joined DEF c
<1>9. /\ Len(a) = 3 * h + 3
      /\ \A i \in 1..3 : a[i] = first[i]
      /\ \A i \in 1..(3 * h) : a[3 + i] = lines[i]
  BY <1>1, <1>3, <1>5, <1>6 DEF Joins
<1>10. /\ Len(b) = 3 * h + 5
       /\ \A i \in 1..(3 * h + 3) : b[i] = a[i]
       /\ b[3 * h + 4] = CR /\ b[3 * h + 5] = LF
  <2>1. /\ Len(b) = 3 * h + 3 + 2
        /\ \A i \in 1..(3 * h + 3) : b[i] = a[i]
        /\ b[3 * h + 3 + 1] = CR /\ b[3 * h + 3 + 2] = LF
    BY <1>1, <1>7, <1>9, LineEnds DEF Joins
  <2> QED BY <1>1, <2>1
<1>11. /\ Len(c) = BodyAt(m) + Len(m.body)
       /\ \A i \in 1..(3 * h + 5) : c[i] = b[i]
       /\ \A i \in 1..Len(m.body) : c[BodyAt(m) + i] = m.body[i]
  BY <1>1, <1>8, <1>10 DEF Joins, BodyAt, h
<1>12. ASSUME NEW i \in 0..h
       PROVE  c[3 * i + 1] = Text(m, i) /\ c[3 * i + 2] = CR /\ c[3 * i + 3] = LF
  <2>1. /\ 3 * i + 1 \in 1..(3 * h + 3) /\ 3 * i + 2 \in 1..(3 * h + 3)
        /\ 3 * i + 3 \in 1..(3 * h + 3)
        /\ \A j \in 1..(3 * h + 3) : c[j] = a[j]
    BY <1>1, <1>10, <1>11
  <2>2. CASE i = 0
    <3>1. 3 * i + 1 = 1 /\ 3 * i + 2 = 2 /\ 3 * i + 3 = 3
      BY <2>2
    <3> QED BY <1>3, <1>9, <2>1, <2>2, <3>1 DEF Text
  <2>3. CASE i # 0
    <3> DEFINE u == 3 * i - 2
               v == 3 * i - 1
               w == 3 * i
    <3>1. /\ i \in 1..h
          /\ u \in 1..(3 * h) /\ v \in 1..(3 * h) /\ w \in 1..(3 * h)
          /\ 3 * i + 1 = 3 + u /\ 3 * i + 2 = 3 + v /\ 3 * i + 3 = 3 + w
      BY <1>1, <2>3
    <3>2. lines[u] = m.headers[i] /\ lines[v] = CR /\ lines[w] = LF
      BY <1>4, <3>1 DEF AreLines
    <3> HIDE DEF u, v, w
    <3>3. a[3 + u] = lines[u] /\ a[3 + v] = lines[v] /\ a[3 + w] = lines[w]
      BY <1>9, <3>1
    <3> QED BY <2>1, <2>3, <3>1, <3>2, <3>3 DEF Text
  <2> QED BY <2>2, <2>3
<1>13. c[BodyAt(m) - 1] = CR /\ c[BodyAt(m)] = LF
  <2>1. BodyAt(m) - 1 = 3 * h + 4 /\ BodyAt(m) = 3 * h + 5
    BY <1>1 DEF BodyAt, h
  <2>2. 3 * h + 4 \in 1..(3 * h + 5) /\ 3 * h + 5 \in 1..(3 * h + 5)
    BY <1>1
  <2> QED BY <1>10, <1>11, <2>1, <2>2
<1>14. IsSerialized(c, m)
  BY <1>8, <1>11, <1>12, <1>13 DEF IsSerialized, h
<1> QED BY <1>2, <1>14

\* The stream of the first n messages, and where the next one begins.
First(all, n) == Stream([k \in 1..n |-> all[k]])
End(all, n) == Len(First(all, n))

\* The stream of no messages is empty.
LEMMA FirstNone ==
    ASSUME NEW all
    PROVE  First(all, 0) = <<>> /\ End(all, 0) = 0
<1> DEFINE none == [k \in 1..0 |-> all[k]]
           flat == [k \in DOMAIN none |-> Serialized(none[k])]
<1>1. flat = <<>>
  OBVIOUS
<1>2. FlattenSeq(flat) = flat
  BY <1>1 DEF FlattenSeq
<1>3. First(all, 0) = <<>>
  BY <1>1, <1>2 DEF First, Stream
<1> QED BY <1>3 DEF End

\* One message more adds its serialization at the end of the stream.
LEMMA FirstMore ==
    ASSUME NEW all, NEW n \in Nat, First(all, n) \in Seq(Symbols),
           all[n + 1] \in Messages
    PROVE  First(all, n + 1) = First(all, n) \o Serialized(all[n + 1])
<1> DEFINE n1 == n + 1
           s == [k \in 1..n1 |-> Serialized(all[k])]
           t == [k \in 1..n |-> Serialized(all[k])]
<1>1. FlattenSeq(s) = First(all, n + 1)
  <2> DEFINE part == [k \in 1..n1 |-> all[k]]
  <2>1. [k \in DOMAIN part |-> Serialized(part[k])] = s
    OBVIOUS
  <2> QED BY <2>1 DEF First, Stream
<1>2. FlattenSeq(t) = First(all, n)
  <2> DEFINE part == [k \in 1..n |-> all[k]]
  <2>1. [k \in DOMAIN part |-> Serialized(part[k])] = t
    OBVIOUS
  <2> QED BY <2>1 DEF First, Stream
<1>3. /\ Len(s) = n + 1 /\ Len(t) = n /\ s[n + 1] = Serialized(all[n + 1])
      /\ \A k \in 1..n : s[k] = t[k]
  OBVIOUS
<1> HIDE DEF s, t
<1>4. FlattenSeq(s) = IF n = 0 THEN s[1] ELSE FlattenSeq(t) \o s[n + 1]
  BY <1>3, FlattenAppend
<1>5. CASE n = 0
  <2>1. First(all, n) = <<>>
    BY <1>5, FirstNone
  <2>2. Serialized(all[n + 1]) \in Seq(Symbols)
    BY SerializedLayout DEF IsSerialized
  <2>3. First(all, n + 1) = Serialized(all[n + 1])
    BY <1>1, <1>3, <1>4, <1>5
  <2> QED BY <2>1, <2>2, <2>3
<1>6. CASE n # 0
  BY <1>1, <1>2, <1>3, <1>4, <1>6
<1> QED BY <1>5, <1>6

\* The first n messages as a stream of symbols.
LEMMA StreamType ==
    ASSUME NEW all \in Seq(Messages), NEW n \in 0..Len(all)
    PROVE  First(all, n) \in Seq(Symbols) /\ End(all, n) \in Nat
<1> DEFINE T == {m \in Nat : m <= Len(all) => First(all, m) \in Seq(Symbols)}
<1>1. 0 \in T
  <2>1. First(all, 0) = <<>> /\ <<>> \in Seq(Symbols)
    BY FirstNone
  <2> QED BY <2>1
<1>2. ASSUME NEW m \in T PROVE m + 1 \in T
  <2>1. m \in Nat /\ (m <= Len(all) => First(all, m) \in Seq(Symbols))
    OBVIOUS
  <2>2. SUFFICES ASSUME m + 1 <= Len(all)
                 PROVE  First(all, m + 1) \in Seq(Symbols)
    BY <2>1
  <2>3. First(all, m) \in Seq(Symbols) /\ m + 1 \in 1..Len(all)
    BY <2>1, <2>2
  <2>4. all[m + 1] \in Messages
    BY <2>3
  <2>5. Serialized(all[m + 1]) \in Seq(Symbols)
    BY <2>4, SerializedLayout DEF IsSerialized
  <2>6. First(all, m) \o Serialized(all[m + 1]) \in Seq(Symbols)
    BY <2>3, <2>5
  <2> QED BY <2>1, <2>3, <2>4, <2>6, FirstMore
<1>3. T \subseteq Nat
  OBVIOUS
<1> HIDE DEF T
<1>4. T = Nat
  BY <1>1, <1>2, <1>3, PQ!InductionOnNat
<1>5. n \in T /\ n <= Len(all)
  BY <1>4
<1>6. First(all, n) \in Seq(Symbols)
  BY <1>5 DEF T
<1> QED BY <1>6 DEF End

\* One message more.
LEMMA StreamStep ==
    ASSUME NEW all \in Seq(Messages), NEW n \in 0..(Len(all) - 1)
    PROVE  /\ all[n + 1] \in Messages
           /\ Joins(First(all, n + 1), First(all, n), Serialized(all[n + 1]))
<1>1. n \in 0..Len(all) /\ n + 1 \in 1..Len(all) /\ n \in Nat
  OBVIOUS
<1>2. all[n + 1] \in Messages /\ First(all, n) \in Seq(Symbols)
  BY <1>1, StreamType
<1>3. Serialized(all[n + 1]) \in Seq(Symbols)
  BY <1>2, SerializedLayout DEF IsSerialized
<1>4. First(all, n + 1) = First(all, n) \o Serialized(all[n + 1])
  BY <1>1, <1>2, FirstMore
<1>5. Joins(First(all, n) \o Serialized(all[n + 1]),
            First(all, n), Serialized(all[n + 1]))
  BY <1>2, <1>3, Joined
<1> QED BY <1>2, <1>4, <1>5

\* The stream of fewer messages is the beginning of that of more.
Begins(s, t) == Len(s) <= Len(t) /\ \A i \in 1..Len(s) : t[i] = s[i]

\* The stream of fewer messages is a beginning of the stream of more.
LEMMA StreamBegins ==
    ASSUME NEW all \in Seq(Messages), NEW n \in 0..Len(all), NEW m \in n..Len(all)
    PROVE  Begins(First(all, n), First(all, m))
<1> DEFINE T == {j \in Nat : j \in n..Len(all) => Begins(First(all, n), First(all, j))}
<1>1. 0 \in T
  <2>1. n = 0 => Begins(First(all, n), First(all, 0))
    BY StreamType DEF Begins
  <2> QED BY <2>1
<1>2. ASSUME NEW j \in T PROVE j + 1 \in T
  <2>1. j \in Nat /\ (j \in n..Len(all) => Begins(First(all, n), First(all, j)))
    OBVIOUS
  <2>2. SUFFICES ASSUME j + 1 \in n..Len(all)
                 PROVE  Begins(First(all, n), First(all, j + 1))
    BY <2>1
  <2>3. CASE n = j + 1
    <3>1. Len(First(all, n)) \in Nat
      BY StreamType DEF End
    <3> QED BY <2>3, <3>1 DEF Begins
  <2>4. CASE n # j + 1
    <3>1. j \in n..Len(all) /\ j \in 0..(Len(all) - 1) /\ j \in 0..Len(all)
      BY <2>1, <2>2, <2>4
    <3> DEFINE a == First(all, n)
               b == First(all, j)
               c == First(all, j + 1)
               x == Serialized(all[j + 1])
    <3>2. Begins(a, b)
      BY <2>1, <3>1
    <3>3. Joins(c, b, x) /\ all[j + 1] \in Messages
      BY <3>1, StreamStep
    <3>4. Len(x) \in Nat
      BY <3>3, SerializedLayout DEF IsSerialized
    <3>5. Len(a) \in Nat /\ Len(b) \in Nat
      BY <3>1, StreamType DEF End
    <3> HIDE DEF a, b, c, x
    <3>6. Begins(a, c)
      BY <3>2, <3>3, <3>4, <3>5 DEF Begins, Joins
    <3> QED BY <3>6 DEF a, c
  <2> QED BY <2>3, <2>4
<1>3. T \subseteq Nat
  OBVIOUS
<1> HIDE DEF T
<1>4. T = Nat
  BY <1>1, <1>2, <1>3, PQ!InductionOnNat
<1>5. m \in T
  BY <1>4
<1> QED BY <1>5 DEF T

\* The symbols of s that follow its first b ones are those of m.
HoldsAt(s, b, m) ==
    /\ b + BodyAt(m) + Len(m.body) <= Len(s)
    /\ \A i \in 0..Len(m.headers) :
          /\ s[b + 3 * i + 1] = Text(m, i)
          /\ s[b + 3 * i + 2] = CR /\ s[b + 3 * i + 3] = LF
    /\ s[b + BodyAt(m) - 1] = CR /\ s[b + BodyAt(m)] = LF
    /\ \A i \in 1..Len(m.body) : s[b + BodyAt(m) + i] = m.body[i]

\* Each message stands in the stream of all where the last one ended.
LEMMA StreamLayout ==
    ASSUME NEW all \in Seq(Messages), NEW k \in 1..Len(all)
    PROVE  /\ all[k] \in Messages
           /\ End(all, k - 1) \in Nat
           /\ End(all, k) = End(all, k - 1) + BodyAt(all[k]) + Len(all[k].body)
           /\ End(all, k) <= End(all, Len(all))
           /\ HoldsAt(First(all, Len(all)), End(all, k - 1), all[k])
<1> DEFINE n == k - 1
           b == End(all, n)
           m == all[k]
           s == Serialized(m)
           part == First(all, k)
           full == First(all, Len(all))
           h == Len(m.headers)
           body == BodyAt(m)
           l == Len(m.body)
<1>1. /\ n \in 0..(Len(all) - 1) /\ n \in 0..Len(all) /\ n + 1 = k
      /\ k \in 0..Len(all) /\ Len(all) \in k..Len(all) /\ Len(all) \in 0..Len(all)
  OBVIOUS
<1>2. m \in Messages /\ Joins(part, First(all, n), s)
  BY <1>1, StreamStep
<1>3. IsSerialized(s, m)
  BY <1>2, SerializedLayout
<1>4. Begins(part, full)
  BY <1>1, StreamBegins
<1>5. b \in Nat /\ End(all, k) \in Nat /\ End(all, Len(all)) \in Nat
  BY <1>1, StreamType
<1>6. Len(First(all, n)) = b /\ Len(part) = End(all, k)
      /\ Len(full) = End(all, Len(all))
  BY DEF End
<1>7. /\ h \in Nat /\ body \in Nat /\ body = 3 * h + 5 /\ l \in Nat
  BY <1>2, MessageType
<1> HIDE DEF n, b, m, s, part, full, h, body, l
<1>8. Len(s) = body + l
  BY <1>3 DEF IsSerialized, body, l
<1>9. /\ Len(part) = b + body + l
      /\ Len(part) <= Len(full)
  BY <1>2, <1>4, <1>5, <1>6, <1>7, <1>8 DEF Joins, Begins
<1>10. ASSUME NEW i \in 1..(body + l)
       PROVE  full[b + i] = s[i]
  <2>1. i \in 1..Len(s) /\ b + i \in 1..Len(part)
    BY <1>5, <1>7, <1>8, <1>9
  <2>2. part[b + i] = s[i]
    BY <1>2, <1>6, <2>1 DEF Joins
  <2> QED BY <1>4, <2>1, <2>2 DEF Begins
<1>11. ASSUME NEW i \in 0..h
       PROVE  /\ full[b + 3 * i + 1] = Text(m, i)
              /\ full[b + 3 * i + 2] = CR /\ full[b + 3 * i + 3] = LF
  <2> DEFINE u == 3 * i + 1
             v == 3 * i + 2
             w == 3 * i + 3
  <2>1. s[u] = Text(m, i) /\ s[v] = CR /\ s[w] = LF
    BY <1>3 DEF IsSerialized, h
  <2>2. /\ u \in 1..(body + l) /\ v \in 1..(body + l)
        /\ w \in 1..(body + l)
        /\ b + 3 * i + 1 = b + u /\ b + 3 * i + 2 = b + v
        /\ b + 3 * i + 3 = b + w
    BY <1>5, <1>7
  <2> HIDE DEF u, v, w
  <2> QED BY <1>10, <2>1, <2>2
<1>12. full[b + body - 1] = CR /\ full[b + body] = LF
  <2>1. s[body - 1] = CR /\ s[body] = LF
    BY <1>3 DEF IsSerialized, body, l
  <2>2. body - 1 \in 1..(body + l) /\ body \in 1..(body + l)
        /\ b + body - 1 = b + (body - 1)
    BY <1>5, <1>7
  <2> QED BY <1>10, <2>1, <2>2
<1>13. ASSUME NEW i \in 1..l PROVE full[b + body + i] = m.body[i]
  <2>1. s[body + i] = m.body[i]
    BY <1>3 DEF IsSerialized, body, l
  <2>2. body + i \in 1..(body + l) /\ b + body + i = b + (body + i)
    BY <1>5, <1>7
  <2> QED BY <1>10, <2>1, <2>2
<1>14. HoldsAt(full, b, m)
  BY <1>9, <1>11, <1>12, <1>13 DEF HoldsAt, h, body, l
<1> QED BY <1>2, <1>5, <1>6, <1>9, <1>14 DEF n, b, m, full, body, l

\* Messages end one after the other.
LEMMA EndsIncrease ==
    ASSUME NEW all \in Seq(Messages), NEW n \in 0..Len(all), NEW m \in 0..Len(all)
    PROVE  /\ n <= m => End(all, n) <= End(all, m)
           /\ n < m => End(all, n) < End(all, m)
           /\ End(all, n) < End(all, m) => n < m
<1>1. ASSUME NEW i \in 0..Len(all), NEW j \in 0..Len(all), i <= j
      PROVE  End(all, i) <= End(all, j)
  <2>1. j \in i..Len(all)
    BY <1>1
  <2> QED BY <2>1, StreamBegins DEF Begins, End
<1>2. ASSUME NEW i \in 0..Len(all), NEW j \in 0..Len(all), i < j
      PROVE  End(all, i) < End(all, j)
  <2> DEFINE k == i + 1
  <2>1. k \in 1..Len(all) /\ k \in 0..Len(all) /\ k - 1 = i /\ k <= j
    BY <1>2
  <2> HIDE DEF k
  <2>2. End(all, k) <= End(all, j)
    BY <1>1, <2>1
  <2>3. /\ End(all, i) \in Nat
        /\ End(all, k) = End(all, i) + BodyAt(all[k]) + Len(all[k].body)
        /\ all[k] \in Messages
    BY <2>1, StreamLayout
  <2>4. BodyAt(all[k]) \in Nat /\ BodyAt(all[k]) >= 5 /\ Len(all[k].body) \in Nat
    BY <2>3, MessageType
  <2>5. End(all, k) \in Nat /\ End(all, j) \in Nat
    BY <2>1, StreamType
  <2> QED BY <2>2, <2>3, <2>4, <2>5
<1>3. End(all, n) \in Nat /\ End(all, m) \in Nat
  BY StreamType
<1> QED BY <1>1, <1>2, <1>3
-----------------------------------------------------------------------------
(* string::find                                                            *)

OccursAt(s, i, needle) == SubSeq(s, i, i + Len(needle) - 1) = needle

\* A needle occurs where its symbols stand.
LEMMA Occurs ==
    ASSUME NEW s \in Seq(Symbols), NEW needle \in Seq(Symbols),
           NEW i \in 1..(Len(s) - Len(needle) + 1)
    PROVE  OccursAt(s, i, needle) <=>
               \A j \in 1..Len(needle) : s[i + j - 1] = needle[j]
<1> DEFINE n == Len(needle)
           u == SubSeq(s, i, i + n - 1)
<1>1. n \in Nat /\ i \in Nat /\ Len(s) \in Nat /\ i + n - 1 <= Len(s) /\ i >= 1
  OBVIOUS
<1>2. u \in Seq(Symbols) /\ Len(u) = n /\ \A j \in 1..n : u[j] = s[i + j - 1]
  <2>1. (i + n - 1) - i + 1 = n
    BY <1>1
  <2> QED BY <1>1, <2>1
<1> HIDE DEF u
<1>3. (u = needle) <=> \A j \in 1..n : u[j] = needle[j]
  BY <1>2, SameSeq
<1> QED BY <1>2, <1>3 DEF OccursAt, u

\* The first of the places where needle stands.
LEMMA FindFirst ==
    ASSUME NEW s \in Seq(Symbols), NEW needle \in Seq(Symbols),
           NEW i \in 1..(Len(s) - Len(needle) + 1), OccursAt(s, i, needle),
           \A j \in 1..(i - 1) : ~OccursAt(s, j, needle)
    PROVE  Find(s, needle) = i
<1> DEFINE found == {j \in 1..(Len(s) - Len(needle) + 1) : OccursAt(s, j, needle)}
<1>1. Find(s, needle) = IF found = {} THEN 0 ELSE Min(found)
  BY DEF Find, OccursAt
<1>2. i \in found
  OBVIOUS
<1>3. ASSUME NEW j \in found PROVE i <= j
  <2>1. j \in 1..(Len(s) - Len(needle) + 1) /\ j \notin 1..(i - 1)
    OBVIOUS
  <2> QED BY <2>1
<1>4. \A x \in found : (\A y \in found : x <= y) => x = i
  <2>1. found \subseteq Int
    OBVIOUS
  <2> QED BY <1>2, <1>3, <2>1
<1>5. Min(found) = i
  BY <1>2, <1>3, <1>4 DEF Min
<1> QED BY <1>1, <1>2, <1>5

\* find() returns npos when the needle occurs nowhere.
LEMMA FindNone ==
    ASSUME NEW s, NEW needle,
           \A j \in 1..(Len(s) - Len(needle) + 1) : ~OccursAt(s, j, needle)
    PROVE  Find(s, needle) = 0
  BY DEF Find, OccursAt

\* A CRLF occurs where CR and LF stand side by side.
LEMMA CRLFOccurs ==
    ASSUME NEW s \in Seq(Symbols), NEW i \in 1..(Len(s) - 1)
    PROVE  OccursAt(s, i, CRLF) <=> s[i] = CR /\ s[i + 1] = LF
<1>1. /\ i \in 1..(Len(s) - Len(CRLF) + 1) /\ i + 1 - 1 = i
      /\ i + 2 - 1 = i + 1 /\ 1..2 = {1, 2}
  BY LineEnds
<1>2. OccursAt(s, i, CRLF) <=> \A j \in 1..2 : s[i + j - 1] = CRLF[j]
  BY <1>1, LineEnds, Occurs
<1>3. (\A j \in 1..2 : s[i + j - 1] = CRLF[j]) <=>
          s[i + 1 - 1] = CRLF[1] /\ s[i + 2 - 1] = CRLF[2]
  BY <1>1
<1> QED BY <1>1, <1>2, <1>3, LineEnds

\* A line with a text: its end is found when all of it is there, and not before.
LEMMA FindText ==
    ASSUME NEW s \in Seq(Symbols),
           Len(s) >= 2 => s[2] = CR, Len(s) >= 3 => s[3] = LF
    PROVE  Find(s, CRLF) = IF Len(s) >= 3 THEN 2 ELSE 0
<1>1. Len(s) \in Nat /\ Len(CRLF) = 2 /\ CRLF \in Seq(Symbols) /\ CR # LF
  BY LineEnds
<1>2. Len(s) >= 2 => ~OccursAt(s, 1, CRLF)
  <2>1. Len(s) >= 2 => 1 \in 1..(Len(s) - 1) /\ 1 + 1 = 2
    BY <1>1
  <2> QED BY <1>1, <2>1, CRLFOccurs
<1>3. CASE Len(s) >= 3
  <2>1. 2 \in 1..(Len(s) - 1) /\ 2 + 1 = 3 /\ 2 \in 1..(Len(s) - Len(CRLF) + 1)
        /\ 1..(2 - 1) = {1}
    BY <1>1, <1>3
  <2>2. OccursAt(s, 2, CRLF)
    BY <1>3, <2>1, CRLFOccurs
  <2>3. \A j \in 1..(2 - 1) : ~OccursAt(s, j, CRLF)
    BY <1>1, <1>2, <1>3, <2>1
  <2>4. Find(s, CRLF) = 2
    BY <1>1, <2>1, <2>2, <2>3, FindFirst
  <2> QED BY <1>3, <2>4
<1>4. CASE ~(Len(s) >= 3)
  <2>1. \A j \in 1..(Len(s) - Len(CRLF) + 1) : j = 1 /\ Len(s) >= 2
    BY <1>1, <1>4
  <2>2. Find(s, CRLF) = 0
    BY <1>2, <2>1, FindNone
  <2> QED BY <1>4, <2>2
<1> QED BY <1>3, <1>4

\* A blank line.
LEMMA FindBlank ==
    ASSUME NEW s \in Seq(Symbols),
           Len(s) >= 1 => s[1] = CR, Len(s) >= 2 => s[2] = LF
    PROVE  Find(s, CRLF) = IF Len(s) >= 2 THEN 1 ELSE 0
<1>1. Len(s) \in Nat /\ Len(CRLF) = 2 /\ CRLF \in Seq(Symbols) /\ CR # LF
  BY LineEnds
<1>2. CASE Len(s) >= 2
  <2>1. 1 \in 1..(Len(s) - 1) /\ 1 + 1 = 2 /\ 1 \in 1..(Len(s) - Len(CRLF) + 1)
        /\ 1..(1 - 1) = {}
    BY <1>1, <1>2
  <2>2. OccursAt(s, 1, CRLF)
    BY <1>1, <1>2, <2>1, CRLFOccurs
  <2>3. Find(s, CRLF) = 1
    BY <1>1, <2>1, <2>2, FindFirst
  <2> QED BY <1>2, <2>3
<1>3. CASE ~(Len(s) >= 2)
  <2>1. 1..(Len(s) - Len(CRLF) + 1) = {}
    BY <1>1, <1>3
  <2>2. Find(s, CRLF) = 0
    BY <2>1, FindNone
  <2> QED BY <1>3, <2>2
<1> QED BY <1>2, <1>3

\* The end of a body that stands at the end of u, and nowhere before, is found
\* in t, which may be a part of u or go on after it, when all of u is there.
LEMMA FindEnd ==
    ASSUME NEW u \in Seq(Symbols), NEW end \in Seq(Symbols), Len(end) > 0,
           EndsAtLast(u, end), NEW t \in Seq(Symbols),
           \A i \in 1..Len(u) : i <= Len(t) => t[i] = u[i]
    PROVE  Find(t, end) = IF Len(t) >= Len(u) THEN Len(u) - Len(end) + 1 ELSE 0
<1> DEFINE n == Len(end)
           m == Len(u)
           l == Len(t)
<1>1. n \in Nat /\ n > 0 /\ m \in Nat /\ l \in Nat /\ m >= n
  BY DEF EndsAtLast
<1>2. ASSUME NEW i \in 1..(m - n + 1)
      PROVE  OccursAt(u, i, end) <=> i = m - n + 1
  <2> DEFINE j == i - 1
  <2>1. j \in 0..(m - n) /\ j + 1 = i /\ j + n = i + n - 1
        /\ (j = m - n <=> i = m - n + 1)
    BY <1>1
  <2>2. SubSeq(u, j + 1, j + n) = end <=> j = m - n
    BY <2>1 DEF EndsAtLast
  <2> QED BY <2>1, <2>2 DEF OccursAt
<1>3. ASSUME NEW i \in 1..(m - n + 1), i + n - 1 <= l
      PROVE  OccursAt(t, i, end) <=> OccursAt(u, i, end)
  <2>1. i \in 1..(Len(u) - Len(end) + 1) /\ i \in 1..(Len(t) - Len(end) + 1)
    BY <1>1, <1>3
  <2>2. \A j \in 1..n : t[i + j - 1] = u[i + j - 1]
    BY <1>1, <1>3
  <2>3. OccursAt(t, i, end) <=> \A j \in 1..n : t[i + j - 1] = end[j]
    BY <2>1, Occurs
  <2>4. OccursAt(u, i, end) <=> \A j \in 1..n : u[i + j - 1] = end[j]
    BY <2>1, Occurs
  <2> QED BY <2>2, <2>3, <2>4
<1> HIDE DEF n, m, l
<1>4. CASE l >= m
  <2> DEFINE i == m - n + 1
  <2>1. i \in 1..(m - n + 1) /\ i + n - 1 <= l /\ i \in 1..(l - n + 1)
    BY <1>1, <1>4
  <2>2. OccursAt(t, i, end)
    BY <1>2, <1>3, <2>1
  <2>3. ASSUME NEW j \in 1..(i - 1) PROVE ~OccursAt(t, j, end)
    <3>1. j \in 1..(m - n + 1) /\ j + n - 1 <= l /\ j # m - n + 1
      BY <1>1, <1>4
    <3> QED BY <1>2, <1>3, <3>1
  <2> HIDE DEF i
  <2>4. Find(t, end) = i
    BY <2>1, <2>2, <2>3, FindFirst DEF n, l
  <2> QED BY <1>4, <2>4 DEF i, n, m, l
<1>5. CASE ~(l >= m)
  <2>1. ASSUME NEW j \in 1..(l - n + 1) PROVE ~OccursAt(t, j, end)
    <3>1. j \in 1..(m - n + 1) /\ j + n - 1 <= l /\ j # m - n + 1
      BY <1>1, <1>5
    <3> QED BY <1>2, <1>3, <3>1
  <2>2. Find(t, end) = 0
    BY <2>1, FindNone DEF n, l
  <2> QED BY <1>5, <2>2 DEF n, m, l
<1> QED BY <1>4, <1>5
-----------------------------------------------------------------------------
(* The parser of a body in chunks                                          *)

ChunkParsers ==
    [buffer : Seq(Symbols), state : {"CHUNK_HDR", "CHUNK", "TRAILER", "RULE5"},
     size : Int, acked : Nat, parsed : Nat, trailers : BOOLEAN, complete : Int]

EndOf(trailers) == IF trailers THEN CRLF \o CRLF ELSE CRLF

\* starts are the offsets of the sizes of the chunks of s.
AreStarts(s, trailers, starts) ==
    /\ 0 \in starts /\ starts \subseteq Nat
    /\ \A i \in starts :
          /\ i + 3 <= Len(s) /\ s[i + 2] = CR /\ s[i + 3] = LF
          /\ s[i + 1][1] = "size" /\ s[i + 1][2] \in Nat
          /\ s[i + 1][2] + 2 < UInt32Range
          /\ s[i + 1][2] = 0 =>
                EndsAtLast(DropFirst(s, i + 3), EndOf(trailers))
          /\ s[i + 1][2] # 0 =>
                LET next == i + 3 + s[i + 1][2] + 2 IN
                next \in starts /\ s[next - 1] = CR /\ s[next] = LF

\* The first symbols of t are those of s, as far as there are any.
Follows(t, s) == \A i \in 1..Len(s) : i <= Len(t) => t[i] = s[i]

\* c stands between two parts of the body.
AtPart(c, s, starts) ==
    \/ c.state = "CHUNK_HDR" /\ c.parsed \in starts
    \/ /\ c.state = "CHUNK" /\ c.parsed - 3 \in starts
       /\ c.size = s[c.parsed - 2][2] /\ c.size # 0
    \/ /\ c.state = "TRAILER" /\ c.parsed - 3 \in starts
       /\ s[c.parsed - 2][2] = 0

\* c has been given the symbols t, of which it had acknowledged q before, and is
\* reading them.
ReadingChunks(c, s, trailers, starts, t, q) ==
    /\ c \in ChunkParsers /\ c.trailers = trailers /\ c.acked = q
    /\ \/ /\ c.complete = -1 /\ AtPart(c, s, starts)
          /\ c.parsed <= Len(s) /\ c.parsed <= Len(t)
          /\ c.buffer = DropFirst(t, c.parsed)
       \/ /\ c.state = "TRAILER" /\ c.complete = Len(s) - q
          /\ Len(s) <= Len(t)

\* c has read the first q symbols of s and waits for more.
WaitingForChunks(c, s, trailers, starts, q) ==
    /\ c \in ChunkParsers /\ c.trailers = trailers /\ c.acked = q
    /\ c.complete = -1 /\ AtPart(c, s, starts) /\ q < Len(s)
    /\ c.parsed <= q /\ c.buffer = SubSeq(s, c.parsed + 1, q)

\* The element of a set with one element.
LEMMA TheOne == ASSUME NEW x PROVE The({x}) = x
  BY DEF The

\* What ends the last chunk is a sequence of symbols, and not empty.
LEMMA EndOfProperties ==
    ASSUME NEW trailers \in BOOLEAN
    PROVE  /\ EndOf(trailers) \in Seq(Symbols)
           /\ Len(EndOf(trailers)) > 0 /\ Len(EndOf(trailers)) \in Nat
<1>1. CRLF \o CRLF \in Seq(Symbols) /\ Joins(CRLF \o CRLF, CRLF, CRLF)
  BY LineEnds, Joined
<1>2. Len(CRLF \o CRLF) = 4
  BY <1>1, LineEnds DEF Joins
<1> QED BY <1>1, <1>2, LineEnds DEF EndOf

\* Dropping n symbols, then m, drops n + m.
LEMMA DropTwice ==
    ASSUME NEW t \in Seq(Symbols), NEW n \in 0..Len(t), NEW m \in 0..(Len(t) - n)
    PROVE  DropFirst(DropFirst(t, n), m) = DropFirst(t, n + m)
<1> DEFINE u == DropFirst(t, n)
           v == DropFirst(u, m)
           w == DropFirst(t, n + m)
<1>1. u \in Seq(Symbols) /\ Len(u) = Len(t) - n
      /\ \A i \in 1..(Len(t) - n) : u[i] = t[n + i]
  BY DropFirstProperties
<1>2. m \in 0..Len(u) /\ n + m \in 0..Len(t) /\ Len(t) \in Nat
  BY <1>1
<1> HIDE DEF u
<1>3. v \in Seq(Symbols) /\ Len(v) = Len(u) - m
      /\ \A i \in 1..(Len(u) - m) : v[i] = u[m + i]
  BY <1>1, <1>2, DropFirstProperties
<1>4. w \in Seq(Symbols) /\ Len(w) = Len(t) - (n + m)
      /\ \A i \in 1..(Len(t) - (n + m)) : w[i] = t[n + m + i]
  BY <1>2, DropFirstProperties
<1> HIDE DEF v, w
<1>5. Len(v) = Len(w)
  BY <1>1, <1>2, <1>3, <1>4
<1>6. ASSUME NEW i \in 1..Len(v) PROVE v[i] = w[i]
  <2>1. i \in 1..(Len(u) - m) /\ m + i \in 1..(Len(t) - n)
        /\ i \in 1..(Len(t) - (n + m)) /\ n + (m + i) = n + m + i
    BY <1>1, <1>2, <1>3
  <2> QED BY <1>1, <1>3, <1>4, <2>1
<1>7. v = w
  BY <1>3, <1>4, <1>5, <1>6, SameSeq
<1> QED BY <1>7 DEF u, v, w

\* A number below the modulus is its own remainder.
LEMMA SmallRemainder ==
    ASSUME NEW a \in Nat, NEW m \in Nat \ {0}, a < m
    PROVE  a % m = a
  OBVIOUS

\* Two symbols are CRLF as a part of s, or one by one.
LEMMA LineEndAt ==
    ASSUME NEW s \in Seq(Symbols), NEW i \in Nat, i >= 1, i + 1 <= Len(s)
    PROVE  SubSeq(s, i, i + 1) = CRLF <=> s[i] = CR /\ s[i + 1] = LF
<1>1. i \in 1..(Len(s) - 1) /\ i + 2 - 1 = i + 1
  OBVIOUS
<1>2. OccursAt(s, i, CRLF) <=> SubSeq(s, i, i + 1) = CRLF
  BY <1>1, LineEnds DEF OccursAt
<1> QED BY <1>1, <1>2, CRLFOccurs

\* A body in chunks has starts.
LEMMA StartsOf ==
    ASSUME NEW s \in Seq(Symbols), NEW trailers \in BOOLEAN, IsChunked(s, trailers)
    PROVE  \E starts : AreStarts(s, trailers, starts)
<1>1. PICK starts \in SUBSET (0..Len(s)) :
        /\ 0 \in starts
        /\ \A i \in starts :
              /\ s[i + 1][1] = "size" /\ s[i + 1][2] + 2 < UInt32Range
              /\ i + 3 <= Len(s) /\ SubSeq(s, i + 2, i + 3) = CRLF
              /\ IF s[i + 1][2] = 0
                 THEN EndsAtLast(DropFirst(s, i + 3), EndOf(trailers))
                 ELSE /\ s[i + 1][2] \in Nat /\ i + 3 + s[i + 1][2] + 2 \in starts
                      /\ SubSeq(s, i + 3 + s[i + 1][2] + 1, i + 3 + s[i + 1][2] + 2) = CRLF
  BY DEF IsChunked, EndOf
<1>2. starts \subseteq Nat /\ Len(s) \in Nat
  OBVIOUS
<1>3. ASSUME NEW i \in starts PROVE s[i + 2] = CR /\ s[i + 3] = LF
  <2>1. i \in Nat /\ i + 3 <= Len(s) /\ SubSeq(s, i + 2, i + 3) = CRLF
    BY <1>1
  <2>2. i + 2 \in Nat /\ i + 2 >= 1 /\ i + 2 + 1 <= Len(s) /\ i + 2 + 1 = i + 3
    BY <1>2, <2>1
  <2>3. SubSeq(s, i + 2, i + 2 + 1) = CRLF
    BY <2>1, <2>2
  <2>4. s[i + 2] = CR /\ s[i + 2 + 1] = LF
    BY <2>2, <2>3, LineEndAt
  <2> QED BY <2>2, <2>4
<1>4. ASSUME NEW i \in starts, s[i + 1][2] # 0
      PROVE  LET next == i + 3 + s[i + 1][2] + 2 IN
             next \in starts /\ s[next - 1] = CR /\ s[next] = LF
  <2> DEFINE z == s[i + 1][2]
             j == i + 3 + z + 1
  <2>1. /\ z \in Nat /\ i + 3 + z + 2 \in starts /\ i \in Nat
        /\ SubSeq(s, i + 3 + z + 1, i + 3 + z + 2) = CRLF
    BY <1>1, <1>4
  <2>2. i + 3 + z + 2 + 3 <= Len(s)
    BY <1>1, <2>1
  <2> HIDE DEF z
  <2>3. j \in Nat /\ j >= 1 /\ j + 1 <= Len(s)
        /\ j + 1 = i + 3 + z + 2 /\ i + 3 + z + 2 - 1 = j
    BY <1>2, <2>1, <2>2
  <2>4. SubSeq(s, j, j + 1) = CRLF
    BY <2>1, <2>3
  <2> HIDE DEF j
  <2>5. s[j] = CR /\ s[j + 1] = LF
    BY <2>3, <2>4, LineEndAt
  <2> QED BY <2>1, <2>3, <2>5 DEF z
<1>5. ASSUME NEW i \in starts PROVE s[i + 1][2] \in Nat
  BY <1>1
<1>6. AreStarts(s, trailers, starts)
  BY <1>1, <1>2, <1>3, <1>4, <1>5 DEF AreStarts
<1> QED BY <1>6

ChunkFields(r, buffer, state, size, acked, parsed, trailers, complete) ==
    /\ r \in ChunkParsers
    /\ r.buffer = buffer /\ r.state = state /\ r.size = size /\ r.acked = acked
    /\ r.parsed = parsed /\ r.trailers = trailers /\ r.complete = complete

\* A round that has found a line with a size.
LEMMA SizeLine ==
    ASSUME NEW c \in ChunkParsers, c.state = "CHUNK_HDR", Find(c.buffer, CRLF) = 2,
           Len(c.buffer) >= 3, c.buffer[1][1] = "size", c.buffer[1][2] \in Nat,
           c.buffer[1][2] < UInt32Range
    PROVE  ChunkFields(ReadChunk(c), DropFirst(c.buffer, 3),
                       IF c.buffer[1][2] = 0 THEN "TRAILER" ELSE "CHUNK",
                       c.buffer[1][2], c.acked, c.parsed + 3, c.trailers,
                       c.complete)
<1> DEFINE u == DropFirst(c.buffer, 3)
           z == c.buffer[1][2]
           state == IF z = 0 THEN "TRAILER" ELSE "CHUNK"
<1>1. /\ c.buffer \in Seq(Symbols) /\ c.parsed \in Nat /\ c.acked \in Nat
      /\ c.trailers \in BOOLEAN /\ c.complete \in Int
  BY DEF ChunkParsers
<1>2. u \in Seq(Symbols)
  BY <1>1, DropFirstProperties
<1>3. z \in Nat /\ z % UInt32Range = z
  BY RangeAssumption, SmallRemainder
<1>4. ReadChunk(c) = [c EXCEPT !.parsed = c.parsed + 3, !.buffer = u,
                               !.size = z, !.state = state]
  <2>1. ReadChunk(c) = SizeLineRead(c, 2)
    BY DEF ReadChunk
  <2>2. SizeLineRead(c, 2) = [Consume(c, 3) EXCEPT
                                !.size = z % UInt32Range,
                                !.state = IF z % UInt32Range = 0 THEN "TRAILER"
                                          ELSE "CHUNK"]
    BY DEF SizeLineRead
  <2>3. ReadChunk(c) = [Consume(c, 3) EXCEPT !.size = z, !.state = state]
    <3> HIDE DEF z
    <3> QED BY <1>3, <2>1, <2>2
  <2> HIDE DEF z, state
  <2> QED BY <2>3 DEF Consume, u, ChunkParsers
<1> HIDE DEF u, z
<1>5. state \in {"CHUNK_HDR", "CHUNK", "TRAILER", "RULE5"} /\ c.parsed + 3 \in Nat
  BY <1>1
<1> HIDE DEF state
<1>7. z \in Int
  BY <1>3
<1>6. ChunkFields(ReadChunk(c), u, state, z, c.acked, c.parsed + 3, c.trailers,
                  c.complete)
  <2>1. c \in ChunkParsers
    OBVIOUS
  <2> QED BY ONLY <1>1, <1>2, <1>4, <1>5, <1>7, <2>1 DEF ChunkFields, ChunkParsers
<1> QED BY <1>6 DEF u, state, z

\* A round that has found a chunk, and the line end after it.
LEMMA WholeChunk ==
    ASSUME NEW c \in ChunkParsers, c.state = "CHUNK", c.size \in Nat,
           Len(c.buffer) >= c.size + 2, c.size + 2 < UInt32Range,
           SubSeq(c.buffer, c.size + 1, c.size + 2) = CRLF
    PROVE  ChunkFields(ReadChunk(c), DropFirst(c.buffer, c.size + 2), "CHUNK_HDR",
                       c.size, c.acked, c.parsed + (c.size + 2), c.trailers,
                       c.complete)
<1> DEFINE n == c.size + 2
           u == DropFirst(c.buffer, n)
<1>1. /\ c.buffer \in Seq(Symbols) /\ c.parsed \in Nat /\ c.acked \in Nat
      /\ c.trailers \in BOOLEAN /\ c.complete \in Int
  BY DEF ChunkParsers
<1>2. u \in Seq(Symbols) /\ c.parsed + n \in Nat
  BY <1>1, DropFirstProperties
<1>3. Ahead(c) = n /\ c.buffer # <<>>
  <2>1. n \in Nat /\ n < UInt32Range
    OBVIOUS
  <2>2. n % UInt32Range = n
    BY <2>1, RangeAssumption, SmallRemainder
  <2>3. c.buffer # <<>>
    <3>1. Len(c.buffer) # 0
      BY <1>1
    <3> QED BY <3>1
  <2> QED BY <2>2, <2>3 DEF Ahead
<1>4. ReadChunk(c) = [c EXCEPT !.parsed = c.parsed + n, !.buffer = u,
                               !.state = "CHUNK_HDR"]
  <2>1. ReadChunk(c) = ChunkRead(c)
    BY <1>3 DEF ReadChunk
  <2>2. ChunkRead(c) = [Consume(c, n) EXCEPT !.state = "CHUNK_HDR"]
    BY <1>1, <1>3 DEF ChunkRead
  <2> HIDE DEF n
  <2> QED BY <2>1, <2>2 DEF Consume, ChunkParsers
<1> HIDE DEF u, n
<1>5. ChunkFields(ReadChunk(c), u, "CHUNK_HDR", c.size, c.acked, c.parsed + n,
                  c.trailers, c.complete)
  BY <1>1, <1>2, <1>4 DEF ChunkFields, ChunkParsers
<1> QED BY <1>5 DEF u, n

\* A round that has found the end, of which not all was acknowledged.
LEMMA EndOfChunks ==
    ASSUME NEW c \in ChunkParsers, c.state = "TRAILER", c.complete = -1,
           NEW end, end = Find(c.buffer, ChunkEnd(c)), end \in Nat, end # 0,
           Len(ChunkEnd(c)) \in Nat,
           c.parsed + (end - 1) + Len(ChunkEnd(c)) > c.acked
    PROVE  LET parsed == c.parsed + (end - 1) + Len(ChunkEnd(c))
           IN  ChunkFields(ReadChunk(c), c.buffer, "TRAILER", c.size, c.acked,
                           parsed, c.trailers, parsed - c.acked)
<1> DEFINE parsed == c.parsed + (end - 1) + Len(ChunkEnd(c))
<1>1. /\ c.buffer \in Seq(Symbols) /\ c.parsed \in Nat /\ c.acked \in Nat
      /\ c.trailers \in BOOLEAN /\ c.size \in Int
  BY DEF ChunkParsers
<1>2. parsed \in Nat /\ parsed - c.acked \in Int
  BY <1>1
<1>3. ReadChunk(c) = [c EXCEPT !.parsed = parsed, !.complete = parsed - c.acked]
  BY DEF ReadChunk, TrailerRead
<1> HIDE DEF parsed
<1>4. ChunkFields(ReadChunk(c), c.buffer, "TRAILER", c.size, c.acked, parsed,
                  c.trailers, parsed - c.acked)
  BY <1>1, <1>2, <1>3 DEF ChunkFields, ChunkParsers
<1> QED BY <1>4 DEF parsed

\* What is known of a chunk at one of the starts.
LEMMA StartFacts ==
    ASSUME NEW s \in Seq(Symbols), NEW trailers, NEW starts,
           AreStarts(s, trailers, starts), NEW i \in starts
    PROVE  /\ i \in Nat /\ i + 3 <= Len(s) /\ s[i + 2] = CR /\ s[i + 3] = LF
           /\ s[i + 1] \in Symbols /\ s[i + 1][2] \in Int
           /\ s[i + 1][1] = "size" /\ s[i + 1][2] \in Nat
           /\ s[i + 1][2] + 2 < UInt32Range
           /\ s[i + 1][2] = 0 =>
                EndsAtLast(DropFirst(s, i + 3), EndOf(trailers))
           /\ s[i + 1][2] # 0 =>
                /\ i + 3 + s[i + 1][2] + 2 \in starts
                /\ s[i + 3 + s[i + 1][2] + 2 - 1] = CR
                /\ s[i + 3 + s[i + 1][2] + 2] = LF
<1>1. i \in Nat /\ i + 3 <= Len(s)
  BY DEF AreStarts
<1>2. i + 1 \in 1..Len(s)
  BY <1>1
<1>3. s[i + 1] \in Symbols
  BY <1>2
<1>4. s[i + 1][2] \in Int
  BY <1>3 DEF Symbols
<1>5. /\ s[i + 2] = CR /\ s[i + 3] = LF /\ s[i + 1][1] = "size" /\ s[i + 1][2] \in Nat
      /\ s[i + 1][2] + 2 < UInt32Range
      /\ s[i + 1][2] = 0 => EndsAtLast(DropFirst(s, i + 3), EndOf(trailers))
  BY DEF AreStarts
<1>6. ASSUME s[i + 1][2] # 0
      PROVE  /\ i + 3 + s[i + 1][2] + 2 \in starts
             /\ s[i + 3 + s[i + 1][2] + 2 - 1] = CR
             /\ s[i + 3 + s[i + 1][2] + 2] = LF
  BY <1>6 DEF AreStarts
<1> QED BY <1>1, <1>3, <1>4, <1>5, <1>6, Zenon

\* The symbols of t that follow its first n ones follow those of s.
LEMMA FollowsDropped ==
    ASSUME NEW s \in Seq(Symbols), NEW t \in Seq(Symbols), Follows(t, s),
           NEW n \in Nat, n <= Len(s), n <= Len(t)
    PROVE  Follows(DropFirst(t, n), DropFirst(s, n))
<1>1. /\ Len(DropFirst(t, n)) = Len(t) - n
      /\ \A i \in 1..(Len(t) - n) : DropFirst(t, n)[i] = t[n + i]
  BY DropFirstProperties
<1>2. /\ Len(DropFirst(s, n)) = Len(s) - n
      /\ \A i \in 1..(Len(s) - n) : DropFirst(s, n)[i] = s[n + i]
  BY DropFirstProperties
<1>3. ASSUME NEW i \in 1..(Len(s) - n), i <= Len(t) - n
      PROVE  DropFirst(t, n)[i] = DropFirst(s, n)[i]
  <2>1. i \in 1..(Len(t) - n) /\ n + i \in 1..Len(s) /\ n + i <= Len(t)
    BY <1>3
  <2> QED BY <1>1, <1>2, <2>1 DEF Follows
<1> QED BY <1>1, <1>2, <1>3 DEF Follows

\* A round of read() stays within the body, and goes on when there is more of it.
LEMMA RoundInBody ==
    ASSUME NEW s \in Seq(Symbols), NEW trailers \in BOOLEAN, NEW starts,
           AreStarts(s, trailers, starts),
           NEW t \in Seq(Symbols), Follows(t, s), NEW q \in 0..Len(s), q < Len(s),
           NEW c, ReadingChunks(c, s, trailers, starts, t, q)
    PROVE  /\ ReadingChunks(ReadChunk(c), s, trailers, starts, t, q)
           /\ Len(s) <= Len(t) =>
                 \/ ReadChunk(c).complete # -1
                 \/ Len(ReadChunk(c).buffer) < Len(c.buffer)
<1> DEFINE r == ReadChunk(c)
           Goal == /\ ReadingChunks(r, s, trailers, starts, t, q)
                   /\ Len(s) <= Len(t) =>
                        r.complete # -1 \/ Len(r.buffer) < Len(c.buffer)
<1>1. c \in ChunkParsers /\ c.trailers = trailers /\ c.acked = q
  BY DEF ReadingChunks
<1>2. q \in Nat /\ Len(s) \in Nat /\ Len(t) \in Nat /\ q <= Len(s)
  OBVIOUS
<1>3. CASE c.complete # -1
  <2>1. c.state = "TRAILER" /\ ReadChunk(c) = c
    BY <1>3 DEF ReadingChunks, ReadChunk
  <2> QED BY <1>3, <2>1
<1>4. CASE c.complete = -1
  <2> DEFINE b == c.buffer
             n == c.parsed
  <2>1. /\ AtPart(c, s, starts)
        /\ n <= Len(s) /\ n <= Len(t) /\ b = DropFirst(t, n)
    BY <1>2, <1>4 DEF ReadingChunks
  <2>2. n \in Nat /\ n \in 0..Len(t)
    BY <1>1, <1>2, <2>1 DEF ChunkParsers
  <2>3. /\ b \in Seq(Symbols) /\ Len(b) = Len(t) - n
        /\ \A i \in 1..(Len(t) - n) : b[i] = t[n + i]
    <3>1. /\ DropFirst(t, n) \in Seq(Symbols) /\ Len(DropFirst(t, n)) = Len(t) - n
          /\ \A i \in 1..(Len(t) - n) : DropFirst(t, n)[i] = t[n + i]
      BY <2>2, DropFirstProperties
    <3> QED BY <2>1, <3>1, Zenon
  <2>8. Len(b) \in Nat /\ Len(b) = Len(t) - n
    BY <2>3
  <2>4. \A i \in 1..(Len(t) - n) : n + i <= Len(s) => b[i] = s[n + i]
    <3> SUFFICES ASSUME NEW i \in 1..(Len(t) - n), n + i <= Len(s)
                 PROVE  b[i] = s[n + i]
      OBVIOUS
    <3>1. n + i \in 1..Len(s) /\ n + i <= Len(t)
      BY <1>2, <2>2
    <3> QED BY <2>3, <3>1 DEF Follows
  <2>5. CASE c.state = "CHUNK_HDR"
    <3>1. n \in starts
      BY <2>1, <2>5 DEF AtPart
    <3>2. n + 3 <= Len(s) /\ s[n + 2] = CR /\ s[n + 3] = LF
          /\ s[n + 1][2] \in Nat /\ s[n + 1][1] = "size"
          /\ s[n + 1][2] + 2 < UInt32Range
      BY <3>1, StartFacts
    <3> HIDE DEF b, n
    <3>3. Find(b, CRLF) = IF Len(b) >= 3 THEN 2 ELSE 0
      <4>1. (Len(b) >= 2 => b[2] = CR) /\ (Len(b) >= 3 => b[3] = LF)
        BY <1>2, <2>2, <2>3, <2>4, <3>2
      <4> QED BY <2>3, <4>1, FindText
    <3>4. CASE Len(b) >= 3
      <4>2. b[1] = s[n + 1]
        BY <1>2, <2>2, <2>3, <2>4, <3>2, <3>4
      <4>8. b[1][1] = "size" /\ b[1][2] \in Nat /\ b[1][2] < UInt32Range
        <5>1. b[1][1] = "size" /\ b[1][2] \in Nat /\ b[1][2] + 2 < UInt32Range
          BY <3>2, <4>2
        <5> QED BY <5>1, RangeAssumption
      <4>1. ChunkFields(r, DropFirst(b, 3), IF b[1][2] = 0 THEN "TRAILER" ELSE "CHUNK",
                        b[1][2], q, n + 3, trailers, -1)
        BY <1>1, <1>4, <2>5, <3>3, <3>4, <4>8, SizeLine DEF b, n
      <4>3. /\ (n + 3) - 3 = n /\ (n + 3) - 2 = n + 1
            /\ 3 \in 0..(Len(t) - n) /\ n + 3 <= Len(t)
            /\ n + 3 \in 0..Len(t)
        BY <1>2, <2>2, <2>3, <3>4
      <4>4. DropFirst(b, 3) = DropFirst(t, n + 3)
        BY <2>1, <2>2, <4>3, DropTwice DEF b, n
      <4>5. AtPart(r, s, starts)
        <5>1. r.parsed - 3 = n /\ r.parsed - 2 = n + 1
          BY <4>1, <4>3 DEF ChunkFields
        <5> QED BY <3>1, <4>1, <4>2, <5>1 DEF AtPart, ChunkFields
      <4>6. ReadingChunks(r, s, trailers, starts, t, q)
        BY <3>2, <4>1, <4>3, <4>4, <4>5 DEF ReadingChunks, ChunkFields
      <4>7. Len(r.buffer) < Len(b)
        <5>1. Len(DropFirst(t, n + 3)) = Len(t) - (n + 3)
          BY <4>3, DropFirstProperties
        <5>2. r.buffer = DropFirst(t, n + 3)
          BY <4>1, <4>4 DEF ChunkFields
        <5> QED BY <1>2, <2>2, <2>3, <5>1, <5>2
      <4> QED BY <4>6, <4>7 DEF b
    <3>5. CASE ~(Len(b) >= 3)
      <4>1. ReadChunk(c) = c
        BY <2>5, <3>3, <3>5 DEF ReadChunk, b
      <4>2. ~(Len(s) <= Len(t))
        BY <1>2, <2>2, <2>3, <3>2, <3>5
      <4> QED BY <4>1, <4>2
    <3> QED BY <3>4, <3>5
  <2>6. CASE c.state = "CHUNK"
    <3> DEFINE i == n - 3
               z == c.size
    <3>1. i \in starts /\ z = s[n - 2][2] /\ z # 0
      BY <2>1, <2>6 DEF AtPart
    <3>2. n = i + 3 /\ n - 2 = i + 1
      BY <2>2
    <3>3. /\ z \in Nat /\ z = s[i + 1][2] /\ i + 3 + z + 2 \in starts
          /\ s[i + 3 + z + 2 - 1] = CR /\ s[i + 3 + z + 2] = LF
          /\ z + 2 < UInt32Range
      <4>1. z = s[i + 1][2] /\ s[i + 1][2] # 0
        BY <3>1, <3>2
      <4> HIDE DEF i, z
      <4>2. /\ s[i + 1][2] \in Nat /\ i + 3 + s[i + 1][2] + 2 \in starts
            /\ s[i + 3 + s[i + 1][2] + 2 - 1] = CR /\ s[i + 3 + s[i + 1][2] + 2] = LF
            /\ s[i + 1][2] + 2 < UInt32Range
        BY <3>1, <4>1, StartFacts
      <4> QED BY <4>1, <4>2
    <3>7. s[n + (z + 2) - 1] = CR /\ s[n + (z + 2)] = LF
      <4> HIDE DEF i, z, n
      <4>1. i + 3 + z + 2 - 1 = n + (z + 2) - 1 /\ i + 3 + z + 2 = n + (z + 2)
        <5>1. n \in Nat /\ n = i + 3 /\ z \in Nat
          BY <2>2, <3>2, <3>3
        <5>2. i \in Int
          BY <2>2 DEF i
        <5> QED BY ONLY <5>1, <5>2
      <4> QED BY <3>3, <4>1
    <3>4. n + (z + 2) \in starts /\ n + (z + 2) + 3 <= Len(s)
      <4>1. i + 3 + z + 2 = n + (z + 2)
        BY <2>2, <3>2, <3>3
      <4> QED BY <3>3, <4>1, StartFacts
    <3> HIDE DEF b, n, i, z
    <3>5. CASE Len(b) >= z + 2
      <4>7. SubSeq(b, z + 1, z + 2) = CRLF
        <5>1. /\ z + 1 \in 1..(Len(t) - n) /\ z + 2 \in 1..(Len(t) - n)
              /\ n + (z + 1) = n + (z + 2) - 1 /\ z + 1 + 1 = z + 2
              /\ n + (z + 1) <= Len(s) /\ n + (z + 2) <= Len(s)
              /\ z + 1 \in Nat /\ z + 1 >= 1 /\ z + 1 + 1 <= Len(b)
          <6>1. z \in Nat /\ Len(b) >= z + 2 /\ n + (z + 2) + 3 <= Len(s)
            BY <3>3, <3>4, <3>5
          <6> QED BY ONLY <1>2, <2>2, <2>8, <6>1
        <5>2. b[z + 1] = CR /\ b[z + 2] = LF
          <6>1. b[z + 1] = s[n + (z + 1)] /\ b[z + 2] = s[n + (z + 2)]
            BY <2>4, <5>1
          <6> QED BY <3>7, <5>1, <6>1
        <5>3. SubSeq(b, z + 1, z + 1 + 1) = CRLF
          BY <2>3, <5>1, <5>2, LineEndAt
        <5> QED BY <5>1, <5>3
      <4>1. ChunkFields(r, DropFirst(b, z + 2), "CHUNK_HDR", z, q, n + (z + 2),
                        trailers, -1)
        BY <1>1, <1>4, <2>6, <3>3, <3>5, <4>7, WholeChunk DEF b, n, z
      <4>2. /\ z + 2 \in 0..(Len(t) - n) /\ n + (z + 2) <= Len(t)
            /\ n + (z + 2) \in 0..Len(t) /\ n + (z + 2) <= Len(s)
        <5>1. z \in Nat /\ Len(b) >= z + 2 /\ n + (z + 2) + 3 <= Len(s)
          BY <3>3, <3>4, <3>5
        <5> QED BY ONLY <1>2, <2>2, <2>8, <5>1
      <4>3. DropFirst(b, z + 2) = DropFirst(t, n + (z + 2))
        BY <2>1, <2>2, <4>2, DropTwice DEF b, n
      <4>4. AtPart(r, s, starts)
        BY <3>4, <4>1 DEF AtPart, ChunkFields
      <4>5. ReadingChunks(r, s, trailers, starts, t, q)
        BY <4>1, <4>2, <4>3, <4>4 DEF ReadingChunks, ChunkFields
      <4>6. Len(r.buffer) < Len(b)
        <5>1. Len(DropFirst(t, n + (z + 2))) = Len(t) - (n + (z + 2))
          BY <4>2, DropFirstProperties
        <5>2. r.buffer = DropFirst(t, n + (z + 2))
          BY <4>1, <4>3 DEF ChunkFields
        <5> QED BY <1>2, <2>2, <2>3, <3>3, <5>1, <5>2
      <4> QED BY <4>5, <4>6 DEF b
    <3>6. CASE ~(Len(b) >= z + 2)
      <4>1. ReadChunk(c) = c
        <5>1. Ahead(c) = z + 2
          BY <3>3, RangeAssumption, SmallRemainder DEF Ahead, z
        <5> QED BY <2>6, <3>6, <5>1 DEF ReadChunk, b
      <4>2. ~(Len(s) <= Len(t))
        BY <1>2, <2>2, <2>3, <3>3, <3>4, <3>6
      <4> QED BY <4>1, <4>2
    <3> QED BY <3>5, <3>6
  <2>7. CASE c.state = "TRAILER"
    <3> DEFINE i == n - 3
               end == EndOf(trailers)
               u == DropFirst(s, n)
    <3>1. i \in starts /\ s[n - 2][2] = 0
      BY <2>1, <2>7 DEF AtPart
    <3>2. i + 3 = n /\ n - 2 = i + 1
      BY <2>2
    <3>3. EndsAtLast(u, end)
      <4>1. s[i + 1][2] = 0
        BY <3>1, <3>2
      <4>2. EndsAtLast(DropFirst(s, i + 3), EndOf(trailers))
        BY <3>1, <4>1, StartFacts
      <4> QED BY <3>2, <4>2
    <3>4. ChunkEnd(c) = end
      BY <1>1 DEF ChunkEnd, EndOf
    <3>5. end \in Seq(Symbols) /\ Len(end) > 0 /\ Len(end) \in Nat
      BY EndOfProperties
    <3>6. u \in Seq(Symbols) /\ Len(u) = Len(s) - n
      <4>1. n \in 0..Len(s)
        BY <1>2, <2>1, <2>2
      <4> QED BY <4>1, DropFirstProperties
    <3>7. Follows(b, u)
      BY <2>1, <2>2, FollowsDropped
    <3> HIDE DEF b, n, i, end, u
    <3>8. Find(b, end) = IF Len(b) >= Len(u) THEN Len(u) - Len(end) + 1 ELSE 0
      BY <2>3, <3>3, <3>5, <3>6, <3>7, FindEnd DEF Follows
    <3>9. Len(u) >= Len(end)
      BY <3>3 DEF EndsAtLast
    <3>10. CASE Len(b) >= Len(u)
      <4> DEFINE e == Len(u) - Len(end) + 1
                 parsed == n + (e - 1) + Len(end)
      <4>1. /\ Find(b, end) = e /\ e \in Nat /\ e # 0
            /\ parsed = Len(s) /\ Len(s) <= Len(t)
        BY <1>2, <2>2, <2>3, <3>5, <3>6, <3>8, <3>9, <3>10
      <4> HIDE DEF e
      <4>5. parsed > q
        BY <1>2, <4>1
      <4>2. ChunkFields(r, b, "TRAILER", c.size, q, parsed, trailers, parsed - q)
        BY <1>1, <1>4, <2>7, <3>4, <3>5, <4>1, <4>5, EndOfChunks DEF b, n
      <4>3. r.complete = Len(s) - q /\ r.complete # -1
        BY <1>2, <4>1, <4>2 DEF ChunkFields
      <4>4. ReadingChunks(r, s, trailers, starts, t, q)
        BY <4>1, <4>2, <4>3 DEF ReadingChunks, ChunkFields
      <4> QED BY <4>3, <4>4
    <3>11. CASE ~(Len(b) >= Len(u))
      <4>1. ReadChunk(c) = c
        BY <2>7, <3>4, <3>8, <3>11 DEF ReadChunk, b
      <4>2. ~(Len(s) <= Len(t))
        BY <1>2, <2>2, <2>3, <3>6, <3>11
      <4> QED BY <4>1, <4>2
    <3> QED BY <3>10, <3>11
  <2> QED BY <2>1, <2>5, <2>6, <2>7 DEF AtPart
<1> QED BY <1>3, <1>4

AreRounds(f, c, n) ==
    f = [i \in 0..n |-> IF i = 0 THEN c
                        ELSE The({ReadChunk(b) : b \in {f[i - 1]}})]

\* The recursive definition of the loop has a solution.
LEMMA RoundsExist ==
    ASSUME NEW c, NEW n \in Nat
    PROVE  \E f : AreRounds(f, c, n)
<1> DEFINE T == {m \in Nat : \E f : AreRounds(f, c, m)}
<1>1. 0 \in T
  <2>1. AreRounds([i \in 0..0 |-> c], c, 0)
    BY DEF AreRounds
  <2> QED BY <2>1
<1>2. ASSUME NEW m \in T PROVE m + 1 \in T
  <2>1. PICK f : AreRounds(f, c, m)
    OBVIOUS
  <2>2. m \in Nat
    OBVIOUS
  <2> DEFINE n1 == m + 1
             g == [i \in 0..n1 |-> IF i = n1 THEN The({ReadChunk(b) : b \in {f[m]}})
                                   ELSE f[i]]
  <2>3. ASSUME NEW i \in 0..n1
        PROVE  g[i] = IF i = 0 THEN c ELSE The({ReadChunk(b) : b \in {g[i - 1]}})
    <3>1. CASE i = n1
      <4>1. n1 - 1 = m /\ m \in 0..n1 /\ m # n1 /\ n1 # 0 /\ n1 \in 0..n1
        BY <2>2
      <4>2. g[m] = f[m] /\ g[n1] = The({ReadChunk(b) : b \in {f[m]}})
        BY <4>1
      <4> HIDE DEF g
      <4> QED BY <3>1, <4>1, <4>2
    <3>2. CASE i # n1
      <4>1. /\ i \in 0..m
            /\ i # 0 => i - 1 \in 0..n1 /\ i - 1 # n1 /\ g[i - 1] = f[i - 1]
        BY <2>2, <3>2
      <4>2. f[i] = IF i = 0 THEN c ELSE The({ReadChunk(b) : b \in {f[i - 1]}})
        BY <2>1, <4>1 DEF AreRounds
      <4>3. g[i] = f[i]
        BY <3>2
      <4> HIDE DEF g
      <4> QED BY <4>1, <4>2, <4>3
    <3> QED BY <3>1, <3>2
  <2>4. AreRounds(g, c, n1)
    BY <2>3 DEF AreRounds
  <2> QED BY <2>2, <2>4
<1>3. T \subseteq Nat
  OBVIOUS
<1> HIDE DEF T
<1>4. T = Nat
  BY <1>1, <1>2, <1>3, PQ!InductionOnNat
<1> QED BY <1>4 DEF T

EachRound(f, c, n) == f[0] = c /\ \A i \in 1..n : f[i] = ReadChunk(f[i - 1])

\* A solution, round by round.
LEMMA RoundByRound ==
    ASSUME NEW c, NEW n \in Nat, NEW f, AreRounds(f, c, n)
    PROVE  EachRound(f, c, n)
<1>1. \A i \in 0..n : f[i] = IF i = 0 THEN c
                             ELSE The({ReadChunk(b) : b \in {f[i - 1]}})
  BY DEF AreRounds
<1>2. f[0] = c
  <2>1. 0 \in 0..n
    OBVIOUS
  <2> QED BY <1>1, <2>1
<1>3. ASSUME NEW i \in 1..n PROVE f[i] = ReadChunk(f[i - 1])
  <2>1. f[i] = The({ReadChunk(b) : b \in {f[i - 1]}})
    BY <1>1
  <2>2. {ReadChunk(b) : b \in {f[i - 1]}} = {ReadChunk(f[i - 1])}
    OBVIOUS
  <2> QED BY <2>1, <2>2, TheOne
<1>4. \A i \in 1..n : f[i] = ReadChunk(f[i - 1])
  BY ONLY <1>3
<1> QED BY <1>2, <1>4 DEF EachRound

\* The loop of read() stays within the body and finds its end when it is there.
LEMMA LoopInBody ==
    ASSUME NEW s \in Seq(Symbols), NEW trailers \in BOOLEAN, NEW starts,
           AreStarts(s, trailers, starts),
           NEW t \in Seq(Symbols), Follows(t, s), NEW q \in 0..Len(s), q < Len(s),
           NEW c, ReadingChunks(c, s, trailers, starts, t, q)
    PROVE  /\ ReadingChunks(ReadAllChunks(c), s, trailers, starts, t, q)
           /\ Len(s) <= Len(t) => ReadAllChunks(c).complete # -1
<1> DEFINE n == Len(c.buffer)
           In(x) == ReadingChunks(x, s, trailers, starts, t, q)
           Left(x, m) == x.complete = -1 => Len(x.buffer) <= m
<1>1. n \in Nat
  BY DEF ReadingChunks, ChunkParsers
<1> HIDE DEF n
<1>2. PICK f : AreRounds(f, c, n) /\ ReadAllChunks(c) = f[n]
  <2>1. \E f : AreRounds(f, c, n)
    BY <1>1, RoundsExist
  <2>2. ReadAllChunks(c) = (CHOOSE f : AreRounds(f, c, n))[n]
    BY DEF ReadAllChunks, AreRounds, n
  <2> QED BY <2>1, <2>2
<1>3. f[0] = c /\ \A i \in 1..n : f[i] = ReadChunk(f[i - 1])
  <2>1. EachRound(f, c, n)
    BY <1>1, <1>2, RoundByRound
  <2> QED BY <2>1 DEF EachRound
<1> DEFINE P(i) == /\ In(f[i])
                   /\ Len(s) <= Len(t) => Left(f[i], n - i)
           T == {i \in Nat : i <= n => P(i)}
<1>4. 0 \in T
  <2>1. In(c) /\ Left(c, n - 0)
    BY <1>1 DEF n
  <2> QED BY <1>1, <1>3, <2>1
<1>5. ASSUME NEW i \in T PROVE i + 1 \in T
  <2> DEFINE j == i + 1
             x == f[i]
             y == f[j]
  <2>1. i \in Nat /\ (i <= n => P(i)) /\ j \in Nat /\ j - 1 = i
    OBVIOUS
  <2> HIDE DEF P
  <2>2. SUFFICES ASSUME j <= n PROVE P(j)
    BY <2>1
  <2>3. j \in 1..n /\ i <= n /\ n - j \in Int /\ n - i = (n - j) + 1
    BY <1>1, <2>1, <2>2
  <2>4. y = ReadChunk(x)
    BY <1>3, <2>1, <2>3
  <2>5. P(i)
    BY <2>1, <2>3
  <2>6. In(x) /\ (Len(s) <= Len(t) => Left(x, n - i))
    BY <2>5 DEF P
  <2> HIDE DEF x, y, j
  <2>7. /\ In(y)
        /\ Len(s) <= Len(t) => y.complete # -1 \/ Len(y.buffer) < Len(x.buffer)
    BY <2>4, <2>6, RoundInBody
  <2>8. Len(s) <= Len(t) => Left(y, n - j)
    <3> SUFFICES ASSUME Len(s) <= Len(t), y.complete = -1
                 PROVE  Len(y.buffer) <= n - j
      OBVIOUS
    <3>1. x.complete = -1
      <4>1. CASE x.complete # -1
        <5>1. x.state = "TRAILER"
          BY <2>6, <4>1 DEF ReadingChunks
        <5>2. y = x
          BY <2>4, <4>1, <5>1 DEF ReadChunk
        <5> QED BY <4>1, <5>2
      <4> QED BY <4>1
    <3>2. Len(y.buffer) < Len(x.buffer) /\ Len(x.buffer) <= n - i
      BY <2>6, <2>7, <3>1
    <3>3. Len(y.buffer) \in Nat /\ Len(x.buffer) \in Nat
      BY <2>6, <2>7 DEF ReadingChunks, ChunkParsers
    <3> QED BY <2>3, <3>2, <3>3
  <2>9. P(j)
    BY <2>7, <2>8 DEF P, y
  <2> QED BY <2>9
<1>6. T \subseteq Nat
  OBVIOUS
<1> HIDE DEF T
<1>7. T = Nat
  BY <1>4, <1>5, <1>6, PQ!InductionOnNat
<1>8. P(n)
  <2>1. n \in T /\ n <= n
    BY <1>1, <1>7
  <2> QED BY <2>1 DEF T
<1> DEFINE r == f[n]
<1>9. In(r) /\ (Len(s) <= Len(t) => Left(r, 0))
  BY <1>1, <1>8
<1> HIDE DEF r, P
<1>10. Len(s) <= Len(t) => r.complete # -1
  <2> SUFFICES ASSUME Len(s) <= Len(t), r.complete = -1 PROVE FALSE
    OBVIOUS
  <2>1. Len(s) \in Nat /\ Len(t) \in Nat /\ q \in Nat /\ q <= Len(s)
    OBVIOUS
  <2>2. /\ r \in ChunkParsers /\ AtPart(r, s, starts) /\ r.parsed <= Len(s)
        /\ r.parsed <= Len(t) /\ r.buffer = DropFirst(t, r.parsed)
    BY <1>9, <2>1 DEF ReadingChunks
  <2>3. r.parsed \in Nat /\ r.parsed \in 0..Len(t) /\ r.buffer \in Seq(Symbols)
    BY <2>1, <2>2 DEF ChunkParsers
  <2>4. Len(r.buffer) = Len(t) - r.parsed
    <3>1. Len(DropFirst(t, r.parsed)) = Len(t) - r.parsed
      BY <2>3, DropFirstProperties
    <3> QED BY <2>2, <3>1
  <2>5. Len(r.buffer) <= 0
    BY <1>9
  <2>6. r.parsed >= Len(s)
    BY <2>1, <2>3, <2>4, <2>5
  <2> DEFINE p == r.parsed
             l == Len(s)
  <2>7. p \in Nat /\ p >= l /\ l \in Nat
    BY <2>1, <2>3, <2>6
  <2>8. CASE r.state = "CHUNK_HDR"
    <3>1. p \in starts
      BY <2>2, <2>8 DEF AtPart
    <3>2. p + 3 <= l
      BY <3>1, StartFacts
    <3> HIDE DEF p, l
    <3> QED BY <2>7, <3>2
  <2>9. CASE r.state = "CHUNK"
    <3> DEFINE i == p - 3
               z == s[i + 1][2]
    <3>1. i \in starts /\ z # 0
      <4>1. i + 1 = r.parsed - 2
        BY <2>7
      <4> QED BY <2>2, <2>9, <4>1 DEF AtPart
    <3>2. z \in Nat /\ i + 3 + z + 2 \in starts
      BY <3>1, StartFacts
    <3>3. i + 3 + z + 2 + 3 <= l
      BY <3>2, StartFacts
    <3> HIDE DEF p, l, z
    <3> QED BY <2>7, <3>2, <3>3
  <2>10. CASE r.state = "TRAILER"
    <3> DEFINE i == p - 3
    <3>1. i \in starts /\ s[i + 1][2] = 0 /\ i + 3 = p
      <4>1. i + 1 = r.parsed - 2 /\ i + 3 = p
        BY <2>7
      <4> QED BY <2>2, <2>10, <4>1 DEF AtPart
    <3>2. EndsAtLast(DropFirst(s, i + 3), EndOf(trailers)) /\ i + 3 <= l
      BY <3>1, StartFacts
    <3>3. EndsAtLast(DropFirst(s, p), EndOf(trailers)) /\ p <= l
      BY <3>1, <3>2
    <3>4. Len(DropFirst(s, p)) = l - p
      <4>1. p \in 0..Len(s)
        BY <2>7, <3>3
      <4> QED BY <4>1, DropFirstProperties
    <3>5. l - p >= Len(EndOf(trailers)) /\ Len(EndOf(trailers)) > 0
          /\ Len(EndOf(trailers)) \in Nat
      BY <3>3, <3>4, EndOfProperties DEF EndsAtLast
    <3> DEFINE e == Len(EndOf(trailers))
    <3>6. l - p >= e /\ e > 0 /\ e \in Nat
      BY <3>5
    <3> HIDE DEF p, l, e
    <3> QED BY <2>7, <3>6
  <2> QED BY <2>2, <2>8, <2>9, <2>10 DEF AtPart
<1> QED BY <1>2, <1>9, <1>10 DEF r

\* The symbols m + 1 to n of a stream.
LEMMA SubSeqParts ==
    ASSUME NEW s \in Seq(Symbols), NEW m \in Nat, NEW n \in Nat, m <= n, n <= Len(s)
    PROVE  /\ SubSeq(s, m + 1, n) \in Seq(Symbols)
           /\ Len(SubSeq(s, m + 1, n)) = n - m
           /\ \A i \in 1..(n - m) : SubSeq(s, m + 1, n)[i] = s[m + i]
<1>1. /\ m + 1 >= 1 /\ n - (m + 1) + 1 = n - m /\ Len(s) \in Nat
      /\ \A i \in 1..(n - m) : (m + 1) + i - 1 = m + i
  OBVIOUS
<1>2. SubSeq(s, m + 1, n) = [i \in 1..(n - (m + 1) + 1) |-> s[(m + 1) + i - 1]]
  OBVIOUS
<1>3. SubSeq(s, m + 1, n) \in Seq(Symbols)
  BY <1>1
<1> QED BY <1>1, <1>2, <1>3

\* What has been read of s, and what follows it, is what there is.
LEMMA ReadOn ==
    ASSUME NEW s \in Seq(Symbols), NEW t \in Seq(Symbols), Follows(t, s),
           NEW p \in Nat, NEW q \in Nat, p <= q, q <= Len(s), q <= Len(t)
    PROVE  SubSeq(s, p + 1, q) \o DropFirst(t, q) = DropFirst(t, p)
<1> DEFINE a == SubSeq(s, p + 1, q)
           b == DropFirst(t, q)
           c == DropFirst(t, p)
           m == q - p
           l == Len(t)
<1>1. l \in Nat /\ m \in Nat /\ Len(s) \in Nat
      /\ q \in 0..Len(t) /\ p \in 0..Len(t)
  OBVIOUS
<1>2. a \in Seq(Symbols) /\ Len(a) = m /\ \A i \in 1..m : a[i] = s[p + i]
  BY SubSeqParts
<1>3. b \in Seq(Symbols) /\ Len(b) = l - q /\ \A i \in 1..(l - q) : b[i] = t[q + i]
  BY <1>1, DropFirstProperties
<1>4. c \in Seq(Symbols) /\ Len(c) = l - p /\ \A i \in 1..(l - p) : c[i] = t[p + i]
  BY <1>1, DropFirstProperties
<1>5. \A i \in 1..m : p + i \in 1..Len(s) /\ p + i <= Len(t)
  BY <1>1
<1> HIDE DEF a, b, c
<1> DEFINE u == a \o b
<1>6. u \in Seq(Symbols) /\ Joins(u, a, b)
  BY <1>2, <1>3, Joined
<1> HIDE DEF u
<1>7. Len(u) = l - p
  BY <1>1, <1>2, <1>3, <1>6 DEF Joins
<1>8. ASSUME NEW i \in 1..(l - p) PROVE u[i] = c[i]
  <2>1. CASE i <= m
    <3>1. i \in 1..m
      BY <1>1, <2>1
    <3>2. u[i] = a[i] /\ a[i] = s[p + i]
      BY <1>2, <1>6, <3>1 DEF Joins
    <3>3. t[p + i] = s[p + i]
      BY <1>5, <3>1 DEF Follows
    <3> QED BY <1>4, <3>2, <3>3
  <2>2. CASE ~(i <= m)
    <3> DEFINE j == i - m
    <3>1. j \in 1..(l - q) /\ m + j = i /\ q + j = p + i
      BY <1>1, <2>2
    <3> HIDE DEF j
    <3>2. u[m + j] = b[j] /\ b[j] = t[q + j]
      BY <1>2, <1>3, <1>6, <3>1 DEF Joins
    <3> QED BY <1>4, <3>1, <3>2
  <2> QED BY <2>1, <2>2
<1>9. u = c
  BY <1>4, <1>6, <1>7, <1>8, SameSeq
<1> QED BY <1>9 DEF a, b, c, u

\* Symbols that are there are those of s.
LEMMA StillInBody ==
    ASSUME NEW s \in Seq(Symbols), NEW t \in Seq(Symbols), Follows(t, s),
           NEW p \in Nat, p <= Len(t), Len(t) <= Len(s)
    PROVE  DropFirst(t, p) = SubSeq(s, p + 1, Len(t))
<1> DEFINE l == Len(t)
           a == DropFirst(t, p)
           b == SubSeq(s, p + 1, l)
<1>1. l \in Nat /\ l <= Len(s) /\ p <= l /\ p \in 0..l /\ Len(s) \in Nat
  OBVIOUS
<1>2. a \in Seq(Symbols) /\ Len(a) = l - p /\ \A i \in 1..(l - p) : a[i] = t[p + i]
  BY <1>1, DropFirstProperties
<1>3. b \in Seq(Symbols) /\ Len(b) = l - p /\ \A i \in 1..(l - p) : b[i] = s[p + i]
  BY <1>1, SubSeqParts
<1>4. \A i \in 1..(l - p) : t[p + i] = s[p + i]
  BY <1>1 DEF Follows
<1> HIDE DEF a, b
<1>5. a = b
  BY <1>2, <1>3, <1>4, SameSeq
<1> QED BY <1>5 DEF a, b

\* read() reads a body in chunks in pieces of any size.
LEMMA ReadsChunks ==
    ASSUME NEW s \in Seq(Symbols), NEW trailers \in BOOLEAN, NEW starts,
           AreStarts(s, trailers, starts),
           NEW t \in Seq(Symbols), Follows(t, s),
           NEW q \in Nat, q <= Len(s), q <= Len(t),
           NEW c, WaitingForChunks(c, s, trailers, starts, q)
    PROVE  LET r == ReadChunks(c, DropFirst(t, q)) IN
           /\ r \in ChunkParsers
           /\ Len(t) < Len(s) => WaitingForChunks(r, s, trailers, starts, Len(t))
           /\ Len(s) <= Len(t) => r.complete = Len(s) - q
<1> DEFINE input == DropFirst(t, q)
           given == [c EXCEPT !.buffer = @ \o input]
           d == ReadAllChunks(given)
           r == ReadChunks(c, input)
<1>1. /\ Len(s) \in Nat /\ Len(t) \in Nat /\ q \in 0..Len(s) /\ q \in 0..Len(t)
  OBVIOUS
<1>2. /\ c \in ChunkParsers /\ c.trailers = trailers /\ c.acked = q
      /\ c.complete = -1 /\ AtPart(c, s, starts) /\ c.parsed \in Nat
      /\ c.parsed <= q /\ c.buffer = SubSeq(s, c.parsed + 1, q) /\ q < Len(s)
  BY DEF WaitingForChunks, ChunkParsers
<1>3. input \in Seq(Symbols) /\ Len(input) = Len(t) - q
  BY <1>1, DropFirstProperties
<1>4. c.buffer \o input = DropFirst(t, c.parsed)
  <2>1. SubSeq(s, c.parsed + 1, q) \o DropFirst(t, q) = DropFirst(t, c.parsed)
    BY <1>2, ReadOn
  <2> QED BY <1>2, <2>1
<1>5. DropFirst(t, c.parsed) \in Seq(Symbols)
  <2>1. c.parsed \in 0..Len(t)
    BY <1>1, <1>2
  <2> QED BY <2>1, DropFirstProperties
<1> HIDE DEF input
<1>6. /\ given \in ChunkParsers
      /\ given.buffer = DropFirst(t, c.parsed)
      /\ given.state = c.state /\ given.size = c.size /\ given.acked = c.acked
      /\ given.parsed = c.parsed /\ given.trailers = c.trailers
      /\ given.complete = c.complete
  BY <1>2, <1>4, <1>5 DEF ChunkParsers
<1> HIDE DEF given
<1>7. ReadingChunks(given, s, trailers, starts, t, q)
  <2>1. c.parsed <= Len(s) /\ c.parsed <= Len(t)
    BY <1>1, <1>2
  <2>2. AtPart(given, s, starts)
    BY <1>2, <1>6 DEF AtPart
  <2> QED BY <1>2, <1>6, <2>1, <2>2 DEF ReadingChunks
<1>8. /\ ReadingChunks(d, s, trailers, starts, t, q)
      /\ Len(s) <= Len(t) => d.complete # -1
  BY <1>1, <1>2, <1>7, LoopInBody
<1>9. r = IF d.complete = -1 THEN [d EXCEPT !.acked = @ + Len(input)] ELSE d
  <2> DEFINE G(x) == IF x.complete = -1 THEN [x EXCEPT !.acked = @ + Len(input)] ELSE x
  <2>1. r = The({G(x) : x \in {d}})
    BY DEF ReadChunks, given
  <2>2. {G(x) : x \in {d}} = {G(d)}
    OBVIOUS
  <2> HIDE DEF r, d, G
  <2>3. r = G(d)
    BY <2>1, <2>2, TheOne
  <2> QED BY <2>3 DEF G
<1> HIDE DEF d, r
<1>10. CASE d.complete # -1
  <2>1. r = d /\ d \in ChunkParsers /\ d.complete = Len(s) - q /\ Len(s) <= Len(t)
    BY <1>8, <1>9, <1>10 DEF ReadingChunks
  <2>2. ~(Len(t) < Len(s))
    BY <1>1, <2>1
  <2> QED BY <2>1, <2>2 DEF r, input
<1>11. CASE d.complete = -1
  <2>1. r = [d EXCEPT !.acked = d.acked + Len(input)]
    BY <1>9, <1>11
  <2>2. /\ d \in ChunkParsers /\ d.trailers = trailers /\ d.acked = q
        /\ ~(Len(s) <= Len(t))
    BY <1>8, <1>11 DEF ReadingChunks
  <2>3. /\ AtPart(d, s, starts) /\ d.parsed <= Len(s) /\ d.parsed <= Len(t)
        /\ d.buffer = DropFirst(t, d.parsed) /\ d.parsed \in Nat
    <3>1. d.complete # Len(s) - q
      BY <1>1, <1>11
    <3> QED BY <1>8, <2>2, <3>1 DEF ReadingChunks, ChunkParsers
  <2>4. d.acked + Len(input) = Len(t) /\ Len(t) <= Len(s)
    BY <1>1, <1>3, <2>2
  <2>5. d.buffer = SubSeq(s, d.parsed + 1, Len(t))
    BY <2>3, <2>4, StillInBody
  <2>6. /\ r \in ChunkParsers /\ r.acked = Len(t)
        /\ r.buffer = d.buffer /\ r.state = d.state /\ r.size = d.size
        /\ r.parsed = d.parsed /\ r.trailers = d.trailers
        /\ r.complete = d.complete
    BY <1>1, <2>1, <2>2, <2>4 DEF ChunkParsers
  <2>7. AtPart(r, s, starts)
    BY <2>3, <2>6 DEF AtPart
  <2>8. WaitingForChunks(r, s, trailers, starts, Len(t))
    BY <1>1, <1>11, <2>2, <2>3, <2>5, <2>6, <2>7 DEF WaitingForChunks
  <2> QED BY <2>2, <2>6, <2>8 DEF r, input
<1> QED BY <1>10, <1>11
-----------------------------------------------------------------------------
(* A message in progress                                                   *)

MessageRecords ==
    [state : {"FIRST_LINE_PENDING", "HEADERS_PENDING", "BODY_PENDING", "COMPLETE"},
     first_line : Symbols, headers : Seq(Symbols), body : Seq(Symbols),
     size : Int, request_was_head : BOOLEAN, chunks : ChunkParsers]

\* A response, to a HEAD request when head, whose body comes in chunks, or whose
\* body only the end of the connection ends.
InChunks(x, head) ==
    x.first_line[1] = "200" /\ ~head /\ ChunkedLast(x)
UntilEof(x, head) ==
    /\ x.first_line[1] = "200" /\ ~head
    /\ ~ChunkedLast(x) /\ (Encoded(x) \/ ~HasHeader(x, "len"))

\* What ScriptAssumption says of a message of either kind.
WellFramed(x, head, kind) ==
    /\ x \in Messages /\ head \in BOOLEAN /\ kind \in {"request", "response"}
    /\ \/ x.first_line[1] \in {"GET", "HEAD"} /\ x.body = <<>>
       \/ kind = "response" /\ x.first_line[1] \in {"204", "304"} /\ x.body = <<>>
       \/ kind = "response" /\ x.first_line[1] = "200" /\ head /\ x.body = <<>>
       \/ /\ x.first_line[1] = "POST" /\ ~head
          /\ HasHeader(x, "len") /\ LengthIsTrue(x)
       \/ /\ kind = "response" /\ InChunks(x, head)
          /\ IsChunked(x.body, HasHeader(x, "trailer"))
       \/ kind = "response" /\ UntilEof(x, head) /\ ~HasHeader(x, "byteranges")
       \/ /\ kind = "response" /\ x.first_line[1] = "200" /\ ~head
          /\ ~Encoded(x) /\ HasHeader(x, "len") /\ LengthIsTrue(x)

\* What m knows of its body, of which it has read the first symbols.
BodyProgress(m, x, head) ==
    IF InChunks(x, head)
    THEN /\ m.size = Unknown
         /\ \E starts :
               /\ AreStarts(x.body, HasHeader(x, "trailer"), starts)
               /\ WaitingForChunks(m.chunks, x.body, HasHeader(x, "trailer"),
                                   starts, Len(m.body))
    ELSE IF UntilEof(x, head)
    THEN m.size = Unknown /\ m.chunks.state = "RULE5" /\ m.chunks.complete = -1
    ELSE m.size = Len(x.body)

\* A new parser of a body in chunks.
LEMMA NewChunksType ==
    ASSUME NEW trailers \in BOOLEAN
    PROVE  NewChunks(trailers) \in ChunkParsers
  BY DEF NewChunks, ChunkParsers

\* A message of which nothing has been read.
LEMMA NewMessageType == NewMessage \in MessageRecords
<1>1. NewChunks(FALSE) \in ChunkParsers
  BY NewChunksType
<1>2. <<"other", 0>> \in Symbols
  BY DEF Symbols, Kinds
<1> DEFINE c == NewChunks(FALSE)
           line == <<"other", 0>>
<1>3. NewMessage = [state |-> "FIRST_LINE_PENDING", first_line |-> line,
                    headers |-> <<>>, body |-> <<>>, size |-> -1,
                    request_was_head |-> FALSE, chunks |-> c]
  BY DEF NewMessage, Unknown
<1>4. c \in ChunkParsers /\ line \in Symbols
  BY <1>1, <1>2
<1> HIDE DEF c, line
<1> QED BY <1>3, <1>4 DEF MessageRecords

\* get_header_value of a message that says truly how long its body is.
LEMMA TrueLength ==
    ASSUME NEW x \in Messages, HasHeader(x, "len"), LengthIsTrue(x),
           NEW m, m.headers = x.headers
    PROVE  ContentLength(m) = Len(x.body)
<1> DEFINE found == {i \in DOMAIN x.headers : x.headers[i][1] = "len"}
<1>1. found # {} /\ found \subseteq Nat
  <2>1. x.headers \in Seq(Symbols)
    BY MessageType
  <2>2. DOMAIN x.headers \subseteq Nat
    BY <2>1
  <2> QED BY <2>2 DEF HasHeader
<1>2. Min(found) \in found
  <2> HIDE DEF found
  <2>1. \E i \in found : \A j \in found : i <= j
    BY <1>1, PQ!LeastNat
  <2> QED BY <2>1 DEF Min
<1>3. ContentLength(m) = x.headers[Min(found)][2]
  BY DEF ContentLength
<1> DEFINE i == Min(found)
<1>4. i \in DOMAIN x.headers /\ x.headers[i][1] = "len"
  BY <1>2
<1> HIDE DEF i
<1>5. x.headers[i][2] = Len(x.body)
  BY <1>4 DEF LengthIsTrue
<1> QED BY <1>3, <1>5 DEF i

\* What a message that has its headers comes to know of its body.
LEMMA ExpectedSize ==
    ASSUME NEW x, NEW head, NEW kind, WellFramed(x, head, kind),
           NEW m \in MessageRecords, m.first_line = x.first_line,
           m.headers = x.headers, m.request_was_head = head, m.body = <<>>,
           m.size = Unknown, m.chunks = NewChunks(FALSE)
    PROVE  LET r == calculate_expected_body_size(m) IN
           /\ ~Unsupported(m, kind)
           /\ r \in MessageRecords /\ r.state = m.state
           /\ r.first_line = x.first_line /\ r.headers = x.headers
           /\ r.request_was_head = head /\ r.body = <<>>
           /\ BodyProgress(r, x, head)
<1> DEFINE r == calculate_expected_body_size(m)
           f == x.first_line[1]
           chunked == ChunkedLast(x)
           encoded == Encoded(x)
           len == HasHeader(x, "len")
           trailers == HasHeader(x, "trailer")
<1>1. /\ x \in Messages /\ head \in BOOLEAN /\ kind \in {"request", "response"}
      /\ x.body \in Seq(Symbols) /\ Len(x.body) \in Nat
  <2>1. x \in Messages /\ head \in BOOLEAN /\ kind \in {"request", "response"}
    BY DEF WellFramed
  <2> QED BY <2>1, MessageType
<1>2. /\ ChunkedLast(m) = chunked /\ Encoded(m) = encoded /\ HasHeader(m, "len") = len
      /\ HasHeader(m, "trailer") = trailers /\ m.first_line[1] = f
      /\ HasHeader(m, "byteranges") = HasHeader(x, "byteranges")
      /\ chunked \in BOOLEAN /\ len \in BOOLEAN /\ trailers \in BOOLEAN
      /\ encoded \in BOOLEAN /\ (chunked => encoded)
  BY DEF HasHeader, ChunkedLast, Encoded, Encodings
<1> HIDE DEF chunked, encoded, len, trailers, f
<1>3. \/ f \in {"GET", "HEAD"} /\ x.body = <<>>
      \/ kind = "response" /\ f \in {"204", "304"} /\ x.body = <<>>
      \/ kind = "response" /\ f = "200" /\ head /\ x.body = <<>>
      \/ f = "POST" /\ ~head /\ len /\ LengthIsTrue(x)
      \/ kind = "response" /\ f = "200" /\ ~head /\ chunked
         /\ IsChunked(x.body, trailers)
      \/ kind = "response" /\ f = "200" /\ ~head /\ ~chunked /\ (encoded \/ ~len)
         /\ ~HasHeader(x, "byteranges")
      \/ kind = "response" /\ f = "200" /\ ~head /\ ~encoded /\ len /\ LengthIsTrue(x)
  BY DEF WellFramed, InChunks, UntilEof, f, chunked, encoded, len, trailers
<1>4. ~Unsupported(m, kind)
  <2>1. kind = "request" => f \in {"GET", "HEAD"} \/ (f = "POST" /\ len)
    BY <1>3
  <2>2. /\ kind = "response" /\ f = "200" /\ ~head /\ ~chunked /\ (encoded \/ ~len)
        => ~HasHeader(x, "byteranges")
    BY <1>3
  <2> QED BY <1>2, <2>1, <2>2 DEF Unsupported, HasBody
<1>5. /\ InChunks(x, head) = (f = "200" /\ ~head /\ chunked)
      /\ UntilEof(x, head) = (f = "200" /\ ~head /\ ~chunked /\ (encoded \/ ~len))
  BY DEF InChunks, UntilEof, f, chunked, encoded, len
<1> DEFINE Goal == /\ r \in MessageRecords /\ r.state = m.state
                   /\ r.first_line = x.first_line /\ r.headers = x.headers
                   /\ r.request_was_head = head /\ r.body = <<>>
                   /\ BodyProgress(r, x, head)
<1>6. ASSUME NEW n \in Int, r = [m EXCEPT !.size = n]
      PROVE  /\ r \in MessageRecords /\ r.state = m.state
             /\ r.first_line = x.first_line /\ r.headers = x.headers
             /\ r.request_was_head = head /\ r.body = <<>> /\ r.size = n
  BY <1>6 DEF MessageRecords
<1>7. ASSUME NEW c \in ChunkParsers, r = [m EXCEPT !.chunks = c]
      PROVE  /\ r \in MessageRecords /\ r.state = m.state
             /\ r.first_line = x.first_line /\ r.headers = x.headers
             /\ r.request_was_head = head /\ r.body = <<>> /\ r.size = Unknown
             /\ r.chunks = c
  BY <1>7 DEF MessageRecords
<1>8. CASE f \in {"GET", "HEAD", "204", "304"} \/ (f = "200" /\ head)
  <2>1. r = [m EXCEPT !.size = 0]
    BY <1>2, <1>8 DEF calculate_expected_body_size, HasBody
  <2>2. Len(x.body) = 0 /\ ~InChunks(x, head) /\ ~UntilEof(x, head)
    BY <1>3, <1>5, <1>8
  <2> HIDE DEF r
  <2>3. BodyProgress(r, x, head)
    BY <1>6, <2>1, <2>2 DEF BodyProgress
  <2>4. /\ r \in MessageRecords /\ r.state = m.state
        /\ r.first_line = x.first_line /\ r.headers = x.headers
        /\ r.request_was_head = head /\ r.body = <<>>
    BY <1>6, <2>1
  <2> QED BY ONLY <1>4, <2>3, <2>4 DEF r
<1>9. CASE f = "POST"
  <2>1. len /\ LengthIsTrue(x) /\ ~head
    BY <1>3, <1>9
  <2>2. ContentLength(m) = Len(x.body)
    BY <1>1, <2>1, TrueLength DEF len
  <2>3. r = [m EXCEPT !.size = Len(x.body)]
    BY <1>2, <1>9, <2>1, <2>2 DEF calculate_expected_body_size, HasBody
  <2>4. ~InChunks(x, head) /\ ~UntilEof(x, head)
    BY <1>5, <1>9
  <2> HIDE DEF r
  <2>5. BodyProgress(r, x, head)
    BY <1>1, <1>6, <2>3, <2>4 DEF BodyProgress
  <2> QED BY <1>1, <1>4, <1>6, <2>3, <2>5 DEF r
<1>10. CASE f = "200" /\ ~head /\ chunked
  <2> DEFINE c == NewChunks(trailers)
  <2>1. r = [m EXCEPT !.chunks = c]
    BY <1>2, <1>10 DEF calculate_expected_body_size, HasBody
  <2>2. c \in ChunkParsers
    BY <1>2, NewChunksType
  <2>3. IsChunked(x.body, trailers)
    BY <1>2, <1>3, <1>10
  <2>4. PICK starts : AreStarts(x.body, trailers, starts)
    BY <1>1, <1>2, <2>3, StartsOf
  <2>5. WaitingForChunks(c, x.body, trailers, starts, 0)
    <3>1. SubSeq(x.body, 0 + 1, 0) = <<>>
      BY <1>1
    <3>2. /\ c.state = "CHUNK_HDR" /\ c.parsed = 0 /\ c.acked = 0
          /\ c.trailers = trailers /\ c.complete = -1 /\ c.buffer = <<>>
      BY DEF NewChunks
    <3>3. 0 \in starts /\ 0 < Len(x.body)
      <4>1. 0 \in starts /\ 0 + 3 <= Len(x.body)
        BY <2>4 DEF AreStarts
      <4> QED BY <1>1, <4>1
    <3> HIDE DEF c
    <3>4. AtPart(c, x.body, starts)
      BY <3>2, <3>3 DEF AtPart
    <3> QED BY <2>2, <3>1, <3>2, <3>3, <3>4 DEF WaitingForChunks
  <2> HIDE DEF r, c
  <2>6. r.size = Unknown /\ r.chunks = c /\ r.body = <<>>
    BY <1>7, <2>1, <2>2
  <2>7. InChunks(x, head) /\ Len(r.body) = 0
    BY <1>5, <1>10, <2>6
  <2>8. BodyProgress(r, x, head)
    BY <2>4, <2>5, <2>6, <2>7 DEF BodyProgress, trailers
  <2> QED BY <1>4, <1>7, <2>1, <2>2, <2>8 DEF r
<1>11. CASE f = "200" /\ ~head /\ ~encoded /\ len
  <2>1. LengthIsTrue(x)
    BY <1>2, <1>3, <1>11
  <2>2. ContentLength(m) = Len(x.body)
    BY <1>1, <1>11, <2>1, TrueLength DEF len
  <2>3. r = [m EXCEPT !.size = Len(x.body)]
    BY <1>2, <1>11, <2>2 DEF calculate_expected_body_size, HasBody
  <2>4. ~InChunks(x, head) /\ ~UntilEof(x, head)
    BY <1>2, <1>5, <1>11
  <2> HIDE DEF r
  <2>5. BodyProgress(r, x, head)
    BY <1>1, <1>6, <2>3, <2>4 DEF BodyProgress
  <2> QED BY <1>1, <1>4, <1>6, <2>3, <2>5 DEF r
<1>12. CASE f = "200" /\ ~head /\ ~chunked /\ (encoded \/ ~len)
  <2> DEFINE c == [m.chunks EXCEPT !.state = "RULE5"]
  <2>1. r = [m EXCEPT !.chunks = c]
    <3>1. r = [m EXCEPT !.chunks.state = "RULE5"]
      BY <1>2, <1>12 DEF calculate_expected_body_size, HasBody
    <3> QED BY <3>1 DEF MessageRecords
  <2>2. c \in ChunkParsers /\ c.state = "RULE5" /\ c.complete = -1
    <3>1. m.chunks.complete = -1
      BY DEF NewChunks
    <3> QED BY <3>1 DEF MessageRecords, ChunkParsers
  <2> HIDE DEF r, c
  <2>3. ~InChunks(x, head) /\ UntilEof(x, head)
    BY <1>5, <1>12
  <2>4. BodyProgress(r, x, head)
    BY <1>7, <2>1, <2>2, <2>3 DEF BodyProgress
  <2> QED BY <1>4, <1>7, <2>1, <2>2, <2>4 DEF r
<1> QED BY <1>1, <1>2, <1>3, <1>8, <1>9, <1>10, <1>11, <1>12

\* What has been read of s with what follows it.
LEMMA Together ==
    ASSUME NEW s \in Seq(Symbols), NEW q \in Nat, q <= Len(s),
           NEW u \in Seq(Symbols), Follows(u, DropFirst(s, q))
    PROVE  LET t == SubSeq(s, 1, q) \o u IN
           /\ t \in Seq(Symbols) /\ Len(t) = q + Len(u)
           /\ DropFirst(t, q) = u /\ Follows(t, s)
<1> DEFINE a == SubSeq(s, 1, q)
           t == a \o u
           d == DropFirst(s, q)
<1>1. Len(s) \in Nat /\ Len(u) \in Nat /\ q \in 0..Len(s)
  OBVIOUS
<1>2. a \in Seq(Symbols) /\ Len(a) = q /\ \A i \in 1..q : a[i] = s[i]
  BY <1>1
<1>3. d \in Seq(Symbols) /\ Len(d) = Len(s) - q
      /\ \A i \in 1..(Len(s) - q) : d[i] = s[q + i]
  BY <1>1, DropFirstProperties
<1> HIDE DEF a
<1>4. t \in Seq(Symbols) /\ Joins(t, a, u)
  BY <1>2, Joined
<1> HIDE DEF t, d
<1>5. /\ Len(t) = q + Len(u)
      /\ \A i \in 1..q : t[i] = s[i]
      /\ \A i \in 1..Len(u) : t[q + i] = u[i]
  BY <1>1, <1>2, <1>4 DEF Joins
<1>6. DropFirst(t, q) = u
  <2>1. q \in 0..Len(t) /\ Len(t) - q = Len(u)
    BY <1>1, <1>5
  <2>2. /\ DropFirst(t, q) \in Seq(Symbols) /\ Len(DropFirst(t, q)) = Len(u)
        /\ \A i \in 1..Len(u) : DropFirst(t, q)[i] = t[q + i]
    BY <1>4, <2>1, DropFirstProperties
  <2> QED BY <1>5, <2>2, SameSeq
<1>7. Follows(t, s)
  <2> SUFFICES ASSUME NEW i \in 1..Len(s), i <= Len(t) PROVE t[i] = s[i]
    BY DEF Follows
  <2>1. CASE i <= q
    BY <1>1, <1>5, <2>1
  <2>2. CASE ~(i <= q)
    <3> DEFINE j == i - q
    <3>1. j \in 1..Len(u) /\ j \in 1..(Len(s) - q) /\ q + j = i
      BY <1>1, <1>5, <2>2
    <3> HIDE DEF j
    <3>2. t[q + j] = u[j] /\ d[j] = s[q + j]
      BY <1>3, <1>5, <3>1
    <3>3. u[j] = d[j]
      BY <1>3, <3>1 DEF Follows, d
    <3> QED BY <3>1, <3>2, <3>3
  <2> QED BY <2>1, <2>2
<1> QED BY <1>4, <1>5, <1>6, <1>7 DEF a, t

\* The first n symbols of u are appended to the body.
LEMMA BodyGrows ==
    ASSUME NEW s \in Seq(Symbols), NEW q \in Nat, q <= Len(s),
           NEW u \in Seq(Symbols), Follows(u, DropFirst(s, q)),
           NEW n \in Nat, n <= Len(u), q + n <= Len(s)
    PROVE  /\ SubSeq(s, 1, q) \o SubSeq(u, 1, n) = SubSeq(s, 1, q + n)
           /\ SubSeq(s, 1, q + n) \in Seq(Symbols)
           /\ Len(SubSeq(s, 1, q + n)) = q + n
<1> DEFINE a == SubSeq(s, 1, q)
           b == SubSeq(u, 1, n)
           c == SubSeq(s, 1, q + n)
           d == DropFirst(s, q)
           v == a \o b
<1>1. Len(s) \in Nat /\ Len(u) \in Nat /\ q \in 0..Len(s) /\ q + n \in Nat
  OBVIOUS
<1>2. a \in Seq(Symbols) /\ Len(a) = q /\ \A i \in 1..q : a[i] = s[i]
  BY <1>1
<1>3. b \in Seq(Symbols) /\ Len(b) = n /\ \A i \in 1..n : b[i] = u[i]
  BY <1>1
<1>4. c \in Seq(Symbols) /\ Len(c) = q + n /\ \A i \in 1..(q + n) : c[i] = s[i]
  BY <1>1
<1>5. /\ Len(d) = Len(s) - q
      /\ \A i \in 1..(Len(s) - q) : d[i] = s[q + i]
  BY <1>1, DropFirstProperties
<1> HIDE DEF a, b, c
<1>6. v \in Seq(Symbols) /\ Joins(v, a, b)
  BY <1>2, <1>3, Joined
<1> HIDE DEF v, d
<1>7. ASSUME NEW i \in 1..(q + n) PROVE v[i] = c[i]
  <2>1. CASE i <= q
    <3>1. i \in 1..Len(a)
      BY <1>1, <1>2, <2>1
    <3> QED BY <1>2, <1>4, <1>6, <3>1 DEF Joins
  <2>2. CASE ~(i <= q)
    <3> DEFINE j == i - q
    <3>1. j \in 1..n /\ j \in 1..(Len(s) - q) /\ q + j = i /\ j <= Len(u)
      BY <1>1, <2>2
    <3> HIDE DEF j
    <3>2. v[q + j] = b[j] /\ b[j] = u[j] /\ d[j] = s[q + j]
      BY <1>2, <1>3, <1>5, <1>6, <3>1 DEF Joins
    <3>3. u[j] = d[j]
      BY <1>5, <3>1 DEF Follows, d
    <3> QED BY <1>4, <3>1, <3>2, <3>3
  <2> QED BY <2>1, <2>2
<1>8. Len(v) = q + n
  BY <1>2, <1>3, <1>6 DEF Joins
<1>9. v = c
  BY <1>4, <1>6, <1>7, <1>8, SameSeq
<1> QED BY <1>4, <1>9 DEF a, b, c, v

\* The minimum of two numbers.
LEMMA MinOfTwo ==
    ASSUME NEW a \in Int, NEW b \in Int
    PROVE  Min({a, b}) = IF a <= b THEN a ELSE b
<1>1. \A x \in {a, b} : (\A y \in {a, b} : x <= y) <=>
                           x = (IF a <= b THEN a ELSE b)
  OBVIOUS
<1>2. (IF a <= b THEN a ELSE b) \in {a, b}
  OBVIOUS
<1> QED BY <1>1, <1>2 DEF Min

\* m holds the first q symbols of the body of x.
Holds(m, x, head, q) ==
    /\ m \in MessageRecords
    /\ m.first_line = x.first_line /\ m.headers = x.headers
    /\ q <= Len(x.body) /\ m.body = SubSeq(x.body, 1, q)

\* The symbols of u, which follow the first q of the body of x, that are its own.
HowMany(x, q, u) ==
    IF q + Len(u) <= Len(x.body) THEN Len(u) ELSE Len(x.body) - q

\* r is what read_in_body returns when it takes n of them.
BodyRead(r, x, head, q, u, n) ==
    /\ r.taken = n /\ n \in Nat /\ n <= Len(u)
    /\ Holds(r.message, x, head, q + n)
    /\ IF q + Len(u) >= Len(x.body) /\ ~UntilEof(x, head)
       THEN r.message.state = "COMPLETE" /\ q + n = Len(x.body)
       ELSE /\ r.message.state = "BODY_PENDING" /\ n = Len(u)
            /\ BodyProgress(r.message, x, head)

\* read_in_body takes what there is of the body, and no more, in pieces of any
\* size; the message is complete when its body is, unless the connection ends it.
LEMMA ReadsBody ==
    ASSUME NEW x, NEW head, NEW kind, WellFramed(x, head, kind),
           NEW m, NEW q \in Nat, Holds(m, x, head, q), BodyProgress(m, x, head),
           m.state = "BODY_PENDING",
           NEW u \in Seq(Symbols), Follows(u, DropFirst(x.body, q)),
           UntilEof(x, head) => q + Len(u) <= Len(x.body),
           NEW n, n = HowMany(x, q, u)
    PROVE  BodyRead(read_in_body(m, u), x, head, q, u, n)
<1> DEFINE r == read_in_body(m, u)
           s == x.body
           l == Len(s)
           k == Len(u)
           body == SubSeq(s, 1, q + n)
           trailers == HasHeader(x, "trailer")
<1> SUFFICES /\ r.taken = n /\ n \in Nat /\ n <= Len(u)
             /\ Holds(r.message, x, head, q + n)
             /\ IF q + Len(u) >= Len(x.body) /\ ~UntilEof(x, head)
                THEN r.message.state = "COMPLETE" /\ q + n = Len(x.body)
                ELSE /\ r.message.state = "BODY_PENDING" /\ n = Len(u)
                     /\ BodyProgress(r.message, x, head)
  BY DEF BodyRead
<1>1. /\ x \in Messages /\ s \in Seq(Symbols) /\ l \in Nat /\ k \in Nat
      /\ q <= l /\ trailers \in BOOLEAN
  <2>1. x \in Messages
    BY DEF WellFramed
  <2> QED BY <2>1, MessageType DEF Holds, HasHeader
<1> HIDE DEF l, k
<1>2. /\ n \in Nat /\ n <= k /\ q + n <= l
      /\ n = IF q + k <= l THEN k ELSE l - q
  <2>1. n = IF q + k <= l THEN k ELSE l - q
    BY DEF l, k, HowMany
  <2> HIDE DEF r, s, body, trailers
  <2> QED BY <1>1, <2>1
<1>3. /\ m \in MessageRecords /\ m.first_line = x.first_line
      /\ m.headers = x.headers /\ m.body = SubSeq(s, 1, q)
  BY DEF Holds
<1>4. /\ m.body \o SubSeq(u, 1, n) = body /\ body \in Seq(Symbols)
      /\ Len(body) = q + n /\ Len(m.body) = q
  <2>1. n <= Len(u) /\ q + n <= Len(s) /\ q <= Len(s)
    BY <1>1, <1>2 DEF l, k
  <2>2. /\ SubSeq(s, 1, q) \o SubSeq(u, 1, n) = SubSeq(s, 1, q + n)
        /\ SubSeq(s, 1, q + n) \in Seq(Symbols)
        /\ Len(SubSeq(s, 1, q + n)) = q + n
    BY <1>1, <1>2, <2>1, BodyGrows
  <2>3. Len(SubSeq(s, 1, q)) = q
    BY <1>1, <2>1
  <2> QED BY <1>3, <2>2, <2>3
<1>5. ASSUME NEW y \in MessageRecords, y.first_line = m.first_line,
             y.headers = m.headers, y.body = body
      PROVE  Holds(y, x, head, q + n)
  BY <1>2, <1>3, <1>5 DEF Holds, l
<1> HIDE DEF s, body, trailers
<1>6. CASE ~InChunks(x, head) /\ ~UntilEof(x, head)
  <2>1. m.size = l
    BY <1>6 DEF BodyProgress, l, s
  <2>2. r = ReadSized(m, u)
    BY <1>1, <2>1 DEF read_in_body, Unknown
  <2> DEFINE y == [m EXCEPT !.body = body,
                            !.state = IF q + n = l THEN "COMPLETE" ELSE m.state]
  <2>3. r = [message |-> y, taken |-> n]
    <3> DEFINE d == l - q
    <3>1. d \in Int /\ (IF d <= k THEN d ELSE k) = n
      BY <1>1, <1>2
    <3>2. m.size - Len(m.body) = d /\ (Len(body) = m.size) = (q + n = l)
      BY <1>4, <2>1
    <3> HIDE DEF d
    <3>3. Min({d, k}) = n
      <4>1. k \in Int
        BY <1>1
      <4>2. Min({d, k}) = IF d <= k THEN d ELSE k
        BY <3>1, <4>1, MinOfTwo
      <4> QED BY <3>1, <4>2
    <3>4. Min({m.size - Len(m.body), Len(u)}) = n
      BY <3>2, <3>3 DEF k
    <3> QED BY <1>4, <2>2, <3>2, <3>4 DEF ReadSized
  <2>4. /\ y \in MessageRecords /\ y.first_line = m.first_line
        /\ y.headers = m.headers /\ y.body = body /\ y.size = m.size
        /\ y.state = IF q + n = l THEN "COMPLETE" ELSE m.state
    BY <1>3, <1>4 DEF MessageRecords
  <2> HIDE DEF y, r
  <2>5. r.taken = n /\ r.message = y
    BY <2>3
  <2>6. (q + k >= l <=> q + n = l) /\ (~(q + k >= l) => n = k)
    BY <1>1, <1>2
  <2>7. BodyProgress(y, x, head)
    BY <1>6, <2>1, <2>4 DEF BodyProgress, l, s
  <2>8. Holds(y, x, head, q + n)
    BY <1>5, <2>4
  <2> QED BY <1>2, <1>6, <2>4, <2>5, <2>6, <2>7, <2>8 DEF r, l, s, k
<1>10. ASSUME NEW c \in ChunkParsers, r = ReadParsed(m, u, c),
              n = IF c.complete = -1 THEN k ELSE c.complete
       PROVE  /\ r.taken = n /\ Holds(r.message, x, head, q + n)
              /\ r.message.chunks = c /\ r.message.size = m.size
              /\ r.message.body = body
              /\ r.message.state = IF c.complete = -1 THEN "BODY_PENDING"
                                   ELSE "COMPLETE"
  <2> DEFINE y == [m EXCEPT !.chunks = c, !.body = body,
                            !.state = IF c.complete = -1 THEN m.state
                                      ELSE "COMPLETE"]
  <2>1. r = [message |-> y, taken |-> n]
    <3>1. n = IF c.complete = -1 THEN Len(u) ELSE c.complete
      BY <1>10 DEF k
    <3> QED BY <1>4, <1>10, <3>1 DEF ReadParsed
  <2>2. /\ y \in MessageRecords /\ y.first_line = m.first_line
        /\ y.headers = m.headers /\ y.body = body /\ y.size = m.size
        /\ y.chunks = c
        /\ y.state = IF c.complete = -1 THEN "BODY_PENDING" ELSE "COMPLETE"
    BY <1>3, <1>4, <1>10 DEF MessageRecords
  <2> HIDE DEF y, r
  <2>3. r.taken = n /\ r.message = y
    BY <2>1
  <2>4. Holds(y, x, head, q + n)
    BY <1>5, <2>2
  <2> QED BY <2>2, <2>3, <2>4
<1>7. CASE UntilEof(x, head)
  <2>1. m.size = Unknown /\ m.chunks.state = "RULE5" /\ ~InChunks(x, head)
        /\ m.chunks.complete = -1
    BY <1>7 DEF BodyProgress, InChunks, UntilEof
  <2>2. n = k
    BY <1>2, <1>7 DEF l, k, s
  <2> DEFINE c == m.chunks
  <2>3. c \in ChunkParsers
    BY <1>3 DEF MessageRecords
  <2>4. r = ReadParsed(m, u, c)
    <3>1. r = The({ReadParsed(m, u, d) : d \in {c}})
      BY <2>1 DEF read_in_body
    <3>2. {ReadParsed(m, u, d) : d \in {c}} = {ReadParsed(m, u, c)}
      OBVIOUS
    <3> QED BY <3>1, <3>2, TheOne
  <2>5. c.complete = -1 /\ c.state = "RULE5"
    BY <2>1
  <2> HIDE DEF c, r
  <2>6. /\ r.taken = n /\ Holds(r.message, x, head, q + n)
        /\ r.message.chunks = c /\ r.message.size = m.size
        /\ r.message.state = "BODY_PENDING"
    BY <1>10, <2>2, <2>3, <2>4, <2>5
  <2>7. BodyProgress(r.message, x, head)
    BY <1>7, <2>1, <2>5, <2>6 DEF BodyProgress
  <2> QED BY <1>2, <1>7, <2>2, <2>6, <2>7 DEF r, l, s, k
<1>8. CASE InChunks(x, head)
  <2>1. m.size = Unknown
    BY <1>8 DEF BodyProgress
  <2>2. PICK starts : /\ AreStarts(s, trailers, starts)
                      /\ WaitingForChunks(m.chunks, s, trailers, starts, q)
    BY <1>4, <1>8 DEF BodyProgress, s, trailers
  <2>3. m.chunks.state # "RULE5"
    BY <2>2 DEF WaitingForChunks, AtPart
  <2> DEFINE c == ReadChunks(m.chunks, u)
             t == SubSeq(s, 1, q) \o u
  <2>4. r = ReadParsed(m, u, c)
    <3>1. r = The({ReadParsed(m, u, d) : d \in {c}})
      BY <2>1, <2>3 DEF read_in_body
    <3>2. {ReadParsed(m, u, d) : d \in {c}} = {ReadParsed(m, u, c)}
      <4> HIDE DEF c
      <4> QED OBVIOUS
    <3> QED BY <3>1, <3>2, TheOne
  <2>5. /\ t \in Seq(Symbols) /\ Len(t) = q + k
        /\ DropFirst(t, q) = u /\ Follows(t, s)
    BY <1>1, Together DEF s, l, k
  <2> HIDE DEF t
  <2>6. /\ c \in ChunkParsers
        /\ q + k < l => WaitingForChunks(c, s, trailers, starts, q + k)
        /\ l <= q + k => c.complete = l - q
    <3>1. q <= Len(s) /\ q <= Len(t)
      BY <1>1, <2>5 DEF l
    <3>2. LET d == ReadChunks(m.chunks, DropFirst(t, q)) IN
          /\ d \in ChunkParsers
          /\ Len(t) < Len(s) => WaitingForChunks(d, s, trailers, starts, Len(t))
          /\ Len(s) <= Len(t) => d.complete = Len(s) - q
      BY <1>1, <2>2, <2>5, <3>1, ReadsChunks
    <3> QED BY <2>5, <3>2 DEF l
  <2> HIDE DEF c, r
  <2>7. CASE q + k < l
    <3>1. c.complete = -1 /\ n = k /\ ~(q + k >= l)
      BY <1>1, <1>2, <2>6, <2>7 DEF WaitingForChunks
    <3>2. /\ r.taken = n /\ Holds(r.message, x, head, q + n)
          /\ r.message.chunks = c /\ r.message.size = m.size
          /\ r.message.body = body
          /\ r.message.state = "BODY_PENDING"
      BY <1>10, <2>4, <2>6, <3>1
    <3>3. WaitingForChunks(r.message.chunks, s, trailers, starts, Len(r.message.body))
      BY <1>4, <2>6, <2>7, <3>1, <3>2
    <3>4. BodyProgress(r.message, x, head)
      BY <1>8, <2>1, <2>2, <3>2, <3>3 DEF BodyProgress, s, trailers
    <3> QED BY <1>2, <3>1, <3>2, <3>4 DEF r, l, s, k
  <2>8. CASE ~(q + k < l)
    <3>1. /\ c.complete = l - q /\ c.complete # -1 /\ n = c.complete
          /\ q + n = l /\ q + k >= l
      BY <1>1, <1>2, <2>6, <2>8
    <3>2. /\ r.taken = n /\ Holds(r.message, x, head, q + n)
          /\ r.message.state = "COMPLETE"
      BY <1>10, <2>4, <2>6, <3>1
    <3>3. ~UntilEof(x, head)
      BY <1>8 DEF InChunks, UntilEof
    <3> QED BY <1>2, <3>1, <3>2, <3>3 DEF r, l, s, k
  <2> QED BY <2>7, <2>8
<1> QED BY <1>6, <1>7, <1>8
-----------------------------------------------------------------------------
(* The parser of a stream of messages                                      *)

ParserRecords ==
    [kind : {"request", "response"}, buffer : Seq(Symbols),
     message : MessageRecords, complete : Seq(MessageRecords),
     heads : Seq(BOOLEAN), failed : BOOLEAN]

\* Dropping the first m symbols of a piece of a stream leaves a shorter piece.
LEMMA DropOfSubSeq ==
    ASSUME NEW s \in Seq(Symbols), NEW a \in Nat, NEW m \in Nat, NEW n \in Nat,
           a + m <= n, n <= Len(s)
    PROVE  DropFirst(SubSeq(s, a + 1, n), m) = SubSeq(s, a + m + 1, n)
<1> DEFINE u == SubSeq(s, a + 1, n)
           l == Len(u)
           am == a + m
           v == SubSeq(s, am + 1, n)
           d == DropFirst(u, m)
<1>1. am \in Nat /\ a <= n /\ am <= n /\ am = a + m
  OBVIOUS
<1> HIDE DEF am
<1>2. u \in Seq(Symbols) /\ l = n - a /\ \A i \in 1..(n - a) : u[i] = s[a + i]
  BY <1>1, SubSeqParts
<1>3. v \in Seq(Symbols) /\ Len(v) = n - am
      /\ \A i \in 1..(n - am) : v[i] = s[am + i]
  BY <1>1, SubSeqParts
<1> HIDE DEF u, v, l
<1>4. m \in 0..l /\ l - m = n - am
  BY <1>1, <1>2
<1>5. d \in Seq(Symbols) /\ Len(d) = l - m /\ \A i \in 1..(l - m) : d[i] = u[m + i]
  BY <1>2, <1>4, DropFirstProperties DEF l
<1> HIDE DEF d
<1>6. ASSUME NEW i \in 1..(n - am) PROVE d[i] = v[i]
  <2>1. m + i \in 1..(n - a) /\ a + (m + i) = am + i
    BY <1>1, <1>6
  <2>2. d[i] = u[m + i] /\ u[m + i] = s[a + (m + i)]
    BY <1>2, <1>4, <1>5, <2>1
  <2> QED BY <1>3, <2>1, <2>2
<1>7. d = v
  BY <1>3, <1>4, <1>5, <1>6, SameSeq
<1> QED BY <1>7 DEF d, u, v, am

\* A sequence of length 1 is not empty.
LEMMA OneSymbol ==
    ASSUME NEW S, NEW s \in Seq(S), Len(s) = 1
    PROVE  s # <<>>
  OBVIOUS

\* The type, length and elements of a tail.
LEMMA TailType ==
    ASSUME NEW S, NEW s \in Seq(S), s # <<>>
    PROVE  /\ Tail(s) \in Seq(S) /\ Len(Tail(s)) = Len(s) - 1
           /\ \A i \in 1..(Len(s) - 1) : Tail(s)[i] = s[i + 1]
  OBVIOUS

\* A line with a text, at offset a of the stream s, whose first n symbols have
\* been read.
LEMMA TextLine ==
    ASSUME NEW s \in Seq(Symbols), NEW a \in Nat, NEW n \in Nat, a <= n, n <= Len(s),
           s[a + 2] = CR, s[a + 3] = LF,
           NEW p \in ParserRecords, p.buffer = SubSeq(s, a + 1, n)
    PROVE  /\ HaveLine(p) <=> a + 3 <= n
           /\ a + 3 <= n => /\ Line(p) # <<>> /\ Line(p)[1] = s[a + 1]
                            /\ Find(p.buffer, CRLF) + 1 = 3
                            /\ DropFirst(p.buffer, 3) = SubSeq(s, a + 3 + 1, n)
<1> DEFINE u == p.buffer
<1>1. u \in Seq(Symbols) /\ Len(u) = n - a /\ \A i \in 1..(n - a) : u[i] = s[a + i]
  BY SubSeqParts
<1> HIDE DEF u
<1>2. (Len(u) >= 2 => u[2] = CR) /\ (Len(u) >= 3 => u[3] = LF)
  <2>1. Len(u) >= 2 => 2 \in 1..(n - a)
    BY <1>1
  <2>2. Len(u) >= 3 => 3 \in 1..(n - a)
    BY <1>1
  <2> QED BY <1>1, <2>1, <2>2
<1>3. Find(u, CRLF) = IF Len(u) >= 3 THEN 2 ELSE 0
  BY <1>1, <1>2, FindText
<1>4. Len(u) >= 3 <=> a + 3 <= n
  BY <1>1
<1>5. HaveLine(p) <=> a + 3 <= n
  BY <1>3, <1>4 DEF HaveLine, u
<1>6. ASSUME a + 3 <= n
      PROVE  /\ Line(p) # <<>> /\ Line(p)[1] = s[a + 1]
             /\ Find(p.buffer, CRLF) + 1 = 3
             /\ DropFirst(p.buffer, 3) = SubSeq(s, a + 3 + 1, n)
  <2>1. Find(u, CRLF) = 2
    BY <1>3, <1>4, <1>6
  <2>2. Line(p) = SubSeq(u, 1, 1)
    <3>1. Find(u, CRLF) - 1 = 1
      BY <2>1
    <3> QED BY <3>1 DEF Line, u
  <2>3. Len(SubSeq(u, 1, 1)) = 1 /\ SubSeq(u, 1, 1)[1] = u[1]
    BY <1>1, <1>6
  <2>4. u[1] = s[a + 1]
    <3>1. 1 \in 1..(n - a)
      BY <1>6
    <3> QED BY <1>1, <3>1
  <2>5. DropFirst(SubSeq(s, a + 1, n), 3) = SubSeq(s, a + 3 + 1, n)
    BY <1>6, DropOfSubSeq
  <2>6. Line(p) # <<>>
    <3>1. SubSeq(u, 1, 1) \in Seq(Symbols)
      BY <1>1, <1>6
    <3>2. SubSeq(u, 1, 1) # <<>>
      BY <2>3, <3>1, OneSymbol
    <3> QED BY <2>2, <3>2, Zenon
  <2>7. Line(p)[1] = s[a + 1] /\ Find(p.buffer, CRLF) + 1 = 3
    <3>1. Line(p)[1] = s[a + 1]
      BY <2>2, <2>3, <2>4, Zenon
    <3>2. Find(p.buffer, CRLF) + 1 = 3
      BY <2>1 DEF u
    <3> QED BY <3>1, <3>2
  <2> QED BY <2>5, <2>6, <2>7
<1> QED BY <1>5, <1>6

\* A blank line, at offset a of the stream s, whose first n symbols have been
\* read.
LEMMA BlankLine ==
    ASSUME NEW s \in Seq(Symbols), NEW a \in Nat, NEW n \in Nat, a <= n, n <= Len(s),
           s[a + 1] = CR, s[a + 2] = LF,
           NEW p \in ParserRecords, p.buffer = SubSeq(s, a + 1, n)
    PROVE  /\ HaveLine(p) <=> a + 2 <= n
           /\ a + 2 <= n => /\ Line(p) = <<>>
                            /\ Find(p.buffer, CRLF) + 1 = 2
                            /\ DropFirst(p.buffer, 2) = SubSeq(s, a + 2 + 1, n)
<1> DEFINE u == p.buffer
<1>1. u \in Seq(Symbols) /\ Len(u) = n - a /\ \A i \in 1..(n - a) : u[i] = s[a + i]
  BY SubSeqParts
<1> HIDE DEF u
<1>2. (Len(u) >= 1 => u[1] = CR) /\ (Len(u) >= 2 => u[2] = LF)
  <2>1. Len(u) >= 1 => 1 \in 1..(n - a)
    BY <1>1
  <2>2. Len(u) >= 2 => 2 \in 1..(n - a)
    BY <1>1
  <2> QED BY <1>1, <2>1, <2>2
<1>3. Find(u, CRLF) = IF Len(u) >= 2 THEN 1 ELSE 0
  BY <1>1, <1>2, FindBlank
<1>4. Len(u) >= 2 <=> a + 2 <= n
  BY <1>1
<1>5. HaveLine(p) <=> a + 2 <= n
  BY <1>3, <1>4 DEF HaveLine, u
<1>6. ASSUME a + 2 <= n
      PROVE  /\ Line(p) = <<>> /\ Find(p.buffer, CRLF) + 1 = 2
             /\ DropFirst(p.buffer, 2) = SubSeq(s, a + 2 + 1, n)
  <2>1. Find(u, CRLF) = 1
    BY <1>3, <1>4, <1>6
  <2>2. Line(p) = SubSeq(u, 1, 0)
    <3>1. Find(u, CRLF) - 1 = 0
      BY <2>1
    <3> QED BY <3>1 DEF Line, u
  <2>3. SubSeq(u, 1, 0) = <<>>
    BY <1>1
  <2>5. DropFirst(SubSeq(s, a + 1, n), 2) = SubSeq(s, a + 2 + 1, n)
    BY <1>6, DropOfSubSeq
  <2> QED BY <2>1, <2>2, <2>3, <2>5 DEF u
<1> QED BY <1>5, <1>6

\* A message x, at offset b of the stream, of which the parser has read the
\* symbols up to offset a.
InHeaders(m, x, head, j) ==
    /\ m \in MessageRecords /\ m.state = "HEADERS_PENDING"
    /\ m.first_line = x.first_line /\ m.request_was_head = head
    /\ m.headers = SubSeq(x.headers, 1, j) /\ m.body = <<>>
    /\ m.size = Unknown /\ m.chunks = NewChunks(FALSE)

InProgress(m, x, head, b, a) ==
    \/ m = NewMessage /\ a = b
    \/ \E j \in 0..Len(x.headers) : InHeaders(m, x, head, j) /\ a = b + 3 * j + 3
    \/ /\ m.state = "BODY_PENDING" /\ a - (b + BodyAt(x)) \in Nat
       /\ Holds(m, x, head, a - (b + BodyAt(x))) /\ BodyProgress(m, x, head)
    \/ /\ m.state = "COMPLETE" /\ Holds(m, x, head, Len(x.body))
       /\ a = b + BodyAt(x) + Len(x.body)

\* A step of parser p to r within a message: it takes the symbols up to c.
StepTo(r, p, s, n, c) ==
    /\ r \in ParserRecords /\ r.kind = p.kind /\ r.failed = p.failed
    /\ r.complete = p.complete /\ r.buffer = SubSeq(s, c + 1, n)

\* The first line.
LEMMA FirstLineStep ==
    ASSUME NEW s \in Seq(Symbols), NEW b \in Nat, NEW n \in Nat, b <= n, n <= Len(s),
           NEW x \in Messages, HoldsAt(s, b, x), NEW head \in BOOLEAN,
           NEW p \in ParserRecords, p.buffer = SubSeq(s, b + 1, n),
           p.message = NewMessage, b + 3 <= n,
           p.kind = "response" => p.heads # <<>> /\ Head(p.heads) = head,
           p.kind = "request" => ~head
    PROVE  LET r == FirstLine(p) IN
           /\ StepTo(r, p, s, n, b + 3) /\ InHeaders(r.message, x, head, 0)
           /\ r.heads = IF p.kind = "response" THEN Tail(p.heads) ELSE p.heads
<1> DEFINE r == FirstLine(p)
           u == SubSeq(s, b + 3 + 1, n)
           hs == IF p.kind = "response" THEN Tail(p.heads) ELSE p.heads
           f == x.first_line
<1>1. /\ Len(x.headers) \in Nat /\ f \in Symbols /\ x.headers \in Seq(Symbols)
      /\ Text(x, 0) = f
  BY MessageType DEF Text, Messages
<1>2. s[b + 1] = f /\ s[b + 2] = CR /\ s[b + 3] = LF
  <2>1. 0 \in 0..Len(x.headers)
    BY <1>1
  <2>2. /\ s[b + 3 * 0 + 1] = Text(x, 0)
        /\ s[b + 3 * 0 + 2] = CR /\ s[b + 3 * 0 + 3] = LF
    BY <2>1 DEF HoldsAt
  <2>3. b + 3 * 0 + 1 = b + 1 /\ b + 3 * 0 + 2 = b + 2 /\ b + 3 * 0 + 3 = b + 3
    OBVIOUS
  <2> QED BY <1>1, <2>2, <2>3
<1>3. /\ Line(p)[1] = f /\ Find(p.buffer, CRLF) + 1 = 3
      /\ DropFirst(p.buffer, 3) = u
  BY <1>2, TextLine
<1>4. u \in Seq(Symbols)
  <2>1. b + 3 \in Nat
    OBVIOUS
  <2> QED BY <2>1, SubSeqParts
<1>5. hs \in Seq(BOOLEAN)
  <2>1. p.heads \in Seq(BOOLEAN)
    BY DEF ParserRecords
  <2> QED BY <2>1, TailType
<1> DEFINE m == [NewMessage EXCEPT !.first_line = f, !.request_was_head = head,
                                   !.state = "HEADERS_PENDING"]
<1>6. r = [p EXCEPT !.buffer = u, !.message = m, !.heads = hs]
  <2>1. ~(p.kind = "response" /\ p.heads = <<>>)
    OBVIOUS
  <2>2. (p.kind = "response" /\ Head(p.heads)) = head
    <3>1. p.kind \in {"request", "response"}
      BY DEF ParserRecords
    <3> QED BY <3>1
  <2>3. PopLine(p) = [p EXCEPT !.buffer = u]
    BY <1>3 DEF PopLine
  <2>4. r = [PopLine(p) EXCEPT
                !.message.first_line = Line(p)[1],
                !.message.request_was_head = p.kind = "response" /\ Head(p.heads),
                !.message.state = "HEADERS_PENDING",
                !.heads = IF p.kind = "response" THEN Tail(@) ELSE @]
    BY <2>1 DEF FirstLine
  <2> HIDE DEF u
  <2> QED BY <1>3, <2>2, <2>3, <2>4 DEF ParserRecords
<1>7. InHeaders(m, x, head, 0)
  <2>1. NewMessage \in MessageRecords
    BY NewMessageType
  <2>2. NewMessage.headers = <<>> /\ NewMessage.body = <<>>
        /\ NewMessage.size = Unknown /\ NewMessage.chunks = NewChunks(FALSE)
    BY DEF NewMessage
  <2>3. SubSeq(x.headers, 1, 0) = <<>>
    BY <1>1
  <2> QED BY <1>1, <2>1, <2>2, <2>3 DEF InHeaders, MessageRecords
<1> HIDE DEF m, r, u, hs
<1>8. m \in MessageRecords
  BY <1>7 DEF InHeaders
<1>9. r \in ParserRecords /\ r.kind = p.kind /\ r.failed = p.failed
      /\ r.complete = p.complete /\ r.buffer = u /\ r.message = m /\ r.heads = hs
  BY <1>4, <1>5, <1>6, <1>8 DEF ParserRecords
<1> QED BY <1>7, <1>9 DEF StepTo, r, u, hs

\* Where the lines and the body of x are in the stream.
LEMMA LayoutOf ==
    ASSUME NEW s \in Seq(Symbols), NEW b \in Nat, NEW x \in Messages, HoldsAt(s, b, x)
    PROVE  /\ Len(x.headers) \in Nat /\ Len(x.body) \in Nat
           /\ BodyAt(x) = 3 * Len(x.headers) + 5
           /\ b + BodyAt(x) + Len(x.body) <= Len(s)
           /\ \A j \in 0..(Len(x.headers) - 1) : LET a == b + 3 * j + 3 IN
                 /\ a \in Nat /\ s[a + 1] = x.headers[j + 1]
                 /\ s[a + 2] = CR /\ s[a + 3] = LF
           /\ LET a == b + 3 * Len(x.headers) + 3 IN
                 a \in Nat /\ s[a + 1] = CR /\ s[a + 2] = LF
           /\ \A i \in 1..Len(x.body) : s[b + BodyAt(x) + i] = x.body[i]
<1> DEFINE h == Len(x.headers)
<1>1. h \in Nat /\ Len(x.body) \in Nat /\ BodyAt(x) = 3 * h + 5
  BY MessageType DEF BodyAt
<1>2. ASSUME NEW j \in 0..(h - 1)
      PROVE  LET a == b + 3 * j + 3 IN
             /\ a \in Nat /\ s[a + 1] = x.headers[j + 1]
             /\ s[a + 2] = CR /\ s[a + 3] = LF
  <2> DEFINE i == j + 1
             a == b + 3 * j + 3
  <2>1. /\ i \in 0..h /\ i # 0 /\ a \in Nat /\ b + 3 * i + 1 = a + 1
        /\ b + 3 * i + 2 = a + 2 /\ b + 3 * i + 3 = a + 3
    BY <1>1, <1>2
  <2> HIDE DEF i, a, h
  <2>2. s[b + 3 * i + 1] = Text(x, i)
        /\ s[b + 3 * i + 2] = CR /\ s[b + 3 * i + 3] = LF
    BY <2>1 DEF HoldsAt, h
  <2>3. Text(x, i) = x.headers[i]
    BY <2>1 DEF Text
  <2> QED BY <2>1, <2>2, <2>3 DEF i, a
<1>3. LET a == b + 3 * h + 3 IN a \in Nat /\ s[a + 1] = CR /\ s[a + 2] = LF
  <2> DEFINE a == b + 3 * h + 3
             body == BodyAt(x)
  <2>1. a \in Nat /\ b + body - 1 = a + 1 /\ b + body = a + 2
    BY <1>1
  <2>2. s[b + body - 1] = CR /\ s[b + body] = LF
    BY DEF HoldsAt
  <2> HIDE DEF a, body
  <2>3. s[a + 1] = CR /\ s[a + 2] = LF
    BY <2>1, <2>2
  <2> QED BY <2>1, <2>3 DEF a
<1> QED BY <1>1, <1>2, <1>3 DEF HoldsAt

\* A header.
HeaderTaken(r, p, s, n, a, x, head, j) ==
    /\ StepTo(r, p, s, n, a + 3) /\ InHeaders(r.message, x, head, j + 1)
    /\ r.heads = p.heads

\* A parsing step that reads a header line takes its three symbols and adds
\* that header to the message.
LEMMA HeaderStep ==
    ASSUME NEW s \in Seq(Symbols), NEW a \in Nat, NEW n \in Nat, a + 3 <= n, n <= Len(s),
           NEW x \in Messages, NEW head, NEW j \in 0..(Len(x.headers) - 1),
           s[a + 1] = x.headers[j + 1], s[a + 2] = CR, s[a + 3] = LF,
           NEW p \in ParserRecords, p.buffer = SubSeq(s, a + 1, n),
           InHeaders(p.message, x, head, j)
    PROVE  HeaderTaken(HeaderLine(p), p, s, n, a, x, head, j)
<1> DEFINE r == HeaderLine(p)
           u == SubSeq(s, a + 3 + 1, n)
           hs == x.headers
           m == p.message
           c == SubSeq(hs, 1, j + 1)
           y == [m EXCEPT !.headers = c]
<1>1. hs \in Seq(Symbols) /\ Len(hs) \in Nat /\ j \in Nat /\ j + 1 <= Len(hs)
      /\ j + 1 \in 1..Len(hs)
  BY MessageType
<1>2. /\ Line(p) # <<>> /\ Line(p)[1] = hs[j + 1]
      /\ Find(p.buffer, CRLF) + 1 = 3 /\ DropFirst(p.buffer, 3) = u
  <2>1. a <= n
    OBVIOUS
  <2> QED BY <2>1, TextLine
<1>3. u \in Seq(Symbols)
  <2>1. a + 3 \in Nat
    OBVIOUS
  <2> QED BY <2>1, SubSeqParts
<1>4. Append(SubSeq(hs, 1, j), hs[j + 1]) = c /\ c \in Seq(Symbols)
  BY <1>1
<1>5. /\ m \in MessageRecords /\ m.headers = SubSeq(hs, 1, j)
  BY DEF InHeaders
<1>6. r = [p EXCEPT !.buffer = u, !.message = y]
  <2>1. r = [PopLine(p) EXCEPT !.message.headers = Append(@, Line(p)[1])]
    BY <1>2 DEF HeaderLine
  <2>2. PopLine(p) = [p EXCEPT !.buffer = u]
    BY <1>2 DEF PopLine
  <2> HIDE DEF u, c
  <2>3. [p EXCEPT !.buffer = u].message.headers = m.headers
    BY DEF ParserRecords
  <2> QED BY <1>2, <1>4, <1>5, <2>1, <2>2, <2>3 DEF ParserRecords
<1> HIDE DEF c, u
<1>7. InHeaders(y, x, head, j + 1)
  BY <1>4, <1>5 DEF InHeaders, MessageRecords, c
<1> HIDE DEF y, r
<1>8. y \in MessageRecords
  BY <1>7 DEF InHeaders
<1>9. r \in ParserRecords /\ r.kind = p.kind /\ r.failed = p.failed
      /\ r.complete = p.complete /\ r.buffer = u /\ r.message = y /\ r.heads = p.heads
  BY <1>3, <1>6, <1>8 DEF ParserRecords
<1> QED BY <1>7, <1>9 DEF StepTo, HeaderTaken, r, u

\* The blank line after the headers.
LEMMA BlankStep ==
    ASSUME NEW s \in Seq(Symbols), NEW a \in Nat, NEW n \in Nat, a + 2 <= n, n <= Len(s),
           s[a + 1] = CR, s[a + 2] = LF,
           NEW p \in ParserRecords, p.buffer = SubSeq(s, a + 1, n),
           NEW x, NEW head, WellFramed(x, head, p.kind),
           InHeaders(p.message, x, head, Len(x.headers))
    PROVE  LET r == HeaderLine(p) IN
           /\ StepTo(r, p, s, n, a + 2) /\ r.message.state = "BODY_PENDING"
           /\ Holds(r.message, x, head, 0) /\ BodyProgress(r.message, x, head)
           /\ r.heads = p.heads
<1> DEFINE r == HeaderLine(p)
           u == SubSeq(s, a + 2 + 1, n)
           m == p.message
           d == [m EXCEPT !.state = "BODY_PENDING"]
           y == calculate_expected_body_size(d)
<1>1. x \in Messages /\ x.headers \in Seq(Symbols) /\ x.body \in Seq(Symbols)
      /\ Len(x.body) \in Nat
  <2>1. x \in Messages
    BY DEF WellFramed
  <2> QED BY <2>1, MessageType
<1>2. Line(p) = <<>> /\ Find(p.buffer, CRLF) + 1 = 2 /\ DropFirst(p.buffer, 2) = u
  <2>1. a <= n
    OBVIOUS
  <2> QED BY <2>1, BlankLine
<1>3. u \in Seq(Symbols)
  <2>1. a + 2 \in Nat
    OBVIOUS
  <2> QED BY <2>1, SubSeqParts
<1>4. /\ m \in MessageRecords /\ m.first_line = x.first_line
      /\ m.headers = x.headers /\ m.request_was_head = head /\ m.body = <<>>
      /\ m.size = Unknown /\ m.chunks = NewChunks(FALSE)
  <2>1. SubSeq(x.headers, 1, Len(x.headers)) = x.headers
    BY <1>1
  <2> QED BY <2>1 DEF InHeaders
<1>5. /\ d \in MessageRecords /\ d.first_line = x.first_line
      /\ d.headers = x.headers /\ d.request_was_head = head /\ d.body = <<>>
      /\ d.size = Unknown /\ d.chunks = NewChunks(FALSE)
      /\ d.state = "BODY_PENDING"
  BY <1>4 DEF MessageRecords
<1>6. ~Unsupported(m, p.kind)
  BY <1>4, ExpectedSize
<1>7. /\ y \in MessageRecords /\ y.state = "BODY_PENDING"
      /\ y.first_line = x.first_line /\ y.headers = x.headers
      /\ y.body = <<>> /\ BodyProgress(y, x, head)
  <2> HIDE DEF d
  <2> QED BY <1>5, ExpectedSize
<1>8. r = [p EXCEPT !.buffer = u, !.message = y]
  <2>1. r = [PopLine(p) EXCEPT
                !.message = calculate_expected_body_size(
                                [@ EXCEPT !.state = "BODY_PENDING"])]
    BY <1>2, <1>6 DEF HeaderLine
  <2>2. PopLine(p) = [p EXCEPT !.buffer = u]
    BY <1>2 DEF PopLine
  <2> HIDE DEF u
  <2>3. [p EXCEPT !.buffer = u].message = m
    BY DEF ParserRecords
  <2>4. r = [[p EXCEPT !.buffer = u] EXCEPT !.message = y]
    BY <2>1, <2>2, <2>3
  <2> HIDE DEF y, r
  <2> QED BY <2>4 DEF ParserRecords
<1> HIDE DEF y, r, u
<1>9. r \in ParserRecords /\ r.kind = p.kind /\ r.failed = p.failed
      /\ r.complete = p.complete /\ r.buffer = u /\ r.message = y /\ r.heads = p.heads
  BY <1>3, <1>7, <1>8 DEF ParserRecords
<1>10. Holds(y, x, head, 0)
  <2>1. SubSeq(x.body, 1, 0) = <<>>
    BY <1>1
  <2> QED BY <1>1, <1>7, <2>1 DEF Holds
<1> QED BY <1>7, <1>9, <1>10 DEF StepTo, r, u

\* Symbols of the body of x, which ends at offset e; c is how far they are read.
BodyStepped(r, p, s, n, x, head, b, e, c) ==
    /\ StepTo(r, p, s, n, c) /\ c \in Nat /\ c - (b + BodyAt(x)) \in Nat
    /\ Holds(r.message, x, head, c - (b + BodyAt(x)))
    /\ r.heads = p.heads
    /\ IF e <= n /\ ~UntilEof(x, head)
       THEN r.message.state = "COMPLETE" /\ c = e
       ELSE /\ r.message.state = "BODY_PENDING" /\ c = n
            /\ BodyProgress(r.message, x, head)

\* A parsing step that reads from a body takes what there is of the body and
\* nothing of the next message, and completes the message exactly at its end.
LEMMA BodyStep ==
    ASSUME NEW s \in Seq(Symbols), NEW b \in Nat, NEW n \in Nat, n <= Len(s),
           NEW p \in ParserRecords,
           NEW x, NEW head, WellFramed(x, head, p.kind), HoldsAt(s, b, x),
           NEW q \in Nat, b + BodyAt(x) + q <= n,
           p.buffer = SubSeq(s, b + BodyAt(x) + q + 1, n),
           ~p.failed, p.message.state = "BODY_PENDING", Holds(p.message, x, head, q),
           BodyProgress(p.message, x, head),
           NEW e, e = b + BodyAt(x) + Len(x.body),
           UntilEof(x, head) => n <= e,
           NEW c, c = IF n <= e THEN n ELSE e
    PROVE  BodyStepped(ReadBody(p), p, s, n, x, head, b, e, c)
<1> DEFINE r == ReadBody(p)
           u == p.buffer
           bd == b + BodyAt(x)
           l == Len(x.body)
           a == bd + q
           k == Len(u)
           m == IF q + k <= l THEN k ELSE l - q
           y == read_in_body(p.message, u)
<1>1. /\ x \in Messages /\ x.body \in Seq(Symbols) /\ l \in Nat /\ bd \in Nat
      /\ BodyAt(x) \in Nat /\ q <= l /\ bd + l <= Len(s) /\ e = bd + l
      /\ \A i \in 1..l : s[bd + i] = x.body[i]
  <2>1. x \in Messages
    BY DEF WellFramed
  <2>2. x.body \in Seq(Symbols) /\ BodyAt(x) \in Nat /\ q <= l
    BY <2>1, MessageType DEF Holds
  <2>3. /\ Len(x.body) \in Nat /\ b + BodyAt(x) + Len(x.body) <= Len(s)
        /\ \A i \in 1..Len(x.body) : s[b + BodyAt(x) + i] = x.body[i]
    BY <2>1, LayoutOf
  <2> QED BY <2>1, <2>2, <2>3
<1> HIDE DEF l, bd, k
<1>2. a \in Nat /\ a <= n
  <2>1. bd \in Nat /\ q \in Nat /\ bd + q <= n
    BY <1>1 DEF bd
  <2> QED BY ONLY <2>1
<1>3. u \in Seq(Symbols) /\ k = n - a /\ \A i \in 1..(n - a) : u[i] = s[a + i]
  <2> HIDE DEF a
  <2>1. u = SubSeq(s, a + 1, n)
    BY DEF a, bd
  <2> DEFINE v == SubSeq(s, a + 1, n)
  <2>2. v \in Seq(Symbols) /\ Len(v) = n - a /\ \A i \in 1..(n - a) : v[i] = s[a + i]
    BY <1>2, SubSeqParts
  <2>3. u = v
    BY <2>1
  <2> HIDE DEF u, v
  <2> QED BY <2>2, <2>3 DEF k
<1>4. Follows(u, DropFirst(x.body, q))
  <2>1. q \in 0..Len(x.body)
    BY <1>1 DEF l
  <2>2. /\ Len(DropFirst(x.body, q)) = l - q
        /\ \A i \in 1..(l - q) : DropFirst(x.body, q)[i] = x.body[q + i]
    BY <1>1, <2>1, DropFirstProperties DEF l
  <2> SUFFICES ASSUME NEW i \in 1..(l - q), i <= k
               PROVE  u[i] = DropFirst(x.body, q)[i]
    BY <2>2 DEF Follows, k
  <2> HIDE DEF u
  <2>3. i \in 1..(n - a) /\ q + i \in 1..l /\ a + i = bd + (q + i)
    BY <1>1, <1>2, <1>3
  <2>4. u[i] = s[a + i] /\ s[bd + (q + i)] = x.body[q + i]
    BY <1>1, <1>3, <2>3
  <2> QED BY <2>2, <2>3, <2>4
<1>5. /\ n \in Nat /\ k \in Nat /\ q + k = n - bd
      /\ UntilEof(x, head) => q + k <= l
      /\ (q + k <= l <=> n <= e) /\ (q + k >= l <=> e <= n)
      /\ c = a + m /\ m \in Nat /\ m <= k /\ c = bd + (q + m)
      /\ (m = k => c = n) /\ (q + m = l => c = e) /\ c <= n
      /\ c \in Nat /\ c - bd = q + m /\ q + m \in Nat
  <2> HIDE DEF u
  <2>1. /\ bd + q <= n /\ k = n - (bd + q) /\ m = IF q + k <= l THEN k ELSE l - q
        /\ bd \in Nat /\ l \in Nat /\ q \in Nat /\ q <= l /\ n \in Nat
        /\ e = bd + l /\ c = IF n <= e THEN n ELSE e
    BY <1>1, <1>2, <1>3
  <2> HIDE DEF m
  <2>2. /\ k \in Nat /\ q + k = n - bd
        /\ (q + k <= l <=> n <= e) /\ (q + k >= l <=> e <= n)
        /\ m \in Nat /\ m <= k /\ c = bd + q + m /\ c = bd + (q + m) /\ c <= n
        /\ (m = k => c = n) /\ (q + m = l => c = e)
        /\ c \in Nat /\ c - bd = q + m /\ q + m \in Nat
    BY ONLY <2>1
  <2>3. UntilEof(x, head) => q + k <= l
    BY <2>2
  <2> QED BY <2>2, <2>3
<1>6. /\ y.taken = m /\ m <= Len(u)
      /\ Holds(y.message, x, head, q + m)
      /\ IF q + k >= l /\ ~UntilEof(x, head)
         THEN y.message.state = "COMPLETE" /\ q + m = l
         ELSE /\ y.message.state = "BODY_PENDING" /\ m = k
              /\ BodyProgress(y.message, x, head)
  <2> DEFINE o == p.message
             kind == p.kind
             g == HowMany(x, q, u)
  <2>1. UntilEof(x, head) => q + Len(u) <= Len(x.body)
    BY <1>5 DEF l, k
  <2>2. BodyRead(y, x, head, q, u, g)
    <3>1. /\ u \in Seq(Symbols) /\ WellFramed(x, head, kind)
          /\ Holds(o, x, head, q) /\ BodyProgress(o, x, head)
          /\ o.state = "BODY_PENDING" /\ y = read_in_body(o, u)
      BY <1>3
    <3> HIDE DEF u, o, kind, y
    <3>2. BodyRead(read_in_body(o, u), x, head, q, u, g)
      BY <1>4, <2>1, <3>1, ReadsBody
    <3> QED BY <3>1, <3>2
  <2>3. g = m
    BY DEF HowMany, l, k
  <2> HIDE DEF y, u, o, kind, g, m
  <2> QED BY <2>2, <2>3 DEF BodyRead, l, k
<1> HIDE DEF m
<1>7. r = [p EXCEPT !.message = y.message, !.buffer = DropFirst(u, m), !.failed = FALSE]
  <2> HIDE DEF y, u
  <2> DEFINE R(z) == [p EXCEPT !.message = z.message, !.buffer = DropFirst(@, z.taken),
                               !.failed = z.message.chunks.state = "FAILED"]
  <2>1. r = The({R(z) : z \in {y}})
    BY DEF ReadBody, y, u
  <2>2. {R(z) : z \in {y}} = {R(y)}
    OBVIOUS
  <2>3. r = R(y)
    BY <2>1, <2>2, TheOne
  <2>4. (y.message.chunks.state = "FAILED") = FALSE
    <3>1. y.message \in MessageRecords
      BY <1>6 DEF Holds
    <3> QED BY <3>1 DEF MessageRecords, ChunkParsers
  <2>5. R(y) = [p EXCEPT !.message = y.message, !.buffer = DropFirst(u, m),
                         !.failed = FALSE]
    BY <1>6, <2>4 DEF ParserRecords, u
  <2> QED BY <2>3, <2>5
<1>8. DropFirst(u, m) = SubSeq(s, c + 1, n) /\ SubSeq(s, c + 1, n) \in Seq(Symbols)
  <2>1. u = SubSeq(s, a + 1, n)
    BY DEF a, bd
  <2>2. a + m <= n
    BY <1>5
  <2> HIDE DEF a, u
  <2>3. DropFirst(SubSeq(s, a + 1, n), m) = SubSeq(s, a + m + 1, n)
    BY <1>2, <1>5, <2>2, DropOfSubSeq
  <2>4. SubSeq(s, c + 1, n) \in Seq(Symbols)
    BY <1>2, <1>5, SubSeqParts
  <2> QED BY <1>5, <2>1, <2>3, <2>4
<1> HIDE DEF r, y
<1>9. y.message \in MessageRecords
  BY <1>6 DEF Holds
<1>10. /\ r \in ParserRecords /\ r.kind = p.kind /\ r.failed = p.failed
       /\ r.complete = p.complete /\ r.buffer = SubSeq(s, c + 1, n)
       /\ r.message = y.message /\ r.heads = p.heads
  BY <1>7, <1>8, <1>9 DEF ParserRecords
<1> QED BY <1>5, <1>6, <1>10 DEF StepTo, BodyStepped, r, bd, l
-----------------------------------------------------------------------------
(* The parser and the stream                                               *)

\* Well-formed messages; w tells which of the responses answer a HEAD.
Streamed(kind, all, w) ==
    /\ kind \in {"request", "response"}
    /\ all \in Seq(Messages) /\ Len(all) > 0 /\ w \in [1..Len(all) -> BOOLEAN]
    /\ \A k \in 1..Len(all) :
          /\ WellFramed(all[k], w[k], kind)
          /\ UntilEof(all[k], w[k]) => k = Len(all)
          /\ kind = "request" => ~w[k]

\* The first n symbols of them have been read, and known requests were passed on
\* before: no response has more.
Setting(kind, all, w, known, n) ==
    /\ Streamed(kind, all, w)
    /\ known \in 0..Len(all) /\ n \in Nat /\ n <= End(all, known)

All(all) == First(all, Len(all))

\* m is message k, parsed up to offset a; e when the stream has ended.
MessageAt(m, all, w, k, a, e) ==
    /\ k \in 1..(Len(all) + 1)
    /\ k <= Len(all) =>
          /\ InProgress(m, all[k], w[k], End(all, k - 1), a)
          /\ m.state = "COMPLETE" /\ UntilEof(all[k], w[k]) <=> e
    /\ k = Len(all) + 1 =>
          /\ m = NewMessage /\ a = End(all, Len(all))
          /\ UntilEof(all[Len(all)], w[Len(all)]) => e

\* The requests that responses to come answer: those from number j + 1 on.
HeadsFrom(heads, w, known, j) ==
    j <= known /\ heads = [i \in 1..(known - j) |-> w[j + i]]

Begun(m, k) == IF m.state = "FIRST_LINE_PENDING" THEN k - 1 ELSE k

StandsAt(p, kind, all, w, known, n, e, k, a) ==
    /\ p \in ParserRecords /\ p.kind = kind /\ ~p.failed
    /\ a \in Nat /\ a <= n /\ p.buffer = SubSeq(All(all), a + 1, n)
    /\ MessageAt(p.message, all, w, k, a, e)
    /\ kind = "response" => HeadsFrom(p.heads, w, known, Begun(p.message, k))
    /\ e \in BOOLEAN
    /\ e => n = End(all, Len(all))

\* Nothing more of message k can be parsed.
Quiet(p, all, w, n, k) ==
    k <= Len(all) =>
       \/ n < End(all, k)
       \/ /\ UntilEof(all[k], w[k]) /\ p.message.state = "BODY_PENDING"
          /\ p.buffer = <<>>

\* The steps that may be left to parsing_step().
Weight(state) ==
    IF state = "FIRST_LINE_PENDING" THEN 0 ELSE IF state = "BODY_PENDING" THEN 2 ELSE 1
Left(p) == Len(p.buffer) + Weight(p.message.state)

\* A step from p to r within message k.
Moves(r, p, kind, all, w, known, n, e, k) ==
    /\ r.complete = p.complete
    /\ \E a : StandsAt(r, kind, all, w, known, n, e, k, a)
    /\ \/ Quiet(r, all, w, n, k)
       \/ ~Quiet(p, all, w, n, k) /\ Left(r) < Left(p)

\* What a setting says of message k of the stream.
LEMMA Standing ==
    ASSUME NEW kind, NEW all, NEW w, NEW known, NEW n,
           Setting(kind, all, w, known, n), NEW k \in 1..Len(all)
    PROVE  /\ All(all) \in Seq(Symbols) /\ n \in Nat /\ n <= Len(All(all))
           /\ Len(All(all)) = End(all, Len(all)) /\ End(all, Len(all)) \in Nat
           /\ all[k] \in Messages /\ w[k] \in BOOLEAN
           /\ WellFramed(all[k], w[k], kind)
           /\ kind = "request" => ~w[k]
           /\ End(all, k - 1) \in Nat /\ HoldsAt(All(all), End(all, k - 1), all[k])
           /\ End(all, k) = End(all, k - 1) + BodyAt(all[k]) + Len(all[k].body)
           /\ UntilEof(all[k], w[k]) => k = Len(all) /\ n <= End(all, k)
           /\ Len(all[k].headers) \in Nat /\ Len(all[k].body) \in Nat
           /\ BodyAt(all[k]) = 3 * Len(all[k].headers) + 5
           /\ End(all, k - 1) < n => k - 1 < known
           /\ End(all, k) \in Nat /\ End(all, k) >= End(all, k - 1) + 5
<1>1. /\ all \in Seq(Messages) /\ w \in [1..Len(all) -> BOOLEAN]
      /\ WellFramed(all[k], w[k], kind)
      /\ kind = "request" => ~w[k]
      /\ UntilEof(all[k], w[k]) => k = Len(all)
      /\ known \in 0..Len(all) /\ n \in Nat /\ n <= End(all, known)
      /\ Len(all) \in 0..Len(all) /\ known <= Len(all) /\ w[k] \in BOOLEAN
  BY DEF Setting, Streamed
<1>2. /\ All(all) \in Seq(Symbols) /\ Len(All(all)) = End(all, Len(all))
      /\ End(all, Len(all)) \in Nat /\ End(all, known) \in Nat
  BY <1>1, StreamType DEF All, End
<1>3. End(all, known) <= End(all, Len(all))
  BY <1>1, EndsIncrease
<1>4. /\ all[k] \in Messages /\ End(all, k - 1) \in Nat
      /\ End(all, k) = End(all, k - 1) + BodyAt(all[k]) + Len(all[k].body)
      /\ HoldsAt(All(all), End(all, k - 1), all[k])
  BY <1>1, StreamLayout DEF All
<1>5. /\ Len(all[k].headers) \in Nat /\ Len(all[k].body) \in Nat
      /\ BodyAt(all[k]) = 3 * Len(all[k].headers) + 5
  BY <1>4, MessageType DEF BodyAt
<1>6. ASSUME End(all, k - 1) < n PROVE k - 1 < known
  <2>1. k - 1 \in 0..Len(all)
    OBVIOUS
  <2>2. known <= k - 1 => End(all, known) <= End(all, k - 1)
    BY <1>1, <2>1, EndsIncrease
  <2>3. ~(End(all, known) <= End(all, k - 1))
    BY <1>1, <1>2, <1>4, <1>6
  <2> QED BY <1>1, <2>2, <2>3
<1>7. n <= Len(All(all))
  BY <1>1, <1>2, <1>3
<1>8. UntilEof(all[k], w[k]) => n <= End(all, k)
  BY <1>1, <1>2, <1>3
<1>9. End(all, k) \in Nat /\ End(all, k) >= End(all, k - 1) + 5
  <2> DEFINE h == Len(all[k].headers)
             l == Len(all[k].body)
             b == End(all, k - 1)
  <2>1. h \in Nat /\ l \in Nat /\ b \in Nat /\ End(all, k) = b + (3 * h + 5) + l
    BY <1>4, <1>5
  <2> HIDE DEF h, l, b
  <2>2. End(all, k) \in Nat /\ End(all, k) >= b + 5
    BY ONLY <2>1
  <2> QED BY <2>2 DEF b
<1> QED BY <1>1, <1>2, <1>4, <1>5, <1>6, <1>7, <1>8, <1>9

\* The symbols left to parse.
LEMMA LeftToParse ==
    ASSUME NEW s \in Seq(Symbols), NEW n \in Nat, n <= Len(s), NEW a \in Nat, a <= n
    PROVE  /\ Len(SubSeq(s, a + 1, n)) = n - a
           /\ SubSeq(s, a + 1, n) = <<>> <=> a = n
<1>1. SubSeq(s, a + 1, n) \in Seq(Symbols) /\ Len(SubSeq(s, a + 1, n)) = n - a
  BY SubSeqParts
<1> DEFINE u == SubSeq(s, a + 1, n)
<1>2. u \in Seq(Symbols) /\ Len(u) = n - a
  BY <1>1
<1> HIDE DEF u
<1>3. u = <<>> <=> a = n
  BY <1>2
<1> QED BY <1>2, <1>3 DEF u

\* Taking the next of the known heads.
LEMMA HeadOfHeads ==
    ASSUME NEW w, NEW known \in Nat, NEW j \in Nat, j < known, NEW heads,
           heads \in Seq(BOOLEAN), HeadsFrom(heads, w, known, j)
    PROVE  /\ heads # <<>> /\ Head(heads) = w[j + 1]
           /\ HeadsFrom(Tail(heads), w, known, j + 1)
<1> DEFINE l == known - j
           t == [i \in 1..(known - (j + 1)) |-> w[(j + 1) + i]]
<1>1. /\ l \in Nat /\ l > 0 /\ heads = [i \in 1..l |-> w[j + i]] /\ Len(heads) = l
      /\ 1 \in 1..l
  BY DEF HeadsFrom
<1>2. heads # <<>> /\ Head(heads) = heads[1] /\ heads[1] = w[j + 1]
  BY <1>1
<1>3. /\ Tail(heads) \in Seq(BOOLEAN) /\ Len(Tail(heads)) = l - 1
      /\ \A i \in 1..(l - 1) : Tail(heads)[i] = heads[i + 1]
  <2>1. Len(heads) = l
    BY <1>1
  <2> HIDE DEF l
  <2> QED BY <1>2, <2>1, TailType
<1>4. known - (j + 1) = l - 1 /\ l - 1 \in Nat
  BY <1>1
<1>5. t \in [1..(l - 1) -> BOOLEAN]
  <2>1. ASSUME NEW i \in 1..(l - 1) PROVE w[(j + 1) + i] \in BOOLEAN
    <3>1. i + 1 \in 1..l /\ j + (i + 1) = (j + 1) + i
      BY <1>1
    <3>2. heads[i + 1] \in BOOLEAN /\ heads[i + 1] = w[j + (i + 1)]
      BY <1>1, <3>1
    <3> QED BY <3>1, <3>2
  <2> QED BY <1>4, <2>1
<1>6. \A i \in 1..(l - 1) : t[i] = Tail(heads)[i]
  <2> SUFFICES ASSUME NEW i \in 1..(l - 1) PROVE t[i] = Tail(heads)[i]
    OBVIOUS
  <2>1. i + 1 \in 1..l /\ j + (i + 1) = (j + 1) + i
    BY <1>1
  <2>2. Tail(heads)[i] = w[j + (i + 1)]
    BY <1>1, <1>3, <2>1
  <2> QED BY <1>4, <2>1, <2>2
<1>7. t = Tail(heads)
  <2> HIDE DEF t, l
  <2>1. t \in Seq(BOOLEAN) /\ Len(t) = l - 1
    BY <1>4, <1>5
  <2> QED BY <1>3, <1>6, <2>1, SameSeq
<1>8. j + 1 <= known
  OBVIOUS
<1> QED BY <1>2, <1>7, <1>8 DEF HeadsFrom


\* The parser that stands in message k, and what there is for it.
Ongoing(p, kind, all, w, known, n, e, k, a) ==
    /\ p \in ParserRecords /\ p.kind = kind /\ ~p.failed
    /\ a \in Nat /\ a <= n /\ p.buffer = SubSeq(All(all), a + 1, n)
    /\ Len(p.buffer) = n - a
    /\ InProgress(p.message, all[k], w[k], End(all, k - 1), a)
    /\ p.message.state = "COMPLETE" /\ UntilEof(all[k], w[k]) <=> e
    /\ kind = "response" => HeadsFrom(p.heads, w, known, Begun(p.message, k))

\* A parser that stands at offset a, within message k, has read the parts of
\* that message before a.
LEMMA MessageInProgress ==
    ASSUME NEW kind, NEW all, NEW w, NEW known, NEW n, Setting(kind, all, w, known, n),
           NEW e, NEW k \in 1..Len(all), NEW a, NEW p,
           StandsAt(p, kind, all, w, known, n, e, k, a)
    PROVE  Ongoing(p, kind, all, w, known, n, e, k, a)
<1>1. k <= Len(all)
  OBVIOUS
<1>2. MessageAt(p.message, all, w, k, a, e)
  BY DEF StandsAt
<1>3. /\ p \in ParserRecords /\ p.kind = kind /\ ~p.failed
      /\ a \in Nat /\ a <= n /\ p.buffer = SubSeq(All(all), a + 1, n)
      /\ kind = "response" => HeadsFrom(p.heads, w, known, Begun(p.message, k))
  BY DEF StandsAt
<1>4. Len(SubSeq(All(all), a + 1, n)) = n - a
  BY <1>3, Standing, LeftToParse
<1> QED BY <1>1, <1>2, <1>3, <1>4 DEF MessageAt, Ongoing

\* A step within message k to r leads to where r stands.
LEMMA StandsAgain ==
    ASSUME NEW kind, NEW all, NEW w, NEW known, NEW n, Setting(kind, all, w, known, n),
           NEW e, NEW k \in 1..Len(all), NEW a, NEW p,
           StandsAt(p, kind, all, w, known, n, e, k, a),
           NEW r, NEW c \in Nat, c <= n, StepTo(r, p, All(all), n, c),
           InProgress(r.message, all[k], w[k], End(all, k - 1), c),
           r.message.state = "COMPLETE" /\ UntilEof(all[k], w[k]) <=> e,
           kind = "response" => HeadsFrom(r.heads, w, known, Begun(r.message, k))
    PROVE  /\ StandsAt(r, kind, all, w, known, n, e, k, c)
           /\ Len(r.buffer) = n - c /\ r.complete = p.complete
           /\ r.buffer = <<>> <=> c = n
<1>1. /\ r \in ParserRecords /\ r.kind = p.kind /\ r.failed = p.failed
      /\ r.buffer = SubSeq(All(all), c + 1, n) /\ r.complete = p.complete
  BY DEF StepTo
<1>2. p.kind = kind /\ ~p.failed /\ e \in BOOLEAN /\ (e => n = End(all, Len(all)))
  BY DEF StandsAt
<1>3. /\ Len(SubSeq(All(all), c + 1, n)) = n - c
      /\ SubSeq(All(all), c + 1, n) = <<>> <=> c = n
  BY Standing, LeftToParse
<1>4. k \in 1..(Len(all) + 1) /\ ~(k = Len(all) + 1)
  <2>1. Len(all) \in Nat
    BY DEF Setting, Streamed
  <2> QED BY <2>1
<1>5. MessageAt(r.message, all, w, k, c, e)
  BY <1>4 DEF MessageAt
<1>6. StandsAt(r, kind, all, w, known, n, e, k, c)
  BY <1>1, <1>2, <1>5 DEF StandsAt
<1> QED BY <1>1, <1>3, <1>6

\* The states of a message in progress.
LEMMA StatesInProgress ==
    ASSUME NEW m, NEW x, NEW head, NEW b, NEW a, InProgress(m, x, head, b, a)
    PROVE  /\ m.state = "FIRST_LINE_PENDING" => m = NewMessage /\ a = b
           /\ m.state = "HEADERS_PENDING" =>
                 \E j \in 0..Len(x.headers) :
                    InHeaders(m, x, head, j) /\ a = b + 3 * j + 3
           /\ m.state = "BODY_PENDING" =>
                 /\ a - (b + BodyAt(x)) \in Nat
                 /\ Holds(m, x, head, a - (b + BodyAt(x))) /\ BodyProgress(m, x, head)
           /\ m.state = "COMPLETE" =>
                 /\ Holds(m, x, head, Len(x.body))
                 /\ a = b + BodyAt(x) + Len(x.body)
           /\ m.state \in {"FIRST_LINE_PENDING", "HEADERS_PENDING", "BODY_PENDING",
                           "COMPLETE"}
<1>1. NewMessage.state = "FIRST_LINE_PENDING"
  BY DEF NewMessage
<1>2. \A j : InHeaders(m, x, head, j) => m.state = "HEADERS_PENDING"
  BY DEF InHeaders
<1> QED BY <1>1, <1>2 DEF InProgress

\* FIRST_LINE_PENDING
LEMMA FirstLineMoves ==
    ASSUME NEW kind, NEW all, NEW w, NEW known, NEW n, Setting(kind, all, w, known, n),
           NEW e, NEW k \in 1..Len(all), NEW a, NEW p,
           StandsAt(p, kind, all, w, known, n, e, k, a),
           p.message.state = "FIRST_LINE_PENDING"
    PROVE  Moves(parsing_step(p), p, kind, all, w, known, n, e, k)
<1> DEFINE s == All(all)
           x == all[k]
           head == w[k]
           b == End(all, k - 1)
           r == parsing_step(p)
<1>1. /\ s \in Seq(Symbols) /\ n \in Nat /\ n <= Len(s) /\ x \in Messages
      /\ head \in BOOLEAN /\ b \in Nat /\ HoldsAt(s, b, x)
      /\ (kind = "request" => ~head)
      /\ End(all, k) = b + BodyAt(x) + Len(x.body)
      /\ Len(x.headers) \in Nat /\ Len(x.body) \in Nat
      /\ BodyAt(x) = 3 * Len(x.headers) + 5 /\ (b < n => k - 1 < known)
      /\ End(all, k) \in Nat /\ End(all, k) >= b + 5
  BY Standing
<1>2. /\ p \in ParserRecords /\ p.kind = kind /\ ~p.failed
      /\ a \in Nat /\ a <= n /\ p.buffer = SubSeq(s, a + 1, n) /\ Len(p.buffer) = n - a
      /\ InProgress(p.message, x, head, b, a)
      /\ (p.message.state = "COMPLETE" /\ UntilEof(x, head) <=> e)
      /\ (kind = "response" => HeadsFrom(p.heads, w, known, Begun(p.message, k)))
  <2>1. Ongoing(p, kind, all, w, known, n, e, k, a)
    BY MessageInProgress
  <2> QED BY <2>1 DEF Ongoing
<1>3. p.message = NewMessage /\ a = b
  BY <1>2, StatesInProgress
<1> HIDE DEF s, x, head, b
<1>4. s[b + 1] = x.first_line /\ s[b + 2] = CR /\ s[b + 3] = LF
  <2>1. 0 \in 0..Len(x.headers)
    BY <1>1
  <2>2. s[b + 3 * 0 + 2] = CR /\ s[b + 3 * 0 + 3] = LF
        /\ s[b + 3 * 0 + 1] = Text(x, 0)
    BY <1>1, <2>1 DEF HoldsAt
  <2>3. b + 3 * 0 + 1 = b + 1 /\ b + 3 * 0 + 2 = b + 2 /\ b + 3 * 0 + 3 = b + 3
    BY <1>1
  <2> QED BY <2>2, <2>3 DEF Text
<1>5. HaveLine(p) <=> b + 3 <= n
  <2>1. b <= n /\ p.buffer = SubSeq(s, b + 1, n)
    BY <1>2, <1>3
  <2> QED BY <1>1, <1>2, <1>4, <2>1, TextLine
<1>6. CASE ~(b + 3 <= n)
  <2>1. r = p
    BY <1>2, <1>5, <1>6 DEF parsing_step
  <2>2. n < End(all, k)
    <3>1. n \in Nat /\ b \in Nat /\ End(all, k) \in Nat /\ End(all, k) >= b + 5
      BY <1>1
    <3> QED BY ONLY <1>6, <3>1
  <2> QED BY <2>1, <2>2 DEF Moves, Quiet
<1>7. CASE b + 3 <= n
  <2>1. r = FirstLine(p)
    BY <1>2, <1>5, <1>7 DEF parsing_step
  <2> HIDE DEF r
  <2>2. k - 1 < known /\ known \in Nat /\ k - 1 \in Nat
    <3>1. known \in Nat
      BY DEF Setting
    <3> QED BY <1>1, <1>7, <3>1
  <2>3. Begun(p.message, k) = k - 1
    BY DEF Begun
  <2>4. kind = "response" => /\ p.heads # <<>> /\ Head(p.heads) = head
                             /\ HeadsFrom(Tail(p.heads), w, known, k)
    <3> SUFFICES ASSUME kind = "response"
                 PROVE  /\ p.heads # <<>> /\ Head(p.heads) = head
                        /\ HeadsFrom(Tail(p.heads), w, known, k)
      OBVIOUS
    <3> DEFINE heads == p.heads
               j == k - 1
    <3>1. heads \in Seq(BOOLEAN) /\ HeadsFrom(heads, w, known, j)
      BY <1>2, <2>3 DEF ParserRecords
    <3>2. j \in Nat /\ j < known /\ j + 1 = k
      BY <2>2
    <3> HIDE DEF heads, j
    <3>3. heads # <<>> /\ Head(heads) = w[j + 1] /\ HeadsFrom(Tail(heads), w, known, j + 1)
      BY <2>2, <3>1, <3>2, HeadOfHeads
    <3> QED BY <3>2, <3>3 DEF heads, head
  <2>5. /\ StepTo(r, p, s, n, b + 3) /\ InHeaders(r.message, x, head, 0)
        /\ r.heads = IF p.kind = "response" THEN Tail(p.heads) ELSE p.heads
    <3>1. b <= n /\ p.buffer = SubSeq(s, b + 1, n)
      BY <1>2, <1>3
    <3> QED BY <1>1, <1>2, <1>3, <1>7, <2>1, <2>4, <3>1, FirstLineStep
  <2>6. r.message.state = "HEADERS_PENDING"
    BY <2>5 DEF InHeaders
  <2>7. kind = "response" => HeadsFrom(r.heads, w, known, Begun(r.message, k))
    BY <1>2, <2>4, <2>5, <2>6 DEF Begun
  <2> DEFINE c == b + 3
  <2>8. InProgress(r.message, x, head, b, c)
    <3>1. 0 \in 0..Len(x.headers) /\ c = b + 3 * 0 + 3
      BY <1>1
    <3> QED BY <2>5, <3>1 DEF InProgress
  <2>9. ~e /\ ~(r.message.state = "COMPLETE")
    BY <1>2, <2>6
  <2>10. c \in Nat /\ c <= n /\ StepTo(r, p, s, n, c) /\ c = a + 3
    BY <1>1, <1>3, <1>7, <2>5
  <2> HIDE DEF c
  <2>11. /\ StandsAt(r, kind, all, w, known, n, e, k, c)
         /\ Len(r.buffer) = n - c /\ r.complete = p.complete
    BY <2>7, <2>8, <2>9, <2>10, StandsAgain DEF s, x, head, b
  <2>12. Left(r) < Left(p)
    <3>1. Weight(r.message.state) = 1 /\ Weight(p.message.state) = 0
      BY <2>6 DEF Weight
    <3>2. (n - c) + 1 < (n - a) + 0
      BY <1>1, <1>2, <2>10
    <3> QED BY <1>2, <2>11, <3>1, <3>2 DEF Left
  <2>13. Quiet(p, all, w, n, k) => Quiet(r, all, w, n, k)
    BY DEF Quiet
  <2> QED BY <2>11, <2>12, <2>13 DEF Moves, r
<1> QED BY <1>6, <1>7


\* HEADERS_PENDING
LEMMA HeadersMove ==
    ASSUME NEW kind, NEW all, NEW w, NEW known, NEW n, Setting(kind, all, w, known, n),
           NEW e, NEW k \in 1..Len(all), NEW a, NEW p,
           StandsAt(p, kind, all, w, known, n, e, k, a),
           p.message.state = "HEADERS_PENDING"
    PROVE  Moves(parsing_step(p), p, kind, all, w, known, n, e, k)
<1> DEFINE s == All(all)
           x == all[k]
           head == w[k]
           b == End(all, k - 1)
           r == parsing_step(p)
           h == Len(x.headers)
<1>1. /\ s \in Seq(Symbols) /\ n \in Nat /\ n <= Len(s) /\ x \in Messages
      /\ WellFramed(x, head, kind) /\ b \in Nat /\ HoldsAt(s, b, x)
      /\ End(all, k) = b + BodyAt(x) + Len(x.body)
      /\ h \in Nat /\ Len(x.body) \in Nat /\ BodyAt(x) = 3 * h + 5
      /\ End(all, k) \in Nat
  BY Standing
<1>2. /\ p \in ParserRecords /\ p.kind = kind /\ ~p.failed
      /\ a \in Nat /\ a <= n /\ p.buffer = SubSeq(s, a + 1, n) /\ Len(p.buffer) = n - a
      /\ InProgress(p.message, x, head, b, a)
      /\ (p.message.state = "COMPLETE" /\ UntilEof(x, head) <=> e)
      /\ (kind = "response" => HeadsFrom(p.heads, w, known, Begun(p.message, k)))
  <2>1. Ongoing(p, kind, all, w, known, n, e, k, a)
    BY MessageInProgress
  <2> QED BY <2>1 DEF Ongoing
<1> HIDE DEF s, x, head, b
<1>3. PICK j \in 0..h : InHeaders(p.message, x, head, j) /\ a = b + 3 * j + 3
  BY <1>2, StatesInProgress
<1> HIDE DEF h
<1>4. ~e
  BY <1>2
<1>5. End(all, k) >= b + 3 * h + 5
  <2> DEFINE l == Len(x.body)
  <2>1. l \in Nat /\ b \in Nat /\ h \in Nat /\ End(all, k) = b + (3 * h + 5) + l
    BY <1>1
  <2> HIDE DEF l
  <2> QED BY ONLY <2>1
<1>13. /\ h \in Nat /\ b \in Nat /\ a \in Nat /\ n \in Nat /\ j \in 0..h
       /\ a <= n /\ a = b + 3 * j + 3 /\ End(all, k) \in Nat
       /\ End(all, k) >= b + 3 * h + 5 /\ BodyAt(x) = 3 * h + 5
  BY <1>1, <1>2, <1>3, <1>5 DEF h
<1>6. Begun(p.message, k) = k
  BY DEF Begun
<1>7. r = IF HaveLine(p) THEN HeaderLine(p) ELSE p
  BY <1>2 DEF parsing_step
<1>8. (\A i \in 0..(h - 1) : LET d == b + 3 * i + 3 IN
          /\ d \in Nat /\ s[d + 1] = x.headers[i + 1]
          /\ s[d + 2] = CR /\ s[d + 3] = LF)
      /\ LET d == b + 3 * h + 3 IN
          d \in Nat /\ s[d + 1] = CR /\ s[d + 2] = LF
  BY <1>1, LayoutOf DEF h
<1>9. Quiet(p, all, w, n, k) => \A y : Quiet(y, all, w, n, k)
  BY DEF Quiet
<1>10. ASSUME NEW c \in Nat, c <= n, a + 2 <= c, StepTo(r, p, s, n, c),
              r.heads = p.heads, InProgress(r.message, x, head, b, c),
              \/ r.message.state = "HEADERS_PENDING" /\ a + 3 <= c
              \/ r.message.state = "BODY_PENDING"
       PROVE  Moves(r, p, kind, all, w, known, n, e, k)
  <2> HIDE DEF r
  <2>1. ~(r.message.state = "COMPLETE") /\ Begun(r.message, k) = k
    BY <1>10 DEF Begun
  <2>2. kind = "response" => HeadsFrom(r.heads, w, known, Begun(r.message, k))
    BY <1>2, <1>6, <1>10, <2>1
  <2>3. /\ StandsAt(r, kind, all, w, known, n, e, k, c)
        /\ Len(r.buffer) = n - c /\ r.complete = p.complete
    BY <1>4, <1>10, <2>1, <2>2, StandsAgain DEF s, x, head, b
  <2>4. Left(r) < Left(p)
    <3> DEFINE v == Weight(r.message.state)
    <3>1. Weight(p.message.state) = 1 /\ ((v = 1 /\ a + 3 <= c) \/ v = 2)
      BY <1>10 DEF Weight
    <3> HIDE DEF v
    <3>2. (n - c) + v < (n - a) + 1
      BY <1>1, <1>2, <1>10, <3>1
    <3> QED BY <1>2, <2>3, <3>1, <3>2 DEF Left, v
  <2> QED BY <1>9, <2>3, <2>4 DEF Moves
<1>11. CASE j = h
  <2>1. a \in Nat /\ s[a + 1] = CR /\ s[a + 2] = LF
    BY <1>3, <1>8, <1>11
  <2>2. HaveLine(p) <=> a + 2 <= n
    BY <1>1, <1>2, <2>1, BlankLine
  <2>3. CASE ~(a + 2 <= n)
    <3>1. n < End(all, k)
      BY ONLY <1>13, <1>11, <2>3
    <3> QED BY <1>7, <2>2, <2>3, <3>1 DEF Moves, Quiet
  <2>4. CASE a + 2 <= n
    <3>1. r = HeaderLine(p)
      BY <1>7, <2>2, <2>4
    <3> HIDE DEF r
    <3>2. /\ StepTo(r, p, s, n, a + 2) /\ r.message.state = "BODY_PENDING"
          /\ Holds(r.message, x, head, 0) /\ BodyProgress(r.message, x, head)
          /\ r.heads = p.heads
      <4>1. InHeaders(p.message, x, head, Len(x.headers)) /\ WellFramed(x, head, p.kind)
        BY <1>1, <1>2, <1>3, <1>11 DEF h
      <4>2. LET y == HeaderLine(p) IN
            /\ StepTo(y, p, s, n, a + 2) /\ y.message.state = "BODY_PENDING"
            /\ Holds(y.message, x, head, 0) /\ BodyProgress(y.message, x, head)
            /\ y.heads = p.heads
        BY <1>1, <1>2, <2>1, <2>4, <4>1, BlankStep
      <4> QED BY <3>1, <4>2, Zenon
    <3> DEFINE c == a + 2
    <3>3. c \in Nat /\ c <= n /\ a + 2 <= c /\ c - (b + BodyAt(x)) = 0
      <4> DEFINE d == BodyAt(x)
      <4>1. d = 3 * h + 5
        BY <1>13
      <4> HIDE DEF d
      <4>2. c \in Nat /\ c <= n /\ a + 2 <= c /\ c - (b + d) = 0
        BY ONLY <1>13, <1>11, <2>4, <4>1
      <4> QED BY <4>2 DEF d
    <3>4. InProgress(r.message, x, head, b, c)
      BY <3>2, <3>3 DEF InProgress
    <3> HIDE DEF c
    <3>5. Moves(r, p, kind, all, w, known, n, e, k)
      <4>1. StepTo(r, p, s, n, c)
        BY <3>2 DEF c
      <4> QED BY <1>10, <3>2, <3>3, <3>4, <4>1 DEF r
    <3> QED BY <3>5 DEF r
  <2> QED BY <2>3, <2>4
<1>12. CASE j # h
  <2>1. j \in 0..(h - 1) /\ j + 1 \in 0..h
    BY <1>1, <1>12
  <2>2. s[a + 1] = x.headers[j + 1] /\ s[a + 2] = CR /\ s[a + 3] = LF
    BY <1>3, <1>8, <2>1
  <2>3. HaveLine(p) <=> a + 3 <= n
    BY <1>1, <1>2, <2>2, TextLine
  <2>4. CASE ~(a + 3 <= n)
    <3>1. n < End(all, k)
      BY ONLY <1>13, <2>1, <2>4
    <3> QED BY <1>7, <2>3, <2>4, <3>1 DEF Moves, Quiet
  <2>5. CASE a + 3 <= n
    <3>1. r = HeaderLine(p)
      BY <1>7, <2>3, <2>5
    <3> HIDE DEF r
    <3>2. /\ StepTo(r, p, s, n, a + 3) /\ InHeaders(r.message, x, head, j + 1)
          /\ r.heads = p.heads
      <4>1. j \in 0..(Len(x.headers) - 1)
        BY <2>1 DEF h
      <4>2. HeaderTaken(HeaderLine(p), p, s, n, a, x, head, j)
        BY <1>1, <1>2, <1>3, <2>2, <2>5, <4>1, HeaderStep
      <4> QED BY <3>1, <4>2 DEF HeaderTaken
    <3> DEFINE c == a + 3
    <3>3. c \in Nat /\ c <= n /\ a + 2 <= c /\ a + 3 <= c /\ c = b + 3 * (j + 1) + 3
      BY ONLY <1>13, <2>1, <2>5
    <3>4. InProgress(r.message, x, head, b, c) /\ r.message.state = "HEADERS_PENDING"
      BY <2>1, <3>2, <3>3 DEF InProgress, InHeaders, h
    <3> HIDE DEF c
    <3>5. Moves(r, p, kind, all, w, known, n, e, k)
      <4>1. StepTo(r, p, s, n, c)
        BY <3>2 DEF c
      <4> QED BY <1>10, <3>2, <3>3, <3>4, <4>1 DEF r
    <3> QED BY <3>5 DEF r
  <2> QED BY <2>4, <2>5
<1> QED BY <1>11, <1>12

\* BODY_PENDING
LEMMA BodyMoves ==
    ASSUME NEW kind, NEW all, NEW w, NEW known, NEW n, Setting(kind, all, w, known, n),
           NEW e, NEW k \in 1..Len(all), NEW a, NEW p,
           StandsAt(p, kind, all, w, known, n, e, k, a),
           p.message.state = "BODY_PENDING"
    PROVE  Moves(parsing_step(p), p, kind, all, w, known, n, e, k)
<1> DEFINE s == All(all)
           x == all[k]
           head == w[k]
           b == End(all, k - 1)
           r == parsing_step(p)
           end == End(all, k)
           d == b + BodyAt(x)
           q == a - d
           c == IF n <= end THEN n ELSE end
<1>1. /\ s \in Seq(Symbols) /\ n \in Nat /\ n <= Len(s) /\ x \in Messages
      /\ WellFramed(x, head, kind) /\ b \in Nat /\ HoldsAt(s, b, x)
      /\ end = d + Len(x.body) /\ end \in Nat
      /\ (UntilEof(x, head) => n <= end)
      /\ Len(x.headers) \in Nat /\ BodyAt(x) = 3 * Len(x.headers) + 5
  BY Standing
<1>2. /\ p \in ParserRecords /\ p.kind = kind /\ ~p.failed
      /\ a \in Nat /\ a <= n /\ p.buffer = SubSeq(s, a + 1, n) /\ Len(p.buffer) = n - a
      /\ InProgress(p.message, x, head, b, a)
      /\ (p.message.state = "COMPLETE" /\ UntilEof(x, head) <=> e)
      /\ (kind = "response" => HeadsFrom(p.heads, w, known, Begun(p.message, k)))
  <2>1. Ongoing(p, kind, all, w, known, n, e, k, a)
    BY MessageInProgress
  <2> QED BY <2>1 DEF Ongoing
<1> HIDE DEF s, x, head, b, end
<1>3. /\ q \in Nat /\ Holds(p.message, x, head, q) /\ BodyProgress(p.message, x, head)
  BY <1>2, StatesInProgress
<1>4. d \in Nat /\ d + q = a /\ ~e /\ Begun(p.message, k) = k
  <2>1. BodyAt(x) \in Nat
    BY <1>1
  <2>2. d \in Nat
    BY <1>1, <2>1
  <2>3. ~e /\ Begun(p.message, k) = k
    BY <1>2 DEF Begun
  <2> HIDE DEF d
  <2>4. d + q = a
    BY <1>2, <2>2
  <2> QED BY <2>2, <2>3, <2>4
<1>5. r = ReadBody(p)
  BY <1>2 DEF parsing_step
<1> HIDE DEF q, r, d, c
<1>6. /\ StepTo(r, p, s, n, c) /\ c \in Nat /\ c - d \in Nat
      /\ Holds(r.message, x, head, c - d)
      /\ r.heads = p.heads
      /\ IF end <= n /\ ~UntilEof(x, head)
         THEN r.message.state = "COMPLETE" /\ c = end
         ELSE /\ r.message.state = "BODY_PENDING" /\ c = n
              /\ BodyProgress(r.message, x, head)
  <2>1. /\ WellFramed(x, head, p.kind) /\ b + BodyAt(x) + q <= n
        /\ p.buffer = SubSeq(s, b + BodyAt(x) + q + 1, n)
        /\ end = b + BodyAt(x) + Len(x.body)
        /\ c = IF n <= end THEN n ELSE end
    BY <1>1, <1>2, <1>4 DEF c, d
  <2>2. BodyStepped(ReadBody(p), p, s, n, x, head, b, end, c)
    BY <1>1, <1>2, <1>3, <2>1, BodyStep
  <2> QED BY <1>5, <2>2 DEF d, BodyStepped
<1>7. c <= n
  BY <1>1 DEF c
<1>8. ASSUME InProgress(r.message, x, head, b, c),
             ~(r.message.state = "COMPLETE" /\ UntilEof(x, head)),
             r.message.state # "FIRST_LINE_PENDING"
      PROVE  /\ StandsAt(r, kind, all, w, known, n, e, k, c)
             /\ Len(r.buffer) = n - c /\ r.complete = p.complete
             /\ (r.buffer = <<>> <=> c = n)
  <2>1. Begun(r.message, k) = k
    BY <1>8 DEF Begun
  <2>2. kind = "response" => HeadsFrom(r.heads, w, known, Begun(r.message, k))
    BY <1>2, <1>4, <1>6, <2>1
  <2>3. r.message.state = "COMPLETE" /\ UntilEof(x, head) <=> e
    BY <1>4, <1>8
  <2> QED BY <1>6, <1>7, <1>8, <2>2, <2>3, StandsAgain DEF s, x, head, b
<1>9. CASE end <= n /\ ~UntilEof(x, head)
  <2>1. r.message.state = "COMPLETE" /\ c = end
    BY <1>6, <1>9
  <2>2. c - d = Len(x.body) /\ c = b + BodyAt(x) + Len(x.body)
    <3> DEFINE l == Len(x.body)
    <3>1. l \in Nat
      BY <1>1, MessageType
    <3> HIDE DEF l
    <3>2. c = d + l
      BY <1>1, <2>1 DEF l
    <3>3. c - d = l
      BY <1>4, <3>1, <3>2
    <3> QED BY <3>2, <3>3 DEF l, d
  <2>3. InProgress(r.message, x, head, b, c)
    <3>1. Holds(r.message, x, head, Len(x.body))
      BY <1>6, <2>2
    <3> QED BY <2>1, <2>2, <3>1 DEF InProgress
  <2>4. /\ StandsAt(r, kind, all, w, known, n, e, k, c)
        /\ Len(r.buffer) = n - c /\ r.complete = p.complete
    BY <1>8, <1>9, <2>1, <2>3
  <2>5. Left(r) < Left(p)
    <3>1. Weight(r.message.state) = 1 /\ Weight(p.message.state) = 2
      BY <2>1 DEF Weight
    <3>2. a <= c
      <4>1. c - d \in Nat /\ q <= Len(x.body) /\ c - d = Len(x.body)
        BY <1>3, <1>6, <2>2 DEF Holds
      <4> DEFINE l == Len(x.body)
      <4>2. l \in Nat /\ q <= l /\ c - d = l
        BY <4>1
      <4> HIDE DEF l
      <4> QED BY <1>3, <1>4, <1>6, <4>2
    <3>3. (n - c) + 1 < (n - a) + 2
      BY <1>1, <1>2, <1>6, <3>2
    <3> QED BY <1>2, <2>4, <3>1, <3>3 DEF Left
  <2>6. ~Quiet(p, all, w, n, k)
    <3>1. ~(n < end) /\ ~UntilEof(all[k], w[k]) /\ k <= Len(all)
      BY <1>1, <1>9 DEF x, head
    <3> QED BY <3>1 DEF Quiet, end
  <2> QED BY <2>4, <2>5, <2>6 DEF Moves, r
<1>10. CASE ~(end <= n /\ ~UntilEof(x, head))
  <2>1. /\ r.message.state = "BODY_PENDING" /\ c = n
        /\ BodyProgress(r.message, x, head)
    BY <1>6, <1>10
  <2>2. InProgress(r.message, x, head, b, c)
    BY <1>6, <2>1 DEF InProgress, d
  <2>3. /\ StandsAt(r, kind, all, w, known, n, e, k, c)
        /\ r.buffer = <<>> /\ r.complete = p.complete
    BY <1>8, <2>1, <2>2
  <2>4. Quiet(r, all, w, n, k)
    <3>1. n < end \/ UntilEof(all[k], w[k])
      BY <1>1, <1>10 DEF x, head
    <3> QED BY <2>1, <2>3, <3>1 DEF Quiet, end
  <2> QED BY <2>3, <2>4 DEF Moves, r
<1> QED BY <1>9, <1>10


\* COMPLETE
LEMMA NextMessageMoves ==
    ASSUME NEW kind, NEW all, NEW w, NEW known, NEW n, Setting(kind, all, w, known, n),
           NEW e, NEW k \in 1..Len(all), NEW a, NEW p,
           StandsAt(p, kind, all, w, known, n, e, k, a),
           p.message.state = "COMPLETE"
    PROVE  /\ parsing_step(p).complete = Append(p.complete, p.message)
           /\ SameMessage(p.message, all[k])
           /\ StandsAt(parsing_step(p), kind, all, w, known, n, e, k + 1, a)
           /\ ~Quiet(p, all, w, n, k) /\ Left(parsing_step(p)) < Left(p)
<1> DEFINE s == All(all)
           x == all[k]
           head == w[k]
           b == End(all, k - 1)
           r == parsing_step(p)
           end == End(all, k)
<1>1. /\ n \in Nat /\ x \in Messages
      /\ end = b + BodyAt(x) + Len(x.body) /\ end \in Nat
      /\ (UntilEof(x, head) => k = Len(all))
  BY Standing
<1>2. /\ p \in ParserRecords /\ p.kind = kind /\ ~p.failed
      /\ a \in Nat /\ a <= n /\ p.buffer = SubSeq(s, a + 1, n) /\ Len(p.buffer) = n - a
      /\ InProgress(p.message, x, head, b, a)
      /\ (p.message.state = "COMPLETE" /\ UntilEof(x, head) <=> e)
      /\ (kind = "response" => HeadsFrom(p.heads, w, known, Begun(p.message, k)))
  <2>1. Ongoing(p, kind, all, w, known, n, e, k, a)
    BY MessageInProgress
  <2> QED BY <2>1 DEF Ongoing
<1>3. Holds(p.message, x, head, Len(x.body)) /\ a = end
  BY <1>1, <1>2, StatesInProgress
<1>4. SameMessage(p.message, x)
  <2>1. SubSeq(x.body, 1, Len(x.body)) = x.body
    BY <1>1, MessageType
  <2> QED BY <1>3, <2>1 DEF SameMessage, Holds
<1>5. r = NextMessage(p)
  BY <1>2 DEF parsing_step
<1>6. NewMessage.state = "FIRST_LINE_PENDING" /\ NewMessage \in MessageRecords
  BY NewMessageType DEF NewMessage
<1>7. /\ r \in ParserRecords /\ r.kind = kind /\ ~r.failed /\ r.buffer = p.buffer
      /\ r.message = NewMessage /\ r.complete = Append(p.complete, p.message)
      /\ r.heads = p.heads
  <2> DEFINE c == Append(p.complete, p.message)
             m == NewMessage
  <2>1. c \in Seq(MessageRecords) /\ m \in MessageRecords
    <3>1. p.complete \in Seq(MessageRecords) /\ p.message \in MessageRecords
      BY <1>2 DEF ParserRecords
    <3> QED BY <1>6, <3>1
  <2>2. r = [p EXCEPT !.complete = c, !.message = m]
    BY <1>2, <1>5 DEF NextMessage, ParserRecords
  <2> HIDE DEF c, m, r
  <2>3. /\ r \in ParserRecords /\ r.kind = kind /\ ~r.failed /\ r.buffer = p.buffer
        /\ r.message = m /\ r.complete = c /\ r.heads = p.heads
    BY <1>2, <2>1, <2>2 DEF ParserRecords
  <2> QED BY <2>3 DEF c, m, r
<1> HIDE DEF r, s, x, head, b, end
<1>8. /\ k + 1 \in 1..(Len(all) + 1) /\ (k + 1) - 1 = k
      /\ (k + 1 <= Len(all) => k # Len(all))
      /\ (k + 1 = Len(all) + 1 => k = Len(all)) /\ Len(all) \in Nat
  <2>1. Len(all) \in Nat
    BY DEF Setting, Streamed
  <2> QED BY <2>1
<1>9. MessageAt(r.message, all, w, k + 1, a, e)
  <2>1. k + 1 <= Len(all) => ~e
    BY <1>1, <1>2, <1>8
  <2>2. InProgress(NewMessage, all[k + 1], w[k + 1], End(all, (k + 1) - 1), a)
    BY <1>3, <1>8 DEF InProgress, end
  <2>3. k + 1 = Len(all) + 1 => a = End(all, Len(all))
    BY <1>3, <1>8 DEF end
  <2>4. k + 1 = Len(all) + 1 => (UntilEof(all[Len(all)], w[Len(all)]) => e)
    BY <1>2, <1>8 DEF x, head
  <2>5. e \in BOOLEAN
    BY DEF StandsAt
  <2>6. k + 1 <= Len(all) =>
           (r.message.state = "COMPLETE" /\ UntilEof(all[k + 1], w[k + 1]) <=> e)
    BY <1>6, <1>7, <2>1, <2>5
  <2> QED BY <1>7, <1>8, <2>2, <2>3, <2>4, <2>6 DEF MessageAt
<1>10. Begun(r.message, k + 1) = Begun(p.message, k)
  BY <1>6, <1>7, <1>8 DEF Begun
<1>11. StandsAt(r, kind, all, w, known, n, e, k + 1, a)
  <2>1. e \in BOOLEAN /\ (e => n = End(all, Len(all)))
    BY DEF StandsAt
  <2>2. kind = "response" => HeadsFrom(r.heads, w, known, Begun(r.message, k + 1))
    BY <1>2, <1>7, <1>10
  <2> QED BY <1>2, <1>7, <1>9, <2>1, <2>2 DEF StandsAt, s
<1>12. ~Quiet(p, all, w, n, k)
  <2>1. ~(n < end) /\ k <= Len(all)
    BY <1>1, <1>2, <1>3
  <2> QED BY <2>1 DEF Quiet, end
<1>13. Left(r) < Left(p)
  <2>1. Weight(r.message.state) = 0 /\ Weight(p.message.state) = 1
    BY <1>2, <1>6, <1>7 DEF Weight
  <2> DEFINE d == n - a
  <2>2. d \in Nat
    BY <1>1, <1>2
  <2>3. Len(p.buffer) = d /\ Len(r.buffer) = d
    BY <1>2, <1>7
  <2> HIDE DEF d
  <2>4. Left(r) = d + 0 /\ Left(p) = d + 1
    BY <2>1, <2>3, Zenon DEF Left
  <2> QED BY <2>2, <2>4
<1> QED BY <1>4, <1>7, <1>11, <1>12, <1>13 DEF r, x

\* When all messages have been parsed nothing is left.
LEMMA NothingLeft ==
    ASSUME NEW kind, NEW all, NEW w, NEW known, NEW n, Setting(kind, all, w, known, n),
           NEW e, NEW k, k = Len(all) + 1, NEW a, NEW p,
           StandsAt(p, kind, all, w, known, n, e, k, a)
    PROVE  parsing_step(p) = p /\ Quiet(p, all, w, n, k) /\ n = End(all, Len(all))
<1> DEFINE end == End(all, Len(all))
<1>1. /\ Len(all) \in Nat /\ all \in Seq(Messages) /\ known \in 0..Len(all)
      /\ n \in Nat /\ n <= End(all, known) /\ Len(all) \in 0..Len(all)
  <2>1. all \in Seq(Messages) /\ known \in 0..Len(all) /\ n \in Nat
        /\ n <= End(all, known)
    BY DEF Setting, Streamed
  <2> QED BY <2>1
<1>2. /\ All(all) \in Seq(Symbols) /\ Len(All(all)) = end /\ end \in Nat
      /\ End(all, known) \in Nat
  BY <1>1, StreamType DEF All, End
<1>3. End(all, known) <= end
  BY <1>1, EndsIncrease
<1>4. /\ a \in Nat /\ a <= n /\ p.buffer = SubSeq(All(all), a + 1, n) /\ ~p.failed
      /\ p.message = NewMessage /\ a = end
  <2>1. MessageAt(p.message, all, w, k, a, e)
    BY DEF StandsAt
  <2> QED BY <2>1 DEF MessageAt, StandsAt
<1> HIDE DEF end
<1>5. n <= end /\ a = n
  BY <1>1, <1>2, <1>3, <1>4
<1>6. p.buffer = <<>>
  BY <1>1, <1>2, <1>4, <1>5, LeftToParse
<1>7. ~HaveLine(p)
  <2>1. Len(<<>>) = 0 /\ Len(CRLF) = 2
    BY LineEnds
  <2>2. 1..(Len(<<>>) - Len(CRLF) + 1) = {}
    BY <2>1
  <2>3. Find(<<>>, CRLF) = 0
    BY <2>2, FindNone
  <2> QED BY <1>6, <2>3 DEF HaveLine
<1>8. p.message.state = "FIRST_LINE_PENDING"
  BY <1>4 DEF NewMessage
<1>9. parsing_step(p) = p
  BY <1>4, <1>7, <1>8 DEF parsing_step
<1>10. ~(k <= Len(all))
  BY <1>1
<1> QED BY <1>4, <1>5, <1>9, <1>10 DEF Quiet, end

\* The parser of a stream, of whose messages gone have been found and popped.
ParserAt(p, kind, all, w, known, gone, n, e) ==
    /\ \A i \in 1..Len(p.complete) : SameMessage(p.complete[i], all[gone + i])
    /\ \E a : StandsAt(p, kind, all, w, known, n, e, gone + Len(p.complete) + 1, a)

QuietAt(p, all, w, n, gone) == Quiet(p, all, w, n, gone + Len(p.complete) + 1)

\* Every step keeps the parser at its place in the stream, and leaves less to do.
LEMMA StepOfParser ==
    ASSUME NEW kind, NEW all, NEW w, NEW known, NEW n, Setting(kind, all, w, known, n),
           NEW e, NEW gone \in Nat, NEW p,
           ParserAt(p, kind, all, w, known, gone, n, e),
           NEW r, r = parsing_step(p)
    PROVE  /\ ParserAt(r, kind, all, w, known, gone, n, e)
           /\ \/ QuietAt(r, all, w, n, gone)
              \/ ~QuietAt(p, all, w, n, gone) /\ Left(r) < Left(p)
<1> DEFINE l == Len(p.complete)
           k == gone + l + 1
<1>1. PICK a : StandsAt(p, kind, all, w, known, n, e, k, a)
  BY DEF ParserAt
<1>2. /\ p \in ParserRecords /\ ~p.failed /\ MessageAt(p.message, all, w, k, a, e)
  BY <1>1 DEF StandsAt
<1>3. /\ p.complete \in Seq(MessageRecords) /\ l \in Nat /\ k \in Nat
      /\ p.message \in MessageRecords /\ Len(all) \in Nat
  <2>1. p.complete \in Seq(MessageRecords) /\ p.message \in MessageRecords
    BY <1>2 DEF ParserRecords
  <2> QED BY <2>1 DEF Setting, Streamed
<1>4. k \in 1..(Len(all) + 1)
  BY <1>2 DEF MessageAt
<1>5. k \in 1..Len(all) \/ k = Len(all) + 1
  BY <1>3, <1>4
<1>6. ASSUME Moves(r, p, kind, all, w, known, n, e, k)
      PROVE  /\ ParserAt(r, kind, all, w, known, gone, n, e)
             /\ \/ QuietAt(r, all, w, n, gone)
                \/ ~QuietAt(p, all, w, n, gone) /\ Left(r) < Left(p)
  BY <1>6 DEF Moves, ParserAt, QuietAt
<1>7. CASE k = Len(all) + 1
  <2>1. r = p /\ Quiet(p, all, w, n, k)
    BY <1>1, <1>7, NothingLeft
  <2> QED BY <2>1 DEF QuietAt
<1>8. CASE k \in 1..Len(all)
  <2>1. p.message.state \in {"FIRST_LINE_PENDING", "HEADERS_PENDING", "BODY_PENDING",
                             "COMPLETE"}
    BY <1>3 DEF MessageRecords
  <2>2. CASE p.message.state = "FIRST_LINE_PENDING"
    BY <1>1, <1>6, <1>8, <2>2, FirstLineMoves
  <2>3. CASE p.message.state = "HEADERS_PENDING"
    BY <1>1, <1>6, <1>8, <2>3, HeadersMove
  <2>4. CASE p.message.state = "BODY_PENDING"
    BY <1>1, <1>6, <1>8, <2>4, BodyMoves
  <2>5. CASE p.message.state = "COMPLETE"
    <3>1. /\ r.complete = Append(p.complete, p.message)
          /\ SameMessage(p.message, all[k])
          /\ StandsAt(r, kind, all, w, known, n, e, k + 1, a)
          /\ ~Quiet(p, all, w, n, k) /\ Left(r) < Left(p)
      BY <1>1, <1>8, <2>5, NextMessageMoves
    <3> HIDE DEF l, k
    <3>2. /\ Len(r.complete) = l + 1 /\ k = gone + l + 1
          /\ \A i \in 1..l : r.complete[i] = p.complete[i]
          /\ r.complete[l + 1] = p.message
      BY <1>3, <3>1 DEF l, k
    <3>3. k + 1 = gone + Len(r.complete) + 1 /\ k = gone + (l + 1)
          /\ \A i \in 1..(l + 1) : i \in 1..l \/ i = l + 1
      BY <1>3, <3>2
    <3>4. \A i \in 1..l : SameMessage(p.complete[i], all[gone + i])
      BY DEF ParserAt, l
    <3>5. \A i \in 1..Len(r.complete) : SameMessage(r.complete[i], all[gone + i])
      BY <3>1, <3>2, <3>3, <3>4
    <3>6. ParserAt(r, kind, all, w, known, gone, n, e)
      BY <3>1, <3>3, <3>5 DEF ParserAt
    <3> QED BY <3>1, <3>6 DEF QuietAt, k, l
  <2> QED BY <2>1, <2>2, <2>3, <2>4, <2>5
<1> QED BY <1>5, <1>7, <1>8

AreSteps(f, p, n) ==
    f = [i \in 0..n |-> IF i = 0 THEN p
                        ELSE The({parsing_step(q) : q \in {f[i - 1]}})]

\* The recursive definition of the loop around parsing_step has a solution.
LEMMA StepsExist ==
    ASSUME NEW p, NEW n \in Nat
    PROVE  \E f : AreSteps(f, p, n)
<1> DEFINE T == {m \in Nat : \E f : AreSteps(f, p, m)}
<1>1. 0 \in T
  <2>1. AreSteps([i \in 0..0 |-> p], p, 0)
    BY DEF AreSteps
  <2> QED BY <2>1
<1>2. ASSUME NEW m \in T PROVE m + 1 \in T
  <2>1. PICK f : AreSteps(f, p, m)
    OBVIOUS
  <2>2. m \in Nat
    OBVIOUS
  <2> DEFINE n1 == m + 1
             g == [i \in 0..n1 |->
                     IF i = n1 THEN The({parsing_step(q) : q \in {f[m]}}) ELSE f[i]]
  <2>3. ASSUME NEW i \in 0..n1
        PROVE  g[i] = IF i = 0 THEN p
                      ELSE The({parsing_step(q) : q \in {g[i - 1]}})
    <3>1. CASE i = n1
      <4>1. n1 - 1 = m /\ m \in 0..n1 /\ m # n1 /\ n1 # 0 /\ n1 \in 0..n1
        BY <2>2
      <4>2. g[m] = f[m] /\ g[n1] = The({parsing_step(q) : q \in {f[m]}})
        BY <4>1
      <4> HIDE DEF g
      <4> QED BY <3>1, <4>1, <4>2
    <3>2. CASE i # n1
      <4>1. /\ i \in 0..m
            /\ i # 0 => i - 1 \in 0..n1 /\ i - 1 # n1 /\ g[i - 1] = f[i - 1]
        BY <2>2, <3>2
      <4>2. f[i] = IF i = 0 THEN p
                   ELSE The({parsing_step(q) : q \in {f[i - 1]}})
        BY <2>1, <4>1 DEF AreSteps
      <4>3. g[i] = f[i]
        BY <3>2
      <4> HIDE DEF g
      <4> QED BY <4>1, <4>2, <4>3
    <3> QED BY <3>1, <3>2
  <2>4. AreSteps(g, p, n1)
    BY <2>3 DEF AreSteps
  <2> QED BY <2>2, <2>4
<1>3. T \subseteq Nat
  OBVIOUS
<1> HIDE DEF T
<1>4. T = Nat
  BY <1>1, <1>2, <1>3, PQ!InductionOnNat
<1> QED BY <1>4 DEF T

\* A solution, step by step.
StepsFrom(f, p, n) ==
    f[0] = p /\ \A i \in 1..n : f[i] = parsing_step(f[i - 1])

\* After each round of the loop of parse(), as many parsing steps were taken.
LEMMA StepByStep ==
    ASSUME NEW p, NEW n \in Nat, NEW f, AreSteps(f, p, n)
    PROVE  StepsFrom(f, p, n)
<1>1. \A i \in 0..n : f[i] = IF i = 0 THEN p
                             ELSE The({parsing_step(q) : q \in {f[i - 1]}})
  BY DEF AreSteps
<1>2. f[0] = p
  <2>1. 0 \in 0..n
    OBVIOUS
  <2> QED BY <1>1, <2>1
<1>3. ASSUME NEW i \in 1..n PROVE f[i] = parsing_step(f[i - 1])
  <2>1. f[i] = The({parsing_step(q) : q \in {f[i - 1]}})
    BY <1>1
  <2>2. {parsing_step(q) : q \in {f[i - 1]}} = {parsing_step(f[i - 1])}
    OBVIOUS
  <2> QED BY <2>1, <2>2, TheOne
<1> QED BY <1>2, <1>3 DEF StepsFrom

\* The steps of the loop.
LoopsBy(f, p, l) ==
    f[0] = p /\ ParseLoop(p) = f[l] /\ \A i \in 1..l : f[i] = parsing_step(f[i - 1])

\* The loop of parse() is a sequence of parsing steps.
LEMMA LoopUnfolds ==
    ASSUME NEW p, NEW l \in Nat, l = Len(p.buffer) + 2
    PROVE  \E f : LoopsBy(f, p, l)
<1>1. PICK f : AreSteps(f, p, l) /\ ParseLoop(p) = f[l]
  <2>1. \E f : AreSteps(f, p, l)
    BY StepsExist
  <2>2. ParseLoop(p) = (CHOOSE f : AreSteps(f, p, l))[l]
    BY DEF ParseLoop, AreSteps
  <2> QED BY <2>1, <2>2
<1>2. f[0] = p /\ \A i \in 1..l : f[i] = parsing_step(f[i - 1])
  <2>1. StepsFrom(f, p, l)
    BY <1>1, StepByStep
  <2> QED BY <2>1 DEF StepsFrom
<1> QED BY <1>1, <1>2 DEF LoopsBy

\* What Left says of a parser at its place in the stream: it bounds the steps, and
\* where it is 0 the next message has not begun.
LEMMA LeftBounds ==
    ASSUME NEW kind, NEW all, NEW w, NEW known, NEW n, Setting(kind, all, w, known, n),
           NEW e, NEW gone \in Nat, NEW p,
           ParserAt(p, kind, all, w, known, gone, n, e)
    PROVE  /\ p \in ParserRecords /\ Left(p) \in Nat /\ Left(p) <= Len(p.buffer) + 2
           /\ Left(p) = 0 => QuietAt(p, all, w, n, gone)
<1> DEFINE k == gone + Len(p.complete) + 1
           l == Len(p.buffer)
<1>1. PICK a : StandsAt(p, kind, all, w, known, n, e, k, a)
  BY DEF ParserAt
<1>2. p \in ParserRecords /\ MessageAt(p.message, all, w, k, a, e)
  BY <1>1 DEF StandsAt
<1>3. p.message \in MessageRecords /\ l \in Nat
  BY <1>2 DEF ParserRecords
<1>4. Weight(p.message.state) \in {0, 1, 2}
  BY DEF Weight
<1>5. Left(p) \in Nat /\ Left(p) <= l + 2 /\ (Left(p) = 0 => l = 0 /\ Weight(p.message.state) = 0)
  <2> DEFINE z == Weight(p.message.state)
  <2>1. z \in {0, 1, 2} /\ Left(p) = l + z
    BY <1>4 DEF Left
  <2> HIDE DEF l, z
  <2>2. Left(p) \in Nat /\ Left(p) <= l + 2 /\ (Left(p) = 0 => l = 0 /\ z = 0)
    BY <1>3, <2>1
  <2> QED BY <2>2 DEF z
<1>6. ASSUME Left(p) = 0 PROVE Quiet(p, all, w, n, k)
  <2> SUFFICES ASSUME k <= Len(all) PROVE n < End(all, k)
    BY DEF Quiet
  <2>1. k \in 1..Len(all)
    <3>1. k \in 1..(Len(all) + 1) /\ Len(all) \in Nat
      BY <1>2 DEF MessageAt, Setting, Streamed
    <3> HIDE DEF k
    <3> QED BY <3>1
  <2> HIDE DEF k
  <2>2. Ongoing(p, kind, all, w, known, n, e, k, a)
    BY <1>1, <2>1, MessageInProgress
  <2>3. p.message.state = "FIRST_LINE_PENDING" /\ l = 0
    BY <1>5, <1>6 DEF Weight
  <2>4. a = End(all, k - 1)
    BY <2>2, <2>3 DEF Ongoing, InProgress, InHeaders
  <2>5. a \in Nat /\ a <= n /\ l = n - a
    BY <2>2 DEF Ongoing
  <2>6. n \in Nat /\ End(all, k) \in Nat /\ End(all, k) >= End(all, k - 1) + 5
    BY <2>1, Standing
  <2> HIDE DEF l
  <2> QED BY <2>3, <2>4, <2>5, <2>6
<1> QED BY <1>2, <1>5, <1>6 DEF QuietAt, k, l

\* The loop around parsing_step parses all that can be parsed, and does not fail.
LEMMA ParsesAll ==
    ASSUME NEW kind, NEW all, NEW w, NEW known, NEW n, Setting(kind, all, w, known, n),
           NEW e, NEW gone \in Nat, NEW p,
           ParserAt(p, kind, all, w, known, gone, n, e)
    PROVE  /\ ParserAt(ParseLoop(p), kind, all, w, known, gone, n, e)
           /\ QuietAt(ParseLoop(p), all, w, n, gone)
<1> DEFINE l == Len(p.buffer) + 2
           At(x) == ParserAt(x, kind, all, w, known, gone, n, e)
           Still(x) == QuietAt(x, all, w, n, gone)
<1>1. l \in Nat /\ Left(p) \in Nat /\ Left(p) <= l
  <2>1. p \in ParserRecords /\ Left(p) \in Nat /\ Left(p) <= Len(p.buffer) + 2
    BY LeftBounds
  <2> QED BY <2>1 DEF ParserRecords
<1> HIDE DEF l
<1>2. PICK f : LoopsBy(f, p, l)
  <2>1. l \in Nat /\ l = Len(p.buffer) + 2
    BY <1>1 DEF l
  <2> QED BY <2>1, LoopUnfolds
<1>3. f[0] = p /\ \A i \in 1..l : f[i] = parsing_step(f[i - 1])
  BY <1>2 DEF LoopsBy
<1> DEFINE P(i) == /\ At(f[i])
                   /\ Still(f[i]) \/ Left(f[i]) + i <= l
           T == {i \in Nat : i <= l => P(i)}
<1>4. 0 \in T
  <2>1. At(f[0]) /\ Left(f[0]) + 0 <= l
    BY <1>1, <1>3
  <2> QED BY <2>1
<1>5. ASSUME NEW i \in T PROVE i + 1 \in T
  <2> DEFINE j == i + 1
             x == f[i]
             y == f[j]
  <2>1. i \in Nat /\ (i <= l => P(i)) /\ j \in Nat /\ j - 1 = i /\ j = i + 1
    OBVIOUS
  <2> HIDE DEF P
  <2>2. SUFFICES ASSUME j <= l PROVE P(j)
    BY <2>1
  <2>3. j \in 1..l /\ i <= l
    BY <1>1, <2>1, <2>2
  <2>4. y = parsing_step(x)
    BY <1>3, <2>1, <2>3
  <2>5. At(x) /\ (Still(x) \/ Left(x) + i <= l)
    BY <2>1, <2>3 DEF P
  <2> HIDE DEF x, y, j
  <2>6. At(y) /\ (Still(y) \/ (~Still(x) /\ Left(y) < Left(x)))
    BY <2>4, <2>5, StepOfParser
  <2>7. Still(y) \/ Left(y) + j <= l
    <3>1. Left(y) \in Nat /\ Left(x) \in Nat
      BY <2>5, <2>6, LeftBounds
    <3> HIDE DEF Still
    <3> QED BY <1>1, <2>1, <2>5, <2>6, <3>1
  <2> QED BY <2>6, <2>7 DEF P, y
<1>6. T \subseteq Nat
  OBVIOUS
<1> HIDE DEF T
<1>7. T = Nat
  BY <1>4, <1>5, <1>6, PQ!InductionOnNat
<1>8. P(l)
  <2>1. l \in T /\ l <= l
    BY <1>1, <1>7
  <2> QED BY <2>1 DEF T
<1> DEFINE r == f[l]
<1>9. At(r) /\ (Still(r) \/ Left(r) + l <= l)
  BY <1>8
<1> HIDE DEF r, P
<1>10. Left(r) \in Nat /\ (Left(r) = 0 => Still(r))
  BY <1>9, LeftBounds
<1>11. Still(r)
  <2> HIDE DEF Still
  <2> QED BY <1>1, <1>9, <1>10
<1> QED BY <1>2, <1>9, <1>11 DEF r, LoopsBy

\* A parser that has thrown does nothing more.
LEMMA FailedStays ==
    ASSUME NEW p, p.failed, Len(p.buffer) \in Nat
    PROVE  ParseLoop(p) = p
<1> DEFINE l == Len(p.buffer) + 2
<1>1. l \in Nat
  OBVIOUS
<1> HIDE DEF l
<1>2. PICK f : LoopsBy(f, p, l)
  <2>1. l \in Nat /\ l = Len(p.buffer) + 2
    BY <1>1 DEF l
  <2> QED BY <2>1, LoopUnfolds
<1>3. f[0] = p /\ \A i \in 1..l : f[i] = parsing_step(f[i - 1])
  BY <1>2 DEF LoopsBy
<1> DEFINE T == {i \in Nat : i <= l => f[i] = p}
<1>4. 0 \in T
  BY <1>3
<1>5. ASSUME NEW i \in T PROVE i + 1 \in T
  <2> DEFINE j == i + 1
  <2>1. i \in Nat /\ (i <= l => f[i] = p) /\ j \in Nat /\ j - 1 = i /\ j = i + 1
    OBVIOUS
  <2> HIDE DEF j
  <2>2. SUFFICES ASSUME j <= l PROVE f[j] = p
    BY <2>1
  <2>3. j \in 1..l /\ i <= l
    BY <1>1, <2>1, <2>2
  <2>4. f[j] = parsing_step(f[i]) /\ f[i] = p
    BY <1>3, <2>1, <2>3
  <2>5. parsing_step(p) = p
    BY DEF parsing_step
  <2> QED BY <2>4, <2>5
<1>6. T \subseteq Nat
  OBVIOUS
<1> HIDE DEF T
<1>7. T = Nat
  BY <1>4, <1>5, <1>6, PQ!InductionOnNat
<1>8. f[l] = p
  <2>1. l \in T /\ l <= l
    BY <1>1, <1>7
  <2> QED BY <2>1 DEF T
<1> QED BY <1>2, <1>8 DEF LoopsBy

\* What is read comes after what is left.
LEMMA SubSeqJoins ==
    ASSUME NEW s \in Seq(Symbols), NEW a \in Nat, NEW n \in Nat, NEW m \in Nat,
           a <= n, n <= m, m <= Len(s)
    PROVE  SubSeq(s, a + 1, n) \o SubSeq(s, n + 1, m) = SubSeq(s, a + 1, m)
<1> DEFINE u == SubSeq(s, a + 1, n)
           v == SubSeq(s, n + 1, m)
           t == SubSeq(s, a + 1, m)
           j == u \o v
           nu == n - a
           nv == m - n
           nt == m - a
<1>1. /\ u \in Seq(Symbols) /\ Len(u) = nu /\ \A i \in 1..nu : u[i] = s[a + i]
      /\ v \in Seq(Symbols) /\ Len(v) = nv /\ \A i \in 1..nv : v[i] = s[n + i]
      /\ t \in Seq(Symbols) /\ Len(t) = nt /\ \A i \in 1..nt : t[i] = s[a + i]
  <2>1. n <= Len(s) /\ a <= m
    OBVIOUS
  <2> QED BY <2>1, SubSeqParts
<1>2. nu \in Nat /\ nv \in Nat /\ nt = nu + nv /\ a + nu = n
  OBVIOUS
<1> HIDE DEF u, v, t, nu, nv, nt
<1>3. /\ j \in Seq(Symbols) /\ Len(j) = nt
      /\ \A i \in 1..nu : j[i] = u[i]
      /\ \A i \in 1..nv : j[nu + i] = v[i]
  <2>1. u \o v \in Seq(Symbols)
    BY <1>1
  <2>2. Joins(u \o v, u, v)
    BY <1>1, Joined
  <2> QED BY <1>1, <1>2, <2>1, <2>2 DEF Joins
<1> HIDE DEF j
<1>4. ASSUME NEW i \in 1..nt PROVE j[i] = t[i]
  <2>1. CASE i \in 1..nu
    BY <1>1, <1>3, <2>1
  <2>2. CASE i \notin 1..nu
    <3> DEFINE d == i - nu
    <3>1. d \in 1..nv /\ nu + d = i /\ n + d = a + i
      BY <1>2, <2>2
    <3> HIDE DEF d
    <3>2. j[nu + d] = v[d] /\ v[d] = s[n + d]
      BY <1>1, <1>3, <3>1
    <3> QED BY <1>1, <3>1, <3>2
  <2> QED BY <2>1, <2>2
<1>5. j = t
  BY <1>1, <1>3, <1>4, <1>2, SameSeq
<1> QED BY <1>5 DEF j, u, v, t

\* The first messages of a stream are its beginning.
LEMMA PartOfAll ==
    ASSUME NEW all \in Seq(Messages), NEW m \in 0..Len(all), NEW n \in Nat,
           NEW n2 \in Nat, n <= n2, n2 <= End(all, m)
    PROVE  /\ SubSeq(First(all, m), n + 1, n2) = SubSeq(All(all), n + 1, n2)
           /\ n2 <= Len(All(all)) /\ All(all) \in Seq(Symbols)
<1> DEFINE f == First(all, m)
           s == All(all)
           u == SubSeq(f, n + 1, n2)
           v == SubSeq(s, n + 1, n2)
<1>1. /\ Len(all) \in 0..Len(all) /\ Len(all) \in m..Len(all)
      /\ f \in Seq(Symbols) /\ s \in Seq(Symbols) /\ Len(f) = End(all, m)
  <2>1. Len(all) \in 0..Len(all) /\ Len(all) \in m..Len(all)
    OBVIOUS
  <2> QED BY <2>1, StreamType DEF All, End
<1>2. Begins(f, s)
  BY <1>1, StreamBegins DEF All
<1> HIDE DEF f, s
<1>3. Len(f) <= Len(s) /\ (\A i \in 1..Len(f) : s[i] = f[i]) /\ n2 <= Len(f)
  BY <1>1, <1>2 DEF Begins
<1>4. n2 <= Len(s) /\ Len(f) \in Nat
  BY <1>1, <1>3
<1>5. /\ u \in Seq(Symbols) /\ Len(u) = n2 - n /\ \A i \in 1..(n2 - n) : u[i] = f[n + i]
      /\ v \in Seq(Symbols) /\ Len(v) = n2 - n /\ \A i \in 1..(n2 - n) : v[i] = s[n + i]
  BY <1>1, <1>3, <1>4, SubSeqParts
<1> HIDE DEF u, v
<1>6. \A i \in 1..(n2 - n) : u[i] = v[i]
  <2> SUFFICES ASSUME NEW i \in 1..(n2 - n) PROVE u[i] = v[i]
    OBVIOUS
  <2>1. n + i \in 1..Len(f)
    BY <1>3, <1>4
  <2> QED BY <1>3, <1>5, <2>1
<1>7. u = v
  BY <1>5, <1>6, SameSeq
<1> QED BY <1>1, <1>4, <1>7 DEF u, v, f, s

\* More is read: the parser stands where it stood.
LEMMA ReadMore ==
    ASSUME NEW kind, NEW all, NEW w, NEW known, NEW n, NEW n2,
           Setting(kind, all, w, known, n), Setting(kind, all, w, known, n2), n <= n2,
           NEW e, e => n2 = n, NEW gone \in Nat, NEW p,
           ParserAt(p, kind, all, w, known, gone, n, e),
           NEW r, r = [p EXCEPT !.buffer = @ \o SubSeq(All(all), n + 1, n2)]
    PROVE  ParserAt(r, kind, all, w, known, gone, n2, e)
<1> DEFINE k == gone + Len(p.complete) + 1
           s == All(all)
           u == SubSeq(s, n + 1, n2)
<1>1. PICK a : StandsAt(p, kind, all, w, known, n, e, k, a)
  BY DEF ParserAt
<1>2. /\ p \in ParserRecords /\ p.kind = kind /\ ~p.failed
      /\ a \in Nat /\ a <= n /\ p.buffer = SubSeq(s, a + 1, n)
      /\ MessageAt(p.message, all, w, k, a, e)
      /\ kind = "response" => HeadsFrom(p.heads, w, known, Begun(p.message, k))
      /\ e \in BOOLEAN
      /\ e => n = End(all, Len(all))
  BY <1>1 DEF StandsAt
<1>3. /\ n \in Nat /\ n2 \in Nat /\ n2 <= End(all, known) /\ known \in 0..Len(all)
      /\ all \in Seq(Messages)
  BY DEF Setting, Streamed
<1>4. n2 <= Len(s) /\ s \in Seq(Symbols)
  BY <1>3, PartOfAll
<1> DEFINE t == p.buffer \o u
<1>5. t = SubSeq(s, a + 1, n2) /\ t \in Seq(Symbols)
  <2> HIDE DEF s
  <2>1. SubSeq(s, a + 1, n) \o SubSeq(s, n + 1, n2) = SubSeq(s, a + 1, n2)
    BY <1>2, <1>3, <1>4, SubSeqJoins
  <2>2. a <= n2
    BY <1>2, <1>3
  <2>3. SubSeq(s, a + 1, n2) \in Seq(Symbols)
    BY <1>2, <1>3, <1>4, <2>2, SubSeqParts
  <2> QED BY <1>2, <2>1, <2>3
<1>6. r = [p EXCEPT !.buffer = t]
  BY <1>2 DEF ParserRecords
<1> HIDE DEF t, k
<1>7. /\ r \in ParserRecords /\ r.kind = p.kind /\ r.failed = p.failed /\ r.buffer = t
      /\ r.message = p.message /\ r.complete = p.complete /\ r.heads = p.heads
  BY <1>2, <1>5, <1>6 DEF ParserRecords
<1>8. a <= n2
  BY <1>2, <1>3
<1>9. StandsAt(r, kind, all, w, known, n2, e, k, a)
  BY <1>2, <1>5, <1>7, <1>8 DEF StandsAt, s
<1>10. \A i \in 1..Len(p.complete) : SameMessage(p.complete[i], all[gone + i])
  BY DEF ParserAt
<1> QED BY <1>7, <1>9, <1>10 DEF ParserAt, k

\* The end of a stream of requests, which may come anywhere: only a request that
\* has been begun makes the parser throw.
LEMMA RequestsEnd ==
    ASSUME NEW all, NEW w, NEW known, NEW n, Setting("request", all, w, known, n),
           NEW gone \in Nat, NEW p,
           ParserAt(p, "request", all, w, known, gone, n, FALSE)
    PROVE  Eof(p) = p \/ (Eof(p).failed /\ Eof(p) \in ParserRecords)
<1> DEFINE k == gone + Len(p.complete) + 1
<1>1. PICK a : StandsAt(p, "request", all, w, known, n, FALSE, k, a)
  BY DEF ParserAt
<1>2. p \in ParserRecords /\ MessageAt(p.message, all, w, k, a, FALSE)
  BY <1>1 DEF StandsAt
<1>3. Len(all) \in Nat /\ k \in 1..(Len(all) + 1)
  BY <1>2 DEF Setting, Streamed, MessageAt
<1> HIDE DEF k
<1>4. ASSUME p.message.state = "BODY_PENDING" PROVE p.message.size # Unknown
  <2>1. k \in 1..Len(all)
    <3>1. p.message # NewMessage
      BY <1>4 DEF NewMessage
    <3> QED BY <1>2, <1>3, <3>1 DEF MessageAt
  <2>2. Ongoing(p, "request", all, w, known, n, FALSE, k, a)
    BY <1>1, <2>1, MessageInProgress
  <2>3. BodyProgress(p.message, all[k], w[k])
    BY <1>4, <2>2 DEF Ongoing, InProgress, NewMessage, InHeaders
  <2>4. WellFramed(all[k], w[k], "request") /\ Len(all[k].body) \in Nat
    BY <2>1, Standing
  <2>5. all[k].first_line[1] # "200"
    BY <2>4 DEF WellFramed
  <2>6. p.message.size = Len(all[k].body)
    BY <2>3, <2>5 DEF BodyProgress, InChunks, UntilEof
  <2> QED BY <2>4, <2>6 DEF Unknown
<1>5. CASE p.message.state = "FIRST_LINE_PENDING"
  BY <1>5 DEF Eof
<1>6. CASE p.message.state # "FIRST_LINE_PENDING"
  <2>1. Eof(p) = [p EXCEPT !.failed = TRUE]
    BY <1>4, <1>6 DEF Eof
  <2> QED BY <1>2, <2>1 DEF ParserRecords
<1> QED BY <1>5, <1>6

\* The end of the stream of responses, which comes after the last of them, ends
\* that one when nothing else does, and never makes the parser throw.
LEMMA ResponsesEnd ==
    ASSUME NEW all, NEW w, NEW known, NEW n, Setting("response", all, w, known, n),
           n = End(all, Len(all)), NEW e, NEW gone \in Nat, NEW p,
           ParserAt(p, "response", all, w, known, gone, n, e),
           QuietAt(p, all, w, n, gone)
    PROVE  ParserAt(Eof(p), "response", all, w, known, gone, n, TRUE)
<1> DEFINE k == gone + Len(p.complete) + 1
           r == Eof(p)
<1>1. PICK a : StandsAt(p, "response", all, w, known, n, e, k, a)
  BY DEF ParserAt
<1>2. /\ p \in ParserRecords /\ MessageAt(p.message, all, w, k, a, e)
      /\ \A i \in 1..Len(p.complete) : SameMessage(p.complete[i], all[gone + i])
  BY <1>1 DEF StandsAt, ParserAt
<1>3. /\ Len(all) \in Nat /\ k \in 1..(Len(all) + 1) /\ k \in Nat
      /\ all \in Seq(Messages) /\ Quiet(p, all, w, n, k)
  BY <1>2 DEF Setting, Streamed, MessageAt, QuietAt
<1> HIDE DEF k
<1>4. CASE k = Len(all) + 1
  <2>1. ~(k <= Len(all))
    BY <1>3, <1>4
  <2>2. p.message = NewMessage /\ a = End(all, Len(all))
    BY <1>2, <1>4 DEF MessageAt
  <2>3. r = p
    BY <2>2 DEF Eof, NewMessage
  <2>4. MessageAt(p.message, all, w, k, a, TRUE)
    BY <1>3, <2>1, <2>2 DEF MessageAt
  <2>5. StandsAt(p, "response", all, w, known, n, TRUE, k, a)
    BY <1>1, <2>4 DEF StandsAt
  <2> QED BY <1>2, <2>3, <2>5 DEF ParserAt, k
<1>5. CASE k <= Len(all)
  <2> DEFINE x == all[k]
             head == w[k]
             b == End(all, k - 1)
             m == p.message
             m2 == [m EXCEPT !.state = "COMPLETE"]
  <2>1. k \in 1..Len(all) /\ k \in 0..Len(all) /\ Len(all) \in 0..Len(all)
    BY <1>3, <1>5
  <2>2. Ongoing(p, "response", all, w, known, n, e, k, a)
    BY <1>1, <2>1, MessageInProgress
  <2>3. /\ UntilEof(x, head) => k = Len(all)
        /\ Len(x.body) \in Nat /\ BodyAt(x) \in Nat
        /\ End(all, k) = b + BodyAt(x) + Len(x.body)
        /\ End(all, k) \in Nat /\ b \in Nat /\ n \in Nat /\ x \in Messages
    BY <2>1, Standing, MessageType DEF BodyAt
  <2>4. End(all, k) <= n
    BY <1>5, <2>1, <1>3, EndsIncrease
  <2>5. UntilEof(x, head) /\ m.state = "BODY_PENDING" /\ p.buffer = <<>>
    BY <1>3, <1>5, <2>3, <2>4 DEF Quiet
  <2>6. Holds(m, x, head, a - (b + BodyAt(x))) /\ BodyProgress(m, x, head)
    BY <2>2, <2>5 DEF Ongoing, InProgress, InHeaders, NewMessage
  <2>7. m.size = Unknown
    BY <2>5, <2>6 DEF BodyProgress, UntilEof, InChunks
  <2>8. a = n /\ a \in Nat
    <3>1. Len(p.buffer) = 0 /\ Len(p.buffer) = n - a /\ a \in Nat
      BY <2>2, <2>5 DEF Ongoing
    <3> QED BY <2>3, <3>1
  <2>9. r = [p EXCEPT !.message = m2]
    BY <1>2, <2>5, <2>7 DEF Eof, ParserRecords
  <2>10. /\ m2 \in MessageRecords /\ m2.state = "COMPLETE" /\ m2.first_line = m.first_line
         /\ m2.headers = m.headers /\ m2.body = m.body
    BY <2>6 DEF Holds, MessageRecords
  <2>11. a - (b + BodyAt(x)) = Len(x.body) /\ a = b + BodyAt(x) + Len(x.body)
    <3> DEFINE l == Len(x.body)
               z == BodyAt(x)
    <3>1. a = b + z + l /\ l \in Nat /\ z \in Nat /\ b \in Nat
      BY <2>3, <2>5, <2>8
    <3> HIDE DEF l, z, b
    <3>2. a - (b + z) = l
      BY <3>1
    <3> QED BY <3>1, <3>2 DEF l, z, b
  <2> HIDE DEF m2, r
  <2>12. /\ r \in ParserRecords /\ r.kind = p.kind /\ r.failed = p.failed
         /\ r.buffer = p.buffer /\ r.message = m2 /\ r.complete = p.complete
         /\ r.heads = p.heads
    BY <1>2, <2>9, <2>10 DEF ParserRecords
  <2>13. InProgress(m2, x, head, b, a)
    <3>1. Holds(m, x, head, Len(x.body))
      BY <2>6, <2>11
    <3>2. Holds(m2, x, head, Len(x.body))
      BY <2>10, <3>1 DEF Holds
    <3> QED BY <2>10, <2>11, <3>2 DEF InProgress
  <2>14. ~(k = Len(all) + 1)
    BY <1>3, <1>5
  <2>15. MessageAt(m2, all, w, k, a, TRUE)
    BY <1>3, <2>5, <2>10, <2>13, <2>14 DEF MessageAt
  <2>16. Begun(m2, k) = Begun(m, k)
    BY <2>5, <2>10 DEF Begun
  <2>17. StandsAt(r, "response", all, w, known, n, TRUE, k, a)
    BY <1>1, <2>12, <2>15, <2>16 DEF StandsAt
  <2>18. ParserAt(r, "response", all, w, known, gone, n, TRUE)
    BY <1>2, <2>12, <2>17 DEF ParserAt, k
  <2> QED BY <2>18 DEF r
<1>6. k = Len(all) + 1 \/ k <= Len(all)
  <2> DEFINE l == Len(all)
  <2>1. l \in Nat /\ k \in 1..(l + 1)
    BY <1>3
  <2> HIDE DEF l
  <2>2. k = l + 1 \/ k <= l
    BY <2>1
  <2> QED BY <2>2 DEF l
<1> QED BY <1>4, <1>5, <1>6

\* Appending nothing to the buffer changes nothing.
LEMMA NothingAdded ==
    ASSUME NEW q \in ParserRecords
    PROVE  [q EXCEPT !.buffer = @ \o <<>>] = q
<1>1. q.buffer \in Seq(Symbols)
  BY DEF ParserRecords
<1>2. q.buffer \o <<>> = q.buffer
  BY <1>1
<1> QED BY <1>2 DEF ParserRecords

\* parse() finds the messages of what has been read, and does not throw, ...
LEMMA ParsesMore ==
    ASSUME NEW kind, NEW all, NEW w, NEW known, NEW n, NEW n2,
           Setting(kind, all, w, known, n), Setting(kind, all, w, known, n2), n <= n2,
           NEW e, e => n2 = n, NEW gone \in Nat, NEW p,
           ParserAt(p, kind, all, w, known, gone, n, e),
           NEW buf, buf = SubSeq(All(all), n + 1, n2), buf # <<>>
    PROVE  /\ ParserAt(parse(p, buf), kind, all, w, known, gone, n2, e)
           /\ QuietAt(parse(p, buf), all, w, n2, gone)
<1> DEFINE q == [p EXCEPT !.buffer = @ \o buf]
<1>1. ParserAt(q, kind, all, w, known, gone, n2, e)
  BY ReadMore
<1>2. parse(p, buf) = ParseLoop(q)
  BY DEF parse
<1> HIDE DEF q
<1>3. /\ ParserAt(ParseLoop(q), kind, all, w, known, gone, n2, e)
      /\ QuietAt(ParseLoop(q), all, w, n2, gone)
  BY <1>1, ParsesAll
<1> QED BY <1>2, <1>3

\* ... which at the end of the stream only a request does that was not complete.
LEMMA ParsesRequestsEnd ==
    ASSUME NEW all, NEW w, NEW known, NEW n, Setting("request", all, w, known, n),
           NEW gone \in Nat, NEW p,
           ParserAt(p, "request", all, w, known, gone, n, FALSE),
           ~parse(p, <<>>).failed
    PROVE  /\ ParserAt(parse(p, <<>>), "request", all, w, known, gone, n, FALSE)
           /\ QuietAt(parse(p, <<>>), all, w, n, gone)
<1>1. p \in ParserRecords
  BY DEF ParserAt, StandsAt
<1>2. Eof(p) = p \/ (Eof(p).failed /\ Eof(p) \in ParserRecords)
  BY RequestsEnd
<1>3. Eof(p) \in ParserRecords
  BY <1>1, <1>2
<1>4. parse(p, <<>>) = ParseLoop(Eof(p))
  <2>1. parse(p, <<>>) = ParseLoop([Eof(p) EXCEPT !.buffer = @ \o <<>>])
    BY DEF parse
  <2> QED BY <1>3, <2>1, NothingAdded
<1>5. Eof(p) = p
  <2> SUFFICES ASSUME Eof(p).failed PROVE FALSE
    BY <1>2
  <2>1. Len(Eof(p).buffer) \in Nat
    BY <1>3 DEF ParserRecords
  <2>2. ParseLoop(Eof(p)) = Eof(p)
    BY <2>1, FailedStays
  <2> QED BY <1>4, <2>2
<1>6. /\ ParserAt(ParseLoop(p), "request", all, w, known, gone, n, FALSE)
      /\ QuietAt(ParseLoop(p), all, w, n, gone)
  BY ParsesAll
<1> QED BY <1>4, <1>5, <1>6

\* The other way round: a parser of requests that throws at the end of the stream
\* stands within a request.
LEMMA RequestsCut ==
    ASSUME NEW all, NEW w, NEW known, NEW n, Setting("request", all, w, known, n),
           NEW gone \in Nat, NEW p,
           ParserAt(p, "request", all, w, known, gone, n, FALSE),
           QuietAt(p, all, w, n, gone),
           parse(p, <<>>).failed
    PROVE  \E k \in 1..Len(all) : End(all, k - 1) < n /\ (n < End(all, k) \/ UntilEof(all[k], w[k]))
<1> DEFINE k == gone + Len(p.complete) + 1
<1>1. PICK a : StandsAt(p, "request", all, w, known, n, FALSE, k, a)
  BY DEF ParserAt
<1>2. Quiet(p, all, w, n, k)
  BY DEF QuietAt
<1>3. Len(all) \in Nat /\ k \in 1..(Len(all) + 1)
  BY <1>1 DEF Setting, Streamed, StandsAt, MessageAt
<1>4. p.message.state # "FIRST_LINE_PENDING"
  <2> SUFFICES ASSUME p.message.state = "FIRST_LINE_PENDING" PROVE FALSE
    OBVIOUS
  <2>1. p \in ParserRecords
    BY <1>1 DEF StandsAt
  <2>2. Eof(p) = p
    BY DEF Eof
  <2>3. parse(p, <<>>) = ParseLoop([Eof(p) EXCEPT !.buffer = @ \o <<>>])
    BY DEF parse
  <2>4. parse(p, <<>>) = ParseLoop(p)
    BY <2>1, <2>2, <2>3, NothingAdded
  <2>5. ParserAt(ParseLoop(p), "request", all, w, known, gone, n, FALSE)
    BY ParsesAll
  <2>6. ~ParseLoop(p).failed
    BY <2>5 DEF ParserAt, StandsAt
  <2> QED BY <2>4, <2>6
<1> HIDE DEF k
<1>5. k \in 1..Len(all)
  <2>1. p.message # NewMessage
    BY <1>4 DEF NewMessage
  <2>2. k # Len(all) + 1
    BY <1>1, <2>1 DEF StandsAt, MessageAt
  <2> QED BY ONLY <1>3, <2>2
<1>6. Ongoing(p, "request", all, w, known, n, FALSE, k, a)
  BY <1>1, <1>5, MessageInProgress
<1> DEFINE b == End(all, k - 1)
           x == all[k]
<1>7. /\ b \in Nat /\ BodyAt(x) \in Nat /\ BodyAt(x) >= 5 /\ Len(x.body) \in Nat
      /\ Len(x.headers) \in Nat /\ n \in Nat
  <2>1. x \in Messages
    BY <1>5, Standing
  <2>2. b \in Nat /\ Len(x.body) \in Nat /\ Len(x.headers) \in Nat /\ n \in Nat
    BY <1>5, Standing
  <2> QED BY <2>1, <2>2, MessageType
<1>8. a \in Nat /\ a <= n /\ InProgress(p.message, x, w[k], b, a)
  BY <1>6 DEF Ongoing
<1> HIDE DEF b, x
<1>9. b < a
  <2>1. CASE p.message.state = "HEADERS_PENDING"
    <3>1. PICK j \in 0..Len(x.headers) : a = b + 3 * j + 3
      BY <1>8, <2>1, StatesInProgress
    <3>2. j \in Nat
      BY <1>7
    <3> QED BY ONLY <1>7, <3>1, <3>2
  <2>2. CASE p.message.state = "BODY_PENDING"
    <3>1. a - (b + BodyAt(x)) \in Nat
      BY <1>8, <2>2, StatesInProgress
    <3>2. a \in Nat
      BY <1>8
    <3> QED BY ONLY <1>7, <3>1, <3>2
  <2>3. CASE p.message.state = "COMPLETE"
    <3>1. a = b + BodyAt(x) + Len(x.body)
      BY <1>8, <2>3, StatesInProgress
    <3> QED BY ONLY <1>7, <3>1
  <2>4. p.message.state \in {"FIRST_LINE_PENDING", "HEADERS_PENDING", "BODY_PENDING",
                             "COMPLETE"}
    BY <1>8, StatesInProgress
  <2> QED BY <1>4, <2>1, <2>2, <2>3, <2>4
<1>10. b < n
  <2>1. a \in Nat /\ a <= n
    BY <1>8
  <2> QED BY ONLY <1>7, <1>9, <2>1
<1>11. n < End(all, k) \/ UntilEof(all[k], w[k])
  BY <1>2, <1>5 DEF Quiet
<1> QED BY <1>5, <1>10, <1>11 DEF b

\* At the end of the connection the parser of responses, which has read the
\* stream up to there, does not fail, and completes the message that ends so.
LEMMA ParsesResponsesEnd ==
    ASSUME NEW all, NEW w, NEW known, NEW n, Setting("response", all, w, known, n),
           n = End(all, Len(all)), NEW e, NEW gone \in Nat, NEW p,
           ParserAt(p, "response", all, w, known, gone, n, e),
           QuietAt(p, all, w, n, gone)
    PROVE  /\ ParserAt(parse(p, <<>>), "response", all, w, known, gone, n, TRUE)
           /\ QuietAt(parse(p, <<>>), all, w, n, gone)
<1> DEFINE q == Eof(p)
<1>1. ParserAt(q, "response", all, w, known, gone, n, TRUE)
  BY ResponsesEnd
<1>2. parse(p, <<>>) = ParseLoop([q EXCEPT !.buffer = @ \o <<>>])
  BY DEF parse
<1> HIDE DEF q
<1>3. q \in ParserRecords
  BY <1>1 DEF ParserAt, StandsAt
<1>4. parse(p, <<>>) = ParseLoop(q)
  BY <1>2, <1>3, NothingAdded
<1>5. /\ ParserAt(ParseLoop(q), "response", all, w, known, gone, n, TRUE)
      /\ QuietAt(ParseLoop(q), all, w, n, gone)
  BY <1>1, ParsesAll
<1> QED BY <1>4, <1>5

\* Message j has been found when it has been read, and before that not.
LEMMA FoundWhenRead ==
    ASSUME NEW kind, NEW all, NEW w, NEW known, NEW n, Setting(kind, all, w, known, n),
           NEW e, NEW gone \in Nat, NEW p,
           ParserAt(p, kind, all, w, known, gone, n, e), QuietAt(p, all, w, n, gone)
    PROVE  /\ gone + Len(p.complete) <= known /\ Len(p.complete) \in Nat
           /\ \A j \in 1..Len(all) :
                 j <= gone + Len(p.complete) <=>
                    End(all, j) <= n /\ (UntilEof(all[j], w[j]) => e)
<1> DEFINE l == Len(p.complete)
           k == gone + l + 1
           N == Len(all)
<1>1. PICK a : StandsAt(p, kind, all, w, known, n, e, k, a)
  BY DEF ParserAt
<1>2. /\ p \in ParserRecords /\ MessageAt(p.message, all, w, k, a, e)
      /\ a \in Nat /\ a <= n /\ Quiet(p, all, w, n, k) /\ e \in BOOLEAN
      /\ e => n = End(all, N)
  BY <1>1 DEF StandsAt, QuietAt
<1>3. /\ l \in Nat /\ N \in Nat /\ k \in 1..(N + 1) /\ k \in Nat
      /\ all \in Seq(Messages) /\ n \in Nat /\ known \in 0..N /\ n <= End(all, known)
  BY <1>2 DEF Setting, Streamed, MessageAt, ParserRecords
<1>4. \A j \in 1..N : /\ UntilEof(all[j], w[j]) => j = N
                      /\ j \in 0..N /\ End(all, j) \in Nat
  <2> SUFFICES ASSUME NEW j \in 1..N
               PROVE  /\ UntilEof(all[j], w[j]) => j = N
                      /\ j \in 0..N /\ End(all, j) \in Nat
    OBVIOUS
  <2>1. j \in 0..N /\ j \in 1..Len(all)
    BY <1>3
  <2> QED BY <2>1, Standing
\* The message in progress begins where all before it end.
<1>5. k - 1 \in 0..N /\ End(all, k - 1) \in Nat /\ End(all, k - 1) <= n
  <2>1. k - 1 \in 0..N /\ k - 1 \in 0..Len(all)
    BY <1>3
  <2>2. End(all, k - 1) \in Nat
    BY <1>3, <2>1, StreamType
  <2>3. CASE k = N + 1
    <3>1. a = End(all, N) /\ k - 1 = N
      BY <1>2, <1>3, <2>3 DEF MessageAt
    <3> QED BY <1>2, <2>1, <2>2, <3>1
  <2>4. CASE k # N + 1
    <3>1. k \in 1..Len(all)
      BY <1>3, <2>4
    <3> HIDE DEF k, l
    <3>2. Ongoing(p, kind, all, w, known, n, e, k, a)
      BY <1>1, <3>1, MessageInProgress
    <3>3. BodyAt(all[k]) \in Nat /\ Len(all[k].body) \in Nat
      BY <3>1, Standing, MessageType
    <3> DEFINE b == End(all, k - 1)
               z == BodyAt(all[k])
               m == Len(all[k].body)
    <3>4. /\ b \in Nat /\ z \in Nat /\ m \in Nat /\ a \in Nat
          /\ \/ a = b \/ (\E j \in Nat : a = b + 3 * j + 3)
             \/ a - (b + z) \in Nat \/ a = b + z + m
      <4>1. InProgress(p.message, all[k], w[k], b, a)
        BY <3>2 DEF Ongoing
      <4>2. \A j \in 0..Len(all[k].headers) : j \in Nat
        BY <3>1, Standing
      <4> QED BY <1>2, <2>2, <3>3, <4>1, <4>2 DEF InProgress
    <3> HIDE DEF b, z, m
    <3>5. b <= a
      BY ONLY <3>4
    <3> QED BY <1>2, <1>3, <2>1, <2>2, <3>4, <3>5 DEF b
  <2> QED BY <2>1, <2>2, <2>3, <2>4
<1> HIDE DEF k, l, N
<1>6. k - 1 <= known
  <2>1. ~(End(all, known) < End(all, k - 1))
    <3>1. End(all, known) \in Nat
      BY <1>3, StreamType DEF N
    <3> QED BY <1>3, <1>5, <3>1
  <2>2. k - 1 \in Nat /\ known \in Nat
    BY <1>3, <1>5
  <2>3. known < k - 1 => End(all, known) < End(all, k - 1)
    BY <1>3, <1>5, EndsIncrease DEF N
  <2> QED BY <2>1, <2>2, <2>3
<1>7. ASSUME NEW j \in 1..N
      PROVE  j <= k - 1 <=> End(all, j) <= n /\ (UntilEof(all[j], w[j]) => e)
  <2>1. j \in 0..N /\ End(all, j) \in Nat /\ (UntilEof(all[j], w[j]) => j = N) /\ j \in Nat
    BY <1>4
  <2>2. ASSUME j <= k - 1
        PROVE  End(all, j) <= n /\ (UntilEof(all[j], w[j]) => e)
    <3>1. End(all, j) <= End(all, k - 1)
      BY <1>3, <1>5, <2>1, <2>2, EndsIncrease DEF N
    <3>2. ASSUME UntilEof(all[j], w[j]) PROVE e
      <4>1. j = N /\ k = N + 1
        BY <1>3, <2>1, <2>2, <3>2
      <4> QED BY <1>2, <3>2, <4>1 DEF MessageAt, N
    <3> QED BY <1>3, <1>5, <2>1, <3>1, <3>2
  <2>3. ASSUME ~(j <= k - 1)
        PROVE  ~(End(all, j) <= n /\ (UntilEof(all[j], w[j]) => e))
    <3>1. k <= N /\ k \in 0..N /\ k <= j /\ k \in 1..N
      BY <1>3, <2>1, <2>3
    <3>2. End(all, k) <= End(all, j) /\ End(all, k) \in Nat
      BY <1>3, <1>4, <2>1, <3>1, EndsIncrease DEF N
    <3>3. CASE n < End(all, k)
      BY <1>3, <2>1, <3>2, <3>3
    <3>4. CASE UntilEof(all[k], w[k]) /\ p.message.state = "BODY_PENDING"
      <4>1. k = N /\ j = N
        BY <1>3, <1>4, <2>1, <3>1, <3>4
      <4>2. ~e
        BY <1>2, <3>1, <3>4 DEF MessageAt, N
      <4> QED BY <3>4, <4>1, <4>2
    <3> QED BY <1>2, <3>1, <3>3, <3>4 DEF Quiet, N
  <2> QED BY <2>2, <2>3
<1>8. k - 1 = gone + l
  BY <1>3 DEF k
<1> QED BY <1>3, <1>6, <1>7, <1>8 DEF l, N

\* A parser before anything has been read.
LEMMA ParserBegins ==
    ASSUME NEW kind, NEW all, NEW w, NEW known, known = 0 \/ kind = "request",
           Setting(kind, all, w, known, 0)
    PROVE  /\ ParserAt(NewParser(kind), kind, all, w, known, 0, 0, FALSE)
           /\ QuietAt(NewParser(kind), all, w, 0, 0)
           /\ NewParser(kind).complete = <<>>
<1> DEFINE p == NewParser(kind)
           k == 0 + Len(p.complete) + 1
<1>1. /\ kind \in {"request", "response"} /\ all \in Seq(Messages) /\ Len(all) > 0
      /\ Len(all) \in Nat /\ 1 \in 1..Len(all)
  BY DEF Setting, Streamed
<1>2. /\ NewMessage \in MessageRecords /\ NewMessage.state = "FIRST_LINE_PENDING"
  BY NewMessageType DEF NewMessage
<1>3. /\ p.kind = kind /\ p.buffer = <<>> /\ p.message = NewMessage /\ p.complete = <<>>
      /\ p.heads = <<>> /\ p.failed = FALSE /\ p \in ParserRecords
  BY <1>1, <1>2 DEF NewParser, ParserRecords
<1> HIDE DEF p
<1>4. k = 1 /\ Len(p.complete) = 0
  BY <1>3
<1> HIDE DEF k
<1>5. /\ All(all) \in Seq(Symbols) /\ End(all, 1 - 1) = 0
      /\ End(all, 1) \in Nat /\ End(all, 1) >= End(all, 1 - 1) + 5
  BY <1>1, Standing, FirstNone
<1>6. SubSeq(All(all), 0 + 1, 0) = <<>>
  BY <1>5
<1>7. MessageAt(p.message, all, w, 1, 0, FALSE)
  <2>1. InProgress(p.message, all[1], w[1], End(all, 1 - 1), 0)
    BY <1>3, <1>5 DEF InProgress
  <2>2. ~(1 = Len(all) + 1) /\ 1 \in 1..(Len(all) + 1)
    BY <1>1
  <2> QED BY <1>2, <1>3, <2>1, <2>2 DEF MessageAt
<1>8. kind = "response" => HeadsFrom(p.heads, w, known, Begun(p.message, 1))
  <2> SUFFICES ASSUME kind = "response" PROVE HeadsFrom(p.heads, w, known, Begun(p.message, 1))
    OBVIOUS
  <2>1. known = 0 /\ Begun(p.message, 1) = 0
    BY <1>2, <1>3 DEF Begun
  <2>2. [i \in 1..(0 - 0) |-> w[0 + i]] = <<>>
    OBVIOUS
  <2> QED BY <1>3, <2>1, <2>2 DEF HeadsFrom
<1>9. StandsAt(p, kind, all, w, known, 0, FALSE, 1, 0)
  <2>1. /\ 0 \in Nat /\ 0 <= 0 /\ FALSE \in BOOLEAN /\ ~p.failed
        /\ p.buffer = SubSeq(All(all), 0 + 1, 0)
    BY <1>3, <1>6
  <2> QED BY <1>3, <1>7, <1>8, <2>1, Zenon DEF StandsAt
<1>10. ParserAt(p, kind, all, w, known, 0, 0, FALSE)
  <2>1. StandsAt(p, kind, all, w, known, 0, FALSE, k, 0)
    BY <1>4, <1>9
  <2>2. 1..Len(p.complete) = {}
    BY <1>4
  <2> QED BY <2>1, <2>2, Zenon DEF ParserAt, k
<1>11. Quiet(p, all, w, 0, 1)
  BY <1>5 DEF Quiet
<1>12. QuietAt(p, all, w, 0, 0)
  BY <1>4, <1>11 DEF QuietAt, k
<1> QED BY <1>3, <1>10, <1>12 DEF p

\* A message that has been found is passed on.
LEMMA FrontPopped ==
    ASSUME NEW kind, NEW all, NEW w, NEW known, NEW n, NEW e, NEW gone \in Nat, NEW p,
           ParserAt(p, kind, all, w, known, gone, n, e), QuietAt(p, all, w, n, gone),
           p.complete # <<>>
    PROVE  /\ ParserAt(pop(p), kind, all, w, known, gone + 1, n, e)
           /\ QuietAt(pop(p), all, w, n, gone + 1)
           /\ SameMessage(Head(p.complete), all[gone + 1])
           /\ Head(p.complete) \in MessageRecords
<1> DEFINE r == pop(p)
           k == gone + Len(p.complete) + 1
           t == Tail(p.complete)
           l == Len(p.complete)
<1>1. PICK a : StandsAt(p, kind, all, w, known, n, e, k, a)
  BY DEF ParserAt
<1>2. /\ p \in ParserRecords /\ Quiet(p, all, w, n, k)
      /\ \A i \in 1..l : SameMessage(p.complete[i], all[gone + i])
  BY <1>1 DEF StandsAt, QuietAt, ParserAt
<1>3. p.complete \in Seq(MessageRecords)
  BY <1>2 DEF ParserRecords
<1>4. /\ t \in Seq(MessageRecords) /\ Len(t) = l - 1
      /\ \A i \in 1..(l - 1) : t[i] = p.complete[i + 1]
  BY <1>3, TailType
<1>5. l \in Nat /\ l > 0 /\ Head(p.complete) = p.complete[1] /\ 1 \in 1..l
      /\ p.complete[1] \in MessageRecords
  BY <1>3
<1>6. r = [p EXCEPT !.complete = t]
  BY <1>2 DEF pop, ParserRecords
<1> HIDE DEF t, r, k, l
<1>7. /\ r \in ParserRecords /\ r.kind = p.kind /\ r.failed = p.failed
      /\ r.buffer = p.buffer /\ r.message = p.message /\ r.complete = t
      /\ r.heads = p.heads
  BY <1>2, <1>4, <1>6 DEF ParserRecords
<1>8. gone + 1 + Len(r.complete) + 1 = k /\ Len(r.complete) = l - 1
  <2>1. Len(r.complete) = l - 1 /\ k = gone + l + 1
    BY <1>4, <1>7 DEF k, l
  <2> QED BY <1>5, <2>1
<1>9. StandsAt(r, kind, all, w, known, n, e, k, a)
  BY <1>1, <1>7 DEF StandsAt
<1>10. \A i \in 1..(l - 1) : SameMessage(r.complete[i], all[gone + 1 + i])
  <2> SUFFICES ASSUME NEW i \in 1..(l - 1)
               PROVE  SameMessage(r.complete[i], all[gone + 1 + i])
    OBVIOUS
  <2>1. i + 1 \in 1..l /\ gone + (i + 1) = gone + 1 + i
    BY <1>5
  <2>2. SameMessage(p.complete[i + 1], all[gone + (i + 1)])
    BY <1>2, <2>1
  <2> QED BY <1>4, <1>7, <2>1, <2>2
<1>11. ParserAt(r, kind, all, w, known, gone + 1, n, e)
  BY <1>8, <1>9, <1>10 DEF ParserAt
<1>12. Quiet(r, all, w, n, k)
  BY <1>2, <1>7 DEF Quiet
<1>13. QuietAt(r, all, w, n, gone + 1)
  BY <1>8, <1>12 DEF QuietAt
<1>14. SameMessage(Head(p.complete), all[gone + 1])
  BY <1>2, <1>5
<1> QED BY <1>5, <1>11, <1>13, <1>14 DEF r

\* What is noted of a request, for its response.
IsHead(request, b) == (request.first_line[1] = "HEAD") = b

\* Parser r is p with one more request known.
NowKnown(r, p, all, w, known, gone, n, e) ==
    /\ Setting("response", all, w, known, n)
    /\ ParserAt(r, "response", all, w, known, gone, n, e)
    /\ QuietAt(r, all, w, n, gone) /\ r.complete = p.complete

\* A request is passed on, to which a response will come.
LEMMA RequestKnown ==
    ASSUME NEW all, NEW w, NEW known, NEW n, Setting("response", all, w, known, n),
           known < Len(all), NEW e, NEW gone \in Nat, NEW p,
           ParserAt(p, "response", all, w, known, gone, n, e), QuietAt(p, all, w, n, gone),
           NEW request, IsHead(request, w[known + 1])
    PROVE  NowKnown(new_request_arrived(p, request), p, all, w, known + 1, gone, n, e)
<1> DEFINE k == gone + Len(p.complete) + 1
           h == request.first_line[1] = "HEAD"
           t == Append(p.heads, h)
           r == new_request_arrived(p, request)
           known1 == known + 1
<1>1. PICK a : StandsAt(p, "response", all, w, known, n, e, k, a)
  BY DEF ParserAt
<1>2. /\ p \in ParserRecords /\ Quiet(p, all, w, n, k) /\ p.kind = "response"
      /\ \A i \in 1..Len(p.complete) : SameMessage(p.complete[i], all[gone + i])
      /\ HeadsFrom(p.heads, w, known, Begun(p.message, k))
      /\ MessageAt(p.message, all, w, k, a, e)
  BY <1>1 DEF StandsAt, QuietAt, ParserAt
<1>3. /\ all \in Seq(Messages) /\ known \in 0..Len(all) /\ n \in Nat /\ n <= End(all, known)
      /\ w \in [1..Len(all) -> BOOLEAN] /\ Len(all) \in Nat
      /\ known \in Nat /\ known1 \in 0..Len(all) /\ known1 \in 1..Len(all)
      /\ known <= known1 /\ k \in 1..(Len(all) + 1)
  BY <1>2 DEF Setting, Streamed, MessageAt
<1>4. Setting("response", all, w, known1, n)
  <2> HIDE DEF known1, k
  <2>1. End(all, known) <= End(all, known1) /\ End(all, known) \in Nat
        /\ End(all, known1) \in Nat
    BY <1>3, EndsIncrease, StreamType
  <2>2. n <= End(all, known1)
    BY <1>3, <2>1
  <2> QED BY <1>3, <2>2 DEF Setting
<1>5. h = w[known1] /\ h \in BOOLEAN
  BY <1>3 DEF IsHead
<1> HIDE DEF h
<1>6. t \in Seq(BOOLEAN) /\ p.heads \in Seq(BOOLEAN)
  BY <1>2, <1>5 DEF ParserRecords
<1>7. r = [p EXCEPT !.heads = t]
  BY <1>2 DEF new_request_arrived, ParserRecords, h
<1> HIDE DEF t, r
<1>8. /\ r \in ParserRecords /\ r.kind = p.kind /\ r.failed = p.failed
      /\ r.buffer = p.buffer /\ r.message = p.message /\ r.complete = p.complete
      /\ r.heads = t
  BY <1>2, <1>6, <1>7 DEF ParserRecords
<1> DEFINE j == Begun(p.message, k)
           v == [i \in 1..(known1 - j) |-> w[j + i]]
<1>9. j \in Nat
  BY <1>3 DEF Begun
<1>10. HeadsFrom(t, w, known1, j)
  <2>1. HeadsFrom(p.heads, w, known, j)
    BY <1>2
  <2> HIDE DEF j, k
  <2> DEFINE l == known - j
             l1 == known1 - j
  <2>2. /\ l \in Nat /\ l1 = l + 1 /\ j + l1 = known1 /\ j <= known1
        /\ p.heads = [i \in 1..l |-> w[j + i]]
    BY <1>3, <1>9, <2>1 DEF HeadsFrom
  <2> HIDE DEF l, l1, known1
  <2>3. Len(p.heads) = l /\ \A i \in 1..l : p.heads[i] = w[j + i]
    BY <2>2
  <2>4. /\ Len(t) = l1 /\ t[l1] = h /\ \A i \in 1..l : t[i] = p.heads[i]
    <3>1. Len(Append(p.heads, h)) = l + 1 /\ Append(p.heads, h)[l + 1] = h
          /\ \A i \in 1..l : Append(p.heads, h)[i] = p.heads[i]
      BY <1>5, <1>6, <2>2, <2>3
    <3> QED BY <2>2, <3>1 DEF t
  <2>5. ASSUME NEW i \in 1..l1 PROVE t[i] = w[j + i] /\ w[j + i] \in BOOLEAN
    <3>1. i \in 1..l \/ i = l1
      BY <2>2
    <3>2. t[i] = w[j + i]
      BY <1>5, <2>2, <2>3, <2>4, <3>1
    <3>3. t[i] \in BOOLEAN
      BY <1>6, <2>4
    <3> QED BY <3>2, <3>3
  <2> DEFINE u == [i \in 1..l1 |-> w[j + i]]
  <2>6. u \in Seq(BOOLEAN) /\ Len(u) = l1
    BY <2>2, <2>5
  <2>7. \A i \in 1..l1 : t[i] = u[i]
    BY <2>5
  <2> HIDE DEF u
  <2>8. t = u
    BY <1>6, <2>4, <2>6, <2>7, SameSeq
  <2> QED BY <2>2, <2>8 DEF HeadsFrom, u, l1
<1>11. StandsAt(r, "response", all, w, known1, n, e, k, a)
  BY <1>1, <1>8, <1>10 DEF StandsAt
<1>12. ParserAt(r, "response", all, w, known1, gone, n, e)
  BY <1>2, <1>8, <1>11 DEF ParserAt
<1>13. Quiet(r, all, w, n, k)
  BY <1>2, <1>8 DEF Quiet
<1>14. QuietAt(r, all, w, n, gone)
  BY <1>8, <1>13 DEF QuietAt
<1> QED BY <1>4, <1>8, <1>12, <1>14 DEF r, NowKnown
-----------------------------------------------------------------------------
(* The connection                                                          *)

\* The messages of a script, and which of the requests are HEAD.
RequestsOf(s) == [k \in 1..Len(s) |-> s[k].request]
ResponsesOf(s) == [k \in 1..Len(s) |-> s[k].response]
ToHead(s) == [k \in 1..Len(s) |-> s[k].request.first_line[1] = "HEAD"]
NoHead(s) == [k \in 1..Len(s) |-> FALSE]

\* What the script's assumption says of one exchange.
ExchangeFacts(s, k) ==
    /\ s[k].request \in Messages /\ s[k].response \in Messages
    /\ WellFormedRequest(s[k].request) /\ WellFormedResponse(s[k])
    /\ EndsWithConnection(s[k]) => k = Len(s)

\* What the assumption on scripts says of each exchange.
LEMMA ScriptFacts ==
    ASSUME NEW s \in Scripts
    PROVE  /\ Len(s) \in Nat /\ Len(s) > 0
           /\ \A k \in 1..Len(s) : ExchangeFacts(s, k)
<1>1. /\ s \in Seq([request : Messages, response : Messages]) /\ s # <<>>
      /\ \A k \in DOMAIN s : /\ WellFormedRequest(s[k].request)
                             /\ WellFormedResponse(s[k])
                             /\ EndsWithConnection(s[k]) => k = Len(s)
  BY ScriptAssumption
<1>2. Len(s) \in Nat /\ Len(s) > 0 /\ DOMAIN s = 1..Len(s)
      /\ \A k \in 1..Len(s) : s[k] \in [request : Messages, response : Messages]
  <2> DEFINE E == [request : Messages, response : Messages]
  <2>1. s \in Seq(E) /\ s # <<>>
    BY <1>1
  <2> HIDE DEF E
  <2>2. Len(s) \in Nat /\ Len(s) > 0 /\ DOMAIN s = 1..Len(s)
        /\ \A k \in 1..Len(s) : s[k] \in E
    BY ONLY <2>1
  <2> QED BY <2>2 DEF E
<1>3. \A k \in 1..Len(s) : s[k].request \in Messages /\ s[k].response \in Messages
  BY <1>2
<1> QED BY <1>1, <1>2, <1>3 DEF ExchangeFacts

\* The requests are a stream that the parser of requests can follow.
LEMMA RequestsStreamed ==
    ASSUME NEW s \in Scripts
    PROVE  /\ Streamed("request", RequestsOf(s), NoHead(s))
           /\ Len(RequestsOf(s)) = Len(s)
           /\ \A k \in 1..Len(s) : RequestsOf(s)[k] = s[k].request
                                   /\ ~UntilEof(RequestsOf(s)[k], NoHead(s)[k])
<1> DEFINE all == RequestsOf(s)
           w == NoHead(s)
<1>1. Len(s) \in Nat /\ Len(s) > 0 /\ \A k \in 1..Len(s) : ExchangeFacts(s, k)
  BY ScriptFacts
<1>2. /\ all \in Seq(Messages) /\ Len(all) = Len(s) /\ w \in [1..Len(s) -> BOOLEAN]
      /\ \A k \in 1..Len(s) : all[k] = s[k].request /\ w[k] = FALSE
  <2>1. \A k \in 1..Len(s) : s[k].request \in Messages
    BY <1>1 DEF ExchangeFacts
  <2> QED BY <1>1, <2>1 DEF RequestsOf, NoHead
<1> HIDE DEF all, w
<1>3. ASSUME NEW k \in 1..Len(s)
      PROVE  /\ WellFramed(all[k], w[k], "request") /\ ~UntilEof(all[k], w[k]) /\ ~w[k]
  <2> DEFINE x == all[k]
  <2>1. WellFormedRequest(x) /\ w[k] = FALSE
    BY <1>1, <1>2 DEF ExchangeFacts
  <2> HIDE DEF x
  <2>2. WellFramed(x, FALSE, "request")
    BY <2>1 DEF WellFormedRequest, WellFramed
  <2>3. ~UntilEof(x, FALSE)
    BY <2>1 DEF WellFormedRequest, UntilEof
  <2> QED BY <2>1, <2>2, <2>3 DEF x
<1>4. Streamed("request", all, w)
  BY <1>1, <1>2, <1>3 DEF Streamed
<1> QED BY <1>2, <1>3, <1>4 DEF all, w

\* So are the responses for the parser of responses, which is told what they
\* answer.
LEMMA ResponsesStreamed ==
    ASSUME NEW s \in Scripts
    PROVE  /\ Streamed("response", ResponsesOf(s), ToHead(s))
           /\ Len(ResponsesOf(s)) = Len(s)
           /\ \A k \in 1..Len(s) :
                 /\ ResponsesOf(s)[k] = s[k].response
                 /\ ToHead(s)[k] = (s[k].request.first_line[1] = "HEAD")
                 /\ UntilEof(ResponsesOf(s)[k], ToHead(s)[k]) <=> EndsWithConnection(s[k])
<1> DEFINE all == ResponsesOf(s)
           w == ToHead(s)
<1>1. Len(s) \in Nat /\ Len(s) > 0 /\ \A k \in 1..Len(s) : ExchangeFacts(s, k)
  BY ScriptFacts
<1>2. /\ all \in Seq(Messages) /\ Len(all) = Len(s) /\ w \in [1..Len(s) -> BOOLEAN]
      /\ \A k \in 1..Len(s) :
            all[k] = s[k].response /\ w[k] = (s[k].request.first_line[1] = "HEAD")
  <2>1. \A k \in 1..Len(s) : s[k].response \in Messages
    BY <1>1 DEF ExchangeFacts
  <2> QED BY <1>1, <2>1 DEF ResponsesOf, ToHead
<1> HIDE DEF all, w
<1>3. ASSUME NEW k \in 1..Len(s)
      PROVE  /\ WellFramed(all[k], w[k], "response")
             /\ UntilEof(all[k], w[k]) <=> EndsWithConnection(s[k])
  <2> DEFINE x == all[k]
             h == w[k]
  <2>1. WellFormedResponse(s[k]) /\ x = s[k].response /\ h \in BOOLEAN
        /\ (h <=> s[k].request.first_line[1] = "HEAD")
    BY <1>1, <1>2 DEF ExchangeFacts
  <2> HIDE DEF x, h
  <2>2. /\ x \in Messages /\ x.first_line[1] \in {"200", "204", "304"}
        /\ IsBodiless(s[k]) <=> h \/ x.first_line[1] \in {"204", "304"}
        /\ IF IsBodiless(s[k]) THEN x.body = <<>>
           ELSE IF ChunkedLast(x) THEN IsChunked(x.body, HasHeader(x, "trailer"))
           ELSE IF EndsWithConnection(s[k]) THEN ~HasHeader(x, "byteranges")
           ELSE LengthIsTrue(x)
    BY <2>1 DEF WellFormedResponse, IsBodiless
  <2>3. UntilEof(x, h) <=> EndsWithConnection(s[k])
    BY <2>1, <2>2 DEF UntilEof, EndsWithConnection
  <2>4. WellFramed(x, h, "response")
    BY <2>1, <2>2, <2>3 DEF WellFramed, InChunks, UntilEof
  <2> QED BY <2>3, <2>4 DEF x, h
<1>4. ASSUME NEW k \in 1..Len(s), UntilEof(all[k], w[k]) PROVE k = Len(s)
  BY <1>1, <1>3, <1>4 DEF ExchangeFacts
<1>5. Streamed("response", all, w)
  BY <1>1, <1>2, <1>3, <1>4 DEF Streamed
<1> QED BY <1>2, <1>3, <1>5 DEF all, w

\* The streams of the model are those of the messages.
LEMMA StreamsOf ==
    ASSUME NEW s \in Scripts, NEW n \in 0..Len(s)
    PROVE  /\ RequestStreams[s][n] = First(RequestsOf(s), n)
           /\ ResponseStreams[s][n] = First(ResponsesOf(s), n)
<1>1. \A k \in 1..n : k \in 1..Len(s)
  BY ScriptFacts
<1>2. /\ [k \in 1..n |-> s[k].request] = [k \in 1..n |-> RequestsOf(s)[k]]
      /\ [k \in 1..n |-> s[k].response] = [k \in 1..n |-> ResponsesOf(s)[k]]
  BY <1>1 DEF RequestsOf, ResponsesOf
<1>3. /\ RequestStreams[s][n] = Stream([k \in 1..n |-> s[k].request])
      /\ ResponseStreams[s][n] = Stream([k \in 1..n |-> s[k].response])
  BY DEF RequestStreams, ResponseStreams
<1> QED BY <1>2, <1>3 DEF First

\* The requests of script s: done were passed on, the others found are p's, which
\* has read n symbols; and the responses to known of them, where e tells whether
\* their end has been read.
RequestsKept(s, p, done, n) ==
    /\ Setting("request", RequestsOf(s), NoHead(s), Len(s), n)
    /\ done \in Seq(MessageRecords)
    /\ ParserAt(p, "request", RequestsOf(s), NoHead(s), Len(s), Len(done), n, FALSE)
    /\ QuietAt(p, RequestsOf(s), NoHead(s), n, Len(done))
    /\ \A i \in 1..Len(done) : SameMessage(done[i], s[i].request)

ResponsesKept(s, p, known, done, n, e) ==
    /\ Setting("response", ResponsesOf(s), ToHead(s), known, n)
    /\ done \in Seq(MessageRecords)
    /\ ParserAt(p, "response", ResponsesOf(s), ToHead(s), known, Len(done), n, e)
    /\ QuietAt(p, ResponsesOf(s), ToHead(s), n, Len(done))
    /\ \A i \in 1..Len(done) : SameMessage(done[i], s[i].response)

\* found is what has been found of all.
FoundIn(found, all, n, e, w) ==
    /\ \A i \in DOMAIN found : i <= Len(all) /\ SameMessage(found[i], all[i])
    /\ \A k \in 1..Len(all) :
          k <= Len(found) <=> End(all, k) <= n /\ (UntilEof(all[k], w[k]) => e)

\* A parser that has read n symbols of the stream and was relieved of the
\* messages in done has found, with those, the messages that end within n.
LEMMA FoundSoFar ==
    ASSUME NEW kind, NEW all, NEW w, NEW known, NEW n, Setting(kind, all, w, known, n),
           NEW e, NEW done \in Seq(MessageRecords), NEW p,
           ParserAt(p, kind, all, w, known, Len(done), n, e),
           QuietAt(p, all, w, n, Len(done)),
           \A i \in 1..Len(done) : SameMessage(done[i], all[i])
    PROVE  /\ FoundIn(done \o p.complete, all, n, e, w)
           /\ p.complete \in Seq(MessageRecords)
           /\ Len(done \o p.complete) = Len(done) + Len(p.complete)
           /\ Len(done) + Len(p.complete) <= known
<1> DEFINE g == Len(done)
           l == Len(p.complete)
           f == done \o p.complete
<1>1. /\ p \in ParserRecords /\ g \in Nat
      /\ \A i \in 1..l : SameMessage(p.complete[i], all[g + i])
  BY DEF ParserAt, StandsAt
<1>2. p.complete \in Seq(MessageRecords)
  BY <1>1 DEF ParserRecords
<1>3. /\ g + l <= known /\ l \in Nat
      /\ \A j \in 1..Len(all) :
            j <= g + l <=> End(all, j) <= n /\ (UntilEof(all[j], w[j]) => e)
  BY <1>1, FoundWhenRead
<1>4. f \in Seq(MessageRecords) /\ Joins(f, done, p.complete)
  BY <1>2, Joined
<1>5. known \in 0..Len(all) /\ Len(all) \in Nat
  BY DEF Setting, Streamed
<1> HIDE DEF g, l, f
<1>6. /\ Len(f) = g + l /\ DOMAIN f = 1..(g + l)
      /\ \A i \in 1..g : f[i] = done[i]
      /\ \A i \in 1..l : f[g + i] = p.complete[i]
  <2>1. DOMAIN f = 1..Len(f)
    BY <1>4
  <2> QED BY <1>4, <2>1, Zenon DEF Joins, g, l
<1>7. ASSUME NEW i \in 1..(g + l) PROVE i <= Len(all) /\ SameMessage(f[i], all[i])
  <2>1. i <= Len(all)
    BY <1>1, <1>3, <1>5
  <2>2. CASE i \in 1..g
    BY <1>6, <2>1, <2>2 DEF g
  <2>3. CASE i \notin 1..g
    <3> DEFINE d == i - g
    <3>1. d \in 1..l /\ g + d = i
      BY <1>1, <1>3, <2>3
    <3> HIDE DEF d
    <3>2. SameMessage(p.complete[d], all[g + d]) /\ f[g + d] = p.complete[d]
      BY <1>1, <1>6, <3>1
    <3> QED BY <2>1, <3>1, <3>2
  <2> QED BY <2>2, <2>3
<1>8. FoundIn(f, all, n, e, w)
  BY <1>3, <1>6, <1>7 DEF FoundIn
<1> QED BY <1>2, <1>3, <1>6, <1>8 DEF g, l, f

\* FoundSoFar for the requests of a script.
LEMMA RequestsFound ==
    ASSUME NEW s \in Scripts, NEW p, NEW done, NEW n, RequestsKept(s, p, done, n)
    PROVE  /\ FoundIn(done \o p.complete, RequestsOf(s), n, FALSE, NoHead(s))
           /\ p.complete \in Seq(MessageRecords) /\ done \in Seq(MessageRecords)
           /\ Len(done \o p.complete) = Len(done) + Len(p.complete)
           /\ Len(done) + Len(p.complete) <= Len(s)
<1> DEFINE all == RequestsOf(s)
           w == NoHead(s)
<1>1. /\ Len(all) = Len(s) /\ Len(s) \in Nat
      /\ \A k \in 1..Len(s) : all[k] = s[k].request
  BY RequestsStreamed, ScriptFacts
<1>2. /\ Setting("request", all, w, Len(s), n) /\ done \in Seq(MessageRecords)
      /\ ParserAt(p, "request", all, w, Len(s), Len(done), n, FALSE)
      /\ QuietAt(p, all, w, n, Len(done))
      /\ \A i \in 1..Len(done) : SameMessage(done[i], s[i].request)
  BY DEF RequestsKept
<1> HIDE DEF all, w
<1>3. Len(done) <= Len(s)
  <2>1. /\ Len(done) + Len(p.complete) <= Len(s) /\ Len(p.complete) \in Nat
    <3>1. Len(done) \in Nat
      BY <1>2
    <3> QED BY <1>2, <3>1, FoundWhenRead
  <2> QED BY <1>1, <1>2, <2>1
<1>4. \A i \in 1..Len(done) : SameMessage(done[i], all[i])
  <2>1. \A i \in 1..Len(done) : i \in 1..Len(s)
    BY <1>1, <1>2, <1>3
  <2> QED BY <1>1, <1>2, <2>1
<1>5. /\ FoundIn(done \o p.complete, all, n, FALSE, w)
      /\ p.complete \in Seq(MessageRecords)
      /\ Len(done \o p.complete) = Len(done) + Len(p.complete)
      /\ Len(done) + Len(p.complete) <= Len(s)
  BY <1>2, <1>4, FoundSoFar
<1> QED BY <1>2, <1>5 DEF all, w

\* FoundSoFar for the responses of a script.
LEMMA ResponsesFound ==
    ASSUME NEW s \in Scripts, NEW p, NEW known, NEW done, NEW n, NEW e,
           ResponsesKept(s, p, known, done, n, e)
    PROVE  /\ FoundIn(done \o p.complete, ResponsesOf(s), n, e, ToHead(s))
           /\ p.complete \in Seq(MessageRecords) /\ done \in Seq(MessageRecords)
           /\ Len(done \o p.complete) = Len(done) + Len(p.complete)
           /\ Len(done) + Len(p.complete) <= known /\ known \in 0..Len(s)
<1> DEFINE all == ResponsesOf(s)
           w == ToHead(s)
<1>1. /\ Len(all) = Len(s) /\ Len(s) \in Nat
      /\ \A k \in 1..Len(s) : all[k] = s[k].response
  BY ResponsesStreamed, ScriptFacts
<1>2. /\ Setting("response", all, w, known, n) /\ done \in Seq(MessageRecords)
      /\ ParserAt(p, "response", all, w, known, Len(done), n, e)
      /\ QuietAt(p, all, w, n, Len(done))
      /\ \A i \in 1..Len(done) : SameMessage(done[i], s[i].response)
  BY DEF ResponsesKept
<1> HIDE DEF all, w
<1>3. Len(done) <= Len(s) /\ known \in 0..Len(s)
  <2>1. /\ Len(done) + Len(p.complete) <= known /\ Len(p.complete) \in Nat
    <3>1. Len(done) \in Nat
      BY <1>2
    <3> QED BY <1>2, <3>1, FoundWhenRead
  <2>2. known \in 0..Len(s)
    BY <1>1, <1>2 DEF Setting
  <2> QED BY <1>1, <1>2, <2>1, <2>2
<1>4. \A i \in 1..Len(done) : SameMessage(done[i], all[i])
  <2>1. \A i \in 1..Len(done) : i \in 1..Len(s)
    BY <1>1, <1>2, <1>3
  <2> QED BY <1>1, <1>2, <2>1
<1>5. /\ FoundIn(done \o p.complete, all, n, e, w)
      /\ p.complete \in Seq(MessageRecords)
      /\ Len(done \o p.complete) = Len(done) + Len(p.complete)
      /\ Len(done) + Len(p.complete) <= known
  BY <1>2, <1>4, FoundSoFar
<1> QED BY <1>2, <1>3, <1>5 DEF all, w

\* More cannot be found than has been read.
LEMMA FoundWithin ==
    ASSUME NEW all \in Seq(Messages), NEW n \in Nat, NEW m \in 0..Len(all),
           n <= End(all, m), NEW found \in Seq(MessageRecords), NEW e, NEW w,
           FoundIn(found, all, n, e, w)
    PROVE  Len(found) <= m
<1> DEFINE l == Len(found)
<1>1. l \in Nat /\ DOMAIN found = 1..l /\ m \in Nat /\ Len(all) \in Nat
  OBVIOUS
<1>2. CASE l = 0
  BY <1>1, <1>2
<1>3. CASE l # 0
  <2>1. l \in DOMAIN found
    BY <1>1, <1>3
  <2>2. l <= Len(all) /\ l \in 1..Len(all) /\ l \in 0..Len(all)
    BY <1>1, <1>3, <2>1 DEF FoundIn
  <2>3. End(all, l) <= n
    <3>1. l <= Len(found)
      BY <1>1
    <3> QED BY <2>2, <3>1 DEF FoundIn
  <2>4. End(all, l) \in Nat /\ End(all, m) \in Nat
    BY <2>2, StreamType
  <2>5. ~(End(all, m) < End(all, l))
    BY <2>3, <2>4
  <2>6. ~(m < l)
    BY <2>2, <2>5, EndsIncrease
  <2> QED BY <1>1, <2>6
<1> QED BY <1>2, <1>3

\* What was found stays found.
LEMMA FoundGrows ==
    ASSUME NEW all \in Seq(Messages), NEW n \in Nat, NEW n2 \in Nat, n <= n2,
           NEW found \in Seq(MessageRecords), NEW found2 \in Seq(MessageRecords),
           NEW e \in BOOLEAN, NEW e2 \in BOOLEAN, e => e2, NEW w,
           FoundIn(found, all, n, e, w), FoundIn(found2, all, n2, e2, w)
    PROVE  Len(found) <= Len(found2)
<1> DEFINE l == Len(found)
           l2 == Len(found2)
<1>1. l \in Nat /\ l2 \in Nat /\ DOMAIN found = 1..l /\ Len(all) \in Nat
  OBVIOUS
<1>2. CASE l = 0
  BY <1>1, <1>2
<1>3. CASE l # 0
  <2>1. l \in DOMAIN found
    BY <1>1, <1>3
  <2>2. l <= Len(all) /\ l \in 1..Len(all) /\ l \in 0..Len(all)
    BY <1>1, <1>3, <2>1 DEF FoundIn
  <2>3. End(all, l) <= n /\ (UntilEof(all[l], w[l]) => e)
    <3>1. l <= Len(found)
      BY <1>1
    <3> QED BY <2>2, <3>1 DEF FoundIn
  <2>4. End(all, l) \in Nat
    BY <2>2, StreamType
  <2>5. End(all, l) <= n2 /\ (UntilEof(all[l], w[l]) => e2)
    BY <2>3, <2>4
  <2>6. \A k \in 1..Len(all) :
           k <= Len(found2) <=> End(all, k) <= n2 /\ (UntilEof(all[k], w[k]) => e2)
    BY DEF FoundIn
  <2> HIDE DEF l
  <2>7. l <= Len(found2)
    BY <2>2, <2>5, <2>6
  <2> QED BY <2>7 DEF l
<1> QED BY <1>2, <1>3

\* The proxy reads requests, or their end.
LEMMA RequestsRead ==
    ASSUME NEW s \in Scripts, NEW p, NEW done, NEW n, RequestsKept(s, p, done, n),
           NEW m \in 0..Len(s), NEW n2 \in Nat, n <= n2, n2 <= Len(RequestStreams[s][m]),
           NEW buf, buf = SubSeq(RequestStreams[s][m], n + 1, n2),
           NEW r, r = parse(p, buf), ~r.failed
    PROVE  RequestsKept(s, r, done, n2) /\ Len(p.complete) <= Len(r.complete)
<1> DEFINE all == RequestsOf(s)
           w == NoHead(s)
           N == Len(s)
<1>1. /\ Len(all) = N /\ N \in Nat /\ Streamed("request", all, w)
      /\ RequestStreams[s][m] = First(all, m)
  BY RequestsStreamed, ScriptFacts, StreamsOf
<1>2. /\ Setting("request", all, w, N, n) /\ done \in Seq(MessageRecords)
      /\ ParserAt(p, "request", all, w, N, Len(done), n, FALSE)
      /\ QuietAt(p, all, w, n, Len(done))
      /\ \A i \in 1..Len(done) : SameMessage(done[i], s[i].request)
      /\ Len(done) \in Nat
  <2>1. done \in Seq(MessageRecords)
    BY DEF RequestsKept
  <2>2. Len(done) \in Nat
    BY <2>1
  <2> QED BY <2>2, Zenon DEF RequestsKept
<1> HIDE DEF all, w, N
<1>3. /\ all \in Seq(Messages) /\ n \in Nat /\ m \in 0..Len(all) /\ N \in 0..Len(all)
      /\ m <= N
  BY <1>1, <1>2 DEF Setting, Streamed, N
<1>4. n2 <= End(all, m) /\ End(all, m) \in Nat /\ End(all, N) \in Nat
      /\ End(all, m) <= End(all, N)
  BY <1>1, <1>3, StreamType, EndsIncrease DEF End
<1>5. n2 <= End(all, N)
  BY <1>4
<1>6. Setting("request", all, w, N, n2)
  BY <1>1, <1>3, <1>5 DEF Setting
<1>7. buf = SubSeq(All(all), n + 1, n2) /\ n2 <= Len(All(all)) /\ All(all) \in Seq(Symbols)
  <2>1. /\ SubSeq(First(all, m), n + 1, n2) = SubSeq(All(all), n + 1, n2)
        /\ n2 <= Len(All(all)) /\ All(all) \in Seq(Symbols)
    BY <1>3, <1>4, PartOfAll
  <2> QED BY <1>1, <2>1
<1>8. /\ ParserAt(r, "request", all, w, N, Len(done), n2, FALSE)
      /\ QuietAt(r, all, w, n2, Len(done))
  <2>1. CASE buf # <<>>
    BY <1>2, <1>6, <1>7, <2>1, ParsesMore
  <2>2. CASE buf = <<>>
    <3>1. n2 = n
      <4>1. SubSeq(All(all), n + 1, n2) = <<>> <=> n = n2
        BY <1>3, <1>7, LeftToParse
      <4> QED BY <1>7, <2>2, <4>1
    <3>2. ~parse(p, <<>>).failed /\ r = parse(p, <<>>)
      BY <2>2
    <3>3. /\ ParserAt(parse(p, <<>>), "request", all, w, N, Len(done), n, FALSE)
          /\ QuietAt(parse(p, <<>>), all, w, n, Len(done))
      BY <1>2, <3>2, ParsesRequestsEnd
    <3> QED BY <3>1, <3>2, <3>3
  <2> QED BY <2>1, <2>2
<1>9. RequestsKept(s, r, done, n2)
  BY <1>2, <1>6, <1>8 DEF RequestsKept, all, w, N
<1>10. /\ FoundIn(done \o p.complete, all, n, FALSE, w)
       /\ p.complete \in Seq(MessageRecords)
       /\ Len(done \o p.complete) = Len(done) + Len(p.complete)
  BY RequestsFound DEF all, w
<1>11. /\ FoundIn(done \o r.complete, all, n2, FALSE, w)
       /\ r.complete \in Seq(MessageRecords)
       /\ Len(done \o r.complete) = Len(done) + Len(r.complete)
  BY <1>9, RequestsFound DEF all, w
<1>12. Len(done \o p.complete) <= Len(done \o r.complete)
  <2>1. done \o p.complete \in Seq(MessageRecords) /\ done \o r.complete \in Seq(MessageRecords)
    BY <1>2, <1>10, <1>11
  <2> QED BY <1>3, <1>10, <1>11, <2>1, FoundGrows
<1>13. Len(p.complete) <= Len(r.complete)
  <2>1. Len(p.complete) \in Nat /\ Len(r.complete) \in Nat
    BY <1>10, <1>11
  <2> QED BY <1>2, <1>10, <1>11, <1>12, <2>1
<1> QED BY <1>9, <1>13

\* The end of the stream has been read: nothing was left.
Ended(e2, e, buf) == e2 \in BOOLEAN /\ (e2 <=> e \/ buf = <<>>)

\* The proxy reads responses, or their end, which comes after all of them.
LEMMA ResponsesRead ==
    ASSUME NEW s \in Scripts, NEW p, NEW known, NEW done, NEW n, NEW e,
           ResponsesKept(s, p, known, done, n, e),
           NEW n2 \in Nat, n <= n2, n2 <= Len(ResponseStreams[s][known]),
           NEW buf, buf = SubSeq(ResponseStreams[s][known], n + 1, n2),
           buf = <<>> => known = Len(s) /\ n = Len(ResponseStreams[s][Len(s)]),
           NEW e2, Ended(e2, e, buf),
           NEW r, r = parse(p, buf)
    PROVE  /\ ResponsesKept(s, r, known, done, n2, e2)
           /\ Len(p.complete) <= Len(r.complete)
           /\ ~r.failed
<1> DEFINE all == ResponsesOf(s)
           w == ToHead(s)
           N == Len(s)
<1>1. /\ Len(all) = N /\ N \in Nat /\ Streamed("response", all, w)
  BY ResponsesStreamed, ScriptFacts
<1>2. /\ Setting("response", all, w, known, n) /\ done \in Seq(MessageRecords)
      /\ ParserAt(p, "response", all, w, known, Len(done), n, e)
      /\ QuietAt(p, all, w, n, Len(done))
      /\ \A i \in 1..Len(done) : SameMessage(done[i], s[i].response)
      /\ Len(done) \in Nat
  BY DEF ResponsesKept
<1> HIDE DEF all, w
<1>3. /\ all \in Seq(Messages) /\ n \in Nat /\ known \in 0..Len(all) /\ N \in 0..N
      /\ n <= End(all, known) /\ known \in 0..N
  BY <1>1, <1>2 DEF Setting, Streamed
<1>4. ResponseStreams[s][known] = First(all, known) /\ ResponseStreams[s][N] = First(all, N)
  BY <1>3, StreamsOf DEF all
<1>5. n2 <= End(all, known)
  BY <1>4 DEF End
<1> HIDE DEF N
<1>6. Setting("response", all, w, known, n2)
  BY <1>1, <1>3, <1>5 DEF Setting
<1>7. buf = SubSeq(All(all), n + 1, n2) /\ n2 <= Len(All(all)) /\ All(all) \in Seq(Symbols)
  <2>1. /\ SubSeq(First(all, known), n + 1, n2) = SubSeq(All(all), n + 1, n2)
        /\ n2 <= Len(All(all)) /\ All(all) \in Seq(Symbols)
    BY <1>3, <1>5, PartOfAll
  <2> QED BY <1>4, <2>1
<1>8. /\ ParserAt(r, "response", all, w, known, Len(done), n2, e2)
      /\ QuietAt(r, all, w, n2, Len(done))
  <2>1. CASE buf # <<>>
    <3>1. e => n2 = n
      <4>1. e => n = End(all, Len(all))
        BY <1>2 DEF ParserAt, StandsAt
      <4>2. End(all, known) <= End(all, Len(all)) /\ End(all, Len(all)) \in Nat
            /\ End(all, known) \in Nat
        <5>1. Len(all) \in 0..Len(all) /\ known <= Len(all)
          BY <1>1, <1>3
        <5> QED BY <1>3, <5>1, EndsIncrease, StreamType
      <4> QED BY <1>3, <1>5, <4>1, <4>2
    <3>2. e2 = e
      BY <1>2, <2>1 DEF Ended, ParserAt, StandsAt
    <3> QED BY <1>2, <1>6, <1>7, <2>1, <3>1, <3>2, ParsesMore
  <2>2. CASE buf = <<>>
    <3>1. n2 = n
      <4>1. SubSeq(All(all), n + 1, n2) = <<>> <=> n = n2
        BY <1>3, <1>7, LeftToParse
      <4> QED BY <1>7, <2>2, <4>1
    <3>2. e2 = TRUE /\ r = parse(p, <<>>)
      BY <2>2 DEF Ended
    <3>3. n = End(all, Len(all))
      BY <1>1, <1>4, <2>2 DEF End, N
    <3>4. /\ ParserAt(parse(p, <<>>), "response", all, w, known, Len(done), n, TRUE)
          /\ QuietAt(parse(p, <<>>), all, w, n, Len(done))
      BY <1>2, <3>3, ParsesResponsesEnd
    <3> QED BY <3>1, <3>2, <3>4
  <2> QED BY <2>1, <2>2
<1>9. ResponsesKept(s, r, known, done, n2, e2)
  BY <1>2, <1>6, <1>8 DEF ResponsesKept, all, w
<1>10. /\ FoundIn(done \o p.complete, all, n, e, w)
       /\ p.complete \in Seq(MessageRecords)
       /\ Len(done \o p.complete) = Len(done) + Len(p.complete)
  BY ResponsesFound DEF all, w
<1>11. /\ FoundIn(done \o r.complete, all, n2, e2, w)
       /\ r.complete \in Seq(MessageRecords)
       /\ Len(done \o r.complete) = Len(done) + Len(r.complete)
  BY <1>9, ResponsesFound DEF all, w
<1>12. Len(done \o p.complete) <= Len(done \o r.complete)
  <2>0. e \in BOOLEAN /\ e2 \in BOOLEAN /\ (e => e2)
    BY <1>2 DEF Ended, ParserAt, StandsAt
  <2>1. done \o p.complete \in Seq(MessageRecords) /\ done \o r.complete \in Seq(MessageRecords)
    BY <1>2, <1>10, <1>11
  <2> QED BY <1>3, <1>10, <1>11, <2>0, <2>1, FoundGrows
<1>13. Len(p.complete) <= Len(r.complete)
  <2>1. Len(p.complete) \in Nat /\ Len(r.complete) \in Nat
    BY <1>10, <1>11
  <2> QED BY <1>2, <1>10, <1>11, <1>12, <2>1
<1>14. ~r.failed
  BY <1>8 DEF ParserAt, StandsAt
<1> QED BY <1>9, <1>13, <1>14

\* What is appended to the messages passed on is like what was sent.
LEMMA OneMoreSame ==
    ASSUME NEW done \in Seq(MessageRecords), NEW m \in MessageRecords, NEW all,
           \A i \in 1..Len(done) : SameMessage(done[i], all[i]),
           SameMessage(m, all[Len(done) + 1])
    PROVE  /\ Append(done, m) \in Seq(MessageRecords)
           /\ Len(Append(done, m)) = Len(done) + 1
           /\ \A i \in 1..(Len(done) + 1) : SameMessage(Append(done, m)[i], all[i])
<1> DEFINE l == Len(done)
           t == Append(done, m)
<1>1. /\ t \in Seq(MessageRecords) /\ Len(t) = l + 1 /\ t[l + 1] = m /\ l \in Nat
      /\ \A i \in 1..l : t[i] = done[i]
  OBVIOUS
<1>2. \A i \in 1..(l + 1) : i \in 1..l \/ i = l + 1
  BY <1>1
<1> HIDE DEF l, t
<1>3. ASSUME NEW i \in 1..(l + 1) PROVE SameMessage(t[i], all[i])
  <2>1. CASE i \in 1..l
    BY <1>1, <2>1 DEF l
  <2>2. CASE i = l + 1
    BY <1>1, <2>2 DEF l
  <2> QED BY <1>2, <2>1, <2>2
<1> QED BY <1>1, <1>3 DEF l, t

\* A request is passed on.
LEMMA RequestPassed ==
    ASSUME NEW s \in Scripts, NEW p, NEW done, NEW n, RequestsKept(s, p, done, n),
           p.complete # <<>>, NEW q, NEW back, NEW n2, NEW e,
           ResponsesKept(s, q, Len(done), back, n2, e),
           NEW request, request = Head(p.complete)
    PROVE  /\ RequestsKept(s, pop(p), Append(done, request), n)
           /\ ResponsesKept(s, new_request_arrived(q, request), Len(done) + 1, back, n2, e)
           /\ new_request_arrived(q, request).complete = q.complete
           /\ SameMessage(request, s[Len(done) + 1].request)
           /\ request \in MessageRecords
           /\ Len(Append(done, request)) = Len(done) + 1
           /\ Len(done) + 1 <= Len(s)
<1> DEFINE all == RequestsOf(s)
           w == NoHead(s)
           back_all == ResponsesOf(s)
           back_w == ToHead(s)
           N == Len(s)
           d == Len(done)
<1>1. /\ Len(all) = N /\ N \in Nat /\ Len(back_all) = N
      /\ \A k \in 1..N : all[k] = s[k].request
                         /\ back_w[k] = (s[k].request.first_line[1] = "HEAD")
  BY RequestsStreamed, ResponsesStreamed, ScriptFacts
<1>2. /\ Setting("request", all, w, N, n) /\ done \in Seq(MessageRecords)
      /\ ParserAt(p, "request", all, w, N, d, n, FALSE)
      /\ QuietAt(p, all, w, n, d)
      /\ \A i \in 1..Len(done) : SameMessage(done[i], s[i].request)
      /\ d \in Nat
  <2>1. done \in Seq(MessageRecords)
    BY DEF RequestsKept
  <2>2. Len(done) \in Nat
    BY <2>1
  <2> QED BY <2>2, Zenon DEF RequestsKept
<1>3. /\ Setting("response", back_all, back_w, d, n2) /\ back \in Seq(MessageRecords)
      /\ ParserAt(q, "response", back_all, back_w, d, Len(back), n2, e)
      /\ QuietAt(q, back_all, back_w, n2, Len(back))
      /\ \A i \in 1..Len(back) : SameMessage(back[i], s[i].response)
      /\ Len(back) \in Nat
  BY DEF ResponsesKept
<1>4. d + 1 <= N
  <2>1. p.complete \in Seq(MessageRecords) /\ d + Len(p.complete) <= N
    BY RequestsFound
  <2>2. Len(p.complete) \in Nat /\ Len(p.complete) > 0
    BY <2>1
  <2> HIDE DEF d, N
  <2> QED BY <1>1, <1>2, <2>1, <2>2
<1> HIDE DEF all, w, back_all, back_w
<1>5. /\ ParserAt(pop(p), "request", all, w, N, d + 1, n, FALSE)
      /\ QuietAt(pop(p), all, w, n, d + 1)
      /\ SameMessage(request, all[d + 1]) /\ request \in MessageRecords
  BY <1>2, FrontPopped
<1>6. d + 1 \in 1..N
  BY <1>1, <1>2, <1>4
<1>7. SameMessage(request, s[d + 1].request)
  BY <1>1, <1>5, <1>6
<1>8. /\ Append(done, request) \in Seq(MessageRecords)
      /\ Len(Append(done, request)) = d + 1
      /\ \A i \in 1..(d + 1) : SameMessage(Append(done, request)[i], s[i].request)
  <2> DEFINE sent_as == [i \in 1..N |-> s[i].request]
  <2>1. \A i \in 1..(d + 1) : sent_as[i] = s[i].request
    BY <1>1, <1>2, <1>4
  <2>2. \A i \in 1..Len(done) : i \in 1..(d + 1)
    BY <1>2
  <2>3. Len(done) + 1 \in 1..(d + 1)
    BY <1>2
  <2> HIDE DEF sent_as
  <2>4. \A i \in 1..Len(done) : SameMessage(done[i], sent_as[i])
    BY <1>2, <2>1, <2>2
  <2>5. SameMessage(request, sent_as[Len(done) + 1])
    BY <1>7, <2>1, <2>3
  <2>6. /\ Append(done, request) \in Seq(MessageRecords)
        /\ Len(Append(done, request)) = Len(done) + 1
        /\ \A i \in 1..(Len(done) + 1) : SameMessage(Append(done, request)[i], sent_as[i])
    BY <1>2, <1>5, <2>4, <2>5, OneMoreSame
  <2> QED BY <2>1, <2>6
<1>9. RequestsKept(s, pop(p), Append(done, request), n)
  BY <1>2, <1>5, <1>8 DEF RequestsKept, all, w
<1>10. IsHead(request, back_w[d + 1])
  <2>1. request.first_line = s[d + 1].request.first_line
    BY <1>7 DEF SameMessage
  <2> QED BY <1>1, <1>6, <2>1 DEF IsHead
<1> DEFINE r == new_request_arrived(q, request)
<1>11. /\ Setting("response", back_all, back_w, d + 1, n2)
       /\ ParserAt(r, "response", back_all, back_w, d + 1, Len(back), n2, e)
       /\ QuietAt(r, back_all, back_w, n2, Len(back)) /\ r.complete = q.complete
  <2>1. d < Len(back_all)
    BY <1>1, <1>2, <1>4
  <2> HIDE DEF d, r
  <2>2. NowKnown(new_request_arrived(q, request), q, back_all, back_w, d + 1, Len(back), n2, e)
    BY <1>3, <1>10, <2>1, RequestKnown
  <2> QED BY <2>2 DEF r, NowKnown
<1> HIDE DEF r
<1>12. ResponsesKept(s, r, d + 1, back, n2, e)
  BY <1>3, <1>11 DEF ResponsesKept, back_all, back_w
<1> QED BY <1>4, <1>5, <1>7, <1>8, <1>9, <1>11, <1>12 DEF r

\* A response is passed back.
LEMMA ResponsePassed ==
    ASSUME NEW s \in Scripts, NEW p, NEW known, NEW done, NEW n, NEW e,
           ResponsesKept(s, p, known, done, n, e), p.complete # <<>>,
           NEW response, response = Head(p.complete)
    PROVE  /\ ResponsesKept(s, pop(p), known, Append(done, response), n, e)
           /\ SameMessage(response, s[Len(done) + 1].response)
           /\ response \in MessageRecords
           /\ Len(Append(done, response)) = Len(done) + 1
           /\ Len(done) + 1 <= known /\ known \in 0..Len(s)
<1> DEFINE all == ResponsesOf(s)
           w == ToHead(s)
           N == Len(s)
           d == Len(done)
<1>1. /\ Len(all) = N /\ N \in Nat /\ \A k \in 1..N : all[k] = s[k].response
  BY ResponsesStreamed, ScriptFacts
<1>2. /\ Setting("response", all, w, known, n) /\ done \in Seq(MessageRecords)
      /\ ParserAt(p, "response", all, w, known, d, n, e)
      /\ QuietAt(p, all, w, n, d)
      /\ \A i \in 1..Len(done) : SameMessage(done[i], s[i].response)
      /\ d \in Nat
  BY DEF ResponsesKept
<1>3. d + 1 <= known /\ known \in 0..N
  <2>1. p.complete \in Seq(MessageRecords) /\ d + Len(p.complete) <= known /\ known \in 0..N
    BY ResponsesFound
  <2>2. Len(p.complete) \in Nat /\ Len(p.complete) > 0
    BY <2>1
  <2> HIDE DEF d, N
  <2> QED BY <1>2, <2>1, <2>2
<1> HIDE DEF all, w
<1>4. /\ ParserAt(pop(p), "response", all, w, known, d + 1, n, e)
      /\ QuietAt(pop(p), all, w, n, d + 1)
      /\ SameMessage(response, all[d + 1]) /\ response \in MessageRecords
  BY <1>2, FrontPopped
<1>5. d + 1 \in 1..N
  BY <1>1, <1>2, <1>3
<1>6. SameMessage(response, s[d + 1].response)
  BY <1>1, <1>4, <1>5
<1>7. /\ Append(done, response) \in Seq(MessageRecords)
      /\ Len(Append(done, response)) = d + 1
      /\ \A i \in 1..(d + 1) : SameMessage(Append(done, response)[i], s[i].response)
  <2> DEFINE sent_as == [i \in 1..N |-> s[i].response]
  <2>1. \A i \in 1..(d + 1) : sent_as[i] = s[i].response
    BY <1>1, <1>2, <1>5
  <2>2. \A i \in 1..Len(done) : i \in 1..(d + 1)
    BY <1>2
  <2>3. Len(done) + 1 \in 1..(d + 1)
    BY <1>2
  <2> HIDE DEF sent_as
  <2>4. \A i \in 1..Len(done) : SameMessage(done[i], sent_as[i])
    BY <1>2, <2>1, <2>2
  <2>5. SameMessage(response, sent_as[Len(done) + 1])
    BY <1>6, <2>1, <2>3
  <2>6. /\ Append(done, response) \in Seq(MessageRecords)
        /\ Len(Append(done, response)) = Len(done) + 1
        /\ \A i \in 1..(Len(done) + 1) : SameMessage(Append(done, response)[i], sent_as[i])
    BY <1>2, <1>4, <2>4, <2>5, OneMoreSame
  <2> QED BY <2>1, <2>6
<1>8. ResponsesKept(s, pop(p), known, Append(done, response), n, e)
  BY <1>2, <1>4, <1>7 DEF ResponsesKept, all, w
<1> QED BY <1>3, <1>4, <1>6, <1>7, <1>8

\* The inductive invariant.  The world has not sent more than it may, and the proxy
\* not read more than was sent; the server has closed only after its last response.
Wire ==
    /\ script \in Scripts /\ started \in 1..Exchanges
    /\ sent \in [Sides -> Nat] /\ taken \in [Sides -> Nat]
    /\ taken["client"] <= sent["client"] /\ sent["client"] <= Len(Requests(started))
    /\ taken["server"] <= sent["server"]
    /\ sent["server"] <= Len(Responses(Len(to_server)))
    /\ "server" \in closed => /\ Len(to_server) = Exchanges
                              /\ sent["server"] = Len(Responses(Exchanges))

\* What poll found ready is still so when the loop comes to it.
PollerRecords ==
    [active : SUBSET Actions, events : SUBSET Actions, ready : SUBSET Actions,
     failed : SUBSET Actions, polling : BOOLEAN]

Polled ==
    /\ poller \in PollerRecords
    /\ 1 \in poller.ready => sent["server"] > taken["server"] \/ "server" \in closed
    /\ 3 \in poller.ready => request_parser.complete # <<>>
    /\ 4 \in poller.ready => response_parser.complete # <<>>
    /\ poller.polling => /\ 3 \in poller.events => request_parser.complete # <<>>
                         /\ 4 \in poller.events => response_parser.complete # <<>>

\* Both parsers are at their places in the streams.
Parsed ==
    /\ RequestsKept(script, request_parser, to_server, taken["client"])
    /\ outcome # "exception" =>
          ResponsesKept(script, response_parser, Len(to_server), to_client,
                        taken["server"], "server" \in fd_eof)

\* No request drove one of the first n requests from current_pair.
NoneOvertaken(n) == \A k \in 1..n : k \notin overtaken

\* Of the requests passed on and not answered, all but the last were overtaken; unless
\* the one to be answered next was, it is current_pair.
PairTypes ==
    /\ files \in Seq([request : MessageRecords, response : MessageRecords])
    /\ Len(files) = Len(to_client) /\ to_client \in Seq(MessageRecords)
    /\ current_pair \in MessageRecords
Behind == \A k \in (Len(to_client) + 1)..(Len(to_server) - 1) : k \in overtaken
NextInPair ==
    NoneOvertaken(Len(to_client) + 1) /\ Len(to_server) > Len(to_client) =>
        SameMessage(current_pair, script[Len(to_client) + 1].request)
SavedAsSent ==
    \A i \in 1..Len(files) :
        /\ i <= Exchanges
        /\ SameMessage(files[i].response, script[i].response)
        /\ NoneOvertaken(i) => SameMessage(files[i].request, script[i].request)

Paired == PairTypes /\ Behind /\ NextInPair /\ SavedAsSent

\* Steps that leave the pairs alone keep what is known of them.
LEMMA PairsStay ==
    ASSUME Paired, files' = files, to_client' = to_client, to_server' = to_server,
           current_pair' = current_pair, overtaken' = overtaken, script' = script
    PROVE  Paired'
  BY DEF Paired, PairTypes, Behind, NextInPair, SavedAsSent, NoneOvertaken,
         Exchanges

IInv == Wire /\ Polled /\ Parsed /\ Paired

\* The lengths of the streams.
LEMMA StreamsGrow ==
    ASSUME NEW s \in Scripts, NEW n \in 0..Len(s), NEW m \in 0..Len(s)
    PROVE  /\ Len(RequestStreams[s][n]) \in Nat /\ Len(ResponseStreams[s][n]) \in Nat
           /\ Len(RequestStreams[s][m]) \in Nat /\ Len(ResponseStreams[s][m]) \in Nat
           /\ n <= m => /\ Len(RequestStreams[s][n]) <= Len(RequestStreams[s][m])
                        /\ Len(ResponseStreams[s][n]) <= Len(ResponseStreams[s][m])
           /\ Len(RequestStreams[s][n]) = End(RequestsOf(s), n)
           /\ Len(ResponseStreams[s][n]) = End(ResponsesOf(s), n)
<1> DEFINE a == RequestsOf(s)
           b == ResponsesOf(s)
<1>1. /\ a \in Seq(Messages) /\ b \in Seq(Messages) /\ n \in 0..Len(a) /\ m \in 0..Len(a)
      /\ n \in 0..Len(b) /\ m \in 0..Len(b)
  BY RequestsStreamed, ResponsesStreamed DEF Streamed
<1>2. /\ Len(RequestStreams[s][n]) = End(a, n) /\ Len(ResponseStreams[s][n]) = End(b, n)
      /\ Len(RequestStreams[s][m]) = End(a, m) /\ Len(ResponseStreams[s][m]) = End(b, m)
  BY StreamsOf DEF End
<1> HIDE DEF a, b
<1>3. /\ End(a, n) \in Nat /\ End(a, m) \in Nat /\ End(b, n) \in Nat /\ End(b, m) \in Nat
      /\ n <= m => End(a, n) <= End(a, m)
      /\ n <= m => End(b, n) <= End(b, m)
  BY <1>1, StreamType, EndsIncrease
<1> QED BY <1>2, <1>3 DEF a, b

\* A new connection satisfies the invariant.
LEMMA InitLemma == Init => IInv
<1> SUFFICES ASSUME Init PROVE IInv
  OBVIOUS
<1> DEFINE s == script
<1>1. /\ s \in Scripts /\ started = 1 /\ sent = [x \in Sides |-> 0]
      /\ taken = [x \in Sides |-> 0] /\ closed = {} /\ fd_eof = {}
      /\ request_parser = NewParser("request") /\ response_parser = NewParser("response")
      /\ to_server = <<>> /\ to_client = <<>> /\ files = <<>>
      /\ poller = [active |-> Actions, events |-> {}, ready |-> {},
                   failed |-> {}, polling |-> FALSE]
  BY DEF Init, PollerInit
<1>2. Len(s) \in Nat /\ Len(s) > 0
  BY <1>1, ScriptFacts
<1>3. "client" \in Sides /\ "server" \in Sides
  BY DEF Sides
<1>4. Len(to_server) = 0 /\ Len(to_client) = 0 /\ Len(files) = 0
      /\ to_server \in Seq(MessageRecords) /\ to_client \in Seq(MessageRecords)
      /\ files \in Seq([request : MessageRecords, response : MessageRecords])
  BY <1>1
<1>5. Wire
  <2>1. 0 \in 0..Len(s) /\ 1 \in 0..Len(s) /\ 1 \in 1..Len(s)
    BY <1>2
  <2>2. Len(RequestStreams[s][1]) \in Nat /\ Len(ResponseStreams[s][0]) \in Nat
    BY <1>1, <2>1, StreamsGrow
  <2>3. taken["client"] = 0 /\ sent["client"] = 0 /\ taken["server"] = 0 /\ sent["server"] = 0
        /\ sent \in [Sides -> Nat] /\ taken \in [Sides -> Nat]
    BY <1>1, <1>3
  <2> QED BY <1>1, <1>4, <2>1, <2>2, <2>3 DEF Wire, Exchanges, Requests, Responses
<1>6. Polled
  BY <1>1 DEF Polled, PollerRecords
<1>7. Parsed
  <2> DEFINE a == RequestsOf(s)
             b == ResponsesOf(s)
             wa == NoHead(s)
             wb == ToHead(s)
             N == Len(s)
  <2>1. /\ Streamed("request", a, wa) /\ Streamed("response", b, wb)
        /\ Len(a) = N /\ Len(b) = N
    BY <1>1, RequestsStreamed, ResponsesStreamed
  <2>2. 0 \in 0..N /\ N \in 0..N
    BY <1>2
  <2> HIDE DEF a, b, wa, wb, N
  <2>3. End(a, N) \in Nat /\ End(b, 0) \in Nat
    BY <2>1, <2>2, StreamType DEF Streamed
  <2>4. Setting("request", a, wa, N, 0) /\ Setting("response", b, wb, 0, 0)
    BY <2>1, <2>2, <2>3 DEF Setting
  <2>5. /\ ParserAt(NewParser("request"), "request", a, wa, N, 0, 0, FALSE)
        /\ QuietAt(NewParser("request"), a, wa, 0, 0)
        /\ ParserAt(NewParser("response"), "response", b, wb, 0, 0, 0, FALSE)
        /\ QuietAt(NewParser("response"), b, wb, 0, 0)
    BY <2>4, ParserBegins
  <2>6. taken["client"] = 0 /\ taken["server"] = 0 /\ ("server" \in fd_eof) = FALSE
        /\ 1..0 = {}
    BY <1>1, <1>3
  <2>7. RequestsKept(s, request_parser, to_server, taken["client"])
    BY <1>1, <1>4, <2>4, <2>5, <2>6 DEF RequestsKept, a, wa, N
  <2>8. ResponsesKept(s, response_parser, Len(to_server), to_client, taken["server"],
                      "server" \in fd_eof)
    BY <1>1, <1>4, <2>4, <2>5, <2>6 DEF ResponsesKept, b, wb
  <2> QED BY <2>7, <2>8 DEF Parsed
<1>8. Paired
  <2>1. current_pair \in MessageRecords
    BY NewMessageType DEF Init, NoRequest
  <2>2. PairTypes
    BY <1>1, <1>4, <2>1 DEF PairTypes
  <2>3. Behind /\ NextInPair /\ SavedAsSent
    BY <1>4 DEF Behind, NextInPair, SavedAsSent
  <2> QED BY <2>2, <2>3 DEF Paired
<1> QED BY <1>5, <1>6, <1>7, <1>8 DEF IInv

\* The facts about the streams that the steps use.
LEMMA WireFacts ==
    ASSUME IInv
    PROVE  /\ script \in Scripts /\ Exchanges \in Nat /\ Exchanges = Len(script)
           /\ started \in 0..Exchanges /\ started \in Nat /\ Len(to_server) \in 0..Exchanges
           /\ Len(to_server) \in Nat
           /\ Len(Requests(started)) \in Nat /\ Len(Responses(Len(to_server))) \in Nat
           /\ taken["client"] \in Nat /\ taken["server"] \in Nat
           /\ sent["client"] \in Nat /\ sent["server"] \in Nat
           /\ Len(to_server) + Len(request_parser.complete) <= Exchanges
           /\ request_parser.complete \in Seq(MessageRecords)
           /\ to_server \in Seq(MessageRecords)
<1>1. /\ script \in Scripts /\ started \in 1..Exchanges
      /\ sent \in [Sides -> Nat] /\ taken \in [Sides -> Nat]
  BY DEF IInv, Wire
<1>2. Exchanges = Len(script) /\ Exchanges \in Nat
  BY <1>1, ScriptFacts DEF Exchanges
<1>3. RequestsKept(script, request_parser, to_server, taken["client"])
  BY DEF IInv, Parsed
<1>4. /\ Len(to_server) + Len(request_parser.complete) <= Len(script)
      /\ request_parser.complete \in Seq(MessageRecords) /\ to_server \in Seq(MessageRecords)
  BY <1>1, <1>3, RequestsFound
<1>5. Len(to_server) \in 0..Exchanges /\ Len(to_server) \in Nat
  <2>1. Len(to_server) \in Nat /\ Len(request_parser.complete) \in Nat
    BY <1>4
  <2> QED BY <1>2, <1>4, <2>1
<1>6. started \in 0..Exchanges /\ started \in Nat
  BY <1>1, <1>2
<1>7. Len(Requests(started)) \in Nat /\ Len(Responses(Len(to_server))) \in Nat
  BY <1>1, <1>2, <1>5, <1>6, StreamsGrow DEF Requests, Responses
<1>8. /\ taken["client"] \in Nat /\ taken["server"] \in Nat
      /\ sent["client"] \in Nat /\ sent["server"] \in Nat
  BY <1>1 DEF Sides
<1> QED BY <1>1, <1>2, <1>4, <1>5, <1>6, <1>7, <1>8

\* The proxy does nothing: its parts of the invariant stay.
LEMMA ProxyStays ==
    ASSUME IInv, UNCHANGED <<script, proxyVars>>, outcome' = outcome \/ outcome' = "exception"
    PROVE  Parsed'
<1>1. /\ RequestsKept(script, request_parser, to_server, taken["client"])
      /\ outcome # "exception" =>
          ResponsesKept(script, response_parser, Len(to_server), to_client,
                        taken["server"], "server" \in fd_eof)
  BY DEF IInv, Parsed
<1>2. /\ script' = script /\ request_parser' = request_parser /\ to_server' = to_server
      /\ taken' = taken /\ response_parser' = response_parser /\ to_client' = to_client
      /\ fd_eof' = fd_eof
  BY DEF proxyVars
<1> QED BY <1>1, <1>2 DEF Parsed

\* The client goes on in its script: the requests that may arrive grow at the
\* end.
LEMMA NextRequestKeeps == IInv /\ NextRequest => IInv'
<1> SUFFICES ASSUME IInv, NextRequest PROVE IInv'
  OBVIOUS
<1>1. /\ outcome = "running" /\ started < Exchanges /\ started' = started + 1
      /\ poller' = poller /\ outcome' = outcome /\ script' = script /\ sent' = sent
      /\ closed' = closed /\ UNCHANGED proxyVars
  BY DEF NextRequest
<1>2. /\ taken' = taken /\ fd_eof' = fd_eof /\ request_parser' = request_parser
      /\ response_parser' = response_parser /\ current_pair' = current_pair
      /\ to_server' = to_server /\ to_client' = to_client /\ files' = files
      /\ overtaken' = overtaken
  BY <1>1 DEF proxyVars
<1>3. Wire'
  <2>1. started' \in 1..Exchanges /\ started' \in 0..Exchanges /\ started <= started'
    BY <1>1, WireFacts
  <2>2. /\ Len(RequestStreams[script][started]) <= Len(RequestStreams[script][started'])
        /\ Len(RequestStreams[script][started]) \in Nat
        /\ Len(RequestStreams[script][started']) \in Nat
    BY <2>1, WireFacts, StreamsGrow
  <2>3. sent["client"] <= Len(RequestStreams[script][started'])
    <3>1. sent["client"] <= Len(RequestStreams[script][started]) /\ sent["client"] \in Nat
      BY WireFacts DEF IInv, Wire, Requests
    <3> QED BY <2>2, <3>1
  <2>4. Wire
    BY DEF IInv
  <2> QED BY <1>1, <1>2, <2>1, <2>3, <2>4 DEF Wire, Requests, Responses, Exchanges
<1>4. Polled'
  BY <1>1, <1>2 DEF IInv, Polled
<1>5. Parsed'
  BY <1>1, ProxyStays
<1>6. Paired'
  BY <1>1, <1>2, PairsStay DEF IInv
<1> QED BY <1>3, <1>4, <1>5, <1>6 DEF IInv

\* A symbol arrives, of those that were written.
LEMMA ArrivesKeeps ==
    ASSUME NEW x \in Sides
    PROVE  IInv /\ Arrives(x) => IInv'
<1> SUFFICES ASSUME IInv, Arrives(x) PROVE IInv'
  OBVIOUS
<1>1. /\ sent[x] < Len(Written(x)) /\ x \notin closed
      /\ sent' = [sent EXCEPT ![x] = @ + 1]
      /\ started' = started
      /\ poller' = poller /\ outcome' = outcome /\ script' = script
      /\ closed' = closed /\ UNCHANGED proxyVars
  BY DEF Arrives
<1>2. /\ taken' = taken /\ fd_eof' = fd_eof /\ request_parser' = request_parser
      /\ response_parser' = response_parser /\ current_pair' = current_pair
      /\ to_server' = to_server /\ to_client' = to_client /\ files' = files
      /\ overtaken' = overtaken
  BY <1>1 DEF proxyVars
<1>3. /\ sent' \in [Sides -> Nat] /\ sent'[x] = sent[x] + 1
      /\ \A y \in Sides : y # x => sent'[y] = sent[y]
      /\ \A y \in Sides : sent[y] \in Nat /\ taken[y] \in Nat
  BY <1>1 DEF IInv, Wire
<1>4. x = "client" \/ x = "server"
  BY DEF Sides
<1>5. "client" \in Sides /\ "server" \in Sides
  BY DEF Sides
<1>6. Wire
  BY DEF IInv
<1>7. /\ taken["client"] <= sent'["client"] /\ sent'["client"] <= Len(Requests(started))
      /\ taken["server"] <= sent'["server"]
      /\ sent'["server"] <= Len(Responses(Len(to_server)))
      /\ sent["server"] <= sent'["server"]
      /\ "server" \in closed => sent'["server"] = sent["server"]
  <2>1. /\ taken["client"] <= sent["client"] /\ sent["client"] <= Len(Requests(started))
        /\ taken["server"] <= sent["server"]
        /\ sent["server"] <= Len(Responses(Len(to_server)))
    BY <1>6 DEF Wire
  <2>2. CASE x = "client"
    <3>1. sent["client"] < Len(Requests(started))
      BY <1>1, <2>2 DEF Written
    <3>2. sent'["client"] = sent["client"] + 1 /\ sent'["server"] = sent["server"]
      BY <1>3, <1>5, <2>2
    <3> QED BY <1>3, <1>5, <2>1, <3>1, <3>2, WireFacts
  <2>3. CASE x = "server"
    <3>1. sent["server"] < Len(Responses(Len(to_server)))
      BY <1>1, <2>3 DEF Written
    <3>2. sent'["server"] = sent["server"] + 1 /\ sent'["client"] = sent["client"]
      BY <1>3, <1>5, <2>3
    <3>3. "server" \notin closed
      BY <1>1, <2>3
    <3> QED BY <1>3, <1>5, <2>1, <3>1, <3>2, <3>3, WireFacts
  <2> QED BY <1>4, <2>2, <2>3
<1>8. Wire'
  BY <1>1, <1>2, <1>3, <1>6, <1>7 DEF Wire, Requests, Responses, Exchanges
<1>9. Polled'
  <2>1. 1 \in poller.ready => sent'["server"] > taken["server"] \/ "server" \in closed
    <3>1. 1 \in poller.ready => sent["server"] > taken["server"] \/ "server" \in closed
      BY DEF IInv, Polled
    <3> QED BY <1>3, <1>5, <1>7, <3>1
  <2> QED BY <1>1, <1>2, <2>1 DEF IInv, Polled
<1>10. Parsed'
  BY <1>1, ProxyStays
<1>11. Paired'
  BY <1>1, <1>2, PairsStay DEF IInv
<1> QED BY <1>8, <1>9, <1>10, <1>11 DEF IInv

\* A side ends its stream; the server does so after its last response.
LEMMA ClosesKeeps ==
    ASSUME NEW x \in Sides
    PROVE  IInv /\ Closes(x) => IInv'
<1> SUFFICES ASSUME IInv, Closes(x) PROVE IInv'
  OBVIOUS
<1>1. /\ x = "server" => Len(to_server) = Exchanges /\ sent[x] = Len(Written(x))
      /\ closed' = closed \cup {x}
      /\ started' = started /\ sent' = sent
      /\ poller' = poller /\ outcome' = outcome /\ script' = script
      /\ UNCHANGED proxyVars
  BY DEF Closes
<1>2. /\ taken' = taken /\ fd_eof' = fd_eof /\ request_parser' = request_parser
      /\ response_parser' = response_parser /\ current_pair' = current_pair
      /\ to_server' = to_server /\ to_client' = to_client /\ files' = files
      /\ overtaken' = overtaken
  BY <1>1 DEF proxyVars
<1>3. "server" \in closed' => /\ Len(to_server) = Exchanges
                              /\ sent["server"] = Len(Responses(Exchanges))
  <2>1. CASE x = "server"
    <3>1. Len(to_server) = Exchanges /\ sent["server"] = Len(Responses(Len(to_server)))
      BY <1>1, <2>1 DEF Written
    <3> QED BY <3>1
  <2>2. CASE x # "server"
    BY <1>1, <2>2 DEF IInv, Wire
  <2> QED BY <2>1, <2>2
<1>4. Wire'
  BY <1>1, <1>2, <1>3 DEF IInv, Wire, Requests, Responses, Exchanges
<1>5. Polled'
  BY <1>1, <1>2 DEF IInv, Polled
<1>6. Parsed'
  BY <1>1, ProxyStays
<1>7. Paired'
  BY <1>1, <1>2, PairsStay DEF IInv
<1> QED BY <1>4, <1>5, <1>6, <1>7 DEF IInv

\* poll() begins: the interest of ForwardResponse has a response to forward.
LEMMA PollsKeeps == IInv /\ LoopPolls => IInv'
<1> SUFFICES ASSUME IInv, LoopPolls PROVE IInv'
  OBVIOUS
<1>1. /\ UNCHANGED <<worldVars, proxyVars>> /\ Poll(Interested)
      /\ outcome = "running"
  BY DEF LoopPolls, Poll
<1>2. /\ taken' = taken /\ fd_eof' = fd_eof /\ request_parser' = request_parser
      /\ response_parser' = response_parser /\ current_pair' = current_pair
      /\ to_server' = to_server /\ to_client' = to_client /\ files' = files
      /\ script' = script /\ started' = started /\ sent' = sent /\ closed' = closed
      /\ overtaken' = overtaken
  BY <1>1 DEF proxyVars, worldVars
<1> DEFINE ev == poller.active \cap Interested
<1>3. \/ poller' = poller
      \/ poller' = [poller EXCEPT !.events = ev, !.polling = TRUE]
  BY <1>1 DEF Poll
<1>4. Wire'
  BY <1>2 DEF IInv, Wire, Requests, Responses, Exchanges
<1>5. Polled'
  <2>1. /\ 3 \in ev => request_parser.complete # <<>>
        /\ 4 \in ev => response_parser.complete # <<>>
    BY DEF Interested
  <2>2. Polled /\ ev \subseteq Actions
    BY DEF IInv, Polled, PollerRecords
  <2>3. CASE poller' = poller
    BY <1>2, <2>2, <2>3 DEF Polled
  <2>4. CASE poller' = [poller EXCEPT !.events = ev, !.polling = TRUE]
    <3> HIDE DEF ev
    <3>1. /\ poller' \in PollerRecords /\ poller'.ready = poller.ready /\ poller'.events = ev
      BY <2>2, <2>4 DEF Polled, PollerRecords
    <3> QED BY <1>2, <2>1, <2>2, <3>1 DEF Polled
  <2> QED BY <1>3, <2>3, <2>4
<1>6. Parsed'
  <2>1. /\ RequestsKept(script, request_parser, to_server, taken["client"])
        /\ ResponsesKept(script, response_parser, Len(to_server), to_client,
                         taken["server"], "server" \in fd_eof)
    BY <1>1 DEF IInv, Parsed
  <2> QED BY <1>2, <2>1 DEF Parsed
<1>7. Paired'
  BY <1>2, PairsStay DEF IInv
<1> QED BY <1>4, <1>5, <1>6, <1>7 DEF IInv

\* poll() returns: whoever is called was found ready.
LEMMA WakesKeeps == IInv /\ LoopWakes => IInv'
<1> SUFFICES ASSUME IInv, LoopWakes PROVE IInv'
  OBVIOUS
<1> DEFINE found == poller.events \cap ReadyNow
<1>1. /\ UNCHANGED <<worldVars, proxyVars>> /\ poller.polling
      /\ poller' = [poller EXCEPT !.ready = found, !.failed = {}, !.polling = FALSE]
      /\ outcome' = outcome
  BY DEF LoopWakes, PollReturns
<1>2. /\ taken' = taken /\ fd_eof' = fd_eof /\ request_parser' = request_parser
      /\ response_parser' = response_parser /\ current_pair' = current_pair
      /\ to_server' = to_server /\ to_client' = to_client /\ files' = files
      /\ script' = script /\ started' = started /\ sent' = sent /\ closed' = closed
      /\ overtaken' = overtaken
  BY <1>1 DEF proxyVars, worldVars
<1>3. Wire'
  BY <1>2 DEF IInv, Wire, Requests, Responses, Exchanges
<1>4. Polled'
  <2>1. Polled /\ found \subseteq Actions /\ found \subseteq poller.events
    BY DEF IInv, Polled, PollerRecords
  <2>2. 1 \in found => sent["server"] > taken["server"] \/ "server" \in closed
    BY DEF ReadyNow, Fd
  <2>3. /\ 3 \in found => request_parser.complete # <<>>
        /\ 4 \in found => response_parser.complete # <<>>
    BY <1>1, <2>1 DEF Polled
  <2> HIDE DEF found
  <2>4. poller' \in PollerRecords /\ poller'.ready = found /\ poller'.polling = FALSE
    BY <1>1, <2>1 DEF Polled, PollerRecords
  <2> QED BY <1>2, <2>2, <2>3, <2>4 DEF Polled
<1>5. Parsed'
  BY <1>1, <1>2, ProxyStays
<1>6. Paired'
  BY <1>2, PairsStay DEF IInv
<1> QED BY <1>3, <1>4, <1>5, <1>6 DEF IInv

\* What the call of callback i changes of the poller.
LEMMA Called ==
    ASSUME IInv, NEW i, Callback(i, FALSE)
    PROVE  /\ i \in poller.ready /\ ~poller.polling /\ outcome = "running"
           /\ outcome' = outcome
           /\ poller' \in PollerRecords /\ poller'.polling = FALSE
           /\ poller'.ready = poller.ready \ {i}
<1>1. /\ i \in poller.ready /\ ~poller.polling /\ outcome = "running" /\ outcome' = outcome
      /\ poller' = [poller EXCEPT !.ready = @ \ {i}, !.active = @]
  BY DEF Callback, Reaches
<1>2. poller \in PollerRecords
  BY DEF IInv, Polled
<1>3. /\ poller' \in PollerRecords /\ poller'.polling = FALSE
      /\ poller'.ready = poller.ready \ {i}
  BY <1>1, <1>2 DEF PollerRecords
<1> QED BY <1>1, <1>3

\* The client is read: the parser moves on in the stream of requests.
LEMMA ReadRequestsKeeps == IInv /\ ReadRequests => IInv'
<1> SUFFICES ASSUME IInv, ReadRequests PROVE IInv'
  OBVIOUS
<1> DEFINE n == taken["client"]
           n2 == sent["client"]
           p == request_parser
           r == request_parser'
           buf == Buffer("client")
<1>1. /\ Callback(2, FALSE) /\ taken' = [taken EXCEPT !["client"] = sent["client"]]
      /\ r = parse(p, buf) /\ ~r.failed
      /\ UNCHANGED worldVars /\ response_parser' = response_parser
      /\ current_pair' = current_pair /\ to_server' = to_server
      /\ to_client' = to_client /\ files' = files /\ overtaken' = overtaken
      /\ fd_eof' = IF buf = <<>> THEN fd_eof \cup {"client"} ELSE fd_eof
  BY DEF ReadRequests, Reads
<1>2. /\ script' = script /\ started' = started /\ sent' = sent /\ closed' = closed
  BY <1>1 DEF worldVars
<1>3. /\ 2 \in poller.ready /\ ~poller.polling /\ outcome = "running" /\ outcome' = outcome
      /\ poller' \in PollerRecords /\ poller'.polling = FALSE
      /\ poller'.ready = poller.ready \ {2}
  BY <1>1, Called
<1>4. /\ taken' \in [Sides -> Nat] /\ taken'["client"] = n2 /\ taken'["server"] = taken["server"]
      /\ ("server" \in fd_eof') = ("server" \in fd_eof)
  <2>1. taken \in [Sides -> Nat] /\ sent["client"] \in Nat
    BY WireFacts DEF IInv, Wire
  <2>2. taken' \in [Sides -> Nat] /\ taken'["client"] = n2 /\ taken'["server"] = taken["server"]
    BY <1>1, <2>1 DEF Sides
  <2>3. "server" \in fd_eof' <=> "server" \in fd_eof
    BY <1>1
  <2> QED BY <2>2, <2>3
<1>5. /\ Wire /\ n <= n2 /\ n2 <= Len(RequestStreams[script][started])
      /\ buf = SubSeq(RequestStreams[script][started], n + 1, n2)
      /\ RequestsKept(script, p, to_server, n)
      /\ ResponsesKept(script, response_parser, Len(to_server), to_client,
                       taken["server"], "server" \in fd_eof)
  BY <1>3 DEF IInv, Wire, Parsed, Buffer, Written, Requests
<1>6. /\ script \in Scripts /\ started \in 0..Len(script) /\ n2 \in Nat /\ n \in Nat
  BY WireFacts
<1>7. RequestsKept(script, r, to_server, n2) /\ Len(p.complete) <= Len(r.complete)
  <2> HIDE DEF n, n2, p, r, buf
  <2> QED BY <1>1, <1>5, <1>6, RequestsRead
<1>8. Wire'
  <2>1. n2 <= n2
    BY <1>6
  <2> QED BY <1>1, <1>2, <1>4, <1>5, <2>1 DEF Wire, Requests, Responses, Exchanges
<1>9. Polled'
  <2>1. p.complete # <<>> => r.complete # <<>>
    <3>1. p.complete \in Seq(MessageRecords) /\ r.complete \in Seq(MessageRecords)
      BY <1>6, <1>5, <1>7, RequestsFound
    <3> HIDE DEF p, r
    <3> QED BY <1>7, <3>1
  <2>2. Polled
    BY DEF IInv
  <2> QED BY <1>1, <1>2, <1>3, <1>4, <2>1, <2>2 DEF Polled
<1>10. Parsed'
  BY <1>1, <1>2, <1>4, <1>5, <1>7 DEF Parsed
<1>11. Paired'
  BY <1>1, <1>2, PairsStay DEF IInv
<1> QED BY <1>8, <1>9, <1>10, <1>11 DEF IInv

\* What the parser of responses makes of what is read.
LEMMA ResponsesStep ==
    ASSUME IInv, outcome # "exception", 1 \in poller.ready,
           NEW e2, Ended(e2, "server" \in fd_eof, Buffer("server")),
           NEW r, r = parse(response_parser, Buffer("server"))
    PROVE  /\ ResponsesKept(script, r, Len(to_server), to_client, sent["server"], e2)
           /\ response_parser.complete # <<>> => r.complete # <<>>
           /\ ~r.failed
<1> DEFINE n == taken["server"]
           n2 == sent["server"]
           p == response_parser
           buf == Buffer("server")
           known == Len(to_server)
           e == "server" \in fd_eof
<1>1. /\ Wire /\ n <= n2 /\ n2 <= Len(ResponseStreams[script][known])
      /\ buf = SubSeq(ResponseStreams[script][known], n + 1, n2)
      /\ ResponsesKept(script, p, known, to_client, n, e)
  BY DEF IInv, Wire, Parsed, Buffer, Written, Responses
<1>2. /\ script \in Scripts /\ known \in 0..Len(script) /\ n2 \in Nat /\ n \in Nat
      /\ Exchanges = Len(script)
  BY WireFacts
\* Nothing to read is the end of the stream.
<1>3. buf = <<>> => known = Len(script) /\ n = Len(ResponseStreams[script][Len(script)])
  <2> SUFFICES ASSUME buf = <<>>
               PROVE  known = Len(script) /\ n = Len(ResponseStreams[script][Len(script)])
    OBVIOUS
  <2>1. n2 = n
    <3> DEFINE all == ResponsesOf(script)
    <3>1. ResponseStreams[script][known] = First(all, known) /\ all \in Seq(Messages)
          /\ known \in 0..Len(all)
      BY <1>2, StreamsOf, ResponsesStreamed DEF Streamed
    <3>2. First(all, known) \in Seq(Symbols)
      BY <3>1, StreamType
    <3> DEFINE s == ResponseStreams[script][known]
    <3>3. s \in Seq(Symbols) /\ n2 <= Len(s) /\ n <= n2 /\ SubSeq(s, n + 1, n2) = <<>>
      BY <1>1, <3>1, <3>2
    <3> HIDE DEF n, n2, s
    <3>4. SubSeq(s, n + 1, n2) = <<>> <=> n = n2
      BY <1>2, <3>3, LeftToParse
    <3> QED BY <3>3, <3>4
  <2>2. "server" \in closed
    <3>1. n2 > n \/ "server" \in closed
      BY DEF IInv, Polled
    <3> QED BY <1>2, <2>1, <3>1
  <2> QED BY <1>1, <1>2, <2>1, <2>2 DEF Wire, Responses, Exchanges
<1>4. /\ ResponsesKept(script, r, known, to_client, n2, e2)
      /\ Len(p.complete) <= Len(r.complete) /\ ~r.failed
  <2>1. /\ r = parse(p, buf) /\ e \in BOOLEAN /\ Ended(e2, e, buf)
        /\ n <= n2 /\ n2 \in Nat /\ script \in Scripts
        /\ n2 <= Len(ResponseStreams[script][known])
        /\ buf = SubSeq(ResponseStreams[script][known], n + 1, n2)
        /\ ResponsesKept(script, p, known, to_client, n, e)
        /\ buf = <<>> => known = Len(script) /\ n = Len(ResponseStreams[script][Len(script)])
    BY <1>1, <1>2, <1>3
  <2> HIDE DEF n, n2, p, buf, known, e
  <2> QED BY <2>1, ResponsesRead
<1>5. p.complete # <<>> => r.complete # <<>>
  <2>1. p.complete \in Seq(MessageRecords) /\ r.complete \in Seq(MessageRecords)
    BY <1>1, <1>2, <1>4, ResponsesFound
  <2> HIDE DEF p
  <2> QED BY <1>4, <2>1
<1> QED BY <1>4, <1>5

\* The server is read: the parser moves on in the stream of responses.
LEMMA ReadResponsesKeeps == IInv /\ ReadResponses => IInv'
<1> SUFFICES ASSUME IInv, ReadResponses PROVE IInv'
  OBVIOUS
<1> DEFINE n2 == sent["server"]
           r == response_parser'
           buf == Buffer("server")
           e == "server" \in fd_eof
           e2 == "server" \in fd_eof'
<1>1. /\ Callback(1, FALSE) /\ taken' = [taken EXCEPT !["server"] = sent["server"]]
      /\ r = parse(response_parser, buf)
      /\ UNCHANGED worldVars /\ request_parser' = request_parser
      /\ current_pair' = current_pair /\ to_server' = to_server
      /\ to_client' = to_client /\ files' = files /\ overtaken' = overtaken
      /\ fd_eof' = IF buf = <<>> THEN fd_eof \cup {"server"} ELSE fd_eof
  BY DEF ReadResponses, Reads
<1>2. /\ script' = script /\ started' = started /\ sent' = sent /\ closed' = closed
  BY <1>1 DEF worldVars
<1>3. /\ 1 \in poller.ready /\ ~poller.polling /\ outcome = "running" /\ outcome' = outcome
      /\ poller' \in PollerRecords /\ poller'.polling = FALSE
      /\ poller'.ready = poller.ready \ {1}
  BY <1>1, Called
<1>4. /\ taken' \in [Sides -> Nat] /\ taken'["server"] = n2 /\ taken'["client"] = taken["client"]
      /\ e2 <=> e \/ buf = <<>>
      /\ e \in BOOLEAN /\ e2 \in BOOLEAN
  <2>1. taken \in [Sides -> Nat] /\ sent["server"] \in Nat
    BY WireFacts DEF IInv, Wire
  <2>2. taken' \in [Sides -> Nat] /\ taken'["server"] = n2 /\ taken'["client"] = taken["client"]
    BY <1>1, <2>1 DEF Sides
  <2>3. e2 <=> e \/ buf = <<>>
    BY <1>1
  <2> QED BY <2>2, <2>3
<1>5. Wire /\ RequestsKept(script, request_parser, to_server, taken["client"])
  BY DEF IInv, Parsed
<1>6. /\ ResponsesKept(script, r, Len(to_server), to_client, n2, e2)
      /\ response_parser.complete # <<>> => r.complete # <<>>
  <2>1. outcome # "exception" /\ Ended(e2, e, buf)
    BY <1>3, <1>4 DEF Ended
  <2> HIDE DEF e2, r
  <2> QED BY <1>1, <1>3, <2>1, ResponsesStep
<1>7. Wire'
  <2>1. n2 <= n2
    BY WireFacts
  <2> QED BY <1>1, <1>2, <1>4, <1>5, <2>1 DEF Wire, Requests, Responses, Exchanges
<1>8. Polled'
  <2>1. Polled
    BY DEF IInv
  <2>2. 1 \notin poller'.ready /\ poller'.ready \subseteq poller.ready
    BY <1>3
  <2> QED BY <1>1, <1>2, <1>3, <1>6, <2>1, <2>2 DEF Polled
<1>9. Parsed'
  BY <1>1, <1>2, <1>4, <1>5, <1>6 DEF Parsed
<1>10. Paired'
  BY <1>1, <1>2, PairsStay DEF IInv
<1> QED BY <1>7, <1>8, <1>9, <1>10 DEF IInv

\* A failure of a parser ends the thread, which then changes nothing more.
LEMMA FailureKeeps ==
    ASSUME NEW i \in {1, 2}
    PROVE  IInv /\ ParseFails(i) => IInv'
<1> SUFFICES ASSUME IInv, ParseFails(i) PROVE IInv'
  OBVIOUS
<1>1. /\ UNCHANGED <<worldVars, proxyVars>> /\ poller' = poller /\ outcome' = "exception"
  BY DEF ParseFails, CallbackThrows
<1>2. /\ taken' = taken /\ fd_eof' = fd_eof /\ request_parser' = request_parser
      /\ response_parser' = response_parser /\ current_pair' = current_pair
      /\ to_server' = to_server /\ to_client' = to_client /\ files' = files
      /\ script' = script /\ started' = started /\ sent' = sent /\ closed' = closed
      /\ overtaken' = overtaken
  BY <1>1 DEF proxyVars, worldVars
<1>3. Wire'
  BY <1>2 DEF IInv, Wire, Requests, Responses, Exchanges
<1>4. Polled'
  BY <1>1, <1>2 DEF IInv, Polled
<1>5. Parsed'
  BY <1>1, <1>2, ProxyStays
<1>6. Paired'
  BY <1>2, PairsStay DEF IInv
<1> QED BY <1>3, <1>4, <1>5, <1>6 DEF IInv

\* A request is passed on: the parser of responses hears of it, and a client
\* that does not pipeline has no other request without a response.
LEMMA ForwardRequestKeeps == IInv /\ ForwardRequest => IInv'
<1> SUFFICES ASSUME IInv, ForwardRequest PROVE IInv'
  OBVIOUS
<1> DEFINE p == request_parser
           q == response_parser
           request == Head(p.complete)
           d == Len(to_server)
           n == taken["client"]
           n2 == taken["server"]
           e == "server" \in fd_eof
<1>1. /\ Callback(3, FALSE) /\ to_server' = Append(to_server, request)
      /\ response_parser' = new_request_arrived(q, request)
      /\ current_pair' = request /\ request_parser' = pop(p)
      /\ UNCHANGED worldVars /\ taken' = taken /\ fd_eof' = fd_eof
      /\ to_client' = to_client /\ files' = files
      /\ overtaken' = overtaken \cup ((Len(to_client) + 1)..d)
  BY DEF ForwardRequest
<1>2. /\ script' = script /\ started' = started /\ sent' = sent /\ closed' = closed
  BY <1>1 DEF worldVars
<1>3. /\ 3 \in poller.ready /\ ~poller.polling /\ outcome = "running" /\ outcome' = outcome
      /\ poller' \in PollerRecords /\ poller'.polling = FALSE
      /\ poller'.ready = poller.ready \ {3}
  BY <1>1, Called
<1>4. /\ p.complete # <<>> /\ RequestsKept(script, p, to_server, n)
      /\ ResponsesKept(script, q, d, to_client, n2, e)
  BY <1>3 DEF IInv, Polled, Parsed
<1>5. /\ script \in Scripts /\ d \in 0..Exchanges /\ d \in Nat /\ Exchanges = Len(script)
      /\ Exchanges \in Nat
  BY WireFacts
<1>6. /\ RequestsKept(script, pop(p), Append(to_server, request), n)
      /\ ResponsesKept(script, new_request_arrived(q, request), d + 1, to_client, n2, e)
      /\ new_request_arrived(q, request).complete = q.complete
      /\ SameMessage(request, script[d + 1].request) /\ request \in MessageRecords
      /\ Len(Append(to_server, request)) = d + 1 /\ d + 1 <= Len(script)
  <2> HIDE DEF p, q, n, n2, e
  <2> QED BY <1>4, <1>5, RequestPassed
<1>7. Wire'
  <2>1. d + 1 \in 0..Len(script) /\ d \in 0..Len(script) /\ d <= d + 1 /\ d # Exchanges
    BY <1>5, <1>6
  <2> HIDE DEF d
  <2>2. /\ Len(ResponseStreams[script][d]) <= Len(ResponseStreams[script][d + 1])
        /\ Len(ResponseStreams[script][d]) \in Nat
        /\ Len(ResponseStreams[script][d + 1]) \in Nat
    BY <1>5, <2>1, StreamsGrow
  <2>3. sent["server"] <= Len(ResponseStreams[script][d]) /\ sent["server"] \in Nat
        /\ "server" \notin closed
    BY <2>1, WireFacts DEF IInv, Wire, Responses, d
  <2>4. sent["server"] <= Len(ResponseStreams[script][d + 1])
    BY <2>2, <2>3
  <2>5. Len(to_server') = d + 1
    BY <1>1, <1>6
  <2>6. Wire
    BY DEF IInv
  <2> QED BY <1>1, <1>2, <2>3, <2>4, <2>5, <2>6 DEF Wire, Requests, Responses, Exchanges
<1>8. Polled'
  <2>1. Polled
    BY DEF IInv
  <2>2. response_parser'.complete = response_parser.complete
    BY <1>1, <1>6
  <2>3. 3 \notin poller'.ready /\ poller'.ready \subseteq poller.ready
    BY <1>3
  <2> QED BY <1>1, <1>2, <1>3, <2>1, <2>2, <2>3 DEF Polled
<1>9. Parsed'
  BY <1>1, <1>2, <1>3, <1>6 DEF Parsed
<1>10. Paired'
  <2> DEFINE c == Len(to_client)
  <2>1. Paired /\ c \in Nat
    BY DEF IInv, Paired, PairTypes
  <2>2. Len(to_server') = d + 1 /\ Len(to_client') = c
    BY <1>1, <1>6
  <2>3. \A k \in (c + 1)..(d + 1 - 1) : k \in overtaken'
    BY <1>1, <1>5, <2>1 DEF Paired, Behind
  <2>4. ASSUME NoneOvertaken(c + 1)', d + 1 > c
        PROVE  SameMessage(current_pair', script[c + 1].request)
    <3>1. c + 1 \notin (c + 1)..d
      <4>1. c + 1 \notin overtaken'
        BY <2>1, <2>2, <2>4 DEF NoneOvertaken
      <4> QED BY <1>1, <4>1
    <3>2. d = c
      <4> HIDE DEF c, d
      <4> QED BY <1>5, <2>1, <2>4, <3>1
    <3> QED BY <1>1, <1>6, <3>2
  <2>5. \A i : NoneOvertaken(i)' => NoneOvertaken(i)
    BY <1>1 DEF NoneOvertaken
  <2> HIDE DEF request, c, d
  <2>6. \A i \in 1..Len(files) :
           /\ i <= Len(script)
           /\ SameMessage(files[i].response, script[i].response)
           /\ NoneOvertaken(i)' => SameMessage(files[i].request, script[i].request)
    BY <2>1, <2>5 DEF Paired, SavedAsSent, Exchanges
  <2>7. PairTypes'
    BY <1>1, <1>6, <2>1 DEF Paired, PairTypes
  <2>8. Behind'
    <3>1. \A k \in (Len(to_client') + 1)..(Len(to_server') - 1) : k \in overtaken'
      <4> SUFFICES ASSUME NEW k \in (Len(to_client') + 1)..(Len(to_server') - 1)
                   PROVE  k \in overtaken'
        OBVIOUS
      <4>1. c \in Nat /\ d \in Nat
        BY <1>5, <2>1
      <4>2. k \in (c + 1)..(d + 1 - 1)
        BY <2>2, <4>1
      <4> QED BY <2>3, <4>2
    <3> QED BY <3>1 DEF Behind
  <2>9. NextInPair'
    <3>1. NoneOvertaken(Len(to_client) + 1)' <=> NoneOvertaken(c + 1)'
      BY <1>1 DEF NoneOvertaken, c
    <3> QED BY <1>1, <1>2, <2>2, <2>4, <3>1 DEF NextInPair
  <2>10. SavedAsSent'
    BY <1>1, <1>2, <2>6 DEF SavedAsSent, Exchanges
  <2> QED BY <2>7, <2>8, <2>9, <2>10 DEF Paired
<1> QED BY <1>7, <1>8, <1>9, <1>10 DEF IInv

\* The response to come answers current_pair, if no other request was passed on
\* before it, or before one of those that came.
LEMMA PairIsNext ==
    ASSUME IInv, NoneOvertaken(Len(to_client) + 1), outcome # "exception",
           response_parser.complete # <<>>
    PROVE  /\ SameMessage(current_pair, script[Len(to_client) + 1].request)
           /\ current_pair # NoRequest
<1> DEFINE c == Len(to_client)
           d == Len(to_server)
<1>1. script \in Scripts /\ d \in Nat /\ Exchanges = Len(script) /\ Exchanges \in Nat
      /\ d <= Exchanges
  BY WireFacts
<1>2. /\ Paired /\ c \in Nat
      /\ ResponsesKept(script, response_parser, d, to_client, taken["server"],
                       "server" \in fd_eof)
  BY DEF IInv, Paired, PairTypes, Parsed
<1>3. c + 1 <= d
  BY <1>1, <1>2, ResponsePassed
<1>4. c + 1 \in 1..Len(script) /\ d > c
  <2> HIDE DEF c, d
  <2> QED BY <1>1, <1>2, <1>3
<1>5. SameMessage(current_pair, script[c + 1].request)
  BY <1>2, <1>4 DEF Paired, NextInPair
<1>6. current_pair # NoRequest
  <2> DEFINE k == c + 1
  <2>1. k \in 1..Len(script) /\ SameMessage(current_pair, script[k].request)
    BY <1>4, <1>5
  <2> HIDE DEF k
  <2>2. WellFormedRequest(script[k].request)
    BY <1>1, <2>1, ScriptFacts DEF ExchangeFacts
  <2>3. script[k].request.first_line[1] # "other"
    BY <2>2 DEF WellFormedRequest
  <2>4. NoRequest.first_line[1] = "other"
    BY DEF NoRequest, NewMessage
  <2>5. current_pair.first_line = script[k].request.first_line
    BY <2>1 DEF SameMessage
  <2> QED BY <2>3, <2>4, <2>5
<1> QED BY <1>5, <1>6

\* A response is passed back: it goes with the request of the pair, if the
\* client does not pipeline.
LEMMA ForwardResponseKeeps == IInv /\ ForwardResponse => IInv'
<1> SUFFICES ASSUME IInv, ForwardResponse PROVE IInv'
  OBVIOUS
<1> DEFINE p == response_parser
           response == Head(p.complete)
           pair == [request |-> current_pair, response |-> response]
           c == Len(to_client)
           d == Len(to_server)
           n == taken["server"]
           e == "server" \in fd_eof
           Pairs == [request : MessageRecords, response : MessageRecords]
<1>1. /\ to_client' = Append(to_client, response) /\ files' = Append(files, pair)
      /\ UNCHANGED worldVars /\ taken' = taken /\ fd_eof' = fd_eof
      /\ request_parser' = request_parser /\ to_server' = to_server
      /\ overtaken' = overtaken
      /\ outcome = "running" /\ 4 \in poller.ready
      /\ \/ /\ Callback(4, FALSE) /\ current_pair' = NoRequest
            /\ response_parser' = pop(p)
         \/ /\ current_pair = NoRequest /\ poller' = poller /\ outcome' = "exception"
            /\ current_pair' = current_pair /\ response_parser' = response_parser
  BY DEF ForwardResponse, Reaches, Callback, CallbackThrows
<1>2. /\ script' = script /\ started' = started /\ sent' = sent /\ closed' = closed
  BY <1>1 DEF worldVars
<1>3. /\ p.complete # <<>> /\ ResponsesKept(script, p, d, to_client, n, e)
      /\ RequestsKept(script, request_parser, to_server, taken["client"])
      /\ outcome # "exception"
  BY <1>1 DEF IInv, Polled, Parsed
<1>4. /\ script \in Scripts /\ d \in Nat /\ Exchanges = Len(script) /\ Exchanges \in Nat
      /\ d <= Exchanges
  BY WireFacts
<1>5. /\ ResponsesKept(script, pop(p), d, Append(to_client, response), n, e)
      /\ SameMessage(response, script[c + 1].response) /\ response \in MessageRecords
      /\ Len(Append(to_client, response)) = c + 1 /\ c + 1 <= d
  <2> HIDE DEF p, d, n, e
  <2> QED BY <1>3, <1>4, ResponsePassed
<1>6. Wire'
  BY <1>1, <1>2 DEF IInv, Wire, Requests, Responses, Exchanges
<1>7. Polled'
  <2>1. Polled
    BY DEF IInv
  <2>2. CASE Callback(4, FALSE)
    <3>1. /\ ~poller.polling /\ poller' \in PollerRecords /\ poller'.polling = FALSE
          /\ poller'.ready = poller.ready \ {4}
      BY <2>2, Called
    <3>2. 4 \notin poller'.ready /\ poller'.ready \subseteq poller.ready
      BY <3>1
    <3> QED BY <1>1, <1>2, <2>1, <3>1, <3>2 DEF Polled
  <2>3. CASE poller' = poller /\ response_parser' = response_parser
    BY <1>1, <1>2, <2>1, <2>3 DEF Polled
  <2> QED BY <1>1, <2>2, <2>3
<1>8. Parsed'
  <2>1. CASE response_parser' = pop(p)
    BY <1>1, <1>2, <1>3, <1>5, <2>1 DEF Parsed
  <2>2. CASE outcome' = "exception"
    BY <1>1, <1>2, <1>3, <2>2 DEF Parsed
  <2> QED BY <1>1, <2>1, <2>2
<1>9. Paired'
  <2>1. /\ files \in Seq(Pairs) /\ Len(files) = c /\ to_client \in Seq(MessageRecords)
        /\ c \in Nat
    BY DEF IInv, Paired, PairTypes
  <2>2. pair \in Pairs /\ current_pair \in MessageRecords
    BY <1>5 DEF IInv, Paired, PairTypes
  <2> HIDE DEF pair, Pairs, response
  <2>3. /\ files' \in Seq(Pairs) /\ Len(files') = c + 1 /\ files'[c + 1] = pair
        /\ to_client' \in Seq(MessageRecords) /\ Len(to_client') = c + 1
        /\ \A i \in 1..c : files'[i] = files[i]
        /\ current_pair' \in MessageRecords
    <3>1. NoRequest \in MessageRecords
      BY NewMessageType DEF NoRequest
    <3>2. files' = Append(files, pair) /\ files \in Seq(Pairs) /\ Len(files) = c /\ c \in Nat
      BY <1>1, <2>1
    <3>3. /\ files' \in Seq(Pairs) /\ Len(files') = c + 1 /\ files'[c + 1] = pair
          /\ \A i \in 1..c : files'[i] = files[i]
      <4> HIDE DEF c
      <4> QED BY <2>2, <3>2
    <3>4. to_client' \in Seq(MessageRecords) /\ Len(to_client') = c + 1
      BY <1>1, <1>5, <2>1
    <3>5. current_pair' \in MessageRecords
      BY <1>1, <2>2, <3>1
    <3> QED BY <3>3, <3>4, <3>5
  <2>4. /\ \A k \in (c + 1 + 1)..(d - 1) : k \in overtaken
        /\ d > c + 1 => ~NoneOvertaken(c + 1 + 1)
    <3>1. \A k \in (c + 1)..(d - 1) : k \in overtaken
      BY DEF IInv, Paired, Behind
    <3> HIDE DEF c, d
    <3>2. d > c + 1 => c + 1 \in (c + 1)..(d - 1) /\ c + 1 \in 1..(c + 1 + 1)
      BY <1>4, <2>1
    <3>3. d > c + 1 => ~NoneOvertaken(c + 1 + 1)
      BY <3>1, <3>2 DEF NoneOvertaken
    <3>4. \A k \in (c + 1 + 1)..(d - 1) : k \in (c + 1)..(d - 1)
      BY <1>4, <2>1
    <3> QED BY <3>1, <3>3, <3>4
  <2>5. ASSUME NEW i \in 1..(c + 1)
        PROVE  /\ i <= Len(script)
               /\ SameMessage(files'[i].response, script[i].response)
               /\ NoneOvertaken(i) => SameMessage(files'[i].request, script[i].request)
    <3>1. CASE i \in 1..c
      BY <1>4, <2>1, <2>3, <3>1 DEF IInv, Paired, SavedAsSent, Exchanges
    <3>2. CASE i = c + 1
      <4>1. pair.request = current_pair /\ pair.response = response
        BY DEF pair
      <4>2. NoneOvertaken(c + 1) => SameMessage(current_pair, script[c + 1].request)
        BY <1>3, PairIsNext
      <4>3. c + 1 <= Len(script)
        <5> HIDE DEF c, d
        <5> QED BY <1>4, <1>5, <2>1
      <4> QED BY <1>5, <2>3, <3>2, <4>1, <4>2, <4>3
    <3>3. i \in 1..c \/ i = c + 1
      BY <2>1
    <3> QED BY <3>1, <3>2, <3>3
  <2>6. \A i : NoneOvertaken(i)' = NoneOvertaken(i)
    BY <1>1 DEF NoneOvertaken
  <2> HIDE DEF c, d
  <2>7. Len(to_server') = d /\ Len(to_client') = c + 1
    BY <1>1, <2>3 DEF d
  <2>8. PairTypes'
    BY <2>3 DEF PairTypes, Pairs
  <2>9. Behind'
    BY <1>1, <2>4, <2>7 DEF Behind
  <2>10. NextInPair'
    <3>1. NoneOvertaken(Len(to_client) + 1)' <=> NoneOvertaken(c + 1 + 1)
      BY <1>1, <2>7 DEF NoneOvertaken
    <3> QED BY <2>4, <2>7, <3>1 DEF NextInPair
  <2>11. SavedAsSent'
    <3>1. Exchanges' = Len(script) /\ script' = script
      BY <1>2 DEF Exchanges
    <3>2. ASSUME NEW i \in 1..(c + 1)
          PROVE  /\ i <= Exchanges'
                 /\ SameMessage(files'[i].response, script'[i].response)
                 /\ NoneOvertaken(i)' => SameMessage(files'[i].request, script'[i].request)
      BY <2>5, <2>6, <3>1
    <3> QED BY <2>3, <3>2 DEF SavedAsSent
  <2> QED BY <2>8, <2>9, <2>10, <2>11 DEF Paired
<1> QED BY <1>6, <1>7, <1>8, <1>9 DEF IInv

\* Every step keeps the invariant.
LEMMA NextLemma == IInv /\ [Next]_vars => IInv'
<1> SUFFICES ASSUME IInv, [Next]_vars PROVE IInv'
  OBVIOUS
<1>1. CASE NextRequest
  BY <1>1, NextRequestKeeps
<1>2. ASSUME NEW x \in Sides, Arrives(x) PROVE IInv'
  BY <1>2, ArrivesKeeps
<1>3. ASSUME NEW x \in Sides, Closes(x) PROVE IInv'
  BY <1>3, ClosesKeeps
<1>4. CASE LoopPolls
  BY <1>4, PollsKeeps
<1>5. CASE LoopWakes
  BY <1>5, WakesKeeps
<1>6. CASE ReadResponses
  BY <1>6, ReadResponsesKeeps
<1>7. CASE ReadRequests
  BY <1>7, ReadRequestsKeeps
<1>8. ASSUME NEW i \in {1, 2}, ParseFails(i) PROVE IInv'
  BY <1>8, FailureKeeps
<1>9. CASE ForwardRequest
  BY <1>9, ForwardRequestKeeps
<1>10. CASE ForwardResponse
  BY <1>10, ForwardResponseKeeps
<1>11. CASE UNCHANGED vars
  <2>1. /\ taken' = taken /\ fd_eof' = fd_eof /\ request_parser' = request_parser
        /\ response_parser' = response_parser /\ current_pair' = current_pair
        /\ to_server' = to_server /\ to_client' = to_client /\ files' = files
        /\ script' = script /\ started' = started /\ sent' = sent /\ closed' = closed
        /\ overtaken' = overtaken /\ poller' = poller /\ outcome' = outcome
        /\ UNCHANGED <<script, proxyVars>>
    BY <1>11 DEF vars, worldVars, proxyVars
  <2>2. Parsed'
    BY <2>1, ProxyStays
  <2>3. Wire' /\ Polled'
    BY <2>1 DEF IInv, Wire, Polled, Requests, Responses, Exchanges
  <2>4. Paired'
    BY <2>1, PairsStay DEF IInv
  <2> QED BY <2>2, <2>3, <2>4 DEF IInv
<1> QED BY <1>1, <1>2, <1>3, <1>4, <1>5, <1>6, <1>7, <1>8, <1>9, <1>10, <1>11
        DEF Next, Loop

\* The streams read so far are those of FramedAsSent, by the invariant's Parsed.
LEMMA FramingLemma == IInv => FramedAsSent
<1> SUFFICES ASSUME IInv PROVE FramedAsSent
  OBVIOUS
<1> DEFINE s == script
           N == Exchanges
           a == RequestsOf(s)
           b == ResponsesOf(s)
           wa == NoHead(s)
           wb == ToHead(s)
           f == to_server \o request_parser.complete
           g == to_client \o response_parser.complete
           e == "server" \in fd_eof
<1>1. s \in Scripts /\ N = Len(s) /\ N \in Nat
  BY WireFacts
<1>2. /\ Len(a) = N /\ \A k \in 1..N : a[k] = s[k].request /\ ~UntilEof(a[k], wa[k])
      /\ Len(b) = N
      /\ \A k \in 1..N : /\ b[k] = s[k].response
                         /\ UntilEof(b[k], wb[k]) <=> EndsWithConnection(s[k])
  BY <1>1, RequestsStreamed, ResponsesStreamed
<1>3. \A k \in 1..N : Len(Requests(k)) = End(a, k) /\ Len(Responses(k)) = End(b, k)
  <2> SUFFICES ASSUME NEW k \in 1..N
               PROVE  Len(Requests(k)) = End(a, k) /\ Len(Responses(k)) = End(b, k)
    OBVIOUS
  <2>1. k \in 0..Len(s)
    BY <1>1
  <2> QED BY <1>1, <2>1, StreamsGrow DEF Requests, Responses
<1>4. FoundIn(f, a, taken["client"], FALSE, wa) /\ f \in Seq(MessageRecords)
  <2>1. RequestsKept(s, request_parser, to_server, taken["client"])
    BY DEF IInv, Parsed
  <2>2. /\ FoundIn(f, a, taken["client"], FALSE, wa)
        /\ request_parser.complete \in Seq(MessageRecords) /\ to_server \in Seq(MessageRecords)
    BY <1>1, <2>1, RequestsFound
  <2>3. FoundIn(f, a, taken["client"], FALSE, wa)
    BY ONLY <2>2
  <2>4. f \in Seq(MessageRecords)
    <3>1. /\ request_parser.complete \in Seq(MessageRecords)
          /\ to_server \in Seq(MessageRecords)
      BY <2>2
    <3> QED BY ONLY <3>1
  <2> QED BY ONLY <2>3, <2>4
<1>5. outcome # "exception" =>
         FoundIn(g, b, taken["server"], e, wb) /\ g \in Seq(MessageRecords)
  <2> SUFFICES ASSUME outcome # "exception"
               PROVE  FoundIn(g, b, taken["server"], e, wb) /\ g \in Seq(MessageRecords)
    OBVIOUS
  <2>1. ResponsesKept(s, response_parser, Len(to_server), to_client, taken["server"], e)
    BY DEF IInv, Parsed
  <2>2. /\ FoundIn(g, b, taken["server"], e, wb)
        /\ response_parser.complete \in Seq(MessageRecords) /\ to_client \in Seq(MessageRecords)
    BY <1>1, <2>1, ResponsesFound
  <2> QED BY <2>2
<1> HIDE DEF s, a, b, wa, wb, f, g, e, N
<1>6. /\ \A i \in DOMAIN f : i <= N /\ SameMessage(f[i], s[i].request)
      /\ \A k \in 1..N : k <= Len(f) <=> Len(Requests(k)) <= taken["client"]
  <2>1. ASSUME NEW i \in DOMAIN f PROVE i <= N /\ SameMessage(f[i], s[i].request)
    <3>1. i <= N /\ SameMessage(f[i], a[i])
      BY <1>2, <1>4 DEF FoundIn
    <3>2. i \in 1..N
      BY <1>1, <1>4, <3>1
    <3> QED BY <1>2, <3>1, <3>2
  <2>2. ASSUME NEW k \in 1..N
        PROVE  k <= Len(f) <=> Len(Requests(k)) <= taken["client"]
    BY <1>2, <1>3, <1>4 DEF FoundIn
  <2> QED BY <2>1, <2>2
<1>7. ASSUME outcome # "exception"
      PROVE  /\ \A i \in DOMAIN g : i <= N /\ SameMessage(g[i], s[i].response)
             /\ \A k \in 1..N :
                   k <= Len(g) <=> /\ Len(Responses(k)) <= taken["server"]
                                   /\ EndsWithConnection(s[k]) => e
  <2>1. ASSUME NEW i \in DOMAIN g PROVE i <= N /\ SameMessage(g[i], s[i].response)
    <3>1. i <= N /\ SameMessage(g[i], b[i])
      BY <1>2, <1>5, <1>7 DEF FoundIn
    <3>2. i \in 1..N
      BY <1>1, <1>5, <1>7, <3>1
    <3> QED BY <1>2, <3>1, <3>2
  <2>2. ASSUME NEW k \in 1..N
        PROVE  k <= Len(g) <=> /\ Len(Responses(k)) <= taken["server"]
                               /\ EndsWithConnection(s[k]) => e
    BY <1>2, <1>3, <1>5, <1>7 DEF FoundIn
  <2> QED BY <2>1, <2>2
<1> QED BY <1>6, <1>7 DEF FramedAsSent, s, f, g, e, N

\* The pairs saved are those of PairsMatch, by the invariant's Paired.
LEMMA PairsLemma == IInv => PairsMatch
<1> SUFFICES ASSUME IInv PROVE PairsMatch
  OBVIOUS
<1>1. Paired
  BY DEF IInv
<1>2. DOMAIN files = 1..Len(files)
  BY <1>1 DEF Paired, PairTypes
<1> QED BY <1>1, <1>2 DEF Paired, SavedAsSent, NoneOvertaken, PairsMatch

\* The parsers find the messages that were sent, with every body a request or a
\* response may have, wherever reads cut the streams, and each as soon as its last
\* symbol has been read, for all scripts of well-formed messages.
THEOREM MessagesFramed == Spec => []FramedAsSent
<1>1. Spec => []IInv
  BY InitLemma, NextLemma, PTL DEF Spec
<1> QED BY <1>1, FramingLemma, PTL

\* What is saved is the response to each request, with that request as long as none
\* was passed on before its predecessor was answered, whatever the client pipelines.
THEOREM RecordedPairs == Spec => []PairsMatch
<1>1. Spec => []IInv
  BY InitLemma, NextLemma, PTL DEF Spec
<1> QED BY <1>1, PairsLemma, PTL

\* A response never makes its parser throw, wherever reads cut it and when the
\* server closes.
ResponsesAccepted == ~ParseFails(1)

\* The parser of responses accepts all that a server of these scripts sends,
\* also for requests that were pipelined.
THEOREM ResponsesNeverFail == Spec => [][ResponsesAccepted]_vars
<1>1. IInv => [ResponsesAccepted]_vars
  <2> SUFFICES ASSUME IInv, ParseFails(1) PROVE FALSE
    BY DEF ResponsesAccepted
  <2> DEFINE r == parse(response_parser, Buffer("server"))
             e2 == "server" \in fd_eof \/ Buffer("server") = <<>>
  <2>1. outcome # "exception" /\ 1 \in poller.ready /\ r.failed
    BY DEF ParseFails, CallbackThrows, Reaches
  <2>2. Ended(e2, "server" \in fd_eof, Buffer("server"))
    BY DEF Ended
  <2> HIDE DEF r, e2
  <2>3. ~parse(response_parser, Buffer("server")).failed
    BY <2>1, <2>2, ResponsesStep
  <2> QED BY <2>1, <2>3 DEF r
<1>2. Spec => []IInv
  BY InitLemma, NextLemma, PTL DEF Spec
<1> QED BY <1>1, <1>2, PTL

\* A response that comes back finds the request it answers in current_pair, so that
\* saving it does not throw, as long as no request has overtaken another.
PairComplete ==
    NoneOvertaken(Len(to_client) + 1) /\ ForwardResponse => outcome' = outcome

\* A thread never meets a response without a request before a request has
\* overtaken another.
THEOREM SavingNeverFails == Spec => [][PairComplete]_vars
<1>1. IInv => [PairComplete]_vars
  <2> SUFFICES ASSUME IInv, NoneOvertaken(Len(to_client) + 1), ForwardResponse
               PROVE  outcome' = outcome
    BY DEF PairComplete
  <2>1. outcome = "running" /\ 4 \in poller.ready
    BY DEF ForwardResponse, Reaches, Callback, CallbackThrows
  <2>2. response_parser.complete # <<>>
    BY <2>1 DEF IInv, Polled
  <2>3. current_pair # NoRequest
    BY <2>1, <2>2, PairIsNext
  <2> QED BY <2>3 DEF ForwardResponse, Callback
<1>2. Spec => []IInv
  BY InitLemma, NextLemma, PTL DEF Spec
<1> QED BY <1>1, <1>2, PTL

\* A parser of requests throws only when the client ends its stream within a request.
RequestsCutOnly ==
    ParseFails(2) =>
        /\ Buffer("client") = <<>>
        /\ \E k \in 1..Exchanges : /\ Len(Requests(k - 1)) < taken["client"]
                                   /\ taken["client"] < Len(Requests(k))

\* No request of a script makes its parser throw, however it is cut, unless the end of
\* the stream cuts it.
THEOREM RequestsFailOnlyCut == Spec => [][RequestsCutOnly]_vars
<1>1. IInv => [RequestsCutOnly]_vars
  <2> SUFFICES ASSUME IInv, ParseFails(2) PROVE RequestsCutOnly
    BY DEF RequestsCutOnly
  <2> DEFINE s == script
             all == RequestsOf(s)
             w == NoHead(s)
             n == taken["client"]
             n2 == sent["client"]
             p == request_parser
             buf == Buffer("client")
             gone == Len(to_server)
             N == Len(s)
  <2>1. parse(p, buf).failed
    BY DEF ParseFails
  <2>2. /\ s \in Scripts /\ Exchanges = N /\ N \in Nat /\ gone \in Nat /\ n \in Nat
        /\ n2 \in Nat /\ started \in 0..N
    BY WireFacts
  <2>3. /\ n <= n2 /\ n2 <= Len(RequestStreams[s][started])
        /\ buf = SubSeq(RequestStreams[s][started], n + 1, n2)
        /\ RequestsKept(s, p, to_server, n)
    BY DEF IInv, Wire, Parsed, Buffer, Written, Requests
  <2>4. /\ Len(all) = N /\ Streamed("request", all, w) /\ all \in Seq(Messages)
        /\ RequestStreams[s][started] = First(all, started)
        /\ \A k \in 1..N : ~UntilEof(all[k], w[k])
    <3>1. /\ Len(all) = N /\ Streamed("request", all, w)
          /\ \A k \in 1..N : ~UntilEof(all[k], w[k])
      BY <2>2, RequestsStreamed
    <3>2. RequestStreams[s][started] = First(all, started)
      BY <2>2, StreamsOf
    <3> QED BY <3>1, <3>2 DEF Streamed
  <2>5. /\ Setting("request", all, w, N, n)
        /\ ParserAt(p, "request", all, w, N, gone, n, FALSE)
        /\ QuietAt(p, all, w, n, gone)
    BY <2>3 DEF RequestsKept
  <2>6. \A k \in 1..N : Len(Requests(k)) = End(all, k) /\ Len(Requests(k - 1)) = End(all, k - 1)
    <3> SUFFICES ASSUME NEW k \in 1..N
                 PROVE  Len(Requests(k)) = End(all, k) /\ Len(Requests(k - 1)) = End(all, k - 1)
      OBVIOUS
    <3>1. k \in 0..Len(s) /\ k - 1 \in 0..Len(s)
      BY <2>2
    <3> QED BY <2>2, <3>1, StreamsGrow DEF Requests
  <2> HIDE DEF s, all, w, n, n2, p, buf, gone, N
  <2>7. ASSUME buf # <<>> PROVE FALSE
    <3>1. /\ started \in 0..Len(all) /\ N \in 0..Len(all) /\ started <= N
      BY <2>2, <2>4
    <3>2. n2 <= End(all, started) /\ End(all, started) \in Nat /\ End(all, N) \in Nat
          /\ End(all, started) <= End(all, N)
      BY <2>3, <2>4, <3>1, StreamType, EndsIncrease DEF End
    <3>3. n2 <= End(all, N)
      BY ONLY <2>2, <3>2
    <3>4. Setting("request", all, w, N, n2)
      BY <2>2, <2>4, <3>1, <3>3 DEF Setting
    <3>5. buf = SubSeq(All(all), n + 1, n2)
      <4>1. SubSeq(First(all, started), n + 1, n2) = SubSeq(All(all), n + 1, n2)
        BY <2>2, <2>3, <2>4, <3>1, <3>2, PartOfAll
      <4> QED BY <2>3, <2>4, <4>1
    <3>6. ParserAt(parse(p, buf), "request", all, w, N, gone, n2, FALSE)
      BY <2>2, <2>3, <2>5, <2>7, <3>4, <3>5, ParsesMore
    <3>7. ~parse(p, buf).failed
      BY <3>6 DEF ParserAt, StandsAt
    <3> QED BY <2>1, <3>7
  <2>8. \E k \in 1..Len(all) : End(all, k - 1) < n /\ (n < End(all, k) \/ UntilEof(all[k], w[k]))
    <3>1. parse(p, <<>>).failed
      BY <2>1, <2>7
    <3> QED BY <2>2, <2>5, <3>1, RequestsCut
  <2>9. \E k \in 1..N : Len(Requests(k - 1)) < n /\ n < Len(Requests(k))
    BY <2>4, <2>6, <2>8
  <2> QED BY <2>2, <2>7, <2>9 DEF RequestsCutOnly, buf, n, N
<1>2. Spec => []IInv
  BY InitLemma, NextLemma, PTL DEF Spec
<1> QED BY <1>1, <1>2, PTL
=============================================================================
