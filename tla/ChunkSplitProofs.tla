------------------------- MODULE ChunkSplitProofs --------------------------
(***************************************************************************)
(* Proofs about ChunkSplit, for any runes, separators and chunk options:   *)
(* the chunks of a text lie in it, leave out only what may be lost, are    *)
(* no longer than the size and a separator, and are all found when they do *)
(* not overlap.  The lemmas follow the code from the bytes of a text to    *)
(* the rows of a record.                                                   *)
(***************************************************************************)
EXTENDS ChunkSplit, Induction

-----------------------------------------------------------------------------
(***************************************************************************)
(* Bytes.                                                                  *)
(***************************************************************************)
LEMMA FlattenSteps ==
  ASSUME NEW V, NEW ss \in Seq(Seq(V))
  PROVE  \E f : /\ f \in [0 .. Len(ss) -> Seq(V)] /\ f[0] = <<>>
                /\ \A n \in 1 .. Len(ss) : f[n] = f[n - 1] \o ss[n]
                /\ FlattenSeq(ss) = f[Len(ss)]
<1> DEFINE N == Len(ss)
           step == [x \in (1 .. N) \X Seq(V) |-> x[2] \o ss[x[1]]]
           Body(f) == [i \in 1 .. N |-> IF i = 1 THEN ss[i] ELSE f[i - 1] \o ss[i]]
<1>1. N \in Nat /\ <<>> \in Seq(V) /\ \A i \in 1 .. N : ss[i] \in Seq(V)
  OBVIOUS
<1>2. step \in [(1 .. N) \X Seq(V) -> Seq(V)]
  <2>1. ASSUME NEW x \in (1 .. N) \X Seq(V) PROVE x[2] \o ss[x[1]] \in Seq(V)
    <3>1. x[2] \in Seq(V) /\ ss[x[1]] \in Seq(V)
      BY <1>1
    <3> QED
      BY <3>1
  <2> QED
    BY <2>1
<1>3. \A n \in 1 .. N, r \in Seq(V) : step[<<n, r>>] = r \o ss[n]
  OBVIOUS
<1> HIDE DEF step
<1>4. PICK f : Iterates(f, N, Seq(V), <<>>, step)
  BY <1>1, <1>2, Recursion, Zenon
<1>5. /\ f \in [0 .. N -> Seq(V)] /\ f[0] = <<>>
      /\ \A n \in 1 .. N : f[n] = f[n - 1] \o ss[n]
  <2>1. ASSUME NEW n \in 1 .. N PROVE f[n] = f[n - 1] \o ss[n]
    <3>1. n - 1 \in 0 .. N
      BY <1>1
    <3>2. f[n - 1] \in Seq(V)
      BY <1>4, <3>1 DEF Iterates
    <3> QED
      BY <1>3, <1>4, <3>2 DEF Iterates
  <2> QED
    BY <1>4, <2>1 DEF Iterates
<1>6. CASE N = 0
  <2>1. FlattenSeq(ss) = ss /\ ss = <<>>
    BY <1>6 DEF FlattenSeq
  <2> QED
    BY <1>5, <1>6, <2>1
<1>7. CASE N # 0
  <2> DEFINE g == [i \in 1 .. N |-> f[i]]
             h == CHOOSE e : e = Body(e)
  <2>1. \A i \in 1 .. N : g[i] = f[i]
    OBVIOUS
  <2>2. g = Body(g)
    <3>1. ASSUME NEW i \in 1 .. N PROVE g[i] = Body(g)[i]
      <4>1. CASE i = 1
        <5>1. 1 \in 1 .. N /\ 1 - 1 = 0 /\ ss[1] \in Seq(V)
          BY <1>1, <4>1
        <5>2. f[1] = f[1 - 1] \o ss[1]
          BY <1>5, <5>1
        <5>3. f[1] = <<>> \o ss[1]
          BY <1>5, <5>1, <5>2
        <5>4. f[1] = ss[1]
          BY <5>1, <5>3, ConcatEmptySeq
        <5> QED
          BY <4>1, <5>4
      <4>2. CASE i # 1
        <5>1. i - 1 \in 1 .. N
          BY <1>1, <4>2
        <5>2. g[i - 1] = f[i - 1] /\ g[i] = f[i - 1] \o ss[i]
          BY <1>5, <5>1
        <5> QED
          BY <4>2, <5>2
      <4> QED
        BY <4>1, <4>2
    <3> QED
      BY <3>1
  <2> HIDE DEF g
  <2>3. \E e : e = Body(e)
    BY <2>2
  <2>4. FlattenSeq(ss) = h[N]
    BY <1>7, Zenon DEF FlattenSeq
  <2>5. h = Body(h)
    <3> HIDE DEF Body
    <3> QED
      BY <2>3
  <2> HIDE DEF h
  <2> DEFINE e == [i \in 0 .. N |-> IF i = 0 THEN <<>> ELSE h[i]]
  <2>6. e[0] = <<>> /\ \A i \in 1 .. N : e[i] = h[i]
    BY <1>1
  <2>7. ASSUME NEW n \in 1 .. N, e[n - 1] = f[n - 1] PROVE e[n] = f[n]
    <3>1. CASE n = 1
      <4>1. e[1] = h[1] /\ h[1] = ss[1]
        BY <1>1, <2>5, <2>6, <3>1
      <4>2. 1 \in 1 .. N /\ 1 - 1 = 0 /\ ss[1] \in Seq(V)
        BY <1>1, <3>1
      <4>3. f[1] = f[1 - 1] \o ss[1]
        BY <1>5, <4>2
      <4>4. f[1] = <<>> \o ss[1]
        BY <1>5, <4>2, <4>3
      <4>5. f[1] = ss[1]
        BY <4>2, <4>4, ConcatEmptySeq
      <4> QED
        BY <2>6, <3>1, <4>1, <4>5
    <3>2. CASE n # 1
      <4>1. n - 1 \in 1 .. N
        BY <1>1, <3>2
      <4>2. h[n] = h[n - 1] \o ss[n] /\ e[n - 1] = h[n - 1] /\ e[n] = h[n]
        BY <2>5, <2>6, <3>2, <4>1
      <4> QED
        BY <1>5, <2>7, <4>2
    <3> QED
      BY <3>1, <3>2
  <2> HIDE DEF e
  <2>8. e[N] = f[N]
    <3>1. N \in Nat /\ e[0] = f[0]
      BY <1>1, <1>5, <2>6
    <3> HIDE DEF N
    <3> QED
      BY <2>7, <3>1, OneRecursion
  <2>9. h[N] = f[N]
    BY <1>1, <1>7, <2>6, <2>8
  <2> QED
    BY <1>5, <2>4, <2>9
<1> QED
  BY <1>6, <1>7
\* The bytes of one rune.
Unit(r) == [b \in 1 .. Width[r] |-> <<r, b>>]

LEMMA UnitIs ==
  ASSUME NEW R \in SUBSET (DOMAIN Width), NEW r \in R
  PROVE  /\ Unit(r) \in Seq(R \X Nat) /\ Len(Unit(r)) = Width[r] /\ Width[r] \in Nat \ {0}
         /\ \A b \in 1 .. Width[r] : Unit(r)[b] = <<r, b>>
<1>1. Width[r] \in Nat \ {0}
  BY WidthAssumption
<1>2. \A b \in 1 .. Width[r] : Unit(r)[b] = <<r, b>> /\ <<r, b>> \in R \X Nat
  BY <1>1 DEF Unit
<1>3. Unit(r) \in [1 .. Width[r] -> R \X Nat]
  BY <1>2 DEF Unit
<1>4. Unit(r) \in Seq(R \X Nat) /\ Len(Unit(r)) = Width[r]
  BY <1>1, <1>3
<1> QED
  BY <1>1, <1>2, <1>4

LEMMA BytesSteps ==
  ASSUME NEW R \in SUBSET (DOMAIN Width), NEW t \in Seq(R)
  PROVE  \E f : /\ f \in [0 .. Len(t) -> Seq(R \X Nat)] /\ f[0] = <<>>
                /\ \A n \in 1 .. Len(t) : f[n] = f[n - 1] \o Unit(t[n])
                /\ Bytes(t) = f[Len(t)]
<1> DEFINE ss == [i \in DOMAIN t |-> Unit(t[i])]
<1>1. DOMAIN t = 1 .. Len(t) /\ Len(t) \in Nat /\ \A i \in 1 .. Len(t) : t[i] \in R
  OBVIOUS
<1>2. ASSUME NEW i \in 1 .. Len(t) PROVE Unit(t[i]) \in Seq(R \X Nat)
  BY <1>1, UnitIs
<1>3. ss \in [1 .. Len(t) -> Seq(R \X Nat)]
  BY <1>1, <1>2
<1>4. ss \in Seq(Seq(R \X Nat)) /\ Len(ss) = Len(t)
  BY <1>1, <1>3
<1>5. \A n \in 1 .. Len(t) : ss[n] = Unit(t[n])
  BY <1>1
<1>6. Bytes(t) = FlattenSeq(ss)
  BY Zenon DEF Bytes, Unit
<1> HIDE DEF ss
<1>7. PICK f : /\ f \in [0 .. Len(ss) -> Seq(R \X Nat)] /\ f[0] = <<>>
               /\ \A n \in 1 .. Len(ss) : f[n] = f[n - 1] \o ss[n]
               /\ FlattenSeq(ss) = f[Len(ss)]
  BY <1>4, FlattenSteps
<1> QED
  BY <1>4, <1>5, <1>6, <1>7

LEMMA BytesAre ==
  ASSUME NEW R \in SUBSET (DOMAIN Width), NEW t \in Seq(R)
  PROVE  Bytes(t) \in Seq(R \X Nat) /\ Len(Bytes(t)) \in Nat
<1>1. PICK f : /\ f \in [0 .. Len(t) -> Seq(R \X Nat)]
               /\ Bytes(t) = f[Len(t)]
  BY BytesSteps
<1>2. Len(t) \in 0 .. Len(t)
  OBVIOUS
<1>3. Bytes(t) \in Seq(R \X Nat)
  BY <1>1, <1>2
<1> QED
  BY <1>3

LEMMA NoBytes == Bytes(<<>>) = <<>>
<1>1. <<>> \in Seq({}) /\ Len(<<>>) = 0 /\ {} \in SUBSET (DOMAIN Width)
  OBVIOUS
<1>2. PICK f : f[0] = <<>> /\ Bytes(<<>>) = f[Len(<<>>)]
  BY <1>1, BytesSteps
<1> QED
  BY <1>1, <1>2

LEMMA BytesAppend ==
  ASSUME NEW R \in SUBSET (DOMAIN Width), NEW t \in Seq(R), NEW r \in R
  PROVE  Bytes(Append(t, r)) = Bytes(t) \o Unit(r)
<1> DEFINE u == Append(t, r)
<1>1. /\ u \in Seq(R) /\ Len(u) = Len(t) + 1 /\ Len(t) \in Nat /\ u[Len(t) + 1] = r
      /\ \A n \in 1 .. Len(t) : u[n] = t[n]
  BY AppendProperties
<1> HIDE DEF u
<1>2. PICK f : /\ f[0] = <<>> /\ \A n \in 1 .. Len(t) : f[n] = f[n - 1] \o Unit(t[n])
               /\ Bytes(t) = f[Len(t)]
  BY BytesSteps
<1>3. PICK g : /\ g[0] = <<>> /\ \A n \in 1 .. Len(u) : g[n] = g[n - 1] \o Unit(u[n])
               /\ Bytes(u) = g[Len(u)]
  BY <1>1, BytesSteps
<1>4. ASSUME NEW n \in 1 .. Len(t), f[n - 1] = g[n - 1] PROVE f[n] = g[n]
  <2>1. n \in 1 .. Len(u)
    BY <1>1
  <2> QED
    BY <1>1, <1>2, <1>3, <1>4, <2>1
<1>5. f[Len(t)] = g[Len(t)]
  BY <1>1, <1>2, <1>3, <1>4, OneRecursion
<1>6. Len(u) \in 1 .. Len(u) /\ Len(u) - 1 = Len(t) /\ u[Len(u)] = r
  BY <1>1
<1>7. g[Len(u)] = g[Len(u) - 1] \o Unit(u[Len(u)])
  BY <1>3, <1>6
<1>8. Bytes(u) = Bytes(t) \o Unit(r)
  BY <1>1, <1>2, <1>3, <1>5, <1>6, <1>7
<1> QED
  BY <1>8 DEF u

LEMMA BytesConcat ==
  ASSUME NEW R \in SUBSET (DOMAIN Width), NEW s \in Seq(R), NEW t \in Seq(R)
  PROVE  Bytes(s \o t) = Bytes(s) \o Bytes(t)
<1> DEFINE S == {n \in 0 .. Len(t) : Bytes(s \o SubSeq(t, 1, n)) = Bytes(s) \o Bytes(SubSeq(t, 1, n))}
<1>1. Len(t) \in Nat /\ Bytes(s) \in Seq(R \X Nat)
  BY BytesAre
<1>2. 0 \in S
  <2>1. SubSeq(t, 1, 0) = <<>> /\ 0 \in 0 .. Len(t)
    BY <1>1, SubSeqEmpty
  <2>2. Bytes(s) \o <<>> = Bytes(s) /\ s \o <<>> = s
    BY <1>1, ConcatEmptySeq
  <2> QED
    BY <2>1, <2>2, NoBytes
<1>3. ASSUME NEW n \in 1 .. Len(t), n - 1 \in S PROVE n \in S
  <2> DEFINE p == SubSeq(t, 1, n - 1)
  <2>1. n - 1 \in Nat /\ n \in Nat /\ 1 \in 1 .. Len(t) /\ n - 1 \in 0 .. Len(t) /\ n \in 1 .. Len(t)
    BY <1>1
  <2>2. p \in Seq(R) /\ t[n] \in R
    BY <1>1, <2>1, PartIs
  <2>3. SubSeq(t, 1, n) = p \o <<t[n]>>
    BY <2>1, SubSeqRecursiveSecond
  <2> HIDE DEF p
  <2>4. p \o <<t[n]>> = Append(p, t[n]) /\ Append(p, t[n]) \in Seq(R) /\ <<t[n]>> \in Seq(R)
    BY <2>2, AppendIsConcat, AppendProperties
  <2>5. s \o p \in Seq(R) /\ s \o (p \o <<t[n]>>) = (s \o p) \o <<t[n]>>
    BY <2>2, <2>4, ConcatProperties, ConcatAssociative, SMTT(60)
  <2>6. (s \o p) \o <<t[n]>> = Append(s \o p, t[n])
    BY <2>2, <2>5, AppendIsConcat
  <2>7. /\ Bytes(Append(s \o p, t[n])) = Bytes(s \o p) \o Unit(t[n])
        /\ Bytes(Append(p, t[n])) = Bytes(p) \o Unit(t[n])
    BY <2>2, <2>5, BytesAppend
  <2>8. Bytes(s \o p) = Bytes(s) \o Bytes(p)
    BY <1>3 DEF p
  <2>9. Bytes(p) \in Seq(R \X Nat) /\ Unit(t[n]) \in Seq(R \X Nat)
    BY <2>2, BytesAre, UnitIs
  <2>10. (Bytes(s) \o Bytes(p)) \o Unit(t[n]) = Bytes(s) \o (Bytes(p) \o Unit(t[n]))
    <3> DEFINE V == R \X Nat
               a == Bytes(s)
               b == Bytes(p)
               c == Unit(t[n])
    <3>1. a \in Seq(V) /\ b \in Seq(V) /\ c \in Seq(V)
      BY <1>1, <2>9
    <3> HIDE DEF V, a, b, c
    <3>2. (a \o b) \o c = a \o (b \o c)
      BY <3>1, ConcatAssociative, SMTT(60)
    <3> QED
      BY <3>2 DEF a, b, c
  <2>11. Bytes(s \o SubSeq(t, 1, n)) = Bytes(s) \o Bytes(SubSeq(t, 1, n))
    BY <2>3, <2>4, <2>5, <2>6, <2>7, <2>8, <2>10
  <2> QED
    BY <2>1, <2>11
<1> HIDE DEF S
<1>4. \A n \in 0 .. Len(t) : n \in S
  BY <1>1, <1>2, <1>3, UpTo
<1>5. Len(t) \in S
  BY <1>1, <1>4
<1>6. SubSeq(t, 1, Len(t)) = t
  BY SubSeqFull
<1> QED
  BY <1>5, <1>6 DEF S

\* A text is two parts, and so are its bytes.
LEMMA BytesOfParts ==
  ASSUME NEW R \in SUBSET (DOMAIN Width), NEW t \in Seq(R), NEW n \in 0 .. Len(t)
  PROVE  /\ SubSeq(t, 1, n) \in Seq(R) /\ SubSeq(t, n + 1, Len(t)) \in Seq(R)
         /\ Bytes(t) = Bytes(SubSeq(t, 1, n)) \o Bytes(SubSeq(t, n + 1, Len(t)))
<1>1. Len(t) \in Nat /\ n \in Nat
  OBVIOUS
<1>2. SubSeq(t, 1, n) \in Seq(R) /\ SubSeq(t, n + 1, Len(t)) \in Seq(R)
  <2>1. 1 \in Nat \ {0} /\ n + 1 \in Nat \ {0} /\ 1 <= n + 1 /\ n + 1 <= Len(t) + 1 /\ n <= Len(t)
    BY <1>1
  <2>2. SubSeq(t, 1, n) \in Seq(R)
    BY <1>1, <2>1, PartIs
  <2>3. SubSeq(t, n + 1, Len(t)) \in Seq(R)
    BY <1>1, <2>1, PartIs
  <2> QED
    BY <2>2, <2>3
<1>3. SubSeq(t, 1, n) \o SubSeq(t, n + 1, Len(t)) = t
  <2>1. 1 \in 1 .. Len(t) + 1 /\ n \in 1 - 1 .. Len(t) /\ Len(t) \in n .. Len(t)
    BY <1>1
  <2>2. SubSeq(t, 1, n) \o SubSeq(t, n + 1, Len(t)) = SubSeq(t, 1, Len(t))
    BY <2>1, ConcatAdjacentSubSeq
  <2>3. SubSeq(t, 1, Len(t)) = t
    BY SubSeqFull
  <2> QED
    BY <2>2, <2>3
<1> QED
  BY <1>2, <1>3, BytesConcat

\* Where the bytes of the n-th rune are.
LEMMA UnitAt ==
  ASSUME NEW R \in SUBSET (DOMAIN Width), NEW t \in Seq(R), NEW n \in 1 .. Len(t)
  PROVE  LET a == Len(Bytes(SubSeq(t, 1, n - 1)))
         IN  /\ a \in Nat /\ t[n] \in R /\ Width[t[n]] \in Nat \ {0}
             /\ Len(Bytes(SubSeq(t, 1, n))) = a + Width[t[n]]
             /\ a + Width[t[n]] <= Len(Bytes(t))
             /\ \A b \in 1 .. Width[t[n]] : Bytes(t)[a + b] = <<t[n], b>>
<1> DEFINE p == Bytes(SubSeq(t, 1, n - 1))
           q == Bytes(SubSeq(t, 1, n))
           r == Bytes(SubSeq(t, n + 1, Len(t)))
           u == Unit(t[n])
           w == Width[t[n]]
           V == R \X Nat
<1>1. /\ Len(t) \in Nat /\ n \in Nat /\ n - 1 \in 0 .. Len(t) /\ n \in 0 .. Len(t) /\ t[n] \in R
      /\ 1 \in 1 .. Len(t) /\ n \in 1 .. Len(t)
  OBVIOUS
<1>2. SubSeq(t, 1, n - 1) \in Seq(R) /\ SubSeq(t, 1, n) \in Seq(R) /\ SubSeq(t, n + 1, Len(t)) \in Seq(R)
  BY <1>1, BytesOfParts
<1>3. p \in Seq(V) /\ q \in Seq(V) /\ r \in Seq(V)
  BY <1>2, BytesAre
<1>4. u \in Seq(V) /\ Len(u) = w /\ w \in Nat \ {0} /\ \A b \in 1 .. w : u[b] = <<t[n], b>>
  BY <1>1, UnitIs
<1>5. q = p \o u
  <2>1. SubSeq(t, 1, n) = SubSeq(t, 1, n - 1) \o <<t[n]>>
    BY <1>1, SubSeqRecursiveSecond
  <2>2. SubSeq(t, 1, n) = Append(SubSeq(t, 1, n - 1), t[n])
    BY <1>1, <1>2, <2>1, AppendIsConcat
  <2> QED
    BY <1>1, <1>2, <2>2, BytesAppend
<1>6. Bytes(t) = q \o r
  BY <1>1, BytesOfParts
<1> HIDE DEF p, q, r, u, w, V
<1>7. Len(p) \in Nat /\ Len(q) \in Nat /\ Len(r) \in Nat /\ Len(q) = Len(p) + w
  <2>1. Len(p \o u) = Len(p) + Len(u)
    BY <1>3, <1>4, ConcatProperties
  <2>2. Len(p) \in Nat /\ Len(q) \in Nat /\ Len(r) \in Nat
    BY <1>3
  <2> QED
    BY <1>4, <1>5, <2>1, <2>2
<1>8. Len(Bytes(t)) = Len(q) + Len(r)
  BY <1>3, <1>6, ConcatProperties
<1>9. ASSUME NEW b \in 1 .. w PROVE Bytes(t)[Len(p) + b] = <<t[n], b>>
  <2>1. /\ Len(p) + b \in 1 .. Len(q) + Len(r) /\ Len(p) + b <= Len(q)
        /\ Len(p) + b \in 1 .. Len(p) + Len(u) /\ ~(Len(p) + b <= Len(p))
        /\ Len(p) + b - Len(p) = b
    BY <1>4, <1>7
  <2>2. (q \o r)[Len(p) + b] = q[Len(p) + b]
    BY <1>3, <2>1, ConcatProperties
  <2>3. (p \o u)[Len(p) + b] = u[Len(p) + b - Len(p)]
    BY <1>3, <1>4, <2>1, ConcatProperties
  <2> QED
    BY <1>4, <1>5, <1>6, <2>1, <2>2, <2>3
<1>10. Len(p) + w <= Len(Bytes(t))
  BY <1>7, <1>8
<1> QED
  BY <1>1, <1>4, <1>7, <1>9, <1>10 DEF p, q, w

\* The offset of a rune lies in the text, and so do the bytes of the runes up to it.
LEMMA OffsetIs ==
  ASSUME NEW R \in SUBSET (DOMAIN Width), NEW t \in Seq(R), NEW m \in Nat \ {0}, NEW n \in Nat,
         m <= n + 1, n <= Len(t)
  PROVE  LET c == SubSeq(t, m, n)
         IN  /\ c \in Seq(R) /\ Bytes(c) \in Seq(R \X Nat)
             /\ ByteOffset(t, m) \in Nat /\ Len(Bytes(c)) \in Nat /\ Len(Bytes(t)) \in Nat
             /\ ByteOffset(t, m) + Len(Bytes(c)) <= Len(Bytes(t))
             /\ m <= n => 0 < Len(Bytes(c))
             /\ Bytes(c) = SubSeq(Bytes(t), ByteOffset(t, m) + 1, ByteOffset(t, m) + Len(Bytes(c)))
<1> DEFINE c == SubSeq(t, m, n)
           p == Bytes(SubSeq(t, 1, m - 1))
           r == Bytes(SubSeq(t, n + 1, Len(t)))
           q == Bytes(SubSeq(t, 1, n))
           d == Bytes(c)
           V == R \X Nat
<1>1. /\ Len(t) \in Nat /\ m - 1 \in 0 .. Len(t) /\ n \in 0 .. Len(t)
      /\ 1 \in 1 .. Len(t) + 1 /\ m - 1 \in 1 - 1 .. Len(t) /\ n \in m - 1 .. Len(t)
      /\ m - 1 + 1 = m
  OBVIOUS
<1>2. c \in Seq(R) /\ Len(c) = n - m + 1 /\ (m <= n => c[1] = t[m])
  <2>1. /\ c \in Seq(R) /\ Len(c) = n - m + 1
        /\ \A i \in 1 .. Len(c) : m + i - 1 \in m .. n /\ c[i] = t[m + i - 1]
    BY PartIs
  <2>2. ASSUME m <= n PROVE 1 \in 1 .. Len(c) /\ m + 1 - 1 = m
    BY <2>1, <2>2
  <2>3. ASSUME m <= n PROVE c[1] = t[m + 1 - 1]
    BY <2>1, <2>2, <2>3
  <2> QED
    BY <2>1, <2>2, <2>3
<1>3. /\ SubSeq(t, 1, m - 1) \in Seq(R) /\ SubSeq(t, 1, n) \in Seq(R)
      /\ SubSeq(t, n + 1, Len(t)) \in Seq(R) /\ Bytes(t) = q \o r
  BY <1>1, BytesOfParts
<1>4. SubSeq(t, 1, n) = SubSeq(t, 1, m - 1) \o c
  <2>1. SubSeq(t, 1, m - 1) \o SubSeq(t, m - 1 + 1, n) = SubSeq(t, 1, n)
    BY <1>1, ConcatAdjacentSubSeq
  <2> QED
    BY <1>1, <2>1
<1>5. q = p \o d
  BY <1>2, <1>3, <1>4, BytesConcat
<1>6. p \in Seq(V) /\ d \in Seq(V) /\ r \in Seq(V) /\ q \in Seq(V)
  BY <1>2, <1>3, BytesAre
<1>7. m <= n => 0 < Len(d)
  <2>1. SUFFICES ASSUME m <= n PROVE 0 < Len(d)
    OBVIOUS
  <2>2. 1 \in 1 .. Len(c)
    BY <1>2, <2>1
  <2> DEFINE a == Len(Bytes(SubSeq(c, 1, 1 - 1)))
             w == Width[c[1]]
  <2>3. a \in Nat /\ w \in Nat \ {0} /\ a + w <= Len(d)
    BY <1>2, <2>2, UnitAt
  <2>4. Len(d) \in Nat
    BY <1>6
  <2> HIDE DEF a, w, d
  <2> QED
    BY <2>3, <2>4
<1>8. ByteOffset(t, m) = Len(p)
  BY DEF ByteOffset
<1> HIDE DEF p, q, r, d, V
<1>9. /\ Len(p) \in Nat /\ Len(d) \in Nat /\ Len(r) \in Nat /\ Len(q) = Len(p) + Len(d)
      /\ Len(Bytes(t)) = Len(p) + Len(d) + Len(r)
  BY <1>3, <1>5, <1>6, ConcatProperties
<1>10. SubSeq(Bytes(t), Len(p) + 1, Len(p) + Len(d)) = d
  <2> DEFINE e == SubSeq(q \o r, Len(p) + 1, Len(p) + Len(d))
  <2>1. q \o r \in Seq(V) /\ Len(q \o r) = Len(q) + Len(r)
    BY <1>6, ConcatProperties
  <2>2. /\ Len(p) + 1 \in Nat \ {0} /\ Len(p) + Len(d) \in Nat
        /\ Len(p) + 1 <= Len(p) + Len(d) + 1 /\ Len(p) + Len(d) <= Len(q \o r)
        /\ Len(p) + Len(d) - (Len(p) + 1) + 1 = Len(d)
    BY <1>9, <2>1
  <2>3. /\ e \in Seq(V) /\ Len(e) = Len(d)
        /\ \A i \in 1 .. Len(e) : e[i] = (q \o r)[Len(p) + 1 + i - 1]
    BY <2>1, <2>2, PartIs, SMTT(60)
  <2>4. ASSUME NEW i \in 1 .. Len(e) PROVE e[i] = d[i]
    <3>1. /\ Len(p) + 1 + i - 1 = Len(p) + i /\ Len(p) + i \in 1 .. Len(q) + Len(r) /\ Len(p) + i <= Len(q)
          /\ Len(p) + i \in 1 .. Len(p) + Len(d) /\ ~(Len(p) + i <= Len(p)) /\ Len(p) + i - Len(p) = i
      BY <1>9, <2>3
    <3>2. (q \o r)[Len(p) + i] = q[Len(p) + i]
      BY <1>6, <3>1, ConcatProperties
    <3>3. (p \o d)[Len(p) + i] = d[Len(p) + i - Len(p)]
      BY <1>6, <3>1, ConcatProperties
    <3> QED
      BY <1>5, <2>3, <3>1, <3>2, <3>3
  <2> HIDE DEF e
  <2>5. e = d
    BY <1>6, <2>3, <2>4, SeqEqual
  <2> QED
    BY <1>3, <2>5 DEF e
<1>11. Len(p) + Len(d) <= Len(Bytes(t)) /\ Len(Bytes(t)) \in Nat
  BY <1>9
<1> QED
  BY <1>2, <1>6, <1>7, <1>8, <1>9, <1>10, <1>11 DEF d, V



-----------------------------------------------------------------------------
(***************************************************************************)
(* Parts of texts.                                                         *)
(***************************************************************************)
\* c stands in t behind the first a runes.
In(c, t, a) ==
  /\ a \in Nat /\ a + Len(c) <= Len(t)
  /\ \A j \in 1 .. Len(c) : c[j] = t[a + j]

LEMMA InIn ==
  ASSUME NEW V, NEW c \in Seq(V), NEW t \in Seq(V), NEW u \in Seq(V), NEW a, NEW b, In(c, t, a), In(t, u, b)
  PROVE  In(c, u, b + a)
<1>1. a \in Nat /\ b \in Nat /\ Len(c) \in Nat /\ Len(t) \in Nat /\ Len(u) \in Nat
  BY DEF In
<1>2. b + a \in Nat /\ b + a + Len(c) <= Len(u)
  BY <1>1 DEF In
<1>3. ASSUME NEW j \in 1 .. Len(c) PROVE c[j] = u[b + a + j]
  <2>1. a + j \in 1 .. Len(t) /\ b + (a + j) = b + a + j
    BY <1>1 DEF In
  <2>2. c[j] = t[a + j]
    BY DEF In
  <2>3. t[a + j] = u[b + (a + j)]
    BY <2>1 DEF In
  <2> QED
    BY <2>1, <2>2, <2>3
<1> QED
  BY <1>2, <1>3 DEF In

LEMMA PartIn ==
  ASSUME NEW V, NEW t \in Seq(V), NEW m \in Nat \ {0}, NEW n \in Nat, m <= n + 1, n <= Len(t)
  PROVE  In(SubSeq(t, m, n), t, m - 1)
<1> DEFINE c == SubSeq(t, m, n)
<1>1. /\ Len(c) = n - m + 1 /\ Len(c) \in Nat
      /\ \A i \in 1 .. Len(c) : c[i] = t[m + i - 1]
  BY PartIs
<1> HIDE DEF c
<1>2. m - 1 \in Nat /\ m - 1 + Len(c) <= Len(t) /\ Len(t) \in Nat
  BY <1>1
<1>3. ASSUME NEW i \in 1 .. Len(c) PROVE c[i] = t[m - 1 + i]
  <2>1. m + i - 1 = m - 1 + i
    BY <1>1
  <2> QED
    BY <1>1, <2>1
<1>4. In(c, t, m - 1)
  BY <1>2, <1>3 DEF In
<1> QED
  BY <1>4 DEF c

LEMMA InIsPart ==
  ASSUME NEW V, NEW W, NEW c \in Seq(W), NEW t \in Seq(V), NEW a, In(c, t, a)
  PROVE  SubSeq(t, a + 1, a + Len(c)) = c /\ c \in Seq(V)
<1> DEFINE d == SubSeq(t, a + 1, a + Len(c))
<1>1. a \in Nat /\ Len(c) \in Nat /\ Len(t) \in Nat /\ a + Len(c) <= Len(t)
  BY DEF In
<1>2. /\ a + 1 \in Nat \ {0} /\ a + Len(c) \in Nat /\ a + 1 <= a + Len(c) + 1
      /\ a + Len(c) - (a + 1) + 1 = Len(c)
  BY <1>1
<1>3. /\ d \in Seq(V) /\ Len(d) = Len(c)
      /\ \A i \in 1 .. Len(d) : d[i] = t[a + 1 + i - 1]
  BY <1>1, <1>2, PartIs
<1> HIDE DEF d
<1>4. ASSUME NEW i \in 1 .. Len(c) PROVE d[i] = c[i] /\ c[i] \in V
  <2>1. a + 1 + i - 1 = a + i /\ a + i \in 1 .. Len(t)
    BY <1>1
  <2>2. c[i] = t[a + i]
    BY DEF In
  <2> QED
    BY <1>3, <2>1, <2>2
<1>5. c \in Seq(V)
  <2>1. c \in [1 .. Len(c) -> V]
    <3>1. c = [i \in 1 .. Len(c) |-> c[i]]
      OBVIOUS
    <3> QED
      BY <1>4, <3>1
  <2> QED
    BY <1>1, <2>1
<1>6. d = c
  BY <1>3, <1>4, <1>5, SeqEqual
<1> QED
  BY <1>5, <1>6 DEF d

LEMMA PlacesAre ==
  ASSUME NEW V, NEW W, NEW t \in Seq(V), NEW c \in Seq(W)
  PROVE  /\ \A a : In(c, t, a) => a + 1 \in Places(t, c)
         /\ \A i \in Places(t, c) : i \in Nat \ {0} /\ In(c, t, i - 1)
<1>1. Len(t) \in Nat /\ Len(c) \in Nat
  OBVIOUS
<1>2. ASSUME NEW a, In(c, t, a) PROVE a + 1 \in Places(t, c)
  <2>1. a \in Nat /\ a + Len(c) <= Len(t)
    BY <1>2 DEF In
  <2>2. a + 1 \in 1 .. Len(t) + 1 - Len(c) /\ a + 1 + Len(c) - 1 = a + Len(c)
    BY <1>1, <2>1
  <2>3. SubSeq(t, a + 1, a + Len(c)) = c
    BY <1>2, InIsPart
  <2> QED
    BY <2>2, <2>3 DEF Places
<1>3. ASSUME NEW i \in Places(t, c) PROVE i \in Nat \ {0} /\ In(c, t, i - 1)
  <2>1. i \in 1 .. Len(t) + 1 - Len(c) /\ SubSeq(t, i, i + Len(c) - 1) = c
    BY DEF Places
  <2>2. /\ i \in Nat \ {0} /\ i + Len(c) - 1 \in Nat /\ i <= i + Len(c) - 1 + 1
        /\ i + Len(c) - 1 <= Len(t)
    BY <1>1, <2>1
  <2>3. In(SubSeq(t, i, i + Len(c) - 1), t, i - 1)
    BY <2>2, PartIn
  <2> QED
    BY <2>1, <2>2, <2>3
<1> QED
  BY <1>2, <1>3

LEMMA MinIs ==
  ASSUME NEW S \in SUBSET Nat, S # {}
  PROVE  Min(S) \in S /\ \A n \in S : Min(S) <= n
<1>1. \E n \in S : \A m \in S : n <= m
  BY HasLeast
<1> QED
  BY <1>1, Zenon DEF Min

LEMMA MaxIs ==
  ASSUME NEW N \in Nat, NEW S \in SUBSET (1 .. N), S # {}
  PROVE  Max(S) \in S /\ \A n \in S : n <= Max(S)
<1> DEFINE T == {m \in 0 .. N : N - m \in S}
<1>1. T # {} /\ T \in SUBSET Nat
  <2>1. PICK n \in S : TRUE
    OBVIOUS
  <2>2. N - n \in 0 .. N /\ N - (N - n) = n
    OBVIOUS
  <2>3. N - n \in T
    BY <2>2
  <2>4. T \in SUBSET Nat
    OBVIOUS
  <2> QED
    BY <2>3, <2>4
<1>2. PICK m \in T : \A k \in T : m <= k
  BY <1>1, HasLeast
<1>3. ASSUME NEW n \in S PROVE n <= N - m
  <2>1. N - n \in 0 .. N /\ N - (N - n) = n /\ m \in Nat
    OBVIOUS
  <2>2. m <= N - n
    BY <1>2, <2>1
  <2> QED
    BY <2>1, <2>2
<1>4. N - m \in S
  OBVIOUS
<1>5. \E x \in S : \A y \in S : x >= y
  BY <1>3, <1>4
<1>6. Max(S) \in S /\ \A y \in S : Max(S) >= y
  BY <1>5, Zenon DEF Max
<1> QED
  BY <1>6

\* What TrimSpace leaves, and where: behind the first a runes.
TrimsAt(t, a) ==
  /\ In(TrimSpace(t), t, a)
  /\ \A x \in 1 .. Len(t) : t[x] \in White \/ (a < x /\ x <= a + Len(TrimSpace(t)))
  /\ 0 < Len(TrimSpace(t)) => t[a + 1] \notin White
  /\ t # <<>> /\ t[1] \notin White => a = 0

LEMMA TrimIs ==
  ASSUME NEW V, NEW t \in Seq(V)
  PROVE  TrimSpace(t) \in Seq(V) /\ \E a : TrimsAt(t, a)
<1> DEFINE ink == {i \in DOMAIN t : t[i] \notin White}
<1>1. Len(t) \in Nat /\ DOMAIN t = 1 .. Len(t)
  OBVIOUS
<1>2. CASE ink = {}
  <2>1. TrimSpace(t) = <<>> /\ <<>> \in Seq(V) /\ Len(<<>>) = 0
    BY <1>2, Zenon, EmptySeq DEF TrimSpace
  <2>2. \A x \in 1 .. Len(t) : t[x] \in White
    BY <1>1, <1>2
  <2>3. ~(t # <<>> /\ t[1] \notin White)
    <3>1. t # <<>> => 1 \in 1 .. Len(t)
      BY <1>1
    <3> QED
      BY <2>2, <3>1
  <2>4. In(<<>>, t, 0)
    BY <1>1, <2>1 DEF In
  <2>5. TrimsAt(t, 0)
    BY <2>1, <2>2, <2>3, <2>4 DEF TrimsAt
  <2> QED
    BY <2>1, <2>5
<1>3. CASE ink # {}
  <2> DEFINE m == Min(ink)
             n == Max(ink)
             s == TrimSpace(t)
  <2>1. ink \in SUBSET Nat /\ ink \in SUBSET (1 .. Len(t))
    BY <1>1
  <2>2. m \in ink /\ \A i \in ink : m <= i
    BY <1>3, <2>1, MinIs
  <2>3. n \in ink /\ \A i \in ink : i <= n
    BY <1>1, <1>3, <2>1, MaxIs
  <2>4. s = SubSeq(t, m, n)
    BY <1>3, Zenon DEF TrimSpace
  <2>5. \A x \in 1 .. Len(t) : t[x] \notin White => m <= x /\ x <= n
    BY <1>1, <2>2, <2>3
  <2>6. m \in 1 .. Len(t) /\ n \in 1 .. Len(t) /\ m <= n /\ t[m] \notin White
    BY <1>1, <2>2, <2>3
  <2> HIDE DEF ink, m, n, s
  <2>7. m \in Nat \ {0} /\ n \in Nat /\ m <= n + 1 /\ n <= Len(t) /\ m - 1 \in Nat /\ m - 1 + 1 = m
    BY <1>1, <2>6
  <2>8. s \in Seq(V) /\ Len(s) = n - m + 1
    BY <2>4, <2>7, PartIs
  <2>9. In(s, t, m - 1)
    BY <2>4, <2>7, PartIn
  <2>10. ASSUME NEW x \in 1 .. Len(t) PROVE t[x] \in White \/ (m - 1 < x /\ x <= m - 1 + Len(s))
    BY <1>1, <2>5, <2>6, <2>8
  <2>11. t # <<>> /\ t[1] \notin White => m - 1 = 0
    <3>1. t # <<>> => 1 \in 1 .. Len(t)
      BY <1>1
    <3>2. t # <<>> /\ t[1] \notin White => m <= 1
      BY <2>5, <3>1
    <3> QED
      BY <2>7, <3>2
  <2>12. TrimsAt(t, m - 1)
    BY <2>6, <2>7, <2>9, <2>10, <2>11 DEF TrimsAt, s
  <2> QED
    BY <2>8, <2>12 DEF s
<1> QED
  BY <1>2, <1>3

-----------------------------------------------------------------------------
(***************************************************************************)
(* Joined pieces.                                                          *)
(***************************************************************************)
LEMMA TextConcat ==
  ASSUME NEW s \in Texts, NEW t \in Texts
  PROVE  /\ s \o t \in Texts /\ Len(s \o t) = Len(s) + Len(t) /\ Len(s) \in Nat /\ Len(t) \in Nat
         /\ s \o <<>> = s /\ <<>> \o s = s /\ <<>> \in Texts
         /\ In(s, s \o t, 0) /\ In(t, s \o t, Len(s))
<1> DEFINE u == s \o t
<1>1. s \in Seq(DOMAIN Width) /\ t \in Seq(DOMAIN Width)
  BY DEF Texts
<1>2. /\ u \in Seq(DOMAIN Width) /\ Len(u) = Len(s) + Len(t)
      /\ \A n \in 1 .. Len(s) : u[n] = s[n]
      /\ \A n \in 1 .. Len(t) : u[Len(s) + n] = t[n]
  BY <1>1, ConcatIs
<1>3. Len(s) \in Nat /\ Len(t) \in Nat
  BY <1>1
<1>4. s \o <<>> = s /\ <<>> \o s = s /\ <<>> \in Seq(DOMAIN Width)
  BY <1>1, ConcatEmptySeq, EmptySeq
<1> HIDE DEF u
<1>5. In(s, u, 0)
  <2>1. \A n \in 1 .. Len(s) : 0 + n = n
    BY <1>3
  <2> QED
    BY <1>2, <1>3, <2>1 DEF In
<1>6. In(t, u, Len(s))
  BY <1>2, <1>3 DEF In
<1> QED
  BY <1>2, <1>3, <1>4, <1>5, <1>6 DEF Texts, u

LEMMA JoinedSteps ==
  ASSUME NEW ps \in Seq(Texts), NEW g \in Texts
  PROVE  \E f : /\ f \in [0 .. Len(ps) -> Texts] /\ f[0] = <<>>
                /\ Len(ps) > 0 => f[1] = ps[1]
                /\ \A n \in 2 .. Len(ps) : f[n] = f[n - 1] \o g \o ps[n]
                /\ Joined(ps, g) = f[Len(ps)]
<1> DEFINE N == Len(ps)
           step == [x \in (1 .. N) \X Texts |-> IF x[1] = 1 THEN ps[1] ELSE x[2] \o g \o ps[x[1]]]
           Body(f) == [n \in 0 .. N |->
                         IF n < 2 THEN IF n = 0 THEN <<>> ELSE ps[1] ELSE f[n - 1] \o g \o ps[n]]
<1>1. N \in Nat /\ <<>> \in Texts /\ \A i \in 1 .. N : ps[i] \in Texts
  BY TextConcat
<1>2. step \in [(1 .. N) \X Texts -> Texts]
  <2>1. ASSUME NEW x \in (1 .. N) \X Texts
        PROVE  (IF x[1] = 1 THEN ps[1] ELSE x[2] \o g \o ps[x[1]]) \in Texts
    <3>1. x[2] \in Texts /\ ps[x[1]] \in Texts /\ x[1] \in 1 .. N
      BY <1>1
    <3>2. x[1] = 1 => ps[1] \in Texts
      BY <3>1
    <3>3. x[2] \o g \in Texts
      BY <3>1, TextConcat
    <3>4. x[2] \o g \o ps[x[1]] \in Texts
      BY <3>1, <3>3, TextConcat
    <3> QED
      BY <3>2, <3>4
  <2> QED
    BY <2>1
<1>3. \A n \in 1 .. N, r \in Texts : step[<<n, r>>] = IF n = 1 THEN ps[1] ELSE r \o g \o ps[n]
  OBVIOUS
<1> HIDE DEF step
<1>4. PICK f : Iterates(f, N, Texts, <<>>, step)
  BY <1>1, <1>2, Recursion, Zenon
<1>5. f \in [0 .. N -> Texts] /\ f[0] = <<>>
  BY <1>4 DEF Iterates
<1>6. ASSUME NEW n \in 1 .. N PROVE f[n] = IF n = 1 THEN ps[1] ELSE f[n - 1] \o g \o ps[n]
  <2>1. n - 1 \in 0 .. N
    BY <1>1
  <2>2. f[n - 1] \in Texts /\ f[n] = step[<<n, f[n - 1]>>]
    BY <1>4, <1>5, <2>1 DEF Iterates
  <2> QED
    BY <1>3, <2>2
<1> DEFINE h == CHOOSE e : e = Body(e)
<1>7. f = Body(f)
  <2>1. ASSUME NEW n \in 0 .. N PROVE f[n] = Body(f)[n]
    <3>1. CASE n = 0
      BY <1>5, <3>1
    <3>2. CASE n = 1
      BY <1>6, <3>2
    <3>3. CASE n \notin {0, 1}
      <4>1. n \in 1 .. N /\ n # 1 /\ ~(n < 2)
        BY <1>1, <3>3
      <4> QED
        BY <1>6, <4>1
    <3> QED
      BY <3>1, <3>2, <3>3
  <2> QED
    BY <1>5, <2>1
<1>8. h = Body(h)
  <2>1. \E e : e = Body(e)
    BY <1>7
  <2> HIDE DEF Body
  <2> QED
    BY <2>1
<1>9. Joined(ps, g) = h[N]
  BY Zenon DEF Joined
<1> HIDE DEF h
<1>10. ASSUME NEW n \in 1 .. N, h[n - 1] = f[n - 1] PROVE h[n] = f[n]
  <2>1. n \in 0 .. N /\ n # 0
    BY <1>1
  <2>2. h[n] = IF n < 2 THEN ps[1] ELSE h[n - 1] \o g \o ps[n]
    BY <1>8, <2>1
  <2>3. n < 2 <=> n = 1
    BY <2>1
  <2> QED
    BY <1>6, <1>10, <2>2, <2>3
<1>11. h[0] = f[0]
  <2>1. 0 \in 0 .. N
    BY <1>1
  <2> QED
    BY <1>5, <1>8, <2>1
<1> HIDE DEF Body
<1>12. h[N] = f[N]
  BY <1>1, <1>10, <1>11, OneRecursion
<1>13. \A n \in 2 .. N : n \in 1 .. N /\ n # 1
  BY <1>1
<1>14. N > 0 => 1 \in 1 .. N
  BY <1>1
<1> QED
  BY <1>5, <1>6, <1>9, <1>12, <1>13, <1>14

LEMMA JoinedIs ==
  ASSUME NEW ps \in Seq(Texts), NEW g \in Texts
  PROVE  Joined(ps, g) \in Texts /\ Len(Joined(ps, g)) \in Nat
<1>1. PICK f : f \in [0 .. Len(ps) -> Texts] /\ Joined(ps, g) = f[Len(ps)]
  BY JoinedSteps
<1>2. Len(ps) \in 0 .. Len(ps)
  OBVIOUS
<1>3. Joined(ps, g) \in Texts
  BY <1>1, <1>2
<1> QED
  BY <1>3, TextConcat

LEMMA JoinedNone ==
  ASSUME NEW g \in Texts
  PROVE  Joined(<<>>, g) = <<>>
<1>1. <<>> \in Seq(Texts) /\ Len(<<>>) = 0
  OBVIOUS
<1>2. PICK f : f[0] = <<>> /\ Joined(<<>>, g) = f[Len(<<>>)]
  BY <1>1, JoinedSteps
<1> QED
  BY <1>1, <1>2

LEMMA JoinedOne ==
  ASSUME NEW x \in Texts, NEW g \in Texts
  PROVE  Joined(<<x>>, g) = x
<1>1. <<x>> \in Seq(Texts) /\ Len(<<x>>) = 1 /\ Len(<<x>>) > 0 /\ <<x>>[1] = x
  OBVIOUS
<1>2. PICK f : (Len(<<x>>) > 0 => f[1] = <<x>>[1]) /\ Joined(<<x>>, g) = f[Len(<<x>>)]
  BY <1>1, JoinedSteps
<1> QED
  BY <1>1, <1>2

\* One more piece behind what is joined already.
Glued(j, g, x) == j \o (g \o x)

LEMMA JoinedAppend ==
  ASSUME NEW ps \in Seq(Texts), ps # <<>>, NEW x \in Texts, NEW g \in Texts
  PROVE  Joined(Append(ps, x), g) = Glued(Joined(ps, g), g, x)
<1> DEFINE qs == Append(ps, x)
           N  == Len(ps)
<1>1. /\ qs \in Seq(Texts) /\ Len(qs) = N + 1 /\ N \in Nat /\ N > 0 /\ qs[N + 1] = x
      /\ \A n \in 1 .. N : qs[n] = ps[n]
  <2>1. Len(ps) \in Nat /\ Len(ps) # 0
    OBVIOUS
  <2> QED
    BY <2>1, AppendProperties
<1> HIDE DEF qs
<1>2. PICK f : /\ f \in [0 .. N -> Texts] /\ f[0] = <<>> /\ (N > 0 => f[1] = ps[1])
               /\ \A n \in 2 .. N : f[n] = f[n - 1] \o g \o ps[n]
               /\ Joined(ps, g) = f[N]
  BY JoinedSteps
<1>3. PICK h : /\ h[0] = <<>> /\ (Len(qs) > 0 => h[1] = qs[1])
               /\ \A n \in 2 .. Len(qs) : h[n] = h[n - 1] \o g \o qs[n]
               /\ Joined(qs, g) = h[Len(qs)]
  BY <1>1, JoinedSteps
<1>4. ASSUME NEW n \in 1 .. N, f[n - 1] = h[n - 1] PROVE f[n] = h[n]
  <2>1. CASE n = 1
    <3>1. Len(qs) > 0 /\ 1 \in 1 .. N
      BY <1>1
    <3> QED
      BY <1>1, <1>2, <1>3, <2>1, <3>1
  <2>2. CASE n # 1
    <3>1. n \in 2 .. N /\ n \in 2 .. Len(qs)
      BY <1>1, <2>2
    <3> QED
      BY <1>1, <1>2, <1>3, <1>4, <3>1
  <2> QED
    BY <2>1, <2>2
<1>5. f[N] = h[N]
  <2>1. N \in Nat /\ f[0] = h[0]
    BY <1>1, <1>2, <1>3
  <2> HIDE DEF N
  <2> QED
    BY <1>4, <2>1, OneRecursion
<1> DEFINE n0 == N + 1
<1>6. n0 \in 2 .. Len(qs) /\ n0 - 1 = N /\ n0 = N + 1 /\ n0 = Len(qs) /\ N \in 0 .. N
  BY <1>1
<1> HIDE DEF n0
<1>7. h[n0] = h[n0 - 1] \o g \o qs[n0]
  BY <1>3, <1>6
<1>8. f[N] \in Texts
  BY <1>2, <1>6
<1>9. f[N] \o g \o x = f[N] \o (g \o x)
  <2> DEFINE a == f[N]
             D == DOMAIN Width
  <2>1. a \in Seq(D) /\ g \in Seq(D) /\ x \in Seq(D)
    BY <1>8 DEF Texts
  <2> HIDE DEF a, D
  <2>2. (a \o g) \o x = a \o (g \o x)
    BY <2>1, ConcatAssociative, SMTT(60)
  <2> QED
    BY <2>2 DEF a
<1>10. Joined(qs, g) = Joined(ps, g) \o (g \o x)
  <2>1. h[n0 - 1] = f[N] /\ qs[n0] = x
    BY <1>1, <1>5, <1>6
  <2>2. h[n0] = f[N] \o g \o x
    BY <1>7, <2>1
  <2>3. Joined(qs, g) = h[n0] /\ Joined(ps, g) = f[N]
    BY <1>2, <1>3, <1>6
  <2> QED
    BY <1>9, <2>2, <2>3
<1> QED
  BY <1>10 DEF qs, Glued

\* j is the end of p, from the rune behind the first c runes on.
Ends(j, p, c) == In(j, p, c) /\ c + Len(j) = Len(p)

LEMMA EndsIs ==
  ASSUME NEW j \in Texts, NEW p \in Texts
  PROVE  /\ Ends(j, j, 0) /\ Ends(<<>>, p, Len(p)) /\ Ends(p, j \o p, Len(j))
         /\ \A c : Ends(j, p, c) => c \in Nat /\ c <= Len(p) /\ c + Len(j) = Len(p)
<1>1. Len(j) \in Nat /\ Len(p) \in Nat /\ Len(j \o p) = Len(j) + Len(p) /\ In(p, j \o p, Len(j))
  BY TextConcat
<1>2. Ends(j, j, 0)
  <2>1. \A n \in 1 .. Len(j) : 0 + n = n
    BY <1>1
  <2> QED
    BY <1>1, <2>1 DEF Ends, In
<1>3. Ends(<<>>, p, Len(p))
  BY <1>1 DEF Ends, In
<1>4. Ends(p, j \o p, Len(j))
  BY <1>1 DEF Ends
<1>5. \A c : Ends(j, p, c) => c \in Nat /\ c <= Len(p) /\ c + Len(j) = Len(p)
  BY <1>1 DEF Ends, In
<1> QED
  BY <1>2, <1>3, <1>4, <1>5

LEMMA EndsEnds ==
  ASSUME NEW i \in Texts, NEW j \in Texts, NEW p \in Texts, NEW a, NEW b, Ends(i, j, a), Ends(j, p, b)
  PROVE  Ends(i, p, b + a)
<1>1. In(i, p, b + a)
  <2>1. i \in Seq(DOMAIN Width) /\ j \in Seq(DOMAIN Width) /\ p \in Seq(DOMAIN Width)
    BY DEF Texts
  <2>2. In(i, j, a) /\ In(j, p, b)
    BY DEF Ends
  <2> QED
    BY <2>1, <2>2, InIn
<1>2. /\ a \in Nat /\ a + Len(i) = Len(j) /\ b \in Nat /\ b + Len(j) = Len(p)
      /\ Len(i) \in Nat /\ Len(j) \in Nat /\ Len(p) \in Nat
  BY EndsIs, TextConcat
<1>3. b + a + Len(i) = Len(p)
  BY <1>2
<1> QED
  BY <1>1, <1>3 DEF Ends

\* What is appended to a text is appended to its end.
LEMMA EndsAppend ==
  ASSUME NEW j \in Texts, NEW p \in Texts, NEW y \in Texts, NEW c, Ends(j, p, c)
  PROVE  Ends(j \o y, p \o y, c)
<1> DEFINE jy == j \o y
           py == p \o y
           D  == DOMAIN Width
<1>1. /\ Len(j) \in Nat /\ Len(p) \in Nat /\ Len(y) \in Nat
      /\ c \in Nat /\ c + Len(j) = Len(p)
  BY EndsIs, TextConcat
<1>2. j \in Seq(D) /\ p \in Seq(D) /\ y \in Seq(D)
  BY DEF Texts
<1>3. /\ Len(jy) = Len(j) + Len(y) /\ Len(py) = Len(p) + Len(y)
      /\ \A n \in 1 .. Len(j) : jy[n] = j[n]
      /\ \A n \in 1 .. Len(y) : jy[Len(j) + n] = y[n]
      /\ \A n \in 1 .. Len(jy) : n \in 1 .. Len(j) \/ \E m \in 1 .. Len(y) : n = Len(j) + m
  BY <1>2, ConcatIs
<1>4. /\ \A n \in 1 .. Len(p) : py[n] = p[n]
      /\ \A n \in 1 .. Len(y) : py[Len(p) + n] = y[n]
  BY <1>2, ConcatIs
<1> HIDE DEF jy, py
<1>5. ASSUME NEW n \in 1 .. Len(jy) PROVE jy[n] = py[c + n]
  <2>1. CASE n \in 1 .. Len(j)
    <3>1. j[n] = p[c + n]
      BY <2>1 DEF Ends, In
    <3>2. c + n \in 1 .. Len(p)
      BY <1>1, <2>1
    <3> QED
      BY <1>3, <1>4, <2>1, <3>1, <3>2
  <2>2. CASE n \notin 1 .. Len(j)
    <3>1. PICK m \in 1 .. Len(y) : n = Len(j) + m
      BY <1>3, <2>2
    <3>2. c + n = Len(p) + m
      BY <1>1, <3>1
    <3> QED
      BY <1>3, <1>4, <3>1, <3>2
  <2> QED
    BY <2>1, <2>2
<1>6. c + Len(jy) = Len(py) /\ c + Len(jy) <= Len(py)
  <2>1. Len(jy) = Len(j) + Len(y) /\ Len(py) = Len(p) + Len(y)
    BY <1>3
  <2> QED
    BY <1>1, <2>1
<1>7. Ends(jy, py, c)
  <2>1. In(jy, py, c)
    BY <1>1, <1>5, <1>6 DEF In
  <2> QED
    BY <1>6, <2>1 DEF Ends
<1> QED
  BY <1>7 DEF jy, py

LEMMA PartGrows ==
  ASSUME NEW V, NEW ps \in Seq(V), NEW m \in Nat \ {0}, NEW k \in Nat, m <= k, k < Len(ps)
  PROVE  /\ SubSeq(ps, m, k) \in Seq(V) /\ SubSeq(ps, m, k) # <<>> /\ ps[k + 1] \in V
         /\ SubSeq(ps, m, k + 1) = Append(SubSeq(ps, m, k), ps[k + 1])
<1>1. Len(ps) \in Nat /\ m \in 1 .. Len(ps) /\ k + 1 \in m .. Len(ps) /\ k + 1 - 1 = k /\ k + 1 \in 1 .. Len(ps)
  OBVIOUS
<1>2. SubSeq(ps, m, k) \in Seq(V) /\ Len(SubSeq(ps, m, k)) = k - m + 1 /\ ps[k + 1] \in V
  <2>1. m <= k + 1 /\ k <= Len(ps)
    BY <1>1
  <2> QED
    BY <1>1, <2>1, PartIs
<1>3. SubSeq(ps, m, k + 1) = SubSeq(ps, m, k + 1 - 1) \o <<ps[k + 1]>>
  BY <1>1, SubSeqRecursiveSecond
<1>4. SubSeq(ps, m, k) # <<>>
  BY <1>2
<1>5. Append(SubSeq(ps, m, k), ps[k + 1]) = SubSeq(ps, m, k) \o <<ps[k + 1]>>
  BY <1>2, AppendIsConcat
<1> QED
  BY <1>1, <1>2, <1>3, <1>4, <1>5

\* The last pieces joined are the end of all joined.
LEMMA LastJoined ==
  ASSUME NEW ps \in Seq(Texts), NEW g \in Texts, NEW n \in 0 .. Len(ps)
  PROVE  /\ SubSeq(ps, n + 1, Len(ps)) \in Seq(Texts)
         /\ \E c : Ends(Joined(SubSeq(ps, n + 1, Len(ps)), g), Joined(ps, g), c)
<1> DEFINE L == Len(ps)
<1>1. L \in Nat /\ n \in Nat /\ n + 1 \in Nat \ {0}
  OBVIOUS
<1>2. SubSeq(ps, n + 1, L) \in Seq(Texts)
  BY <1>1, PartIs
<1>3. CASE n = L
  <2>1. SubSeq(ps, n + 1, L) = <<>>
    BY <1>1, <1>3, SubSeqEmpty
  <2>2. Joined(SubSeq(ps, n + 1, L), g) = <<>>
    BY <2>1, JoinedNone
  <2>3. Ends(<<>>, Joined(ps, g), Len(Joined(ps, g)))
    BY JoinedIs, EndsIs, TextConcat
  <2> QED
    BY <1>2, <2>2, <2>3
<1>4. CASE n # L
  <2> DEFINE q(k) == SubSeq(ps, n + 1, n + 1 + k)
             p(k) == SubSeq(ps, 1, n + 1 + k)
             N == L - n - 1
             S == {k \in 0 .. N : \E c : Ends(Joined(q(k), g), Joined(p(k), g), c)}
  <2>1. N \in Nat /\ n + 1 + N = L /\ 0 \in 0 .. N /\ N \in 0 .. N
    BY <1>1, <1>4
  <2>2. 0 \in S
    <3> DEFINE x == ps[n + 1]
    <3>1. n + 1 + 0 = n + 1 /\ n + 1 \in 1 .. L
      BY <1>1, <1>4
    <3>2. x \in Texts
      BY <3>1
    <3>3. q(0) = <<x>>
      <4>1. n + 1 \in 1 .. L /\ n + 1 \in n + 1 .. L /\ n + 1 - 1 \in Int /\ n + 1 - 1 < n + 1
        BY <1>1, <3>1
      <4>2. SubSeq(ps, n + 1, n + 1) = SubSeq(ps, n + 1, n + 1 - 1) \o <<x>>
        BY <4>1, SubSeqRecursiveSecond
      <4>3. SubSeq(ps, n + 1, n + 1 - 1) = <<>>
        BY <4>1, SubSeqEmpty
      <4>4. <<>> \o <<x>> = <<x>>
        <5>1. <<x>> \in Seq(Texts)
          BY <3>2
        <5> QED
          BY <5>1, ConcatEmptySeq
      <4> QED
        BY <3>1, <4>2, <4>3, <4>4
    <3>4. Joined(q(0), g) = x
      BY <3>2, <3>3, JoinedOne
    <3>5. CASE n = 0
      <4>1. p(0) = q(0)
        BY <3>5
      <4>2. Ends(x, x, 0)
        BY <3>2, EndsIs
      <4> QED
        BY <2>1, <3>4, <4>1, <4>2
    <3>6. CASE n # 0
      <4> DEFINE r == SubSeq(ps, 1, n)
      <4>1. 1 \in Nat \ {0} /\ 1 <= n /\ n < L
        BY <1>1, <1>4, <3>6
      <4>2. r \in Seq(Texts) /\ r # <<>> /\ p(0) = Append(r, x)
        <5>1. r \in Seq(Texts) /\ r # <<>> /\ SubSeq(ps, 1, n + 1) = Append(r, x)
          BY <1>1, <4>1, PartGrows
        <5> QED
          BY <3>1, <5>1
      <4> HIDE DEF r, x
      <4>3. Joined(p(0), g) = Joined(r, g) \o (g \o x)
        <5>1. Joined(Append(r, x), g) = Glued(Joined(r, g), g, x)
          BY <3>2, <4>2, JoinedAppend
        <5> QED
          BY <4>2, <5>1 DEF Glued
      <4> DEFINE j == Joined(r, g)
                 y == g \o x
      <4>4. j \in Texts /\ y \in Texts
        BY <3>2, <4>2, JoinedIs, TextConcat
      <4>5. Ends(x, y, Len(g))
        BY <3>2, EndsIs
      <4> HIDE DEF j, y
      <4>6. Ends(y, j \o y, Len(j)) /\ j \o y \in Texts
        BY <4>4, EndsIs, TextConcat
      <4>7. Ends(x, j \o y, Len(j) + Len(g))
        BY <3>2, <4>4, <4>5, <4>6, EndsEnds
      <4> QED
        BY <2>1, <3>4, <4>3, <4>7 DEF j, y
    <3> QED
      BY <3>5, <3>6
  <2>3. ASSUME NEW k \in 1 .. N, k - 1 \in S PROVE k \in S
    <3> DEFINE e == n + 1 + (k - 1)
               x == ps[e + 1]
    <3>1. /\ e \in Nat /\ n + 1 <= e /\ 1 <= e /\ e < L /\ e + 1 = n + 1 + k /\ k \in 0 .. N
      BY <1>1
    <3>2. PICK c : Ends(Joined(q(k - 1), g), Joined(p(k - 1), g), c)
      BY <2>3
    <3>3. /\ q(k - 1) \in Seq(Texts) /\ q(k - 1) # <<>> /\ x \in Texts
          /\ q(k) = Append(q(k - 1), x)
      <4>1. /\ SubSeq(ps, n + 1, e) \in Seq(Texts) /\ SubSeq(ps, n + 1, e) # <<>> /\ ps[e + 1] \in Texts
            /\ SubSeq(ps, n + 1, e + 1) = Append(SubSeq(ps, n + 1, e), ps[e + 1])
        <5> HIDE DEF e
        <5> QED
          BY <1>1, <3>1, PartGrows
      <4> QED
        BY <3>1, <4>1
    <3>4. /\ p(k - 1) \in Seq(Texts) /\ p(k - 1) # <<>> /\ p(k) = Append(p(k - 1), x)
      <4>1. /\ SubSeq(ps, 1, e) \in Seq(Texts) /\ SubSeq(ps, 1, e) # <<>>
            /\ SubSeq(ps, 1, e + 1) = Append(SubSeq(ps, 1, e), ps[e + 1])
        <5>1. 1 \in Nat \ {0}
          OBVIOUS
        <5> HIDE DEF e
        <5> QED
          BY <3>1, <5>1, PartGrows
      <4> QED
        BY <3>1, <4>1
    <3> DEFINE qk == q(k - 1)
               pk == p(k - 1)
               y  == g \o x
    <3> HIDE DEF x, e
    <3>5. Joined(q(k), g) = Joined(qk, g) \o y /\ Joined(p(k), g) = Joined(pk, g) \o y
      <4>1. /\ qk \in Seq(Texts) /\ qk # <<>> /\ x \in Texts /\ q(k) = Append(qk, x)
            /\ pk \in Seq(Texts) /\ pk # <<>> /\ p(k) = Append(pk, x)
        BY <3>3, <3>4
      <4> HIDE DEF qk, pk, q, p
      <4>2. Joined(Append(qk, x), g) = Glued(Joined(qk, g), g, x)
        BY <4>1, JoinedAppend
      <4>3. Joined(Append(pk, x), g) = Glued(Joined(pk, g), g, x)
        BY <4>1, JoinedAppend
      <4> QED
        BY <4>1, <4>2, <4>3 DEF Glued
    <3>6. y \in Texts /\ Joined(qk, g) \in Texts /\ Joined(pk, g) \in Texts
      BY <3>3, <3>4, JoinedIs, TextConcat
    <3> HIDE DEF qk, pk, y
    <3>7. Ends(Joined(qk, g) \o y, Joined(pk, g) \o y, c)
      BY <3>2, <3>6, EndsAppend DEF qk, pk
    <3> QED
      BY <3>1, <3>5, <3>7
  <2>4. N \in S
    <3> HIDE DEF S
    <3>1. \A k \in 0 .. N : k \in S
      BY <2>1, <2>2, <2>3, UpTo
    <3> QED
      BY <2>1, <3>1
  <2>5. p(N) = ps
    BY <2>1, SubSeqFull
  <2> QED
    BY <1>2, <2>1, <2>4, <2>5
<1> QED
  BY <1>3, <1>4

-----------------------------------------------------------------------------
(***************************************************************************)
(* Chunks that lie in a text, leave out only what may be lost, and do not  *)
(* overlap unless an overlap is configured.                                *)
(***************************************************************************)
\* The runes that no chunk has to hold.
Lossy(r, o) == r \in White \/ (~o.keep /\ \E s \in ToSet(Separators) : r \in ToSet(s))

\* The lengths that a chunk may have.
Fits(c, o) == \E s \in ToSet(Separators) : Len(c) <= o.size + Slack(s, o)

Lies(c, a, p, lo, hi, o) ==
  /\ c # <<>> /\ In(c, p, a) /\ a \in Nat /\ Len(c) \in Nat
  /\ lo <= a /\ a + Len(c) <= hi /\ Fits(c, o)

Covered(x, at, r) == \E i \in 1 .. Len(r) : at[i] < x /\ x <= at[i] + Len(r[i])

InOrder(at, r) == \A i \in 1 .. Len(r), j \in 1 .. Len(r) : i < j => at[i] + Len(r[i]) <= at[j]

Tiles(at, r, p, lo, hi, o) ==
  /\ \A i \in 1 .. Len(r) : Lies(r[i], at[i], p, lo, hi, o)
  /\ \A x \in lo + 1 .. hi : Lossy(p[x], o) \/ Covered(x, at, r)
  /\ o.overlap = 0 => InOrder(at, r)

Placed(at, r) == at \in Seq(Nat) /\ Len(at) = Len(r) /\ r \in Seq(Texts)

\* r tiles p from behind the first lo runes to the first hi.
Tiled(r, p, lo, hi, o) == \E at : Placed(at, r) /\ Tiles(at, r, p, lo, hi, o)

LEMMA NothingTiled ==
  ASSUME NEW p, NEW lo, NEW hi, NEW o, \A x \in lo + 1 .. hi : Lossy(p[x], o)
  PROVE  Tiled(<<>>, p, lo, hi, o)
<1>1. Placed(<<>>, <<>>) /\ 1 .. Len(<<>>) = {}
  BY DEF Placed
<1>2. Tiles(<<>>, <<>>, p, lo, hi, o)
  BY <1>1 DEF Tiles, InOrder
<1> QED
  BY <1>1, <1>2 DEF Tiled

LEMMA OneTiled ==
  ASSUME NEW p, NEW lo, NEW hi, NEW o, NEW d \in Texts, NEW a,
         Lies(d, a, p, lo, hi, o),
         \A x \in lo + 1 .. hi : Lossy(p[x], o) \/ (a < x /\ x <= a + Len(d))
  PROVE  Tiled(<<d>>, p, lo, hi, o)
<1>1. /\ Placed(<<a>>, <<d>>) /\ 1 .. Len(<<d>>) = {1} /\ 1 \in 1 .. Len(<<d>>)
      /\ <<a>>[1] = a /\ <<d>>[1] = d
  <2>1. a \in Nat
    BY DEF Lies
  <2> QED
    BY <2>1 DEF Placed
<1>2. InOrder(<<a>>, <<d>>)
  <2>1. \A i \in {1}, j \in {1} : ~(i < j)
    OBVIOUS
  <2> QED
    BY <1>1, <2>1 DEF InOrder
<1>3. \A x \in lo + 1 .. hi : Lossy(p[x], o) \/ Covered(x, <<a>>, <<d>>)
  BY <1>1 DEF Covered
<1>4. Tiles(<<a>>, <<d>>, p, lo, hi, o)
  BY <1>1, <1>2, <1>3 DEF Tiles
<1> QED
  BY <1>1, <1>4 DEF Tiled

\* What tiles a part tiles the whole, where the part is.
LEMMA TiledMoves ==
  ASSUME NEW r, NEW q \in Texts, NEW p \in Texts, NEW lo \in Nat, NEW hi \in Nat, NEW o, NEW b,
         Tiled(r, q, lo, hi, o), In(q, p, b), hi <= Len(q)
  PROVE  Tiled(r, p, b + lo, b + hi, o)
<1>1. PICK at : Placed(at, r) /\ Tiles(at, r, q, lo, hi, o)
  BY DEF Tiled
<1>2. /\ b \in Nat /\ \A n \in 1 .. Len(q) : q[n] = p[b + n]
  BY DEF In
<1>3. Len(q) \in Nat
  BY TextConcat
<1>4. at \in Seq(Nat) /\ Len(at) = Len(r) /\ Len(r) \in Nat /\ r \in Seq(Texts)
  BY <1>1 DEF Placed
<1> DEFINE to == [i \in 1 .. Len(r) |-> b + at[i]]
<1>5. /\ to \in Seq(Nat) /\ Len(to) = Len(r)
      /\ \A i \in 1 .. Len(r) : to[i] = b + at[i] /\ at[i] \in Nat
  BY <1>2, <1>4, SMTT(60)
<1> HIDE DEF to
<1>6. ASSUME NEW i \in 1 .. Len(r) PROVE Lies(r[i], to[i], p, b + lo, b + hi, o)
  <2> DEFINE c == r[i]
             a == at[i]
  <2>1. c \in Texts
    BY <1>4
  <2>2. Lies(c, a, q, lo, hi, o)
    BY <1>1 DEF Tiles
  <2>3. to[i] = b + a
    BY <1>5
  <2> HIDE DEF c, a
  <2>4. In(c, p, b + a)
    <3>1. c \in Seq(DOMAIN Width) /\ q \in Seq(DOMAIN Width) /\ p \in Seq(DOMAIN Width)
      BY <2>1 DEF Texts
    <3>2. In(c, q, a)
      BY <2>2 DEF Lies
    <3> QED
      BY <3>1, <3>2, InIn
  <2>5. b + a \in Nat /\ b + lo <= b + a /\ b + a + Len(c) <= b + hi
    BY <1>2, <2>2 DEF Lies
  <2>6. Lies(c, b + a, p, b + lo, b + hi, o)
    BY <2>2, <2>4, <2>5 DEF Lies
  <2> QED
    BY <2>3, <2>6 DEF c
<1>7. ASSUME NEW x \in b + lo + 1 .. b + hi PROVE Lossy(p[x], o) \/ Covered(x, to, r)
  <2> DEFINE y == x - b
  <2>1. y \in lo + 1 .. hi /\ y \in 1 .. Len(q) /\ b + y = x
    BY <1>2, <1>3
  <2> HIDE DEF y
  <2>2. q[y] = p[x]
    BY <1>2, <2>1
  <2>3. CASE Covered(y, at, r)
    <3>1. PICK i \in 1 .. Len(r) : at[i] < y /\ y <= at[i] + Len(r[i])
      BY <2>3 DEF Covered
    <3>2. Len(r[i]) \in Nat /\ at[i] \in Nat /\ to[i] = b + at[i]
      BY <1>1, <1>5 DEF Tiles, Lies
    <3>3. to[i] < x /\ x <= to[i] + Len(r[i])
      BY <1>2, <2>1, <3>1, <3>2, SMTT(60)
    <3> QED
      BY <3>3 DEF Covered
  <2>4. CASE ~Covered(y, at, r)
    <3>1. Lossy(q[y], o)
      BY <1>1, <2>1, <2>4 DEF Tiles
    <3> QED
      BY <2>2, <3>1
  <2> QED
    BY <2>3, <2>4
<1>8. ASSUME o.overlap = 0 PROVE InOrder(to, r)
  <2>1. InOrder(at, r)
    BY <1>1, <1>8 DEF Tiles
  <2>2. ASSUME NEW i \in 1 .. Len(r), NEW j \in 1 .. Len(r), i < j PROVE to[i] + Len(r[i]) <= to[j]
    <3>1. at[i] + Len(r[i]) <= at[j]
      BY <2>1, <2>2 DEF InOrder
    <3>2. Len(r[i]) \in Nat
      BY <1>1 DEF Tiles, Lies
    <3>3. /\ at[i] \in Nat /\ to[i] = b + at[i]
          /\ at[j] \in Nat /\ to[j] = b + at[j]
      BY <1>5
    <3>4. b \in Nat
      BY <1>2
    <3> QED
      BY <3>1, <3>2, <3>3, <3>4, SMTT(60)
  <2> QED
    BY <2>2 DEF InOrder
<1>9. Tiles(to, r, p, b + lo, b + hi, o)
  BY <1>6, <1>7, <1>8 DEF Tiles
<1> QED
  BY <1>4, <1>5, <1>9 DEF Tiled, Placed

\* What tiles a text to m and what tiles it from c on, with nothing to keep between them.
LEMMA JoinTiles ==
  ASSUME NEW r, NEW s, NEW p, NEW lo \in Nat, NEW m \in Nat, NEW c \in Nat, NEW hi \in Nat, NEW o,
         Tiled(r, p, lo, m, o), Tiled(s, p, c, hi, o), lo <= c, m <= hi,
         \A x \in m + 1 .. c : Lossy(p[x], o),
         o.overlap = 0 => m <= c
  PROVE  Tiled(r \o s, p, lo, hi, o)
<1>1. PICK a : Placed(a, r) /\ Tiles(a, r, p, lo, m, o)
  BY DEF Tiled
<1>2. PICK b : Placed(b, s) /\ Tiles(b, s, p, c, hi, o)
  BY DEF Tiled
<1> DEFINE R == Len(r)
           S == Len(s)
           rs == r \o s
           ab == a \o b
<1>3. /\ a \in Seq(Nat) /\ Len(a) = R /\ r \in Seq(Texts) /\ R \in Nat
      /\ b \in Seq(Nat) /\ Len(b) = S /\ s \in Seq(Texts) /\ S \in Nat
  BY <1>1, <1>2 DEF Placed
<1>4. /\ rs \in Seq(Texts) /\ Len(rs) = R + S
      /\ \A i \in 1 .. R : i \in 1 .. R + S /\ rs[i] = r[i]
      /\ \A i \in 1 .. S : R + i \in 1 .. R + S /\ rs[R + i] = s[i]
      /\ \A i \in 1 .. R + S : i \in 1 .. R \/ \E k \in 1 .. S : i = R + k
  <2> HIDE DEF R, S
  <2>1. /\ rs \in Seq(Texts) /\ Len(rs) = Len(r) + Len(s)
        /\ \A i \in 1 .. Len(r) : i \in 1 .. Len(rs) /\ rs[i] = r[i]
        /\ \A i \in 1 .. Len(s) : Len(r) + i \in 1 .. Len(rs) /\ rs[Len(r) + i] = s[i]
        /\ \A i \in 1 .. Len(rs) : i \in 1 .. Len(r) \/ \E k \in 1 .. Len(s) : i = Len(r) + k
    BY <1>3, ConcatIs
  <2> HIDE DEF rs
  <2> QED
    BY <2>1 DEF R, S
<1>5. /\ ab \in Seq(Nat) /\ Len(ab) = R + S
      /\ \A i \in 1 .. R : ab[i] = a[i]
      /\ \A i \in 1 .. S : ab[R + i] = b[i]
  <2>1. /\ ab \in Seq(Nat) /\ Len(ab) = Len(a) + Len(b)
        /\ \A i \in 1 .. Len(a) : ab[i] = a[i]
        /\ \A i \in 1 .. Len(b) : ab[Len(a) + i] = b[i]
    <3>1. a \in Seq(Nat) /\ b \in Seq(Nat)
      BY <1>3
    <3> QED
      BY <3>1, ConcatIs
  <2> HIDE DEF ab, R, S
  <2> QED
    BY <1>3, <2>1
<1>6. ASSUME NEW i \in 1 .. R PROVE Lies(r[i], a[i], p, lo, m, o)
  BY <1>1 DEF Tiles
<1>7. ASSUME NEW i \in 1 .. S PROVE Lies(s[i], b[i], p, c, hi, o)
  BY <1>2 DEF Tiles
<1> HIDE DEF rs, ab
<1>8. Placed(ab, rs)
  BY <1>3, <1>4, <1>5 DEF Placed
<1> HIDE DEF R, S
<1>9. ASSUME NEW i \in 1 .. R + S PROVE Lies(rs[i], ab[i], p, lo, hi, o)
  <2>1. CASE i \in 1 .. R
    <3>1. Lies(r[i], a[i], p, lo, m, o) /\ rs[i] = r[i] /\ ab[i] = a[i]
      BY <1>4, <1>5, <1>6, <2>1
    <3>2. \A l, e \in Nat : e + l <= m => e + l <= hi
      OBVIOUS
    <3>3. Lies(r[i], a[i], p, lo, hi, o)
      BY <3>1, <3>2 DEF Lies
    <3> QED
      BY <3>1, <3>3
  <2>2. CASE i \notin 1 .. R
    <3>1. PICK k \in 1 .. S : i = R + k
      BY <1>4, <2>2
    <3>2. Lies(s[k], b[k], p, c, hi, o) /\ rs[i] = s[k] /\ ab[i] = b[k]
      BY <1>4, <1>5, <1>7, <3>1
    <3>3. \A e \in Nat : c <= e => lo <= e
      OBVIOUS
    <3>4. Lies(s[k], b[k], p, lo, hi, o)
      BY <3>2, <3>3 DEF Lies
    <3> QED
      BY <3>2, <3>4
  <2> QED
    BY <2>1, <2>2
<1>10. ASSUME NEW x \in lo + 1 .. hi PROVE Lossy(p[x], o) \/ Covered(x, ab, rs)
  <2>1. CASE Covered(x, a, r)
    <3>1. PICK i \in 1 .. R : a[i] < x /\ x <= a[i] + Len(r[i])
      BY <2>1 DEF Covered, R
    <3>2. i \in 1 .. Len(rs) /\ rs[i] = r[i] /\ ab[i] = a[i]
      BY <1>4, <1>5
    <3> QED
      BY <3>1, <3>2 DEF Covered
  <2>2. CASE Covered(x, b, s)
    <3>1. PICK i \in 1 .. S : b[i] < x /\ x <= b[i] + Len(s[i])
      BY <2>2 DEF Covered, S
    <3>2. R + i \in 1 .. Len(rs) /\ rs[R + i] = s[i] /\ ab[R + i] = b[i]
      BY <1>4, <1>5
    <3> QED
      BY <3>1, <3>2 DEF Covered
  <2>3. CASE ~Covered(x, a, r) /\ ~Covered(x, b, s)
    <3>1. x \in lo + 1 .. m \/ x \in m + 1 .. c \/ x \in c + 1 .. hi
      OBVIOUS
    <3>2. \A y \in lo + 1 .. m : Lossy(p[y], o) \/ Covered(y, a, r)
      BY <1>1 DEF Tiles
    <3>3. \A y \in c + 1 .. hi : Lossy(p[y], o) \/ Covered(y, b, s)
      BY <1>2 DEF Tiles
    <3> QED
      BY <2>3, <3>1, <3>2, <3>3
  <2> QED
    BY <2>1, <2>2, <2>3
<1>11. ASSUME o.overlap = 0 PROVE InOrder(ab, rs)
  <2>1. InOrder(a, r) /\ InOrder(b, s) /\ m <= c
    BY <1>1, <1>2, <1>11 DEF Tiles
  <2>2. ASSUME NEW i \in 1 .. R + S, NEW j \in 1 .. R + S, i < j PROVE ab[i] + Len(rs[i]) <= ab[j]
    <3>1. CASE j \in 1 .. R
      <4>1. i \in 1 .. R
        BY <1>3, <2>2, <3>1
      <4>2. a[i] + Len(r[i]) <= a[j]
        BY <2>1, <2>2, <3>1, <4>1 DEF InOrder, R
      <4> QED
        BY <1>4, <1>5, <3>1, <4>1, <4>2
    <3>2. CASE i \in 1 .. R /\ j \notin 1 .. R
      <4>1. PICK k \in 1 .. S : j = R + k
        BY <1>4, <3>2
      <4>2. ab[i] = a[i] /\ rs[i] = r[i] /\ ab[j] = b[k]
        BY <1>4, <1>5, <3>2, <4>1
      <4>3. a[i] \in Nat /\ Len(r[i]) \in Nat /\ a[i] + Len(r[i]) <= m
        BY <1>6, <3>2 DEF Lies
      <4>4. b[k] \in Nat /\ c <= b[k]
        BY <1>7 DEF Lies
      <4> QED
        BY <2>1, <4>2, <4>3, <4>4
    <3>3. CASE i \notin 1 .. R /\ j \notin 1 .. R
      <4>1. PICK k \in 1 .. S : j = R + k
        BY <1>4, <3>3
      <4>2. PICK l \in 1 .. S : i = R + l
        BY <1>4, <3>3
      <4>3. l < k
        BY <1>3, <2>2, <4>1, <4>2
      <4>4. b[l] + Len(s[l]) <= b[k]
        BY <2>1, <4>3 DEF InOrder, S
      <4> QED
        BY <1>4, <1>5, <4>1, <4>2, <4>4
    <3> QED
      BY <3>1, <3>2, <3>3
  <2> QED
    BY <1>4, <2>2 DEF InOrder
<1>12. Tiles(ab, rs, p, lo, hi, o)
  BY <1>4, <1>9, <1>10, <1>11 DEF Tiles
<1> QED
  BY <1>8, <1>12 DEF Tiled, rs

\* What the splitter puts between the pieces that it joins: nothing, or what may be lost.
Glue(g, o) == g \in Texts /\ (g = <<>> \/ (~o.keep /\ g \in ToSet(Separators)))

LEMMA GlueIsLost ==
  ASSUME NEW g, NEW o, Glue(g, o), NEW n \in 1 .. Len(g)
  PROVE  Lossy(g[n], o)
<1>1. g # <<>> /\ g[n] \in ToSet(g)
  <2>1. g \in Seq(DOMAIN Width)
    BY DEF Glue, Texts
  <2>2. n \in DOMAIN g
    BY <2>1
  <2> QED
    BY <2>2 DEF ToSet
<1> QED
  BY <1>1 DEF Glue, Lossy

(***************************************************************************)
(* r tiles the front of p, and j is the end of p that is not yet tiled.    *)
(***************************************************************************)
OpenAt(r, j, p, o, m, c) ==
  /\ m \in Nat /\ c \in Nat /\ m <= Len(p)
  /\ Tiled(r, p, 0, m, o) /\ Ends(j, p, c)
  /\ \A x \in m + 1 .. c : Lossy(p[x], o)
  /\ o.overlap = 0 => m <= c

Open(r, j, p, o) == \E m, c : OpenAt(r, j, p, o, m, c)

LEMMA OpenFirst ==
  ASSUME NEW o
  PROVE  Open(<<>>, <<>>, <<>>, o)
<1>1. <<>> \in Texts /\ Len(<<>>) = 0
  BY EmptySeq DEF Texts
<1>2. Ends(<<>>, <<>>, 0)
  BY <1>1, EndsIs
<1>3. 0 + 1 .. 0 = {}
  OBVIOUS
<1>4. Tiled(<<>>, <<>>, 0, 0, o)
  BY <1>3, NothingTiled
<1>5. OpenAt(<<>>, <<>>, <<>>, o, 0, 0)
  BY <1>1, <1>2, <1>3, <1>4 DEF OpenAt
<1> QED
  BY <1>5 DEF Open

LEMMA OpenExtend ==
  ASSUME NEW r, NEW j \in Texts, NEW p \in Texts, NEW y \in Texts, NEW o, Open(r, j, p, o)
  PROVE  Open(r, j \o y, p \o y, o)
<1>1. PICK m, c : OpenAt(r, j, p, o, m, c)
  BY DEF Open
<1> DEFINE py == p \o y
<1>2. /\ py \in Texts /\ Len(py) = Len(p) + Len(y) /\ Len(p) \in Nat /\ Len(y) \in Nat
      /\ In(p, py, 0)
  BY TextConcat
<1>3. Ends(j \o y, py, c)
  BY <1>1, EndsAppend DEF OpenAt
<1> HIDE DEF py
<1>4. m \in Nat /\ c \in Nat /\ m <= Len(py)
  BY <1>1, <1>2 DEF OpenAt
<1>5. Tiled(r, py, 0, m, o)
  <2>1. Tiled(r, p, 0, m, o) /\ 0 \in Nat /\ m <= Len(p)
    BY <1>1 DEF OpenAt
  <2>2. Tiled(r, py, 0 + 0, 0 + m, o)
    BY <1>2, <1>4, <2>1, TiledMoves
  <2>3. 0 + 0 = 0 /\ 0 + m = m
    BY <1>4
  <2> QED
    BY <2>2, <2>3
<1>6. ASSUME NEW x \in m + 1 .. c PROVE Lossy(py[x], o)
  <2>1. c <= Len(p)
    BY <1>1, EndsIs DEF OpenAt
  <2>2. x \in 1 .. Len(p) /\ 0 + x = x
    BY <1>2, <1>4, <2>1
  <2>3. p[x] = py[x]
    BY <1>2, <2>2 DEF In
  <2> QED
    BY <1>1, <2>3 DEF OpenAt
<1>7. OpenAt(r, j \o y, py, o, m, c)
  BY <1>1, <1>3, <1>4, <1>5, <1>6 DEF OpenAt
<1> QED
  BY <1>7 DEF Open, py

\* Another piece, behind its glue, when all before it is tiled.
LEMMA OpenRestart ==
  ASSUME NEW r, NEW p \in Texts, NEW o, NEW g, Glue(g, o), NEW x \in Texts, Tiled(r, p, 0, Len(p), o)
  PROVE  Open(r, x, Glued(p, g, x), o)
<1> DEFINE y  == g \o x
           py == p \o y
<1>1. g \in Texts /\ Len(g) \in Nat
  BY TextConcat DEF Glue
<1>2. y \in Texts /\ In(g, y, 0) /\ Ends(x, y, Len(g)) /\ Len(y) = Len(g) + Len(x)
  BY <1>1, TextConcat, EndsIs
<1> HIDE DEF y
<1>3. /\ py \in Texts /\ Len(py) = Len(p) + Len(y) /\ Len(p) \in Nat /\ Len(y) \in Nat
      /\ In(p, py, 0) /\ Ends(y, py, Len(p))
  BY <1>2, TextConcat, EndsIs
<1> HIDE DEF py
<1>4. Ends(x, py, Len(p) + Len(g))
  BY <1>2, <1>3, EndsEnds
<1>5. Tiled(r, py, 0, Len(p), o)
  <2>1. Tiled(r, py, 0 + 0, 0 + Len(p), o)
    <3>1. 0 \in Nat /\ Len(p) <= Len(p)
      BY <1>3
    <3> QED
      BY <1>3, <3>1, TiledMoves
  <2>2. 0 + 0 = 0 /\ 0 + Len(p) = Len(p)
    BY <1>3
  <2> QED
    BY <2>1, <2>2
<1>6. ASSUME NEW k \in Len(p) + 1 .. Len(p) + Len(g) PROVE Lossy(py[k], o)
  <2> DEFINE n == k - Len(p)
  <2>1. n \in 1 .. Len(g) /\ Len(p) + n = k /\ n \in 1 .. Len(y) /\ 0 + n = n
    <3>1. Len(x) \in Nat
      BY TextConcat
    <3> QED
      BY <1>1, <1>2, <1>3, <3>1
  <2> HIDE DEF n
  <2>2. g[n] = y[n]
    BY <1>2, <2>1 DEF In
  <2>3. y[n] = py[k]
    BY <1>3, <2>1 DEF Ends, In
  <2> QED
    BY <2>1, <2>2, <2>3, GlueIsLost
<1>7. Len(p) + Len(g) \in Nat /\ Len(p) <= Len(p) + Len(g) /\ Len(p) <= Len(py)
  BY <1>1, <1>3
<1>8. OpenAt(r, x, py, o, Len(p), Len(p) + Len(g))
  BY <1>3, <1>4, <1>5, <1>6, <1>7 DEF OpenAt
<1> QED
  BY <1>8 DEF Open, py, y, Glued

\* What is kept as the overlap; without an overlap that is nothing.
LEMMA OpenKeep ==
  ASSUME NEW r, NEW j \in Texts, NEW p \in Texts, NEW o, NEW c, Tiled(r, p, 0, Len(p), o), Ends(j, p, c),
         o.overlap = 0 => Len(j) = 0
  PROVE  Open(r, j, p, o)
<1>1. c \in Nat /\ c <= Len(p) /\ c + Len(j) = Len(p) /\ Len(p) \in Nat /\ Len(j) \in Nat
  BY EndsIs, TextConcat
<1>2. Len(p) + 1 .. c = {}
  BY <1>1
<1>3. o.overlap = 0 => Len(p) <= c
  BY <1>1
<1>4. OpenAt(r, j, p, o, Len(p), c)
  BY <1>1, <1>2, <1>3 DEF OpenAt
<1> QED
  BY <1>4 DEF Open

LEMMA OpenClose ==
  ASSUME NEW r, NEW j \in Texts, NEW p \in Texts, NEW o, NEW s,
         Open(r, j, p, o), Tiled(s, j, 0, Len(j), o)
  PROVE  Tiled(r \o s, p, 0, Len(p), o)
<1>1. PICK m, c : OpenAt(r, j, p, o, m, c)
  BY DEF Open
<1>2. /\ m \in Nat /\ c \in Nat /\ m <= Len(p) /\ c + Len(j) = Len(p) /\ 0 <= c
      /\ Len(p) \in Nat /\ Len(j) \in Nat /\ In(j, p, c) /\ Tiled(r, p, 0, m, o)
      /\ \A x \in m + 1 .. c : Lossy(p[x], o)
      /\ (o.overlap = 0 => m <= c)
  BY <1>1, TextConcat DEF OpenAt, Ends
<1>3. Tiled(s, p, c, Len(p), o)
  <2>1. 0 \in Nat /\ Len(j) <= Len(j)
    BY <1>2
  <2>2. Tiled(s, p, c + 0, c + Len(j), o)
    BY <1>2, <2>1, TiledMoves
  <2>3. c + 0 = c
    BY <1>2
  <2> QED
    BY <1>2, <2>2, <2>3
<1>4. 0 \in Nat
  OBVIOUS
<1> QED
  BY <1>2, <1>3, <1>4, JoinTiles

-----------------------------------------------------------------------------
(***************************************************************************)
(* The length of a chunk.                                                  *)
(***************************************************************************)
\* What mergeSplits collects for the next chunk.
Room(j, g, o) ==
  \/ Len(j) <= o.size
  \/ o.overlap > 0 /\ Len(j) <= o.size + Len(g)
  \/ \E x \in Texts : j = g \o x /\ Len(x) < o.size

LEMMA SizeFits ==
  ASSUME NEW o, IsOptions(o), NEW d, Len(d) <= o.size
  PROVE  Fits(d, o)
<1>1. o.size \in Nat /\ o.size + 0 = o.size
  BY DEF IsOptions
<1>2. Separators \in Seq(Texts) /\ Separators # <<>> /\ Separators[Len(Separators)] = <<>>
  BY SeparatorsAssumption
<1>3. <<>> \in ToSet(Separators)
  <2>1. Len(Separators) \in DOMAIN Separators
    BY <1>2
  <2> QED
    BY <1>2, <2>1 DEF ToSet
<1>4. Slack(<<>>, o) = 0
  <2>1. ToSet(<<>>) \subseteq White /\ Len(<<>>) = 0
    BY DEF ToSet
  <2> QED
    BY <2>1 DEF Slack
<1> QED
  BY <1>1, <1>3, <1>4 DEF Fits

LEMMA RoomFits ==
  ASSUME NEW o, IsOptions(o), NEW g, Glue(g, o), NEW j \in Texts, Room(j, g, o)
  PROVE  Fits(TrimSpace(j), o)
<1> DEFINE d == TrimSpace(j)
<1>1. PICK a : TrimsAt(j, a)
  BY TrimIs DEF Texts
<1>2. d \in Texts
  BY TrimIs DEF Texts
<1>3. In(d, j, a)
  BY <1>1 DEF TrimsAt
<1>4. a \in Nat /\ a + Len(d) <= Len(j) /\ Len(d) \in Nat /\ Len(j) \in Nat
  BY <1>2, <1>3, TextConcat DEF In
<1>5. o.size \in Nat /\ o.overlap \in Nat
  BY DEF IsOptions
<1>7. Len(d) <= o.size => Fits(d, o)
  BY SizeFits
<1>8. Len(g) \in Nat /\ g \in Texts
  BY TextConcat DEF Glue
<1>9. CASE g = <<>>
  <2>1. Len(g) = 0
    BY <1>9
  <2>2. ASSUME NEW x \in Texts, j = g \o x, Len(x) < o.size PROVE Len(j) <= o.size
    <3>1. j = x
      BY <1>9, <2>2, TextConcat
    <3> QED
      BY <1>5, <2>2, <3>1
  <2>3. Len(j) <= o.size
    BY <1>5, <2>1, <2>2 DEF Room
  <2>4. Len(d) <= o.size
    BY <1>4, <1>5, <2>3
  <2> QED
    BY <1>7, <2>4
<1>10. CASE g # <<>>
  <2>1. ~o.keep /\ g \in ToSet(Separators) /\ Len(g) # 0
    <3>1. g \in Seq(DOMAIN Width)
      BY <1>8 DEF Texts
    <3>2. Len(g) # 0
      BY <1>10, <3>1
    <3> QED
      BY <1>10, <3>2 DEF Glue
  <2>2. CASE Len(j) <= o.size
    <3>1. Len(d) <= o.size
      BY <1>4, <1>5, <2>2
    <3> QED
      BY <1>7, <3>1
  <2>3. CASE o.overlap > 0 /\ Len(j) <= o.size + Len(g)
    <3>1. Slack(g, o) = Len(g)
      BY <2>1, <2>3 DEF Slack
    <3>2. Len(d) <= o.size + Slack(g, o)
      BY <1>4, <1>5, <1>8, <2>3, <3>1
    <3> QED
      BY <2>1, <3>2 DEF Fits
  <2>4. CASE \E x \in Texts : j = g \o x /\ Len(x) < o.size
    <3>1. PICK x \in Texts : j = g \o x /\ Len(x) < o.size
      BY <2>4
    <3>2. Len(j) = Len(g) + Len(x) /\ Len(x) \in Nat /\ In(g, j, 0)
      BY <1>8, <3>1, TextConcat
    <3>3. CASE o.overlap > 0
      <4>1. Slack(g, o) = Len(g)
        BY <2>1, <3>3 DEF Slack
      <4>2. Len(d) <= o.size + Slack(g, o)
        BY <1>4, <1>5, <1>8, <3>1, <3>2, <4>1
      <4> QED
        BY <2>1, <4>2 DEF Fits
    <3>4. CASE ~(o.overlap > 0) /\ ToSet(g) \subseteq White
      <4>1. ASSUME 0 < Len(d) PROVE Len(g) <= a
        <5>1. SUFFICES ASSUME ~(Len(g) <= a) PROVE FALSE
          OBVIOUS
        <5>2. a + 1 \in 1 .. Len(g) /\ 0 + (a + 1) = a + 1
          BY <1>4, <1>8, <5>1
        <5>3. g[a + 1] = j[a + 1]
          BY <3>2, <5>2 DEF In
        <5>4. g[a + 1] \in ToSet(g)
          <6>1. a + 1 \in DOMAIN g
            BY <1>8, <5>2 DEF Texts
          <6> QED
            BY <6>1 DEF ToSet
        <5>5. j[a + 1] \notin White
          BY <1>1, <4>1 DEF TrimsAt
        <5> QED
          BY <3>4, <5>3, <5>4, <5>5
      <4>2. Len(d) <= o.size
        BY <1>4, <1>5, <1>8, <3>1, <3>2, <4>1
      <4> QED
        BY <1>7, <4>2
    <3>5. CASE ~(o.overlap > 0) /\ ~(ToSet(g) \subseteq White)
      <4>1. Slack(g, o) = Len(g) - 1
        BY <2>1, <3>5 DEF Slack
      <4>2. Len(d) <= o.size + Slack(g, o)
        BY <1>4, <1>5, <1>8, <2>1, <3>1, <3>2, <4>1
      <4> QED
        BY <2>1, <4>2 DEF Fits
    <3> QED
      BY <3>3, <3>4, <3>5
  <2> QED
    BY <2>2, <2>3, <2>4 DEF Room
<1> QED
  BY <1>9, <1>10

-----------------------------------------------------------------------------
(***************************************************************************)
(* mergeSplits.                                                            *)
(***************************************************************************)
\* The chunk that joined pieces make, if any.
Chunk(j) == IF TrimSpace(j) = <<>> THEN <<>> ELSE <<TrimSpace(j)>>

LEMMA ChunkTiles ==
  ASSUME NEW o, IsOptions(o), NEW g, Glue(g, o), NEW j \in Texts, Room(j, g, o)
  PROVE  Tiled(Chunk(j), j, 0, Len(j), o)
<1> DEFINE d == TrimSpace(j)
<1>1. d \in Texts /\ Len(d) \in Nat /\ Len(j) \in Nat /\ 0 + 1 = 1
  BY TrimIs, TextConcat DEF Texts
<1>2. PICK a : TrimsAt(j, a)
  BY TrimIs DEF Texts
<1>3. a \in Nat /\ 0 <= a /\ a + Len(d) <= Len(j) /\ In(d, j, a)
  BY <1>2 DEF TrimsAt, In
<1>4. CASE d = <<>>
  <2>1. Len(d) = 0
    BY <1>4
  <2>2. \A x \in 0 + 1 .. Len(j) : Lossy(j[x], o)
    BY <1>1, <1>2, <1>3, <2>1 DEF TrimsAt, Lossy
  <2>3. Tiled(<<>>, j, 0, Len(j), o)
    BY <2>2, NothingTiled
  <2> QED
    BY <1>4, <2>3 DEF Chunk
<1>5. CASE d # <<>>
  <2>1. Fits(d, o)
    BY RoomFits
  <2>2. Lies(d, a, j, 0, Len(j), o)
    BY <1>1, <1>3, <1>5, <2>1 DEF Lies
  <2>3. \A x \in 0 + 1 .. Len(j) : Lossy(j[x], o) \/ (a < x /\ x <= a + Len(d))
    BY <1>1, <1>2 DEF TrimsAt, Lossy
  <2>4. Tiled(<<d>>, j, 0, Len(j), o)
    BY <1>1, <2>2, <2>3, OneTiled
  <2> QED
    BY <1>5, <2>4 DEF Chunk
<1> QED
  BY <1>4, <1>5

\* JoinDocs adds a chunk.
Docs == Seq(Texts)

LEMMA JoinDocsIs ==
  ASSUME NEW docs \in Docs, NEW cur \in Docs, NEW g \in Texts
  PROVE  JoinDocs(docs, cur, g) = docs \o Chunk(Joined(cur, g)) /\ JoinDocs(docs, cur, g) \in Docs
<1> DEFINE d == TrimSpace(Joined(cur, g))
<1>1. d \in Texts
  <2>1. Joined(cur, g) \in Seq(DOMAIN Width)
    BY JoinedIs DEF Docs, Texts
  <2> QED
    BY <2>1, TrimIs DEF Texts
<1>2. docs \in Seq(Texts)
  BY DEF Docs
<1> HIDE DEF d
<1>3. CASE d = <<>>
  <2>1. JoinDocs(docs, cur, g) = docs /\ Chunk(Joined(cur, g)) = <<>>
    BY <1>3 DEF JoinDocs, Chunk, d
  <2>2. docs \o <<>> = docs
    BY <1>2, ConcatEmptySeq
  <2> QED
    BY <2>1, <2>2
<1>4. CASE d # <<>>
  <2>1. JoinDocs(docs, cur, g) = Append(docs, d) /\ Chunk(Joined(cur, g)) = <<d>>
    BY <1>4 DEF JoinDocs, Chunk, d
  <2>2. Append(docs, d) = docs \o <<d>> /\ Append(docs, d) \in Seq(Texts)
    BY <1>1, <1>2, AppendIsConcat, AppendProperties
  <2> QED
    BY <2>1, <2>2 DEF Docs
<1> QED
  BY <1>3, <1>4

\* What is left of the current pieces is the end of them, and little enough.
LEMMA PoppedIs ==
  ASSUME NEW cur \in Docs, NEW x, NEW g, NEW o
  PROVE  \E n \in 0 .. Len(cur) : /\ Popped(cur, x, g, o) = SubSeq(cur, n + 1, Len(cur))
                                  /\ ~ShouldPopChunk(Popped(cur, x, g, o), x, g, o)
<1> DEFINE after(n) == SubSeq(cur, n + 1, Len(cur))
           S == {n \in 0 .. Len(cur) : ~ShouldPopChunk(after(n), x, g, o)}
<1>1. Len(cur) \in Nat
  BY DEF Docs
<1>2. Len(cur) \in S
  <2>1. after(Len(cur)) = <<>> /\ Len(cur) \in 0 .. Len(cur)
    BY <1>1, SubSeqEmpty
  <2> QED
    BY <2>1 DEF ShouldPopChunk
<1>3. S \in SUBSET Nat /\ S # {}
  BY <1>1, <1>2
<1>4. Min(S) \in S
  BY <1>3, MinIs
<1>5. Popped(cur, x, g, o) = after(Min(S))
  BY Zenon DEF Popped
<1> QED
  BY <1>4, <1>5

\* What mergeSplits collects.
Splits == [docs : Docs, cur : Docs]

LEMMA AddSplitIs ==
  ASSUME NEW s \in Splits, NEW x \in Texts, NEW g \in Texts, NEW o
  PROVE  AddSplit(s, x, g, o) \in Splits /\ AddSplit(s, x, g, o).cur # <<>>
<1>1. s.docs \in Docs /\ s.cur \in Docs
  BY DEF Splits
<1>2. JoinDocs(s.docs, s.cur, g) \in Docs
  BY <1>1, JoinDocsIs
<1>3. Popped(s.cur, x, g, o) \in Docs
  <2>1. PICK n \in 0 .. Len(s.cur) : Popped(s.cur, x, g, o) = SubSeq(s.cur, n + 1, Len(s.cur))
    BY <1>1, PoppedIs
  <2>2. s.cur \in Seq(Texts)
    BY <1>1 DEF Docs
  <2>3. SubSeq(s.cur, n + 1, Len(s.cur)) \in Seq(Texts)
    <3> DEFINE c == s.cur
    <3>1. c \in Seq(Texts) /\ n \in 0 .. Len(c)
      BY <2>2
    <3> HIDE DEF c
    <3>2. SubSeq(c, n + 1, Len(c)) \in Seq(Texts)
      BY <3>1, LastJoined
    <3> QED
      BY <3>2 DEF c
  <2> QED
    BY <2>1, <2>3 DEF Docs
<1>4. /\ Append(s.cur, x) \in Docs /\ Append(s.cur, x) # <<>>
      /\ Append(Popped(s.cur, x, g, o), x) \in Docs /\ Append(Popped(s.cur, x, g, o), x) # <<>>
  <2> DEFINE c == s.cur
             q == Popped(s.cur, x, g, o)
  <2>1. c \in Seq(Texts) /\ q \in Seq(Texts)
    BY <1>1, <1>3 DEF Docs
  <2> HIDE DEF c, q
  <2>2. Append(c, x) \in Seq(Texts) /\ Append(c, x) # <<>>
    BY <2>1, AppendProperties
  <2>3. Append(q, x) \in Seq(Texts) /\ Append(q, x) # <<>>
    BY <2>1, AppendProperties
  <2> QED
    BY <2>2, <2>3 DEF Docs, c, q
<1> HIDE DEF Docs
<1>5. CASE s.cur # <<>> /\ Len(Joined(Append(s.cur, x), g)) > o.size
  <2>1. AddSplit(s, x, g, o) = [docs |-> JoinDocs(s.docs, s.cur, g), cur |-> Append(Popped(s.cur, x, g, o), x)]
    BY <1>5, Zenon DEF AddSplit
  <2> QED
    BY <1>2, <1>4, <2>1 DEF Splits
<1>6. CASE ~(s.cur # <<>> /\ Len(Joined(Append(s.cur, x), g)) > o.size)
  <2>1. AddSplit(s, x, g, o) = [s EXCEPT !.cur = Append(@, x)]
    BY <1>6, Zenon DEF AddSplit
  <2> QED
    BY <1>4, <2>1 DEF Splits
<1> QED
  BY <1>5, <1>6

\* p is what the pieces so far make: the chunks tile it up to the current pieces.
Merging(s, p, g, o) ==
  /\ s \in Splits /\ p \in Texts
  /\ Open(s.docs, Joined(s.cur, g), p, o)
  /\ Room(Joined(s.cur, g), g, o)
  /\ s.cur = <<>> => p = <<>>

LEMMA SplitAdded ==
  ASSUME NEW o, IsOptions(o), NEW g, Glue(g, o), NEW s, NEW p, Merging(s, p, g, o),
         NEW x \in Texts, Len(x) < o.size
  PROVE  Merging(AddSplit(s, x, g, o), IF s.cur = <<>> THEN x ELSE Glued(p, g, x), g, o)
<1> DEFINE t == AddSplit(s, x, g, o)
           j == Joined(s.cur, g)
<1>1. g \in Texts /\ s \in Splits /\ p \in Texts /\ s.docs \in Docs /\ s.cur \in Docs
  BY DEF Glue, Merging, Splits
<1>2. j \in Texts /\ Open(s.docs, j, p, o) /\ Room(j, g, o)
  BY <1>1, JoinedIs DEF Docs, Merging
<1>3. t \in Splits /\ t.cur # <<>>
  BY <1>1, AddSplitIs
<1>4. /\ o.size \in Nat /\ o.overlap \in Nat /\ Len(x) \in Nat /\ Len(g) \in Nat
      /\ Glued(p, g, x) \in Texts
  BY <1>1, TextConcat DEF IsOptions, Glued
<1>5. Room(x, g, o)
  BY <1>4 DEF Room
<1>6. CASE s.cur = <<>>
  <2>1. t = [s EXCEPT !.cur = Append(@, x)]
    BY <1>6, Zenon DEF AddSplit
  <2>2. t.docs = s.docs /\ t.cur = <<x>>
    BY <1>1, <1>6, <2>1 DEF Splits
  <2>3. Joined(t.cur, g) = x
    BY <1>1, <2>2, JoinedOne
  <2>4. p = <<>> /\ j = <<>>
    BY <1>1, <1>6, JoinedNone DEF Merging
  <2>5. Open(s.docs, <<>> \o x, <<>> \o x, o)
    <3>1. <<>> \in Texts /\ Open(s.docs, <<>>, <<>>, o)
      BY <1>2, <2>4
    <3> QED
      BY <3>1, OpenExtend
  <2>6. <<>> \o x = x
    BY TextConcat
  <2>7. Merging(t, x, g, o)
    BY <1>3, <1>5, <2>2, <2>3, <2>5, <2>6 DEF Merging
  <2> QED
    BY <1>6, <2>7
<1>7. CASE s.cur # <<>> /\ ~(Len(Joined(Append(s.cur, x), g)) > o.size)
  <2>1. t = [s EXCEPT !.cur = Append(@, x)]
    BY <1>7, Zenon DEF AddSplit
  <2>2. t.docs = s.docs /\ t.cur = Append(s.cur, x)
    BY <1>1, <2>1 DEF Splits
  <2>3. Joined(t.cur, g) = Glued(j, g, x)
    <3>1. s.cur \in Seq(Texts) /\ s.cur # <<>>
      BY <1>1, <1>7 DEF Docs
    <3> QED
      BY <1>1, <2>2, <3>1, JoinedAppend
  <2>4. Open(s.docs, Glued(j, g, x), Glued(p, g, x), o)
    <3> DEFINE y == g \o x
    <3>1. y \in Texts
      BY <1>1, TextConcat
    <3> HIDE DEF y, j
    <3>2. Open(s.docs, j \o y, p \o y, o)
      BY <1>1, <1>2, <3>1, OpenExtend
    <3> QED
      BY <3>2 DEF y, Glued
  <2>5. Room(Glued(j, g, x), g, o)
    <3>1. Glued(j, g, x) \in Texts
      BY <1>1, <1>2, TextConcat DEF Glued
    <3>2. Len(Glued(j, g, x)) \in Nat
      BY <3>1, TextConcat
    <3>3. Len(Glued(j, g, x)) <= o.size
      BY <1>4, <1>7, <2>2, <2>3, <3>2
    <3> QED
      BY <3>3 DEF Room
  <2>6. Merging(t, Glued(p, g, x), g, o)
    BY <1>3, <1>4, <2>2, <2>3, <2>4, <2>5 DEF Merging
  <2> QED
    BY <1>7, <2>6
<1>8. CASE s.cur # <<>> /\ Len(Joined(Append(s.cur, x), g)) > o.size
  <2> DEFINE q == Popped(s.cur, x, g, o)
             d == JoinDocs(s.docs, s.cur, g)
             k == Joined(q, g)
  <2>1. t = [docs |-> d, cur |-> Append(q, x)]
    BY <1>8, Zenon DEF AddSplit
  <2>2. t.docs = d /\ t.cur = Append(q, x)
    BY <2>1
  <2>3. Tiled(d, p, 0, Len(p), o)
    <3>1. d = s.docs \o Chunk(j)
      BY <1>1, JoinDocsIs
    <3>2. Tiled(Chunk(j), j, 0, Len(j), o)
      BY <1>2, ChunkTiles
    <3> HIDE DEF d, j
    <3>3. Tiled(s.docs \o Chunk(j), p, 0, Len(p), o)
      BY <1>1, <1>2, <3>2, OpenClose
    <3> QED
      BY <3>1, <3>3
  <2>4. q \in Seq(Texts) /\ ~ShouldPopChunk(q, x, g, o) /\ \E c : Ends(k, j, c)
    <3>1. PICK n \in 0 .. Len(s.cur) : /\ q = SubSeq(s.cur, n + 1, Len(s.cur))
                                       /\ ~ShouldPopChunk(q, x, g, o)
      BY <1>1, PoppedIs
    <3> DEFINE u == s.cur
    <3>2. u \in Seq(Texts) /\ n \in 0 .. Len(u) /\ q = SubSeq(u, n + 1, Len(u)) /\ j = Joined(u, g)
      BY <1>1, <3>1 DEF Docs
    <3> HIDE DEF u, q, j
    <3>3. SubSeq(u, n + 1, Len(u)) \in Seq(Texts) /\ \E c : Ends(Joined(SubSeq(u, n + 1, Len(u)), g), Joined(u, g), c)
      BY <1>1, <3>2, LastJoined
    <3> QED
      BY <3>1, <3>2, <3>3
  <2>5. CASE q = <<>>
    <3>1. t.cur = <<x>>
      BY <2>2, <2>5
    <3>2. Joined(t.cur, g) = x
      BY <1>1, <3>1, JoinedOne
    <3>3. Open(d, x, Glued(p, g, x), o)
      <4> HIDE DEF d
      <4> QED
        BY <1>1, <2>3, OpenRestart
    <3>4. Merging(t, Glued(p, g, x), g, o)
      <4> HIDE DEF d, q, t
      <4> QED
        BY <1>3, <1>4, <1>5, <2>2, <3>2, <3>3 DEF Merging
    <3> QED
      BY <1>8, <3>4
  <2>6. CASE q # <<>>
    <3>1. k \in Texts /\ Len(k) \in Nat
      BY <1>1, <2>4, JoinedIs
    <3>2. PICK a : Ends(k, j, a)
      BY <2>4
    <3>3. PICK c : Ends(j, p, c)
      BY <1>2 DEF Open, OpenAt
    <3>4. Ends(k, p, c + a)
      <4> HIDE DEF k, j
      <4> QED
        BY <1>1, <1>2, <3>1, <3>2, <3>3, EndsEnds
    <3>5. /\ ~(Len(k) > o.overlap)
          /\ ~(Len(k) > 0 /\ Len(k) + Len(x) + (IF Len(q) < 2 THEN 0 ELSE Len(g)) > o.size)
      BY <2>4, <2>6, Zenon DEF ShouldPopChunk
    <3>6. o.overlap = 0 => Len(k) = 0
      BY <1>4, <3>1, <3>5
    <3> HIDE DEF k, q, d, j, t
    <3>7. Open(d, k, p, o)
      BY <1>1, <2>3, <3>1, <3>4, <3>6, OpenKeep
    <3>8. Open(d, Glued(k, g, x), Glued(p, g, x), o)
      <4> DEFINE y == g \o x
      <4>1. y \in Texts
        BY <1>1, TextConcat
      <4> HIDE DEF y
      <4>2. Open(d, k \o y, p \o y, o)
        BY <1>1, <3>1, <3>7, <4>1, OpenExtend
      <4> QED
        BY <4>2 DEF y, Glued
    <3>9. Joined(t.cur, g) = Glued(k, g, x)
      <4>1. Joined(Append(q, x), g) = Glued(Joined(q, g), g, x)
        BY <1>1, <2>4, <2>6, JoinedAppend
      <4> QED
        BY <2>2, <4>1 DEF k
    <3>10. Room(Glued(k, g, x), g, o)
      <4>1. CASE Len(k) = 0
        <5>1. k = <<>>
          BY <3>1, <4>1 DEF Texts
        <5>2. g \o x \in Texts
          BY <1>1, TextConcat
        <5>3. Glued(k, g, x) = g \o x
          BY <5>1, <5>2, TextConcat DEF Glued
        <5> QED
          BY <5>3 DEF Room
      <4>2. CASE Len(k) # 0
        <5>1. Len(g \o x) = Len(g) + Len(x) /\ g \o x \in Texts
          BY <1>1, TextConcat
        <5>2. Len(Glued(k, g, x)) = Len(k) + Len(g \o x)
          BY <3>1, <5>1, TextConcat DEF Glued
        <5>3. (IF Len(q) < 2 THEN 0 ELSE Len(g)) \in Nat
          BY <1>4
        <5>4. Len(k) + Len(x) <= o.size /\ o.overlap > 0
          <6> DEFINE i == IF Len(q) < 2 THEN 0 ELSE Len(g)
          <6>1. i \in Nat /\ ~(Len(k) > 0 /\ Len(k) + Len(x) + i > o.size)
            BY <3>5, <5>3
          <6> HIDE DEF i
          <6> QED
            BY <1>4, <3>1, <3>5, <4>2, <6>1
        <5>5. Len(Glued(k, g, x)) <= o.size + Len(g)
          BY <1>4, <3>1, <5>1, <5>2, <5>4
        <5> QED
          BY <5>4, <5>5 DEF Room
      <4> QED
        BY <4>1, <4>2
    <3>11. Merging(t, Glued(p, g, x), g, o)
      BY <1>3, <1>4, <2>2, <3>8, <3>9, <3>10 DEF Merging
    <3> QED
      BY <1>8, <3>11 DEF t
  <2> QED
    BY <2>5, <2>6
<1> QED
  BY <1>6, <1>7, <1>8

NoSplits == [docs |-> <<>>, cur |-> <<>>]

LEMMA MergeSteps ==
  ASSUME NEW ps \in Seq(Texts), NEW g \in Texts, NEW o
  PROVE  \E f : /\ f \in [0 .. Len(ps) -> Splits] /\ f[0] = NoSplits
                /\ \A n \in 1 .. Len(ps) : f[n] = AddSplit(f[n - 1], ps[n], g, o)
                /\ MergeSplits(ps, g, o) = JoinDocs(f[Len(ps)].docs, f[Len(ps)].cur, g)
<1> DEFINE N == Len(ps)
           step == [x \in (1 .. N) \X Splits |-> AddSplit(x[2], ps[x[1]], g, o)]
           Body(f) == [n \in 0 .. N |->
                         IF n = 0 THEN [docs |-> <<>>, cur |-> <<>>] ELSE AddSplit(f[n - 1], ps[n], g, o)]
<1>1. N \in Nat /\ NoSplits \in Splits /\ \A i \in 1 .. N : ps[i] \in Texts
  BY EmptySeq DEF NoSplits, Splits, Docs
<1>2. step \in [(1 .. N) \X Splits -> Splits]
  <2>1. ASSUME NEW x \in (1 .. N) \X Splits PROVE AddSplit(x[2], ps[x[1]], g, o) \in Splits
    <3>1. x[2] \in Splits /\ ps[x[1]] \in Texts
      BY <1>1
    <3> QED
      BY <3>1, AddSplitIs
  <2> QED
    BY <2>1
<1>3. \A n \in 1 .. N, r \in Splits : step[<<n, r>>] = AddSplit(r, ps[n], g, o)
  OBVIOUS
<1> HIDE DEF step
<1>4. PICK f : Iterates(f, N, Splits, NoSplits, step)
  BY <1>1, <1>2, Recursion, Zenon
<1>5. f \in [0 .. N -> Splits] /\ f[0] = NoSplits
  BY <1>4 DEF Iterates
<1>6. ASSUME NEW n \in 1 .. N PROVE f[n] = AddSplit(f[n - 1], ps[n], g, o)
  <2>1. n - 1 \in 0 .. N
    BY <1>1
  <2>2. f[n - 1] \in Splits /\ f[n] = step[<<n, f[n - 1]>>]
    BY <1>4, <1>5, <2>1 DEF Iterates
  <2> QED
    BY <1>3, <2>2
<1> DEFINE h == CHOOSE e : e = Body(e)
<1>7. f = Body(f)
  <2>1. ASSUME NEW n \in 0 .. N PROVE f[n] = Body(f)[n]
    <3>1. CASE n = 0
      BY <1>5, <3>1 DEF NoSplits
    <3>2. CASE n # 0
      <4>1. n \in 1 .. N
        BY <1>1, <3>2
      <4> QED
        BY <1>6, <3>2, <4>1
    <3> QED
      BY <3>1, <3>2
  <2> QED
    BY <1>5, <2>1
<1>8. h = Body(h)
  <2>1. \E e : e = Body(e)
    BY <1>7
  <2> HIDE DEF Body
  <2> QED
    BY <2>1
<1>9. MergeSplits(ps, g, o) = JoinDocs(h[N].docs, h[N].cur, g)
  BY Zenon DEF MergeSplits
<1> HIDE DEF h
<1>10. ASSUME NEW n \in 1 .. N, h[n - 1] = f[n - 1] PROVE h[n] = f[n]
  <2>1. n \in 0 .. N /\ n # 0
    BY <1>1
  <2>2. h[n] = AddSplit(h[n - 1], ps[n], g, o)
    BY <1>8, <2>1
  <2> QED
    BY <1>6, <1>10, <2>2
<1>11. h[0] = f[0]
  <2>1. 0 \in 0 .. N
    BY <1>1
  <2> QED
    BY <1>5, <1>8, <2>1 DEF NoSplits
<1> HIDE DEF Body
<1>12. h[N] = f[N]
  BY <1>1, <1>10, <1>11, OneRecursion
<1> QED
  BY <1>5, <1>6, <1>9, <1>12

LEMMA MergeIs ==
  ASSUME NEW ps \in Docs, NEW g \in Texts, NEW o
  PROVE  MergeSplits(ps, g, o) \in Docs
<1>1. ps \in Seq(Texts) /\ Len(ps) \in 0 .. Len(ps)
  BY DEF Docs
<1>2. PICK f : /\ f \in [0 .. Len(ps) -> Splits]
               /\ MergeSplits(ps, g, o) = JoinDocs(f[Len(ps)].docs, f[Len(ps)].cur, g)
  BY <1>1, MergeSteps
<1>3. f[Len(ps)].docs \in Docs /\ f[Len(ps)].cur \in Docs
  BY <1>1, <1>2 DEF Splits
<1> QED
  BY <1>2, <1>3, JoinDocsIs

\* The first n pieces joined.
LEMMA JoinedPrefix ==
  ASSUME NEW ps \in Docs, NEW g \in Texts, NEW n \in 1 .. Len(ps)
  PROVE  /\ ps[n] \in Texts /\ Joined(SubSeq(ps, 1, n), g) \in Texts /\ Joined(SubSeq(ps, 1, 0), g) = <<>>
         /\ n = 1 => Joined(SubSeq(ps, 1, 1), g) = ps[1]
         /\ n # 1 => Joined(SubSeq(ps, 1, n), g) = Glued(Joined(SubSeq(ps, 1, n - 1), g), g, ps[n])
<1>1. ps \in Seq(Texts) /\ Len(ps) \in Nat /\ n \in Nat /\ ps[n] \in Texts
  BY DEF Docs
<1>2. Joined(SubSeq(ps, 1, n), g) \in Texts
  <2>1. 1 \in Nat \ {0} /\ 1 <= n + 1 /\ n <= Len(ps)
    BY <1>1
  <2>2. SubSeq(ps, 1, n) \in Seq(Texts)
    BY <1>1, <2>1, PartIs
  <2> QED
    BY <2>2, JoinedIs
<1>3. ASSUME n = 1 PROVE Joined(SubSeq(ps, 1, 1), g) = ps[1]
  <2>1. 1 \in 1 .. Len(ps) /\ 1 \in 1 .. 1 /\ 1 - 1 \in Int /\ 1 - 1 < 1 /\ ps[1] \in Texts
    BY <1>1, <1>3
  <2>2. SubSeq(ps, 1, 1) = SubSeq(ps, 1, 1 - 1) \o <<ps[1]>>
    BY <1>1, <2>1, SubSeqRecursiveSecond
  <2>3. SubSeq(ps, 1, 1 - 1) = <<>>
    BY <2>1, SubSeqEmpty
  <2>4. <<>> \o <<ps[1]>> = <<ps[1]>>
    <3>1. <<ps[1]>> \in Seq(Texts)
      BY <2>1
    <3> QED
      BY <3>1, ConcatEmptySeq
  <2>5. SubSeq(ps, 1, 1) = <<ps[1]>>
    BY <2>2, <2>3, <2>4
  <2> QED
    BY <2>1, <2>5, JoinedOne
<1>4. ASSUME n # 1 PROVE Joined(SubSeq(ps, 1, n), g) = Glued(Joined(SubSeq(ps, 1, n - 1), g), g, ps[n])
  <2> DEFINE k == n - 1
             q == SubSeq(ps, 1, k)
  <2>1. 1 \in Nat \ {0} /\ k \in Nat /\ 1 <= k /\ k < Len(ps) /\ k + 1 = n
    BY <1>1, <1>4
  <2> HIDE DEF k
  <2>2. q \in Seq(Texts) /\ q # <<>> /\ SubSeq(ps, 1, k + 1) = Append(q, ps[k + 1])
    BY <1>1, <2>1, PartGrows
  <2>3. SubSeq(ps, 1, n) = Append(q, ps[n])
    BY <2>1, <2>2
  <2> HIDE DEF q
  <2>4. Joined(Append(q, ps[n]), g) = Glued(Joined(q, g), g, ps[n])
    BY <1>1, <2>2, JoinedAppend
  <2> QED
    BY <2>1, <2>3, <2>4 DEF k, q
<1>5. SubSeq(ps, 1, 0) = <<>>
  BY SubSeqEmpty
<1>6. Joined(SubSeq(ps, 1, 0), g) = <<>>
  BY <1>5, JoinedNone
<1> QED
  BY <1>1, <1>2, <1>3, <1>4, <1>6

\* The chunks of pieces tile what the pieces make.
LEMMA MergeTiles ==
  ASSUME NEW o, IsOptions(o), NEW g, Glue(g, o), NEW ps \in Docs,
         \A n \in 1 .. Len(ps) : Len(ps[n]) < o.size
  PROVE  Tiled(MergeSplits(ps, g, o), Joined(ps, g), 0, Len(Joined(ps, g)), o)
<1> DEFINE N == Len(ps)
           p(n) == Joined(SubSeq(ps, 1, n), g)
<1>1. /\ ps \in Seq(Texts) /\ N \in Nat /\ g \in Texts /\ N \in 0 .. N /\ 0 \in 0 .. N
      /\ \A n \in 1 .. N : ps[n] \in Texts
  BY DEF Docs, Glue
<1>2. PICK f : /\ f \in [0 .. N -> Splits] /\ f[0] = NoSplits
               /\ \A n \in 1 .. N : f[n] = AddSplit(f[n - 1], ps[n], g, o)
               /\ MergeSplits(ps, g, o) = JoinDocs(f[N].docs, f[N].cur, g)
  BY <1>1, MergeSteps
<1> DEFINE S == {n \in 0 .. N : Merging(f[n], p(n), g, o) /\ (n > 0 => f[n].cur # <<>>)}
<1>3. 0 \in S
  <2>1. p(0) = <<>>
    <3>1. SubSeq(ps, 1, 0) = <<>>
      BY SubSeqEmpty
    <3> QED
      BY <1>1, <3>1, JoinedNone
  <2>2. /\ f[0].docs = <<>> /\ f[0].cur = <<>> /\ Joined(<<>>, g) = <<>> /\ f[0] \in Splits
        /\ <<>> \in Texts
    BY <1>1, <1>2, JoinedNone, TextConcat DEF NoSplits
  <2>3. Room(<<>>, g, o)
    <3>1. Len(<<>>) = 0 /\ o.size \in Nat
      BY DEF IsOptions
    <3> QED
      BY <3>1 DEF Room
  <2>4. Merging(f[0], <<>>, g, o)
    BY <2>2, <2>3, OpenFirst DEF Merging
  <2> QED
    BY <1>1, <2>1, <2>4
<1>4. ASSUME NEW n \in 1 .. N, n - 1 \in S PROVE n \in S
  <2> DEFINE s == f[n - 1]
             x == ps[n]
  <2>1. n - 1 \in 0 .. N /\ n \in 0 .. N /\ n \in 1 .. N
    BY <1>1
  <2>2. /\ s \in Splits /\ x \in Texts /\ f[n] = AddSplit(s, x, g, o) /\ Len(x) < o.size
        /\ Merging(s, p(n - 1), g, o) /\ (n - 1 > 0 => s.cur # <<>>)
    BY <1>1, <1>2, <1>4, <2>1
  <2>3. f[n].cur # <<>>
    BY <1>1, <2>2, AddSplitIs
  <2>4. p(n) = IF s.cur = <<>> THEN x ELSE Glued(p(n - 1), g, x)
    <3>1. CASE n = 1
      <4>1. s.cur = <<>>
        <5>1. n - 1 = 0
          BY <3>1
        <5> QED
          BY <1>2, <5>1 DEF NoSplits
      <4>2. p(1) = x
        BY <1>1, <2>1, <3>1, JoinedPrefix
      <4> QED
        BY <3>1, <4>1, <4>2
    <3>2. CASE n # 1
      <4>1. n - 1 > 0
        BY <1>1, <3>2
      <4>2. p(n) = Glued(p(n - 1), g, x)
        BY <1>1, <2>1, <3>2, JoinedPrefix
      <4> QED
        BY <2>2, <4>1, <4>2
    <3> QED
      BY <3>1, <3>2
  <2> DEFINE pn == p(n - 1)
  <2> HIDE DEF s, x, pn
  <2>5. Merging(f[n], IF s.cur = <<>> THEN x ELSE Glued(pn, g, x), g, o)
    <3>1. Merging(AddSplit(s, x, g, o), IF s.cur = <<>> THEN x ELSE Glued(pn, g, x), g, o)
      BY <2>2, SplitAdded DEF pn
    <3> QED
      BY <2>2, <3>1
  <2>6. Merging(f[n], p(n), g, o)
    BY <2>4, <2>5 DEF pn
  <2> QED
    BY <2>1, <2>3, <2>6
<1> HIDE DEF S
<1>5. \A n \in 0 .. N : n \in S
  BY <1>1, <1>3, <1>4, UpTo
<1> DEFINE s == f[N]
           j == Joined(s.cur, g)
           q == Joined(ps, g)
<1>6. Merging(s, q, g, o)
  <2>1. N \in S
    BY <1>1, <1>5
  <2>2. SubSeq(ps, 1, N) = ps
    BY <1>1, SubSeqFull
  <2> QED
    BY <2>1, <2>2 DEF S
<1>7. s.docs \in Docs /\ s.cur \in Docs
  BY <1>6 DEF Merging, Splits
<1>8. j \in Texts /\ q \in Texts
  BY <1>1, <1>7, JoinedIs DEF Docs
<1>9. MergeSplits(ps, g, o) = s.docs \o Chunk(j)
  BY <1>1, <1>2, <1>7, JoinDocsIs
<1>10. Open(s.docs, j, q, o) /\ Room(j, g, o)
  BY <1>6 DEF Merging
<1> HIDE DEF s, j, q
<1>11. Tiled(Chunk(j), j, 0, Len(j), o)
  BY <1>8, <1>10, ChunkTiles
<1>12. Tiled(s.docs \o Chunk(j), q, 0, Len(q), o)
  BY <1>8, <1>10, <1>11, OpenClose
<1> QED
  BY <1>9, <1>12 DEF q

-----------------------------------------------------------------------------
(***************************************************************************)
(* The pieces of a text.                                                   *)
(***************************************************************************)
\* What strings.Split has cut.
Cuts == [done : Docs, from : Nat \ {0}]

NoCuts == [done |-> <<>>, from |-> 1]

LEMMA CutAtIs ==
  ASSUME NEW s \in Cuts, NEW t \in Texts, NEW g \in Texts, NEW n \in 1 .. Len(t)
  PROVE  CutAt(s, t, g, n) \in Cuts
<1>1. /\ s.done \in Seq(Texts) /\ s.from \in Nat \ {0} /\ Len(t) \in Nat /\ Len(g) \in Nat
      /\ t \in Seq(DOMAIN Width)
  BY TextConcat DEF Cuts, Docs, Texts
<1>2. CASE s.from + Len(g) > n + 1 \/ SubSeq(t, n + 1 - Len(g), n) # g
  BY <1>2, Zenon DEF CutAt
<1>3. CASE ~(s.from + Len(g) > n + 1 \/ SubSeq(t, n + 1 - Len(g), n) # g)
  <2> DEFINE c == SubSeq(t, s.from, n - Len(g))
  <2>1. n - Len(g) \in Nat /\ s.from <= n - Len(g) + 1 /\ n - Len(g) <= Len(t) /\ n + 1 \in Nat \ {0}
    BY <1>1, <1>3
  <2>2. c \in Texts
    <3> DEFINE e == n - Len(g)
               b == s.from
    <3>1. e \in Nat /\ b \in Nat \ {0} /\ b <= e + 1 /\ e <= Len(t)
      BY <1>1, <2>1
    <3> HIDE DEF e, b
    <3>2. SubSeq(t, b, e) \in Seq(DOMAIN Width)
      BY <1>1, <3>1, PartIs
    <3> QED
      BY <3>2 DEF e, b, Texts
  <2>3. CutAt(s, t, g, n) = [done |-> Append(s.done, c), from |-> n + 1]
    BY <1>3, Zenon DEF CutAt
  <2> HIDE DEF c
  <2>4. Append(s.done, c) \in Docs
    <3> DEFINE d == s.done
    <3>1. d \in Seq(Texts)
      BY <1>1
    <3> HIDE DEF d
    <3>2. Append(d, c) \in Seq(Texts)
      BY <2>2, <3>1, AppendProperties
    <3> QED
      BY <3>2 DEF Docs, d
  <2> QED
    BY <2>1, <2>3, <2>4 DEF Cuts
<1> QED
  BY <1>2, <1>3

LEMMA CutSteps ==
  ASSUME NEW t \in Texts, NEW g \in Texts
  PROVE  \E f : /\ f \in [0 .. Len(t) -> Cuts] /\ f[0] = NoCuts
                /\ \A n \in 1 .. Len(t) : f[n] = CutAt(f[n - 1], t, g, n)
                /\ SplitAt(t, g) = Append(f[Len(t)].done, SubSeq(t, f[Len(t)].from, Len(t)))
<1> DEFINE N == Len(t)
           step == [x \in (1 .. N) \X Cuts |-> CutAt(x[2], t, g, x[1])]
           Body(f) == [n \in 0 .. N |->
                         IF n = 0 THEN [done |-> <<>>, from |-> 1] ELSE CutAt(f[n - 1], t, g, n)]
<1>1. N \in Nat /\ NoCuts \in Cuts
  BY EmptySeq, TextConcat DEF NoCuts, Cuts, Docs
<1>2. step \in [(1 .. N) \X Cuts -> Cuts]
  <2>1. ASSUME NEW x \in (1 .. N) \X Cuts PROVE CutAt(x[2], t, g, x[1]) \in Cuts
    <3>1. x[2] \in Cuts /\ x[1] \in 1 .. N
      BY <1>1
    <3> QED
      BY <3>1, CutAtIs
  <2> QED
    BY <2>1
<1>3. \A n \in 1 .. N, r \in Cuts : step[<<n, r>>] = CutAt(r, t, g, n)
  OBVIOUS
<1> HIDE DEF step
<1>4. PICK f : Iterates(f, N, Cuts, NoCuts, step)
  BY <1>1, <1>2, Recursion, Zenon
<1>5. f \in [0 .. N -> Cuts] /\ f[0] = NoCuts
  BY <1>4 DEF Iterates
<1>6. ASSUME NEW n \in 1 .. N PROVE f[n] = CutAt(f[n - 1], t, g, n)
  <2>1. n - 1 \in 0 .. N
    BY <1>1
  <2>2. f[n - 1] \in Cuts /\ f[n] = step[<<n, f[n - 1]>>]
    BY <1>4, <1>5, <2>1 DEF Iterates
  <2> QED
    BY <1>3, <2>2
<1> DEFINE h == CHOOSE e : e = Body(e)
<1>7. f = Body(f)
  <2>1. ASSUME NEW n \in 0 .. N PROVE f[n] = Body(f)[n]
    <3>1. CASE n = 0
      BY <1>5, <3>1 DEF NoCuts
    <3>2. CASE n # 0
      <4>1. n \in 1 .. N
        BY <1>1, <3>2
      <4> QED
        BY <1>6, <3>2, <4>1
    <3> QED
      BY <3>1, <3>2
  <2> QED
    BY <1>5, <2>1
<1>8. h = Body(h)
  <2>1. \E e : e = Body(e)
    BY <1>7
  <2> HIDE DEF Body
  <2> QED
    BY <2>1
<1>9. SplitAt(t, g) = Append(h[N].done, SubSeq(t, h[N].from, N))
  BY Zenon DEF SplitAt
<1> HIDE DEF h
<1>10. ASSUME NEW n \in 1 .. N, h[n - 1] = f[n - 1] PROVE h[n] = f[n]
  <2>1. n \in 0 .. N /\ n # 0
    BY <1>1
  <2>2. h[n] = CutAt(h[n - 1], t, g, n)
    BY <1>8, <2>1
  <2> QED
    BY <1>6, <1>10, <2>2
<1>11. h[0] = f[0]
  <2>1. 0 \in 0 .. N
    BY <1>1
  <2> QED
    BY <1>5, <1>8, <2>1 DEF NoCuts
<1> HIDE DEF Body
<1>12. h[N] = f[N]
  BY <1>1, <1>10, <1>11, OneRecursion
<1> QED
  BY <1>5, <1>6, <1>9, <1>12

\* A longer last piece makes the whole longer.
Then(a, b) == a \o b

LEMMA JoinedLonger ==
  ASSUME NEW ps \in Docs, NEW g \in Texts, NEW x \in Texts
  PROVE  Joined(Append(ps, x), g) = Then(Joined(Append(ps, <<>>), g), x)
<1>1. ps \in Seq(Texts) /\ <<>> \in Texts /\ <<>> \o x = x /\ g \o <<>> = g /\ g \o x \in Texts
  BY TextConcat DEF Docs
<1>2. CASE ps = <<>>
  <2>1. Append(ps, x) = <<x>> /\ Append(ps, <<>>) = <<<<>>>>
    BY <1>2
  <2>2. Joined(<<x>>, g) = x /\ Joined(<<<<>>>>, g) = <<>>
    BY <1>1, JoinedOne
  <2> QED
    BY <1>1, <2>1, <2>2 DEF Then
<1>3. CASE ps # <<>>
  <2> DEFINE j == Joined(ps, g)
             D == DOMAIN Width
  <2>1. j \in Seq(D) /\ g \in Seq(D) /\ x \in Seq(D)
    BY <1>1, JoinedIs DEF Texts
  <2>2. Joined(Append(ps, x), g) = Glued(j, g, x) /\ Joined(Append(ps, <<>>), g) = Glued(j, g, <<>>)
    BY <1>1, <1>3, JoinedAppend
  <2> HIDE DEF j
  <2>3. (j \o g) \o x = j \o (g \o x)
    BY <2>1, ConcatAssociative
  <2> QED
    BY <1>1, <2>2, <2>3 DEF Glued, Then
<1> QED
  BY <1>2, <1>3

\* The separator between its pieces makes the text again.
LEMMA SplitAtIs ==
  ASSUME NEW t \in Texts, NEW g \in Texts
  PROVE  SplitAt(t, g) \in Docs /\ Joined(SplitAt(t, g), g) = t
<1> DEFINE N == Len(t)
           D == DOMAIN Width
           Cut(s, n) == s.from <= n + 1 /\ Joined(Append(s.done, <<>>), g) = SubSeq(t, 1, s.from - 1)
<1>1. t \in Seq(D) /\ N \in Nat /\ N \in 0 .. N /\ 0 \in 0 .. N /\ Len(g) \in Nat /\ <<>> \in Texts
  BY TextConcat DEF Texts
<1>2. PICK f : /\ f \in [0 .. N -> Cuts] /\ f[0] = NoCuts
               /\ \A n \in 1 .. N : f[n] = CutAt(f[n - 1], t, g, n)
               /\ SplitAt(t, g) = Append(f[N].done, SubSeq(t, f[N].from, N))
  BY CutSteps
<1>3. ASSUME NEW s \in Cuts, NEW e \in Nat, e <= N, s.from <= e + 1, NEW n, Cut(s, n)
      PROVE  /\ SubSeq(t, s.from, e) \in Texts
             /\ Joined(Append(s.done, SubSeq(t, s.from, e)), g) = SubSeq(t, 1, e)
  <2> DEFINE b == s.from
             x == SubSeq(t, b, e)
             d == s.done
  <2>1. b \in Nat \ {0} /\ d \in Docs
    BY DEF Cuts
  <2>2. Joined(Append(d, <<>>), g) = SubSeq(t, 1, b - 1)
    BY <1>3
  <2>3. b <= e + 1
    BY <1>3
  <2> HIDE DEF b, d
  <2>4. x \in Texts
    <3>1. x \in Seq(D)
      BY <1>1, <1>3, <2>1, <2>3, PartIs
    <3> QED
      BY <3>1 DEF Texts
  <2>5. SubSeq(t, 1, b - 1) \o SubSeq(t, b, e) = SubSeq(t, 1, e)
    <3> DEFINE k == b - 1
    <3>1. 1 \in 1 .. Len(t) + 1 /\ k \in 1 - 1 .. Len(t) /\ e \in k .. Len(t) /\ k + 1 = b
      BY <1>1, <1>3, <2>1, <2>3
    <3> HIDE DEF k
    <3>2. SubSeq(t, 1, k) \o SubSeq(t, k + 1, e) = SubSeq(t, 1, e)
      BY <1>1, <3>1, ConcatAdjacentSubSeq
    <3> QED
      BY <3>1, <3>2 DEF k
  <2> HIDE DEF x
  <2>6. Joined(Append(d, x), g) = Then(Joined(Append(d, <<>>), g), x)
    BY <2>1, <2>4, JoinedLonger
  <2>7. Then(SubSeq(t, 1, b - 1), x) = SubSeq(t, 1, e)
    BY <2>5 DEF Then, x
  <2> QED
    BY <2>2, <2>4, <2>6, <2>7 DEF x, d, b
<1> DEFINE S == {n \in 0 .. N : Cut(f[n], n)}
<1>4. 0 \in S
  <2>1. f[0].done = <<>> /\ f[0].from = 1 /\ 1 - 1 = 0 /\ 1 <= 0 + 1
    BY <1>2 DEF NoCuts
  <2>2. Append(<<>>, <<>>) = <<<<>>>>
    OBVIOUS
  <2>3. Joined(<<<<>>>>, g) = <<>> /\ SubSeq(t, 1, 0) = <<>>
    BY <1>1, JoinedOne, SubSeqEmpty
  <2> QED
    BY <1>1, <2>1, <2>2, <2>3
<1>5. ASSUME NEW n \in 1 .. N, n - 1 \in S PROVE n \in S
  <2> DEFINE s == f[n - 1]
             e == n - Len(g)
  <2>1. n - 1 \in 0 .. N /\ n \in 0 .. N /\ n - 1 + 1 = n
    BY <1>1
  <2>2. s \in Cuts /\ f[n] = CutAt(s, t, g, n) /\ Cut(s, n - 1)
    BY <1>2, <1>5, <2>1
  <2>3. s.from \in Nat \ {0} /\ s.done \in Docs /\ s.from <= n
    BY <2>1, <2>2 DEF Cuts
  <2>4. CASE s.from + Len(g) > n + 1 \/ SubSeq(t, n + 1 - Len(g), n) # g
    <3>1. f[n] = s
      BY <2>2, <2>4, Zenon DEF CutAt
    <3>2. s.from <= n + 1
      BY <1>1, <2>3
    <3> QED
      BY <2>1, <2>2, <3>1, <3>2
  <2>5. CASE ~(s.from + Len(g) > n + 1 \/ SubSeq(t, n + 1 - Len(g), n) # g)
    <3>1. e \in Nat /\ e <= N /\ s.from <= e + 1 /\ e + 1 = n + 1 - Len(g) /\ e <= n /\ n <= N
      <4> DEFINE b == s.from
                 l == Len(g)
      <4>1. ~(b + l > n + 1) /\ b \in Nat \ {0} /\ l \in Nat /\ N \in Nat
        BY <1>1, <2>3, <2>5
      <4> HIDE DEF b, l, N
      <4>2. n - l \in Nat /\ n - l <= N /\ b <= n - l + 1 /\ n - l + 1 = n + 1 - l /\ n - l <= n /\ n <= N
        BY <4>1
      <4> QED
        BY <4>2 DEF b, l
    <3> DEFINE x == SubSeq(t, s.from, e)
               d == s.done
    <3>2. f[n] = [done |-> Append(d, x), from |-> n + 1]
      BY <2>2, <2>5, Zenon DEF CutAt
    <3>3. x \in Texts /\ Joined(Append(d, x), g) = SubSeq(t, 1, e)
      BY <1>3, <2>2, <3>1
    <3>4. SubSeq(t, e + 1, n) = g
      BY <2>5, <3>1
    <3>5. d \in Docs
      BY <2>3
    <3> HIDE DEF x, e, d
    <3>6. SubSeq(t, 1, e) \o g = SubSeq(t, 1, n)
      <4>1. 1 \in 1 .. Len(t) + 1 /\ e \in 1 - 1 .. Len(t) /\ n \in e .. Len(t)
        BY <1>1, <3>1
      <4>2. SubSeq(t, 1, e) \o SubSeq(t, e + 1, n) = SubSeq(t, 1, n)
        BY <1>1, <4>1, ConcatAdjacentSubSeq
      <4> QED
        BY <3>4, <4>2
    <3>7. Joined(Append(Append(d, x), <<>>), g) = SubSeq(t, 1, n)
      <4> DEFINE q == Append(d, x)
      <4>1. q \in Seq(Texts) /\ q # <<>>
        <5>1. d \in Seq(Texts)
          BY <3>5 DEF Docs
        <5> QED
          BY <3>3, <5>1, AppendProperties
      <4> HIDE DEF q
      <4>2. Joined(Append(q, <<>>), g) = Glued(Joined(q, g), g, <<>>)
        BY <1>1, <4>1, JoinedAppend
      <4>3. g \o <<>> = g
        BY TextConcat
      <4>4. Glued(SubSeq(t, 1, e), g, <<>>) = SubSeq(t, 1, n)
        BY <3>6, <4>3 DEF Glued
      <4> QED
        BY <3>3, <4>2, <4>4 DEF q
    <3>8. n + 1 - 1 = n /\ n + 1 <= n + 1
      BY <1>1
    <3>9. f[n].from = n + 1 /\ f[n].done = Append(d, x)
      BY <3>2
    <3>10. f[n].from <= n + 1 /\ f[n].from - 1 = n
      BY <3>8, <3>9
    <3>11. Cut(f[n], n)
      BY <3>7, <3>9, <3>10
    <3> QED
      BY <2>1, <3>11
  <2> QED
    BY <2>4, <2>5
<1> HIDE DEF S
<1>6. \A n \in 0 .. N : n \in S
  BY <1>1, <1>4, <1>5, UpTo
<1>7. N \in S
  BY <1>1, <1>6
<1> DEFINE s == f[N]
<1>8. s \in Cuts /\ Cut(s, N)
  BY <1>1, <1>2, <1>7 DEF S
<1>9. N <= N /\ s.from <= N + 1
  BY <1>1, <1>8
<1> HIDE DEF s
<1>10. SubSeq(t, s.from, N) \in Texts /\ Joined(Append(s.done, SubSeq(t, s.from, N)), g) = SubSeq(t, 1, N)
  BY <1>1, <1>3, <1>8, <1>9
<1>11. SubSeq(t, 1, N) = t
  BY <1>1, SubSeqFull
<1>12. SplitAt(t, g) = Append(s.done, SubSeq(t, s.from, N))
  BY <1>2 DEF s
<1>13. SplitAt(t, g) \in Docs
  <2> DEFINE d == s.done
             x == SubSeq(t, s.from, N)
  <2>1. d \in Seq(Texts) /\ x \in Texts
    BY <1>8, <1>10 DEF Cuts, Docs
  <2> HIDE DEF d, x
  <2>2. Append(d, x) \in Seq(Texts)
    BY <2>1, AppendProperties
  <2> QED
    BY <1>12, <2>2 DEF d, x, Docs
<1> QED
  BY <1>10, <1>11, <1>12, <1>13

LEMMA RunesJoined ==
  ASSUME NEW t \in Texts, NEW ps \in Docs, Len(ps) = Len(t), \A n \in 1 .. Len(t) : ps[n] = <<t[n]>>
  PROVE  Joined(ps, <<>>) = t
<1> DEFINE N == Len(t)
           S == {n \in 0 .. N : Joined(SubSeq(ps, 1, n), <<>>) = SubSeq(t, 1, n)}
           D == DOMAIN Width
<1>1. t \in Seq(D) /\ N \in Nat /\ N \in 0 .. N /\ 0 \in 0 .. N /\ <<>> \in Texts /\ ps \in Seq(Texts)
  BY TextConcat DEF Texts, Docs
<1>2. 0 \in S
  <2>1. SubSeq(ps, 1, 0) = <<>> /\ SubSeq(t, 1, 0) = <<>>
    BY SubSeqEmpty
  <2>2. Joined(<<>>, <<>>) = <<>>
    BY <1>1, JoinedNone
  <2> QED
    BY <1>1, <2>1, <2>2
<1>3. ASSUME NEW n \in 1 .. N, n - 1 \in S PROVE n \in S
  <2>1. n \in 1 .. Len(ps) /\ 1 \in 1 .. N /\ n \in 0 .. N /\ ps[n] = <<t[n]>> /\ t[n] \in D
    BY <1>1
  <2> DEFINE j == Joined(SubSeq(ps, 1, n - 1), <<>>)
             x == <<t[n]>>
  <2>2. j = SubSeq(t, 1, n - 1)
    BY <1>3
  <2>3. SubSeq(t, 1, n) = SubSeq(t, 1, n - 1) \o x
    BY <1>1, <2>1, SubSeqRecursiveSecond
  <2>4. Joined(SubSeq(ps, 1, n), <<>>) = j \o x
    <3>1. CASE n = 1
      <4>1. Joined(SubSeq(ps, 1, 1), <<>>) = ps[1]
        BY <1>1, <2>1, <3>1, JoinedPrefix
      <4>2. 1 - 1 = 0 /\ SubSeq(ps, 1, 0) = <<>>
        BY SubSeqEmpty
      <4>3. j = <<>>
        BY <1>1, <3>1, <4>2, JoinedNone
      <4>4. <<>> \o x = x
        <5>1. x \in Seq(D)
          BY <2>1
        <5> QED
          BY <5>1, ConcatEmptySeq
      <4> QED
        BY <2>1, <3>1, <4>1, <4>3, <4>4
    <3>2. CASE n # 1
      <4>1. Joined(SubSeq(ps, 1, n), <<>>) = Glued(j, <<>>, ps[n])
        BY <1>1, <2>1, <3>2, JoinedPrefix
      <4>2. <<>> \o x = x
        <5>1. x \in Seq(D)
          BY <2>1
        <5> QED
          BY <5>1, ConcatEmptySeq
      <4> QED
        BY <2>1, <4>1, <4>2 DEF Glued
    <3> QED
      BY <3>1, <3>2
  <2> QED
    BY <2>1, <2>2, <2>3, <2>4
<1> HIDE DEF S
<1>4. \A n \in 0 .. N : n \in S
  BY <1>1, <1>2, <1>3, UpTo
<1>5. N \in S
  BY <1>1, <1>4
<1>6. SubSeq(ps, 1, N) = ps /\ SubSeq(t, 1, N) = t
  BY <1>1, SubSeqFull
<1> QED
  BY <1>5, <1>6 DEF S

LEMMA KeptJoined ==
  ASSUME NEW ps \in Docs, NEW qs \in Docs, NEW g \in Texts, Len(qs) = Len(ps),
         \A n \in 1 .. Len(ps) : qs[n] = IF n > 1 THEN g \o ps[n] ELSE ps[n]
  PROVE  Joined(qs, <<>>) = Joined(ps, g)
<1> DEFINE N == Len(ps)
           q(n) == Joined(SubSeq(qs, 1, n), <<>>)
           p(n) == Joined(SubSeq(ps, 1, n), g)
           S == {n \in 0 .. N : q(n) = p(n)}
<1>1. N \in Nat /\ N \in 0 .. N /\ 0 \in 0 .. N /\ <<>> \in Texts /\ ps \in Seq(Texts) /\ qs \in Seq(Texts)
  BY TextConcat DEF Docs
<1>2. 0 \in S
  <2>1. SubSeq(ps, 1, 0) = <<>> /\ SubSeq(qs, 1, 0) = <<>>
    BY SubSeqEmpty
  <2>2. Joined(<<>>, <<>>) = <<>> /\ Joined(<<>>, g) = <<>>
    BY <1>1, JoinedNone
  <2> QED
    BY <1>1, <2>1, <2>2
<1>3. ASSUME NEW n \in 1 .. N, n - 1 \in S PROVE n \in S
  <2>1. n \in 1 .. Len(ps) /\ n \in 1 .. Len(qs) /\ n \in 0 .. N
    BY <1>1
  <2>2. CASE n = 1
    <3>1. q(1) = qs[1] /\ p(1) = ps[1]
      BY <1>1, <2>1, <2>2, JoinedPrefix
    <3>2. qs[1] = ps[1]
      BY <2>1, <2>2
    <3> QED
      BY <2>1, <2>2, <3>1, <3>2
  <2>3. CASE n # 1
    <3>1. q(n) = Glued(q(n - 1), <<>>, qs[n])
      BY <1>1, <2>1, <2>3, JoinedPrefix
    <3>2. p(n) = Glued(p(n - 1), g, ps[n])
      BY <1>1, <2>1, <2>3, JoinedPrefix
    <3>3. ps[n] \in Texts
      BY <1>1, <2>1
    <3>4. qs[n] = g \o ps[n]
      <4>1. n > 1
        BY <2>1, <2>3
      <4> QED
        BY <2>1, <4>1
    <3>5. <<>> \o (g \o ps[n]) = g \o ps[n]
      <4>1. g \o ps[n] \in Texts
        BY <3>3, TextConcat
      <4> QED
        BY <4>1, TextConcat
    <3>6. q(n - 1) = p(n - 1)
      BY <1>3
    <3> QED
      BY <2>1, <3>1, <3>2, <3>4, <3>5, <3>6 DEF Glued
  <2> QED
    BY <2>2, <2>3
<1> HIDE DEF S
<1>4. \A n \in 0 .. N : n \in S
  BY <1>1, <1>2, <1>3, UpTo
<1>5. N \in S
  BY <1>1, <1>4
<1>6. SubSeq(ps, 1, N) = ps /\ SubSeq(qs, 1, N) = qs
  BY <1>1, SubSeqFull
<1> QED
  BY <1>5, <1>6 DEF S

\* The pieces of a text, with what joins them, are the text.
LEMMA PiecesAre ==
  ASSUME NEW t \in Texts, NEW sep \in Texts, NEW keep \in BOOLEAN
  PROVE  /\ Pieces(t, sep, keep) \in Docs
         /\ Joined(Pieces(t, sep, keep), IF keep THEN <<>> ELSE sep) = t
         /\ sep = <<>> => \A n \in 1 .. Len(Pieces(t, sep, keep)) : Len(Pieces(t, sep, keep)[n]) = 1
<1>1. t \in Seq(DOMAIN Width) /\ Len(t) \in Nat /\ DOMAIN t = 1 .. Len(t)
  BY DEF Texts
<1>2. CASE sep = <<>>
  <2> DEFINE ps == [i \in DOMAIN t |-> <<t[i]>>]
  <2>1. Pieces(t, sep, keep) = ps
    BY <1>2 DEF Pieces
  <2>2. \A n \in 1 .. Len(t) : ps[n] = <<t[n]>> /\ Len(<<t[n]>>) = 1 /\ <<t[n]>> \in Texts
    BY <1>1 DEF Texts
  <2>3. ps \in Seq(Texts) /\ Len(ps) = Len(t)
    BY <1>1, <2>2
  <2> HIDE DEF ps
  <2>4. Joined(ps, <<>>) = t
    BY <2>2, <2>3, RunesJoined DEF Docs
  <2>5. \A n \in 1 .. Len(ps) : Len(ps[n]) = 1
    BY <2>2, <2>3
  <2> QED
    BY <1>2, <2>1, <2>3, <2>4, <2>5 DEF Docs
<1>3. CASE sep # <<>>
  <2> DEFINE ps == SplitAt(t, sep)
             qs == [i \in DOMAIN ps |-> IF keep /\ i > 1 THEN sep \o ps[i] ELSE ps[i]]
  <2>1. ps \in Docs /\ Joined(ps, sep) = t
    BY SplitAtIs
  <2>2. Pieces(t, sep, keep) = qs
    BY <1>3, Zenon DEF Pieces
  <2> HIDE DEF ps
  <2>3. ps \in Seq(Texts) /\ Len(ps) \in Nat /\ DOMAIN ps = 1 .. Len(ps)
    BY <2>1 DEF Docs
  <2>4. ASSUME NEW n \in 1 .. Len(ps)
        PROVE  /\ qs[n] = IF keep /\ n > 1 THEN sep \o ps[n] ELSE ps[n]
               /\ qs[n] \in Texts
    <3>1. ps[n] \in Texts
      BY <2>3
    <3>2. sep \o ps[n] \in Texts
      BY <3>1, TextConcat
    <3> QED
      BY <2>3, <3>1, <3>2
  <2>5. qs \in Seq(Texts) /\ Len(qs) = Len(ps)
    <3>1. qs = [i \in 1 .. Len(ps) |-> qs[i]]
      BY <2>3
    <3> QED
      BY <2>3, <2>4, <3>1
  <2> HIDE DEF qs
  <2>6. CASE keep
    <3>1. \A n \in 1 .. Len(ps) : qs[n] = IF n > 1 THEN sep \o ps[n] ELSE ps[n]
      BY <2>4, <2>6
    <3>2. qs \in Docs
      BY <2>5 DEF Docs
    <3>3. Joined(qs, <<>>) = Joined(ps, sep)
      BY <2>1, <2>5, <3>1, <3>2, KeptJoined
    <3> QED
      BY <1>3, <2>1, <2>2, <2>6, <3>2, <3>3
  <2>7. CASE ~keep
    <3>1. \A n \in 1 .. Len(ps) : qs[n] = ps[n]
      BY <2>4, <2>7
    <3>2. qs = ps
      BY <2>3, <2>5, <3>1, SeqEqual
    <3> QED
      BY <1>3, <2>1, <2>2, <2>7, <3>2
  <2> QED
    BY <2>6, <2>7
<1> QED
  BY <1>2, <1>3

-----------------------------------------------------------------------------
(***************************************************************************)
(* splitText.                                                              *)
(***************************************************************************)
\* The pieces collected for mergeSplits, and the chunks so far.
Parts == [good : Docs, final : Docs]

Splitters == [Texts -> Docs]

LEMMA DocsConcat ==
  ASSUME NEW r \in Docs, NEW s \in Docs
  PROVE  r \o s \in Docs /\ r \o <<>> = r /\ <<>> \in Docs
<1>1. r \in Seq(Texts) /\ s \in Seq(Texts)
  BY DEF Docs
<1>2. r \o s \in Seq(Texts) /\ r \o <<>> = r /\ <<>> \in Seq(Texts)
  BY <1>1, ConcatProperties, ConcatEmptySeq, EmptySeq
<1> QED
  BY <1>2 DEF Docs

LEMMA AddPieceIs ==
  ASSUME NEW s \in Parts, NEW x \in Texts, NEW g \in Texts, NEW o, NEW further \in Splitters
  PROVE  AddPiece(s, x, g, o, further) \in Parts
<1>1. s.good \in Docs /\ s.final \in Docs /\ further[x] \in Docs
  BY DEF Parts, Splitters
<1>2. Append(s.good, x) \in Docs
  <2> DEFINE q == s.good
  <2>1. q \in Seq(Texts)
    BY <1>1 DEF Docs
  <2> HIDE DEF q
  <2>2. Append(q, x) \in Seq(Texts)
    BY <2>1, AppendProperties
  <2> QED
    BY <2>2 DEF q, Docs
<1>3. s.final \o MergeSplits(s.good, g, o) \o further[x] \in Docs /\ <<>> \in Docs
  <2>1. MergeSplits(s.good, g, o) \in Docs
    BY <1>1, MergeIs
  <2>2. s.final \o MergeSplits(s.good, g, o) \in Docs
    BY <1>1, <2>1, DocsConcat
  <2> QED
    BY <1>1, <2>2, DocsConcat
<1>4. CASE Len(x) < o.size
  <2>1. AddPiece(s, x, g, o, further) = [s EXCEPT !.good = Append(@, x)]
    BY <1>4, Zenon DEF AddPiece
  <2> QED
    BY <1>2, <2>1 DEF Parts
<1>5. CASE ~(Len(x) < o.size)
  <2>1. AddPiece(s, x, g, o, further)
          = [good |-> <<>>, final |-> s.final \o MergeSplits(s.good, g, o) \o further[x]]
    BY <1>5, Zenon DEF AddPiece
  <2> QED
    BY <1>3, <2>1 DEF Parts
<1> QED
  BY <1>4, <1>5

\* The chunks so far tile what the pieces so far make up to those collected.
Collecting(s, p, g, o) ==
  /\ s \in Parts /\ p \in Texts
  /\ \A n \in 1 .. Len(s.good) : Len(s.good[n]) < o.size
  /\ Open(s.final, Joined(s.good, g), p, o)

LEMMA PieceAdded ==
  ASSUME NEW o, IsOptions(o), NEW g, Glue(g, o), NEW s, NEW p, Collecting(s, p, g, o),
         NEW h, Glue(h, o), s.good # <<>> => h = g,
         NEW x \in Texts, NEW further \in Splitters,
         ~(Len(x) < o.size) => Tiled(further[x], x, 0, Len(x), o)
  PROVE  Collecting(AddPiece(s, x, g, o, further), Glued(p, h, x), g, o)
<1> DEFINE t == AddPiece(s, x, g, o, further)
           j == Joined(s.good, g)
           ph == Glued(p, h, x)
           merged == MergeSplits(s.good, g, o)
<1>1. /\ g \in Texts /\ h \in Texts /\ s \in Parts /\ p \in Texts
      /\ s.good \in Docs /\ s.final \in Docs /\ further[x] \in Docs
  BY DEF Collecting, Parts, Glue, Splitters
<1>2. j \in Texts /\ ph \in Texts /\ h \o x \in Texts /\ Len(x) \in Nat /\ o.size \in Nat
  BY <1>1, JoinedIs, TextConcat DEF Docs, Glued, IsOptions
<1>3. Open(s.final, j, p, o)
  BY DEF Collecting
<1>4. t \in Parts
  BY <1>1, AddPieceIs
<1>5. Tiled(s.final \o merged, p, 0, Len(p), o)
  <2>1. Tiled(merged, j, 0, Len(j), o)
    <3> DEFINE q == s.good
    <3>1. q \in Docs /\ \A n \in 1 .. Len(q) : Len(q[n]) < o.size
      BY <1>1 DEF Collecting
    <3> HIDE DEF q
    <3>2. Tiled(MergeSplits(q, g, o), Joined(q, g), 0, Len(Joined(q, g)), o)
      BY <3>1, MergeTiles
    <3> QED
      BY <3>2 DEF q
  <2> HIDE DEF j, merged
  <2> QED
    BY <1>1, <1>2, <1>3, <2>1, OpenClose
<1>6. CASE Len(x) < o.size
  <2>1. t = [s EXCEPT !.good = Append(@, x)]
    BY <1>6, Zenon DEF AddPiece
  <2>2. t.good = Append(s.good, x) /\ t.final = s.final
    BY <1>1, <2>1 DEF Parts
  <2>3. \A n \in 1 .. Len(t.good) : Len(t.good[n]) < o.size
    <3> DEFINE q == s.good
    <3>1. q \in Seq(Texts) /\ \A n \in 1 .. Len(q) : Len(q[n]) < o.size
      BY <1>1 DEF Collecting, Docs
    <3>2. t.good = Append(q, x)
      BY <2>2
    <3> HIDE DEF q, t
    <3>3. /\ Len(Append(q, x)) = Len(q) + 1 /\ Append(q, x)[Len(q) + 1] = x /\ Len(q) \in Nat
          /\ \A n \in 1 .. Len(q) : Append(q, x)[n] = q[n]
      BY <3>1, AppendProperties
    <3>4. ASSUME NEW n \in 1 .. Len(q) + 1 PROVE Len(Append(q, x)[n]) < o.size
      <4>1. n \in 1 .. Len(q) \/ n = Len(q) + 1
        BY <3>3
      <4> QED
        BY <1>6, <3>1, <3>3, <4>1
    <3> QED
      BY <3>2, <3>3, <3>4
  <2>4. Open(s.final, Joined(t.good, g), ph, o)
    <3>1. CASE s.good = <<>>
      <4>1. t.good = <<x>>
        BY <2>2, <3>1
      <4>2. Joined(t.good, g) = x
        BY <1>1, <4>1, JoinedOne
      <4>3. j = <<>>
        BY <1>1, <3>1, JoinedNone
      <4>4. Tiled(s.final, p, 0, Len(p), o)
        <5>1. Tiled(<<>>, <<>>, 0, Len(<<>>), o)
          <6>1. Len(<<>>) = 0 /\ 0 + 1 .. 0 = {}
            OBVIOUS
          <6> QED
            BY <6>1, NothingTiled
        <5>2. Tiled(s.final \o <<>>, p, 0, Len(p), o)
          <6>1. Open(s.final, <<>>, p, o) /\ <<>> \in Texts
            BY <1>2, <1>3, <4>3
          <6> QED
            BY <1>1, <5>1, <6>1, OpenClose
        <5>3. s.final \o <<>> = s.final
          BY <1>1, DocsConcat
        <5> QED
          BY <5>2, <5>3
      <4>5. Open(s.final, x, ph, o)
        BY <1>1, <4>4, OpenRestart
      <4> QED
        BY <4>2, <4>5
    <3>2. CASE s.good # <<>>
      <4>1. h = g
        BY <3>2
      <4>2. Joined(t.good, g) = Glued(j, g, x)
        <5> DEFINE q == s.good
        <5>1. q \in Seq(Texts) /\ q # <<>>
          BY <1>1, <3>2 DEF Docs
        <5> HIDE DEF q
        <5>2. Joined(Append(q, x), g) = Glued(Joined(q, g), g, x)
          BY <1>1, <5>1, JoinedAppend
        <5> QED
          BY <2>2, <5>2 DEF q
      <4> DEFINE y == h \o x
      <4>3. y \in Texts
        BY <1>2
      <4> HIDE DEF y, j
      <4>4. Open(s.final, j \o y, p \o y, o)
        BY <1>1, <1>2, <1>3, <4>3, OpenExtend
      <4> QED
        BY <4>1, <4>2, <4>4 DEF y, Glued
    <3> QED
      BY <3>1, <3>2
  <2> QED
    BY <1>2, <1>4, <2>2, <2>3, <2>4 DEF Collecting
<1>7. CASE ~(Len(x) < o.size)
  <2> DEFINE r == s.final \o merged
             f == further[x]
  <2>1. t = [good |-> <<>>, final |-> r \o f]
    BY <1>7, Zenon DEF AddPiece
  <2>3. Tiled(f, x, 0, Len(x), o)
    BY <1>7
  <2> HIDE DEF r, f, t
  <2>2. t.good = <<>> /\ t.final = r \o f /\ Len(<<>>) = 0
    BY <2>1
  <2>4. Open(r, x, ph, o)
    <3>1. Tiled(r, p, 0, Len(p), o)
      BY <1>5 DEF r
    <3> QED
      BY <1>1, <3>1, OpenRestart
  <2> HIDE DEF ph
  <2>5. Tiled(r \o f, ph, 0, Len(ph), o)
    BY <1>2, <2>3, <2>4, OpenClose
  <2>6. Open(r \o f, <<>>, ph, o)
    <3> DEFINE rf == r \o f
    <3>1. Tiled(rf, ph, 0, Len(ph), o) /\ <<>> \in Texts /\ Len(<<>>) = 0 /\ Ends(<<>>, ph, Len(ph))
      BY <1>2, <2>5, EndsIs, TextConcat
    <3> HIDE DEF rf
    <3>2. Open(rf, <<>>, ph, o)
      BY <1>2, <3>1, OpenKeep
    <3> QED
      BY <3>2 DEF rf
  <2>7. Joined(t.good, g) = <<>>
    BY <1>1, <2>2, JoinedNone
  <2>8. \A n \in 1 .. Len(t.good) : Len(t.good[n]) < o.size
    <3>1. 1 .. 0 = {}
      OBVIOUS
    <3> QED
      BY <2>2, <3>1
  <2>9. Collecting(t, ph, g, o)
    BY <1>2, <1>4, <2>2, <2>6, <2>7, <2>8 DEF Collecting
  <2> QED
    BY <2>9 DEF t, ph
<1> QED
  BY <1>6, <1>7

NoParts == [good |-> <<>>, final |-> <<>>]

LEMMA SplitBySteps ==
  ASSUME NEW t \in Texts, NEW sep \in Texts, NEW o, IsOptions(o), NEW further \in Splitters,
         NEW ps, ps = Pieces(t, sep, o.keep), NEW g, g = IF o.keep THEN <<>> ELSE sep
  PROVE  \E f : /\ f \in [0 .. Len(ps) -> Parts] /\ f[0] = NoParts
                /\ \A n \in 1 .. Len(ps) : f[n] = AddPiece(f[n - 1], ps[n], g, o, further)
                /\ SplitBy(t, sep, o, further) = Then(f[Len(ps)].final, MergeSplits(f[Len(ps)].good, g, o))
<1> DEFINE N == Len(ps)
           step == [x \in (1 .. N) \X Parts |-> AddPiece(x[2], ps[x[1]], g, o, further)]
           Body(f) == [n \in 0 .. N |-> IF n = 0 THEN [good |-> <<>>, final |-> <<>>]
                                       ELSE AddPiece(f[n - 1], ps[n], g, o, further)]
<1>1. N \in Nat /\ NoParts \in Parts /\ g \in Texts /\ \A i \in 1 .. N : ps[i] \in Texts
  <2>1. o.keep \in BOOLEAN
    BY DEF IsOptions
  <2>2. ps \in Seq(Texts)
    BY <2>1, PiecesAre DEF Docs
  <2>3. <<>> \in Texts
    BY TextConcat
  <2> QED
    BY <2>2, <2>3, EmptySeq DEF NoParts, Parts, Docs
<1>2. step \in [(1 .. N) \X Parts -> Parts]
  <2>1. ASSUME NEW x \in (1 .. N) \X Parts PROVE AddPiece(x[2], ps[x[1]], g, o, further) \in Parts
    <3>1. x[2] \in Parts /\ ps[x[1]] \in Texts
      BY <1>1
    <3> QED
      BY <1>1, <3>1, AddPieceIs
  <2> QED
    BY <2>1
<1>3. \A n \in 1 .. N, r \in Parts : step[<<n, r>>] = AddPiece(r, ps[n], g, o, further)
  OBVIOUS
<1> HIDE DEF step
<1>4. PICK f : Iterates(f, N, Parts, NoParts, step)
  BY <1>1, <1>2, Recursion, Zenon
<1>5. f \in [0 .. N -> Parts] /\ f[0] = NoParts
  BY <1>4 DEF Iterates
<1>6. ASSUME NEW n \in 1 .. N PROVE f[n] = AddPiece(f[n - 1], ps[n], g, o, further)
  <2>1. n - 1 \in 0 .. N
    BY <1>1
  <2>2. f[n - 1] \in Parts /\ f[n] = step[<<n, f[n - 1]>>]
    BY <1>4, <1>5, <2>1 DEF Iterates
  <2> QED
    BY <1>3, <2>2
<1> DEFINE h == CHOOSE e : e = Body(e)
<1>7. f = Body(f)
  <2>1. ASSUME NEW n \in 0 .. N PROVE f[n] = Body(f)[n]
    <3>1. CASE n = 0
      BY <1>5, <3>1 DEF NoParts
    <3>2. CASE n # 0
      <4>1. n \in 1 .. N
        BY <1>1, <3>2
      <4> QED
        BY <1>6, <3>2, <4>1
    <3> QED
      BY <3>1, <3>2
  <2> QED
    BY <1>5, <2>1
<1>8. h = Body(h)
  <2>1. \E e : e = Body(e)
    BY <1>7
  <2> HIDE DEF Body
  <2> QED
    BY <2>1
<1>9. SplitBy(t, sep, o, further) = h[N].final \o MergeSplits(h[N].good, g, o)
  BY Zenon DEF SplitBy
<1> HIDE DEF h
<1>10. ASSUME NEW n \in 1 .. N, h[n - 1] = f[n - 1] PROVE h[n] = f[n]
  <2>1. n \in 0 .. N /\ n # 0
    BY <1>1
  <2>2. h[n] = AddPiece(h[n - 1], ps[n], g, o, further)
    BY <1>8, <2>1
  <2> QED
    BY <1>6, <1>10, <2>2
<1>11. h[0] = f[0]
  <2>1. 0 \in 0 .. N
    BY <1>1
  <2> QED
    BY <1>5, <1>8, <2>1 DEF NoParts
<1> HIDE DEF Body
<1>12. h[N] = f[N]
  BY <1>1, <1>10, <1>11, OneRecursion
<1> QED
  BY <1>5, <1>6, <1>9, <1>12 DEF Then

LEMMA SplitByIs ==
  ASSUME NEW t \in Texts, NEW sep \in Texts, NEW o, IsOptions(o), NEW further \in Splitters
  PROVE  SplitBy(t, sep, o, further) \in Docs
<1> DEFINE ps == Pieces(t, sep, o.keep)
           g == IF o.keep THEN <<>> ELSE sep
<1>1. PICK f : /\ f \in [0 .. Len(ps) -> Parts]
               /\ SplitBy(t, sep, o, further) = Then(f[Len(ps)].final, MergeSplits(f[Len(ps)].good, g, o))
  <2> HIDE DEF ps, g
  <2>1. ps = Pieces(t, sep, o.keep) /\ g = IF o.keep THEN <<>> ELSE sep
    BY DEF ps, g
  <2> QED
    BY <2>1, SplitBySteps
<1>2. g \in Texts
  BY TextConcat
<1>3. Len(ps) \in 0 .. Len(ps)
  <2>1. o.keep \in BOOLEAN
    BY DEF IsOptions
  <2>2. ps \in Seq(Texts)
    BY <2>1, PiecesAre DEF Docs
  <2> HIDE DEF ps
  <2> QED
    BY <2>2
<1> HIDE DEF g
<1>4. f[Len(ps)].final \in Docs /\ f[Len(ps)].good \in Docs
  BY <1>1, <1>3 DEF Parts
<1>5. MergeSplits(f[Len(ps)].good, g, o) \in Docs
  BY <1>2, <1>4, MergeIs
<1> QED
  BY <1>1, <1>4, <1>5, DocsConcat DEF Then

\* The chunks of a text tile it, if those of its long pieces tile these.
LEMMA SplitByTiles ==
  ASSUME NEW o, IsOptions(o), NEW t \in Texts, NEW sep \in ToSet(Separators), NEW further \in Splitters,
         \A n \in 1 .. Len(Pieces(t, sep, o.keep)) :
           LET x == Pieces(t, sep, o.keep)[n]
           IN  ~(Len(x) < o.size) => Tiled(further[x], x, 0, Len(x), o)
  PROVE  Tiled(SplitBy(t, sep, o, further), t, 0, Len(t), o)
<1> DEFINE ps == Pieces(t, sep, o.keep)
           g == IF o.keep THEN <<>> ELSE sep
           N == Len(ps)
           p(n) == Joined(SubSeq(ps, 1, n), g)
<1>1. o.keep \in BOOLEAN /\ <<>> \in Texts
  BY TextConcat DEF IsOptions
<1>2. sep \in Texts
  <2>1. Separators \in Seq(Texts)
    BY SeparatorsAssumption
  <2>2. PICK i \in DOMAIN Separators : sep = Separators[i]
    BY Zenon DEF ToSet
  <2> QED
    BY <2>1, <2>2
<1>3. Glue(g, o) /\ Glue(<<>>, o) /\ g \in Texts
  BY <1>1, <1>2 DEF Glue
<1>4. ps \in Docs /\ Joined(ps, g) = t
  BY <1>1, <1>2, PiecesAre
<1>5. PICK f : /\ f \in [0 .. Len(ps) -> Parts] /\ f[0] = NoParts
               /\ \A n \in 1 .. Len(ps) : f[n] = AddPiece(f[n - 1], ps[n], g, o, further)
               /\ SplitBy(t, sep, o, further) = Then(f[Len(ps)].final, MergeSplits(f[Len(ps)].good, g, o))
  <2> HIDE DEF ps, g
  <2>1. ps = Pieces(t, sep, o.keep) /\ g = IF o.keep THEN <<>> ELSE sep
    BY DEF ps, g
  <2> QED
    BY <1>2, <2>1, SplitBySteps, SMTT(60)
<1>6. ASSUME NEW n \in 1 .. N
      PROVE ~(Len(ps[n]) < o.size) => Tiled(further[ps[n]], ps[n], 0, Len(ps[n]), o)
  OBVIOUS
<1> HIDE DEF ps, g
<1>7. ps \in Seq(Texts) /\ N \in Nat /\ N \in 0 .. N /\ 0 \in 0 .. N /\ \A n \in 1 .. N : ps[n] \in Texts
  BY <1>4 DEF Docs
<1> DEFINE S == {n \in 0 .. N : Collecting(f[n], p(n), g, o)}
<1>8. 0 \in S
  <2>1. p(0) = <<>>
    <3>1. SubSeq(ps, 1, 0) = <<>>
      BY SubSeqEmpty
    <3> QED
      BY <1>3, <3>1, JoinedNone
  <2>2. f[0].good = <<>> /\ f[0].final = <<>> /\ f[0] \in Parts /\ Len(<<>>) = 0 /\ 1 .. 0 = {}
    BY <1>5, <1>7 DEF NoParts
  <2>3. Joined(<<>>, g) = <<>>
    BY <1>3, JoinedNone
  <2>4. Collecting(f[0], <<>>, g, o)
    BY <1>1, <2>2, <2>3, OpenFirst DEF Collecting
  <2> QED
    BY <1>7, <2>1, <2>4
<1>9. ASSUME NEW n \in 1 .. N, n - 1 \in S PROVE n \in S
  <2> DEFINE s == f[n - 1]
             x == ps[n]
             h == IF n = 1 THEN <<>> ELSE g
             q == p(n - 1)
  <2>1. n \in 1 .. Len(ps) /\ n \in 0 .. N
    BY <1>7
  <2>2. Collecting(s, q, g, o) /\ x \in Texts /\ f[n] = AddPiece(s, x, g, o, further)
    BY <1>5, <1>7, <1>9
  <2>3. Glue(h, o) /\ (s.good # <<>> => h = g)
    <3>1. CASE n = 1
      <4>1. n - 1 = 0
        BY <3>1
      <4>2. s.good = <<>>
        BY <1>5, <4>1 DEF NoParts
      <4> QED
        BY <1>3, <3>1, <4>2
    <3>2. CASE n # 1
      BY <1>3, <3>2
    <3> QED
      BY <3>1, <3>2
  <2>4. p(n) = Glued(q, h, x)
    <3>1. CASE n = 1
      <4>1. p(1) = x
        BY <1>3, <1>4, <2>1, <3>1, JoinedPrefix
      <4>2. q = <<>>
        <5>1. n - 1 = 0
          BY <3>1
        <5>2. p(0) = <<>>
          BY <1>3, <1>4, <2>1, JoinedPrefix
        <5> QED
          BY <5>1, <5>2
      <4>3. <<>> \o x = x
        BY <2>2, TextConcat
      <4> QED
        BY <3>1, <4>1, <4>2, <4>3 DEF Glued
    <3>2. CASE n # 1
      BY <1>3, <1>4, <2>1, <3>2, JoinedPrefix
    <3> QED
      BY <3>1, <3>2
  <2>5. ~(Len(x) < o.size) => Tiled(further[x], x, 0, Len(x), o)
    BY <1>6
  <2> HIDE DEF s, x, h, q
  <2>6. Collecting(AddPiece(s, x, g, o, further), Glued(q, h, x), g, o)
    BY <1>3, <2>2, <2>3, <2>5, PieceAdded
  <2>7. Collecting(f[n], p(n), g, o)
    BY <2>2, <2>4, <2>6
  <2> QED
    BY <2>1, <2>7
<1> HIDE DEF S
<1>10. \A n \in 0 .. N : n \in S
  BY <1>7, <1>8, <1>9, UpTo
<1> DEFINE s == f[N]
<1>11. Collecting(s, t, g, o)
  <2>1. N \in S
    BY <1>7, <1>10
  <2>2. SubSeq(ps, 1, N) = ps
    BY <1>7, SubSeqFull
  <2> QED
    BY <1>4, <2>1, <2>2 DEF S
<1>12. SplitBy(t, sep, o, further) = s.final \o MergeSplits(s.good, g, o)
  BY <1>5 DEF Then
<1> HIDE DEF s
<1> DEFINE q == s.good
           j == Joined(q, g)
           r == s.final
<1>13. q \in Docs /\ j \in Texts /\ Open(r, j, t, o) /\ \A n \in 1 .. Len(q) : Len(q[n]) < o.size
  <2>1. q \in Docs
    BY <1>11 DEF Collecting, Parts
  <2> QED
    BY <1>3, <1>11, <2>1, JoinedIs DEF Collecting, Docs
<1> HIDE DEF q, r
<1>14. Tiled(MergeSplits(q, g, o), j, 0, Len(j), o)
  BY <1>3, <1>13, MergeTiles
<1> HIDE DEF j
<1> DEFINE m == MergeSplits(q, g, o)
<1> HIDE DEF m
<1>15. Tiled(r \o m, t, 0, Len(t), o)
  BY <1>13, <1>14, OpenClose DEF m
<1> QED
  BY <1>12, <1>15 DEF r, q, m

\* The n-th separator from the last on.
Nth(n) == Separators[Len(Separators) + 1 - n]

\* Splitting by that one, and by those after it.
SplitterOf(n, w, o) ==
  [t \in Texts |-> IF n > 1 /\ Nth(n) # <<>> /\ Places(t, Nth(n)) = {} THEN w[t]
                   ELSE SplitBy(t, Nth(n), o, w)]

LEMMA NthIs ==
  ASSUME NEW n \in 1 .. Len(Separators)
  PROVE  Nth(n) \in Texts /\ Nth(n) \in ToSet(Separators) /\ (n = 1 => Nth(n) = <<>>)
<1>1. Separators \in Seq(Texts) /\ Separators[Len(Separators)] = <<>> /\ Len(Separators) \in Nat
  BY SeparatorsAssumption
<1>2. Len(Separators) + 1 - n \in 1 .. Len(Separators) /\ (n = 1 => Len(Separators) + 1 - n = Len(Separators))
  BY <1>1
<1>3. Len(Separators) + 1 - n \in DOMAIN Separators
  BY <1>1, <1>2
<1> QED
  BY <1>1, <1>2, <1>3 DEF Nth, ToSet

LEMMA SplitterIs ==
  ASSUME NEW n \in 1 .. Len(Separators), NEW w \in Splitters, NEW o, IsOptions(o)
  PROVE  SplitterOf(n, w, o) \in Splitters
<1>1. ASSUME NEW t \in Texts
      PROVE  /\ w[t] \in Docs
             /\ SplitBy(t, Nth(n), o, w) \in Docs
  <2>1. w[t] \in Docs
    BY DEF Splitters
  <2> QED
    BY <2>1, NthIs, SplitByIs
<1> QED
  BY <1>1 DEF Splitters, SplitterOf

LEMMA SplitTextSteps ==
  ASSUME NEW o, IsOptions(o)
  PROVE  \E f : /\ f \in [0 .. Len(Separators) -> Splitters] /\ f[0] = [t \in Texts |-> <<t>>]
                /\ \A n \in 1 .. Len(Separators) : f[n] = SplitterOf(n, f[n - 1], o)
                /\ SplitText(o) = f[Len(Separators)]
<1> DEFINE N == Len(Separators)
           a == [t \in Texts |-> <<t>>]
           step == [x \in (1 .. N) \X Splitters |-> SplitterOf(x[1], x[2], o)]
           Body(f) == [n \in 0 .. N |->
             IF n = 0 THEN [t \in Texts |-> <<t>>]
             ELSE LET sep == Separators[Len(Separators) + 1 - n]
                  IN  [t \in Texts |->
                         IF n > 1 /\ sep # <<>> /\ Places(t, sep) = {} THEN f[n - 1][t]
                         ELSE SplitBy(t, sep, o, f[n - 1])]]
<1>1. N \in Nat /\ a \in Splitters
  <2>1. Separators \in Seq(Texts)
    BY SeparatorsAssumption
  <2>2. \A t \in Texts : <<t>> \in Docs
    BY DEF Docs
  <2> QED
    BY <2>1, <2>2 DEF Splitters
<1>2. step \in [(1 .. N) \X Splitters -> Splitters]
  <2>1. ASSUME NEW x \in (1 .. N) \X Splitters PROVE SplitterOf(x[1], x[2], o) \in Splitters
    <3>1. x[2] \in Splitters /\ x[1] \in 1 .. N
      BY <1>1
    <3> QED
      BY <3>1, SplitterIs
  <2> QED
    BY <2>1
<1>3. \A n \in 1 .. N, r \in Splitters : step[<<n, r>>] = SplitterOf(n, r, o)
  OBVIOUS
<1> HIDE DEF step
<1>4. PICK f : Iterates(f, N, Splitters, a, step)
  BY <1>1, <1>2, Recursion, Zenon
<1>5. f \in [0 .. N -> Splitters] /\ f[0] = a
  BY <1>4 DEF Iterates
<1>6. ASSUME NEW n \in 1 .. N PROVE f[n] = SplitterOf(n, f[n - 1], o)
  <2>1. n - 1 \in 0 .. N
    BY <1>1
  <2>2. f[n - 1] \in Splitters /\ f[n] = step[<<n, f[n - 1]>>]
    BY <1>4, <1>5, <2>1 DEF Iterates
  <2> QED
    BY <1>3, <2>2
<1> DEFINE h == CHOOSE e : e = Body(e)
           New(f_, n) == IF n = 0 THEN a ELSE SplitterOf(n, f_[n - 1], o)
<1>7. ASSUME NEW e PROVE Body(e) = [n \in 0 .. N |-> New(e, n)]
  BY Zenon DEF SplitterOf, Nth
<1>8. f = Body(f)
  <2>1. ASSUME NEW n \in 0 .. N PROVE f[n] = New(f, n)
    <3> HIDE DEF a
    <3>1. CASE n = 0
      BY <1>5, <3>1
    <3>2. CASE n # 0
      <4>1. n \in 1 .. N
        BY <1>1, <3>2
      <4> QED
        BY <1>6, <3>2, <4>1
    <3> QED
      BY <3>1, <3>2
  <2> HIDE DEF New, Body
  <2>2. f = [n \in 0 .. N |-> New(f, n)]
    BY <1>5, <2>1
  <2> QED
    BY <1>7, <2>2
<1>9. h = [n \in 0 .. N |-> New(h, n)]
  <2>1. \E e : e = Body(e)
    BY <1>8
  <2> HIDE DEF Body, New
  <2>2. h = Body(h)
    BY <2>1
  <2> QED
    BY <1>7, <2>2
<1>10. SplitText(o) = h[N]
  BY Zenon DEF SplitText
<1> HIDE DEF h, Body, a
<1>11. ASSUME NEW n \in 1 .. N, h[n - 1] = f[n - 1] PROVE h[n] = f[n]
  <2>1. n \in 0 .. N /\ n # 0
    BY <1>1
  <2>2. h[n] = New(h, n)
    <3> HIDE DEF New
    <3> QED
      BY <1>9, <2>1
  <2>3. h[n] = SplitterOf(n, h[n - 1], o)
    BY <2>1, <2>2
  <2> QED
    BY <1>6, <1>11, <2>3
<1>12. h[0] = f[0]
  <2>1. 0 \in 0 .. N
    BY <1>1
  <2>2. h[0] = New(h, 0)
    <3> HIDE DEF New
    <3> QED
      BY <1>9, <2>1
  <2> QED
    BY <1>5, <2>2
<1> HIDE DEF New
<1>13. h[N] = f[N]
  BY <1>1, <1>11, <1>12, OneRecursion
<1> QED
  BY <1>5, <1>6, <1>10, <1>13 DEF a

\* The chunks of every text tile it.
LEMMA SplitTextTiles ==
  ASSUME NEW o, IsOptions(o), NEW t \in Texts
  PROVE  SplitText(o)[t] \in Docs /\ Tiled(SplitText(o)[t], t, 0, Len(t), o)
<1> DEFINE N == Len(Separators)
           Tiling(w) == \A u \in Texts : Tiled(w[u], u, 0, Len(u), o)
<1>1. N \in Nat /\ N \in 0 .. N /\ 0 \in 0 .. N /\ N > 0
  <2>1. Separators \in Seq(Texts) /\ Separators # <<>>
    BY SeparatorsAssumption
  <2>2. N \in Nat /\ N # 0
    BY <2>1
  <2> QED
    BY <2>2
<1>2. PICK f : /\ f \in [0 .. N -> Splitters] /\ f[0] = [u \in Texts |-> <<u>>]
               /\ \A n \in 1 .. N : f[n] = SplitterOf(n, f[n - 1], o)
               /\ SplitText(o) = f[N]
  BY SplitTextSteps
<1> DEFINE S == {n \in 0 .. N : n > 0 => Tiling(f[n])}
<1>3. 0 \in S
  BY <1>1
<1>4. ASSUME NEW n \in 1 .. N, n - 1 \in S PROVE n \in S
  <2> DEFINE w == f[n - 1]
  <2>1. n - 1 \in 0 .. N /\ n \in 0 .. N /\ n \in 1 .. N
    BY <1>1
  <2>2. w \in Splitters /\ f[n] = SplitterOf(n, w, o) /\ (n > 1 => Tiling(w))
    <3>1. n > 1 => n - 1 > 0
      BY <2>1
    <3> QED
      BY <1>2, <1>4, <2>1, <3>1
  <2>3. Nth(n) \in Texts /\ Nth(n) \in ToSet(Separators) /\ (n = 1 => Nth(n) = <<>>)
    BY NthIs
  <2>4. ASSUME NEW u \in Texts PROVE Tiled(f[n][u], u, 0, Len(u), o)
    <3> DEFINE sep == Nth(n)
               ps  == Pieces(u, sep, o.keep)
    <3>1. f[n][u] = IF n > 1 /\ sep # <<>> /\ Places(u, sep) = {} THEN w[u] ELSE SplitBy(u, sep, o, w)
      <4> HIDE DEF w
      <4> QED
        BY <2>2 DEF SplitterOf
    <3>2. CASE n > 1 /\ sep # <<>> /\ Places(u, sep) = {}
      BY <2>2, <3>1, <3>2
    <3>3. CASE ~(n > 1 /\ sep # <<>> /\ Places(u, sep) = {})
      <4>1. ps \in Docs /\ Len(ps) \in Nat
        <5>1. o.keep \in BOOLEAN
          BY DEF IsOptions
        <5>2. ps \in Docs
          BY <2>3, <5>1, PiecesAre
        <5> HIDE DEF ps
        <5> QED
          BY <5>2 DEF Docs
      <4>2. ASSUME NEW i \in 1 .. Len(ps), ~(Len(ps[i]) < o.size)
            PROVE  Tiled(w[ps[i]], ps[i], 0, Len(ps[i]), o)
        <5> DEFINE x == ps[i]
        <5>1. x \in Texts
          <6> HIDE DEF ps
          <6> QED
            BY <4>1 DEF Docs
        <5>2. CASE n > 1
          <6> HIDE DEF x, w
          <6> QED
            BY <2>2, <5>1, <5>2 DEF x
        <5>3. CASE ~(n > 1)
          <6>1. n = 1 /\ n - 1 = 0
            BY <2>1, <5>3
          <6>2. Len(x) = 1
            <7>1. o.keep \in BOOLEAN /\ sep = <<>>
              BY <2>3, <6>1 DEF IsOptions
            <7> QED
              BY <2>3, <7>1, PiecesAre
          <6>3. w[x] = <<x>>
            <7> HIDE DEF x
            <7> QED
              BY <1>2, <5>1, <6>1
          <6> HIDE DEF x, w
          <6>4. x # <<>> /\ In(x, x, 0)
            <7>1. Ends(x, x, 0)
              BY <5>1, EndsIs
            <7>2. Len(<<>>) # 1
              OBVIOUS
            <7>3. x # <<>>
              BY <6>2, <7>2, Zenon
            <7> QED
              BY <7>1, <7>3 DEF Ends
          <6>5. Fits(x, o)
            <7>1. Len(x) <= o.size
              BY <6>2 DEF IsOptions
            <7> QED
              BY <7>1, SizeFits
          <6>6. Lies(x, 0, x, 0, Len(x), o)
            BY <6>2, <6>4, <6>5 DEF Lies
          <6>7. \A y \in 0 + 1 .. Len(x) : Lossy(x[y], o) \/ (0 < y /\ y <= 0 + Len(x))
            BY <6>2
          <6>8. Tiled(<<x>>, x, 0, Len(x), o)
            BY <5>1, <6>6, <6>7, OneTiled
          <6> QED
            BY <6>3, <6>8 DEF x
        <5> QED
          BY <5>2, <5>3
      <4>3. Tiled(SplitBy(u, sep, o, w), u, 0, Len(u), o)
        <5> HIDE DEF sep, w
        <5>1. sep \in ToSet(Separators)
          BY <2>3 DEF sep
        <5> QED
          BY <2>2, <4>2, <5>1, SplitByTiles
      <4> QED
        BY <3>1, <3>3, <4>3
    <3> QED
      BY <3>2, <3>3
  <2> QED
    BY <2>1, <2>4
<1> HIDE DEF S
<1>5. \A n \in 0 .. N : n \in S
  BY <1>1, <1>3, <1>4, UpTo
<1>6. Tiling(f[N])
  <2>1. N \in S
    BY <1>1, <1>5
  <2> QED
    BY <1>1, <2>1 DEF S
<1>7. f[N][t] \in Docs
  <2>1. f[N] \in Splitters
    BY <1>1, <1>2
  <2> QED
    BY <2>1 DEF Splitters
<1> QED
  BY <1>2, <1>6, <1>7

-----------------------------------------------------------------------------
(***************************************************************************)
(* Decimal points are hidden while a text is split, and shown again.       *)
(***************************************************************************)
LEMMA ProtectedIs ==
  ASSUME NEW t \in Texts
  PROVE  /\ ProtectDecimalPeriods(t) \in Texts /\ Len(ProtectDecimalPeriods(t)) = Len(t)
         /\ \A x \in 1 .. Len(t) : \/ ProtectDecimalPeriods(t)[x] = t[x]
                                   \/ t[x] = Stop /\ ProtectDecimalPeriods(t)[x] = Placeholder
<1> DEFINE u == ProtectDecimalPeriods(t)
           New(x) == IF t[x] = Stop /\ IsDecimalPoint(t)[x] THEN Placeholder ELSE t[x]
<1>1. t \in Seq(DOMAIN Width) /\ Len(t) \in Nat /\ DOMAIN t = 1 .. Len(t)
  BY DEF Texts
<1>2. u = [x \in 1 .. Len(t) |-> New(x)]
  BY <1>1, Zenon DEF ProtectDecimalPeriods
<1>3. Placeholder \in DOMAIN Width
  BY PlaceholderAssumption
<1>4. \A x \in 1 .. Len(t) : New(x) \in DOMAIN Width /\ (New(x) = t[x] \/ (t[x] = Stop /\ New(x) = Placeholder))
  <2>1. \A x \in 1 .. Len(t) : t[x] \in DOMAIN Width
    BY <1>1
  <2> QED
    BY <1>3, <2>1, Zenon
<1> HIDE DEF u, New
<1>5. u \in Seq(DOMAIN Width) /\ Len(u) = Len(t) /\ \A x \in 1 .. Len(t) : u[x] = New(x)
  BY <1>1, <1>2, <1>4
<1> QED
  BY <1>4, <1>5 DEF u, Texts

LEMMA UnprotectedIs ==
  ASSUME NEW c \in Texts
  PROVE  /\ UnprotectDecimalPeriods(c) \in Texts /\ Len(UnprotectDecimalPeriods(c)) = Len(c)
         /\ \A x \in 1 .. Len(c) :
              UnprotectDecimalPeriods(c)[x] = IF c[x] = Placeholder THEN Stop ELSE c[x]
<1>1. c \in Seq(DOMAIN Width) /\ Len(c) \in Nat /\ DOMAIN c = 1 .. Len(c)
  BY DEF Texts
<1>2. Stop \in DOMAIN Width
  BY WidthAssumption
<1> QED
  BY <1>1, <1>2 DEF Texts, UnprotectDecimalPeriods

\* No document holds the placeholder.
Plain(t) == t \in Texts /\ \A x \in 1 .. Len(t) : t[x] # Placeholder

\* A chunk of what is split is, shown again, a part of the text.
LEMMA Restored ==
  ASSUME NEW t, Plain(t), NEW c \in Texts, NEW a, In(c, ProtectDecimalPeriods(t), a)
  PROVE  In(UnprotectDecimalPeriods(c), t, a)
<1> DEFINE u == ProtectDecimalPeriods(t)
           d == UnprotectDecimalPeriods(c)
<1>1. t \in Texts /\ Len(t) \in Nat /\ Len(c) \in Nat
  BY TextConcat DEF Plain
<1>2. /\ Len(u) = Len(t)
      /\ \A x \in 1 .. Len(t) : u[x] = t[x] \/ (t[x] = Stop /\ u[x] = Placeholder)
  BY <1>1, ProtectedIs
<1>3. Len(d) = Len(c) /\ \A x \in 1 .. Len(c) : d[x] = IF c[x] = Placeholder THEN Stop ELSE c[x]
  BY UnprotectedIs
<1>4. In(c, u, a)
  OBVIOUS
<1> HIDE DEF u, d
<1>5. a \in Nat /\ a + Len(c) <= Len(t)
  BY <1>2, <1>4 DEF In
<1>6. ASSUME NEW x \in 1 .. Len(c) PROVE d[x] = t[a + x]
  <2>1. a + x \in 1 .. Len(t)
    BY <1>1, <1>5
  <2>2. c[x] = u[a + x]
    BY <1>4 DEF In
  <2>3. t[a + x] # Placeholder
    BY <2>1 DEF Plain
  <2> QED
    BY <1>2, <1>3, <2>1, <2>2, <2>3
<1>7. In(d, t, a)
  BY <1>3, <1>5, <1>6 DEF In
<1> QED
  BY <1>7 DEF d

\* What may be lost while it is hidden may be lost.
LEMMA LossyRestored ==
  ASSUME NEW o, NEW t \in Texts, NEW x \in 1 .. Len(t), Lossy(ProtectDecimalPeriods(t)[x], o)
  PROVE  Lossy(t[x], o)
<1> DEFINE r == ProtectDecimalPeriods(t)[x]
<1>1. r = t[x] \/ r = Placeholder
  BY ProtectedIs
<1> HIDE DEF r
<1>2. ~Lossy(Placeholder, o)
  <2>1. Placeholder \notin White /\ \A i \in DOMAIN Separators : Placeholder \notin ToSet(Separators[i])
    BY PlaceholderAssumption
  <2>2. \A s \in ToSet(Separators) : Placeholder \notin ToSet(s)
    BY <2>1 DEF ToSet
  <2> QED
    BY <2>1, <2>2 DEF Lossy
<1> QED
  BY <1>1, <1>2 DEF r

-----------------------------------------------------------------------------
(***************************************************************************)
(* The chunks that are kept.                                               *)
(***************************************************************************)
LEMMA AddChunkIs ==
  ASSUME NEW cs \in Docs, NEW c \in Texts
  PROVE  AddChunk(cs, c) \in Docs
<1>1. TrimSpace(c) \in Texts /\ cs \in Seq(Texts)
  BY TrimIs DEF Texts, Docs
<1>2. Append(cs, TrimSpace(c)) \in Seq(Texts)
  BY <1>1, AppendProperties
<1> QED
  BY <1>1, <1>2 DEF AddChunk, Docs

LEMMA ChunkSteps ==
  ASSUME NEW t, NEW o, SplitText(o)[ProtectDecimalPeriods(t)] \in Docs
  PROVE  LET raw == SplitText(o)[ProtectDecimalPeriods(t)]
         IN  \E f : /\ f \in [0 .. Len(raw) -> Docs] /\ f[0] = <<>>
                    /\ \A n \in 1 .. Len(raw) : f[n] = AddChunk(f[n - 1], UnprotectDecimalPeriods(raw[n]))
                    /\ ChunkTextRecursively(t, o) = f[Len(raw)]
<1> DEFINE raw == SplitText(o)[ProtectDecimalPeriods(t)]
           N == Len(raw)
           c(n) == UnprotectDecimalPeriods(raw[n])
           step == [x \in (1 .. N) \X Docs |-> AddChunk(x[2], c(x[1]))]
           Body(f) == [n \in 0 .. N |->
                         IF n = 0 THEN <<>> ELSE AddChunk(f[n - 1], UnprotectDecimalPeriods(raw[n]))]
           h == CHOOSE e : e = Body(e)
<1>0. ChunkTextRecursively(t, o) = h[N]
  BY Zenon DEF ChunkTextRecursively, KeptChunks
<1> HIDE DEF raw
<1>1. N \in Nat /\ <<>> \in Docs /\ \A n \in 1 .. N : c(n) \in Texts
  <2>1. raw \in Seq(Texts)
    BY DEF raw, Docs
  <2>2. N \in Nat /\ \A n \in 1 .. N : raw[n] \in Texts
    BY <2>1
  <2>3. \A n \in 1 .. N : UnprotectDecimalPeriods(raw[n]) \in Texts
    BY <2>2, UnprotectedIs
  <2> QED
    BY <2>2, <2>3, EmptySeq DEF Docs
<1> HIDE DEF c
<1>2. step \in [(1 .. N) \X Docs -> Docs]
  <2>1. ASSUME NEW x \in (1 .. N) \X Docs PROVE AddChunk(x[2], c(x[1])) \in Docs
    <3>1. x[2] \in Docs /\ x[1] \in 1 .. N
      BY <1>1
    <3>2. c(x[1]) \in Texts
      BY <1>1, <3>1
    <3> QED
      BY <3>1, <3>2, AddChunkIs
  <2> QED
    BY <2>1
<1>3. \A n \in 1 .. N, r \in Docs : step[<<n, r>>] = AddChunk(r, c(n))
  OBVIOUS
<1> HIDE DEF step
<1>4. PICK f : Iterates(f, N, Docs, <<>>, step)
  BY <1>1, <1>2, Recursion, Zenon
<1>5. f \in [0 .. N -> Docs] /\ f[0] = <<>>
  BY <1>4 DEF Iterates
<1>6. ASSUME NEW n \in 1 .. N PROVE f[n] = AddChunk(f[n - 1], c(n))
  <2>1. n - 1 \in 0 .. N
    BY <1>1
  <2>2. f[n - 1] \in Docs /\ f[n] = step[<<n, f[n - 1]>>]
    BY <1>4, <1>5, <2>1 DEF Iterates
  <2> QED
    BY <1>3, <2>2
<1>7. f = Body(f)
  <2>1. ASSUME NEW n \in 0 .. N PROVE f[n] = Body(f)[n]
    <3>1. CASE n = 0
      BY <1>5, <3>1
    <3>2. CASE n # 0
      <4>1. n \in 1 .. N
        BY <1>1, <3>2
      <4> QED
        BY <1>6, <3>2, <4>1 DEF c
    <3> QED
      BY <3>1, <3>2
  <2> QED
    BY <1>5, <2>1
<1>8. h = Body(h)
  <2>1. \E e : e = Body(e)
    BY <1>7
  <2> HIDE DEF Body
  <2> QED
    BY <2>1
<1> HIDE DEF h
<1>9. ASSUME NEW n \in 1 .. N, h[n - 1] = f[n - 1] PROVE h[n] = f[n]
  <2>1. n \in 0 .. N /\ n # 0
    BY <1>1
  <2>2. h[n] = AddChunk(h[n - 1], c(n))
    BY <1>8, <2>1 DEF c
  <2> QED
    BY <1>6, <1>9, <2>2
<1>10. h[0] = f[0]
  <2>1. 0 \in 0 .. N
    BY <1>1
  <2> QED
    BY <1>5, <1>8, <2>1
<1> HIDE DEF Body
<1>11. h[N] = f[N]
  BY <1>1, <1>9, <1>10, OneRecursion
<1> QED
  BY <1>0, <1>5, <1>6, <1>11 DEF c, raw

\* cs tiles t as far as the first n parts of raw do, and keeps to the front of the others.
Kept(b, cs, at, raw, n, t, o) ==
  /\ Placed(b, cs)
  /\ \A i \in 1 .. Len(cs) : Lies(cs[i], b[i], t, 0, Len(t), o)
  /\ \A k \in 1 .. n : \A x \in at[k] + 1 .. at[k] + Len(raw[k]) : Lossy(t[x], o) \/ Covered(x, b, cs)
  /\ o.overlap = 0 => /\ InOrder(b, cs)
                      /\ \A i \in 1 .. Len(cs), k \in n + 1 .. Len(raw) : b[i] + Len(cs[i]) <= at[k]

\* A shorter chunk fits where a longer one does.
LEMMA ShorterFits ==
  ASSUME NEW o, IsOptions(o), NEW c \in Texts, NEW d \in Texts, Len(d) <= Len(c), Fits(c, o)
  PROVE  Fits(d, o)
<1>1. PICK s \in ToSet(Separators) : Len(c) <= o.size + Slack(s, o)
  BY DEF Fits
<1> DEFINE m == Slack(s, o)
<1>2. Len(c) \in Nat /\ Len(d) \in Nat /\ o.size \in Nat
  BY TextConcat DEF IsOptions
<1>3. m \in Int
  <2>1. Separators \in Seq(Texts)
    BY SeparatorsAssumption
  <2>2. s \in Texts
    BY <2>1 DEF ToSet
  <2>3. Len(s) \in Nat
    BY <2>2, TextConcat
  <2> QED
    BY <2>3 DEF Slack
<1> HIDE DEF m
<1>4. Len(d) <= o.size + m
  BY <1>1, <1>2, <1>3 DEF m
<1> QED
  BY <1>4 DEF Fits, m

\* One more part of raw.
LEMMA PartKept ==
  ASSUME NEW t, Plain(t), NEW o, IsOptions(o), NEW raw, NEW at, Placed(at, raw),
         Tiles(at, raw, ProtectDecimalPeriods(t), 0, Len(t), o),
         NEW cs, NEW b, NEW m \in 1 .. Len(raw), Kept(b, cs, at, raw, m - 1, t, o)
  PROVE  \E e : Kept(e, AddChunk(cs, UnprotectDecimalPeriods(raw[m])), at, raw, m, t, o)
<1> DEFINE u == ProtectDecimalPeriods(t)
           c == UnprotectDecimalPeriods(raw[m])
           d == TrimSpace(c)
           A == at[m]
           L == Len(cs)
           M == Len(raw)
<1>1. /\ raw \in Seq(Texts) /\ at \in Seq(Nat) /\ Len(at) = M /\ M \in Nat /\ m \in Nat
      /\ b \in Seq(Nat) /\ cs \in Seq(Texts) /\ Len(b) = L /\ L \in Nat
  BY DEF Kept, Placed
<1>2. raw[m] \in Texts /\ t \in Texts /\ Len(t) \in Nat
  BY <1>1, TextConcat DEF Plain
<1>3. /\ c \in Texts /\ Len(c) = Len(raw[m]) /\ d \in Texts /\ Len(c) \in Nat /\ Len(d) \in Nat
      /\ c \in Seq(DOMAIN Width)
  BY <1>2, UnprotectedIs, TrimIs, TextConcat DEF Texts
<1>4. Lies(raw[m], A, u, 0, Len(t), o)
  BY DEF Tiles
<1>5. In(c, t, A) /\ A \in Nat /\ A + Len(c) <= Len(t)
  <2>1. In(raw[m], u, A) /\ A \in Nat /\ A + Len(raw[m]) <= Len(t)
    BY <1>4 DEF Lies
  <2> QED
    BY <1>2, <1>3, <2>1, Restored
<1>6. PICK a : TrimsAt(c, a)
  BY <1>3, TrimIs
<1> HIDE DEF u, c, d
<1>7. a \in Nat /\ a + Len(d) <= Len(c) /\ In(d, c, a)
  BY <1>6 DEF TrimsAt, In, d
<1>8. \A x \in 1 .. Len(c) : c[x] \in White \/ (a < x /\ x <= a + Len(d))
  BY <1>6 DEF TrimsAt, d
<1>9. o.overlap = 0 =>
        /\ InOrder(b, cs)
        /\ \A i \in 1 .. L, k \in m .. M : b[i] + Len(cs[i]) <= at[k]
  <2>1. m - 1 + 1 = m
    BY <1>1
  <2> QED
    BY <2>1 DEF Kept
<1>10. o.overlap = 0 => \A k \in m + 1 .. M : A + Len(c) <= at[k]
  <2>1. ASSUME o.overlap = 0, NEW k \in m + 1 .. M PROVE A + Len(c) <= at[k]
    <3>1. k \in 1 .. Len(raw) /\ m < k
      BY <1>1
    <3>2. InOrder(at, raw)
      BY <2>1 DEF Tiles
    <3> QED
      BY <1>3, <3>1, <3>2 DEF InOrder
  <2> QED
    BY <2>1
<1>11. \A k \in 1 .. m - 1 : \A x \in at[k] + 1 .. at[k] + Len(raw[k]) : Lossy(t[x], o) \/ Covered(x, b, cs)
  BY DEF Kept
<1>12. \A i \in 1 .. L : Lies(cs[i], b[i], t, 0, Len(t), o)
  BY DEF Kept
<1>13. \A k \in 1 .. m : k = m \/ k \in 1 .. m - 1
  BY <1>1
<1>14. CASE d = <<>>
  <2>1. AddChunk(cs, c) = cs
    BY <1>14 DEF AddChunk, d
  <2>2. ASSUME NEW x \in A + 1 .. A + Len(c) PROVE Lossy(t[x], o)
    <3>1. Len(d) = 0
      BY <1>14
    <3> DEFINE y == x - A
    <3>2. y \in 1 .. Len(c) /\ A + y = x
      BY <1>3, <1>5, SMTT(60)
    <3> HIDE DEF y
    <3>3. c[y] = t[x]
      BY <1>5, <3>2 DEF In
    <3>4. c[y] \in White
      BY <1>3, <1>7, <1>8, <3>1, <3>2
    <3> QED
      BY <3>3, <3>4 DEF Lossy
  <2>3. \A k \in 1 .. m : \A x \in at[k] + 1 .. at[k] + Len(raw[k]) : Lossy(t[x], o) \/ Covered(x, b, cs)
    BY <1>3, <1>11, <1>13, <2>2
  <2>4. o.overlap = 0 => \A i \in 1 .. L, k \in m + 1 .. M : b[i] + Len(cs[i]) <= at[k]
    <3>1. \A k \in m + 1 .. M : k \in m .. M
      BY <1>1
    <3> QED
      BY <1>9, <3>1
  <2>5. Placed(b, cs)
    BY <1>1 DEF Placed
  <2>6. Kept(b, cs, at, raw, m, t, o)
    BY <1>9, <1>12, <2>3, <2>4, <2>5 DEF Kept
  <2> QED
    BY <2>1, <2>6 DEF c
<1>15. CASE d # <<>>
  <2> DEFINE ds == Append(cs, d)
             e == Append(b, A + a)
  <2>1. AddChunk(cs, c) = ds
    BY <1>15 DEF AddChunk, d
  <2>2. A + a \in Nat /\ A + a + Len(d) <= A + Len(c)
    BY <1>3, <1>5, <1>7, SMTT(60)
  <2>3. /\ ds \in Seq(Texts) /\ Len(ds) = L + 1 /\ ds[L + 1] = d
        /\ \A i \in 1 .. L : ds[i] = cs[i]
    BY <1>1, <1>3, AppendProperties
  <2>4. /\ e \in Seq(Nat) /\ Len(e) = L + 1 /\ e[L + 1] = A + a
        /\ \A i \in 1 .. L : e[i] = b[i]
    <3> DEFINE q == A + a
    <3>1. q \in Nat
      BY <2>2
    <3> HIDE DEF q
    <3>2. /\ Append(b, q) \in Seq(Nat) /\ Len(Append(b, q)) = Len(b) + 1 /\ Append(b, q)[Len(b) + 1] = q
          /\ \A i \in 1 .. Len(b) : Append(b, q)[i] = b[i]
      BY <1>1, <3>1, AppendProperties
    <3> QED
      BY <1>1, <3>2 DEF q
  <2> HIDE DEF ds, e
  <2>5. \A i \in 1 .. L + 1 : i = L + 1 \/ i \in 1 .. L
    BY <1>1
  <2>6. Lies(d, A + a, t, 0, Len(t), o)
    <3>1. Fits(d, o)
      <4>1. Fits(raw[m], o)
        BY <1>4 DEF Lies
      <4>2. Len(d) <= Len(raw[m])
        BY <1>3, <1>7
      <4> QED
        BY <1>2, <1>3, <4>1, <4>2, ShorterFits
    <3>2. In(d, t, A + a)
      <4>1. d \in Seq(DOMAIN Width) /\ t \in Seq(DOMAIN Width)
        BY <1>2, <1>3 DEF Texts
      <4> QED
        BY <1>3, <1>5, <1>7, <4>1, InIn
    <3>3. 0 <= A + a /\ A + a + Len(d) <= Len(t)
      BY <1>2, <1>3, <1>5, <1>7
    <3> QED
      BY <1>3, <1>15, <2>2, <3>1, <3>2, <3>3 DEF Lies
  <2>7. \A i \in 1 .. L + 1 : Lies(ds[i], e[i], t, 0, Len(t), o)
    BY <1>12, <2>3, <2>4, <2>5, <2>6
  <2>8. ASSUME NEW x, Covered(x, b, cs) PROVE Covered(x, e, ds)
    <3>1. PICK i \in 1 .. L : b[i] < x /\ x <= b[i] + Len(cs[i])
      BY <2>8 DEF Covered
    <3>2. i \in 1 .. Len(ds) /\ e[i] = b[i] /\ ds[i] = cs[i]
      BY <1>1, <2>3, <2>4
    <3> QED
      BY <3>1, <3>2 DEF Covered
  <2>9. ASSUME NEW x \in A + 1 .. A + Len(c) PROVE Lossy(t[x], o) \/ Covered(x, e, ds)
    <3> DEFINE y == x - A
    <3>1. y \in 1 .. Len(c) /\ A + y = x
      BY <1>3, <1>5, SMTT(60)
    <3> HIDE DEF y
    <3>2. c[y] = t[x]
      BY <1>5, <3>1 DEF In
    <3>3. CASE c[y] \in White
      BY <3>2, <3>3 DEF Lossy
    <3>4. CASE c[y] \notin White
      <4>1. a < y /\ y <= a + Len(d)
        BY <1>8, <3>1, <3>4
      <4>2. A + a < x /\ x <= A + a + Len(d)
        BY <1>3, <1>5, <1>7, <3>1, <4>1, SMTT(60)
      <4>3. L + 1 \in 1 .. Len(ds)
        BY <1>1, <2>3
      <4>4. e[L + 1] < x /\ x <= e[L + 1] + Len(ds[L + 1])
        BY <2>3, <2>4, <4>2
      <4> QED
        BY <4>3, <4>4 DEF Covered
    <3> QED
      BY <3>3, <3>4
  <2>10. \A k \in 1 .. m : \A x \in at[k] + 1 .. at[k] + Len(raw[k]) : Lossy(t[x], o) \/ Covered(x, e, ds)
    BY <1>3, <1>11, <1>13, <2>8, <2>9
  <2>11. ASSUME o.overlap = 0, NEW i \in 1 .. L + 1, NEW k \in m + 1 .. M PROVE e[i] + Len(ds[i]) <= at[k]
    <3>1. CASE i \in 1 .. L
      <4>1. k \in m .. M
        BY <1>1
      <4>2. b[i] + Len(cs[i]) <= at[k]
        BY <1>9, <2>11, <3>1, <4>1
      <4> QED
        BY <2>3, <2>4, <3>1, <4>2
    <3>2. CASE i \notin 1 .. L
      <4>1. i = L + 1
        BY <2>5, <3>2
      <4>2. A + Len(c) <= at[k]
        BY <1>10, <2>11
      <4>3. at[k] \in Nat
        <5>1. k \in 1 .. Len(at)
          BY <1>1
        <5> QED
          BY <1>1, <5>1
      <4>4. A + a + Len(d) <= at[k]
        <5> DEFINE q == at[k]
        <5>1. q \in Nat /\ A + Len(c) <= q /\ A + a + Len(d) <= A + Len(c)
          BY <2>2, <4>2, <4>3
        <5>2. A \in Nat /\ a \in Nat /\ Len(d) \in Nat /\ Len(c) \in Nat
          BY <1>3, <1>5, <1>7
        <5> HIDE DEF q, A
        <5>3. A + a + Len(d) <= q
          BY <5>1, <5>2
        <5> QED
          BY <5>3 DEF q
      <4> QED
        BY <2>3, <2>4, <4>1, <4>4
    <3> QED
      BY <3>1, <3>2
  <2>12. ASSUME o.overlap = 0, NEW i \in 1 .. L + 1, NEW j \in 1 .. L + 1, i < j PROVE e[i] + Len(ds[i]) <= e[j]
    <3>1. i \in 1 .. L
      BY <1>1, <2>12
    <3>2. CASE j \in 1 .. L
      <4>1. b[i] + Len(cs[i]) <= b[j]
        BY <1>9, <2>12, <3>1, <3>2 DEF InOrder
      <4> QED
        BY <2>3, <2>4, <3>1, <3>2, <4>1
    <3>3. CASE j \notin 1 .. L
      <4>1. j = L + 1
        BY <2>5, <3>3
      <4>2. m \in m .. M
        BY <1>1
      <4>3. b[i] + Len(cs[i]) <= A
        BY <1>9, <2>12, <3>1, <4>2
      <4>4. b[i] \in Nat /\ Len(cs[i]) \in Nat
        BY <1>12, <3>1 DEF Lies
      <4>5. b[i] + Len(cs[i]) <= A + a
        <5> DEFINE q == b[i]
                   l == Len(cs[i])
        <5>1. q \in Nat /\ l \in Nat /\ q + l <= A /\ A \in Nat /\ a \in Nat
          BY <1>5, <1>7, <4>3, <4>4
        <5> HIDE DEF q, l, A
        <5>2. q + l <= A + a
          BY <5>1
        <5> QED
          BY <5>2 DEF q, l
      <4> QED
        BY <2>3, <2>4, <3>1, <4>1, <4>5
    <3> QED
      BY <3>2, <3>3
  <2>13. Placed(e, ds)
    BY <2>3, <2>4 DEF Placed
  <2>14. o.overlap = 0 => InOrder(e, ds)
    BY <2>3, <2>12 DEF InOrder
  <2>15. /\ \A i \in 1 .. Len(ds) : Lies(ds[i], e[i], t, 0, Len(t), o)
         /\ o.overlap = 0 => \A i \in 1 .. Len(ds), k \in m + 1 .. Len(raw) : e[i] + Len(ds[i]) <= at[k]
    <3>1. Len(ds) = L + 1
      BY <2>3
    <3>2. o.overlap = 0 => \A i \in 1 .. L + 1, k \in m + 1 .. M : e[i] + Len(ds[i]) <= at[k]
      BY <2>11
    <3> HIDE DEF L
    <3> QED
      BY <2>7, <3>1, <3>2
  <2>16. Kept(e, ds, at, raw, m, t, o)
    BY <2>10, <2>13, <2>14, <2>15, Zenon DEF Kept
  <2> QED
    BY <2>1, <2>16 DEF c
<1> QED
  BY <1>14, <1>15

(***************************************************************************)
(* What ChunkTextRecursively returns for a text tiles it: each chunk is a  *)
(* part of the text, not empty, and fits the chunk size; a rune in no chunk *)
(* is white space or of a separator that is not kept; and without overlap  *)
(* each chunk begins behind the one before (recursive_split.go).           *)
(***************************************************************************)
THEOREM ChunksTile ==
  ASSUME NEW t, Plain(t), NEW o, IsOptions(o)
  PROVE  /\ ChunkTextRecursively(t, o) \in Docs
         /\ Tiled(ChunkTextRecursively(t, o), t, 0, Len(t), o)
<1> DEFINE u == ProtectDecimalPeriods(t)
           raw == SplitText(o)[u]
           M == Len(raw)
<1>1. t \in Texts /\ u \in Texts /\ Len(u) = Len(t) /\ Len(t) \in Nat
  BY ProtectedIs, TextConcat DEF Plain
<1>2. raw \in Docs /\ Tiled(raw, u, 0, Len(t), o)
  <2> HIDE DEF u
  <2> QED
    BY <1>1, SplitTextTiles
<1>3. PICK f : /\ f \in [0 .. M -> Docs] /\ f[0] = <<>>
               /\ \A n \in 1 .. M : f[n] = AddChunk(f[n - 1], UnprotectDecimalPeriods(raw[n]))
               /\ ChunkTextRecursively(t, o) = f[M]
  BY <1>2, ChunkSteps
<1> HIDE DEF raw
<1>4. PICK at : Placed(at, raw) /\ Tiles(at, raw, u, 0, Len(t), o)
  BY <1>2 DEF Tiled
<1>5. M \in Nat /\ 0 \in 0 .. M /\ M \in 0 .. M
  <2>1. at \in Seq(Nat) /\ Len(at) = M
    BY <1>4, Zenon DEF Placed
  <2>2. Len(at) \in Nat
    BY <2>1
  <2> HIDE DEF M
  <2> QED
    BY <2>1, <2>2
<1> DEFINE S == {n \in 0 .. M : \E b : Kept(b, f[n], at, raw, n, t, o)}
<1>6. 0 \in S
  <2>1. Placed(<<>>, <<>>) /\ Len(<<>>) = 0
    BY DEF Placed
  <2>2. 1 .. Len(<<>>) = {} /\ 1 .. 0 = {}
    BY <2>1
  <2>3. Kept(<<>>, <<>>, at, raw, 0, t, o)
    BY <2>1, <2>2 DEF Kept, InOrder
  <2> QED
    BY <1>3, <1>5, <2>3
<1>7. ASSUME NEW n \in 1 .. M, n - 1 \in S PROVE n \in S
  <2>1. PICK b : Kept(b, f[n - 1], at, raw, n - 1, t, o)
    BY <1>7
  <2>2. \E e : Kept(e, AddChunk(f[n - 1], UnprotectDecimalPeriods(raw[n])), at, raw, n, t, o)
    BY <1>4, <2>1, PartKept
  <2>3. n \in 0 .. M /\ f[n] = AddChunk(f[n - 1], UnprotectDecimalPeriods(raw[n]))
    BY <1>3, <1>5
  <2> QED
    BY <2>2, <2>3
<1> HIDE DEF S
<1>8. M \in S
  BY <1>5, <1>6, <1>7, UpTo
<1>9. PICK b : Kept(b, f[M], at, raw, M, t, o)
  BY <1>8 DEF S
<1> DEFINE cs == f[M]
<1>10. cs \in Docs
  BY <1>3, <1>5
<1> HIDE DEF cs, u
<1>11. ASSUME NEW x \in 0 + 1 .. Len(t) PROVE Lossy(t[x], o) \/ Covered(x, b, cs)
  <2>1. CASE Covered(x, at, raw)
    <3>1. PICK k \in 1 .. M : at[k] < x /\ x <= at[k] + Len(raw[k])
      BY <2>1 DEF Covered
    <3>2. at[k] \in Nat /\ Len(raw[k]) \in Nat
      BY <1>4 DEF Tiles, Lies
    <3>3. x \in at[k] + 1 .. at[k] + Len(raw[k])
      BY <1>1, <3>1, <3>2
    <3> QED
      BY <1>9, <3>3 DEF Kept, cs
  <2>2. CASE ~Covered(x, at, raw)
    <3>1. x \in 1 .. Len(t)
      BY <1>1
    <3>2. Lossy(u[x], o)
      BY <1>4, <2>2 DEF Tiles
    <3> QED
      BY <1>1, <3>1, <3>2, LossyRestored DEF u
  <2> QED
    BY <2>1, <2>2
<1>12. Placed(b, cs) /\ Tiles(b, cs, t, 0, Len(t), o)
  BY <1>9, <1>11 DEF Kept, Tiles, cs
<1> QED
  BY <1>3, <1>10, <1>12 DEF Tiled, cs

-----------------------------------------------------------------------------
(***************************************************************************)
(* The rows of a record.                                                   *)
(***************************************************************************)
\* A chunk, a place of it in t, and the offset of that place.
Row(c, i, t) == [text |-> c, at |-> i, offset |-> ByteOffset(t, i)]

Found(t) ==
  {r \in [text : Texts, at : Nat \ {0}, offset : Nat] :
     r.at \in Places(t, r.text) /\ r.offset = ByteOffset(t, r.at)}

Progress(t) == [ok : BOOLEAN, start : Nat, rows : Seq(Found(t))]

NoRows == [ok |-> TRUE, start |-> 0, rows |-> <<>>]

Behind(s, t, c) == {i \in Places(t, c) : i > s.start}

LEMMA RowIs ==
  ASSUME NEW t \in Texts, NEW c \in Texts, NEW i \in Places(t, c)
  PROVE  i \in Nat \ {0} /\ Row(c, i, t) \in Found(t)
<1>1. t \in Seq(DOMAIN Width) /\ c \in Seq(DOMAIN Width) /\ Len(t) \in Nat /\ Len(c) \in Nat
  BY TextConcat DEF Texts
<1>2. i \in Nat \ {0} /\ In(c, t, i - 1)
  BY <1>1, PlacesAre
<1> DEFINE n == i + Len(c) - 1
<1>3. n \in Nat /\ i <= n + 1 /\ n <= Len(t)
  BY <1>1, <1>2 DEF In
<1> HIDE DEF n
<1>4. ByteOffset(t, i) \in Nat
  BY <1>1, <1>2, <1>3, OffsetIs
<1> QED
  BY <1>2, <1>4 DEF Row, Found

LEMMA AddRowIs ==
  ASSUME NEW t \in Texts, NEW c \in Texts, NEW s \in Progress(t)
  PROVE  /\ AddRow(s, t, c) \in Progress(t)
         /\ ~s.ok \/ Behind(s, t, c) = {} => AddRow(s, t, c) = [s EXCEPT !.ok = FALSE]
         /\ s.ok /\ Behind(s, t, c) # {} =>
              /\ Min(Behind(s, t, c)) \in Behind(s, t, c)
              /\ \A i \in Behind(s, t, c) : Min(Behind(s, t, c)) <= i
              /\ AddRow(s, t, c) = [ok |-> TRUE, start |-> Min(Behind(s, t, c)),
                                    rows |-> Append(s.rows, Row(c, Min(Behind(s, t, c)), t))]
<1> DEFINE B == Behind(s, t, c)
           i == Min(B)
<1>1. s.rows \in Seq(Found(t)) /\ s.start \in Nat /\ s.ok \in BOOLEAN
  BY DEF Progress
<1>2. CASE ~s.ok \/ B = {}
  <2>1. AddRow(s, t, c) = [s EXCEPT !.ok = FALSE]
    BY <1>2, Zenon DEF AddRow, Behind
  <2>2. [s EXCEPT !.ok = FALSE] \in Progress(t)
    BY DEF Progress
  <2>3. ~(s.ok /\ B # {})
    BY <1>2
  <2> HIDE DEF B, i
  <2> QED
    BY <2>1, <2>2, <2>3 DEF B
<1>3. CASE s.ok /\ B # {}
  <2>1. B \in SUBSET Nat
    <3>1. \A k \in Places(t, c) : k \in Nat
      BY RowIs
    <3> QED
      BY <3>1 DEF Behind
  <2>2. i \in B /\ \A k \in B : i <= k
    <3> HIDE DEF B
    <3> QED
      BY <1>3, <2>1, MinIs
  <2>3. AddRow(s, t, c) = [ok |-> TRUE, start |-> i, rows |-> Append(s.rows, Row(c, i, t))]
    BY <1>3, Zenon DEF AddRow, Behind, Row
  <2>4. i \in Nat /\ Row(c, i, t) \in Found(t)
    <3>1. i \in Places(t, c)
      BY <2>2 DEF Behind
    <3> HIDE DEF i
    <3> QED
      BY <3>1, RowIs
  <2> HIDE DEF i
  <2>5. Append(s.rows, Row(c, i, t)) \in Seq(Found(t))
    <3> DEFINE q == s.rows
               r == Row(c, i, t)
               F == Found(t)
    <3>1. q \in Seq(F) /\ r \in F
      BY <1>1, <2>4
    <3> HIDE DEF q, r, F
    <3>2. Append(q, r) \in Seq(F)
      BY <3>1, AppendProperties
    <3> QED
      BY <3>2 DEF q, r, F
  <2>6. [ok |-> TRUE, start |-> i, rows |-> Append(s.rows, Row(c, i, t))] \in Progress(t)
    BY <2>4, <2>5 DEF Progress
  <2> QED
    BY <1>3, <2>2, <2>3, <2>6 DEF i
<1> HIDE DEF B
<1> QED
  BY <1>2, <1>3

LEMMA RowSteps ==
  ASSUME NEW t \in Texts, NEW o, ChunkTextRecursively(t, o) \in Docs
  PROVE  LET cs == ChunkTextRecursively(t, o)
         IN  \E f : /\ f \in [0 .. Len(cs) -> Progress(t)] /\ f[0] = NoRows
                    /\ \A n \in 1 .. Len(cs) : f[n] = AddRow(f[n - 1], t, cs[n])
                    /\ SplitRecord(t, o) = f[Len(cs)]
<1> DEFINE cs == ChunkTextRecursively(t, o)
           N == Len(cs)
           P == Progress(t)
           step == [x \in (1 .. N) \X P |-> AddRow(x[2], t, cs[x[1]])]
           Body(f) == [n \in 0 .. N |->
                         IF n = 0 THEN [ok |-> TRUE, start |-> 0, rows |-> <<>>]
                         ELSE AddRow(f[n - 1], t, cs[n])]
           h == CHOOSE e : e = Body(e)
<1>0. SplitRecord(t, o) = h[N]
  BY Zenon DEF SplitRecord, Located
<1> HIDE DEF cs
<1>1. N \in Nat /\ NoRows \in P /\ \A n \in 1 .. N : cs[n] \in Texts
  <2>1. cs \in Seq(Texts)
    BY DEF cs, Docs
  <2>2. <<>> \in Seq(Found(t))
    BY EmptySeq
  <2>3. NoRows \in Progress(t)
    BY <2>2 DEF NoRows, Progress
  <2> QED
    BY <2>1, <2>3
<1> HIDE DEF P
<1>2. step \in [(1 .. N) \X P -> P]
  <2>1. ASSUME NEW x \in (1 .. N) \X P PROVE AddRow(x[2], t, cs[x[1]]) \in P
    <3>1. x[2] \in P /\ x[1] \in 1 .. N
      BY <1>1
    <3>2. cs[x[1]] \in Texts
      BY <1>1, <3>1
    <3> QED
      BY <3>1, <3>2, AddRowIs DEF P
  <2> QED
    BY <2>1
<1>3. \A n \in 1 .. N, r \in P : step[<<n, r>>] = AddRow(r, t, cs[n])
  OBVIOUS
<1> HIDE DEF step
<1>4. PICK f : Iterates(f, N, P, NoRows, step)
  BY <1>1, <1>2, Recursion, Zenon
<1>5. f \in [0 .. N -> P] /\ f[0] = NoRows
  BY <1>4 DEF Iterates
<1>6. ASSUME NEW n \in 1 .. N PROVE f[n] = AddRow(f[n - 1], t, cs[n])
  <2>1. n - 1 \in 0 .. N
    BY <1>1
  <2>2. f[n - 1] \in P /\ f[n] = step[<<n, f[n - 1]>>]
    BY <1>4, <1>5, <2>1 DEF Iterates
  <2> QED
    BY <1>3, <2>2
<1>7. f = Body(f)
  <2>1. ASSUME NEW n \in 0 .. N PROVE f[n] = Body(f)[n]
    <3>1. CASE n = 0
      BY <1>5, <3>1 DEF NoRows
    <3>2. CASE n # 0
      <4>1. n \in 1 .. N
        BY <1>1, <3>2
      <4> QED
        BY <1>6, <3>2, <4>1
    <3> QED
      BY <3>1, <3>2
  <2> QED
    BY <1>5, <2>1
<1>8. h = Body(h)
  <2>1. \E e : e = Body(e)
    BY <1>7
  <2> HIDE DEF Body
  <2> QED
    BY <2>1
<1> HIDE DEF h
<1>9. ASSUME NEW n \in 1 .. N, h[n - 1] = f[n - 1] PROVE h[n] = f[n]
  <2>1. n \in 0 .. N /\ n # 0
    BY <1>1
  <2>2. h[n] = AddRow(h[n - 1], t, cs[n])
    BY <1>8, <2>1
  <2> QED
    BY <1>6, <1>9, <2>2
<1>10. h[0] = f[0]
  <2>1. 0 \in 0 .. N
    BY <1>1
  <2> QED
    BY <1>5, <1>8, <2>1 DEF NoRows
<1> HIDE DEF Body
<1>11. h[N] = f[N]
  BY <1>1, <1>9, <1>10, OneRecursion
<1> QED
  BY <1>0, <1>5, <1>6, <1>11 DEF cs, P

\* The rows are the chunks in their order, each at a place of it.
LEMMA RecordIs ==
  ASSUME NEW t \in Texts, NEW o, ChunkTextRecursively(t, o) \in Docs
  PROVE  /\ SplitRecord(t, o) \in Progress(t)
         /\ SplitRecord(t, o).ok =>
              /\ Len(SplitRecord(t, o).rows) = Len(ChunkTextRecursively(t, o))
              /\ \A i \in 1 .. Len(ChunkTextRecursively(t, o)) :
                   SplitRecord(t, o).rows[i].text = ChunkTextRecursively(t, o)[i]
<1> DEFINE cs == ChunkTextRecursively(t, o)
           N == Len(cs)
<1>1. PICK f : /\ f \in [0 .. N -> Progress(t)] /\ f[0] = NoRows
               /\ \A n \in 1 .. N : f[n] = AddRow(f[n - 1], t, cs[n])
               /\ SplitRecord(t, o) = f[N]
  BY RowSteps
<1> HIDE DEF cs
<1>2. N \in Nat /\ N \in 0 .. N /\ 0 \in 0 .. N /\ \A n \in 1 .. N : cs[n] \in Texts
  <2>1. cs \in Seq(Texts)
    BY DEF cs, Docs
  <2>2. N \in Nat
    BY <2>1
  <2> HIDE DEF N
  <2> QED
    BY <2>1, <2>2 DEF N
<1> HIDE DEF N
<1> DEFINE Same(n) == Len(f[n].rows) = n /\ \A i \in 1 .. n : f[n].rows[i].text = cs[i]
           S == {n \in 0 .. N : f[n].ok => Same(n)}
<1>3. 0 \in S
  <2>1. f[0].rows = <<>>
    BY <1>1 DEF NoRows
  <2>2. Len(f[0].rows) = 0 /\ 1 .. 0 = {}
    BY <2>1
  <2> QED
    BY <1>2, <2>2
<1>4. ASSUME NEW n \in 1 .. N, n - 1 \in S PROVE n \in S
  <2> DEFINE s == f[n - 1]
             c == cs[n]
             q == s.rows
             B == Behind(s, t, c)
             r == Row(c, Min(B), t)
  <2>1. s \in Progress(t) /\ c \in Texts /\ n \in 0 .. N /\ n - 1 \in 0 .. N
    BY <1>1, <1>2
  <2>2. f[n] = AddRow(s, t, c)
    BY <1>1
  <2>3. ASSUME f[n].ok PROVE Same(n)
    <3> HIDE DEF s, c
    <3>1. s.ok /\ B # {}
      <4>1. ~s.ok \/ B = {} => f[n] = [s EXCEPT !.ok = FALSE]
        BY <2>1, <2>2, AddRowIs
      <4>2. [s EXCEPT !.ok = FALSE].ok = FALSE
        BY <2>1 DEF Progress
      <4> HIDE DEF B
      <4> QED
        BY <2>3, <4>1, <4>2
    <3>2. f[n] = [ok |-> TRUE, start |-> Min(B), rows |-> Append(q, r)]
      BY <2>1, <2>2, <3>1, AddRowIs
    <3>3. f[n].rows = Append(q, r) /\ r.text = c
      BY <3>2 DEF Row
    <3>4. Len(q) = n - 1 /\ \A i \in 1 .. n - 1 : q[i].text = cs[i]
      BY <1>4, <3>1 DEF s
    <3>5. q \in Seq(Found(t))
      BY <2>1 DEF Progress
    <3>6. r \in Found(t)
      <4>1. Append(q, r) \in Seq(Found(t))
        <5>1. f[n] \in Progress(t)
          BY <1>1, <2>1
        <5> QED
          BY <3>3, <5>1 DEF Progress
      <4>2. B # {} /\ Min(B) \in B
        BY <2>1, <3>1, AddRowIs
      <4>3. Min(B) \in Places(t, c)
        BY <4>2 DEF Behind
      <4> HIDE DEF B
      <4> QED
        BY <2>1, <4>3, RowIs
    <3> HIDE DEF q, r
    <3> DEFINE F == Found(t)
    <3>7. /\ Len(Append(q, r)) = Len(q) + 1 /\ Append(q, r)[Len(q) + 1] = r
          /\ \A i \in 1 .. Len(q) : Append(q, r)[i] = q[i]
      <4>1. q \in Seq(F) /\ r \in F
        BY <3>5, <3>6
      <4> HIDE DEF F
      <4> QED
        BY <4>1, AppendProperties
    <3>8. n - 1 + 1 = n /\ \A i \in 1 .. n : i = n \/ i \in 1 .. n - 1
      BY <2>1
    <3>9. Len(Append(q, r)) = n /\ \A i \in 1 .. n : Append(q, r)[i].text = cs[i]
      BY <3>3, <3>4, <3>7, <3>8 DEF c
    <3> QED
      BY <3>3, <3>9
  <2> QED
    BY <2>1, <2>3
<1> HIDE DEF S
<1>5. N \in S
  BY <1>2, <1>3, <1>4, UpTo
<1>6. f[N] \in Progress(t)
  BY <1>1, <1>2
<1> QED
  BY <1>1, <1>5, <1>6 DEF S, N, cs

(***************************************************************************)
(* SplitRecord finds every chunk of every text that is split without       *)
(* overlap: the search after the start of the chunk before (ndjson.go:123) *)
(* never passes the place the chunk was cut from.                          *)
(***************************************************************************)
THEOREM AllFound ==
  ASSUME NEW t, Plain(t), NEW o, IsOptions(o), o.overlap = 0
  PROVE  SplitRecord(t, o).ok
<1> DEFINE cs == ChunkTextRecursively(t, o)
           N == Len(cs)
<1>1. t \in Texts /\ cs \in Docs /\ Tiled(cs, t, 0, Len(t), o)
  BY ChunksTile DEF Plain
<1>2. PICK f : /\ f \in [0 .. N -> Progress(t)] /\ f[0] = NoRows
               /\ \A n \in 1 .. N : f[n] = AddRow(f[n - 1], t, cs[n])
               /\ SplitRecord(t, o) = f[N]
  BY <1>1, RowSteps
<1> HIDE DEF cs
<1>3. PICK at : Placed(at, cs) /\ Tiles(at, cs, t, 0, Len(t), o)
  BY <1>1 DEF Tiled
<1>4. InOrder(at, cs) /\ \A i \in 1 .. N : Lies(cs[i], at[i], t, 0, Len(t), o)
  BY <1>3 DEF Tiles
<1>5. N \in Nat /\ N \in 0 .. N /\ 0 \in 0 .. N /\ \A n \in 1 .. N : cs[n] \in Texts
  <2>1. cs \in Seq(Texts)
    BY <1>1 DEF Docs
  <2>2. N \in Nat
    BY <2>1
  <2> HIDE DEF N
  <2> QED
    BY <2>1, <2>2 DEF N
<1>6. ASSUME NEW i \in 1 .. N
      PROVE  at[i] \in Nat /\ Len(cs[i]) \in Nat /\ 0 < Len(cs[i]) /\ at[i] + 1 \in Places(t, cs[i])
  <2> DEFINE c == cs[i]
  <2>1. c \in Seq(DOMAIN Width) /\ t \in Seq(DOMAIN Width)
    BY <1>1, <1>5 DEF Texts
  <2>2. at[i] \in Nat /\ Len(c) \in Nat /\ c # <<>> /\ In(c, t, at[i])
    BY <1>4 DEF Lies
  <2> HIDE DEF c
  <2>3. 0 < Len(c)
    BY <2>1, <2>2
  <2>4. at[i] + 1 \in Places(t, c)
    BY <2>1, <2>2, PlacesAre
  <2> QED
    BY <2>2, <2>3, <2>4 DEF c
<1>7. ASSUME NEW i \in 1 .. N, NEW j \in 1 .. N, i < j PROVE at[i] + Len(cs[i]) <= at[j]
  BY <1>4, <1>7 DEF InOrder
<1> HIDE DEF N
<1> DEFINE Far(n) == f[n].start <= IF n = 0 THEN 0 ELSE at[n] + 1
           S == {n \in 0 .. N : f[n].ok /\ Far(n)}
<1>8. 0 \in S
  <2>1. f[0].ok /\ f[0].start = 0
    BY <1>2 DEF NoRows
  <2> QED
    BY <1>5, <2>1
<1>9. ASSUME NEW n \in 1 .. N, n - 1 \in S PROVE n \in S
  <2> DEFINE s == f[n - 1]
             c == cs[n]
             B == Behind(s, t, c)
             a == at[n]
             e == s.start
  <2>1. s \in Progress(t) /\ c \in Texts /\ n \in 0 .. N /\ n - 1 \in 0 .. N /\ f[n] = AddRow(s, t, c)
    BY <1>2, <1>5
  <2>2. s.ok /\ e \in Nat /\ a \in Nat
    <3>1. s.ok
      BY <1>9
    <3>2. e \in Nat
      <4> HIDE DEF s
      <4> QED
        BY <2>1 DEF Progress
    <3> QED
      BY <1>6, <3>1, <3>2
  <2>3. e < a + 1
    <3>1. CASE n - 1 = 0
      <4>1. f[0].start <= 0
        BY <1>2 DEF NoRows
      <4>2. e = f[0].start
        BY <3>1
      <4> HIDE DEF e, a
      <4> QED
        BY <2>2, <4>1, <4>2
    <3>2. CASE n - 1 # 0
      <4> DEFINE b == at[n - 1]
                 l == Len(cs[n - 1])
      <4>1. n - 1 \in 1 .. N /\ n - 1 < n
        BY <1>5, <2>1, <3>2
      <4>2. b \in Nat /\ l \in Nat /\ 0 < l
        BY <1>6, <4>1
      <4>3. b + l <= a
        BY <1>7, <4>1
      <4>4. e <= b + 1
        BY <1>9, <3>2
      <4> HIDE DEF e, a, b, l
      <4> QED
        BY <2>2, <4>2, <4>3, <4>4
    <3> QED
      BY <3>1, <3>2
  <2>4. a + 1 \in B
    <3>1. a + 1 \in Places(t, c)
      BY <1>6
    <3> HIDE DEF s, c, a
    <3>2. a + 1 > s.start
      BY <2>2, <2>3
    <3> QED
      BY <3>1, <3>2 DEF Behind
  <2> HIDE DEF s, c, a, B, e
  <2>5. /\ \A i \in B : Min(B) <= i
        /\ AddRow(s, t, c) = [ok |-> TRUE, start |-> Min(B), rows |-> Append(s.rows, Row(c, Min(B), t))]
    <3>1. B # {} /\ s.ok
      BY <2>2, <2>4
    <3>2. s.ok /\ Behind(s, t, c) # {} =>
            /\ \A i \in Behind(s, t, c) : Min(Behind(s, t, c)) <= i
            /\ AddRow(s, t, c) = [ok |-> TRUE, start |-> Min(Behind(s, t, c)),
                                  rows |-> Append(s.rows, Row(c, Min(Behind(s, t, c)), t))]
      BY <1>1, <2>1, AddRowIs
    <3> QED
      BY <3>1, <3>2 DEF B
  <2>6. Min(B) <= a + 1
    BY <2>4, <2>5
  <2>7. f[n].ok /\ f[n].start = Min(B)
    <3>1. f[n] = AddRow(s, t, c)
      BY <2>1
    <3> QED
      BY <2>5, <3>1
  <2>8. n # 0
    BY <2>1
  <2> QED
    BY <2>1, <2>6, <2>7, <2>8 DEF a
<1> HIDE DEF S
<1>10. N \in S
  BY <1>5, <1>8, <1>9, UpTo
<1> QED
  BY <1>2, <1>10 DEF S, N

(***************************************************************************)
(* When SplitRecord finds the chunks of a text, each fits the chunk size;  *)
(* and if each has one place in the text, the offsets in its rows cover all *)
(* but white space and the separators that are not kept (ndjson.go:102).   *)
(***************************************************************************)
THEOREM NothingLost ==
  ASSUME NEW t, Plain(t), NEW o, IsOptions(o), SplitRecord(t, o).ok
  PROVE  /\ \A r \in ToSet(SplitRecord(t, o).rows) : Fits(r.text, o) /\ r.text # <<>>
         /\ (\A r \in ToSet(SplitRecord(t, o).rows) : Places(t, r.text) = {r.at}) =>
              \A x \in 1 .. Len(t) : \/ Lossy(t[x], o)
                                     \/ \E r \in ToSet(SplitRecord(t, o).rows) : x \in r.at .. r.at + Len(r.text) - 1
<1> DEFINE cs == ChunkTextRecursively(t, o)
           rows == SplitRecord(t, o).rows
           N == Len(cs)
<1>1. t \in Texts /\ cs \in Docs /\ Tiled(cs, t, 0, Len(t), o)
  BY ChunksTile DEF Plain
<1>2. SplitRecord(t, o) \in Progress(t) /\ Len(rows) = N /\ \A i \in 1 .. N : rows[i].text = cs[i]
  BY <1>1, RecordIs
<1>3. rows \in Seq(Found(t))
  BY <1>2 DEF Progress
<1> HIDE DEF cs, rows
<1>4. PICK at : Placed(at, cs) /\ Tiles(at, cs, t, 0, Len(t), o)
  BY <1>1 DEF Tiled
<1>5. \A i \in 1 .. N : Lies(cs[i], at[i], t, 0, Len(t), o)
  BY <1>4 DEF Tiles
<1>6. N \in Nat /\ \A i \in 1 .. N : cs[i] \in Texts
  BY <1>1 DEF Docs
<1>7. /\ \A r \in ToSet(rows) : \E i \in 1 .. N : r = rows[i]
      /\ \A i \in 1 .. N : rows[i] \in ToSet(rows) /\ rows[i] \in Found(t)
  BY <1>2, <1>3 DEF ToSet
<1>8. ASSUME NEW r \in ToSet(rows) PROVE Fits(r.text, o) /\ r.text # <<>>
  <2>1. PICK i \in 1 .. N : r = rows[i]
    BY <1>7
  <2>2. r.text = cs[i]
    BY <1>2, <2>1
  <2> QED
    BY <1>5, <2>2 DEF Lies
<1>9. ASSUME \A r \in ToSet(rows) : Places(t, r.text) = {r.at},
             NEW x \in 1 .. Len(t), ~Lossy(t[x], o)
      PROVE  \E r \in ToSet(rows) : x \in r.at .. r.at + Len(r.text) - 1
  <2>1. Covered(x, at, cs)
    <3>1. x \in 0 + 1 .. Len(t)
      OBVIOUS
    <3> QED
      BY <1>4, <1>9, <3>1 DEF Tiles
  <2>2. PICK i \in 1 .. N : at[i] < x /\ x <= at[i] + Len(cs[i])
    BY <2>1 DEF Covered
  <2> DEFINE r == rows[i]
             c == cs[i]
  <2>3. r \in ToSet(rows) /\ r.text = c /\ c \in Texts
    BY <1>2, <1>6, <1>7
  <2>4. Places(t, c) = {r.at}
    <3> HIDE DEF c, r
    <3> QED
      BY <1>9, <2>3
  <2>5. at[i] \in Nat /\ Len(c) \in Nat /\ In(c, t, at[i])
    BY <1>5 DEF Lies
  <2>6. at[i] < x /\ x <= at[i] + Len(c)
    BY <2>2
  <2> HIDE DEF r, c
  <2>7. at[i] + 1 \in Places(t, c)
    <3>1. c \in Seq(DOMAIN Width) /\ t \in Seq(DOMAIN Width)
      BY <1>1, <2>3 DEF Texts
    <3> QED
      BY <2>5, <3>1, PlacesAre
  <2>8. r.at = at[i] + 1
    BY <2>4, <2>7
  <2>9. x \in r.at .. r.at + Len(r.text) - 1
    BY <2>3, <2>5, <2>6, <2>8
  <2> QED
    BY <2>3, <2>9
<1> QED
  BY <1>8, <1>9 DEF rows

=============================================================================
