------------------------ MODULE ContentPagingProofs ------------------------
(***************************************************************************)
(* Proofs about ContentPaging, for documents of any length, any chunk      *)
(* options, any limits and any number of pages.                            *)
(***************************************************************************)
EXTENDS ContentPaging, ChunkSplitProofs

-----------------------------------------------------------------------------
(***************************************************************************)
(* Bytes as text.                                                          *)
(***************************************************************************)
\* What ToValidUTF8 makes of the i-th byte.
Whole(bs, i) == \A b \in 1 .. Width[bs[i][1]] :
                  i + b - 1 <= Len(bs) /\ bs[i + b - 1] = <<bs[i][1], b>>
Valid(bs, i) == \E k \in 1 .. i : Whole(bs, k) /\ i < k + Width[bs[k][1]]
Shown(bs, i) ==
  IF Valid(bs, i) THEN IF Whole(bs, i) THEN <<bs[i][1]>> ELSE <<>>
  ELSE IF i > 1 /\ ~Valid(bs, i - 1) THEN <<>> ELSE <<Invalid>>

LEMMA TextSteps ==
  ASSUME NEW R, NEW bs \in Seq(R \X Nat)
  PROVE  \E f : /\ f \in [0 .. Len(bs) -> Seq(R \cup {Invalid})] /\ f[0] = <<>>
                /\ \A n \in 1 .. Len(bs) : f[n] = f[n - 1] \o Shown(bs, n)
                /\ ToValidUTF8(bs) = f[Len(bs)]
<1> DEFINE ss == [i \in DOMAIN bs |-> Shown(bs, i)]
           V == R \cup {Invalid}
<1>1. DOMAIN bs = 1 .. Len(bs) /\ Len(bs) \in Nat /\ \A i \in 1 .. Len(bs) : bs[i][1] \in R
  OBVIOUS
<1>2. ASSUME NEW i \in 1 .. Len(bs) PROVE Shown(bs, i) \in Seq(V)
  <2>1. <<bs[i][1]>> \in Seq(V) /\ <<Invalid>> \in Seq(V) /\ <<>> \in Seq(V)
    BY <1>1
  <2> QED
    BY <2>1, Zenon DEF Shown
<1>3. ss \in [1 .. Len(bs) -> Seq(V)]
  BY <1>1, <1>2
<1>4. ss \in Seq(Seq(V)) /\ Len(ss) = Len(bs)
  BY <1>1, <1>3
<1>5. \A n \in 1 .. Len(bs) : ss[n] = Shown(bs, n)
  BY <1>1
<1>6. ToValidUTF8(bs) = FlattenSeq(ss)
  BY Zenon DEF ToValidUTF8, Shown, Valid, Whole
<1> HIDE DEF ss, V
<1>7. PICK f : /\ f \in [0 .. Len(ss) -> Seq(V)] /\ f[0] = <<>>
               /\ \A n \in 1 .. Len(ss) : f[n] = f[n - 1] \o ss[n]
               /\ FlattenSeq(ss) = f[Len(ss)]
  BY <1>4, FlattenSteps
<1> QED
  BY <1>4, <1>5, <1>6, <1>7 DEF V

LEMMA TextIs ==
  ASSUME NEW R, NEW bs \in Seq(R \X Nat)
  PROVE  ToValidUTF8(bs) \in Seq(R \cup {Invalid})
<1>1. PICK f : f \in [0 .. Len(bs) -> Seq(R \cup {Invalid})] /\ ToValidUTF8(bs) = f[Len(bs)]
  BY TextSteps
<1>2. Len(bs) \in 0 .. Len(bs)
  OBVIOUS
<1> QED
  BY <1>1, <1>2

\* The bytes of a rune become that rune at its first byte.
LEMMA RuneShown ==
  ASSUME NEW V, NEW bs \in Seq(V), NEW a \in Nat, NEW r, Width[r] \in Nat \ {0},
         a + Width[r] <= Len(bs),
         \A b \in 1 .. Width[r] : bs[a + b] = <<r, b>>
  PROVE  Shown(bs, a + 1) = <<r>> /\ \A b \in 2 .. Width[r] : Shown(bs, a + b) = <<>>
<1>1. Width[r] \in Nat \ {0} /\ Len(bs) \in Nat
  OBVIOUS
<1>2. \A b \in 1 .. Width[r] : bs[a + b][1] = r
  OBVIOUS
<1>3. bs[a + 1] = <<r, 1>> /\ bs[a + 1][1] = r
  BY <1>1, <1>2
<1>4. Whole(bs, a + 1)
  <2>1. ASSUME NEW b \in 1 .. Width[r]
        PROVE  a + 1 + b - 1 <= Len(bs) /\ bs[a + 1 + b - 1] = <<r, b>>
    <3>1. a + 1 + b - 1 = a + b /\ a + b <= Len(bs)
      BY <1>1
    <3> QED
      BY <3>1
  <2> QED
    BY <1>3, <2>1 DEF Whole
<1>5. ASSUME NEW b \in 1 .. Width[r] PROVE Valid(bs, a + b)
  <2>1. a + 1 \in 1 .. a + b /\ a + b < a + 1 + Width[r]
    BY <1>1
  <2>2. a + b < a + 1 + Width[bs[a + 1][1]]
    BY <1>3, <2>1
  <2> QED
    BY <1>4, <2>1, <2>2 DEF Valid
<1>6. ASSUME NEW b \in 2 .. Width[r] PROVE ~Whole(bs, a + b)
  <2>1. SUFFICES ASSUME Whole(bs, a + b) PROVE FALSE
    OBVIOUS
  <2>2. b \in 1 .. Width[r] /\ 1 \in 1 .. Width[r] /\ a + b + 1 - 1 = a + b /\ b # 1
    BY <1>1
  <2>3. bs[a + b][1] = r /\ bs[a + b] = <<r, b>>
    BY <1>2, <2>2
  <2>4. bs[a + b + 1 - 1] = <<r, 1>>
    BY <2>1, <2>2, <2>3 DEF Whole
  <2> QED
    BY <2>2, <2>3, <2>4
<1>7. Shown(bs, a + 1) = <<r>>
  <2>1. 1 \in 1 .. Width[r]
    BY <1>1
  <2> QED
    BY <1>3, <1>4, <1>5, <2>1, Zenon DEF Shown
<1>8. ASSUME NEW b \in 2 .. Width[r] PROVE Shown(bs, a + b) = <<>>
  <2>1. b \in 1 .. Width[r]
    BY <1>1
  <2> QED
    BY <1>5, <1>6, <2>1, Zenon DEF Shown
<1> QED
  BY <1>7, <1>8

\* What one rune adds when its other bytes add nothing.
Adds(f, g, L) == \A n \in 1 .. L : f[n] = f[n - 1] \o g[n]

Silent(g, a, w) == \A b \in 2 .. w : g[a + b] = <<>>

LEMMA AddedOnce ==
  ASSUME NEW f, NEW g, NEW L \in Nat, NEW V, NEW a \in Nat, NEW w \in Nat \ {0},
         a + w <= L, f[a + 1] \in Seq(V),
         Adds(f, g, L), Silent(g, a, w)
  PROVE  f[a + w] = f[a + 1]
<1> DEFINE S == {k \in 0 .. w - 1 : f[a + 1 + k] = f[a + 1]}
<1>1. w - 1 \in Nat /\ 0 \in 0 .. w - 1
  OBVIOUS
<1>2. 0 \in S
  BY <1>1
<1>3. ASSUME NEW k \in 1 .. w - 1, k - 1 \in S PROVE k \in S
  <2> DEFINE n == a + 1 + k
  <2>1. n \in 1 .. L /\ n - 1 = a + 1 + (k - 1) /\ k + 1 \in 2 .. w /\ a + (k + 1) = n /\ k \in 0 .. w - 1
    OBVIOUS
  <2>2. f[a + 1 + (k - 1)] = f[a + 1]
    BY <1>3
  <2>3. g[a + (k + 1)] = <<>>
    BY <2>1 DEF Silent
  <2> HIDE DEF n
  <2>4. f[n] = f[n - 1] \o g[n]
    BY <2>1 DEF Adds
  <2>5. f[n] = f[a + 1] \o <<>>
    BY <2>1, <2>2, <2>3, <2>4
  <2>6. f[n] = f[a + 1]
    BY <2>5, ConcatEmptySeq
  <2> QED
    BY <2>1, <2>6 DEF n
<1> HIDE DEF S
<1>4. \A k \in 0 .. w - 1 : k \in S
  BY <1>1, <1>2, <1>3, UpTo
<1>5. w - 1 \in S /\ a + 1 + (w - 1) = a + w
  BY <1>1, <1>4
<1> QED
  BY <1>5 DEF S

\* The bytes of whole runes are shown as these runes.
LEMMA WholeTextIs ==
  ASSUME NEW R \in SUBSET (DOMAIN Width), NEW t \in Seq(R)
  PROVE  ToValidUTF8(Bytes(t)) = t
<1> DEFINE bs == Bytes(t)
           V == R \cup {Invalid}
           end(n) == Len(Bytes(SubSeq(t, 1, n)))
<1>1. bs \in Seq(R \X Nat) /\ Len(bs) \in Nat /\ Len(t) \in Nat
  BY BytesAre
<1>2. PICK f : /\ f \in [0 .. Len(bs) -> Seq(V)] /\ f[0] = <<>>
               /\ \A n \in 1 .. Len(bs) : f[n] = f[n - 1] \o Shown(bs, n)
               /\ ToValidUTF8(bs) = f[Len(bs)]
  BY <1>1, TextSteps
<1> DEFINE S == {n \in 0 .. Len(t) : f[end(n)] = SubSeq(t, 1, n)}
<1>3. 0 \in S
  <2>1. SubSeq(t, 1, 0) = <<>> /\ 0 \in 0 .. Len(t)
    BY <1>1, SubSeqEmpty
  <2>2. end(0) = Len(<<>>) /\ Len(<<>>) = 0
    BY <2>1, NoBytes
  <2> QED
    BY <1>2, <2>1, <2>2
<1>4. ASSUME NEW n \in 1 .. Len(t), n - 1 \in S PROVE n \in S
  <2> DEFINE a == end(n - 1)
             w == Width[t[n]]
             p == SubSeq(t, 1, n - 1)
  <2>1. /\ a \in Nat /\ t[n] \in R /\ w \in Nat \ {0} /\ end(n) = a + w /\ a + w <= Len(bs)
        /\ \A b \in 1 .. w : bs[a + b] = <<t[n], b>>
    BY UnitAt
  <2>2. n - 1 \in 0 .. Len(t) /\ n \in 0 .. Len(t) /\ 1 \in 1 .. Len(t) /\ n \in 1 .. Len(t)
    BY <1>1
  <2>3. p \in Seq(R)
    BY <2>2, BytesOfParts
  <2>4. SubSeq(t, 1, n) = p \o <<t[n]>>
    BY <2>2, SubSeqRecursiveSecond
  <2>5. f[a] = p
    BY <1>4
  <2> DEFINE g == [i \in 1 .. Len(bs) |-> Shown(bs, i)]
             L == Len(bs)
             r == t[n]
  <2>6. L \in Nat /\ Adds(f, g, L)
    BY <1>1, <1>2 DEF Adds
  <2>7. \A i \in 1 .. L : g[i] = Shown(bs, i)
    OBVIOUS
  <2>8. p \in Seq(V) /\ <<r>> \in Seq(V)
    BY <2>1, <2>3
  <2>12. /\ bs \in Seq(R \X Nat) /\ a \in Nat /\ Width[r] \in Nat \ {0} /\ a + Width[r] <= Len(bs)
         /\ \A b \in 1 .. Width[r] : bs[a + b] = <<r, b>>
    BY <1>1, <2>1
  <2>13. f[a] \in Seq(V) /\ a + w <= L /\ a \in Nat /\ w \in Nat \ {0}
    BY <2>1, <2>5, <2>8
  <2> HIDE DEF bs, p, a, V, g, r
  <2>9. Shown(bs, a + 1) = <<r>> /\ \A b \in 2 .. Width[r] : Shown(bs, a + b) = <<>>
    BY <2>12, RuneShown
  <2>10. g[a + 1] = <<r>> /\ \A b \in 2 .. w : g[a + b] = <<>>
    <3>1. L \in Nat /\ a \in Nat /\ w \in Nat \ {0} /\ a + w <= L
      BY <1>1, <2>1
    <3>2. a + 1 \in 1 .. L /\ \A b \in 2 .. w : a + b \in 1 .. L
      BY <3>1
    <3> QED
      BY <2>7, <2>9, <3>2 DEF r
  <2> HIDE DEF w, L
  <2>14. Silent(g, a, w)
    BY <2>10 DEF Silent
  <2>15. f[a + 1] = f[a] \o <<r>>
    <3> DEFINE n0 == a + 1
    <3>1. n0 \in 1 .. L /\ n0 - 1 = a /\ n0 = a + 1
      BY <2>6, <2>13
    <3> HIDE DEF n0
    <3>2. f[n0] = f[n0 - 1] \o g[n0]
      BY <2>6, <3>1 DEF Adds
    <3> QED
      BY <2>10, <3>1, <3>2
  <2>16. f[a + 1] \in Seq(V)
    BY <2>8, <2>13, <2>15, ConcatProperties
  <2>17. f[a + w] = f[a + 1]
    BY <2>6, <2>13, <2>14, <2>16, AddedOnce
  <2>11. f[a + w] = f[a] \o <<r>>
    BY <2>15, <2>17
  <2> QED
    BY <2>1, <2>2, <2>4, <2>5, <2>11 DEF r
<1> HIDE DEF S
<1>5. Len(t) \in S
  <2>1. \A n \in 0 .. Len(t) : n \in S
    BY <1>1, <1>3, <1>4, UpTo
  <2> QED
    BY <1>1, <2>1
<1>6. SubSeq(t, 1, Len(t)) = t
  BY SubSeqFull
<1>7. f[end(Len(t))] = t
  BY <1>5, <1>6 DEF S
<1>8. end(Len(t)) = Len(bs)
  BY <1>6
<1> QED
  BY <1>2, <1>7, <1>8

-----------------------------------------------------------------------------
(***************************************************************************)
(* The pages of a document.                                                *)
(***************************************************************************)
LEMMA NextMultiple ==
  ASSUME NEW n \in Nat \ {0}, NEW m \in Nat, m % n = 0
  PROVE  (m + n) % n = 0
<1>1. PICK k \in Nat : m = k * n
  OBVIOUS
<1>2. k + 1 \in Nat /\ m + n = (k + 1) * n
  BY <1>1
<1>3. \A l \in Nat : (l * n) % n = 0
  OBVIOUS
<1> QED
  BY <1>2, <1>3

LEMMA LimitIs ==
  ASSUME NEW l \in Limits
  PROVE  EffectiveLimit(l) \in Nat \ {0} /\ EffectiveLimit(l) <= MaxLimit
<1> DEFINE d == IF l > 0 THEN l ELSE DefaultLimit
           S == {d, MaxLimit}
<1>1. l \in Nat /\ DefaultLimit \in Nat \ {0} /\ MaxLimit \in Nat \ {0}
  BY LimitsAssumption
<1>2. d \in Nat \ {0}
  BY <1>1
<1>3. EffectiveLimit(l) = Min(S)
  BY Zenon DEF EffectiveLimit
<1> HIDE DEF d
<1>4. S \in SUBSET Nat /\ S # {} /\ MaxLimit \in S /\ \A n \in S : n # 0
  BY <1>1, <1>2
<1> HIDE DEF S
<1>5. Min(S) \in S /\ Min(S) <= MaxLimit
  BY <1>4, MinIs
<1> QED
  BY <1>3, <1>4, <1>5

\* raw is what stands in bs from a on, up to n bytes of it.
Page(raw, bs, a, n) ==
  In(raw, bs, a) /\ Len(raw) \in Nat /\ Len(raw) <= n /\ (Len(raw) = n \/ a + Len(raw) = Len(bs))

LEMMA BeginningIs ==
  ASSUME NEW V, NEW b \in Seq(V), NEW n \in Nat
  PROVE  SubSeq(b, 1, Min({n, Len(b)})) \in Seq(V) /\ Page(SubSeq(b, 1, Min({n, Len(b)})), b, 0, n)
<1> DEFINE S == {n, Len(b)}
           m == Min(S)
<1>1. Len(b) \in Nat /\ S \in SUBSET Nat /\ S # {}
  OBVIOUS
<1>2. (m = n \/ m = Len(b)) /\ m <= n /\ m <= Len(b)
  <2>1. m \in S /\ \A k \in S : m <= k
    <3> HIDE DEF S
    <3> QED
      BY <1>1, MinIs
  <2> HIDE DEF m
  <2> QED
    BY <2>1
<1> HIDE DEF m
<1>3. m \in Nat /\ 1 \in Nat \ {0} /\ 1 <= m + 1 /\ m - 1 + 1 = m /\ 1 - 1 = 0
  BY <1>1, <1>2
<1> DEFINE c == SubSeq(b, 1, m)
<1>4. c \in Seq(V) /\ Len(c) = m
  BY <1>2, <1>3, PartIs
<1>5. In(c, b, 0)
  <2>1. In(c, b, 1 - 1)
    BY <1>2, <1>3, PartIn
  <2> HIDE DEF c
  <2> QED
    BY <1>3, <2>1
<1> HIDE DEF c
<1>6. Page(c, b, 0, n)
  BY <1>1, <1>2, <1>3, <1>4, <1>5 DEF Page
<1> QED
  BY <1>4, <1>6 DEF c, m

\* What a source sends: nothing past the end; else a page, of one that ignores Range the first.
LEMMA FetchedIs ==
  ASSUME NEW V, NEW bs \in Seq(V), NEW off \in Nat, NEW n \in Nat, NEW byRange \in BOOLEAN
  PROVE  /\ FetchRange(bs, off, n, byRange) = {} <=> byRange /\ off >= Len(bs)
         /\ \A raw \in FetchRange(bs, off, n, byRange) :
              raw \in Seq(V) /\ Page(raw, bs, IF byRange THEN off ELSE 0, n)
<1> DEFINE cut(b) == SubSeq(b, 1, Min({n, Len(b)}))
           rest == SubSeq(bs, off + 1, Len(bs))
<1>1. FetchRange(bs, off, n, byRange) = {cut(b) : b \in Served(bs, off, byRange)}
  BY Zenon DEF FetchRange
<1>2. Len(bs) \in Nat
  OBVIOUS
<1>3. CASE ~byRange
  <2>1. Served(bs, off, byRange) = {bs}
    BY <1>3 DEF Served
  <2>2. cut(bs) \in Seq(V) /\ Page(cut(bs), bs, 0, n)
    BY BeginningIs
  <2> HIDE DEF cut
  <2> QED
    BY <1>1, <1>3, <2>1, <2>2
<1>4. CASE byRange /\ off >= Len(bs)
  <2>1. Served(bs, off, byRange) = {}
    BY <1>4 DEF Served
  <2> HIDE DEF cut
  <2> QED
    BY <1>1, <1>4, <2>1
<1>5. CASE byRange /\ ~(off >= Len(bs))
  <2>1. Served(bs, off, byRange) = {rest}
    BY <1>5 DEF Served
  <2>2. /\ off + 1 \in Nat \ {0} /\ off + 1 <= Len(bs) + 1 /\ Len(bs) <= Len(bs)
        /\ Len(bs) - (off + 1) + 1 = Len(bs) - off /\ off + 1 - 1 = off
    BY <1>2, <1>5
  <2>3. rest \in Seq(V) /\ Len(rest) = Len(bs) - off
    <3> DEFINE m == off + 1
               L == Len(bs)
    <3>1. m \in Nat \ {0} /\ m <= L + 1 /\ L <= Len(bs) /\ L \in Nat /\ L - m + 1 = L - off
      BY <1>2, <2>2
    <3> HIDE DEF m, L
    <3>2. SubSeq(bs, m, L) \in Seq(V) /\ Len(SubSeq(bs, m, L)) = L - m + 1
      BY <3>1, PartIs
    <3> QED
      BY <3>1, <3>2 DEF m, L
  <2>4. In(rest, bs, off)
    <3>1. In(rest, bs, off + 1 - 1)
      BY <1>2, <2>2, PartIn
    <3> HIDE DEF rest
    <3> QED
      BY <2>2, <3>1
  <2> HIDE DEF rest
  <2> DEFINE raw == cut(rest)
  <2>5. raw \in Seq(V) /\ Page(raw, rest, 0, n)
    BY <2>3, BeginningIs
  <2>6. FetchRange(bs, off, n, byRange) = {raw}
    <3> HIDE DEF cut
    <3> QED
      BY <1>1, <2>1
  <2> HIDE DEF raw
  <2>7. In(raw, bs, off)
    <3>1. In(raw, rest, 0) /\ off + 0 = off
      BY <2>5 DEF Page
    <3>2. In(raw, bs, off + 0)
      BY <2>3, <2>4, <2>5, <3>1, InIn
    <3> QED
      BY <3>1, <3>2
  <2>8. Page(raw, bs, off, n)
    <3>1. Len(raw) \in Nat /\ Len(raw) <= n /\ (Len(raw) = n \/ 0 + Len(raw) = Len(rest))
      BY <2>5 DEF Page
    <3>2. Len(raw) = n \/ off + Len(raw) = Len(bs)
      BY <1>2, <2>3, <3>1
    <3> QED
      BY <2>7, <3>1, <3>2 DEF Page
  <2> QED
    BY <1>5, <2>5, <2>6, <2>8
<1> QED
  BY <1>3, <1>4, <1>5

\* What stands behind what stands in a sequence.
LEMMA InBehind ==
  ASSUME NEW V, NEW re \in Seq(V), NEW raw \in Seq(V), NEW bs \in Seq(V), NEW a,
         In(re, bs, a), In(raw, bs, a + Len(re))
  PROVE  In(re \o raw, bs, a) /\ Len(re \o raw) = Len(re) + Len(raw)
<1> DEFINE all == re \o raw
<1>1. a \in Nat /\ Len(re) \in Nat /\ Len(raw) \in Nat /\ Len(bs) \in Nat /\ a + Len(re) + Len(raw) <= Len(bs)
  BY DEF In
<1>2. /\ Len(all) = Len(re) + Len(raw)
      /\ \A i \in 1 .. Len(re) : all[i] = re[i]
      /\ \A i \in 1 .. Len(raw) : all[Len(re) + i] = raw[i]
      /\ \A i \in 1 .. Len(all) : i \in 1 .. Len(re) \/ \E k \in 1 .. Len(raw) : i = Len(re) + k
  BY ConcatIs
<1> HIDE DEF all
<1>3. ASSUME NEW i \in 1 .. Len(all) PROVE all[i] = bs[a + i]
  <2>1. CASE i \in 1 .. Len(re)
    BY <1>2, <2>1 DEF In
  <2>2. CASE i \notin 1 .. Len(re)
    <3>1. PICK k \in 1 .. Len(raw) : i = Len(re) + k
      BY <1>2, <2>2
    <3>2. raw[k] = bs[a + Len(re) + k] /\ a + Len(re) + k = a + i
      BY <1>1, <3>1 DEF In
    <3> QED
      BY <1>2, <3>1, <3>2
  <2> QED
    BY <2>1, <2>2
<1>4. In(all, bs, a)
  <2>1. a + Len(all) <= Len(bs)
    BY <1>1, <1>2
  <2> QED
    BY <1>1, <1>3, <2>1 DEF In
<1> QED
  BY <1>2, <1>4 DEF all

-----------------------------------------------------------------------------
(***************************************************************************)
(* The inductive invariant.                                                *)
(***************************************************************************)
\* Every page was what was asked for: the source honours Range, or the first page is all.
Aimed(st, li, ra, re) == ra \/ (st = 0 /\ Len(re) <= EffectiveLimit(li))

\* What was read stands in the document where the client began; but for the last page it
\* is whole pages, and there is more only after a full one.
Reading(ob, st, li, ra, re, an) ==
  /\ Aimed(st, li, ra, re) =>
       /\ In(re, Bytes(ob), st)
       /\ an \in {"end", "failed"} => st + Len(re) = Len(Bytes(ob))
       /\ an # "end" => Len(re) % EffectiveLimit(li) = 0
  /\ an = "more" => EffectiveLimit(li) <= Len(re)

Inv ==
  /\ TypeOK
  /\ read \in Seq(Runes \X Nat)
  /\ Unread => start = 0 /\ read = <<>>
  /\ Reading(object, start, limit, ranged, read, answer)

LEMMA ReadOn ==
  ASSUME NEW ob \in Seq(Runes), NEW st \in Nat, NEW li \in Limits, NEW ra \in BOOLEAN,
         NEW re \in Seq(Runes \X Nat), NEW raw \in Seq(Runes \X Nat), NEW an \in {"more", "end"},
         NEW a, a = IF ra THEN st + Len(re) ELSE 0,
         Page(raw, Bytes(ob), a, EffectiveLimit(li)),
         Aimed(st, li, ra, re) => In(re, Bytes(ob), st) /\ Len(re) % EffectiveLimit(li) = 0,
         re = <<>> \/ EffectiveLimit(li) <= Len(re),
         an = "more" => Len(raw) = EffectiveLimit(li),
         an = "end" => a + Len(raw) = Len(Bytes(ob))
  PROVE  Reading(ob, st, li, ra, re \o raw, an)
<1> DEFINE n == EffectiveLimit(li)
           bs == Bytes(ob)
           all == re \o raw
           L == Len(re)
           M == Len(raw)
           E == Len(bs)
<1>1. n \in Nat \ {0} /\ bs \in Seq(Runes \X Nat) /\ E \in Nat /\ L \in Nat /\ M \in Nat
  <2>1. Runes \in SUBSET (DOMAIN Width)
    BY RunesAssumption
  <2> QED
    BY <2>1, LimitIs, BytesAre, SMTT(60)
<1>2. Len(all) = L + M
  BY ConcatIs
<1>3. an = "more" => n <= Len(all)
  <2>1. an = "more" => M = n
    OBVIOUS
  <2> HIDE DEF n, M, L, all
  <2> QED
    BY <1>1, <1>2, <2>1
<1>4. Page(raw, bs, a, n)
  OBVIOUS
<1>5. /\ re = <<>> \/ n <= L
      /\ a = IF ra THEN st + L ELSE 0
      /\ Aimed(st, li, ra, re) => In(re, bs, st) /\ L % n = 0
      /\ an = "more" => M = n
      /\ an = "end" => a + M = E
  OBVIOUS
<1>6. ASSUME Aimed(st, li, ra, all)
      PROVE  /\ In(all, bs, st)
             /\ an \in {"end", "failed"} => st + Len(all) = E
             /\ an # "end" => Len(all) % n = 0
  <2>1. Aimed(st, li, ra, re)
    <3> HIDE DEF all, n, M
    <3>1. ~ra => st = 0 /\ Len(all) <= EffectiveLimit(li)
      BY <1>6 DEF Aimed
    <3>2. ~ra => L <= EffectiveLimit(li)
      <4> DEFINE m == EffectiveLimit(li)
      <4>1. m \in Nat
        BY LimitIs
      <4> HIDE DEF m, L
      <4> QED
        BY <1>1, <1>2, <3>1, <4>1 DEF m
    <3> QED
      BY <3>1, <3>2 DEF Aimed
  <2>2. In(re, bs, st) /\ L % n = 0 /\ st + L <= E
    <3>1. In(re, bs, st) /\ L % n = 0
      BY <1>5, <2>1
    <3> QED
      BY <3>1 DEF In
  <2>3. a = st + L
    <3>1. CASE ra
      BY <1>5, <3>1
    <3>2. CASE ~ra
      <4>1. st = 0 /\ a = 0 /\ L + M <= n
        BY <1>2, <1>5, <1>6, <3>2 DEF Aimed
      <4>2. L = 0
        <5>1. CASE re = <<>>
          BY <5>1
        <5>2. CASE n <= L
          <6>1. M = n \/ a + M = E
            BY <1>4 DEF Page
          <6> HIDE DEF n, L, M, E
          <6>2. M = 0 /\ L = n
            BY <1>1, <4>1, <5>2
          <6>3. E = 0
            BY <1>1, <4>1, <6>1, <6>2
          <6> QED
            BY <1>1, <2>2, <4>1, <6>3
        <5> QED
          BY <1>5, <5>1, <5>2
      <4> QED
        BY <4>1, <4>2
    <3> QED
      BY <3>1, <3>2
  <2>4. In(all, bs, st)
    <3>1. In(raw, bs, a)
      BY <1>4 DEF Page
    <3>2. In(raw, bs, st + Len(re))
      BY <2>3, <3>1
    <3> HIDE DEF bs
    <3> QED
      BY <1>1, <2>2, <3>2, InBehind
  <2>5. an = "end" => st + Len(all) = E
    <3>1. an = "end" => st + L + M = E
      BY <1>5, <2>3
    <3> HIDE DEF all, L, M, E
    <3> QED
      BY <1>1, <1>2, <3>1
  <2>6. an # "end" => Len(all) % n = 0
    <3>1. an # "end" => M = n
      BY <1>5
    <3> HIDE DEF all, L, M, E, n
    <3>2. (L + n) % n = 0
      BY <1>1, <2>2, NextMultiple
    <3> QED
      BY <1>2, <3>1, <3>2
  <2>7. an # "failed"
    OBVIOUS
  <2> QED
    BY <2>4, <2>5, <2>6, <2>7
<1> HIDE DEF all, bs, n, E
<1> QED
  BY <1>3, <1>6 DEF Reading, all, bs, n, E

\* ServeHTTP for the page behind what was read.
LEMMA ServeIs ==
  ASSUME NEW st \in Nat, NEW li \in Limits, NEW ra \in BOOLEAN,
         object \in Seq(Runes), read \in Seq(Runes \X Nat), Len(read) <= MaxRead,
         page \in Seq(Runes \cup {Invalid}),
         Serve(st + Len(read), li, ra),
         Aimed(st, li, ra, read) => In(read, Bytes(object), st) /\ Len(read) % EffectiveLimit(li) = 0,
         read = <<>> \/ EffectiveLimit(li) <= Len(read)
  PROVE  /\ read' \in Seq(Runes \X Nat) /\ Len(read') <= MaxRead + MaxLimit
         /\ page' \in Seq(Runes \cup {Invalid})
         /\ answer' \in {"more", "end", "failed"}
         /\ Reading(object, st, li, ra, read', answer')
<1> DEFINE n == EffectiveLimit(li)
           bs == Bytes(object)
           off == st + Len(read)
           fetched == FetchRange(bs, off, n, ra)
           V == Runes \X Nat
<1>1. n \in Nat \ {0} /\ n <= MaxLimit /\ MaxLimit \in Nat /\ MaxRead \in Nat
  BY LimitIs, LimitsAssumption, BoundsAssumption
<1>2. bs \in Seq(V) /\ Len(bs) \in Nat /\ Len(read) \in Nat /\ off \in Nat
  <2>1. Runes \in SUBSET (DOMAIN Width)
    BY RunesAssumption
  <2> QED
    BY <2>1, BytesAre, SMTT(60)
<1>3. /\ fetched = {} <=> ra /\ off >= Len(bs)
      /\ \A raw \in fetched : raw \in Seq(V) /\ Page(raw, bs, IF ra THEN off ELSE 0, n)
  <2> HIDE DEF n, bs, off, V
  <2> QED
    BY <1>1, <1>2, FetchedIs
<1>4. CASE fetched = {}
  <2>1. answer' = "failed" /\ read' = read /\ page' = page
    BY <1>4 DEF Serve
  <2>2. ra /\ off >= Len(bs)
    BY <1>3, <1>4
  <2>3. Aimed(st, li, ra, read)
    BY <2>2 DEF Aimed
  <2>4. In(read, bs, st) /\ Len(read) % n = 0
    BY <2>3
  <2>5. off <= Len(bs)
    BY <2>4 DEF In
  <2>6. st + Len(read) = Len(bs)
    BY <1>2, <2>2, <2>5
  <2>7. Reading(object, st, li, ra, read, "failed")
    BY <2>4, <2>6 DEF Reading
  <2>8. Len(read) <= MaxRead + MaxLimit
    BY <1>1, <1>2
  <2> HIDE DEF fetched
  <2> QED
    BY <2>1, <2>7, <2>8
<1>5. CASE fetched # {}
  <2>1. PICK raw \in fetched : /\ read' = read \o raw /\ page' = ToValidUTF8(raw)
                               /\ answer' = IF HasMore(raw, n) THEN "more" ELSE "end"
    BY <1>5, Zenon DEF Serve
  <2> DEFINE a == IF ra THEN off ELSE 0
  <2>2. raw \in Seq(V) /\ Page(raw, bs, a, n)
    BY <1>3
  <2> HIDE DEF fetched
  <2>3. Len(raw) \in Nat /\ Len(raw) <= n /\ (Len(raw) = n \/ a + Len(raw) = Len(bs))
    BY <2>2 DEF Page
  <2>4. answer' \in {"more", "end"} /\ (answer' = "more" => Len(raw) = n)
    <3>1. HasMore(raw, n) => Len(raw) >= n
      BY DEF HasMore
    <3> HIDE DEF n
    <3> QED
      BY <1>1, <2>1, <2>3, <3>1
  <2>5. answer' = "end" => a + Len(raw) = Len(bs)
    <3>1. answer' = "end" => ~HasMore(raw, n)
      BY <2>1
    <3>2. raw = <<>> => Len(raw) = 0
      OBVIOUS
    <3>3. ~HasMore(raw, n) => Len(raw) # n
      <4> HIDE DEF n
      <4> QED
        BY <1>1, <2>3, <3>2 DEF HasMore
    <3> QED
      BY <2>3, <3>1, <3>3
  <2>6. Reading(object, st, li, ra, read \o raw, answer')
    <3> DEFINE an == answer'
    <3>1. an \in {"more", "end"} /\ (an = "more" => Len(raw) = n) /\ (an = "end" => a + Len(raw) = Len(bs))
      BY <2>4, <2>5
    <3> HIDE DEF an, a
    <3>2. a = IF ra THEN st + Len(read) ELSE 0
      BY DEF a
    <3>3. Reading(object, st, li, ra, read \o raw, an)
      BY <2>2, <3>1, <3>2, ReadOn
    <3> QED
      BY <3>3 DEF an
  <2>7. read \o raw \in Seq(V) /\ Len(read \o raw) = Len(read) + Len(raw)
    <3> HIDE DEF V
    <3>1. read \in Seq(V)
      BY DEF V
    <3> QED
      BY <2>2, <3>1, ConcatIs
  <2>8. Len(read) + Len(raw) <= MaxRead + MaxLimit
    <3> HIDE DEF n
    <3> QED
      BY <1>1, <1>2, <2>3
  <2>9. ToValidUTF8(raw) \in Seq(Runes \cup {Invalid})
    BY <2>2, TextIs
  <2>10. read' \in Seq(V) /\ Len(read') <= MaxRead + MaxLimit /\ Reading(object, st, li, ra, read', answer')
    BY <2>1, <2>6, <2>7, <2>8, Zenon
  <2> QED
    BY <2>1, <2>4, <2>9, <2>10
<1> QED
  BY <1>4, <1>5

LEMMA DocumentIs ==
  ASSUME object \in Seq(Runes), opts \in Options
  PROVE  /\ Plain(Text) /\ Text \in Seq(Runes) /\ IsOptions(opts)
         /\ Record \in Progress(Text) /\ Rows = Record.rows
         /\ object \in Texts /\ \E a : TrimsAt(object, a)
<1> DEFINE t == Text
<1>1. t \in Seq(Runes) /\ \E a : TrimsAt(object, a)
  BY TrimIs DEF Text
<1> HIDE DEF t
<1>2. Runes \subseteq DOMAIN Width /\ Placeholder \notin Runes
  BY RunesAssumption
<1>3. t \in Seq(DOMAIN Width) /\ object \in Seq(DOMAIN Width) /\ \A x \in 1 .. Len(t) : t[x] \in Runes
  BY <1>1, <1>2
<1>4. Plain(t) /\ object \in Texts
  BY <1>2, <1>3 DEF Plain, Texts
<1>5. IsOptions(opts)
  BY OptionsAssumption
<1>6. ChunkTextRecursively(t, opts) \in Docs
  BY <1>4, <1>5, ChunksTile
<1>7. SplitRecord(t, opts) \in Progress(t)
  <2>1. t \in Texts
    BY <1>4 DEF Plain
  <2> QED
    BY <1>6, <2>1, RecordIs
<1> QED
  BY <1>1, <1>4, <1>5, <1>7, Zenon DEF t, Record, Rows, Text

\* A row's place in the text is a place in the document, further on by the white space
\* that was trimmed; its offset does not count that.
LEMMA OffsetsAre ==
  ASSUME object \in Seq(Runes), opts \in Options
  PROVE  Offsets \subseteq 0 .. Len(Bytes(object))
<1> DEFINE t == Text
           W == DOMAIN Width
           E == Len(Bytes(object))
<1>1. t \in Texts /\ Rows \in Seq(Found(t)) /\ object \in Texts
  BY DocumentIs DEF Progress, Plain
<1>2. t \in Seq(W) /\ object \in Seq(W)
  BY <1>1 DEF Texts
<1>3. E \in Nat
  BY <1>2, BytesAre
<1>4. Len(Bytes(t)) \in Nat /\ Len(Bytes(t)) <= E
  <2>1. PICK a : TrimsAt(object, a)
    BY DocumentIs
  <2>2. In(t, object, a)
    BY <2>1 DEF TrimsAt, Text
  <2> HIDE DEF t
  <2> DEFINE m == a + 1
             n == a + Len(t)
  <2>3. m \in Nat \ {0} /\ n \in Nat /\ m <= n + 1 /\ n <= Len(object)
    BY <1>2, <2>2 DEF In
  <2>4. SubSeq(object, m, n) = t
    BY <1>2, <2>2, InIsPart
  <2> HIDE DEF m, n
  <2> DEFINE p == ByteOffset(object, m)
             l == Len(Bytes(SubSeq(object, m, n)))
  <2>5. p \in Nat /\ l \in Nat /\ p + l <= E
    BY <1>2, <2>3, OffsetIs
  <2> HIDE DEF p, E
  <2>6. l = Len(Bytes(t))
    BY <2>4
  <2> HIDE DEF l
  <2> QED
    BY <1>3, <2>5, <2>6
<1>5. ASSUME NEW r \in ToSet(Rows) PROVE r.offset \in 0 .. E
  <2> HIDE DEF t
  <2>1. r \in Found(t)
    BY <1>1, <1>5 DEF ToSet
  <2> DEFINE c == r.text
             i == r.at
  <2>2. c \in Texts /\ i \in Nat \ {0} /\ i \in Places(t, c) /\ r.offset = ByteOffset(t, i)
    BY <2>1 DEF Found
  <2> HIDE DEF c, i
  <2>3. c \in Seq(W) /\ Len(c) \in Nat /\ Len(t) \in Nat
    BY <1>2, <2>2, TextConcat DEF Texts
  <2>4. In(c, t, i - 1)
    BY <1>2, <2>2, <2>3, PlacesAre
  <2> DEFINE n == i + Len(c) - 1
  <2>5. n \in Nat /\ i <= n + 1 /\ n <= Len(t)
    BY <2>2, <2>3, <2>4 DEF In
  <2> HIDE DEF n
  <2> DEFINE p == ByteOffset(t, i)
             l == Len(Bytes(SubSeq(t, i, n)))
  <2>6. p \in Nat /\ l \in Nat /\ p + l <= Len(Bytes(t))
    BY <1>2, <2>2, <2>5, OffsetIs
  <2> HIDE DEF p, l, E
  <2>7. p \in 0 .. E
    BY <1>3, <1>4, <2>6
  <2> QED
    BY <2>2, <2>7 DEF p
<1> HIDE DEF E
<1>6. Offsets \subseteq 0 .. E
  <2>1. 0 \in 0 .. E
    BY <1>3
  <2> QED
    BY <1>5, <2>1, Zenon DEF Offsets
<1> QED
  BY <1>6 DEF E

-----------------------------------------------------------------------------
(***************************************************************************)
(* The steps.                                                              *)
(***************************************************************************)
LEMMA NothingRead ==
  ASSUME NEW ob, NEW V, Bytes(ob) \in Seq(V), NEW li \in Limits, NEW ra, NEW st \in Nat,
         st <= Len(Bytes(ob))
  PROVE  /\ In(<<>>, Bytes(ob), st) /\ Len(<<>>) % EffectiveLimit(li) = 0
         /\ Reading(ob, st, li, ra, <<>>, "none")
<1> DEFINE n == EffectiveLimit(li)
           bs == Bytes(ob)
<1>1. n \in Nat \ {0} /\ Len(<<>>) = 0 /\ Len(bs) \in Nat
  BY LimitIs
<1>2. In(<<>>, bs, st)
  BY <1>1 DEF In
<1>3. 0 % n = 0
  <2> HIDE DEF n
  <2> QED
    BY <1>1
<1> HIDE DEF n, bs
<1>4. Len(<<>>) % n = 0
  BY <1>1, <1>3
<1> QED
  BY <1>2, <1>4 DEF Reading, n, bs

LEMMA InvInit ==
  ASSUME Init
  PROVE  Inv
<1>1. object = <<>> /\ start = 0 /\ limit = 0 /\ read = <<>> /\ page = <<>> /\ answer = "none"
  BY DEF Init
<1>2. object \in Seq(Runes) /\ Len(object) = 0 /\ read \in Seq(Runes \X Nat) /\ page \in Seq(Runes \cup {Invalid})
  BY <1>1
<1>3. Bytes(object) \in Seq(Runes \X Nat) /\ Len(Bytes(object)) \in Nat
  BY <1>2, BytesAre, RunesAssumption
<1>4. 0 \in Limits /\ MaxLimit \in Nat /\ MaxRead \in Nat /\ MaxLength \in Nat
  BY LimitsAssumption, BoundsAssumption
<1>5. TypeOK
  <2>1. Len(read) = 0
    BY <1>1
  <2>2. Len(read) <= MaxRead + MaxLimit
    BY <1>4, <2>1
  <2>3. opts \in Options /\ ranged \in BOOLEAN /\ start \in 0 .. Len(Bytes(object)) /\ Len(object) <= MaxLength
    BY <1>1, <1>2, <1>3, <1>4 DEF Init
  <2> QED
    BY <1>1, <1>2, <1>4, <2>2, <2>3 DEF TypeOK
<1>6. Reading(object, start, limit, ranged, read, answer)
  <2>1. limit \in Limits /\ start \in Nat /\ start <= Len(Bytes(object))
    BY <1>1, <1>3, <1>4
  <2>2. Reading(object, start, limit, ranged, <<>>, "none")
    BY <1>3, <2>1, NothingRead
  <2> QED
    BY <1>1, <2>2
<1> QED
  BY <1>1, <1>2, <1>5, <1>6 DEF Inv

LEMMA WriteKeeps ==
  ASSUME Inv, NEW r \in Runes, Write(r)
  PROVE  Inv'
<1>1. /\ object \in Seq(Runes) /\ Len(object) <= MaxLength /\ opts \in Options /\ limit \in Limits
      /\ ranged \in BOOLEAN /\ Len(read) <= MaxRead + MaxLimit /\ page \in Seq(Runes \cup {Invalid})
      /\ start = 0 /\ read = <<>> /\ answer = "none" /\ read \in Seq(Runes \X Nat)
  BY DEF Inv, TypeOK, Write, Unread
<1>2. /\ object' = Append(object, r) /\ Len(object) < MaxLength
      /\ opts' = opts /\ start' = start /\ limit' = limit /\ ranged' = ranged /\ read' = read
      /\ page' = page /\ answer' = answer
  BY DEF Write
<1>3. object' \in Seq(Runes) /\ Len(object') <= MaxLength
  <2>1. Append(object, r) \in Seq(Runes) /\ Len(Append(object, r)) = Len(object) + 1 /\ Len(object) \in Nat
    BY <1>1, AppendProperties
  <2> QED
    BY <1>2, <2>1, BoundsAssumption
<1>4. Bytes(object') \in Seq(Runes \X Nat) /\ Len(Bytes(object')) \in Nat
  BY <1>3, BytesAre, RunesAssumption
<1>5. TypeOK'
  <2>1. start' \in 0 .. Len(Bytes(object'))
    BY <1>1, <1>2, <1>4
  <2> QED
    BY <1>1, <1>2, <1>3, <2>1 DEF TypeOK
<1>6. Reading(object', start', limit', ranged', read', answer')
  <2>1. 0 \in Nat /\ 0 <= Len(Bytes(object'))
    BY <1>4
  <2>2. Reading(object', 0, limit, ranged, <<>>, "none")
    BY <1>1, <1>4, <2>1, NothingRead
  <2> QED
    BY <1>1, <1>2, <2>2
<1> QED
  BY <1>1, <1>2, <1>5, <1>6 DEF Inv, Unread

LEMMA ReadFirstKeeps ==
  ASSUME Inv, NEW off \in Offsets, NEW lim \in Limits, NEW byRange \in BOOLEAN, ReadFirst(off, lim, byRange)
  PROVE  Inv'
<1>1. /\ object \in Seq(Runes) /\ Len(object) <= MaxLength /\ opts \in Options
      /\ page \in Seq(Runes \cup {Invalid}) /\ read = <<>> /\ read \in Seq(Runes \X Nat)
  BY DEF Inv, TypeOK, ReadFirst, Unread
<1>2. /\ start' = off /\ limit' = lim /\ ranged' = byRange /\ object' = object /\ opts' = opts
      /\ Serve(off, lim, byRange)
  BY DEF ReadFirst
<1>3. off \in 0 .. Len(Bytes(object))
  BY <1>1, OffsetsAre
<1>4. Bytes(object) \in Seq(Runes \X Nat) /\ Len(Bytes(object)) \in Nat
  BY <1>1, BytesAre, RunesAssumption
<1>5. off \in Nat /\ off <= Len(Bytes(object)) /\ Len(read) = 0 /\ off + Len(read) = off
  BY <1>1, <1>3, <1>4
<1>6. In(read, Bytes(object), off) /\ Len(read) % EffectiveLimit(lim) = 0
  BY <1>1, <1>4, <1>5, NothingRead
<1>7. /\ read' \in Seq(Runes \X Nat) /\ Len(read') <= MaxRead + MaxLimit
      /\ page' \in Seq(Runes \cup {Invalid})
      /\ answer' \in {"more", "end", "failed"}
      /\ Reading(object, off, lim, byRange, read', answer')
  <2>1. Serve(off + Len(read), lim, byRange) /\ Len(read) <= MaxRead
    BY <1>2, <1>5, BoundsAssumption
  <2> QED
    BY <1>1, <1>5, <1>6, <2>1, ServeIs
<1>8. TypeOK'
  BY <1>1, <1>2, <1>3, <1>7 DEF TypeOK
<1>9. Reading(object', start', limit', ranged', read', answer')
  BY <1>2, <1>7
<1> QED
  BY <1>7, <1>8, <1>9 DEF Inv, Unread

LEMMA ReadNextKeeps ==
  ASSUME Inv, ReadNext
  PROVE  Inv'
<1>1. /\ object \in Seq(Runes) /\ Len(object) <= MaxLength /\ opts \in Options
      /\ limit \in Limits /\ start \in 0 .. Len(Bytes(object)) /\ ranged \in BOOLEAN
      /\ page \in Seq(Runes \cup {Invalid}) /\ read \in Seq(Runes \X Nat)
      /\ Reading(object, start, limit, ranged, read, answer)
  BY DEF Inv, TypeOK
<1>2. /\ answer = "more" /\ Len(read) <= MaxRead /\ Serve(start + Len(read), limit, ranged)
      /\ object' = object /\ opts' = opts /\ start' = start /\ limit' = limit /\ ranged' = ranged
  BY DEF ReadNext
<1>3. start \in Nat
  BY <1>1
<1>4. /\ Aimed(start, limit, ranged, read) =>
           In(read, Bytes(object), start) /\ Len(read) % EffectiveLimit(limit) = 0
      /\ EffectiveLimit(limit) <= Len(read)
  BY <1>1, <1>2, Zenon DEF Reading
<1>5. /\ read' \in Seq(Runes \X Nat) /\ Len(read') <= MaxRead + MaxLimit
      /\ page' \in Seq(Runes \cup {Invalid})
      /\ answer' \in {"more", "end", "failed"}
      /\ Reading(object, start, limit, ranged, read', answer')
  BY <1>1, <1>2, <1>3, <1>4, ServeIs
<1>6. TypeOK'
  BY <1>1, <1>2, <1>5 DEF TypeOK
<1>7. Reading(object', start', limit', ranged', read', answer')
  BY <1>2, <1>5
<1> QED
  BY <1>5, <1>6, <1>7 DEF Inv, Unread

(***************************************************************************)
(* While a document is written nothing of it is read; from the first page  *)
(* on, what a client has read is one part of the document's bytes, from    *)
(* where the source was made to begin, in pages of the effective limit, and *)
(* the answer says whether the end is reached (content.go:77-139).         *)
(***************************************************************************)
THEOREM InvariantHolds == Spec => []Inv
<1>1. Init => Inv
  BY InvInit
<1>2. Inv /\ [Next]_vars => Inv'
  <2> SUFFICES ASSUME Inv, [Next]_vars PROVE Inv'
    OBVIOUS
  <2>1. ASSUME NEW r \in Runes, Write(r) PROVE Inv'
    BY <2>1, WriteKeeps
  <2>2. ASSUME NEW off \in Offsets, NEW lim \in Limits, NEW byRange \in BOOLEAN, ReadFirst(off, lim, byRange)
        PROVE  Inv'
    BY <2>2, ReadFirstKeeps
  <2>3. CASE ReadNext
    BY <2>3, ReadNextKeeps
  <2>4. CASE UNCHANGED vars
    BY <2>4 DEF vars, Inv, TypeOK, Unread
  <2> QED
    BY <2>1, <2>2, <2>3, <2>4, Zenon DEF Next
<1> QED
  BY <1>1, <1>2, PTL DEF Spec

(***************************************************************************)
(* Every state has the types that TypeOK names: page bytes, offsets and    *)
(* answers are what content.go can produce.                                *)
(***************************************************************************)
THEOREM TypesHold == Spec => []TypeOK
<1>1. Inv => TypeOK
  BY DEF Inv
<1> QED
  BY <1>1, InvariantHolds, PTL

(***************************************************************************)
(* Paging reads every byte once, in order, to the end (content.go:77-110). *)
(***************************************************************************)
THEOREM PagesHold == Spec => []PagesAreTheSource
<1>1. ASSUME Inv PROVE PagesAreTheSource
  <2> DEFINE bs == Bytes(object)
             V  == Runes \X Nat
  <2>1. Reading(object, start, limit, ranged, read, answer) /\ object \in Seq(Runes)
    BY <1>1 DEF Inv, TypeOK
  <2>2. ASSUME ranged \/ (start = 0 /\ Len(read) <= EffectiveLimit(limit))
        PROVE  /\ read = SubSeq(bs, start + 1, start + Len(read))
               /\ answer \in {"end", "failed"} => start + Len(read) = Len(bs)
               /\ answer = "failed" => Len(read) % EffectiveLimit(limit) = 0
    <3>1. Aimed(start, limit, ranged, read)
      BY <2>2 DEF Aimed
    <3>2. /\ In(read, bs, start)
          /\ answer \in {"end", "failed"} => start + Len(read) = Len(bs)
          /\ answer # "end" => Len(read) % EffectiveLimit(limit) = 0
      BY <2>1, <3>1 DEF Reading
    <3>3. bs \in Seq(V) /\ read \in Seq(V)
      BY <1>1, <2>1, BytesAre, RunesAssumption DEF Inv
    <3> HIDE DEF bs, V
    <3>4. SubSeq(bs, start + 1, start + Len(read)) = read
      BY <3>2, <3>3, InIsPart
    <3> QED
      BY <3>2, <3>4
  <2> QED
    BY <2>2, Zenon DEF PagesAreTheSource
<1> QED
  BY <1>1, InvariantHolds, PTL

(***************************************************************************)
(* SplitRecord finds every chunk when none overlap (ndjson.go:109).        *)
(***************************************************************************)
THEOREM FoundHolds == Spec => []FoundWithoutOverlap
<1>1. ASSUME Inv PROVE FoundWithoutOverlap
  <2>1. object \in Seq(Runes) /\ opts \in Options
    BY <1>1 DEF Inv, TypeOK
  <2>2. Plain(Text) /\ IsOptions(opts)
    BY <2>1, DocumentIs
  <2>3. opts.overlap = 0 => SplitRecord(Text, opts).ok
    BY <2>2, AllFound
  <2> QED
    BY <2>3 DEF FoundWithoutOverlap, Record
<1> QED
  BY <1>1, InvariantHolds, PTL

(***************************************************************************)
(* Splitting a text loses none of its runes but those that may be lost,    *)
(* and makes no chunk longer than the embedder takes, but for a separator. *)
(***************************************************************************)
THEOREM SplitHolds == Spec => []SplitLosesNothing
<1>1. ASSUME Inv PROVE SplitLosesNothing
  <2> DEFINE t    == Text
             rows == Record.rows
             Own  == \A r \in ToSet(rows) : Places(t, r.text) = {r.at}
  <2>1. object \in Seq(Runes) /\ opts \in Options
    BY <1>1 DEF Inv, TypeOK
  <2>2. Plain(t) /\ IsOptions(opts) /\ DOMAIN t = 1 .. Len(t)
    BY <2>1, DocumentIs
  <2>3. Record = SplitRecord(t, opts)
    BY Zenon DEF Record
  <2> HIDE DEF t
  <2>4. ASSUME Record.ok
        PROVE  /\ \A r \in ToSet(rows) : Fits(r.text, opts)
               /\ Own => \A x \in 1 .. Len(t) : Lossy(t[x], opts) \/ \E r \in ToSet(rows) : x \in r.at .. r.at + Len(r.text) - 1
    BY <2>2, <2>3, <2>4, NothingLost
  <2>5. ASSUME Record.ok
        PROVE  /\ Own => \A x \in DOMAIN t :
                    \/ t[x] \in White
                    \/ ~opts.keep /\ \E s \in ToSet(Separators) : t[x] \in ToSet(s)
                    \/ \E r \in ToSet(rows) : x \in r.at .. r.at + Len(r.text) - 1
               /\ \A r \in ToSet(rows) : \E s \in ToSet(Separators) : Len(r.text) <= opts.size + Slack(s, opts)
    BY <2>2, <2>4, <2>5, Zenon DEF Lossy, Fits
  <2> QED
    BY <2>5, Zenon DEF SplitLosesNothing, t
<1> QED
  BY <1>1, InvariantHolds, PTL

(***************************************************************************)
(* The page that a hit's offset names, as long as its chunk, is the chunk  *)
(* (content.go:77 reads what ndjson.go:128 has counted).                   *)
(***************************************************************************)
THEOREM HitHolds == Spec => []HitReadsItsChunk
<1>1. ASSUME Inv PROVE HitReadsItsChunk
  <2> DEFINE t    == Text
             rows == Record.rows
             bs   == Bytes(object)
             W    == DOMAIN Width
  <2>1. object \in Seq(Runes) /\ opts \in Options
    BY <1>1 DEF Inv, TypeOK
  <2>2. /\ Plain(t) /\ IsOptions(opts) /\ t \in Texts /\ object \in Texts
        /\ Record \in Progress(t)
    BY <2>1, DocumentIs DEF Plain
  <2>3. t \in Seq(W) /\ object \in Seq(W) /\ rows \in Seq(Found(t)) /\ bs \in Seq(W \X Nat)
    BY <2>2, BytesAre DEF Texts, Progress
  <2>4. ASSUME Record.ok, object # <<>>, object[1] \notin White, NEW r \in ToSet(rows)
        PROVE  {ToValidUTF8(raw) : raw \in FetchRange(bs, r.offset, Len(Bytes(r.text)), TRUE)} = {r.text}
    <3> DEFINE c == r.text
               i == r.at
               off == r.offset
               n == Len(Bytes(c))
    <3>1. c # <<>>
      <4>1. \A q \in ToSet(rows) : q.text # <<>>
        <5>1. Record = SplitRecord(t, opts)
          BY Zenon DEF Record
        <5> HIDE DEF t
        <5> QED
          BY <2>2, <2>4, <5>1, NothingLost
      <4> QED
        BY <4>1
    <3>2. r \in Found(t)
      <4> HIDE DEF rows, t
      <4> QED
        BY <2>3, <2>4 DEF ToSet
    <3>3. c \in Texts /\ i \in Nat \ {0} /\ i \in Places(t, c) /\ off = ByteOffset(t, i)
      BY <3>2 DEF Found
    <3>4. PICK a : TrimsAt(object, a)
      BY <2>1, DocumentIs
    <3>5. a = 0 /\ In(t, object, 0)
      BY <2>4, <3>4 DEF TrimsAt, Text
    <3> HIDE DEF t, c, i, off, rows
    <3>6. c \in Seq(W) /\ Len(c) \in Nat /\ 0 < Len(c) /\ Len(t) \in Nat /\ Len(object) \in Nat
      <4>1. c \in Seq(W) /\ Len(t) \in Nat /\ Len(object) \in Nat
        BY <2>3, <3>3 DEF Texts
      <4> QED
        BY <3>1, <4>1
    <3>7. In(c, t, i - 1)
      BY <2>3, <3>3, <3>6, PlacesAre
    <3> DEFINE e == i + Len(c) - 1
    <3>8. e \in Nat /\ i <= e /\ i <= e + 1 /\ e <= Len(t) /\ e <= Len(object) /\ i - 1 + 1 = i /\ i - 1 + Len(c) = e
      BY <3>3, <3>5, <3>6, <3>7 DEF In
    <3> HIDE DEF e
    <3>9. SubSeq(object, i, e) = c
      <4> DEFINE k == i - 1
      <4>1. In(c, t, k) /\ 0 + k = k
        BY <3>3, <3>7
      <4> HIDE DEF k
      <4>2. In(c, object, 0 + k)
        BY <2>3, <3>5, <3>6, <4>1, InIn
      <4>3. In(c, object, i - 1)
        BY <4>1, <4>2 DEF k
      <4>4. SubSeq(object, i - 1 + 1, i - 1 + Len(c)) = c
        BY <2>3, <3>6, <4>3, InIsPart
      <4> QED
        BY <3>8, <4>4
    <3>10. off = ByteOffset(object, i)
      <4> DEFINE m == i - 1
      <4>1. m \in Nat /\ 1 <= m + 1 /\ m <= Len(t) /\ m <= Len(object) /\ m - 1 + 1 = m /\ 1 \in Nat \ {0}
        BY <3>3, <3>8
      <4> HIDE DEF m
      <4> DEFINE p == SubSeq(t, 1, m)
                 q == SubSeq(object, 1, m)
      <4>2. /\ p \in Seq(W) /\ Len(p) = m /\ \A x \in 1 .. Len(p) : p[x] = t[1 + x - 1]
            /\ q \in Seq(W) /\ Len(q) = m /\ \A x \in 1 .. Len(q) : q[x] = object[1 + x - 1]
        BY <2>3, <4>1, PartIs
      <4>3. \A x \in 1 .. Len(t) : t[x] = object[x]
        <5>1. \A x \in 1 .. Len(t) : t[x] = object[0 + x] /\ 0 + x = x
          BY <3>5, <3>6 DEF In
        <5> QED
          BY <5>1
      <4> HIDE DEF p, q
      <4>4. \A x \in 1 .. m : 1 + x - 1 = x /\ x \in 1 .. Len(t)
        BY <3>6, <4>1
      <4>5. \A x \in 1 .. m : p[x] = q[x]
        BY <4>2, <4>3, <4>4
      <4>6. p = q
        BY <4>2, <4>5
      <4> QED
        BY <3>3, <4>6 DEF ByteOffset, p, q, m
    <3>11. /\ off \in Nat /\ n \in Nat /\ Len(bs) \in Nat /\ off + n <= Len(bs) /\ 0 < n
           /\ Bytes(c) = SubSeq(bs, off + 1, off + n) /\ Bytes(c) \in Seq(W \X Nat)
      <4>1. LET d == SubSeq(object, i, e)
            IN  /\ d \in Seq(W) /\ Bytes(d) \in Seq(W \X Nat)
                /\ ByteOffset(object, i) \in Nat /\ Len(Bytes(d)) \in Nat /\ Len(Bytes(object)) \in Nat
                /\ ByteOffset(object, i) + Len(Bytes(d)) <= Len(Bytes(object))
                /\ i <= e => 0 < Len(Bytes(d))
                /\ Bytes(d) = SubSeq(Bytes(object), ByteOffset(object, i) + 1, ByteOffset(object, i) + Len(Bytes(d)))
        <5> HIDE DEF W
        <5>1. W \in SUBSET (DOMAIN Width)
          BY DEF W
        <5> QED
          BY <2>3, <3>3, <3>8, <5>1, OffsetIs, SMTT(60)
      <4> QED
        BY <3>8, <3>9, <3>10, <4>1
    <3> HIDE DEF bs, n, W
    <3> DEFINE fetched == FetchRange(bs, off, n, TRUE)
    <3>12. fetched # {} /\ \A raw \in fetched : raw \in Seq(W \X Nat) /\ Page(raw, bs, off, n)
      <4>1. ~(off >= Len(bs)) /\ TRUE \in BOOLEAN
        BY <3>11
      <4>2. /\ fetched = {} <=> TRUE /\ off >= Len(bs)
            /\ \A raw \in fetched : raw \in Seq(W \X Nat) /\ Page(raw, bs, IF TRUE THEN off ELSE 0, n)
        BY <2>3, <3>11, <4>1, FetchedIs
      <4> HIDE DEF fetched
      <4> QED
        BY <4>1, <4>2
    <3> HIDE DEF fetched
    <3>13. ASSUME NEW raw \in fetched PROVE raw = Bytes(c)
      <4>1. raw \in Seq(W \X Nat) /\ Page(raw, bs, off, n)
        BY <3>12
      <4>2. Len(raw) = n
        <5>1. Len(raw) \in Nat /\ Len(raw) <= n /\ (Len(raw) = n \/ off + Len(raw) = Len(bs))
          BY <4>1 DEF Page
        <5> QED
          BY <3>11, <5>1
      <4>3. SubSeq(bs, off + 1, off + Len(raw)) = raw
        <5>1. In(raw, bs, off)
          BY <4>1 DEF Page
        <5> QED
          BY <2>3, <4>1, <5>1, InIsPart
      <4> QED
        BY <3>11, <4>2, <4>3
    <3>14. ToValidUTF8(Bytes(c)) = c
      BY <3>6, WholeTextIs DEF W
    <3>15. {ToValidUTF8(raw) : raw \in fetched} = {c}
      BY <3>12, <3>13, <3>14
    <3> QED
      BY <3>15, Zenon DEF fetched, c, off, n
  <2> QED
    BY <2>4, Zenon DEF HitReadsItsChunk
<1> QED
  BY <1>1, InvariantHolds, PTL

=============================================================================
