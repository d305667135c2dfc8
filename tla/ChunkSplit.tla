------------------------------ MODULE ChunkSplit ------------------------------
(***************************************************************************)
(* How a record's text becomes chunks: ChunkTextRecursively (protect the   *)
(* decimal points, split by the separators in turn, merge the pieces up to *)
(* the chunk size with an overlap, restore, trim) and SplitRecord, which   *)
(* finds each chunk in the text again to give it its offset.               *)
(*                                                                         *)
(* A text is a sequence of runes.  Lengths count runes, offsets count      *)
(* bytes, as in the code.                                                  *)
(***************************************************************************)
EXTENDS Naturals, Sequences, SequencesExt, FiniteSetsExt

CONSTANTS
  White,        \* the runes TrimSpace removes
  Digits,       \* \p{Nd}
  Stop,         \* the full stop
  Placeholder,  \* stands for a decimal point while the text is split
  Width,        \* the number of bytes of each rune
  Separators    \* tried in this order, the empty one last

\* The texts, and what stands in for them while they are split.
Texts == Seq(DOMAIN Width)

ASSUME WidthAssumption      == Stop \in DOMAIN Width /\ \A r \in DOMAIN Width : Width[r] \in Nat \ {0}
ASSUME SeparatorsAssumption == Separators \in Seq(Texts) \ {<<>>} /\ Separators[Len(Separators)] = <<>>

\* decimal.go takes a private-use rune: no white space, and in no separator.
ASSUME PlaceholderAssumption ==
  /\ Placeholder \in DOMAIN Width \ White
  /\ \A i \in DOMAIN Separators : Placeholder \notin ToSet(Separators[i])

\* ChunkSize, ChunkOverlap and KeepSeparator, as ChunkTextRecursively leaves them.
IsOptions(o) == o.size \in Nat \ {0} /\ o.overlap \in 0 .. o.size - 1 /\ o.keep \in BOOLEAN

TrimSpace(t) ==
  LET ink == {i \in DOMAIN t : t[i] \notin White}
  IN  IF ink = {} THEN <<>> ELSE SubSeq(t, Min(ink), Max(ink))

\* The places of t where s begins.
Places(t, s) == {i \in 1 .. Len(t) + 1 - Len(s) : SubSeq(t, i, i + Len(s) - 1) = s}

(***************************************************************************)
(* \d+\.\d+ from left to right: a stop between digits is a decimal point,  *)
(* unless the digits before it already belong to the number before.        *)
(***************************************************************************)
IsDecimalPoint(t) ==
  LET stops == {i \in DOMAIN t : t[i] = Stop}
      point[i \in stops] ==
        /\ i > 1 /\ i < Len(t)
        /\ {t[i - 1], t[i + 1]} \subseteq Digits
        /\ \A k \in stops : k < i /\ point[k] => \E d \in k + 1 .. i - 1 : t[d] \notin Digits
  IN  point

ProtectDecimalPeriods(t) ==
  [i \in DOMAIN t |-> IF t[i] = Stop /\ IsDecimalPoint(t)[i] THEN Placeholder ELSE t[i]]

\* Mutated: the placeholders stay.
UnprotectNothing(t) == t

UnprotectDecimalPeriods(t) ==
  [i \in DOMAIN t |-> IF t[i] = Placeholder THEN Stop ELSE t[i]]

(***************************************************************************)
(* strings.Split, from left to right: a piece ends where sep does, when    *)
(* all of sep lies behind the piece before.                                *)
(***************************************************************************)
CutAt(s, t, sep, n) ==
  IF s.from + Len(sep) > n + 1 \/ SubSeq(t, n + 1 - Len(sep), n) # sep THEN s
  ELSE [done |-> Append(s.done, SubSeq(t, s.from, n - Len(sep))), from |-> n + 1]

SplitAt(t, sep) ==
  LET after[n \in 0 .. Len(t)] ==
        IF n = 0 THEN [done |-> <<>>, from |-> 1] ELSE CutAt(after[n - 1], t, sep, n)
      end == after[Len(t)]
  IN  Append(end.done, SubSeq(t, end.from, Len(t)))

\* The empty separator splits into runes; a kept one stays in front of what follows it.
Pieces(t, sep, keep) ==
  IF sep = <<>> THEN [i \in DOMAIN t |-> <<t[i]>>]
  ELSE LET ps == SplitAt(t, sep)
       IN  [i \in DOMAIN ps |-> IF keep /\ i > 1 THEN sep \o ps[i] ELSE ps[i]]

Joined(ps, sep) ==
  LET first[n \in 0 .. Len(ps)] ==
        IF n < 2 THEN IF n = 0 THEN <<>> ELSE ps[1] ELSE first[n - 1] \o sep \o ps[n]
  IN  first[Len(ps)]

\* The separator in front of the next piece counts only from the second piece on.
ShouldPopChunk(cur, next, sep, o) ==
  LET total == Len(Joined(cur, sep))
  IN  /\ cur # <<>>
      /\ \/ total > o.overlap
         \/ total > 0 /\ total + Len(next) + (IF Len(cur) < 2 THEN 0 ELSE Len(sep)) > o.size

\* cur without the pieces in front that are too much for the overlap.
Popped(cur, next, sep, o) ==
  LET after(n) == SubSeq(cur, n + 1, Len(cur))
  IN  after(Min({n \in 0 .. Len(cur) : ~ShouldPopChunk(after(n), next, sep, o)}))

JoinDocs(docs, cur, sep) ==
  IF TrimSpace(Joined(cur, sep)) = <<>> THEN docs ELSE Append(docs, TrimSpace(Joined(cur, sep)))

\* Mutated: the last piece is forgotten.
MergeSplitsDropsLast(ps, sep, o) ==
  IF Len(ps) < 2 THEN <<>> ELSE <<TrimSpace(Joined(SubSeq(ps, 1, Len(ps) - 1), sep))>>

AddSplit(s, p, sep, o) ==
  IF s.cur # <<>> /\ Len(Joined(Append(s.cur, p), sep)) > o.size
  THEN [docs |-> JoinDocs(s.docs, s.cur, sep), cur |-> Append(Popped(s.cur, p, sep, o), p)]
  ELSE [s EXCEPT !.cur = Append(@, p)]

MergeSplits(ps, sep, o) ==
  LET after[n \in 0 .. Len(ps)] ==
        IF n = 0 THEN [docs |-> <<>>, cur |-> <<>>] ELSE AddSplit(after[n - 1], ps[n], sep, o)
      end == after[Len(ps)]
  IN  JoinDocs(end.docs, end.cur, sep)

\* Pieces shorter than a chunk are collected and merged, longer ones split further.
AddPiece(s, p, glue, o, further) ==
  IF Len(p) < o.size THEN [s EXCEPT !.good = Append(@, p)]
  ELSE [good |-> <<>>, final |-> s.final \o MergeSplits(s.good, glue, o) \o further[p]]

SplitBy(t, sep, o, further) ==
  LET ps   == Pieces(t, sep, o.keep)
      glue == IF o.keep THEN <<>> ELSE sep
      after[n \in 0 .. Len(ps)] ==
        IF n = 0 THEN [good |-> <<>>, final |-> <<>>]
        ELSE AddPiece(after[n - 1], ps[n], glue, o, further)
      end == after[Len(ps)]
  IN  end.final \o MergeSplits(end.good, glue, o)

(***************************************************************************)
(* By the first separator that occurs, or else the last, and by those      *)
(* after it what is still too long.  with[n] splits by the last n.         *)
(***************************************************************************)
SplitText(o) ==
  LET with[n \in 0 .. Len(Separators)] ==
        IF n = 0 THEN [t \in Texts |-> <<t>>]
        ELSE LET sep == Separators[Len(Separators) + 1 - n]
             IN  [t \in Texts |->
                    IF n > 1 /\ sep # <<>> /\ Places(t, sep) = {} THEN with[n - 1][t]
                    ELSE SplitBy(t, sep, o, with[n - 1])]
  IN  with[Len(Separators)]

\* Chunks that are nothing but white space are dropped.
AddChunk(cs, c) == IF TrimSpace(c) = <<>> THEN cs ELSE Append(cs, TrimSpace(c))

KeptChunks(raw) ==
  LET after[n \in 0 .. Len(raw)] ==
        IF n = 0 THEN <<>> ELSE AddChunk(after[n - 1], UnprotectDecimalPeriods(raw[n]))
  IN  after[Len(raw)]

ChunkTextRecursively(t, o) == KeptChunks(SplitText(o)[ProtectDecimalPeriods(t)])

\* By how much a chunk whose pieces s divides may pass the size: shouldPopChunk does
\* not count the separator behind a single piece it keeps as the overlap; without an
\* overlap only an empty piece is kept.
Slack(s, o) ==
  IF o.keep THEN 0
  ELSE IF o.overlap > 0 THEN Len(s)
  ELSE IF ToSet(s) \subseteq White THEN 0 ELSE Len(s) - 1

-----------------------------------------------------------------------------
Bytes(t) == FlattenSeq([i \in DOMAIN t |-> [b \in 1 .. Width[t[i]] |-> <<t[i], b>>]])

\* Mutated: runes are counted.
RuneOffset(t, i) == i - 1

\* The offset of the i-th rune.
ByteOffset(t, i) == Len(Bytes(SubSeq(t, 1, i - 1)))

(***************************************************************************)
(* SplitRecord: each chunk is looked for after the start of the one before *)
(* it; one that is not found fails the record, and the file with it.       *)
(***************************************************************************)
AddRow(s, t, c) ==
  LET found == {i \in Places(t, c) : i > s.start}
  IN  IF ~s.ok \/ found = {} THEN [s EXCEPT !.ok = FALSE]
      ELSE [ok |-> TRUE, start |-> Min(found),
            rows |-> Append(s.rows, [text |-> c, at |-> Min(found),
                                     offset |-> ByteOffset(t, Min(found))])]

Located(chunks, t) ==
  LET after[n \in 0 .. Len(chunks)] ==
        IF n = 0 THEN [ok |-> TRUE, start |-> 0, rows |-> <<>>]
        ELSE AddRow(after[n - 1], t, chunks[n])
  IN  after[Len(chunks)]

SplitRecord(t, o) == Located(ChunkTextRecursively(t, o), t)

=============================================================================
