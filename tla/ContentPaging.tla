---------------------------- MODULE ContentPaging ----------------------------
(***************************************************************************)
(* One document from both ends: ingestion trims it and splits it into the  *)
(* chunks that ChunkSplit computes, each with the byte offset that a       *)
(* search hit carries; GET /v1/content reads the raw object page by page,  *)
(* from such an offset or from the start.                                  *)
(***************************************************************************)
EXTENDS ChunkSplit

CONSTANTS
  Runes,         \* what documents are written in
  MaxLength,     \* bound: runes per document
  MaxRead,       \* bound: bytes after which a client asks for no more
  Options,       \* the chunk options ingestion may be configured with
  Limits,        \* what clients pass as limit; 0 stands for none or an invalid one
  DefaultLimit,
  MaxLimit,
  Invalid        \* U+FFFD

ASSUME OptionsAssumption == \A o \in Options : IsOptions(o)
ASSUME LimitsAssumption  == Limits \subseteq Nat /\ 0 \in Limits /\ {DefaultLimit, MaxLimit} \subseteq Nat \ {0}
ASSUME BoundsAssumption  == {MaxLength, MaxRead} \subseteq Nat

\* No document is written with the rune that decimal.go takes for a placeholder.
ASSUME RunesAssumption == Runes \subseteq DOMAIN Width \ {Placeholder}

VARIABLES
  object,  \* the raw document
  opts,    \* the chunk options
  start,   \* the offset of the client's first page
  limit,   \* its limit
  ranged,  \* the source honours Range: 206, and 416 past the end
  read,    \* the bytes of all its pages so far
  page,    \* the text of its last page
  answer   \* "none", "more", "end" (200 without more) or "failed" (502)

vars == <<object, opts, start, limit, ranged, read, page, answer>>

Init ==
  /\ object = <<>>
  /\ opts \in Options
  /\ start = 0
  /\ limit = 0
  /\ ranged = TRUE
  /\ read = <<>>
  /\ page = <<>>
  /\ answer = "none"

\* The uploader writes the document, rune by rune, before anyone reads it.
Write(r) ==
  /\ answer = "none"
  /\ Len(object) < MaxLength
  /\ object' = Append(object, r)
  /\ UNCHANGED <<opts, start, limit, ranged, read, page, answer>>

\* What the source sends from byte off on, or all of a document whose server
\* ignores Range (200); none when it refuses the range.
Served(bs, off, byRange) ==
  IF byRange THEN IF off >= Len(bs) THEN {} ELSE {SubSeq(bs, off + 1, Len(bs))}
  ELSE {bs}

\* GetObjectRange and fetchHTTPRange keep at most lim bytes of it.
FetchRange(bs, off, lim, byRange) ==
  {SubSeq(b, 1, Min({lim, Len(b)})) : b \in Served(bs, off, byRange)}

\* Mutated: a client may ask for as much as it likes.
LimitUncapped(n) == IF n > 0 THEN n ELSE DefaultLimit

EffectiveLimit(n) == Min({IF n > 0 THEN n ELSE DefaultLimit, MaxLimit})

\* strings.ToValidUTF8: whole runes stay, each run of other bytes becomes one Invalid.
ToValidUTF8(bs) ==
  LET Whole(i) == \A b \in 1 .. Width[bs[i][1]] :
                    i + b - 1 <= Len(bs) /\ bs[i + b - 1] = <<bs[i][1], b>>
      Valid(i) == \E k \in 1 .. i : Whole(k) /\ i < k + Width[bs[k][1]]
  IN  FlattenSeq([i \in DOMAIN bs |->
        IF Valid(i) THEN IF Whole(i) THEN <<bs[i][1]>> ELSE <<>>
        ELSE IF i > 1 /\ ~Valid(i - 1) THEN <<>> ELSE <<Invalid>>])

\* Mutated: a full page is taken for the last.
HasMoreThan(raw, n) == Len(raw) > n

HasMore(raw, n) == Len(raw) >= n /\ raw # <<>>

\* ContentHandler.ServeHTTP for the page at off.
Serve(off, lim, byRange) ==
  LET n == EffectiveLimit(lim)
      fetched == FetchRange(Bytes(object), off, n, byRange)
  IN  IF fetched = {} THEN answer' = "failed" /\ UNCHANGED <<read, page>>
      ELSE \E raw \in fetched :
             /\ read' = read \o raw
             /\ page' = ToValidUTF8(raw)
             /\ answer' = IF HasMore(raw, n) THEN "more" ELSE "end"

Rows == SplitRecord(TrimSpace(object), opts).rows

\* A client reads from the start of the document or from a hit's offset ...
ReadFirst(off, lim, byRange) ==
  /\ answer = "none"
  /\ object # <<>>
  /\ start' = off
  /\ limit' = lim
  /\ ranged' = byRange
  /\ Serve(off, lim, byRange)
  /\ UNCHANGED <<object, opts>>

\* ... and takes next_offset as the offset of the next page as long as there is more.
ReadNext ==
  /\ answer = "more"
  /\ Len(read) <= MaxRead
  /\ Serve(start + Len(read), limit, ranged)
  /\ UNCHANGED <<object, opts, start, limit, ranged>>

Offsets == {0} \cup {r.offset : r \in ToSet(Rows)}

Next ==
  \/ \E r \in Runes : Write(r)
  \/ \E off \in Offsets, lim \in Limits, byRange \in BOOLEAN : ReadFirst(off, lim, byRange)
  \/ ReadNext

Spec == Init /\ [][Next]_vars

-----------------------------------------------------------------------------
TypeOK ==
  /\ object \in Seq(Runes) /\ Len(object) <= MaxLength
  /\ opts \in Options
  /\ limit \in Limits
  /\ start \in 0 .. Len(Bytes(object))
  /\ ranged \in BOOLEAN
  /\ Len(read) <= MaxRead + MaxLimit
  /\ page \in Seq(Runes \cup {Invalid})
  /\ answer \in {"none", "more", "end", "failed"}

Text   == TrimSpace(object)
Record == SplitRecord(Text, opts)

\* The document changes no more once it is read, and neither do its chunks.
Unread == answer = "none"

(***************************************************************************)
(* ndjson.go:109: the next chunk begins anywhere after the start of the    *)
(* one before it, so every chunk is found and no document is refused.      *)
(***************************************************************************)
EveryChunkIsFound == Unread => Record.ok

(***************************************************************************)
(* The same without overlap: chunks that do not overlap are always found.  *)
(***************************************************************************)
FoundWithoutOverlap == Unread /\ opts.overlap = 0 => Record.ok

(***************************************************************************)
(* Splitting loses nothing: every rune of an ingested text that is neither *)
(* white space nor a dropped separator lies in the place some chunk's      *)
(* offset gives it, as long as no chunk occurs twice in the text (the      *)
(* first place after the chunk before is taken for it, ndjson.go:123).  No *)
(* chunk is longer than the size the embedder is configured for, but for   *)
(* one separator in it, which shouldPopChunk does not count.               *)
(***************************************************************************)
SplitLosesNothing ==
  LET rec  == Record
      text == Text
  IN  Unread /\ rec.ok =>
        /\ (\A r \in ToSet(rec.rows) : Places(text, r.text) = {r.at}) =>
             \A i \in DOMAIN text :
               \/ text[i] \in White
               \/ ~opts.keep /\ \E s \in ToSet(Separators) : text[i] \in ToSet(s)
               \/ \E r \in ToSet(rec.rows) : i \in r.at .. r.at + Len(r.text) - 1
        /\ \A r \in ToSet(rec.rows) : \E s \in ToSet(Separators) :
             Len(r.text) <= opts.size + Slack(s, opts)

(***************************************************************************)
(* A hit leads back to its text: when the document has no leading white    *)
(* space, the page at the offset of a chunk, of as many bytes as the       *)
(* chunk, is the chunk, with no rune cut at either end.  ingest trims the  *)
(* document before it computes the offsets, content.go does not.           *)
(***************************************************************************)
HitReadsItsChunk ==
  LET rec == Record
  IN  Unread /\ rec.ok /\ object # <<>> /\ object[1] \notin White =>
        \A r \in ToSet(rec.rows) :
          LET n == Len(Bytes(r.text))
          IN  {ToValidUTF8(raw) : raw \in FetchRange(Bytes(object), r.offset, n, TRUE)} = {r.text}

(***************************************************************************)
(* Following next_offset while there is more reads every byte once, in     *)
(* order, up to the end of the document; it ends in a 502 only if the last *)
(* page ended exactly at the end.  Of a server that ignores Range, which   *)
(* content.go:130 accepts, only the first page from 0 is what was asked.   *)
(***************************************************************************)
PagesAreTheSource ==
  (ranged \/ (start = 0 /\ Len(read) <= EffectiveLimit(limit))) =>
    /\ read = SubSeq(Bytes(object), start + 1, start + Len(read))
    /\ answer \in {"end", "failed"} => start + Len(read) = Len(Bytes(object))
    /\ answer = "failed" => Len(read) % EffectiveLimit(limit) = 0
=============================================================================
