------------------------------- MODULE Search -------------------------------
(***************************************************************************)
(* POST /v1/search: a language model rewrites the question into several    *)
(* queries, streamed to the client line by line as they come; the queries  *)
(* are embedded in one call; each is searched by a goroutine of its own,   *)
(* in Milvus by vector and then in Elasticsearch by entity key, the first  *)
(* error cancelling the others; and the lists of hits are merged.          *)
(*                                                                         *)
(* One search, which shares nothing with others but stores it only reads.  *)
(* Every call and every event sent is one action.                          *)
(***************************************************************************)
EXTENDS Naturals, Sequences, FiniteSets

CONSTANTS
  Original,    \* the question
  Answers,     \* what the model may answer, each a sequence of lines; none, too,
               \* is what a search without a rewriter goes on with
  Blank,       \* a line with nothing but an enumeration prefix, an empty query in a list
  Fence,       \* a line that opens or closes a code block
  JSONLines,   \* the lines that look like {"queries": [...]}, cut off or not
  QueriesOf,   \* the list, which may be empty, in each text, of one line or several,
               \* that is such an object
  Lower,       \* the lower case of each line, which may be searched as a query
  Keyless,     \* queries without an entity key
  VectorRanks, \* the rankings of chunks that Milvus may return for each query
  EntityRanks, \* those that ES may
  TopKs,       \* the values of top_k
  MaxPaths, PathCap, MergedCap,  \* ParallelRecallMaxPaths, ...PerPathCap, MergedCap
  Faults,      \* what may go wrong: a call fails ("err"), the client leaves ("gone")
  None

AllLines == DOMAIN Lower

\* All rankings, and the chunks in them.
Rankings == UNION {VectorRanks[q] \cup EntityRanks[q] : q \in AllLines}
Corpus   == UNION {{r[n] : n \in DOMAIN r} : r \in Rankings}

ASSUME CapAssumption == /\ {MaxPaths, PathCap, MergedCap} \cup TopKs \subseteq Nat \ {0}
                        /\ MaxPaths * PathCap <= MergedCap
ASSUME AnswerAssumption == /\ Answers \subseteq Seq(AllLines) /\ Original \in AllLines
                           /\ \A s \in DOMAIN QueriesOf : QueriesOf[s] \in Seq(AllLines)
\* A store has a chunk once: it is the primary key in Milvus, the _id in ES.
ASSUME RankAssumption == \A r \in Rankings : /\ r \in Seq(Corpus)
                                            /\ \A m, n \in DOMAIN r : r[m] = r[n] => m = n

Errors == {"es_disabled", "embed_required", "embed", "milvus", "es", "canceled"}

ASSUME NoneAssumption == None \notin Errors
ASSUME FaultAssumption == Faults \subseteq {"err", "gone"}

VARIABLES
  mode,     \* retrieval
  stream,   \* whether the client has asked for a stream
  topK,
  answer,   \* what the model is going to answer
  embedder, \* whether there is an embedder
  elastic,  \* whether there is an Elasticsearch
  got,      \* how many lines of it have come
  client,   \* "here" or "gone"
  pc,       \* where the request is
  queries,  \* the queries that are searched
  path,     \* the call the goroutine of each query is about to make
  mvHits,   \* what Milvus has returned to it
  esHits,   \* what ES has
  lists,    \* the hits it has found
  err,      \* the error of the search
  hits,     \* its hits
  events    \* the events sent to the client

requestVars == <<mode, stream, topK, answer, embedder, elastic>>
rewriteVars == <<got, queries>>
recallVars  == <<path, mvHits, esHits, lists>>
vars == <<requestVars, rewriteVars, client, pc, recallVars, err, hits, events>>

Paths == 1 .. MaxPaths
Modes == {"hybrid", "milvus", "es"}

Init ==
  /\ mode \in Modes /\ stream \in BOOLEAN /\ topK \in TopKs
  /\ answer \in Answers
  /\ embedder \in BOOLEAN /\ elastic \in BOOLEAN
  /\ got = 0
  /\ client = "here"
  /\ pc = "rewrite"
  /\ queries = <<Original>>
  /\ path = [i \in Paths |-> "idle"]
  /\ mvHits = [i \in Paths |-> <<>>]
  /\ esHits = [i \in Paths |-> <<>>]
  /\ lists = [i \in Paths |-> <<>>]
  /\ err = None
  /\ hits = <<>>
  /\ events = <<>>

Take(s, n) == SubSeq(s, 1, IF n <= Len(s) THEN n ELSE Len(s))

\* For each n, those of the first n elements of s that are at the places.
Selection(s, places) ==
  LET kept[n \in 0 .. Len(s)] == IF n = 0 THEN <<>>
                                 ELSE IF n \in places THEN Append(kept[n - 1], s[n])
                                 ELSE kept[n - 1]
  IN  kept

Select(s, places) == Selection(s, places)[Len(s)]

\* The elements of s whose key no earlier one has; keys[n] is that of s[n].
FirstOf(s, keys) ==
  Select(s, {n \in DOMAIN s : \A m \in 1 .. n - 1 : keys[m] # keys[n]})

\* The request's context is cancelled some time after the client has left.
CallFails == "err" \in Faults \/ client = "gone"
Cause(call) == IF client = "gone" THEN {call, "canceled"} ELSE {call}

-----------------------------------------------------------------------------
(***************************************************************************)
(* What is made of the model's answer.                                     *)
(***************************************************************************)
\* Mutated: without a limit.
DedupeAll(qs) == FirstOf(qs, [n \in DOMAIN qs |-> Lower[qs[n]]])

\* normalizeQueries and DedupeQueriesForParallel: the first of those that are
\* the same in lower case.
Dedupe(qs) == Take(FirstOf(qs, [n \in DOMAIN qs |-> Lower[qs[n]]]), MaxPaths)

StripCodeFence(lines) ==
  IF lines = <<>> \/ Head(lines) # Fence THEN lines
  ELSE LET fences == {i \in DOMAIN lines : lines[i] = Fence} \ {1}
       IN  SubSeq(lines, 2, IF fences = {} THEN Len(lines)
                            ELSE (CHOOSE i \in fences : \A j \in fences : j <= i) - 1)

\* looksLikeQueriesJSON and parseQueriesJSON, which wants at least one query.
HasQueries(s) == s \in DOMAIN QueriesOf /\ QueriesOf[s] # <<>>

NotBlank(lines) == {n \in DOMAIN lines : lines[n] # Blank}

\* parseQueriesFromModel: what is not blank in the list of a JSON object, or else
\* in the lines, those of an object that is broken or has no query, too.
Parsed(lines) ==
  LET s == StripCodeFence(lines)
  IN  IF HasQueries(s) THEN Select(QueriesOf[s], NotBlank(QueriesOf[s]))
      ELSE Take(Select(s, NotBlank(s)), MaxPaths)

\* No query in the answer is an error, and any error leaves the question.
Rewritten(lines) ==
  IF Parsed(lines) = <<>> THEN <<Original>> ELSE Dedupe(Parsed(lines))

Event(name, data) == [event |-> name, data |-> data]
Emitted == Cardinality({n \in DOMAIN events : events[n].event = "rewrite_query"})

\* Mutated: blank lines, too.
StreamsBlank(line) == line \notin JSONLines /\ Emitted < MaxPaths

\* lineQuerySplitter: whether a complete line is sent.
Streams(line) == line # Blank /\ line \notin JSONLines /\ Emitted < MaxPaths

\* writeEv may still succeed when the client has just gone.
Send(e) == events' = Append(events, e)

(***************************************************************************)
(* RunTextRetrievalWithOptionalRewrite: an error of the rewriter is logged *)
(* and the question itself is searched.                                    *)
(***************************************************************************)
FallBack == queries' = <<Original>> /\ pc' = "recall"

\* A line is complete.
StreamLine ==
  /\ pc = "rewrite" /\ stream
  /\ got < Len(answer)
  /\ got' = got + 1
  /\ LET line == answer[got + 1]
     IN  IF ~Streams(line) THEN UNCHANGED <<queries, pc, events>>
         ELSE \/ Send(Event("rewrite_query", line)) /\ UNCHANGED <<queries, pc>>
              \/ client = "gone" /\ FallBack /\ UNCHANGED events
  /\ UNCHANGED <<requestVars, client, recallVars, err, hits>>

\* The stream ends; the last line may still be without its newline.
StreamEnds ==
  /\ pc = "rewrite" /\ stream
  /\ Len(answer) - got <= 1
  /\ got' = Len(answer)
  /\ LET sends == got < Len(answer) /\ Streams(answer[Len(answer)])
     IN  \/ /\ IF sends THEN Send(Event("rewrite_query", answer[Len(answer)]))
                        ELSE UNCHANGED events
            /\ queries' = Rewritten(answer)
            /\ pc' = "recall"
         \/ sends /\ client = "gone" /\ FallBack /\ UNCHANGED events
  /\ UNCHANGED <<requestVars, client, recallVars, err, hits>>

\* Without a stream the answer comes as one.
Complete ==
  /\ pc = "rewrite" /\ ~stream
  /\ got' = Len(answer)
  /\ queries' = Rewritten(answer)
  /\ pc' = "recall"
  /\ UNCHANGED <<requestVars, client, recallVars, err, hits, events>>

RewriteFails ==
  /\ pc = "rewrite"
  /\ CallFails
  /\ FallBack
  /\ UNCHANGED <<requestVars, got, client, recallVars, err, hits, events>>

-----------------------------------------------------------------------------
(***************************************************************************)
(* RunTextRetrieval for one query, RunParallelTextRetrieval for several.   *)
(***************************************************************************)
Searched == DOMAIN queries
PathK == IF Len(queries) = 1 \/ topK <= PathCap THEN topK ELSE PathCap

StartPaths(call) ==
  /\ path' = [i \in Paths |-> IF i \in Searched THEN call ELSE "idle"]
  /\ pc' = "wait"

Fail(e) == err' = e /\ pc' = "answer"

Recall ==
  /\ pc = "recall"
  /\ IF mode = "es"
     THEN IF elastic THEN StartPaths("ES") /\ UNCHANGED err
                ELSE Fail("es_disabled") /\ UNCHANGED path
     ELSE IF embedder THEN pc' = "embed" /\ UNCHANGED <<path, err>>
                      ELSE Fail("embed_required") /\ UNCHANGED path
  /\ UNCHANGED <<requestVars, rewriteVars, client, mvHits, esHits, lists, hits, events>>

\* One call for all queries; fewer vectors than queries are an error.
Embed ==
  /\ pc = "embed"
  /\ \/ StartPaths("Milvus") /\ UNCHANGED err
     \/ CallFails /\ (\E e \in Cause("embed") : Fail(e)) /\ UNCHANGED path
  /\ UNCHANGED <<requestVars, rewriteVars, client, mvHits, esHits, lists, hits, events>>

\* Mutated: the last error is kept.
LastError(e) == e

\* errgroup: the first error stays, and cancels the context of the others.
GroupError(e) == IF err = None THEN e ELSE err

PathFails(i, e) ==
  /\ path' = [path EXCEPT ![i] = "done"]
  /\ err' = GroupError(e)
  /\ UNCHANGED lists

PathEnds(i, list) ==
  /\ path' = [path EXCEPT ![i] = "done"]
  /\ lists' = [lists EXCEPT ![i] = list]
  /\ UNCHANGED err

Hit(c, source) == [chunk |-> c, source |-> source]
Chunks(list) == {list[n].chunk : n \in DOMAIN list}

MilvusHits(ranking) == [n \in DOMAIN ranking |-> Hit(ranking[n], "milvus")]
ESHits(ranking) == [n \in DOMAIN ranking |-> Hit(ranking[n], "es")]

\* Mutated: the hits of ES come first.
MergedESFirst(mv, es, k) ==
  Take(es \o SelectSeq(mv, LAMBDA h : h.chunk \notin Chunks(es)), k)

\* MergeDedupeMilvusFirst: what ES alone has found comes last.  It returns as soon
\* as that makes k hits, and what ES has behind is not marked any more.
Merged(mv, es, k) ==
  LET alone  == {n \in DOMAIN es : es[n].chunk \notin Chunks(mv)}
      full   == {n \in alone : Len(mv) + Cardinality({m \in alone : m <= n}) >= k}
      read   == {n \in DOMAIN es : \A m \in full : n <= m}
      both   == {es[n].chunk : n \in read}
      marked == [n \in DOMAIN mv |-> IF mv[n].chunk \in both THEN Hit(mv[n].chunk, "both")
                                                            ELSE mv[n]]
  IN  Take(marked \o Select(es, alone), k)

\* A call in a cancelled context fails, unless its answer was on its way.
PathCanFail == CallFails \/ err # None
PathCauses(call) ==
  (IF err # None THEN {"canceled"} ELSE {}) \cup (IF CallFails THEN Cause(call) ELSE {})

SearchVectors(i) ==
  /\ path[i] = "Milvus"
  /\ \/ \E ranking \in VectorRanks[queries[i]] :
          LET mv == MilvusHits(Take(ranking, PathK))
          IN  /\ mvHits' = [mvHits EXCEPT ![i] = mv]
              /\ IF mode = "hybrid" /\ elastic /\ queries[i] \notin Keyless
                 THEN path' = [path EXCEPT ![i] = "ES"] /\ UNCHANGED <<lists, err>>
                 ELSE PathEnds(i, mv)
     \/ /\ PathCanFail
        /\ \E e \in PathCauses("milvus") : PathFails(i, e)
        /\ UNCHANGED mvHits
  /\ UNCHANGED <<requestVars, rewriteVars, client, pc, esHits, hits, events>>

\* In a hybrid search an error of ES is logged, and Milvus has the say.
SearchByEntityKeys(i) ==
  /\ path[i] = "ES"
  /\ \/ \E ranking \in IF queries[i] \in Keyless THEN {<<>>} ELSE EntityRanks[queries[i]] :
          LET es == ESHits(Take(ranking, PathK))
          IN  /\ esHits' = [esHits EXCEPT ![i] = es]
              /\ PathEnds(i, Merged(mvHits[i], es, PathK))
     \/ /\ PathCanFail /\ queries[i] \notin Keyless
        /\ IF mode = "hybrid" THEN PathEnds(i, mvHits[i])
           ELSE \E e \in PathCauses("es") : PathFails(i, e)
        /\ UNCHANGED esHits
  /\ UNCHANGED <<requestVars, rewriteVars, client, pc, mvHits, hits, events>>

\* For each i, the first i lists in one.
Joined(all) ==
  LET joined[i \in 0 .. Len(all)] == IF i = 0 THEN <<>> ELSE joined[i - 1] \o all[i]
  IN  joined

\* Mutated: chunks found twice stay twice.
MergeWithRepeats(all, cap) == Take(Joined(all)[Len(all)], cap)

\* MergeHitsDedupeSequential, in the order of the queries.
MergeSequential(all, cap) ==
  LET every == Joined(all)[Len(all)]
  IN  Take(FirstOf(every, [n \in DOMAIN every |-> every[n].chunk]), cap)

\* The hits of a single query are not merged.
Found == IF Len(queries) = 1 THEN lists[1]
         ELSE MergeSequential([i \in Searched |-> lists[i]], MergedCap)

\* Mutated: until every list has come.
WaitForLists == \A i \in Searched : lists[i] # <<>>
\* Mutated: until the first error.
WaitForFirst == err # None \/ \A i \in Searched : path[i] = "done"
\* errgroup.Wait
WaitForAll == \A i \in Searched : path[i] = "done"

Wait ==
  /\ pc = "wait"
  /\ WaitForAll
  /\ pc' = "answer"
  /\ hits' = IF err = None THEN Take(Found, topK) ELSE <<>>
  /\ UNCHANGED <<requestVars, rewriteVars, client, recallVars, err, events>>

-----------------------------------------------------------------------------
(***************************************************************************)
(* ServeHTTP and serveSearchStream.                                        *)
(***************************************************************************)
\* Mutated: the error is not looked at.
FirstEventBlind == IF stream THEN Event("rewrite_queries", queries) ELSE Event("done", hits)

\* The first event that follows the search; without a stream, the JSON answer.
FirstEvent == IF err # None THEN Event("error", err)
              ELSE IF stream THEN Event("rewrite_queries", queries)
              ELSE Event("done", hits)

Answer ==
  /\ pc = "answer"
  /\ \/ /\ Send(FirstEvent)
        /\ pc' = IF FirstEvent.event = "rewrite_queries" THEN "finish" ELSE "answered"
     \/ client = "gone" /\ pc' = "answered" /\ UNCHANGED events
  /\ UNCHANGED <<requestVars, rewriteVars, client, recallVars, err, hits>>

Finish ==
  /\ pc = "finish"
  /\ \/ Send(Event("done", hits))
     \/ client = "gone" /\ UNCHANGED events
  /\ pc' = "answered"
  /\ UNCHANGED <<requestVars, rewriteVars, client, recallVars, err, hits>>

Leave ==
  /\ "gone" \in Faults
  /\ client = "here" /\ pc # "answered"
  /\ client' = "gone"
  /\ UNCHANGED <<requestVars, rewriteVars, pc, recallVars, err, hits, events>>

Rewrite == StreamLine \/ StreamEnds \/ Complete \/ RewriteFails

Serve ==
  \/ Rewrite \/ Recall \/ Embed \/ Wait \/ Answer \/ Finish
  \/ \E i \in Paths : SearchVectors(i) \/ SearchByEntityKeys(i)

Next == Serve \/ Leave

Spec == Init /\ [][Next]_vars

\* Every call returns: the clients of the embedder and of ES have timeouts, the
\* model is taken to end its answer and Milvus to give one.
FairSpec == Spec /\ WF_vars(Serve)

-----------------------------------------------------------------------------
RequestOK ==
  /\ pc \in {"rewrite", "recall", "embed", "wait", "answer", "finish", "answered"}
  /\ client \in {"here", "gone"}
  /\ mode \in Modes /\ stream \in BOOLEAN /\ topK \in TopKs
  /\ err \in Errors \cup {None}
PathsOK == path \in [Paths -> {"idle", "Milvus", "ES", "done"}]

TypeOK == RequestOK /\ PathsOK /\ Len(queries) \in Paths /\ Emitted <= MaxPaths

\* The place of a chunk in a list.
Rank(list, c) == CHOOSE n \in DOMAIN list : list[n].chunk = c
Finding(c) == {i \in Searched : c \in Chunks(lists[i])}
FirstPath(c) == CHOOSE i \in Finding(c) : \A j \in Finding(c) : i <= j
Before(c, d) == \/ FirstPath(c) < FirstPath(d)
                \/ /\ FirstPath(c) = FirstPath(d)
                   /\ Rank(lists[FirstPath(c)], c) < Rank(lists[FirstPath(c)], d)

Result == pc \in {"answer", "finish", "answered"} /\ err = None

(***************************************************************************)
(* The order of the hits is that of the queries and, for each, that of its *)
(* stores, whatever order the goroutines come back in: a chunk stands      *)
(* where the first query that found it has it, once, and what is missing   *)
(* is missing because there are top_k hits before it.                      *)
(***************************************************************************)
AnswerIsMerge ==
  Result =>
    /\ \A n \in DOMAIN hits : Finding(hits[n].chunk) # {}
    /\ \A m, n \in DOMAIN hits : m < n => Before(hits[m].chunk, hits[n].chunk)
    /\ Len(hits) <= topK
    /\ \A i \in Searched : \A c \in Chunks(lists[i]) \ Chunks(hits) : Len(hits) = topK

(***************************************************************************)
(* The list of a query has everything Milvus returned, then what ES alone  *)
(* did, and as its source the store that returned it; of two stores that   *)
(* both did the list may say so only if there was room (merge.go:45).      *)
(***************************************************************************)
SourcesAreTrue ==
  \A i \in Searched : path[i] = "done" /\ err = None =>
    LET mv == Chunks(mvHits[i])
        es == Chunks(esHits[i])
    IN  /\ \A n \in DOMAIN mvHits[i] : lists[i][n].chunk = mvHits[i][n].chunk
        /\ \A n \in DOMAIN lists[i] :
             LET h == lists[i][n]
             IN  /\ h.source = "milvus" => h.chunk \in mv
                 /\ h.source = "es" => h.chunk \in es \ mv
                 /\ h.source = "both" => h.chunk \in es \cap mv
                 /\ h.chunk \in es \cap mv /\ Len(lists[i]) < PathK => h.source = "both"
        /\ Len(lists[i]) < PathK => Chunks(lists[i]) = mv \cup es

\* In plain lines: neither a code block nor anything that looks like JSON.
Plain(s) == ~HasQueries(s) /\ \A n \in DOMAIN s : s[n] \notin JSONLines \cup {Fence}

(***************************************************************************)
(* What the client has been shown while the model was answering is what is *)
(* searched: for an answer in plain lines, the two readings of it, line by *)
(* line and as a whole, agree; or the rewriting failed half way, and the   *)
(* question itself is searched (run.go:51).                                *)
(***************************************************************************)
StreamedAreSearched ==
  stream /\ pc # "rewrite" /\ Plain(answer) =>
    queries \in {<<Original>>, Dedupe([n \in 1 .. Emitted |-> events[n].data])}

(***************************************************************************)
(* The client sees the lines first, then one outcome: an error, or the     *)
(* queries that were searched and then the hits.  One that stays is        *)
(* always told the outcome.                                                *)
(***************************************************************************)
OneOutcome ==
  LET outcome == SubSeq(events, Emitted + 1, Len(events))
      whole   == IF err # None THEN <<Event("error", err)>>
                 ELSE (IF stream THEN <<Event("rewrite_queries", queries)>> ELSE <<>>)
                      \o <<Event("done", hits)>>
  IN  /\ \A n \in 1 .. Emitted : events[n].event = "rewrite_query"
      /\ outcome = Take(whole, Len(outcome))
      /\ pc = "answered" /\ client = "here" => outcome = whole

(***************************************************************************)
(* The error of a search is what went wrong, never the cancellation that   *)
(* followed from it in another goroutine; and while Milvus answers, a      *)
(* hybrid search does not fail for Elasticsearch.                          *)
(***************************************************************************)
ErrorIsCause ==
  /\ err = "canceled" => client = "gone"
  /\ err \in {"es", "es_disabled"} => mode = "es"

(***************************************************************************)
(* No goroutine of a search is left when it answers: none writes its list  *)
(* while the lists are merged, or goes on for a client that has its error. *)
(***************************************************************************)
NothingOutlives ==
  pc \in {"answer", "finish", "answered"} => \A i \in Paths : path[i] \in {"idle", "done"}

\* Every search ends.
SearchEnds == <>(pc = "answered")
=============================================================================
