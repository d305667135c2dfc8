---------------------------- MODULE SearchProofs ----------------------------
(***************************************************************************)
(* Proofs about Search, for any number of queries, whatever the model, the *)
(* embedder, Milvus and Elasticsearch return.  The lemmas come in layers:  *)
(* a selection of a sequence; the list of a query; lists in one; and then  *)
(* the invariant, part by part.                                            *)
(***************************************************************************)
EXTENDS Search, Induction, FiniteSetTheorems

\* Goroutines run only between the embedding and the answer, one for each query;
\* and those that are at Elasticsearch are there in a mode that uses it.
PathsRun ==
  /\ \A i \in Paths : path[i] \notin {"idle", "done"} => pc = "wait" /\ i \in Searched
  /\ \A i \in Paths : path[i] = "ES" => mode # "milvus"

IInv == mode \in Modes /\ PathsOK /\ PathsRun /\ ErrorIsCause

LEMMA InitInv == Init => IInv
BY NoneAssumption DEF Init, IInv, PathsOK, PathsRun, ErrorIsCause, Errors, Modes

LEMMA RewriteInv == IInv /\ Rewrite => IInv'
<1> SUFFICES ASSUME IInv, Rewrite PROVE IInv'
  OBVIOUS
<1>1. pc = "rewrite" /\ UNCHANGED <<requestVars, client, recallVars, err>>
  BY DEF Rewrite, StreamLine, StreamEnds, Complete, RewriteFails
<1>2. \A i \in Paths : path[i] \in {"idle", "done"}
  BY <1>1 DEF IInv, PathsRun
<1> QED
  BY <1>1, <1>2 DEF IInv, PathsOK, PathsRun, ErrorIsCause, requestVars, recallVars

LEMMA RecallInv == IInv /\ Recall => IInv'
<1> SUFFICES ASSUME IInv, Recall PROVE IInv'
  OBVIOUS
<1>1. pc = "recall" /\ UNCHANGED <<mode, client, queries>>
  BY DEF Recall, requestVars, rewriteVars
<1>2. \A i \in Paths : path[i] \in {"idle", "done"}
  BY <1>1 DEF IInv, PathsRun
<1>3. CASE UNCHANGED path
  BY <1>1, <1>2, <1>3 DEF Recall, Fail, StartPaths, IInv, PathsOK, PathsRun, ErrorIsCause
<1>4. CASE mode = "es" /\ StartPaths("ES") /\ UNCHANGED err
  BY <1>1, <1>4 DEF StartPaths, IInv, PathsOK, PathsRun, ErrorIsCause, Searched
<1> QED
  BY <1>3, <1>4 DEF Recall

LEMMA EmbedInv == IInv /\ Embed => IInv'
<1> SUFFICES ASSUME IInv, Embed PROVE IInv'
  OBVIOUS
<1>1. pc = "embed" /\ UNCHANGED <<mode, client, queries>>
  BY DEF Embed, requestVars, rewriteVars
<1>2. \A i \in Paths : path[i] \in {"idle", "done"}
  BY <1>1 DEF IInv, PathsRun
<1>3. CASE UNCHANGED path
  BY <1>1, <1>2, <1>3 DEF Embed, Fail, Cause, StartPaths, IInv, PathsOK, PathsRun, ErrorIsCause
<1>4. CASE StartPaths("Milvus") /\ UNCHANGED err
  BY <1>1, <1>4 DEF StartPaths, IInv, PathsOK, PathsRun, ErrorIsCause, Searched
<1> QED
  BY <1>3, <1>4 DEF Embed

\* A call that fails, alone or with the others, is the cause of a failure only
\* when nothing failed before.
LEMMA CauseIsFirst ==
  ASSUME IInv, NEW call \in {"milvus", "es"}, call = "es" => mode = "es",
         NEW e \in PathCauses(call), err' = GroupError(e), UNCHANGED <<mode, client>>
  PROVE  ErrorIsCause'
BY DEF IInv, ErrorIsCause, PathCauses, GroupError, CallFails, Cause

LEMMA PathInv ==
  ASSUME IInv, NEW i \in Paths, SearchVectors(i) \/ SearchByEntityKeys(i)
  PROVE  IInv'
<1>1. UNCHANGED <<mode, client, pc, queries>>
  BY DEF SearchVectors, SearchByEntityKeys, requestVars, rewriteVars
<1>2. path[i] \in {"Milvus", "ES"}
  BY DEF SearchVectors, SearchByEntityKeys
<1>3. pc = "wait" /\ i \in Searched
  BY <1>2 DEF IInv, PathsRun
<1>4. \/ path' = [path EXCEPT ![i] = "done"]
      \/ path' = [path EXCEPT ![i] = "ES"] /\ mode = "hybrid"
  BY DEF SearchVectors, SearchByEntityKeys, PathEnds, PathFails
<1>5. PathsOK' /\ PathsRun'
  BY <1>1, <1>3, <1>4 DEF IInv, PathsOK, PathsRun, Searched
<1>6. ErrorIsCause'
  <2>1. CASE UNCHANGED err
    BY <1>1, <2>1 DEF IInv, ErrorIsCause
  <2>2. CASE SearchVectors(i) /\ ~UNCHANGED err
    <3>1. \E e \in PathCauses("milvus") : err' = GroupError(e)
      BY <2>2 DEF SearchVectors, PathEnds, PathFails
    <3> QED
      BY <1>1, <3>1, CauseIsFirst
  <2>3. CASE SearchByEntityKeys(i) /\ ~UNCHANGED err
    <3>1. mode # "hybrid" /\ \E e \in PathCauses("es") : err' = GroupError(e)
      BY <2>3 DEF SearchByEntityKeys, PathEnds, PathFails
    <3>2. path[i] = "ES"
      BY <2>3 DEF SearchByEntityKeys
    <3>3. mode = "es"
      BY <3>1, <3>2 DEF IInv, PathsRun, Modes
    <3> QED
      BY <1>1, <3>1, <3>3, CauseIsFirst
  <2> QED
    BY <2>1, <2>2, <2>3
<1> QED
  BY <1>1, <1>5, <1>6 DEF IInv

LEMMA WaitInv == IInv /\ Wait => IInv'
<1> SUFFICES ASSUME IInv, Wait PROVE IInv'
  OBVIOUS
<1>1. pc = "wait" /\ UNCHANGED <<mode, client, queries, path, err>>
  BY DEF Wait, requestVars, rewriteVars, recallVars
<1>2. \A i \in Paths : path[i] \in {"idle", "done"}
  BY DEF Wait, WaitForAll, IInv, PathsRun, PathsOK
<1> QED
  BY <1>1, <1>2 DEF IInv, PathsOK, PathsRun, ErrorIsCause

\* What neither starts nor ends a goroutine, and is not the search itself.
LEMMA OthersInv == IInv /\ (Answer \/ Finish \/ Leave \/ UNCHANGED vars) => IInv'
<1> SUFFICES ASSUME IInv, Answer \/ Finish \/ Leave \/ UNCHANGED vars PROVE IInv'
  OBVIOUS
<1>1. UNCHANGED <<mode, queries, path, err>> /\ (pc = "wait" => pc' = "wait")
  BY DEF Answer, Finish, Leave, vars, requestVars, rewriteVars, recallVars
<1>2. client = "gone" => client' = "gone"
  BY DEF Answer, Finish, Leave, vars
<1> QED
  BY <1>1, <1>2 DEF IInv, PathsOK, PathsRun, ErrorIsCause, Searched

THEOREM NextInv == IInv /\ [Next]_vars => IInv'
BY RewriteInv, RecallInv, EmbedInv, PathInv, WaitInv, OthersInv DEF Next, Serve

THEOREM InductiveInvariant == Spec => []IInv
BY InitInv, NextInv, PTL DEF Spec

(***************************************************************************)
(* The error a search answers with is never the cancellation that another  *)
(* goroutine's error caused, and in a hybrid search never that of          *)
(* Elasticsearch.                                                          *)
(***************************************************************************)
THEOREM CauseIsTold == Spec => []ErrorIsCause
<1>1. IInv => ErrorIsCause
  BY DEF IInv
<1> QED
  BY InductiveInvariant, <1>1, PTL

\* Goroutines run only while the request waits for them.
THEOREM NoneIsLeft == Spec => []NothingOutlives
<1>1. IInv => NothingOutlives
  BY DEF IInv, PathsRun, NothingOutlives
<1> QED
  BY InductiveInvariant, <1>1, PTL

-----------------------------------------------------------------------------
(***************************************************************************)
(* Selection.                                                              *)
(***************************************************************************)
LEMMA SelectionRec ==
  ASSUME NEW V, NEW s \in Seq(V), NEW places
  PROVE  Selection(s, places) =
           [n \in 0 .. Len(s) |-> IF n = 0 THEN <<>>
                                  ELSE IF n \in places THEN Append(Selection(s, places)[n - 1], s[n])
                                  ELSE Selection(s, places)[n - 1]]
<1> DEFINE step == [x \in (1 .. Len(s)) \X Seq(V) |-> IF x[1] \in places THEN Append(x[2], s[x[1]])
                                                                        ELSE x[2]]
           Body(f) == [n \in 0 .. Len(s) |-> IF n = 0 THEN <<>>
                                             ELSE IF n \in places THEN Append(f[n - 1], s[n])
                                             ELSE f[n - 1]]
<1>1. step \in [(1 .. Len(s)) \X Seq(V) -> Seq(V)]
  OBVIOUS
<1>2. \A n \in 1 .. Len(s), r \in Seq(V) :
        step[<<n, r>>] = IF n \in places THEN Append(r, s[n]) ELSE r
  OBVIOUS
<1>3. Len(s) \in Nat /\ <<>> \in Seq(V)
  OBVIOUS
<1> HIDE DEF step
<1>4. PICK f : Iterates(f, Len(s), Seq(V), <<>>, step)
  BY <1>1, <1>3, Recursion, Zenon
<1>5. f = Body(f)
  <2>1. ASSUME NEW n \in 0 .. Len(s) PROVE f[n] = Body(f)[n]
    <3>1. CASE n = 0
      BY <1>4, <3>1 DEF Iterates
    <3>2. CASE n # 0
      <4>1. n \in 1 .. Len(s) /\ n - 1 \in 0 .. Len(s)
        BY <1>3, <3>2
      <4>2. f[n - 1] \in Seq(V)
        BY <1>4, <4>1 DEF Iterates
      <4> QED
        BY <1>2, <1>4, <3>2, <4>1, <4>2 DEF Iterates
    <3> QED
      BY <3>1, <3>2
  <2>2. DOMAIN f = 0 .. Len(s) /\ f = [n \in 0 .. Len(s) |-> f[n]]
    BY <1>4 DEF Iterates
  <2> QED
    BY <2>1, <2>2
<1>6. \E g : g = Body(g)
  BY <1>5
<1>7. Selection(s, places) = CHOOSE g : g = Body(g)
  BY Zenon DEF Selection
<1> HIDE DEF Body
<1>8. Selection(s, places) = Body(Selection(s, places))
  BY <1>6, <1>7
<1> QED
  BY <1>8 DEF Body

\* The sequence r holds the elements of s at the places, in their order; at is where.
Embeds(at, r, s, places) ==
  /\ at \in [1 .. Len(r) -> places]
  /\ \A i, j \in 1 .. Len(r) : i < j => at[i] < at[j]
  /\ \A p \in places : \E i \in 1 .. Len(r) : at[i] = p
  /\ \A i \in 1 .. Len(r) : r[i] = s[at[i]]

UpToPlace(places, n) == {p \in places : p <= n}

LEMMA SelectionSteps ==
  ASSUME NEW V, NEW s \in Seq(V), NEW places
  PROVE  /\ Selection(s, places)[0] = <<>>
         /\ \A n \in 1 .. Len(s) :
              Selection(s, places)[n] = IF n \in places THEN Append(Selection(s, places)[n - 1], s[n])
                                        ELSE Selection(s, places)[n - 1]
<1> DEFINE kept == Selection(s, places)
<1>1. kept = [n \in 0 .. Len(s) |-> IF n = 0 THEN <<>>
                                    ELSE IF n \in places THEN Append(kept[n - 1], s[n])
                                    ELSE kept[n - 1]]
  BY SelectionRec
<1> HIDE DEF kept
<1>2. Len(s) \in Nat
  OBVIOUS
<1>3. kept[0] = <<>>
  <2>1. 0 \in 0 .. Len(s)
    BY <1>2
  <2> QED
    BY <1>1, <2>1
<1>4. ASSUME NEW n \in 1 .. Len(s)
      PROVE  kept[n] = IF n \in places THEN Append(kept[n - 1], s[n]) ELSE kept[n - 1]
  <2>1. n \in 0 .. Len(s) /\ n # 0
    BY <1>2
  <2> QED
    BY <1>1, <2>1, Zenon
<1> QED
  BY <1>3, <1>4 DEF kept

\* r is s at the places, in their order.
Picks(r, s, places) == \E at : Embeds(at, r, s, places)

LEMMA PicksNone == ASSUME NEW s PROVE Picks(<<>>, s, {})
<1>1. Embeds(<<>>, <<>>, s, {})
  <2>1. Len(<<>>) = 0 /\ 1 .. 0 = {} /\ <<>> \in [1 .. 0 -> {}]
    OBVIOUS
  <2> QED
    BY <2>1, Zenon DEF Embeds
<1> QED
  BY <1>1 DEF Picks

LEMMA PlacesUpTo ==
  ASSUME NEW N \in Nat, NEW places \in SUBSET (1 .. N), NEW n \in 1 .. N
  PROVE  UpToPlace(places, n) = UpToPlace(places, n - 1) \cup (places \cap {n})
<1>1. ASSUME NEW p \in places PROVE p <= n <=> p <= n - 1 \/ p = n
  <2>1. p \in Nat /\ n \in Nat
    OBVIOUS
  <2> QED
    BY <2>1
<1> QED
  BY <1>1 DEF UpToPlace

LEMMA PicksMore ==
  ASSUME NEW V, NEW s \in Seq(V), NEW r \in Seq(V), NEW places \in SUBSET (1 .. Len(s)),
         NEW n \in places, Picks(r, s, UpToPlace(places, n - 1))
  PROVE  Picks(Append(r, s[n]), s, UpToPlace(places, n))
<1> DEFINE old == UpToPlace(places, n - 1)
           new == UpToPlace(places, n)
           t   == Append(r, s[n])
<1>1. PICK at : Embeds(at, r, s, old)
  BY DEF Picks
<1> DEFINE more == [i \in 1 .. Len(r) + 1 |-> IF i = Len(r) + 1 THEN n ELSE at[i]]
<1>2. /\ Len(s) \in Nat /\ n \in 1 .. Len(s) /\ n \in Nat
      /\ Len(r) \in Nat /\ Len(t) = Len(r) + 1 /\ t[Len(r) + 1] = s[n]
  OBVIOUS
<1>3. \A i \in 1 .. Len(r) : t[i] = r[i]
  OBVIOUS
<1>4. new = old \cup {n}
  BY <1>2, PlacesUpTo
<1>5. \A p \in old : p \in Nat /\ p < n
  BY <1>2 DEF UpToPlace
<1> HIDE DEF t, old, new
<1>6. /\ at \in [1 .. Len(r) -> old]
      /\ \A i, j \in 1 .. Len(r) : i < j => at[i] < at[j]
      /\ \A p \in old : \E i \in 1 .. Len(r) : at[i] = p
      /\ \A i \in 1 .. Len(r) : r[i] = s[at[i]]
  BY <1>1 DEF Embeds
<1>7. more[Len(r) + 1] = n /\ \A i \in 1 .. Len(r) : more[i] = at[i]
  BY <1>2
<1>8. ASSUME NEW i \in 1 .. Len(t) PROVE i \in 1 .. Len(r) \/ i = Len(r) + 1
  BY <1>2
<1>9. more \in [1 .. Len(t) -> new]
  BY <1>2, <1>4, <1>6
<1> HIDE DEF more
<1>10. ASSUME NEW i \in 1 .. Len(t), NEW j \in 1 .. Len(t), i < j PROVE more[i] < more[j]
  <2>1. i \in 1 .. Len(r)
    BY <1>2, <1>10
  <2>2. CASE j \in 1 .. Len(r)
    BY <1>6, <1>7, <1>10, <2>1, <2>2
  <2>3. CASE j = Len(r) + 1
    BY <1>5, <1>6, <1>7, <2>1, <2>3
  <2> QED
    BY <1>8, <2>2, <2>3
<1>11. ASSUME NEW p \in new PROVE \E i \in 1 .. Len(t) : more[i] = p
  <2>1. CASE p = n
    BY <1>2, <1>7, <2>1
  <2>2. CASE p \in old
    <3>1. PICK i \in 1 .. Len(r) : at[i] = p
      BY <1>6, <2>2
    <3> QED
      BY <1>2, <1>7, <3>1
  <2> QED
    BY <1>4, <2>1, <2>2
<1>12. ASSUME NEW i \in 1 .. Len(t) PROVE t[i] = s[more[i]]
  <2>1. CASE i \in 1 .. Len(r)
    BY <1>3, <1>6, <1>7, <2>1
  <2>2. CASE i = Len(r) + 1
    BY <1>2, <1>7, <2>2
  <2> QED
    BY <1>8, <2>1, <2>2
<1>13. Embeds(more, t, s, new)
  BY <1>9, <1>10, <1>11, <1>12, Zenon DEF Embeds
<1> QED
  BY <1>13 DEF Picks, t, new

LEMMA SelectionIs ==
  ASSUME NEW V, NEW s \in Seq(V), NEW places \in SUBSET (1 .. Len(s))
  PROVE  \A n \in 0 .. Len(s) :
           /\ Selection(s, places)[n] \in Seq(V)
           /\ Picks(Selection(s, places)[n], s, UpToPlace(places, n))
<1> DEFINE kept == Selection(s, places)
           S == {n \in 0 .. Len(s) : kept[n] \in Seq(V) /\ Picks(kept[n], s, UpToPlace(places, n))}
<1>1. Len(s) \in Nat
  OBVIOUS
<1>2. kept[0] = <<>>
  BY SelectionSteps
<1>3. \A n \in 1 .. Len(s) : kept[n] = IF n \in places THEN Append(kept[n - 1], s[n]) ELSE kept[n - 1]
  BY SelectionSteps
<1> HIDE DEF kept
<1>4. 0 \in S
  <2>1. UpToPlace(places, 0) = {}
    <3>1. ASSUME NEW p \in places PROVE ~(p <= 0)
      <4>1. p \in 1 .. Len(s)
        OBVIOUS
      <4> QED
        BY <1>1, <4>1
    <3> QED
      BY <3>1 DEF UpToPlace
  <2>2. <<>> \in Seq(V) /\ 0 \in 0 .. Len(s)
    BY <1>1
  <2> QED
    BY <1>2, <2>1, <2>2, PicksNone
<1>5. ASSUME NEW n \in 1 .. Len(s), n - 1 \in S PROVE n \in S
  <2>1. /\ kept[n - 1] \in Seq(V) /\ Picks(kept[n - 1], s, UpToPlace(places, n - 1))
        /\ s[n] \in V /\ n \in 0 .. Len(s)
    BY <1>1, <1>5
  <2>2. UpToPlace(places, n) = UpToPlace(places, n - 1) \cup (places \cap {n})
    BY <1>1, PlacesUpTo
  <2>3. CASE n \in places
    <3>1. kept[n] = Append(kept[n - 1], s[n])
      BY <1>3, <2>3
    <3>2. Picks(kept[n], s, UpToPlace(places, n))
      BY <2>1, <2>3, <3>1, PicksMore
    <3>3. kept[n] \in Seq(V)
      BY <2>1, <3>1
    <3> QED
      BY <2>1, <3>2, <3>3
  <2>4. CASE n \notin places
    <3>1. kept[n] = kept[n - 1] /\ UpToPlace(places, n) = UpToPlace(places, n - 1)
      BY <1>3, <2>2, <2>4
    <3> QED
      BY <2>1, <3>1
  <2> QED
    BY <2>3, <2>4
<1> HIDE DEF S
<1>6. \A n \in 0 .. Len(s) : n \in S
  BY <1>1, <1>4, <1>5, UpTo
<1> QED
  BY <1>6 DEF S, kept

\* What is selected.
LEMMA SelectIs ==
  ASSUME NEW V, NEW s \in Seq(V), NEW places \in SUBSET (1 .. Len(s))
  PROVE  Select(s, places) \in Seq(V) /\ Picks(Select(s, places), s, places)
<1>1. Len(s) \in Nat
  OBVIOUS
<1>2. UpToPlace(places, Len(s)) = places
  <2>1. ASSUME NEW p \in places PROVE p <= Len(s)
    <3>1. p \in 1 .. Len(s)
      OBVIOUS
    <3> QED
      BY <1>1, <3>1
  <2> QED
    BY <2>1 DEF UpToPlace
<1> QED
  BY <1>1, <1>2, SelectionIs DEF Select

LEMMA PicksCount ==
  ASSUME NEW V, NEW s \in Seq(V), NEW r \in Seq(V), NEW places \in SUBSET (1 .. Len(s)),
         Picks(r, s, places)
  PROVE  IsFiniteSet(places) /\ Cardinality(places) = Len(r)
<1>1. PICK at : Embeds(at, r, s, places)
  BY DEF Picks
<1>2. Len(r) \in Nat /\ Len(s) \in Nat
  OBVIOUS
<1>3. ASSUME NEW i \in 1 .. Len(r), NEW j \in 1 .. Len(r), at[i] = at[j] PROVE i = j
  <2>1. i < j \/ j < i \/ i = j
    OBVIOUS
  <2>2. at[i] \in 1 .. Len(s)
    BY <1>1 DEF Embeds
  <2>3. ~(at[i] < at[i])
    BY <1>2, <2>2
  <2> QED
    BY <1>1, <1>3, <2>1, <2>3 DEF Embeds
<1>4. at \in Bijection(1 .. Len(r), places)
  BY <1>1, <1>3 DEF Embeds, Bijection, Injection, Surjection, IsInjective
<1>5. ExistsBijection(1 .. Len(r), places)
  BY <1>4 DEF ExistsBijection
<1>6. IsFiniteSet(1 .. Len(r))
  BY <1>2, FS_Interval
<1> QED
  BY <1>2, <1>5, <1>6, FS_CountingElements, FS_Bijection

LEMMA TakeIs ==
  ASSUME NEW V, NEW s \in Seq(V), NEW n \in Nat
  PROVE  /\ Take(s, n) \in Seq(V) /\ Len(Take(s, n)) <= Len(s) /\ Len(Take(s, n)) <= n
         /\ Len(Take(s, n)) = n \/ Take(s, n) = s
         /\ \A i \in 1 .. Len(Take(s, n)) : Take(s, n)[i] = s[i]
BY DEF Take

-----------------------------------------------------------------------------
(***************************************************************************)
(* The hits of one query.                                                  *)
(***************************************************************************)
Hits == [chunk : Corpus, source : {"milvus", "es", "both"}]

Distinct(list) == \A m, n \in DOMAIN list : list[m].chunk = list[n].chunk => m = n

\* What a store returns.
FoundBy(list, source, k) ==
  /\ list \in Seq(Hits) /\ Len(list) <= k /\ Distinct(list)
  /\ \A n \in DOMAIN list : list[n].source = source

\* SourcesAreTrue of one query, and no chunk twice.
TrueMerge(list, mvList, esList, k) ==
  /\ list \in Seq(Hits) /\ Len(list) <= k /\ Distinct(list)
  /\ \A n \in DOMAIN mvList : n \in DOMAIN list /\ list[n].chunk = mvList[n].chunk
  /\ \A n \in DOMAIN list :
       /\ list[n].source = "milvus" => list[n].chunk \in Chunks(mvList)
       /\ list[n].source = "es" => list[n].chunk \in Chunks(esList) \ Chunks(mvList)
       /\ list[n].source = "both" => list[n].chunk \in Chunks(esList) \cap Chunks(mvList)
       /\ list[n].chunk \in Chunks(esList) \cap Chunks(mvList) /\ Len(list) < k =>
            list[n].source = "both"
  /\ Len(list) < k => Chunks(list) = Chunks(mvList) \cup Chunks(esList)

LEMMA NoneFound == ASSUME NEW k \in Nat, NEW source PROVE FoundBy(<<>>, source, k)
<1>1. <<>> \in Seq(Hits) /\ Len(<<>>) = 0 /\ DOMAIN <<>> = {}
  OBVIOUS
<1> QED
  BY <1>1 DEF FoundBy, Distinct

LEMMA RankingFound ==
  ASSUME NEW q \in AllLines, NEW r \in VectorRanks[q] \cup EntityRanks[q], NEW k \in Nat
  PROVE  FoundBy(MilvusHits(Take(r, k)), "milvus", k) /\ FoundBy(ESHits(Take(r, k)), "es", k)
<1>1. r \in Rankings
  BY DEF Rankings
<1>2. r \in Seq(Corpus) /\ \A m, n \in DOMAIN r : r[m] = r[n] => m = n
  BY <1>1, RankAssumption
<1> DEFINE t == Take(r, k)
<1>3. /\ t \in Seq(Corpus) /\ Len(t) <= k /\ Len(t) <= Len(r)
      /\ \A i \in 1 .. Len(t) : t[i] = r[i]
  BY <1>2, TakeIs
<1>4. \A m, n \in DOMAIN t : t[m] = t[n] => m = n
  <2>1. Len(t) \in Nat /\ Len(r) \in Nat /\ DOMAIN t = 1 .. Len(t) /\ DOMAIN r = 1 .. Len(r)
    BY <1>2, <1>3
  <2>2. ASSUME NEW m \in DOMAIN t PROVE m \in DOMAIN r /\ t[m] = r[m]
    BY <1>3, <2>1
  <2> QED
    BY <1>2, <2>2
<1> HIDE DEF t
<1>5. ASSUME NEW source \in {"milvus", "es"}
      PROVE  FoundBy([n \in DOMAIN t |-> Hit(t[n], source)], source, k)
  <2> DEFINE h == [n \in DOMAIN t |-> Hit(t[n], source)]
  <2>1. DOMAIN t = 1 .. Len(t) /\ Len(t) \in Nat /\ \A n \in DOMAIN t : t[n] \in Corpus
    BY <1>3
  <2>2. \A n \in DOMAIN t : h[n] \in Hits /\ h[n].chunk = t[n] /\ h[n].source = source
    BY <2>1 DEF Hit, Hits
  <2>3. h \in Seq(Hits) /\ Len(h) = Len(t) /\ DOMAIN h = DOMAIN t
    BY <2>1, <2>2
  <2> HIDE DEF h
  <2>4. FoundBy(h, source, k)
    BY <1>3, <1>4, <2>2, <2>3 DEF FoundBy, Distinct
  <2> QED
    BY <2>4 DEF h
<1> QED
  BY <1>5 DEF MilvusHits, ESHits, t

LEMMA MilvusAlone ==
  ASSUME NEW k \in Nat, NEW mvList, FoundBy(mvList, "milvus", k)
  PROVE  TrueMerge(mvList, mvList, <<>>, k)
<1>1. Chunks(<<>>) = {}
  BY DEF Chunks
<1> QED
  BY <1>1 DEF FoundBy, TrueMerge, Chunks

LEMMA MergedIs ==
  ASSUME NEW k \in Nat, NEW mv, NEW es, FoundBy(mv, "milvus", k), FoundBy(es, "es", k)
  PROVE  TrueMerge(Merged(mv, es, k), mv, es, k)
<1> DEFINE alone == {n \in DOMAIN es : es[n].chunk \notin Chunks(mv)}
           full  == {n \in alone : Len(mv) + Cardinality({m \in alone : m <= n}) >= k}
           read  == {n \in DOMAIN es : \A m \in full : n <= m}
           both  == {es[n].chunk : n \in read}
           marked == [n \in DOMAIN mv |-> IF mv[n].chunk \in both THEN Hit(mv[n].chunk, "both")
                                                                ELSE mv[n]]
           sel   == Select(es, alone)
           all   == marked \o sel
           list  == Take(all, k)
<1>1. Merged(mv, es, k) = list
  BY DEF Merged
<1>2. /\ mv \in Seq(Hits) /\ Len(mv) \in Nat /\ DOMAIN mv = 1 .. Len(mv) /\ Len(mv) <= k
      /\ es \in Seq(Hits) /\ Len(es) \in Nat /\ DOMAIN es = 1 .. Len(es)
      /\ \A n \in DOMAIN mv : mv[n] \in Hits /\ mv[n].source = "milvus"
      /\ \A n \in DOMAIN es : es[n] \in Hits /\ es[n].source = "es"
  BY DEF FoundBy
<1>3. alone \in SUBSET (1 .. Len(es))
  BY <1>2
<1>4. read \subseteq DOMAIN es /\ both \subseteq Chunks(es)
  BY DEF Chunks
<1> HIDE DEF alone, full, read
<1>5. /\ marked \in Seq(Hits) /\ Len(marked) = Len(mv)
      /\ \A n \in DOMAIN mv : /\ marked[n] \in Hits /\ marked[n].chunk = mv[n].chunk
                              /\ marked[n].source = IF mv[n].chunk \in both THEN "both" ELSE "milvus"
  <2>1. \A n \in DOMAIN mv : /\ marked[n] \in Hits /\ marked[n].chunk = mv[n].chunk
                             /\ marked[n].source = IF mv[n].chunk \in both THEN "both" ELSE "milvus"
    BY <1>2 DEF Hit, Hits
  <2> QED
    BY <1>2, <2>1
<1> HIDE DEF marked, both
<1>6. sel \in Seq(Hits) /\ Picks(sel, es, alone)
  BY <1>2, <1>3, SelectIs
<1> HIDE DEF sel
<1>7. PICK at : Embeds(at, sel, es, alone)
  BY <1>6 DEF Picks
<1>8. Len(sel) \in Nat
  BY <1>6
<1>9. ASSUME NEW i \in 1 .. Len(sel)
      PROVE  /\ at[i] \in alone /\ at[i] \in DOMAIN es /\ sel[i] = es[at[i]]
             /\ sel[i].chunk \notin Chunks(mv) /\ sel[i].chunk \in Chunks(es)
             /\ sel[i].source = "es" /\ sel[i] \in Hits
  <2>1. at[i] \in alone /\ sel[i] = es[at[i]]
    BY <1>7 DEF Embeds
  <2> QED
    BY <1>2, <2>1 DEF alone, Chunks
<1>10. ASSUME NEW i \in 1 .. Len(sel), NEW j \in 1 .. Len(sel), sel[i].chunk = sel[j].chunk
       PROVE  i = j
  <2>1. at[i] = at[j]
    BY <1>9, <1>10 DEF FoundBy, Distinct
  <2>2. at[i] \in Nat
    BY <1>2, <1>9
  <2>3. i \in Nat /\ j \in Nat /\ ~(at[i] < at[j]) /\ ~(at[j] < at[i])
    BY <2>1, <2>2
  <2> QED
    BY <1>7, <2>3 DEF Embeds
<1>11. /\ all \in Seq(Hits) /\ Len(all) = Len(mv) + Len(sel)
       /\ \A n \in 1 .. Len(mv) : all[n] = marked[n]
       /\ \A n \in 1 .. Len(sel) : all[Len(mv) + n] = sel[n]
       /\ \A n \in 1 .. Len(all) : n \in 1 .. Len(mv) \/ \E m \in 1 .. Len(sel) : n = Len(mv) + m
  <2> USE DEF all
  <2>1. /\ all \in Seq(Hits) /\ Len(all) = Len(marked) + Len(sel)
        /\ \A n \in 1 .. Len(marked) : all[n] = marked[n]
        /\ \A n \in 1 .. Len(sel) : all[Len(marked) + n] = sel[n]
        /\ \A n \in 1 .. Len(all) : \/ n \in 1 .. Len(marked)
                                   \/ \E m \in 1 .. Len(sel) : n = Len(marked) + m
    <3>1. marked \in Seq(Hits) /\ sel \in Seq(Hits)
      BY <1>5, <1>6
    <3> QED
      BY <3>1, ConcatIs
  <2>2. Len(marked) = Len(mv)
    BY <1>5
  <2> HIDE DEF all
  <2> QED
    BY <2>1, <2>2
<1> HIDE DEF all
<1>12. Distinct(all)
  <2>1. ASSUME NEW m \in 1 .. Len(mv), NEW n \in 1 .. Len(sel)
        PROVE  all[m].chunk # all[Len(mv) + n].chunk
    <3>1. all[m].chunk = mv[m].chunk /\ mv[m].chunk \in Chunks(mv)
      BY <1>2, <1>5, <1>11 DEF Chunks
    <3>2. all[Len(mv) + n].chunk \notin Chunks(mv)
      BY <1>9, <1>11
    <3> QED
      BY <3>1, <3>2
  <2>2. ASSUME NEW m \in 1 .. Len(mv), NEW n \in 1 .. Len(mv), all[m].chunk = all[n].chunk
        PROVE  m = n
    <3>1. mv[m].chunk = mv[n].chunk /\ m \in DOMAIN mv /\ n \in DOMAIN mv
      BY <1>2, <1>5, <1>11, <2>2
    <3> QED
      BY <3>1 DEF FoundBy, Distinct
  <2>3. ASSUME NEW m \in 1 .. Len(sel), NEW n \in 1 .. Len(sel),
               all[Len(mv) + m].chunk = all[Len(mv) + n].chunk
        PROVE  m = n
    BY <1>10, <1>11, <2>3
  <2>4. ASSUME NEW m \in 1 .. Len(all), NEW n \in 1 .. Len(all), all[m].chunk = all[n].chunk
        PROVE  m = n
    <3>1. \/ m \in 1 .. Len(mv)
          \/ \E p \in 1 .. Len(sel) : m = Len(mv) + p
      BY <1>11
    <3>2. \/ n \in 1 .. Len(mv)
          \/ \E p \in 1 .. Len(sel) : n = Len(mv) + p
      BY <1>11
    <3> QED
      BY <2>1, <2>2, <2>3, <2>4, <3>1, <3>2, Zenon
  <2>5. DOMAIN all = 1 .. Len(all)
    BY <1>11
  <2> QED
    BY <2>4, <2>5 DEF Distinct
<1>13. /\ list \in Seq(Hits) /\ Len(list) <= k /\ Len(list) <= Len(all)
       /\ Len(list) = k \/ list = all
       /\ \A n \in 1 .. Len(list) : list[n] = all[n]
  BY <1>11, TakeIs
<1> HIDE DEF list
<1>14. Len(list) \in Nat /\ Len(all) \in Nat
  BY <1>11, <1>13
<1>21. /\ DOMAIN list = 1 .. Len(list) /\ DOMAIN all = 1 .. Len(all)
       /\ \A n \in DOMAIN list : n \in DOMAIN all /\ list[n] \in Hits /\ list[n] = all[n]
  BY <1>11, <1>13
<1>15. Distinct(list)
  BY <1>12, <1>21 DEF Distinct
<1>16. ASSUME NEW n \in DOMAIN mv PROVE n \in DOMAIN list /\ list[n].chunk = mv[n].chunk
  <2>1. Len(mv) <= Len(list)
    <3>1. /\ Len(mv) \in Nat /\ Len(sel) \in Nat /\ Len(all) = Len(mv) + Len(sel) /\ Len(mv) <= k
          /\ Len(list) = k \/ Len(list) = Len(all)
      BY <1>2, <1>8, <1>11, <1>13
    <3> QED
      BY <1>14, <3>1
  <2>2. n \in 1 .. Len(mv) /\ n \in 1 .. Len(list)
    BY <1>2, <1>14, <2>1
  <2> QED
    BY <1>2, <1>5, <1>11, <1>21, <2>2
<1>17. ASSUME Len(list) < k PROVE list = all /\ both = Chunks(es)
  <2>1. list = all /\ Len(mv) + Len(sel) < k
    <3>1. Len(list) # k
      BY <1>14, <1>17
    <3>2. list = all /\ Len(all) = Len(mv) + Len(sel)
      BY <1>11, <1>13, <3>1
    <3> QED
      BY <1>17, <3>2
  <2>2. IsFiniteSet(alone) /\ Cardinality(alone) = Len(sel)
    BY <1>2, <1>3, <1>6, PicksCount
  <2>3. ASSUME NEW n \in alone PROVE n \notin full
    <3>1. {m \in alone : m <= n} \subseteq alone
      OBVIOUS
    <3>2. /\ Cardinality({m \in alone : m <= n}) \in Nat
          /\ Cardinality({m \in alone : m <= n}) <= Len(sel)
      BY <2>2, <3>1, FS_Subset, FS_CardinalityType
    <3>3. ~(Len(mv) + Cardinality({m \in alone : m <= n}) >= k)
      BY <1>2, <1>8, <2>1, <3>2
    <3> QED
      BY <3>3 DEF full
  <2>4. full = {}
    BY <2>3 DEF full
  <2>5. read = DOMAIN es
    BY <2>4 DEF read
  <2> QED
    BY <2>1, <2>5 DEF both, Chunks
<1>18. ASSUME NEW n \in DOMAIN list
       PROVE  /\ list[n].source = "milvus" => list[n].chunk \in Chunks(mv)
              /\ list[n].source = "es" => list[n].chunk \in Chunks(es) \ Chunks(mv)
              /\ list[n].source = "both" => list[n].chunk \in Chunks(es) \cap Chunks(mv)
              /\ list[n].chunk \in Chunks(es) \cap Chunks(mv) /\ Len(list) < k =>
                   list[n].source = "both"
  <2>1. list[n] = all[n]
    BY <1>21
  <2>2. CASE n \in 1 .. Len(mv)
    <3>1. /\ list[n].chunk = mv[n].chunk /\ mv[n].chunk \in Chunks(mv)
          /\ list[n].source = IF mv[n].chunk \in both THEN "both" ELSE "milvus"
      BY <1>2, <1>5, <1>11, <2>1, <2>2 DEF Chunks
    <3> QED
      BY <1>4, <1>17, <3>1
  <2>3. CASE \E m \in 1 .. Len(sel) : n = Len(mv) + m
    <3>1. PICK m \in 1 .. Len(sel) : n = Len(mv) + m
      BY <2>3
    <3>2. list[n] = sel[m]
      BY <1>11, <2>1, <3>1
    <3> QED
      BY <1>9, <3>2
  <2> QED
    BY <1>11, <1>13, <1>21, <2>2, <2>3
<1>19. ASSUME Len(list) < k PROVE Chunks(list) = Chunks(mv) \cup Chunks(es)
  <2>1. ASSUME NEW c \in Chunks(mv) PROVE c \in Chunks(list)
    BY <1>16 DEF Chunks
  <2>2. ASSUME NEW c \in Chunks(es), c \notin Chunks(mv) PROVE c \in Chunks(list)
    <3>1. PICK n \in DOMAIN es : es[n].chunk = c
      BY DEF Chunks
    <3>2. n \in alone
      BY <2>2, <3>1 DEF alone
    <3>3. PICK i \in 1 .. Len(sel) : at[i] = n
      BY <1>7, <3>2 DEF Embeds
    <3>4. all[Len(mv) + i].chunk = c /\ Len(mv) + i \in 1 .. Len(all)
      BY <1>2, <1>8, <1>9, <1>11, <3>1, <3>3
    <3> QED
      BY <1>17, <1>19, <1>21, <3>4 DEF Chunks
  <2>3. ASSUME NEW n \in DOMAIN list PROVE list[n].chunk \in Chunks(mv) \cup Chunks(es)
    <3>1. list[n].source \in {"milvus", "es", "both"}
      <4>1. list[n] \in Hits
        BY <1>21
      <4> QED
        BY <4>1 DEF Hits
    <3> QED
      BY <1>18, <3>1
  <2> QED
    BY <2>1, <2>2, <2>3 DEF Chunks
<1>20. TrueMerge(list, mv, es, k)
  BY <1>13, <1>15, <1>16, <1>18, <1>19 DEF TrueMerge
<1> QED
  BY <1>1, <1>20

-----------------------------------------------------------------------------
(***************************************************************************)
(* Several lists in one.                                                   *)
(***************************************************************************)
LEMMA JoinedRec ==
  ASSUME NEW V, NEW all \in Seq(Seq(V))
  PROVE  Joined(all) = [i \in 0 .. Len(all) |-> IF i = 0 THEN <<>> ELSE Joined(all)[i - 1] \o all[i]]
<1> DEFINE step == [x \in (1 .. Len(all)) \X Seq(V) |-> x[2] \o all[x[1]]]
           Body(f) == [i \in 0 .. Len(all) |-> IF i = 0 THEN <<>> ELSE f[i - 1] \o all[i]]
<1>1. step \in [(1 .. Len(all)) \X Seq(V) -> Seq(V)]
  <2>1. ASSUME NEW x \in (1 .. Len(all)) \X Seq(V) PROVE x[2] \o all[x[1]] \in Seq(V)
    <3>1. x[2] \in Seq(V) /\ x[1] \in 1 .. Len(all)
      OBVIOUS
    <3>2. all[x[1]] \in Seq(V)
      BY <3>1
    <3> QED
      BY <3>1, <3>2
  <2> QED
    BY <2>1
<1>2. \A n \in 1 .. Len(all), r \in Seq(V) : step[<<n, r>>] = r \o all[n]
  OBVIOUS
<1>3. Len(all) \in Nat /\ <<>> \in Seq(V)
  OBVIOUS
<1> HIDE DEF step
<1>4. PICK f : Iterates(f, Len(all), Seq(V), <<>>, step)
  BY <1>1, <1>3, Recursion, Zenon
<1>5. f = Body(f)
  <2>1. ASSUME NEW n \in 0 .. Len(all) PROVE f[n] = Body(f)[n]
    <3>1. CASE n = 0
      BY <1>4, <3>1 DEF Iterates
    <3>2. CASE n # 0
      <4>1. n \in 1 .. Len(all) /\ n - 1 \in 0 .. Len(all)
        BY <1>3, <3>2
      <4>2. f[n - 1] \in Seq(V)
        BY <1>4, <4>1 DEF Iterates
      <4>3. f[n] = step[<<n, f[n - 1]>>]
        BY <1>4, <4>1 DEF Iterates
      <4>4. f[n] = f[n - 1] \o all[n]
        BY <1>2, <4>1, <4>2, <4>3
      <4> QED
        BY <3>2, <4>4
    <3> QED
      BY <3>1, <3>2
  <2>2. DOMAIN f = 0 .. Len(all) /\ f = [n \in 0 .. Len(all) |-> f[n]]
    BY <1>4 DEF Iterates
  <2> QED
    BY <2>1, <2>2
<1>6. \E g : g = Body(g)
  BY <1>5
<1>7. Joined(all) = CHOOSE g : g = Body(g)
  BY Zenon DEF Joined
<1> HIDE DEF Body
<1>8. Joined(all) = Body(Joined(all))
  BY <1>6, <1>7
<1> QED
  BY <1>8 DEF Body

LEMMA JoinedSteps ==
  ASSUME NEW V, NEW all \in Seq(Seq(V))
  PROVE  /\ Joined(all)[0] = <<>>
         /\ \A i \in 1 .. Len(all) : Joined(all)[i] = Joined(all)[i - 1] \o all[i]
<1> DEFINE joined == Joined(all)
<1>1. joined = [i \in 0 .. Len(all) |-> IF i = 0 THEN <<>> ELSE joined[i - 1] \o all[i]]
  BY JoinedRec
<1> HIDE DEF joined
<1>2. Len(all) \in Nat
  OBVIOUS
<1>3. joined[0] = <<>>
  <2>1. 0 \in 0 .. Len(all)
    BY <1>2
  <2> QED
    BY <1>1, <2>1
<1>4. ASSUME NEW i \in 1 .. Len(all) PROVE joined[i] = joined[i - 1] \o all[i]
  <2>1. i \in 0 .. Len(all) /\ i # 0
    BY <1>2
  <2> QED
    BY <1>1, <2>1, Zenon
<1> QED
  BY <1>3, <1>4 DEF joined

\* r holds the first i lists of all, one after the other: at p is element at[p] of
\* list from[p].
LinesUp(from, at, r, all, i) ==
  /\ \A p \in 1 .. Len(r) : /\ from[p] \in 1 .. i /\ at[p] \in 1 .. Len(all[from[p]])
                            /\ r[p] = all[from[p]][at[p]]
  /\ \A p, q \in 1 .. Len(r) : p < q => \/ from[p] < from[q]
                                       \/ /\ from[p] = from[q]
                                          /\ at[p] < at[q]
  /\ \A j \in 1 .. i : \A m \in 1 .. Len(all[j]) :
       \E p \in 1 .. Len(r) : from[p] = j /\ at[p] = m

Lined(r, all, i) == \E from, at : LinesUp(from, at, r, all, i)

LEMMA NoneLined == ASSUME NEW all PROVE Lined(<<>>, all, 0)
<1>1. Len(<<>>) = 0 /\ 1 .. 0 = {}
  OBVIOUS
<1>2. LinesUp(<<>>, <<>>, <<>>, all, 0)
  BY <1>1, Zenon DEF LinesUp
<1> QED
  BY <1>2 DEF Lined

LEMMA MoreLined ==
  ASSUME NEW V, NEW all \in Seq(Seq(V)), NEW i \in 1 .. Len(all), NEW r \in Seq(V),
         Lined(r, all, i - 1)
  PROVE  Lined(r \o all[i], all, i)
<1> DEFINE t == r \o all[i]
<1>1. PICK f, a : LinesUp(f, a, r, all, i - 1)
  BY DEF Lined
<1>2. all[i] \in Seq(V) /\ i \in Nat /\ Len(r) \in Nat
  OBVIOUS
<1>3. Len(all[i]) \in Nat
  BY <1>2
<1>4. /\ Len(t) = Len(r) + Len(all[i])
      /\ \A n \in 1 .. Len(r) : n \in 1 .. Len(t) /\ t[n] = r[n]
      /\ \A n \in 1 .. Len(all[i]) : Len(r) + n \in 1 .. Len(t) /\ t[Len(r) + n] = all[i][n]
      /\ \A n \in 1 .. Len(t) : \/ n \in 1 .. Len(r)
                              \/ \E m \in 1 .. Len(all[i]) : n = Len(r) + m
  <2>1. r \in Seq(V) /\ all[i] \in Seq(V)
    BY <1>2
  <2>2. Len(t) = Len(r) + Len(all[i])
    BY <2>1, ConcatIs
  <2>3. \A n \in 1 .. Len(r) : n \in 1 .. Len(t) /\ t[n] = r[n]
    BY <2>1, ConcatIs
  <2>4. ASSUME NEW n \in 1 .. Len(all[i])
        PROVE  Len(r) + n \in 1 .. Len(t) /\ t[Len(r) + n] = all[i][n]
    <3>1. Len(r) + n \in 1 .. Len(t)
      BY <1>2, <1>3, <2>2
    <3>2. ASSUME NEW s \in Seq(V), NEW m \in 1 .. Len(s) PROVE (r \o s)[Len(r) + m] = s[m]
      BY <2>1, ConcatIs
    <3> QED
      BY <2>1, <3>1, <3>2
  <2>5. \A n \in 1 .. Len(t) : \/ n \in 1 .. Len(r)
                              \/ \E m \in 1 .. Len(all[i]) : n = Len(r) + m
    BY <2>1, ConcatIs
  <2> QED
    BY <2>2, <2>3, <2>4, <2>5
<1> HIDE DEF t
<1> DEFINE from == [p \in 1 .. Len(t) |-> IF p <= Len(r) THEN f[p] ELSE i]
           at   == [p \in 1 .. Len(t) |-> IF p <= Len(r) THEN a[p] ELSE p - Len(r)]
<1>5. ASSUME NEW n \in 1 .. Len(r) PROVE from[n] = f[n] /\ at[n] = a[n]
  BY <1>2, <1>4
<1>6. ASSUME NEW n \in 1 .. Len(all[i]) PROVE from[Len(r) + n] = i /\ at[Len(r) + n] = n
  <2>1. Len(r) + n \in 1 .. Len(t) /\ ~(Len(r) + n <= Len(r)) /\ Len(r) + n - Len(r) = n
    BY <1>2, <1>3, <1>4
  <2> QED
    BY <2>1
<1> HIDE DEF from, at
<1>7. /\ \A p \in 1 .. Len(r) : /\ f[p] \in 1 .. i - 1 /\ a[p] \in 1 .. Len(all[f[p]])
                                /\ r[p] = all[f[p]][a[p]]
      /\ \A p, q \in 1 .. Len(r) : p < q => f[p] < f[q] \/ (f[p] = f[q] /\ a[p] < a[q])
      /\ \A j \in 1 .. i - 1 : \A m \in 1 .. Len(all[j]) :
           \E p \in 1 .. Len(r) : f[p] = j /\ a[p] = m
  BY <1>1 DEF LinesUp
<1>8. \A j \in 1 .. i - 1 : j \in 1 .. i /\ j < i
  BY <1>2
<1>9. ASSUME NEW p \in 1 .. Len(t)
      PROVE  /\ from[p] \in 1 .. i /\ at[p] \in 1 .. Len(all[from[p]])
             /\ t[p] = all[from[p]][at[p]]
  <2>1. CASE p \in 1 .. Len(r)
    BY <1>4, <1>5, <1>7, <1>8, <2>1
  <2>2. CASE \E m \in 1 .. Len(all[i]) : p = Len(r) + m
    <3>1. PICK m \in 1 .. Len(all[i]) : p = Len(r) + m
      BY <2>2
    <3>2. from[p] = i /\ at[p] = m /\ t[p] = all[i][m] /\ i \in 1 .. i
      BY <1>2, <1>4, <1>6, <3>1, SMTT(60)
    <3> QED
      BY <3>2
  <2> QED
    BY <1>4, <2>1, <2>2
<1>10. ASSUME NEW p \in 1 .. Len(t), NEW q \in 1 .. Len(t), p < q
       PROVE  from[p] < from[q] \/ (from[p] = from[q] /\ at[p] < at[q])
  <2>1. CASE q \in 1 .. Len(r)
    <3>1. p \in 1 .. Len(r)
      BY <1>2, <1>10, <2>1
    <3> QED
      BY <1>5, <1>7, <1>10, <2>1, <3>1
  <2>2. CASE \E m \in 1 .. Len(all[i]) : q = Len(r) + m
    <3>1. PICK m \in 1 .. Len(all[i]) : q = Len(r) + m
      BY <2>2
    <3>2. from[q] = i /\ at[q] = m
      BY <1>6, <3>1
    <3>3. CASE p \in 1 .. Len(r)
      <4>1. from[p] = f[p] /\ f[p] \in 1 .. i - 1
        BY <1>5, <1>7, <3>3
      <4> QED
        BY <1>8, <3>2, <4>1
    <3>4. CASE \E n \in 1 .. Len(all[i]) : p = Len(r) + n
      <4>1. PICK n \in 1 .. Len(all[i]) : p = Len(r) + n
        BY <3>4
      <4>2. from[p] = i /\ at[p] = n
        BY <1>6, <4>1
      <4>3. n < m
        BY <1>2, <1>3, <1>10, <3>1, <4>1
      <4> QED
        BY <3>2, <4>2, <4>3
    <3> QED
      BY <1>4, <3>3, <3>4
  <2> QED
    BY <1>4, <2>1, <2>2
<1>11. ASSUME NEW j \in 1 .. i, NEW m \in 1 .. Len(all[j])
       PROVE  \E p \in 1 .. Len(t) : from[p] = j /\ at[p] = m
  <2>1. CASE j = i
    BY <1>4, <1>6, <2>1
  <2>2. CASE j \in 1 .. i - 1
    <3>1. PICK p \in 1 .. Len(r) : f[p] = j /\ a[p] = m
      BY <1>7, <2>2
    <3> QED
      BY <1>4, <1>5, <3>1
  <2> QED
    BY <1>2, <2>1, <2>2
<1>12. LinesUp(from, at, t, all, i)
  BY <1>9, <1>10, <1>11, Zenon DEF LinesUp
<1> QED
  BY <1>12 DEF Lined, t

LEMMA OneMoreList ==
  ASSUME NEW i \in Nat, NEW k \in Nat, NEW a \in Nat, NEW b \in Nat,
         a <= (i - 1) * k, b <= k
  PROVE  a + b <= i * k
<1>1. (i - 1) * k = i * k - k
  OBVIOUS
<1>2. i * k \in Int
  OBVIOUS
<1> QED
  BY <1>1, <1>2

\* Joined puts them one after the other.
LEMMA JoinedIs ==
  ASSUME NEW V, NEW all \in Seq(Seq(V)), NEW k \in Nat, \A i \in 1 .. Len(all) : Len(all[i]) <= k
  PROVE  LET r == Joined(all)[Len(all)]
         IN  r \in Seq(V) /\ Lined(r, all, Len(all)) /\ Len(r) <= Len(all) * k
<1> DEFINE joined == Joined(all)
           S == {i \in 0 .. Len(all) :
                   joined[i] \in Seq(V) /\ Lined(joined[i], all, i) /\ Len(joined[i]) <= i * k}
<1>1. Len(all) \in Nat
  OBVIOUS
<1>2. joined[0] = <<>> /\ \A i \in 1 .. Len(all) : joined[i] = joined[i - 1] \o all[i]
  BY JoinedSteps
<1> HIDE DEF joined
<1>3. 0 \in S
  <2>1. /\ <<>> \in Seq(V) /\ 0 \in 0 .. Len(all) /\ Lined(<<>>, all, 0)
        /\ Len(<<>>) <= 0 * k
    BY <1>1, NoneLined
  <2> QED
    BY <1>2, <2>1
<1>4. ASSUME NEW i \in 1 .. Len(all), i - 1 \in S PROVE i \in S
  <2>1. /\ joined[i - 1] \in Seq(V) /\ Lined(joined[i - 1], all, i - 1)
        /\ Len(joined[i - 1]) <= (i - 1) * k
        /\ i \in 0 .. Len(all) /\ i \in Nat
    BY <1>1, <1>4
  <2>2. all[i] \in Seq(V) /\ Len(all[i]) <= k /\ Len(all[i]) \in Nat
    <3>1. all[i] \in Seq(V) /\ Len(all[i]) <= k
      OBVIOUS
    <3> QED
      BY <3>1
  <2>3. joined[i] = joined[i - 1] \o all[i]
    BY <1>2
  <2>4. joined[i] \in Seq(V) /\ Lined(joined[i], all, i)
    BY <2>1, <2>2, <2>3, MoreLined
  <2>5. Len(joined[i]) <= i * k
    <3>1. Len(joined[i]) = Len(joined[i - 1]) + Len(all[i])
      BY <2>1, <2>2, <2>3
    <3>2. Len(joined[i - 1]) \in Nat /\ Len(all[i]) \in Nat
      BY <2>1, <2>2
    <3> QED
      BY <2>1, <2>2, <3>1, <3>2, OneMoreList
  <2> QED
    BY <2>1, <2>4, <2>5
<1> HIDE DEF S
<1>5. \A i \in 0 .. Len(all) : i \in S
  BY <1>1, <1>3, <1>4, UpTo
<1>6. Len(all) \in S
  BY <1>1, <1>5
<1> QED
  BY <1>6 DEF S, joined

LEMMA SizeUpTo ==
  ASSUME NEW n \in Nat
  PROVE  IsFiniteSet(1 .. n) /\ Cardinality(1 .. n) = n
<1>1. /\ IsFiniteSet(1 .. n)
      /\ Cardinality(1 .. n) = IF 1 > n THEN 0 ELSE n - 1 + 1
  BY FS_Interval
<1> QED
  BY <1>1

\* The places of s whose key no earlier one has.
Firsts(s, keys) == {n \in DOMAIN s : \A m \in 1 .. n - 1 : keys[m] # keys[n]}

LEMMA FirstsCover ==
  ASSUME NEW V, NEW s \in Seq(V), NEW keys, NEW n \in 1 .. Len(s)
  PROVE  \E m \in Firsts(s, keys) : m <= n /\ keys[m] = keys[n]
<1> DEFINE Same == {m \in 1 .. n : keys[m] = keys[n]}
<1>1. Same \in SUBSET Nat /\ n \in Same
  OBVIOUS
<1>2. PICK m \in Same : \A p \in Same : m <= p
  BY <1>1, HasLeast
<1>3. m \in 1 .. n /\ keys[m] = keys[n] /\ n \in Nat /\ m \in Nat /\ m <= n
  OBVIOUS
<1>4. Len(s) \in Nat /\ DOMAIN s = 1 .. Len(s)
  OBVIOUS
<1>5. m \in DOMAIN s
  BY <1>3, <1>4
<1>6. ASSUME NEW p \in 1 .. m - 1, keys[p] = keys[m] PROVE FALSE
  <2>1. p \in 1 .. n /\ ~(m <= p)
    BY <1>3
  <2>2. p \in Same
    BY <1>3, <1>6, <2>1
  <2> QED
    BY <1>2, <2>1, <2>2
<1> QED
  BY <1>3, <1>5, <1>6 DEF Firsts

LEMMA FirstOfIs ==
  ASSUME NEW V, NEW s \in Seq(V), NEW keys
  PROVE  /\ FirstOf(s, keys) \in Seq(V) /\ Firsts(s, keys) \in SUBSET (1 .. Len(s))
         /\ Picks(FirstOf(s, keys), s, Firsts(s, keys))
<1>1. Firsts(s, keys) \in SUBSET (1 .. Len(s))
  BY DEF Firsts
<1>2. FirstOf(s, keys) = Select(s, Firsts(s, keys))
  BY Zenon DEF FirstOf, Firsts
<1> QED
  BY <1>1, <1>2, SelectIs

\* AnswerIsMerge of any lists: element p of the merge is element at[p] of list
\* from[p], and no list before that one has its chunk.
MergesAs(from, at, list, all, n) ==
  /\ \A p \in 1 .. Len(list) :
       /\ from[p] \in 1 .. Len(all) /\ at[p] \in 1 .. Len(all[from[p]])
       /\ list[p] = all[from[p]][at[p]]
       /\ \A j \in 1 .. from[p] - 1 : list[p].chunk \notin Chunks(all[j])
  /\ \A p, q \in 1 .. Len(list) : p < q => \/ from[p] < from[q]
                                          \/ /\ from[p] = from[q]
                                             /\ at[p] < at[q]
  /\ Len(list) < n => \A i \in 1 .. Len(all) : Chunks(all[i]) \subseteq Chunks(list)

MergeOf(list, all, n) ==
  list \in Seq(Hits) /\ Len(list) <= n /\ \E from, at : MergesAs(from, at, list, all, n)

LEMMA MergeIs ==
  ASSUME NEW all \in Seq(Seq(Hits)), NEW k \in Nat, NEW cap \in Nat, NEW n \in Nat,
         \A i \in 1 .. Len(all) : Len(all[i]) <= k, Len(all) * k <= cap
  PROVE  MergeOf(Take(MergeSequential(all, cap), n), all, n)
<1> DEFINE every == Joined(all)[Len(all)]
           keys  == [p \in DOMAIN every |-> every[p].chunk]
           first == FirstOf(every, keys)
           list  == Take(first, n)
<1>1. every \in Seq(Hits) /\ Lined(every, all, Len(all)) /\ Len(every) <= Len(all) * k
  BY JoinedIs
<1>2. MergeSequential(all, cap) = Take(first, cap)
  BY Zenon DEF MergeSequential
<1> HIDE DEF every
<1>3. Len(every) \in Nat /\ DOMAIN every = 1 .. Len(every) /\ Len(all) \in Nat
  BY <1>1
<1>4. \A p \in 1 .. Len(every) : keys[p] = every[p].chunk
  BY <1>3
<1> HIDE DEF keys
<1>5. /\ first \in Seq(Hits) /\ Firsts(every, keys) \in SUBSET (1 .. Len(every))
      /\ Picks(first, every, Firsts(every, keys))
      /\ \A p \in 1 .. Len(every) : \E q \in Firsts(every, keys) : q <= p /\ keys[q] = keys[p]
  <2>1. every \in Seq(Hits)
    BY <1>1
  <2>2. FirstOf(every, keys) \in Seq(Hits)
    BY <2>1, FirstOfIs, Zenon
  <2>4. Firsts(every, keys) \in SUBSET (1 .. Len(every))
    BY <2>1, FirstOfIs
  <2>5. Picks(FirstOf(every, keys), every, Firsts(every, keys))
    BY <2>1, FirstOfIs, Zenon
  <2>3. \A p \in 1 .. Len(every) : \E q \in Firsts(every, keys) : q <= p /\ keys[q] = keys[p]
    BY <2>1, FirstsCover
  <2> QED
    BY <2>2, <2>3, <2>4, <2>5
<1> HIDE DEF first
<1>6. first = Take(first, cap)
  <2>1. IsFiniteSet(1 .. Len(every)) /\ Cardinality(1 .. Len(every)) = Len(every)
    <3>1. Len(every) \in Nat
      BY <1>3
    <3> QED
      BY <3>1, SizeUpTo
  <2>2. Cardinality(Firsts(every, keys)) = Len(first)
    BY <1>1, <1>5, PicksCount
  <2>3. Cardinality(Firsts(every, keys)) <= Cardinality(1 .. Len(every))
    BY <1>5, <2>1, FS_Subset
  <2>4. Len(first) \in Nat /\ Len(first) <= Len(every)
    BY <1>5, <2>1, <2>2, <2>3
  <2>5. Len(all) * k \in Nat
    BY <1>3
  <2>6. Len(first) <= cap
    BY <1>1, <1>3, <2>4, <2>5
  <2>7. Len(Take(first, cap)) = cap \/ Take(first, cap) = first
    BY <1>5, TakeIs
  <2> QED
    BY <1>5, <2>4, <2>6 DEF Take
<1>7. Take(MergeSequential(all, cap), n) = list
  BY <1>2, <1>6
<1>8. /\ list \in Seq(Hits) /\ Len(list) <= n /\ Len(list) <= Len(first)
      /\ Len(list) = n \/ list = first
      /\ \A p \in 1 .. Len(list) : list[p] = first[p]
  BY <1>5, TakeIs
<1> HIDE DEF list
<1>9. Len(list) \in Nat /\ Len(first) \in Nat
  BY <1>5, <1>8
<1>10. \A p \in 1 .. Len(list) : p \in 1 .. Len(first)
  BY <1>8, <1>9
<1>11. PICK to : Embeds(to, first, every, Firsts(every, keys))
  BY <1>5 DEF Picks
<1>12. PICK f, a : LinesUp(f, a, every, all, Len(all))
  BY <1>1 DEF Lined
<1> DEFINE from == [p \in 1 .. Len(list) |-> f[to[p]]]
           at   == [p \in 1 .. Len(list) |-> a[to[p]]]
<1>13. ASSUME NEW p \in 1 .. Len(list)
       PROVE  /\ to[p] \in Firsts(every, keys) /\ to[p] \in 1 .. Len(every)
              /\ list[p] = every[to[p]]
              /\ from[p] = f[to[p]] /\ at[p] = a[to[p]]
              /\ from[p] \in 1 .. Len(all) /\ at[p] \in 1 .. Len(all[from[p]])
              /\ list[p] = all[from[p]][at[p]]
  <2>1. p \in 1 .. Len(first) /\ list[p] = first[p]
    BY <1>8, <1>10
  <2>2. to[p] \in Firsts(every, keys) /\ first[p] = every[to[p]]
    BY <1>11, <2>1 DEF Embeds
  <2>3. to[p] \in 1 .. Len(every)
    BY <1>5, <2>2
  <2> QED
    BY <1>12, <2>1, <2>2, <2>3 DEF LinesUp
<1> HIDE DEF from, at
<1>14. ASSUME NEW p \in 1 .. Len(list), NEW j \in 1 .. from[p] - 1, list[p].chunk \in Chunks(all[j])
       PROVE  FALSE
  <2>1. from[p] \in Nat /\ j \in 1 .. Len(all) /\ j < from[p]
    BY <1>3, <1>13
  <2>2. all[j] \in Seq(Hits)
    BY <2>1
  <2>3. PICK m \in 1 .. Len(all[j]) : all[j][m].chunk = list[p].chunk
    <3>1. DOMAIN all[j] = 1 .. Len(all[j])
      BY <2>2
    <3> QED
      BY <1>14, <3>1 DEF Chunks
  <2>4. PICK q \in 1 .. Len(every) : f[q] = j /\ a[q] = m
    BY <1>12, <2>1 DEF LinesUp
  <2>5. every[q].chunk = list[p].chunk
    BY <1>12, <2>3, <2>4 DEF LinesUp
  <2>6. keys[q] = keys[to[p]]
    BY <1>4, <1>13, <2>5
  <2>7. q \in Nat /\ to[p] \in Nat
    BY <1>13, SMTT(60)
  <2>8. ~(q <= to[p] - 1)
    BY <1>13, <2>6, <2>7 DEF Firsts
  <2>9. q = to[p] \/ to[p] < q
    BY <2>7, <2>8
  <2>10. f[to[p]] = from[p] /\ ~(from[p] < j) /\ from[p] # j
    <3>1. f[to[p]] = from[p]
      BY <1>13
    <3>2. from[p] \in Nat /\ j \in Nat /\ j < from[p]
      BY <2>1
    <3> QED
      BY <3>1, <3>2
  <2> QED
    BY <1>12, <1>13, <2>4, <2>9, <2>10, ZenonT(60) DEF LinesUp
<1>15. ASSUME NEW p \in 1 .. Len(list), NEW q \in 1 .. Len(list), p < q
       PROVE  from[p] < from[q] \/ (from[p] = from[q] /\ at[p] < at[q])
  <2>1. to[p] < to[q]
    BY <1>10, <1>11, <1>15 DEF Embeds
  <2>2. f[to[p]] < f[to[q]] \/ (f[to[p]] = f[to[q]] /\ a[to[p]] < a[to[q]])
    <3>1. to[p] \in 1 .. Len(every) /\ to[q] \in 1 .. Len(every)
      BY <1>13
    <3> QED
      BY <1>12, <2>1, <3>1 DEF LinesUp
  <2> QED
    BY <1>13, <2>2
<1>16. ASSUME Len(list) < n, NEW i \in 1 .. Len(all), NEW c \in Chunks(all[i])
       PROVE  c \in Chunks(list)
  <2>1. all[i] \in Seq(Hits)
    OBVIOUS
  <2>2. PICK m \in 1 .. Len(all[i]) : all[i][m].chunk = c
    <3>1. DOMAIN all[i] = 1 .. Len(all[i])
      BY <2>1
    <3> QED
      BY <1>16, <3>1 DEF Chunks
  <2>3. PICK q \in 1 .. Len(every) : f[q] = i /\ a[q] = m
    BY <1>12 DEF LinesUp
  <2>4. every[q].chunk = c
    BY <1>12, <2>2, <2>3 DEF LinesUp
  <2>5. PICK r \in Firsts(every, keys) : keys[r] = keys[q]
    BY <1>5
  <2>6. r \in 1 .. Len(every) /\ every[r].chunk = c
    BY <1>4, <1>5, <2>4, <2>5
  <2>7. PICK p \in 1 .. Len(first) : to[p] = r
    BY <1>11 DEF Embeds
  <2>8. first[p].chunk = c
    BY <1>11, <2>6, <2>7 DEF Embeds
  <2>9. list = first
    BY <1>8, <1>9, <1>16
  <2> QED
    BY <1>8, <2>8, <2>9 DEF Chunks
<1>17. MergesAs(from, at, list, all, n)
  BY <1>13, <1>14, <1>15, <1>16, Zenon DEF MergesAs
<1> QED
  BY <1>7, <1>8, <1>17 DEF MergeOf

\* The hits of one query are a merge as well.
LEMMA OneIsMerge ==
  ASSUME NEW s \in Seq(Hits), NEW n \in Nat, Len(s) <= n
  PROVE  MergeOf(Take(s, n), <<s>>, n)
<1>1. Take(s, n) = s
  BY DEF Take
<1>2. Len(s) \in Nat /\ <<s>>[1] = s /\ Len(<<s>>) = 1
  OBVIOUS
<1> DEFINE from == [p \in 1 .. Len(s) |-> 1]
           at   == [p \in 1 .. Len(s) |-> p]
<1>3. MergesAs(from, at, s, <<s>>, n)
  BY <1>2 DEF MergesAs
<1> QED
  BY <1>1, <1>3 DEF MergeOf

-----------------------------------------------------------------------------
(***************************************************************************)
(* The queries.                                                            *)
(***************************************************************************)
LEMMA Caps == /\ MaxPaths \in Nat \ {0} /\ PathCap \in Nat \ {0} /\ MergedCap \in Nat
              /\ TopKs \subseteq Nat \ {0} /\ MaxPaths * PathCap <= MergedCap
BY CapAssumption

LEMMA StrippedIs ==
  ASSUME NEW lines \in Seq(AllLines)
  PROVE  StripCodeFence(lines) \in Seq(AllLines)
<1> DEFINE fences == {i \in DOMAIN lines : lines[i] = Fence} \ {1}
           end    == CHOOSE i \in fences : \A j \in fences : j <= i
<1>1. CASE lines = <<>> \/ Head(lines) # Fence
  BY <1>1 DEF StripCodeFence
<1>2. CASE ~(lines = <<>> \/ Head(lines) # Fence) /\ fences = {}
  <2>1. StripCodeFence(lines) = SubSeq(lines, 2, Len(lines))
    BY <1>2 DEF StripCodeFence
  <2> QED
    BY <2>1
<1>3. CASE ~(lines = <<>> \/ Head(lines) # Fence) /\ fences # {}
  <2>1. Len(lines) \in Nat /\ DOMAIN lines = 1 .. Len(lines)
    OBVIOUS
  <2>2. \E i \in fences : \A j \in fences : j <= i
    <3> DEFINE gaps == {Len(lines) - i : i \in fences}
    <3>1. gaps \in SUBSET Nat /\ gaps # {}
      BY <1>3, <2>1
    <3>2. PICK g \in gaps : \A h \in gaps : g <= h
      BY <3>1, HasLeast
    <3>3. PICK i \in fences : g = Len(lines) - i
      BY <3>2
    <3>4. ASSUME NEW j \in fences PROVE j <= i
      <4>1. Len(lines) - i <= Len(lines) - j
        BY <3>2, <3>3
      <4> QED
        BY <2>1, <4>1
    <3> QED
      BY <3>4
  <2>3. end \in fences
    BY <2>2
  <2>4. end \in 1 .. Len(lines)
    BY <2>1, <2>3
  <2>5. StripCodeFence(lines) = SubSeq(lines, 2, end - 1)
    BY <1>3, Zenon DEF StripCodeFence
  <2> HIDE DEF end
  <2> QED
    BY <2>4, <2>5
<1> QED
  BY <1>1, <1>2, <1>3

LEMMA DedupeIs ==
  ASSUME NEW qs \in Seq(AllLines)
  PROVE  /\ Dedupe(qs) \in Seq(AllLines) /\ Len(Dedupe(qs)) <= MaxPaths
         /\ qs # <<>> => Len(Dedupe(qs)) >= 1
<1> DEFINE keys  == [n \in DOMAIN qs |-> Lower[qs[n]]]
           first == FirstOf(qs, keys)
<1>1. Dedupe(qs) = Take(first, MaxPaths)
  BY Zenon DEF Dedupe
<1> HIDE DEF keys
<1>2. first \in Seq(AllLines) /\ Picks(first, qs, Firsts(qs, keys))
  BY FirstOfIs
<1>3. ASSUME qs # <<>> PROVE Len(first) >= 1
  <2>1. 1 \in 1 .. Len(qs)
    BY <1>3
  <2>2. PICK m \in Firsts(qs, keys) : m <= 1
    BY <2>1, FirstsCover
  <2>3. PICK to : Embeds(to, first, qs, Firsts(qs, keys))
    BY <1>2 DEF Picks
  <2>4. \E i \in 1 .. Len(first) : to[i] = m
    BY <2>3 DEF Embeds
  <2> QED
    BY <1>2, <2>4
<1> HIDE DEF first
<1>4. /\ Take(first, MaxPaths) \in Seq(AllLines) /\ Len(Take(first, MaxPaths)) <= MaxPaths
      /\ Len(Take(first, MaxPaths)) = MaxPaths \/ Take(first, MaxPaths) = first
  BY <1>2, Caps, TakeIs
<1> QED
  BY <1>1, <1>3, <1>4, Caps

LEMMA ParsedIs ==
  ASSUME NEW lines \in Seq(AllLines)
  PROVE  Parsed(lines) \in Seq(AllLines)
<1> DEFINE s == StripCodeFence(lines)
<1>1. s \in Seq(AllLines)
  BY StrippedIs
<1>2. Parsed(lines) = IF HasQueries(s) THEN Select(QueriesOf[s], NotBlank(QueriesOf[s]))
                      ELSE Take(Select(s, NotBlank(s)), MaxPaths)
  BY Zenon DEF Parsed
<1> HIDE DEF s
<1>3. CASE HasQueries(s)
  <2>1. QueriesOf[s] \in Seq(AllLines)
    BY <1>3, AnswerAssumption DEF HasQueries
  <2>2. NotBlank(QueriesOf[s]) \in SUBSET (1 .. Len(QueriesOf[s]))
    BY <2>1 DEF NotBlank
  <2>3. Select(QueriesOf[s], NotBlank(QueriesOf[s])) \in Seq(AllLines)
    BY <2>1, <2>2, SelectIs
  <2> QED
    BY <1>2, <1>3, <2>3
<1>4. CASE ~HasQueries(s)
  <2>1. NotBlank(s) \in SUBSET (1 .. Len(s))
    BY <1>1 DEF NotBlank
  <2>2. Select(s, NotBlank(s)) \in Seq(AllLines)
    BY <1>1, <2>1, SelectIs
  <2> QED
    BY <1>2, <1>4, <2>2, Caps, TakeIs
<1> QED
  BY <1>3, <1>4

LEMMA RewrittenIs ==
  ASSUME NEW lines \in Seq(AllLines)
  PROVE  Rewritten(lines) \in Seq(AllLines) /\ Len(Rewritten(lines)) \in Paths
<1>1. CASE Parsed(lines) = <<>>
  BY <1>1, AnswerAssumption, Caps DEF Rewritten, Paths
<1>2. CASE Parsed(lines) # <<>>
  <2>1. Rewritten(lines) = Dedupe(Parsed(lines))
    BY <1>2 DEF Rewritten
  <2>2. /\ Dedupe(Parsed(lines)) \in Seq(AllLines) /\ Len(Dedupe(Parsed(lines))) <= MaxPaths
        /\ Len(Dedupe(Parsed(lines))) >= 1
    BY <1>2, ParsedIs, DedupeIs
  <2>3. Len(Dedupe(Parsed(lines))) \in Nat
    BY <2>2
  <2> QED
    BY <2>1, <2>2, <2>3, Caps DEF Paths
<1> QED
  BY <1>1, <1>2

-----------------------------------------------------------------------------
(***************************************************************************)
(* The request, its queries and what has come of the answer.               *)
(***************************************************************************)
RequestInv ==
  /\ RequestOK /\ answer \in Answers
  /\ queries \in Seq(AllLines) /\ Len(queries) \in Paths
  /\ got \in 0 .. Len(answer)

LEMMA QuestionIs == <<Original>> \in Seq(AllLines) /\ Len(<<Original>>) \in Paths
BY AnswerAssumption, Caps DEF Paths

LEMMA InitRequest == Init => RequestInv
<1> SUFFICES ASSUME Init PROVE RequestInv
  OBVIOUS
<1>1. answer \in Seq(AllLines)
  BY AnswerAssumption DEF Init
<1>2. got \in 0 .. Len(answer)
  BY <1>1 DEF Init
<1> QED
  BY <1>2, QuestionIs DEF Init, RequestInv, RequestOK

LEMMA NextRequest == IInv /\ RequestInv /\ [Next]_vars => RequestInv'
<1> SUFFICES ASSUME IInv, RequestInv, [Next]_vars PROVE RequestInv'
  OBVIOUS
<1>1. answer \in Seq(AllLines) /\ Len(answer) \in Nat
  BY AnswerAssumption DEF RequestInv
<1>2. \A call \in {"embed", "milvus", "es"} : Cause(call) \cup PathCauses(call) \subseteq Errors
  BY DEF Cause, PathCauses, Errors
<1>3. CASE Rewrite
  <2>1. /\ UNCHANGED <<mode, stream, topK, answer, client, err>>
        /\ pc' \in {"rewrite", "recall"}
        /\ queries' \in {queries, <<Original>>, Rewritten(answer)}
        /\ got' \in {got, Len(answer)} \/ (got < Len(answer) /\ got' = got + 1)
    BY <1>3 DEF Rewrite, StreamLine, StreamEnds, Complete, RewriteFails, FallBack, requestVars,
                RequestInv, RequestOK
  <2>2. queries' \in Seq(AllLines) /\ Len(queries') \in Paths
    BY <1>1, <2>1, QuestionIs, RewrittenIs DEF RequestInv
  <2>3. got' \in 0 .. Len(answer)
    BY <1>1, <2>1 DEF RequestInv
  <2> QED
    BY <2>1, <2>2, <2>3 DEF RequestInv, RequestOK
<1>4. CASE Recall \/ Embed \/ Wait \/ Answer \/ Finish \/ Leave \/ UNCHANGED vars
  <2>1. UNCHANGED <<mode, stream, topK, answer, queries, got>>
    BY <1>4 DEF Recall, Embed, Wait, Answer, Finish, Leave, vars, requestVars, rewriteVars
  <2>2. client' \in {"here", "gone"}
    BY <1>4 DEF Recall, Embed, Wait, Answer, Finish, Leave, vars, RequestInv, RequestOK
  <2>3. err' \in Errors \cup {None}
    BY <1>2, <1>4 DEF Recall, Embed, Wait, Answer, Finish, Leave, vars, Fail, RequestInv, RequestOK,
                      Errors
  <2>4. pc' \in {"rewrite", "recall", "embed", "wait", "answer", "finish", "answered"}
    BY <1>4 DEF Recall, Embed, Wait, Answer, Finish, Leave, vars, Fail, StartPaths, RequestInv,
                RequestOK
  <2> QED
    BY <2>1, <2>2, <2>3, <2>4 DEF RequestInv, RequestOK
<1>5. ASSUME NEW i \in Paths, SearchVectors(i) \/ SearchByEntityKeys(i) PROVE RequestInv'
  <2>1. UNCHANGED <<mode, stream, topK, answer, queries, got, client, pc>>
    BY <1>5 DEF SearchVectors, SearchByEntityKeys, requestVars, rewriteVars
  <2>2. err' \in Errors \cup {None}
    BY <1>2, <1>5 DEF SearchVectors, SearchByEntityKeys, PathEnds, PathFails, GroupError,
                      RequestInv, RequestOK
  <2> QED
    BY <2>1, <2>2 DEF RequestInv, RequestOK
<1> QED
  BY <1>3, <1>4, <1>5 DEF Next, Serve

-----------------------------------------------------------------------------
(***************************************************************************)
(* The hits of the stores, the list of each query and the merge of them.   *)
(***************************************************************************)
Early == {"rewrite", "recall", "embed"}

HitsInv ==
  /\ pc \in Early => \A i \in Paths : path[i] = "idle"
  /\ mvHits \in [Paths -> Seq(Hits)] /\ esHits \in [Paths -> Seq(Hits)]
  /\ lists \in [Paths -> Seq(Hits)]
  /\ \A i \in Paths :
       /\ path[i] \in {"idle", "Milvus"} => mvHits[i] = <<>>
       /\ path[i] # "done" => esHits[i] = <<>>
       /\ FoundBy(mvHits[i], "milvus", PathK)
       /\ path[i] = "done" /\ err = None => TrueMerge(lists[i], mvHits[i], esHits[i], PathK)
  /\ Result => /\ \A i \in Searched : path[i] = "done"
               /\ hits = Take(Found, topK)

LEMMA PathKIs == RequestInv => PathK \in Nat
BY Caps DEF RequestInv, RequestOK, PathK

LEMMA InitHits == Init => HitsInv
<1> SUFFICES ASSUME Init PROVE HitsInv
  OBVIOUS
<1>1. PathK \in Nat
  BY InitRequest, PathKIs
<1>2. <<>> \in Seq(Hits) /\ FoundBy(<<>>, "milvus", PathK)
  BY <1>1, NoneFound
<1> QED
  BY <1>2 DEF Init, HitsInv, Early, Result

LEMMA RewriteHits == IInv /\ RequestInv /\ HitsInv /\ Rewrite => HitsInv'
<1> SUFFICES ASSUME IInv, RequestInv, HitsInv, Rewrite PROVE HitsInv'
  OBVIOUS
<1>1. /\ UNCHANGED <<path, mvHits, esHits, lists>>
      /\ pc = "rewrite" /\ pc' \in {"rewrite", "recall"}
  BY DEF Rewrite, StreamLine, StreamEnds, Complete, RewriteFails, FallBack, recallVars
<1>2. \A i \in Paths : path[i] = "idle" /\ mvHits[i] = <<>> /\ esHits[i] = <<>>
  BY <1>1 DEF HitsInv, Early
<1>3. RequestInv'
  BY NextRequest DEF Next, Serve
<1>4. PathK' \in Nat
  BY <1>3, Caps DEF RequestInv, RequestOK, PathK
<1>5. FoundBy(<<>>, "milvus", PathK')
  BY <1>4, NoneFound
<1>6. \A i \in Paths : FoundBy(mvHits[i], "milvus", PathK)'
  BY <1>1, <1>2, <1>5, ZenonT(60) DEF FoundBy, Distinct
<1> QED
  BY <1>1, <1>2, <1>6 DEF HitsInv, Early, Result

\* What leaves the lists alone and does not end the search.
LEMMA SameHits ==
  ASSUME HitsInv, UNCHANGED <<mvHits, esHits, lists, queries, topK>>,
         \A i \in Paths : \/ path'[i] = path[i]
                          \/ path[i] = "idle" /\ path'[i] \in {"Milvus", "ES"},
         err' = None => err = None,
         pc' \in Early => pc \in Early /\ path' = path,
         Result' => Result /\ UNCHANGED <<path, hits>>
  PROVE  HitsInv'
<1>1. UNCHANGED <<PathK, Searched, Found>>
  BY DEF PathK, Searched, Found
<1>2. ASSUME NEW i \in Paths
      PROVE  /\ path'[i] \in {"idle", "Milvus"} => mvHits'[i] = <<>>
             /\ path'[i] # "done" => esHits'[i] = <<>>
             /\ FoundBy(mvHits'[i], "milvus", PathK')
             /\ path'[i] = "done" /\ err' = None =>
                  TrueMerge(lists'[i], mvHits'[i], esHits'[i], PathK')
  BY <1>1 DEF HitsInv
<1>3. Result' => /\ \A i \in Searched' : path'[i] = "done"
                 /\ hits' = Take(Found', topK')
  BY <1>1 DEF HitsInv
<1> QED
  BY <1>2, <1>3 DEF HitsInv

LEMMA AsideHits ==
  ASSUME IInv, RequestInv, HitsInv, Recall \/ Embed \/ Answer \/ Finish \/ Leave \/ UNCHANGED vars
  PROVE  HitsInv'
<1>1. UNCHANGED <<mvHits, esHits, lists, queries, topK, hits>>
  BY DEF Recall, Embed, Answer, Finish, Leave, vars, requestVars, rewriteVars, recallVars
<1>2. None \notin {"es_disabled", "embed_required"} \cup Cause("embed")
  BY NoneAssumption DEF Cause, Errors
<1>3. CASE Recall \/ Embed
  <2>1. pc \in Early /\ \A i \in Paths : path[i] = "idle"
    BY <1>3 DEF Recall, Embed, Early, HitsInv
  <2>2. CASE UNCHANGED <<path, err>> /\ pc' = "embed"
    BY <1>1, <2>1, <2>2, SameHits DEF Result
  <2>3. CASE UNCHANGED path /\ pc' = "answer" /\ err' # None
    BY <1>1, <2>1, <2>3, SameHits DEF Result, Early
  <2>4. CASE UNCHANGED err /\ \E call \in {"Milvus", "ES"} : StartPaths(call)
    <3>1. pc' = "wait" /\ \A i \in Paths : path'[i] \in {"idle", "Milvus", "ES"}
      BY <2>4 DEF StartPaths
    <3> QED
      BY <1>1, <2>1, <2>4, <3>1, SameHits DEF Result, Early
  <2> QED
    BY <1>2, <1>3, <2>2, <2>3, <2>4 DEF Recall, Embed, Fail
<1>4. CASE Answer \/ Finish \/ Leave \/ UNCHANGED vars
  <2>1. UNCHANGED <<path, err>> /\ (Result' => Result) /\ (pc' \in Early => pc \in Early)
    BY <1>4 DEF Answer, Finish, Leave, vars, recallVars, Result, Early
  <2> QED
    BY <1>1, <2>1, SameHits
<1> QED
  BY <1>3, <1>4

LEMMA WaitHits == IInv /\ RequestInv /\ HitsInv /\ Wait => HitsInv'
<1> SUFFICES ASSUME IInv, RequestInv, HitsInv, Wait PROVE HitsInv'
  OBVIOUS
<1>1. /\ UNCHANGED <<path, mvHits, esHits, lists, queries, topK, err>>
      /\ pc' = "answer" /\ hits' = IF err = None THEN Take(Found, topK) ELSE <<>>
      /\ \A i \in Searched : path[i] = "done"
  BY DEF Wait, WaitForAll, requestVars, rewriteVars, recallVars
<1>2. UNCHANGED <<PathK, Searched, Found>>
  BY <1>1 DEF PathK, Searched, Found
<1> QED
  BY <1>1, <1>2 DEF HitsInv, Early, Result

\* The step of one goroutine.
LEMMA PathHits ==
  ASSUME IInv, RequestInv, HitsInv, NEW i \in Paths, SearchVectors(i) \/ SearchByEntityKeys(i)
  PROVE  HitsInv'
<1>1. /\ UNCHANGED <<queries, topK, pc, hits>> /\ path[i] \in {"Milvus", "ES"}
  BY DEF SearchVectors, SearchByEntityKeys, requestVars, rewriteVars
<1>2. pc = "wait" /\ i \in Searched /\ path \in [Paths -> {"idle", "Milvus", "ES", "done"}]
  BY <1>1 DEF IInv, PathsRun, PathsOK
<1>3. UNCHANGED PathK /\ PathK \in Nat
  BY <1>1, PathKIs DEF PathK
<1>4. queries[i] \in AllLines
  BY <1>2 DEF RequestInv, Searched
<1>5. ~Result' /\ pc' \notin Early
  BY <1>1, <1>2 DEF Result, Early
<1>6. None \notin PathCauses("milvus") \cup PathCauses("es")
  BY NoneAssumption DEF PathCauses, Cause, Errors
<1>7. \A e : GroupError(e) = None => e = None /\ err = None
  BY DEF GroupError
<1>8. /\ esHits[i] = <<>> /\ (path[i] = "Milvus" => mvHits[i] = <<>>)
      /\ FoundBy(mvHits[i], "milvus", PathK)
  BY <1>1 DEF HitsInv
<1>9. \A j \in Paths : j # i => /\ path'[j] = path[j] /\ mvHits'[j] = mvHits[j]
                                /\ esHits'[j] = esHits[j] /\ lists'[j] = lists[j]
  BY <1>2 DEF SearchVectors, SearchByEntityKeys, PathEnds, PathFails, HitsInv
<1>10. err' = None => err = None
  BY <1>7 DEF SearchVectors, SearchByEntityKeys, PathEnds, PathFails
\* What it owes.
<1>11. ASSUME mvHits' \in [Paths -> Seq(Hits)], esHits' \in [Paths -> Seq(Hits)],
              lists' \in [Paths -> Seq(Hits)], FoundBy(mvHits'[i], "milvus", PathK),
              \/ path'[i] = "ES" /\ esHits'[i] = <<>>
              \/ /\ path'[i] = "done"
                 /\ err' # None \/ TrueMerge(lists'[i], mvHits'[i], esHits'[i], PathK)
       PROVE  HitsInv'
  <2>1. ASSUME NEW j \in Paths
        PROVE  /\ path'[j] \in {"idle", "Milvus"} => mvHits'[j] = <<>>
               /\ path'[j] # "done" => esHits'[j] = <<>>
               /\ FoundBy(mvHits'[j], "milvus", PathK')
               /\ path'[j] = "done" /\ err' = None =>
                    TrueMerge(lists'[j], mvHits'[j], esHits'[j], PathK')
    <3>1. CASE j = i
      BY <1>3, <1>11, <3>1
    <3>2. CASE j # i
      <4>1. /\ path[j] \in {"idle", "Milvus"} => mvHits[j] = <<>>
            /\ path[j] # "done" => esHits[j] = <<>>
            /\ FoundBy(mvHits[j], "milvus", PathK)
            /\ path[j] = "done" /\ err = None => TrueMerge(lists[j], mvHits[j], esHits[j], PathK)
        BY DEF HitsInv
      <4> QED
        BY <1>3, <1>9, <1>10, <3>2, <4>1
    <3> QED
      BY <3>1, <3>2
  <2> QED
    BY <1>5, <1>11, <2>1 DEF HitsInv
<1>12. CASE SearchVectors(i)
  <2>1. CASE \E ranking \in VectorRanks[queries[i]] :
               LET mv == MilvusHits(Take(ranking, PathK))
               IN  /\ mvHits' = [mvHits EXCEPT ![i] = mv]
                   /\ IF mode = "hybrid" /\ elastic /\ queries[i] \notin Keyless
                      THEN path' = [path EXCEPT ![i] = "ES"] /\ UNCHANGED <<lists, err>>
                      ELSE PathEnds(i, mv)
    <3>1. PICK ranking \in VectorRanks[queries[i]] :
               LET mv == MilvusHits(Take(ranking, PathK))
               IN  /\ mvHits' = [mvHits EXCEPT ![i] = mv]
                   /\ \/ path' = [path EXCEPT ![i] = "ES"] /\ UNCHANGED lists
                      \/ PathEnds(i, mv)
      BY <2>1
    <3> DEFINE mv == MilvusHits(Take(ranking, PathK))
    <3>2. FoundBy(mv, "milvus", PathK)
      BY <1>3, <1>4, RankingFound
    <3>3. mv \in Seq(Hits)
      BY <3>2 DEF FoundBy
    <3>4. mvHits' = [mvHits EXCEPT ![i] = mv]
      BY <3>1
    <3>5. \/ path' = [path EXCEPT ![i] = "ES"] /\ UNCHANGED lists
          \/ PathEnds(i, mv)
      BY <3>1
    <3> HIDE DEF mv
    <3>6. UNCHANGED esHits
      BY <1>12 DEF SearchVectors
    <3>7. mvHits' \in [Paths -> Seq(Hits)] /\ mvHits'[i] = mv
      BY <3>3, <3>4 DEF HitsInv
    <3>8. lists' \in [Paths -> Seq(Hits)] /\ esHits' \in [Paths -> Seq(Hits)] /\ esHits'[i] = <<>>
      BY <1>8, <3>3, <3>5, <3>6 DEF HitsInv, PathEnds
    <3>9. CASE path' = [path EXCEPT ![i] = "ES"] /\ UNCHANGED lists
      <4>1. path'[i] = "ES"
        BY <1>2, <3>9
      <4> QED
        BY <1>11, <3>2, <3>7, <3>8, <4>1
    <3>10. CASE PathEnds(i, mv)
      <4>1. path'[i] = "done" /\ lists'[i] = mv
        BY <1>2, <3>10 DEF PathEnds, HitsInv
      <4>2. TrueMerge(mv, mv, <<>>, PathK)
        BY <1>3, <3>2, MilvusAlone
      <4> QED
        BY <1>11, <3>2, <3>7, <3>8, <4>1, <4>2
    <3> QED
      BY <3>5, <3>9, <3>10
  <2>2. CASE UNCHANGED mvHits /\ \E e \in PathCauses("milvus") : PathFails(i, e)
    <3>1. UNCHANGED <<mvHits, esHits, lists>> /\ path'[i] = "done" /\ err' # None
      BY <1>2, <1>6, <1>7, <1>12, <2>2 DEF SearchVectors, PathFails
    <3> QED
      BY <1>8, <1>11, <3>1 DEF HitsInv
  <2> QED
    BY <1>12, <2>1, <2>2, Zenon DEF SearchVectors
<1>13. CASE SearchByEntityKeys(i)
  <2>0. UNCHANGED mvHits
    BY <1>13 DEF SearchByEntityKeys
  <2>1. CASE \E ranking \in IF queries[i] \in Keyless THEN {<<>>} ELSE EntityRanks[queries[i]] :
               LET es == ESHits(Take(ranking, PathK))
               IN  /\ esHits' = [esHits EXCEPT ![i] = es]
                   /\ PathEnds(i, Merged(mvHits[i], es, PathK))
    <3>1. PICK ranking \in EntityRanks[queries[i]] \cup {<<>>} :
               LET es == ESHits(Take(ranking, PathK))
               IN  /\ esHits' = [esHits EXCEPT ![i] = es]
                   /\ PathEnds(i, Merged(mvHits[i], es, PathK))
      BY <2>1
    <3> DEFINE es == ESHits(Take(ranking, PathK))
    <3>2. FoundBy(es, "es", PathK)
      <4>1. CASE ranking \in EntityRanks[queries[i]]
        BY <1>3, <1>4, <4>1, RankingFound
      <4>2. CASE ranking = <<>>
        <5>1. Take(<<>>, PathK) = <<>>
          BY <1>3 DEF Take
        <5>2. es = <<>>
          BY <4>2, <5>1 DEF ESHits
        <5> QED
          BY <1>3, <5>2, NoneFound
      <4> QED
        BY <4>1, <4>2
    <3>3. esHits' = [esHits EXCEPT ![i] = es] /\ PathEnds(i, Merged(mvHits[i], es, PathK))
      BY <3>1
    <3> HIDE DEF es
    <3>4. TrueMerge(Merged(mvHits[i], es, PathK), mvHits[i], es, PathK)
      BY <1>3, <1>8, <3>2, MergedIs
    <3>5. es \in Seq(Hits) /\ Merged(mvHits[i], es, PathK) \in Seq(Hits)
      BY <3>2, <3>4 DEF FoundBy, TrueMerge
    <3>6. /\ lists' \in [Paths -> Seq(Hits)] /\ lists'[i] = Merged(mvHits[i], es, PathK)
          /\ esHits' \in [Paths -> Seq(Hits)] /\ esHits'[i] = es
          /\ path'[i] = "done"
      BY <1>2, <3>3, <3>5 DEF HitsInv, PathEnds
    <3> QED
      BY <1>8, <1>11, <2>0, <3>4, <3>6 DEF HitsInv
  <2>2. CASE UNCHANGED esHits /\ PathEnds(i, mvHits[i])
    <3>1. TrueMerge(mvHits[i], mvHits[i], <<>>, PathK) /\ mvHits[i] \in Seq(Hits)
      BY <1>3, <1>8, MilvusAlone DEF HitsInv
    <3>2. lists' \in [Paths -> Seq(Hits)] /\ lists'[i] = mvHits[i] /\ path'[i] = "done"
      BY <1>2, <2>2, <3>1 DEF HitsInv, PathEnds
    <3> QED
      BY <1>8, <1>11, <2>0, <2>2, <3>1, <3>2 DEF HitsInv
  <2>3. CASE UNCHANGED esHits /\ \E e \in PathCauses("es") : PathFails(i, e)
    <3>1. UNCHANGED lists /\ path'[i] = "done" /\ err' # None
      BY <1>2, <1>6, <1>7, <2>3 DEF PathFails
    <3> QED
      BY <1>8, <1>11, <2>0, <2>3, <3>1 DEF HitsInv
  <2> QED
    BY <1>13, <2>1, <2>2, <2>3, Zenon DEF SearchByEntityKeys
<1> QED
  BY <1>12, <1>13

LEMMA NextHits == IInv /\ RequestInv /\ HitsInv /\ [Next]_vars => HitsInv'
BY RewriteHits, AsideHits, WaitHits, PathHits DEF Next, Serve

LEMMA SourcesInv == RequestInv /\ HitsInv => SourcesAreTrue
<1> SUFFICES ASSUME RequestInv, HitsInv, NEW i \in Searched, path[i] = "done", err = None
             PROVE  LET mv == Chunks(mvHits[i])
                        es == Chunks(esHits[i])
                    IN  /\ \A n \in DOMAIN mvHits[i] : lists[i][n].chunk = mvHits[i][n].chunk
                        /\ \A n \in DOMAIN lists[i] :
                             LET h == lists[i][n]
                             IN  /\ h.source = "milvus" => h.chunk \in mv
                                 /\ h.source = "es" => h.chunk \in es \ mv
                                 /\ h.source = "both" => h.chunk \in es \cap mv
                                 /\ h.chunk \in es \cap mv /\ Len(lists[i]) < PathK => h.source = "both"
                        /\ Len(lists[i]) < PathK => Chunks(lists[i]) = mv \cup es
  BY Zenon DEF SourcesAreTrue
<1>1. i \in Paths
  BY Caps DEF RequestInv, Searched, Paths
<1>2. TrueMerge(lists[i], mvHits[i], esHits[i], PathK)
  BY <1>1 DEF HitsInv
<1> QED
  BY <1>2 DEF TrueMerge

LEMMA LessTimesLess ==
  ASSUME NEW a \in Nat, NEW b \in Nat, NEW c \in Nat, NEW d \in Nat, a <= b, c <= d
  PROVE  a * c <= b * d
<1>1. a * c <= b * c
  OBVIOUS
<1>2. b * c <= b * d
  OBVIOUS
<1> QED
  BY <1>1, <1>2

LEMMA AnswerInv == RequestInv /\ HitsInv => AnswerIsMerge
<1> SUFFICES ASSUME RequestInv, HitsInv, Result
             PROVE  /\ \A n \in DOMAIN hits : Finding(hits[n].chunk) # {}
                    /\ \A m, n \in DOMAIN hits : m < n => Before(hits[m].chunk, hits[n].chunk)
                    /\ Len(hits) <= topK
                    /\ \A i \in Searched : \A c \in Chunks(lists[i]) \ Chunks(hits) : Len(hits) = topK
  BY DEF AnswerIsMerge
<1> DEFINE all == [i \in Searched |-> lists[i]]
<1>1. /\ Searched = 1 .. Len(queries) /\ Len(queries) \in Nat /\ Len(queries) >= 1
      /\ Len(queries) <= MaxPaths /\ Searched \subseteq Paths
  BY Caps DEF RequestInv, Searched, Paths
<1>2. /\ topK \in Nat /\ PathK \in Nat /\ (Len(queries) = 1 => PathK = topK)
      /\ Len(queries) # 1 => PathK <= PathCap
  BY Caps DEF RequestInv, RequestOK, PathK
<1>3. \A i \in Searched : /\ lists[i] \in Seq(Hits) /\ Len(lists[i]) <= PathK
                          /\ Distinct(lists[i])
  BY <1>1 DEF HitsInv, Result, TrueMerge
<1>4. all \in Seq(Seq(Hits)) /\ Len(all) = Len(queries)
  <2>1. all \in [1 .. Len(queries) -> Seq(Hits)]
    BY <1>1, <1>3
  <2> QED
    BY <1>1, <2>1
<1>5. \A i \in 1 .. Len(all) : all[i] = lists[i]
  BY <1>1, <1>4
<1>6. MergeOf(hits, all, topK)
  <2>1. hits = Take(Found, topK)
    BY DEF HitsInv
  <2>2. CASE Len(queries) = 1
    <3>1. Found = lists[1] /\ lists[1] \in Seq(Hits) /\ Len(lists[1]) <= topK
      BY <1>1, <1>2, <1>3, <2>2 DEF Found
    <3>2. all = <<lists[1]>>
      BY <1>4, <1>5, <2>2
    <3> QED
      BY <1>2, <2>1, <3>1, <3>2, OneIsMerge
  <2>3. CASE Len(queries) # 1
    <3>1. Len(queries) * PathK <= MaxPaths * PathCap
      BY <1>1, <1>2, <2>3, Caps, LessTimesLess
    <3>2. Len(all) * PathK <= MergedCap
      <4>1. Len(queries) * PathK \in Nat /\ MaxPaths * PathCap \in Nat
        BY <1>1, <1>2, Caps
      <4> QED
        BY <1>4, <3>1, <4>1, Caps
    <3>3. \A i \in 1 .. Len(all) : Len(all[i]) <= PathK
      BY <1>1, <1>3, <1>4, <1>5
    <3>4. Found = MergeSequential(all, MergedCap)
      BY <2>3 DEF Found
    <3> HIDE DEF all
    <3> QED
      BY <1>2, <1>4, <2>1, <3>2, <3>3, <3>4, Caps, MergeIs
  <2> QED
    BY <2>2, <2>3
<1> HIDE DEF all
<1>7. hits \in Seq(Hits) /\ Len(hits) <= topK /\ Len(hits) \in Nat /\ DOMAIN hits = 1 .. Len(hits)
  BY <1>6 DEF MergeOf
<1>8. PICK from, at : MergesAs(from, at, hits, all, topK)
  BY <1>6 DEF MergeOf
<1>9. ASSUME NEW p \in 1 .. Len(hits)
      PROVE  /\ from[p] \in Finding(hits[p].chunk)
             /\ FirstPath(hits[p].chunk) = from[p]
             /\ Rank(lists[from[p]], hits[p].chunk) = at[p]
  <2> DEFINE i == from[p]
             c == hits[p].chunk
  <2>1. /\ i \in 1 .. Len(all) /\ at[p] \in 1 .. Len(all[i]) /\ hits[p] = all[i][at[p]]
        /\ \A j \in 1 .. i - 1 : c \notin Chunks(all[j])
    BY <1>8 DEF MergesAs
  <2> HIDE DEF i
  <2>2. /\ i \in Searched /\ lists[i] \in Seq(Hits) /\ all[i] = lists[i]
    BY <1>1, <1>3, <1>4, <1>5, <2>1
  <2>3. DOMAIN lists[i] = 1 .. Len(lists[i])
    BY <2>2
  <2>4. at[p] \in DOMAIN lists[i] /\ lists[i][at[p]].chunk = c
    BY <2>1, <2>2, <2>3
  <2>5. i \in Finding(c)
    BY <2>2, <2>4 DEF Finding, Chunks
  <2>6. \A n \in DOMAIN lists[i] : lists[i][n].chunk = c => n = at[p]
    BY <1>3, <2>2, <2>4 DEF Distinct
  <2>7. Rank(lists[i], c) = at[p]
    <3> HIDE DEF c
    <3> QED
      BY <2>4, <2>6 DEF Rank
  <2>8. ASSUME NEW j \in Finding(c) PROVE i <= j
    <3>1. j \in 1 .. Len(all) /\ c \in Chunks(all[j])
      BY <1>1, <1>4, <1>5, <2>8 DEF Finding
    <3>2. i \in Nat /\ j \in Nat /\ j >= 1
      BY <1>1, <1>4, <2>1, <3>1
    <3>3. j \notin 1 .. i - 1
      BY <2>1, <3>1
    <3> QED
      BY <3>2, <3>3
  <2>9. \A j \in Finding(c) : j \in Nat
    BY <1>1 DEF Finding
  <2>10. FirstPath(c) = i
    <3> HIDE DEF c
    <3>1. \A j \in Finding(c) : (\A h \in Finding(c) : j <= h) => j = i
      BY <2>5, <2>8, <2>9
    <3> QED
      BY <2>5, <2>8, <3>1 DEF FirstPath
  <2> QED
    BY <2>5, <2>7, <2>10 DEF i
<1>10. \A n \in DOMAIN hits : Finding(hits[n].chunk) # {}
  BY <1>7, <1>9
<1>11. ASSUME NEW m \in DOMAIN hits, NEW n \in DOMAIN hits, m < n
       PROVE  Before(hits[m].chunk, hits[n].chunk)
  <2>1. m \in 1 .. Len(hits) /\ n \in 1 .. Len(hits)
    BY <1>7
  <2>2. from[m] < from[n] \/ (from[m] = from[n] /\ at[m] < at[n])
    BY <1>8, <1>11, <2>1 DEF MergesAs
  <2> QED
    BY <1>9, <2>1, <2>2 DEF Before
<1>12. ASSUME NEW i \in Searched, NEW c \in Chunks(lists[i]) \ Chunks(hits), Len(hits) # topK
       PROVE  FALSE
  <2>1. i \in 1 .. Len(all) /\ all[i] = lists[i]
    BY <1>1, <1>4, <1>5
  <2>2. Len(hits) < topK
    <3>1. topK \in Nat /\ Len(hits) \in Nat /\ Len(hits) <= topK /\ Len(hits) # topK
      BY <1>2, <1>7, <1>12
    <3> HIDE DEF Searched
    <3> QED
      BY <3>1
  <2>3. Chunks(all[i]) \subseteq Chunks(hits)
    BY <1>8, <2>1, <2>2 DEF MergesAs
  <2> QED
    BY <2>1, <2>3
<1> QED
  BY <1>7, <1>10, <1>11, <1>12

-----------------------------------------------------------------------------
(***************************************************************************)
(* What the client is told: lines, and then one outcome.                   *)
(***************************************************************************)
\* The first k events are lines, and only those.
Leads(e, k) ==
  k \in 0 .. Len(e) /\ \A n \in 1 .. Len(e) : e[n].event = "rewrite_query" <=> n <= k

Outcome == SubSeq(events, Emitted + 1, Len(events))
Whole == IF err # None THEN <<Event("error", err)>>
         ELSE (IF stream THEN <<Event("rewrite_queries", queries)>> ELSE <<>>)
              \o <<Event("done", hits)>>

EventsInv ==
  /\ \E V : events \in Seq(V)
  /\ Leads(events, Emitted) /\ Emitted <= MaxPaths
  /\ pc \notin {"finish", "answered"} => Len(events) = Emitted
  /\ pc = "finish" => /\ stream /\ err = None
                      /\ Outcome = <<Event("rewrite_queries", queries)>>
  /\ pc = "answered" => /\ Outcome = Take(Whole, Len(Outcome))
                        /\ client = "here" => Outcome = Whole

LEMMA LeadsIs ==
  ASSUME NEW V, NEW e \in Seq(V), NEW k, Leads(e, k)
  PROVE  Cardinality({n \in DOMAIN e : e[n].event = "rewrite_query"}) = k
<1>1. Len(e) \in Nat /\ DOMAIN e = 1 .. Len(e) /\ k \in Nat /\ k <= Len(e)
  BY DEF Leads
<1>2. {n \in DOMAIN e : e[n].event = "rewrite_query"} = 1 .. k
  BY <1>1 DEF Leads
<1> QED
  BY <1>1, <1>2, SizeUpTo

LEMMA OneMoreLine ==
  ASSUME NEW V, NEW e \in Seq(V), Leads(e, Len(e)), NEW line
  PROVE  LET f == Append(e, Event("rewrite_query", line))
         IN  /\ \E W : f \in Seq(W)
             /\ Len(f) = Len(e) + 1 /\ Leads(f, Len(f))
<1> DEFINE x == Event("rewrite_query", line)
           f == Append(e, x)
<1>1. x.event = "rewrite_query"
  BY DEF Event
<1> HIDE DEF x
<1>2. /\ f \in Seq(V \cup {x}) /\ Len(f) = Len(e) + 1 /\ Len(e) \in Nat
      /\ f[Len(e) + 1] = x /\ \A n \in 1 .. Len(e) : f[n] = e[n]
  OBVIOUS
<1> HIDE DEF f
<1>3. ASSUME NEW n \in 1 .. Len(f) PROVE f[n].event = "rewrite_query" <=> n <= Len(f)
  <2>1. n \in 1 .. Len(e) \/ n = Len(e) + 1
    BY <1>2
  <2> QED
    BY <1>1, <1>2, <2>1 DEF Leads
<1>4. Leads(f, Len(f))
  BY <1>2, <1>3 DEF Leads
<1> QED
  BY <1>2, <1>4 DEF f, x

\* What follows the first k elements.
LEMMA RestOfMore ==
  ASSUME NEW V, NEW e \in Seq(V), NEW k \in 0 .. Len(e), NEW x \in V
  PROVE  SubSeq(Append(e, x), k + 1, Len(e) + 1) = Append(SubSeq(e, k + 1, Len(e)), x)
<1> DEFINE f     == Append(e, x)
           left  == SubSeq(f, k + 1, Len(e) + 1)
           cut   == SubSeq(e, k + 1, Len(e))
           right == Append(cut, x)
<1>1. Len(e) \in Nat /\ k \in Nat /\ k <= Len(e)
  OBVIOUS
<1>2. f \in Seq(V) /\ Len(f) = Len(e) + 1
  OBVIOUS
<1>3. left \in Seq(V) /\ Len(left) = Len(e) + 1 - k
  BY <1>1, <1>2
<1>4. cut \in Seq(V) /\ Len(cut) = Len(e) - k
  BY <1>1
<1>5. right \in Seq(V) /\ Len(right) = Len(e) + 1 - k
  BY <1>1, <1>4
<1>6. ASSUME NEW i \in 1 .. Len(left) PROVE left[i] = right[i]
  <2>1. i \in Nat /\ 1 <= i /\ i <= Len(e) + 1 - k
    BY <1>1, <1>3
  <2>2. left[i] = f[k + i]
    BY <1>1, <1>2, <2>1
  <2>3. CASE i = Len(e) + 1 - k
    BY <1>1, <1>4, <2>1, <2>2, <2>3
  <2>4. CASE i # Len(e) + 1 - k
    <3>1. i \in 1 .. Len(cut) /\ k + i \in 1 .. Len(e)
      BY <1>1, <1>4, <2>1, <2>4
    <3>2. right[i] = cut[i] /\ cut[i] = e[k + i] /\ f[k + i] = e[k + i]
      BY <1>1, <1>4, <3>1
    <3> QED
      BY <2>2, <3>2
  <2> QED
    BY <2>3, <2>4
<1> HIDE DEF left, right
<1>7. left = right
  BY <1>3, <1>5, <1>6, SMTT(60)
<1> QED
  BY <1>7 DEF left, right, f, cut

LEMMA OneMoreOutcome ==
  ASSUME NEW V, NEW e \in Seq(V), NEW k, Leads(e, k), NEW x, x.event # "rewrite_query"
  PROVE  LET f == Append(e, x)
         IN  /\ \E W : f \in Seq(W)
             /\ Leads(f, k) /\ \A n \in 1 .. k : f[n] = e[n]
             /\ SubSeq(f, k + 1, Len(f)) = Append(SubSeq(e, k + 1, Len(e)), x)
<1> DEFINE f == Append(e, x)
<1>1. /\ e \in Seq(V \cup {x}) /\ f \in Seq(V \cup {x}) /\ Len(f) = Len(e) + 1 /\ Len(e) \in Nat
      /\ f[Len(e) + 1] = x /\ \A n \in 1 .. Len(e) : f[n] = e[n]
  OBVIOUS
<1>2. k \in 0 .. Len(e) /\ k \in Nat /\ k <= Len(e)
  <2>1. k \in 0 .. Len(e) /\ Len(e) \in Nat
    BY DEF Leads
  <2> QED
    BY <2>1
<1>3. SubSeq(f, k + 1, Len(f)) = Append(SubSeq(e, k + 1, Len(e)), x)
  <2>1. e \in Seq(V \cup {x}) /\ x \in V \cup {x} /\ k \in 0 .. Len(e)
    BY <1>1, <1>2
  <2>2. SubSeq(Append(e, x), k + 1, Len(e) + 1) = Append(SubSeq(e, k + 1, Len(e)), x)
    BY <2>1, RestOfMore, Zenon
  <2> QED
    BY <1>1, <2>2
<1> HIDE DEF f
<1>4. ASSUME NEW n \in 1 .. Len(f) PROVE f[n].event = "rewrite_query" <=> n <= k
  <2>1. n \in 1 .. Len(e) \/ n = Len(e) + 1
    BY <1>1
  <2> QED
    BY <1>1, <1>2, <2>1 DEF Leads
<1>5. Leads(f, k) /\ \A n \in 1 .. k : f[n] = e[n]
  BY <1>1, <1>2, <1>4 DEF Leads
<1> QED
  BY <1>1, <1>3, <1>5 DEF f

LEMMA InitEvents == Init => EventsInv
<1> SUFFICES ASSUME Init PROVE EventsInv
  OBVIOUS
<1>1. events = <<>> /\ pc = "rewrite" /\ <<>> \in Seq({}) /\ Len(<<>>) = 0
  BY DEF Init
<1>2. Leads(<<>>, 0)
  BY DEF Leads
<1>3. Emitted = 0
  BY <1>1, <1>2, LeadsIs DEF Emitted
<1> QED
  BY <1>1, <1>2, <1>3, Caps DEF EventsInv

LEMMA SameEvents ==
  ASSUME UNCHANGED events
  PROVE  UNCHANGED <<Emitted, Outcome>>
BY DEF Emitted, Outcome

\* A line is sent while there are fewer than MaxPaths.
LineSent ==
  \/ UNCHANGED events
  \/ Emitted < MaxPaths /\ \E line : Send(Event("rewrite_query", line))

LEMMA RewriteSends == Rewrite => /\ pc = "rewrite" /\ pc' \in {"rewrite", "recall"}
                                 /\ LineSent
BY DEF Rewrite, StreamLine, StreamEnds, Complete, RewriteFails, FallBack, LineSent, Streams

LEMMA LineSentIs ==
  ASSUME NEW line, EventsInv, Len(events) = Emitted, Send(Event("rewrite_query", line))
  PROVE  /\ \E V : events' \in Seq(V)
         /\ Leads(events', Emitted') /\ Emitted' = Emitted + 1 /\ Len(events') = Emitted'
         /\ events' = Append(events, Event("rewrite_query", line))
<1>1. PICK V : events \in Seq(V)
  BY DEF EventsInv
<1>2. events' = Append(events, Event("rewrite_query", line))
  BY DEF Send
<1>3. Leads(events, Len(events))
  BY DEF EventsInv
<1>4. /\ \E W : events' \in Seq(W)
      /\ Len(events') = Len(events) + 1 /\ Leads(events', Len(events'))
  BY <1>1, <1>2, <1>3, OneMoreLine
<1>5. Emitted' = Len(events')
  BY <1>4, LeadsIs DEF Emitted
<1> QED
  BY <1>2, <1>4, <1>5

LEMMA RewriteEvents == EventsInv /\ Rewrite => EventsInv'
<1> SUFFICES ASSUME EventsInv, Rewrite PROVE EventsInv'
  OBVIOUS
<1>1. pc = "rewrite" /\ pc' \in {"rewrite", "recall"} /\ LineSent
  BY RewriteSends
<1>2. Len(events) = Emitted /\ Emitted <= MaxPaths
  BY <1>1 DEF EventsInv
<1>3. CASE UNCHANGED events
  BY <1>1, <1>2, <1>3, SameEvents DEF EventsInv
<1>4. CASE Emitted < MaxPaths /\ \E line : Send(Event("rewrite_query", line))
  <2>1. /\ \E V : events' \in Seq(V)
        /\ Leads(events', Emitted') /\ Emitted' = Emitted + 1 /\ Len(events') = Emitted'
    BY <1>2, <1>4, LineSentIs
  <2>2. Emitted \in Nat
    <3>1. PICK V : events \in Seq(V)
      BY DEF EventsInv
    <3> QED
      BY <1>2, <3>1
  <2>3. Emitted' <= MaxPaths
    BY <1>4, <2>1, <2>2, Caps
  <2> QED
    BY <1>1, <2>1, <2>3 DEF EventsInv
<1> QED
  BY <1>1, <1>3, <1>4 DEF LineSent

LEMMA OutcomeSentIs ==
  ASSUME NEW x, EventsInv, Send(x), x.event # "rewrite_query"
  PROVE  /\ \E V : events' \in Seq(V)
         /\ Leads(events', Emitted') /\ Emitted' = Emitted /\ Outcome' = Append(Outcome, x)
         /\ \A n \in 1 .. Emitted : events'[n] = events[n]
<1>1. PICK V : events \in Seq(V)
  BY DEF EventsInv
<1>2. events' = Append(events, x) /\ Leads(events, Emitted)
  BY DEF Send, EventsInv
<1>3. /\ \E W : events' \in Seq(W)
      /\ Leads(events', Emitted) /\ \A n \in 1 .. Emitted : events'[n] = events[n]
      /\ SubSeq(events', Emitted + 1, Len(events')) = Append(Outcome, x)
  BY <1>1, <1>2, OneMoreOutcome, ZenonT(60) DEF Outcome
<1>4. Emitted' = Emitted
  BY <1>3, LeadsIs DEF Emitted
<1> QED
  BY <1>3, <1>4 DEF Outcome

LEMMA OneLong ==
  ASSUME NEW V, NEW s \in Seq(V), Len(s) = 1, NEW x, s[1] = x
  PROVE  s = <<x>>
OBVIOUS

LEMMA TwoLong ==
  ASSUME NEW V, NEW s \in Seq(V), Len(s) = 2, NEW x, NEW y, s[1] = x, s[2] = y
  PROVE  s = <<x, y>>
<1>1. DOMAIN s = 1 .. 2 /\ DOMAIN <<x, y>> = 1 .. 2
  OBVIOUS
<1>2. \A i \in 1 .. 2 : s[i] = <<x, y>>[i]
  <2>1. \A i \in 1 .. 2 : i = 1 \/ i = 2
    OBVIOUS
  <2> QED
    BY <2>1
<1>3. s = [i \in 1 .. 2 |-> s[i]] /\ <<x, y>> = [i \in 1 .. 2 |-> <<x, y>>[i]]
  <2>1. s = [i \in DOMAIN s |-> s[i]]
    OBVIOUS
  <2>2. <<x, y>> = [i \in 1 .. 2 |-> <<x, y>>[i]]
    OBVIOUS
  <2> QED
    BY <1>1, <2>1, <2>2
<1> QED
  BY <1>2, <1>3

LEMMA Short ==
  ASSUME NEW x, NEW y
  PROVE  /\ <<>> \o <<x>> = <<x>> /\ <<x>> \o <<y>> = <<x, y>>
         /\ Append(<<>>, x) = <<x>> /\ Append(<<x>>, y) = <<x, y>>
         /\ Take(<<x>>, 1) = <<x>> /\ Take(<<x, y>>, 1) = <<x>> /\ Take(<<x, y>>, 2) = <<x, y>>
         /\ Len(<<x>>) = 1 /\ Len(<<x, y>>) = 2
<1> DEFINE V == {x, y}
<1>1. /\ <<x>> \in Seq(V) /\ <<y>> \in Seq(V) /\ <<x, y>> \in Seq(V) /\ <<>> \in Seq(V)
      /\ Len(<<x>>) = 1 /\ Len(<<y>>) = 1 /\ Len(<<x, y>>) = 2
  OBVIOUS
<1>2. /\ <<x>>[1] = x /\ <<y>>[1] = y /\ <<x, y>>[1] = x /\ <<x, y>>[2] = y
  OBVIOUS
<1> HIDE DEF V
<1>3. Append(<<>>, x) = <<x>> /\ <<>> \o <<x>> = <<x>>
  BY OneLong
<1>4. ASSUME NEW s \in Seq(V), Len(s) = 1, s[1] = x
      PROVE  /\ Append(s, y) = <<x, y>> /\ s \o <<y>> = <<x, y>>
             /\ SubSeq(s, 1, 1) = <<x>>
  <2>1. y \in V
    BY DEF V
  <2>2. Append(s, y) = <<x, y>>
    <3> DEFINE t == Append(s, y)
    <3>1. t \in Seq(V) /\ Len(t) = Len(s) + 1 /\ t[Len(s) + 1] = y
      BY <2>1
    <3>2. t[1] = s[1]
      <4>1. \A i \in 1 .. Len(s) : t[i] = s[i]
        BY <2>1
      <4> QED
        BY <1>4, <4>1
    <3> HIDE DEF t
    <3>3. Len(t) = 2 /\ t[1] = x /\ t[2] = y
      BY <1>4, <3>1, <3>2
    <3>4. t = <<x, y>>
      BY <3>1, <3>3, TwoLong, ZenonT(60)
    <3> QED
      BY <3>4 DEF t
  <2>3. ASSUME NEW r \in Seq(V), Len(r) = 1, r[1] = y PROVE s \o r = <<x, y>>
    <3> DEFINE t == s \o r
    <3>1. t \in Seq(V) /\ Len(t) = Len(s) + Len(r)
      OBVIOUS
    <3>2. t[1] = s[1]
      BY <1>4
    <3>3. t[2] = r[1]
      <4>1. \A i \in 1 .. Len(s) + Len(r) : i > Len(s) => t[i] = r[i - Len(s)]
        OBVIOUS
      <4>2. 2 \in 1 .. Len(s) + Len(r) /\ 2 > Len(s) /\ 2 - Len(s) = 1
        BY <1>4, <2>3
      <4> HIDE DEF t
      <4> QED
        BY <4>1, <4>2
    <3> HIDE DEF t
    <3>4. Len(t) = 2 /\ t[1] = x /\ t[2] = y
      BY <1>4, <2>3, <3>1, <3>2, <3>3
    <3>5. t = <<x, y>>
      <4>1. t \in Seq(V)
        BY <3>1
      <4> QED
        BY <4>1, <3>4, TwoLong
    <3> QED
      BY <3>5 DEF t
  <2>4. SubSeq(s, 1, 1) \in Seq(V) /\ Len(SubSeq(s, 1, 1)) = 1 /\ SubSeq(s, 1, 1)[1] = x
    BY <1>4
  <2>5. s \o <<y>> = <<x, y>>
    BY <1>1, <1>2, <2>3, Zenon
  <2>6. SubSeq(s, 1, 1) = <<x>>
    BY <2>4, OneLong, Zenon
  <2> QED
    BY <2>2, <2>5, <2>6
<1>5. ASSUME NEW s \in Seq(V), Len(s) = 2, s[1] = x, s[2] = y
      PROVE  SubSeq(s, 1, 1) = <<x>> /\ SubSeq(s, 1, 2) = <<x, y>>
  <2>1. SubSeq(s, 1, 1) \in Seq(V) /\ Len(SubSeq(s, 1, 1)) = 1 /\ SubSeq(s, 1, 1)[1] = x
    BY <1>5
  <2>2. /\ SubSeq(s, 1, 2) \in Seq(V) /\ Len(SubSeq(s, 1, 2)) = 2
        /\ SubSeq(s, 1, 2)[1] = x /\ SubSeq(s, 1, 2)[2] = y
    BY <1>5
  <2>3. SubSeq(s, 1, 1) = <<x>>
    BY <2>1, OneLong, Zenon
  <2>4. SubSeq(s, 1, 2) = <<x, y>>
    <3> DEFINE t == SubSeq(s, 1, 2)
    <3>1. t \in Seq(V) /\ Len(t) = 2 /\ t[1] = x /\ t[2] = y
      BY <2>2
    <3> HIDE DEF t
    <3>2. t \in Seq(V)
      BY <3>1
    <3>3. t = <<x, y>>
      BY <3>1, <3>2, TwoLong
    <3> QED
      BY <3>3 DEF t
  <2> QED
    BY <2>3, <2>4
<1>6. Append(<<x>>, y) = <<x, y>> /\ <<x>> \o <<y>> = <<x, y>> /\ SubSeq(<<x>>, 1, 1) = <<x>>
  BY <1>1, <1>2, <1>4, Zenon
<1>7. SubSeq(<<x, y>>, 1, 1) = <<x>> /\ SubSeq(<<x, y>>, 1, 2) = <<x, y>>
  BY <1>1, <1>2, <1>5, Zenon
<1>8. 1 <= 1 /\ 1 <= 2 /\ 2 <= 2
  OBVIOUS
<1>9. /\ Take(<<x>>, 1) = SubSeq(<<x>>, 1, 1) /\ Take(<<x, y>>, 1) = SubSeq(<<x, y>>, 1, 1)
      /\ Take(<<x, y>>, 2) = SubSeq(<<x, y>>, 1, 2)
  BY <1>1, <1>8, Zenon DEF Take
<1> QED
  BY <1>1, <1>3, <1>6, <1>7, <1>9, Zenon

LEMMA WholeIs ==
  /\ err # None => Whole = <<Event("error", err)>>
  /\ err = None /\ stream => Whole = <<Event("rewrite_queries", queries), Event("done", hits)>>
  /\ err = None /\ ~stream => Whole = <<Event("done", hits)>>
BY Short, Zenon DEF Whole

LEMMA FirstEventIs ==
  ASSUME RequestInv
  PROVE  /\ FirstEvent.event # "rewrite_query"
         /\ FirstEvent.event = "rewrite_queries" <=> (err = None /\ stream)
         /\ err = None /\ stream => FirstEvent = Event("rewrite_queries", queries)
         /\ ~(err = None /\ stream) => <<FirstEvent>> = Whole
<1>1. stream \in BOOLEAN
  BY DEF RequestInv, RequestOK
<1>2. CASE err # None
  <2>1. FirstEvent = Event("error", err)
    BY <1>2 DEF FirstEvent
  <2> QED
    BY <1>2, <2>1, WholeIs DEF Event
<1>3. CASE err = None /\ stream
  BY <1>3 DEF FirstEvent, Event
<1>4. CASE err = None /\ ~stream
  <2>1. FirstEvent = Event("done", hits)
    BY <1>4 DEF FirstEvent
  <2> QED
    BY <1>4, <2>1, WholeIs DEF Event
<1> QED
  BY <1>1, <1>2, <1>3, <1>4

LEMMA AnswerEvents == RequestInv /\ EventsInv /\ Answer => EventsInv'
<1> SUFFICES ASSUME RequestInv, EventsInv, Answer PROVE EventsInv'
  OBVIOUS
<1>1. pc = "answer" /\ UNCHANGED <<stream, queries, err, hits, client>>
  BY DEF Answer, requestVars, rewriteVars
<1>2. Len(events) = Emitted /\ Emitted \in Nat
  <2>1. PICK V : events \in Seq(V)
    BY DEF EventsInv
  <2> QED
    BY <1>1, <2>1 DEF EventsInv
<1>3. Outcome = <<>> /\ Len(Outcome) = 0
  <2>1. PICK V : events \in Seq(V)
    BY DEF EventsInv
  <2> QED
    BY <1>2, <2>1 DEF Outcome
<1>4. UNCHANGED Whole
  BY <1>1 DEF Whole
<1>5. CASE Send(FirstEvent) /\ pc' = IF FirstEvent.event = "rewrite_queries" THEN "finish" ELSE "answered"
  <2>1. /\ \E V : events' \in Seq(V)
        /\ Leads(events', Emitted') /\ Emitted' = Emitted /\ Outcome' = <<FirstEvent>>
    BY <1>3, <1>5, FirstEventIs, OutcomeSentIs, Short
  <2>2. CASE err = None /\ stream
    BY <1>1, <1>5, <2>1, <2>2, FirstEventIs DEF EventsInv
  <2>3. CASE ~(err = None /\ stream)
    <3>1. pc' = "answered" /\ Outcome' = Whole'
      BY <1>4, <1>5, <2>1, <2>3, FirstEventIs
    <3>2. Len(Outcome') = 1 /\ Take(Outcome', 1) = Outcome'
      BY <2>1, Short
    <3> QED
      BY <2>1, <3>1, <3>2 DEF EventsInv
  <2> QED
    BY <2>2, <2>3
<1>6. CASE client = "gone" /\ pc' = "answered" /\ UNCHANGED events
  <2>1. UNCHANGED <<Emitted, Outcome>> /\ client' = "gone"
    BY <1>1, <1>6, SameEvents
  <2>2. Take(Whole', 0) = <<>>
    BY DEF Take, Whole
  <2> QED
    BY <1>3, <1>6, <2>1, <2>2 DEF EventsInv
<1> QED
  BY <1>5, <1>6 DEF Answer

LEMMA FinishEvents == EventsInv /\ Finish => EventsInv'
<1> SUFFICES ASSUME EventsInv, Finish PROVE EventsInv'
  OBVIOUS
<1>1. pc = "finish" /\ pc' = "answered" /\ UNCHANGED <<stream, queries, err, hits, client>>
  BY DEF Finish, requestVars, rewriteVars
<1>2. Outcome = <<Event("rewrite_queries", queries)>> /\ stream /\ err = None
  BY <1>1 DEF EventsInv
<1>3. Whole' = <<Event("rewrite_queries", queries), Event("done", hits)>>
  <2>1. Whole = <<Event("rewrite_queries", queries), Event("done", hits)>> /\ UNCHANGED Whole
    BY <1>1, <1>2, WholeIs DEF Whole
  <2> QED
    BY <2>1
<1>4. CASE Send(Event("done", hits))
  <2>1. Event("done", hits).event # "rewrite_query"
    BY DEF Event
  <2>2. /\ \E V : events' \in Seq(V)
        /\ Leads(events', Emitted') /\ Emitted' = Emitted
        /\ Outcome' = Append(Outcome, Event("done", hits))
    BY <1>4, <2>1, OutcomeSentIs
  <2>3. Outcome' = Whole' /\ Len(Outcome') = 2 /\ Take(Whole', 2) = Whole'
    BY <1>2, <1>3, <2>2, Short
  <2> QED
    BY <1>1, <2>2, <2>3 DEF EventsInv
<1>5. CASE client = "gone" /\ UNCHANGED events
  <2>1. UNCHANGED <<Emitted, Outcome>> /\ client' = "gone"
    BY <1>1, <1>5, SameEvents
  <2>2. Len(Outcome) = 1 /\ Take(Whole', 1) = Outcome
    BY <1>2, <1>3, Short
  <2> QED
    BY <1>1, <1>5, <2>1, <2>2 DEF EventsInv
<1> QED
  BY <1>4, <1>5 DEF Finish

LEMMA AsideEvents ==
  ASSUME IInv, EventsInv,
         \/ Recall \/ Embed \/ Wait \/ Leave \/ UNCHANGED vars
         \/ \E i \in Paths : SearchVectors(i) \/ SearchByEntityKeys(i)
  PROVE  EventsInv'
<1>1. CASE Recall \/ Embed \/ Wait
  <2>1. UNCHANGED events /\ {pc, pc'} \cap {"finish", "answered"} = {}
    BY <1>1 DEF Recall, Embed, Wait, StartPaths, Fail
  <2> QED
    BY <2>1, SameEvents DEF EventsInv
<1>2. CASE \E i \in Paths : SearchVectors(i) \/ SearchByEntityKeys(i)
  <2>1. UNCHANGED <<events, pc>> /\ pc = "wait"
    BY <1>2 DEF SearchVectors, SearchByEntityKeys, IInv, PathsRun
  <2> QED
    BY <2>1, SameEvents DEF EventsInv
<1>3. CASE Leave
  <2>1. UNCHANGED <<events, pc, stream, err, queries>> /\ pc # "answered"
    BY <1>3 DEF Leave, requestVars, rewriteVars
  <2> QED
    BY <2>1, SameEvents DEF EventsInv
<1>4. CASE UNCHANGED vars
  <2>1. UNCHANGED <<events, pc, stream, err, queries, hits, client>>
    BY <1>4 DEF vars, requestVars, rewriteVars
  <2> QED
    BY <2>1, SameEvents DEF EventsInv, Whole
<1> QED
  BY <1>1, <1>2, <1>3, <1>4

LEMMA NextEvents == IInv /\ RequestInv /\ EventsInv /\ [Next]_vars => EventsInv'
BY RewriteEvents, AnswerEvents, FinishEvents, AsideEvents DEF Next, Serve

-----------------------------------------------------------------------------
(***************************************************************************)
(* The lines that were shown and the queries that are searched.            *)
(***************************************************************************)
Shown == [n \in 1 .. Emitted |-> events[n].data]

\* What is left of the first n lines of the answer.
KeptOf(n) == Take(Selection(answer, NotBlank(answer))[n], MaxPaths)

ShownInv ==
  stream /\ Plain(answer) => IF pc = "rewrite" THEN Shown = KeptOf(got)
                             ELSE queries \in {<<Original>>, Dedupe(Shown)}

LEMMA PlainParsed ==
  ASSUME NEW lines \in Seq(AllLines), Plain(lines)
  PROVE  Parsed(lines) = Take(Select(lines, NotBlank(lines)), MaxPaths)
<1>1. Len(lines) \in Nat /\ DOMAIN lines = 1 .. Len(lines)
  OBVIOUS
<1>2. StripCodeFence(lines) = lines
  <2>1. CASE lines = <<>>
    BY <2>1 DEF StripCodeFence
  <2>2. CASE lines # <<>>
    <3>1. 1 \in DOMAIN lines /\ Head(lines) = lines[1]
      BY <1>1, <2>2
    <3>2. Head(lines) # Fence
      BY <3>1 DEF Plain
    <3> QED
      BY <3>2 DEF StripCodeFence
  <2> QED
    BY <2>1, <2>2
<1>3. ~HasQueries(lines)
  BY DEF Plain
<1> QED
  BY <1>2, <1>3, Zenon DEF Parsed

LEMMA TakeMore ==
  ASSUME NEW V, NEW s \in Seq(V), NEW v \in V, NEW n \in Nat
  PROVE  /\ Len(Take(s, n)) < n => Take(Append(s, v), n) = Append(Take(s, n), v)
         /\ ~(Len(Take(s, n)) < n) => Take(Append(s, v), n) = Take(s, n)
<1> DEFINE more == Append(s, v)
<1>1. /\ more \in Seq(V) /\ Len(more) = Len(s) + 1 /\ Len(s) \in Nat
      /\ \A i \in 1 .. Len(s) : more[i] = s[i]
  OBVIOUS
<1> HIDE DEF more
<1>2. CASE Len(s) < n
  <2>1. Take(s, n) = s /\ Take(more, n) = more
    BY <1>1, <1>2 DEF Take
  <2> QED
    BY <1>2, <2>1 DEF more
<1>3. CASE ~(Len(s) < n)
  <2>1. n <= Len(s) /\ n <= Len(more)
    BY <1>1, <1>3
  <2>2. Take(s, n) = SubSeq(s, 1, n) /\ Take(more, n) = SubSeq(more, 1, n)
    BY <2>1 DEF Take
  <2>3. Len(Take(s, n)) = n
    <3>1. Len(Take(s, n)) <= n
      BY TakeIs
    <3>2. Len(Take(s, n)) = n \/ Take(s, n) = s
      BY TakeIs
    <3>3. Take(s, n) = s => Len(s) = n
      BY <1>1, <2>1, <3>1
    <3> QED
      BY <3>2, <3>3
  <2>4. SubSeq(more, 1, n) = SubSeq(s, 1, n)
    <3> DEFINE left  == SubSeq(more, 1, n)
               right == SubSeq(s, 1, n)
    <3>1. left \in Seq(V) /\ right \in Seq(V) /\ Len(left) = n /\ Len(right) = n
      BY <1>1, <2>1
    <3>2. \A i \in 1 .. n : left[i] = more[i] /\ right[i] = s[i] /\ more[i] = s[i]
      BY <1>1, <2>1
    <3> HIDE DEF left, right
    <3>3. left = right
      BY <3>1, <3>2
    <3> QED
      BY <3>3 DEF left, right
  <2>5. Take(more, n) = Take(s, n)
    BY <2>2, <2>4
  <2>6. ~(Len(Take(s, n)) < n)
    BY <2>3
  <2> QED
    BY <2>5, <2>6 DEF more
<1> QED
  BY <1>2, <1>3

LEMMA EmittedIs == EventsInv => /\ Emitted \in Nat /\ Emitted <= Len(events)
                                /\ \E V : events \in Seq(V)
<1> SUFFICES ASSUME EventsInv PROVE /\ Emitted \in Nat /\ Emitted <= Len(events)
                                    /\ \E V : events \in Seq(V)
  OBVIOUS
<1>1. PICK V : events \in Seq(V)
  BY DEF EventsInv
<1>2. Emitted \in 0 .. Len(events) /\ Len(events) \in Nat
  BY <1>1 DEF EventsInv, Leads
<1> QED
  BY <1>1, <1>2

\* One more line of the answer, and what is sent of it.
LEMMA LineShown ==
  ASSUME RequestInv, EventsInv, Plain(answer), Len(events) = Emitted, got < Len(answer),
         Shown = KeptOf(got),
         IF Streams(answer[got + 1]) THEN Send(Event("rewrite_query", answer[got + 1]))
                                     ELSE UNCHANGED events,
         UNCHANGED answer
  PROVE  Shown' = KeptOf(got + 1)
<1> DEFINE kept == Selection(answer, NotBlank(answer))
           line == answer[got + 1]
<1>1. answer \in Seq(AllLines) /\ Len(answer) \in Nat /\ DOMAIN answer = 1 .. Len(answer)
  BY AnswerAssumption DEF RequestInv
<1>2. got \in 0 .. Len(answer) /\ got + 1 \in 1 .. Len(answer) /\ got + 1 - 1 = got
  BY <1>1 DEF RequestInv
<1>3. line \in AllLines /\ line \notin JSONLines
  BY <1>1, <1>2 DEF Plain
<1>4. NotBlank(answer) \in SUBSET (1 .. Len(answer)) /\ (got + 1 \in NotBlank(answer) <=> line # Blank)
  BY <1>1, <1>2 DEF NotBlank
<1>5. kept[got + 1] = IF line # Blank THEN Append(kept[got], line) ELSE kept[got]
  <2>1. kept[got + 1] = IF got + 1 \in NotBlank(answer)
                        THEN Append(kept[got + 1 - 1], answer[got + 1]) ELSE kept[got + 1 - 1]
    <3>1. \A n \in 1 .. Len(answer) :
            kept[n] = IF n \in NotBlank(answer) THEN Append(kept[n - 1], answer[n]) ELSE kept[n - 1]
      BY <1>1, SelectionSteps
    <3> HIDE DEF kept
    <3> QED
      BY <1>2, <3>1
  <2> QED
    BY <1>2, <1>4, <2>1
<1>6. kept[got] \in Seq(AllLines)
  BY <1>1, <1>2, <1>4, SelectionIs
<1>7. Shown = Take(kept[got], MaxPaths) /\ KeptOf(got + 1) = Take(kept[got + 1], MaxPaths)
  BY DEF KeptOf
<1>8. Emitted \in Nat /\ Len(Shown) = Emitted
  BY EmittedIs DEF Shown
<1>9. Shown \in Seq(AllLines)
  BY <1>6, <1>7, Caps, TakeIs
<1>10. Streams(line) <=> line # Blank /\ Len(Take(kept[got], MaxPaths)) < MaxPaths
  BY <1>3, <1>7, <1>8 DEF Streams
<1> HIDE DEF kept, line
<1>11. CASE Streams(line)
  <2>1. Send(Event("rewrite_query", line))
    BY <1>11 DEF line
  <2>2. Emitted' = Emitted + 1 /\ events' = Append(events, Event("rewrite_query", line))
    BY <2>1, LineSentIs
  <2>3. PICK V : events \in Seq(V)
    BY DEF EventsInv
  <2>4. Shown' = Append(Shown, line)
    <3> DEFINE x == Event("rewrite_query", line)
    <3>1. x.data = line
      BY DEF Event
    <3> HIDE DEF x
    <3>2. /\ \A n \in 1 .. Emitted : events'[n] = events[n]
          /\ events'[Emitted + 1] = x
      BY <1>8, <2>2, <2>3 DEF x
    <3>3. Shown' = [n \in 1 .. Emitted + 1 |-> events'[n].data]
      BY <2>2 DEF Shown
    <3>4. ASSUME NEW n \in 1 .. Emitted + 1 PROVE events'[n].data = Append(Shown, line)[n]
      <4>1. CASE n = Emitted + 1
        BY <1>3, <1>8, <1>9, <3>1, <3>2, <4>1
      <4>2. CASE n # Emitted + 1
        <5>1. n \in 1 .. Emitted
          BY <1>8, <4>2
        <5>2. Append(Shown, line)[n] = Shown[n]
          BY <1>3, <1>8, <1>9, <5>1
        <5>3. Shown[n] = events[n].data
          BY <5>1 DEF Shown
        <5> QED
          BY <3>2, <5>1, <5>2, <5>3
      <4> QED
        BY <4>1, <4>2
    <3>5. Append(Shown, line) = [n \in 1 .. Emitted + 1 |-> Append(Shown, line)[n]]
      <4> DEFINE t == Append(Shown, line)
      <4>1. t \in Seq(AllLines) /\ Len(t) = Len(Shown) + 1
        BY <1>3, <1>9
      <4> HIDE DEF t
      <4>2. DOMAIN t = 1 .. Emitted + 1 /\ t = [n \in DOMAIN t |-> t[n]]
        BY <1>8, <4>1
      <4>3. t = [n \in 1 .. Emitted + 1 |-> t[n]]
        BY <4>2
      <4> QED
        BY <4>3 DEF t
    <3> QED
      BY <3>3, <3>4, <3>5
  <2>5. Take(kept[got + 1], MaxPaths) = Append(Shown, line)
    BY <1>3, <1>5, <1>6, <1>7, <1>10, <1>11, Caps, TakeMore
  <2> QED
    BY <1>7, <2>4, <2>5
<1>12. CASE ~Streams(line)
  <2>1. UNCHANGED events
    BY <1>12 DEF line
  <2>2. Shown' = Shown
    BY <2>1, SameEvents DEF Shown
  <2>3. CASE line = Blank
    BY <1>5, <1>7, <2>2, <2>3
  <2>4. CASE line # Blank
    <3>1. ~(Len(Take(kept[got], MaxPaths)) < MaxPaths)
      BY <1>10, <1>12, <2>4
    <3>2. Take(Append(kept[got], line), MaxPaths) = Take(kept[got], MaxPaths)
      BY <1>3, <1>6, <3>1, Caps, TakeMore
    <3> QED
      BY <1>5, <1>7, <2>2, <2>4, <3>2
  <2> QED
    BY <2>3, <2>4
<1> QED
  BY <1>7, <1>11, <1>12

LEMMA InitShown == Init => ShownInv
<1> SUFFICES ASSUME Init PROVE ShownInv
  OBVIOUS
<1>1. answer \in Seq(AllLines) /\ got = 0 /\ pc = "rewrite"
  BY AnswerAssumption DEF Init
<1>2. Selection(answer, NotBlank(answer))[0] = <<>>
  BY <1>1, SelectionSteps
<1>3. KeptOf(0) = <<>>
  BY <1>2, Caps DEF KeptOf, Take
<1>4. Emitted = 0
  <2>1. events = <<>>
    BY DEF Init
  <2> QED
    BY <2>1, InitEvents, EmittedIs
<1>5. Shown = <<>>
  BY <1>4 DEF Shown
<1> QED
  BY <1>1, <1>3, <1>5 DEF ShownInv

LEMMA RewriteShown == RequestInv /\ EventsInv /\ ShownInv /\ Rewrite => ShownInv'
<1> SUFFICES ASSUME RequestInv, EventsInv, ShownInv, Rewrite PROVE ShownInv'
  OBVIOUS
<1>1. UNCHANGED <<stream, answer>>
  BY DEF Rewrite, StreamLine, StreamEnds, Complete, RewriteFails, requestVars
<1> SUFFICES ASSUME stream, Plain(answer)
             PROVE  IF pc' = "rewrite" THEN Shown' = KeptOf(got)'
                    ELSE queries' \in {<<Original>>, Dedupe(Shown')}
  BY <1>1 DEF ShownInv, Plain
<1>2. pc = "rewrite" /\ Shown = KeptOf(got) /\ Len(events) = Emitted /\ UNCHANGED answer
  BY <1>1 DEF Rewrite, StreamLine, StreamEnds, Complete, RewriteFails, ShownInv, EventsInv
<1>3. answer \in Seq(AllLines) /\ got \in 0 .. Len(answer) /\ Len(answer) \in Nat
  BY AnswerAssumption DEF RequestInv
<1>4. CASE pc' = "rewrite"
  <2>1. /\ got < Len(answer) /\ got' = got + 1
        /\ IF Streams(answer[got + 1]) THEN Send(Event("rewrite_query", answer[got + 1]))
                                       ELSE UNCHANGED events
    BY <1>4, Zenon DEF Rewrite, StreamLine, StreamEnds, Complete, RewriteFails, FallBack
  <2>2. Shown' = KeptOf(got + 1)
    BY <1>2, <2>1, LineShown
  <2>3. KeptOf(got)' = KeptOf(got + 1)
    BY <1>2, <2>1 DEF KeptOf
  <2> QED
    BY <1>4, <2>2, <2>3
<1>5. CASE FallBack
  BY <1>5 DEF FallBack
<1>6. CASE /\ pc' # "rewrite"
           /\ Len(answer) - got <= 1 /\ queries' = Rewritten(answer)
           /\ IF got < Len(answer) /\ Streams(answer[Len(answer)])
              THEN Send(Event("rewrite_query", answer[Len(answer)]))
              ELSE UNCHANGED events
  <2>1. Shown' = KeptOf(Len(answer))
    <3>1. CASE got = Len(answer)
      <4>1. UNCHANGED events
        BY <1>3, <1>6, <3>1
      <4> QED
        BY <1>2, <3>1, <4>1, SameEvents DEF Shown
    <3>2. CASE got # Len(answer)
      <4>1. got < Len(answer) /\ got + 1 = Len(answer)
        BY <1>3, <1>6, <3>2
      <4> QED
        BY <1>2, <1>6, <4>1, LineShown
    <3> QED
      BY <3>1, <3>2
  <2>2. Parsed(answer) = KeptOf(Len(answer))
    BY <1>3, PlainParsed DEF KeptOf, Select
  <2> QED
    BY <1>6, <2>1, <2>2 DEF Rewritten
<1> QED
  BY <1>4, <1>5, <1>6, Zenon DEF Rewrite, StreamLine, StreamEnds, Complete, RewriteFails

LEMMA NextShown == IInv /\ RequestInv /\ EventsInv /\ ShownInv /\ [Next]_vars => ShownInv'
<1> SUFFICES ASSUME IInv, RequestInv, EventsInv, ShownInv, [Next]_vars PROVE ShownInv'
  OBVIOUS
<1>1. CASE Rewrite
  BY <1>1, RewriteShown
<1>2. ASSUME UNCHANGED <<stream, answer, queries, Shown>>,
             (pc # "rewrite" /\ pc' # "rewrite") \/ UNCHANGED <<pc, got>>
      PROVE  ShownInv'
  BY <1>2 DEF ShownInv, Plain, KeptOf
<1>3. UNCHANGED events => UNCHANGED Shown
  BY SameEvents DEF Shown
<1>4. CASE Recall \/ Embed \/ Wait \/ Leave \/ UNCHANGED vars
  BY <1>2, <1>3, <1>4 DEF Recall, Embed, Wait, Leave, StartPaths, Fail, vars, requestVars, rewriteVars
<1>5. CASE \E i \in Paths : SearchVectors(i) \/ SearchByEntityKeys(i)
  BY <1>2, <1>3, <1>5 DEF SearchVectors, SearchByEntityKeys, requestVars, rewriteVars
<1>6. CASE Answer \/ Finish
  <2>1. /\ UNCHANGED <<stream, answer, queries>> /\ pc # "rewrite" /\ pc' # "rewrite"
        /\ UNCHANGED events \/ Send(FirstEvent) \/ Send(Event("done", hits))
    BY <1>6 DEF Answer, Finish, requestVars, rewriteVars
  <2>2. ASSUME NEW x, Send(x), x.event # "rewrite_query" PROVE UNCHANGED Shown
    <3>1. Emitted' = Emitted /\ \A n \in 1 .. Emitted : events'[n] = events[n]
      BY <2>2, OutcomeSentIs
    <3> QED
      BY <3>1 DEF Shown
  <2>3. Event("done", hits).event # "rewrite_query" /\ FirstEvent.event # "rewrite_query"
    BY FirstEventIs DEF Event
  <2> QED
    BY <1>2, <1>3, <2>1, <2>2, <2>3
<1> QED
  BY <1>1, <1>4, <1>5, <1>6 DEF Next, Serve

-----------------------------------------------------------------------------
SearchInv == IInv /\ RequestInv /\ HitsInv /\ EventsInv /\ ShownInv

THEOREM SearchInvariant == Spec => []SearchInv
<1>1. Init => SearchInv
  BY InitInv, InitRequest, InitHits, InitEvents, InitShown DEF SearchInv
<1>2. SearchInv /\ [Next]_vars => SearchInv'
  BY NextInv, NextRequest, NextHits, NextEvents, NextShown DEF SearchInv
<1> QED
  BY <1>1, <1>2, PTL DEF Spec

(***************************************************************************)
(* Between one and MaxPaths queries are searched, no more lines than that  *)
(* are streamed, and the state is what it should be.                       *)
(***************************************************************************)
THEOREM TypeCorrect == Spec => []TypeOK
<1>1. SearchInv => TypeOK
  BY DEF SearchInv, IInv, RequestInv, EventsInv, TypeOK
<1> QED
  BY SearchInvariant, <1>1, PTL

(***************************************************************************)
(* The answer is the merge of the lists in the order of the queries,       *)
(* whatever order the goroutines came back in, each chunk once and where   *)
(* the first query that found it has it, and short only when there is no   *)
(* more: MergedCap never cuts what top_k would not have.                   *)
(***************************************************************************)
THEOREM AnswerIsMergeHolds == Spec => []AnswerIsMerge
<1>1. SearchInv => AnswerIsMerge
  BY AnswerInv DEF SearchInv
<1> QED
  BY SearchInvariant, <1>1, PTL

(***************************************************************************)
(* What the list of a query says of a chunk's source is true, nothing that *)
(* Milvus returned is displaced by Elasticsearch, and a list with room     *)
(* left has everything the two found.                                      *)
(***************************************************************************)
THEOREM SourcesAreTrueHolds == Spec => []SourcesAreTrue
<1>1. SearchInv => SourcesAreTrue
  BY SourcesInv DEF SearchInv
<1> QED
  BY SearchInvariant, <1>1, PTL

(***************************************************************************)
(* The lines a client was shown while the model answered are the queries   *)
(* that are searched, but for repetitions, or the question itself is.      *)
(***************************************************************************)
THEOREM StreamedAreSearchedHolds == Spec => []StreamedAreSearched
<1>1. SearchInv => StreamedAreSearched
  BY DEF SearchInv, ShownInv, Shown, Plain, StreamedAreSearched
<1> QED
  BY SearchInvariant, <1>1, PTL

(***************************************************************************)
(* The client sees lines, then one outcome, in order; and the whole of it  *)
(* when it has stayed.                                                     *)
(***************************************************************************)
THEOREM OneOutcomeHolds == Spec => []OneOutcome
<1>1. RequestInv /\ EventsInv => OneOutcome
  <2> SUFFICES ASSUME RequestInv, EventsInv
               PROVE  /\ \A n \in 1 .. Emitted : events[n].event = "rewrite_query"
                      /\ Outcome = Take(Whole, Len(Outcome))
                      /\ pc = "answered" /\ client = "here" => Outcome = Whole
    BY Zenon DEF OneOutcome, Outcome, Whole
  <2>1. \A n \in 1 .. Emitted : events[n].event = "rewrite_query"
    <3>1. Emitted \in Nat /\ Len(events) \in Nat /\ Emitted <= Len(events)
      BY EmittedIs
    <3>2. ASSUME NEW n \in 1 .. Emitted PROVE n \in 1 .. Len(events) /\ n <= Emitted
      BY <3>1
    <3> QED
      BY <3>2 DEF EventsInv, Leads
  <2>2. Outcome = Take(Whole, Len(Outcome))
    <3>1. CASE pc \notin {"finish", "answered"}
      <4>1. Len(events) = Emitted /\ Emitted \in Nat /\ \E V : events \in Seq(V)
        BY <3>1, EmittedIs DEF EventsInv
      <4>2. Outcome = <<>> /\ Len(Outcome) = 0
        BY <4>1 DEF Outcome
      <4>3. Take(Whole, 0) = <<>>
        BY DEF Take, Whole
      <4> QED
        BY <4>2, <4>3
    <3>2. CASE pc = "finish"
      <4>1. Outcome = <<Event("rewrite_queries", queries)>> /\ err = None /\ stream
        BY <3>2 DEF EventsInv
      <4> QED
        BY <4>1, WholeIs, Short
    <3>3. CASE pc = "answered"
      BY <3>3 DEF EventsInv
    <3> QED
      BY <3>1, <3>2, <3>3
  <2> QED
    BY <2>1, <2>2 DEF EventsInv
<1> QED
  BY SearchInvariant, <1>1, PTL DEF SearchInv
=============================================================================
