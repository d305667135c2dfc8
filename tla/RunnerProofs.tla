--------------------------- MODULE RunnerProofs ----------------------------
(***************************************************************************)
(* Proofs about Runner, for any number of processes, goroutines and files: *)
(* the ensure of the collection; then what the files that are written      *)
(* leave in the stores, and what their failures are due to.                *)
(***************************************************************************)
EXTENDS Runner, Induction, FiniteSetTheorems, FunctionTheorems

\* The part of the state that making the collection ready is about.
EnsureOK ==
  /\ collection \in {"absent", "created", "indexed", "loaded"}
  /\ dropped \in BOOLEAN
  /\ mutex \in [Procs -> Goroutines \cup {None}]
  /\ ensured \in [Procs -> BOOLEAN]
  /\ pc \in [Goroutines -> Calls]

IInv == EnsureOK /\ OneEnsures /\ FlagIsHonest

ensureVars == <<collection, dropped, mutex, ensured>>

LEMMA InitInv == Init => IInv
<1> SUFFICES ASSUME Init PROVE IInv
  OBVIOUS
<1>1. EnsureOK
  BY DEF Init, EnsureOK, Calls, Goroutines
<1>2. OneEnsures
  BY GoroutineAssumption DEF Init, OneEnsures, Body, Goroutines, Proc
<1>3. FlagIsHonest
  BY DEF Init, FlagIsHonest
<1> QED
  BY <1>1, <1>2, <1>3 DEF IInv

-----------------------------------------------------------------------------
(***************************************************************************)
(* A step that leaves the collection alone, and takes its goroutine from   *)
(* one call outside the mutex to another.                                  *)
(***************************************************************************)
LEMMA OutsideInv ==
  ASSUME IInv, NEW g \in Goroutines, pc[g] \notin Body,
         NEW call \in Calls \ Body, Goto(g, call), UNCHANGED ensureVars
  PROVE  IInv'
<1>1. EnsureOK'
  BY DEF IInv, EnsureOK, Goto, ensureVars
<1>2. OneEnsures'
  BY DEF IInv, EnsureOK, OneEnsures, Goto, ensureVars, Proc
<1>3. FlagIsHonest'
  BY DEF IInv, FlagIsHonest, ensureVars
<1> QED
  BY <1>1, <1>2, <1>3 DEF IInv

\* Taking the mutex, and giving it back.
LEMMA LockInv == ASSUME IInv, NEW g \in Goroutines, Lock(g) PROVE IInv'
<1>1. pc[g] = "Lock" /\ mutex[Proc(g)] = None /\ Proc(g) \in Procs
  BY GoroutineAssumption DEF Lock, Proc
<1>2. AfterEnsure(g) \in Calls \ Body
  BY DEF AfterEnsure, Calls, Body
<1>3. CASE Goto(g, AfterEnsure(g)) /\ UNCHANGED mutex
  <2>1. UNCHANGED ensureVars
    BY <1>3 DEF Lock, ensureVars, milvusVars
  <2> QED
    BY <1>1, <1>2, <1>3, <2>1, OutsideInv DEF Body
<1>4. CASE Goto(g, "HasCollection") /\ mutex' = [mutex EXCEPT ![Proc(g)] = g]
  <2>1. UNCHANGED <<collection, dropped, ensured>>
    BY DEF Lock, milvusVars
  <2>2. EnsureOK'
    BY <1>1, <1>4, <2>1 DEF IInv, EnsureOK, Goto, Calls, Body
  <2>3. OneEnsures'
    BY <1>1, <1>4, <2>1, GoroutineAssumption DEF IInv, EnsureOK, OneEnsures, Goto, Body, Proc
  <2>4. FlagIsHonest'
    BY <2>1 DEF IInv, FlagIsHonest
  <2> QED
    BY <2>2, <2>3, <2>4 DEF IInv
<1> QED
  BY <1>3, <1>4 DEF Lock

LEMMA UnlockInv ==
  ASSUME IInv, NEW g \in Goroutines, pc[g] \in Body, NEW ready \in BOOLEAN, Unlock(g, ready),
         NEW call \in Calls \ Body, Goto(g, call),
         collection' \in {"absent", "created", "indexed", "loaded"}, UNCHANGED dropped,
         ready => collection' = "loaded",
         collection = "loaded" => collection' = "loaded"
  PROVE  IInv'
<1>1. Proc(g) \in Procs /\ mutex[Proc(g)] = g
  BY GoroutineAssumption DEF IInv, OneEnsures, Proc
<1>2. EnsureOK'
  BY <1>1 DEF IInv, EnsureOK, Unlock, Goto
<1>3. OneEnsures'
  BY <1>1, GoroutineAssumption DEF IInv, EnsureOK, OneEnsures, Unlock, Goto, Proc
<1>4. FlagIsHonest'
  BY <1>1 DEF IInv, EnsureOK, FlagIsHonest, Unlock
<1> QED
  BY <1>2, <1>3, <1>4 DEF IInv

\* A call under the mutex that succeeds and is followed by another.
LEMMA InsideInv ==
  ASSUME IInv, NEW g \in Goroutines, pc[g] \in Body, NEW call \in Body, Goto(g, call),
         UNCHANGED <<dropped, flagVars>>,
         collection' \in {"absent", "created", "indexed", "loaded"},
         collection = "loaded" => collection' = "loaded"
  PROVE  IInv'
<1>1. EnsureOK'
  BY DEF IInv, EnsureOK, Goto, flagVars, Calls
<1>2. OneEnsures'
  BY DEF IInv, EnsureOK, OneEnsures, Goto, flagVars, Proc
<1>3. FlagIsHonest'
  BY DEF IInv, FlagIsHonest, flagVars
<1> QED
  BY <1>1, <1>2, <1>3 DEF IInv

LEMMA EnsureInv == ASSUME IInv, NEW g \in Goroutines, EnsureCollection(g) PROVE IInv'
<1>1. CASE Lock(g)
  BY <1>1, LockInv
<1>2. CASE HasCollection(g) \/ CreateCollection(g) \/ DescribeIndex(g) \/ CreateIndex(g)
  <2>1. pc[g] \in Body /\ \E call \in Body : Goto(g, call)
    BY <1>2 DEF HasCollection, CreateCollection, DescribeIndex, CreateIndex, Body
  <2>2. UNCHANGED <<dropped, flagVars>>
    BY <1>2 DEF HasCollection, CreateCollection, DescribeIndex, CreateIndex, milvusVars
  <2>3. /\ collection' \in {"absent", "created", "indexed", "loaded"}
        /\ collection = "loaded" => collection' = "loaded"
    BY <1>2 DEF HasCollection, CreateCollection, DescribeIndex, CreateIndex, milvusVars, IInv,
                EnsureOK
  <2> QED
    BY <2>1, <2>2, <2>3, InsideInv
<1>3. CASE LoadCollection(g)
  <2>1. AfterEnsure(g) \in Calls \ Body
    BY DEF AfterEnsure, Calls, Body
  <2> QED
    BY <1>3, <2>1, UnlockInv DEF LoadCollection, Body
<1>4. CASE EnsureFails(g)
  <2>1. "failed" \in Calls \ Body /\ pc[g] \in Body
    BY <1>4 DEF EnsureFails, Calls, Body
  <2>2. UNCHANGED <<collection, dropped>> /\ Unlock(g, FALSE) /\ Goto(g, "failed")
    BY <1>4 DEF EnsureFails, milvusVars
  <2> QED
    BY <2>1, <2>2, UnlockInv DEF IInv, EnsureOK
<1> QED
  BY <1>1, <1>2, <1>3, <1>4 DEF EnsureCollection

\* What a worker does outside ensureCollection.
LEMMA WriteInv == ASSUME IInv, NEW w \in Workers, WriteFile(w) PROVE IInv'
<1>1. w \in Goroutines
  BY DEF Goroutines
<1>2. CASE Invalidate(w)
  <2>1. pc[w] = "Invalidate" /\ Goto(w, "Lock") /\ UNCHANGED <<collection, dropped, mutex>>
    BY <1>2 DEF Invalidate, milvusVars
  <2>2. ensured' = [ensured EXCEPT ![Proc(w)] = FALSE]
    BY <1>2 DEF Invalidate, Invalidated
  <2>3. EnsureOK'
    BY <1>1, <2>1, <2>2 DEF IInv, EnsureOK, Goto, Calls
  <2>4. OneEnsures'
    BY <1>1, <2>1 DEF IInv, EnsureOK, OneEnsures, Goto, Body, Proc
  <2>5. FlagIsHonest'
    BY <2>1, <2>2 DEF IInv, EnsureOK, FlagIsHonest
  <2> QED
    BY <2>3, <2>4, <2>5 DEF IInv
<1>3. CASE Start(w) \/ NextBatch(w) \/ Embed(w) \/ EmbedFails(w)
  <2>1. pc[w] \notin Body /\ UNCHANGED ensureVars
    BY <1>3 DEF Start, NextBatch, Embed, EmbedFails, Body, ensureVars, milvusVars, flagVars
  <2>2. \E call \in Calls \ Body : Goto(w, call)
    BY <1>3 DEF Start, NextBatch, Embed, EmbedFails, Calls, Body
  <2> QED
    BY <1>1, <2>1, <2>2, OutsideInv
<1>4. CASE HasPartition(w) \/ CreatePartition(w)
  <2>1. pc[w] \notin Body /\ UNCHANGED ensureVars
    BY <1>4 DEF HasPartition, CreatePartition, Body, ensureVars, milvusVars, flagVars
  <2>2. \E call \in Calls \ Body : Goto(w, call)
    BY <1>4 DEF HasPartition, CreatePartition, AfterPartition, Calls, Body
  <2> QED
    BY <1>1, <2>1, <2>2, OutsideInv
<1>5. CASE Upsert(w) \/ UpsertFails(w) \/ Bulk(w) \/ BulkFails(w)
  <2>1. pc[w] \notin Body /\ UNCHANGED ensureVars
    BY <1>5 DEF Upsert, UpsertFails, Bulk, BulkFails, Body, ensureVars, milvusVars, flagVars
  <2>2. \E call \in Calls \ Body : Goto(w, call)
    BY <1>5 DEF Upsert, UpsertFails, Bulk, BulkFails, Calls, Body
  <2> QED
    BY <1>1, <2>1, <2>2, OutsideInv
<1> QED
  BY <1>2, <1>3, <1>4, <1>5 DEF WriteFile

\* Once the collection is dropped the flags claim nothing.
LEMMA DropInv == IInv /\ Drop => IInv'
BY DEF IInv, EnsureOK, OneEnsures, FlagIsHonest, Drop, flagVars

LEMMA StutterInv == IInv /\ UNCHANGED vars => IInv'
BY DEF IInv, EnsureOK, OneEnsures, FlagIsHonest, vars, milvusVars, flagVars

\* Every step of every goroutine, and the drop, keeps the invariant.
THEOREM NextInv == IInv /\ [Next]_vars => IInv'
BY EnsureInv, WriteInv, DropInv, StutterInv DEF Next

\* The mutex and the flag of each process, whatever the goroutines do.
THEOREM InductiveInvariant == Spec => []IInv
BY InitInv, NextInv, PTL DEF Spec

(***************************************************************************)
(* One goroutine of a process at most makes the collection ready, and no   *)
(* path out of it, with an error or without, keeps the mutex.              *)
(***************************************************************************)
THEOREM EnsuresAlone == Spec => []OneEnsures
<1>1. IInv => OneEnsures
  BY DEF IInv
<1> QED
  BY InductiveInvariant, <1>1, PTL

\* Until the collection is dropped the flag of a process tells the truth.
THEOREM FlagTellsTheTruth == Spec => []FlagIsHonest
<1>1. IInv => FlagIsHonest
  BY DEF IInv
<1> QED
  BY InductiveInvariant, <1>1, PTL

-----------------------------------------------------------------------------
(***************************************************************************)
(* Slices, batches and requests.                                           *)
(***************************************************************************)
LEMMA SliceIs ==
  ASSUME NEW S, NEW s \in Seq(S), NEW k \in 0 .. Len(s), NEW n \in Nat
  PROVE  /\ Slice(s, k, n) \in Seq(S)
         /\ Len(Slice(s, k, n)) = IF k + n <= Len(s) THEN n ELSE Len(s) - k
         /\ \A i \in 1 .. Len(Slice(s, k, n)) : Slice(s, k, n)[i] = s[k + i]
<1> DEFINE last == IF k + n <= Len(s) THEN k + n ELSE Len(s)
<1>1. /\ Len(s) \in Nat /\ k + 1 \in Int /\ last \in Int
      /\ last - (k + 1) + 1 = last - k
      /\ k + 1 <= last \/ last = k
  OBVIOUS
<1>2. \A i \in k + 1 .. last : s[i] \in S
  BY <1>1
<1>3. /\ SubSeq(s, k + 1, last) \in Seq(S)
      /\ Len(SubSeq(s, k + 1, last)) = IF k + 1 <= last THEN last - (k + 1) + 1 ELSE 0
      /\ \A i \in 1 .. last - (k + 1) + 1 : SubSeq(s, k + 1, last)[i] = s[k + 1 + i - 1]
  BY <1>1, <1>2, SubSeqProperties
<1>4. Slice(s, k, n) = SubSeq(s, k + 1, last)
  BY DEF Slice
<1> HIDE DEF last
<1>5. ASSUME NEW i \in 1 .. last - k PROVE SubSeq(s, k + 1, last)[i] = s[k + i]
  <2>1. i \in 1 .. last - (k + 1) + 1 /\ k + 1 + i - 1 = k + i
    BY <1>1
  <2> QED
    BY <1>3, <2>1
<1>6. Len(SubSeq(s, k + 1, last)) = last - k
  BY <1>1, <1>3
<1>7. last - k = IF k + n <= Len(s) THEN n ELSE Len(s) - k
  BY <1>1 DEF last
<1> QED
  BY <1>3, <1>4, <1>5, <1>6, <1>7

LEMMA RowsAre ==
  ASSUME NEW w \in Workers
  PROVE  /\ RowsOf[w] \in Seq(Rows) /\ Len(RowsOf[w]) \in Nat
         /\ DOMAIN RowsOf[w] = 1 .. Len(RowsOf[w])
         /\ \A i \in 1 .. Len(RowsOf[w]) :
              /\ RowsOf[w][i] \in Rows /\ IsRow(RowsOf[w][i])
              /\ RowsOf[w][i].text \in Contents /\ RowsOf[w][i].keys \subseteq Keys
<1>1. RowsOf[w] \in Seq(Rows) /\ Len(RowsOf[w]) \in Nat
      /\ DOMAIN RowsOf[w] = 1 .. Len(RowsOf[w])
  BY FileAssumption
<1>2. ASSUME NEW i \in 1 .. Len(RowsOf[w])
      PROVE  /\ RowsOf[w][i] \in Rows /\ IsRow(RowsOf[w][i])
             /\ RowsOf[w][i].text \in Contents /\ RowsOf[w][i].keys \subseteq Keys
  <2>1. RowsOf[w][i] \in Rows
    BY <1>1
  <2> QED
    BY <2>1, FileAssumption DEF Contents, Keys
<1> QED
  BY <1>1, <1>2

\* The rows of a batch that starts after k rows of the file.
LEMMA BatchAt ==
  ASSUME NEW w \in Workers, NEW k \in 0 .. Len(RowsOf[w]),
         NEW b, b = Slice(RowsOf[w], k, MaxBatch)
  PROVE  /\ b \in Seq(Rows) /\ Len(b) \in Nat /\ DOMAIN b = 1 .. Len(b)
         /\ k + Len(b) <= Len(RowsOf[w])
         /\ k + Len(b) = Len(RowsOf[w]) \/ Len(b) = MaxBatch
         /\ \A i \in 1 .. Len(b) :
              /\ b[i] = RowsOf[w][k + i] /\ k + i \in 1 .. Len(RowsOf[w])
              /\ b[i] \in Rows /\ IsRow(b[i])
              /\ b[i].text \in Contents /\ b[i].keys \subseteq Keys
<1>1. /\ RowsOf[w] \in Seq(Rows) /\ Len(RowsOf[w]) \in Nat
      /\ \A i \in 1 .. Len(RowsOf[w]) :
              /\ RowsOf[w][i] \in Rows /\ IsRow(RowsOf[w][i])
              /\ RowsOf[w][i].text \in Contents /\ RowsOf[w][i].keys \subseteq Keys
  BY RowsAre
<1>2. MaxBatch \in Nat
  BY BatchAssumption DEF Batches
<1>3. /\ b \in Seq(Rows)
      /\ Len(b) = IF k + MaxBatch <= Len(RowsOf[w]) THEN MaxBatch ELSE Len(RowsOf[w]) - k
      /\ \A i \in 1 .. Len(b) : b[i] = RowsOf[w][k + i]
  BY <1>1, <1>2, SliceIs, ZenonT(60)
<1>4. /\ Len(b) \in Nat /\ DOMAIN b = 1 .. Len(b)
      /\ k + Len(b) <= Len(RowsOf[w])
      /\ k + Len(b) = Len(RowsOf[w]) \/ Len(b) = MaxBatch
  BY <1>1, <1>2, <1>3
<1>5. ASSUME NEW i \in 1 .. Len(b) PROVE k + i \in 1 .. Len(RowsOf[w]) /\ b[i] = RowsOf[w][k + i]
  BY <1>1, <1>3, <1>4
<1> QED
  BY <1>1, <1>3, <1>4, <1>5

\* The rows of a request, which starts after n rows of the batch.
LEMMA RequestIs ==
  ASSUME TypeOK, NEW w \in Workers
  PROVE  /\ Request(w) \in Seq(Rows) /\ DOMAIN Request(w) = 1 .. Len(Request(w))
         /\ Len(Request(w)) \in Nat /\ put[w] + Len(Request(w)) <= Len(Batch(w))
         /\ \A i \in 1 .. Len(Request(w)) :
              /\ Request(w)[i] = Batch(w)[put[w] + i]
              /\ put[w] + i \in 1 .. Len(Batch(w))
<1>1. sent[w] \in 0 .. Len(RowsOf[w]) /\ put[w] \in Nat /\ put[w] <= Len(Batch(w))
  BY RowsAre DEF TypeOK
<1>2. Batch(w) \in Seq(Rows) /\ Len(Batch(w)) \in Nat
  BY <1>1, BatchAt DEF Batch
<1>3. InsertBatch \in Nat /\ put[w] \in 0 .. Len(Batch(w))
  BY <1>1, <1>2, BatchAssumption DEF Batches
<1>4. /\ Request(w) \in Seq(Rows)
      /\ Len(Request(w)) = IF put[w] + InsertBatch <= Len(Batch(w)) THEN InsertBatch
                           ELSE Len(Batch(w)) - put[w]
      /\ \A i \in 1 .. Len(Request(w)) : Request(w)[i] = Batch(w)[put[w] + i]
  BY <1>2, <1>3, SliceIs DEF Request
<1> QED
  BY <1>1, <1>2, <1>3, <1>4, SMTT(60)

-----------------------------------------------------------------------------
(***************************************************************************)
(* The response of the embedder.                                           *)
(***************************************************************************)
\* In a permutation of 1 .. n as many elements are at most v as v says.
LEMMA RankIsValue ==
  ASSUME NEW n \in Nat, NEW q \in [1 .. n -> 1 .. n],
         \A i, j \in 1 .. n : q[i] = q[j] => i = j
  PROVE  /\ \A v \in 1 .. n : \E i \in 1 .. n : q[i] = v
         /\ \A i \in 1 .. n : Cardinality({j \in 1 .. n : q[j] <= q[i]}) = q[i]
<1>1. IsFiniteSet(1 .. n) /\ Cardinality(1 .. n) = n
  BY FS_Interval
<1>2. q \in Injection(1 .. n, 1 .. n)
  BY DEF Injection, IsInjective
<1>3. q \in Surjection(1 .. n, 1 .. n)
  BY <1>1, <1>2, FS_Injection
<1>4. \A v \in 1 .. n : \E i \in 1 .. n : q[i] = v
  BY <1>3 DEF Surjection
<1>5. ASSUME NEW i \in 1 .. n PROVE Cardinality({j \in 1 .. n : q[j] <= q[i]}) = q[i]
  <2> DEFINE T == {j \in 1 .. n : q[j] <= q[i]}
             b == [j \in T |-> q[j]]
  <2>1. IsFiniteSet(T)
    BY <1>1, FS_Subset
  <2>2. b \in [T -> 1 .. q[i]]
    OBVIOUS
  <2>3. \A j, k \in T : b[j] = b[k] => j = k
    OBVIOUS
  <2>4. ASSUME NEW v \in 1 .. q[i] PROVE \E j \in T : b[j] = v
    <3>1. v \in 1 .. n /\ v <= q[i]
      OBVIOUS
    <3>2. PICK j \in 1 .. n : q[j] = v
      BY <1>4, <3>1
    <3>3. j \in T /\ b[j] = v
      BY <3>1, <3>2
    <3> QED
      BY <3>3
  <2>5. b \in Bijection(T, 1 .. q[i])
    BY <2>2, <2>3, <2>4 DEF Bijection, Injection, IsInjective, Surjection
  <2>6. ExistsBijection(T, 1 .. q[i])
    BY <2>5 DEF ExistsBijection
  <2>7. Cardinality(1 .. q[i]) = Cardinality(T)
    BY <2>1, <2>6, FS_Bijection
  <2>8. q[i] \in Int /\ 1 <= q[i]
    OBVIOUS
  <2>9. Cardinality(1 .. q[i]) = q[i]
    BY <2>8, FS_Interval
  <2> QED
    BY <2>7, <2>9
<1> QED
  BY <1>4, <1>5

\* Whatever the order of a response, when it is complete its vectors are those of
\* the texts, in the order of the texts.
LEMMA SortedIsTexts ==
  ASSUME NEW S, NEW texts \in Seq(S), NEW data \in Responses(texts),
         Len(SortedByIndex(data)) = Len(texts)
  PROVE  SortedByIndex(data) = texts
<1> DEFINE n == Len(texts)
<1>1. n \in Nat /\ DOMAIN texts = 1 .. n
  OBVIOUS
<1> DEFINE Order(k) == {q \in [1 .. k -> DOMAIN texts] : \A i, j \in 1 .. k : q[i] = q[j] => i = j}
<1>2. PICK q \in UNION {Order(k) : k \in 0 .. n} :
        data = [i \in DOMAIN q |-> [index |-> q[i], embedding |-> texts[q[i]]]]
  BY DEF Responses
<1> HIDE DEF n
<1>3. PICK k \in 0 .. n : q \in Order(k)
  <2> HIDE DEF Order
  <2> QED
    BY <1>2
<1>4. data = [i \in 1 .. k |-> [index |-> q[i], embedding |-> texts[q[i]]]]
  BY <1>2, <1>3
<1>5. DOMAIN data = 1 .. k
  BY <1>4
<1>6. \A i \in 1 .. k : data[i].index = q[i] /\ data[i].embedding = texts[q[i]]
  BY <1>4
<1> DEFINE rank(i) == Cardinality({j \in DOMAIN data : data[j].index <= data[i].index})
           of(r) == data[CHOOSE i \in DOMAIN data : rank(i) = r].embedding
<1>7. SortedByIndex(data) = [r \in 1 .. k |-> of(r)]
  <2>1. SortedByIndex(data) = [r \in DOMAIN data |-> of(r)]
    BY DEF SortedByIndex
  <2> HIDE DEF of
  <2> QED
    BY <2>1, <1>5
<1>8. k = n
  <2> HIDE DEF of
  <2>1. k \in Nat
    BY <1>1, <1>3
  <2>2. Len([r \in 1 .. k |-> of(r)]) = k
    BY <2>1
  <2> QED
    BY <1>7, <2>2 DEF n
<1>9. ASSUME NEW r \in 1 .. n PROVE of(r) = texts[r]
  <2>1. /\ \E i \in 1 .. n : q[i] = r
        /\ \A i \in 1 .. n : Cardinality({j \in 1 .. n : q[j] <= q[i]}) = q[i]
    <3>1. q \in [1 .. n -> 1 .. n] /\ \A i, j \in 1 .. n : q[i] = q[j] => i = j
      BY <1>1, <1>3, <1>8
    <3> QED
      BY <1>1, <3>1, RankIsValue
  <2>2. ASSUME NEW i \in 1 .. k PROVE rank(i) = q[i]
    <3>1. {j \in DOMAIN data : data[j].index <= data[i].index} = {j \in 1 .. n : q[j] <= q[i]}
      BY <1>5, <1>6, <1>8
    <3> QED
      BY <2>1, <3>1, <1>8
  <2> HIDE DEF rank
  <2>3. /\ (CHOOSE i \in DOMAIN data : rank(i) = r) \in 1 .. k
        /\ q[CHOOSE i \in DOMAIN data : rank(i) = r] = r
    BY <2>1, <2>2, <1>5, <1>8
  <2> QED
    BY <2>3, <1>6
<1> HIDE DEF of
<1>10. texts = [r \in 1 .. n |-> texts[r]]
  BY <1>1 DEF n
<1> QED
  BY <1>7, <1>8, <1>9, <1>10

-----------------------------------------------------------------------------
(***************************************************************************)
(* What is done of a file.                                                 *)
(***************************************************************************)
\* After a whole number of batches comes another batch.
LEMMA OtherBatch ==
  ASSUME NEW m \in Nat \ {0}, NEW s \in Nat, s % m = 0,
         NEW a \in Nat, NEW b \in Nat, a < s, s <= b
  PROVE  a \div m # b \div m
<1>1. s = m * (s \div m) + (s % m) /\ s \div m \in Int
  OBVIOUS
<1>2. a = m * (a \div m) + (a % m) /\ a % m \in 0 .. m - 1 /\ a \div m \in Int
  OBVIOUS
<1>3. b = m * (b \div m) + (b % m) /\ b % m \in 0 .. m - 1 /\ b \div m \in Int
  OBVIOUS
<1> DEFINE n == s \div m  d == a \div m
<1> HIDE DEF n, d
<1>4. ASSUME d = b \div m PROVE FALSE
  <2>1. m * d < m * n
    BY <1>1, <1>2 DEF n, d
  <2>2. m * n <= m * d + (m - 1)
    BY <1>1, <1>3, <1>4 DEF n, d
  <2>3. d < n
    BY <2>1, <1>1, <1>2 DEF n, d
  <2>4. n \in Int /\ d \in Int /\ d + 1 <= n
    BY <2>3, <1>1, <1>2 DEF n, d
  <2>5. m * (d + 1) <= m * n
    BY <2>4
  <2>6. m * (d + 1) = m * d + m
    BY <2>4
  <2> QED
    BY <2>2, <2>4, <2>5, <2>6
<1> QED
  BY <1>4 DEF d

\* Sums of whole batches are whole batches.
LEMMA WholeBatches ==
  ASSUME NEW m \in Nat \ {0}, NEW s \in Nat, s % m = 0
  PROVE  (s + m) % m = 0
<1> DEFINE n == s \div m  d == (s + m) \div m  r == (s + m) % m
<1>1. s = m * n + (s % m) /\ n \in Int
  OBVIOUS
<1>2. s + m = m * d + r /\ r \in 0 .. m - 1 /\ d \in Int
  OBVIOUS
<1> HIDE DEF n, d, r
<1>3. m * n + m = m * d + r
  BY <1>1, <1>2
<1>4. ASSUME d <= n PROVE FALSE
  <2>1. m * d <= m * n
    BY <1>1, <1>2, <1>4
  <2> QED
    BY <1>1, <1>2, <1>3, <2>1
<1>5. ASSUME n + 1 < d PROVE FALSE
  <2>1. m * (n + 2) <= m * d
    BY <1>1, <1>2, <1>5
  <2>2. m * (n + 2) = m * n + m + m
    BY <1>1
  <2> QED
    BY <1>1, <1>2, <1>3, <2>1, <2>2
<1>6. d = n + 1
  BY <1>1, <1>2, <1>4, <1>5
<1>7. m * (n + 1) = m * n + m
  BY <1>1
<1>8. r = 0
  BY <1>1, <1>2, <1>3, <1>6, <1>7
<1> QED
  BY <1>8 DEF r

\* The batch a worker is at.
LEMMA BatchIs ==
  ASSUME TypeOK, NEW w \in Workers
  PROVE  /\ sent[w] \in Nat /\ put[w] \in Nat /\ vecs[w] \in Seq(Contents)
         /\ Batch(w) \in Seq(Rows) /\ Len(Batch(w)) \in Nat
         /\ DOMAIN Batch(w) = 1 .. Len(Batch(w))
         /\ sent[w] + Len(Batch(w)) <= Len(RowsOf[w])
         /\ sent[w] + Len(Batch(w)) = Len(RowsOf[w]) \/ Len(Batch(w)) = MaxBatch
         /\ Len(vecs[w]) <= Len(Batch(w)) /\ put[w] <= Len(Batch(w))
         /\ \A i \in 1 .. Len(Batch(w)) :
              /\ Batch(w)[i] = RowsOf[w][sent[w] + i] /\ sent[w] + i \in 1 .. Len(RowsOf[w])
              /\ Batch(w)[i] \in Rows /\ IsRow(Batch(w)[i])
              /\ Batch(w)[i].text \in Contents /\ Batch(w)[i].keys \subseteq Keys
<1>1. /\ sent[w] \in 0 .. Len(RowsOf[w]) /\ sent[w] \in Nat /\ put[w] \in Nat
      /\ vecs[w] \in Seq(Contents)
      /\ Len(vecs[w]) <= Len(Batch(w)) /\ put[w] <= Len(Batch(w))
  BY RowsAre DEF TypeOK
<1> QED
  BY <1>1, BatchAt, ZenonT(60) DEF Batch

LEMMA NoTextIsNone == \A t \in Contents : t # None
BY FileAssumption DEF Contents, IsRow

\* The documents of a batch have the keys of all its rows.
LEMMA DocsAre ==
  ASSUME TypeOK, NEW w \in Workers
  PROVE  /\ \A c \in DOMAIN Docs(w) :
              /\ c \in Ids /\ Docs(w)[c] \in [keys : SUBSET Keys, offset : Nat]
              /\ \E i \in 1 .. Len(Batch(w)) : Batch(w)[i].id = c
         /\ \A i \in 1 .. Len(Batch(w)) :
              Batch(w)[i].keys # {} =>
                /\ Batch(w)[i].id \in DOMAIN Docs(w)
                /\ Batch(w)[i].keys \subseteq Docs(w)[Batch(w)[i].id].keys
<1> DEFINE Same(c)   == {Batch(w)[i] : i \in {k \in Keyed(w) : Batch(w)[k].id = c}}
           Least(c)  == CHOOSE o \in {r.offset : r \in Same(c)} : \A r \in Same(c) : o <= r.offset
           Doc(c)    == [keys |-> UNION {r.keys : r \in Same(c)}, offset |-> Least(c)]
<1>1. Docs(w) = [c \in {Batch(w)[i].id : i \in Keyed(w)} |-> Doc(c)]
  BY DEF Docs
<1>2. /\ Keyed(w) = {i \in 1 .. Len(Batch(w)) : Batch(w)[i].keys # {}}
      /\ \A i \in 1 .. Len(Batch(w)) : IsRow(Batch(w)[i]) /\ Batch(w)[i].keys \subseteq Keys
  BY BatchIs DEF Keyed
<1>3. ASSUME NEW i \in Keyed(w)
      PROVE  /\ Batch(w)[i].id \in Ids /\ Doc(Batch(w)[i].id) \in [keys : SUBSET Keys, offset : Nat]
             /\ Batch(w)[i].keys \subseteq Doc(Batch(w)[i].id).keys
  <2> DEFINE c == Batch(w)[i].id
  <2> HIDE DEF c
  <2>1. Batch(w)[i] \in Same(c)
    BY DEF c
  <2>2. \A r \in Same(c) : r.offset \in Nat /\ r.keys \subseteq Keys
    BY <1>2 DEF IsRow
  <2> HIDE DEF Same
  <2>3. {r.offset : r \in Same(c)} \subseteq Nat /\ {r.offset : r \in Same(c)} # {}
    BY <2>1, <2>2
  <2>4. PICK o \in {r.offset : r \in Same(c)} : \A r \in Same(c) : o <= r.offset
    <3> DEFINE O == {r.offset : r \in Same(c)}
    <3>1. \A r \in Same(c) : r.offset \in O
      OBVIOUS
    <3> HIDE DEF O
    <3>2. PICK o \in O : \A l \in O : o <= l
      BY <2>3, HasLeast DEF O
    <3>3. o \in {r.offset : r \in Same(c)} /\ \A r \in Same(c) : o <= r.offset
      BY <3>1, <3>2 DEF O
    <3> QED
      BY <3>3
  <2>5. Least(c) \in {r.offset : r \in Same(c)}
    BY <2>4
  <2>6. Least(c) \in Nat
    BY <2>3, <2>5
  <2> HIDE DEF Least
  <2>7. UNION {r.keys : r \in Same(c)} \subseteq Keys
    BY <2>2
  <2>8. Batch(w)[i].keys \subseteq UNION {r.keys : r \in Same(c)}
    BY <2>1
  <2>9. Batch(w)[i].id \in Ids
    BY <1>2 DEF IsRow
  <2> QED
    BY <2>6, <2>7, <2>8, <2>9 DEF c
<1> HIDE DEF Doc
<1> QED
  BY <1>1, <1>2, <1>3

-----------------------------------------------------------------------------
(***************************************************************************)
(* The inductive invariant of the files.  EnsureOK of RunnerProofs types   *)
(* the variables that are not listed here.                                 *)
(***************************************************************************)
FileOK ==
  /\ partitions \subseteq {PartitionOf[w] : w \in Workers}
  /\ vector \in [Ids -> Contents \cup {None}]
  /\ entity \in [Ids -> [keys : SUBSET Keys, offset : Nat]]
  /\ faulty \in BOOLEAN
  /\ sent \in [Workers -> Nat] /\ put \in [Workers -> Nat]
  /\ vecs \in [Workers -> Seq(Contents)]
  /\ again \in [Workers -> BOOLEAN]
  /\ \A w \in Workers : /\ sent[w] <= Len(RowsOf[w])
                        /\ Len(vecs[w]) <= Len(Batch(w))
                        /\ put[w] <= Len(Batch(w))

\* The calls of a worker whose batch is embedded.
Embedded == Body \cup {"Lock", "HasPartition", "CreatePartition", "Upsert", "Invalidate", "Bulk"}

\* vecs holds the vectors of the first rows of the batch; how far vecs and put
\* are goes with the call; only whole batches count as sent.
AtBatch(w) ==
  /\ \A i \in 1 .. Len(vecs[w]) : vecs[w][i] = Batch(w)[i].text
  /\ pc[w] \in {"start", "read"} => vecs[w] = <<>>
  /\ pc[w] \in {"start", "read", "Embed"} => put[w] = 0
  /\ pc[w] \in Embedded => Len(vecs[w]) = Len(Batch(w))
  /\ pc[w] = "Bulk" => put[w] = Len(Batch(w))
  /\ sent[w] = Len(RowsOf[w]) \/ sent[w] % MaxBatch = 0

\* A vector is that of a row of its chunk.
VectorsAreOwn ==
  \A c \in Ids : vector[c] # None =>
    \E w \in Workers : \E k \in DOMAIN RowsOf[w] :
      RowsOf[w][k].id = c /\ RowsOf[w][k].text = vector[c]

\* Milvus has the rows that were put, of the batches before and of this one.
PutIsStored ==
  ~dropped => \A w \in Workers : \A i \in 1 .. sent[w] + put[w] :
                vector[RowsOf[w][i].id] # None

\* ES has the keys of the rows that were sent.
KeysAreStored ==
  ES => \A w \in Workers : \A i \in 1 .. sent[w] :
          ~Elsewhere(w, i) => RowsOf[w][i].keys \subseteq entity[RowsOf[w][i].id].keys

FileInv ==
  /\ FileOK /\ \A w \in Workers : AtBatch(w)
  /\ VectorsAreOwn /\ PutIsStored /\ KeysAreStored /\ EntityHasVector

LEMMA TypeIs == TypeOK <=> EnsureOK /\ FileOK
BY DEF TypeOK, EnsureOK, FileOK

LEMMA InitFileInv == Init => FileInv
<1> SUFFICES ASSUME Init PROVE FileInv
  OBVIOUS
<1>1. ASSUME NEW w \in Workers
      PROVE  Len(Batch(w)) \in Nat /\ Len(RowsOf[w]) \in Nat /\ Batch(w) \in Seq(Rows)
  <2>1. Batch(w) = Slice(RowsOf[w], 0, MaxBatch) /\ 0 \in 0 .. Len(RowsOf[w])
    BY RowsAre DEF Init, Batch
  <2> QED
    BY <2>1, RowsAre, BatchAt
<1>2. FileOK
  <2>1. partitions \subseteq {PartitionOf[w] : w \in Workers} /\ faulty \in BOOLEAN
    BY DEF Init
  <2>2. /\ vector \in [Ids -> Contents \cup {None}]
        /\ entity \in [Ids -> [keys : SUBSET Keys, offset : Nat]]
    BY DEF Init, NoDoc
  <2>3. /\ sent \in [Workers -> Nat] /\ put \in [Workers -> Nat]
        /\ vecs \in [Workers -> Seq(Contents)] /\ again \in [Workers -> BOOLEAN]
    BY DEF Init
  <2>4. ASSUME NEW w \in Workers
        PROVE  sent[w] <= Len(RowsOf[w]) /\ Len(vecs[w]) <= Len(Batch(w)) /\ put[w] <= Len(Batch(w))
    <3>1. sent[w] = 0 /\ put[w] = 0 /\ Len(vecs[w]) = 0
      BY DEF Init
    <3> QED
      BY <1>1, <3>1
  <2> QED
    BY <2>1, <2>2, <2>3, <2>4 DEF FileOK
<1>3. ASSUME NEW w \in Workers PROVE AtBatch(w)
  <2>1. pc[w] = "start" /\ w \in Goroutines
    BY GoroutineAssumption DEF Init, Goroutines
  <2>2. 0 % MaxBatch = 0
    BY BatchAssumption DEF Batches
  <2>3. vecs[w] = <<>> /\ put[w] = 0 /\ sent[w] = 0
    BY DEF Init
  <2>4. pc[w] \notin Embedded /\ pc[w] # "Bulk"
    BY <2>1 DEF Embedded, Body
  <2> QED
    BY <2>2, <2>3, <2>4 DEF AtBatch
<1>4. VectorsAreOwn /\ PutIsStored /\ KeysAreStored /\ EntityHasVector
  BY DEF Init, VectorsAreOwn, PutIsStored, KeysAreStored, EntityHasVector
<1> QED
  BY <1>2, <1>3, <1>4 DEF FileInv

(***************************************************************************)
(* A call that changes neither what is stored nor what is done of a file,  *)
(* and that does not jump ahead.                                           *)
(***************************************************************************)
Follows(g, call) ==
  /\ call \in {"start", "read"} => pc[g] \in {"start", "read"}
  /\ call = "Embed" => pc[g] \in {"read", "Embed"}
  /\ call \in Embedded => pc[g] \in Embedded /\ call # "Bulk"

workVars == <<vector, entity, sent, vecs, put>>

LEMMA CallOnly ==
  ASSUME IInv, FileInv, NEW g \in Goroutines, NEW call \in Calls, Goto(g, call),
         g \in Workers => Follows(g, call),
         UNCHANGED <<workVars, dropped>>,
         partitions' \subseteq {PartitionOf[w] : w \in Workers},
         faulty' \in BOOLEAN, again' \in [Workers -> BOOLEAN]
  PROVE  FileInv'
<1>1. \A w \in Workers : Batch(w)' = Batch(w)
  BY DEF Batch, workVars
<1>2. FileOK'
  BY <1>1 DEF FileInv, FileOK, workVars
<1>3. ASSUME NEW w \in Workers PROVE AtBatch(w)'
  <2>1. pc'[w] = IF w = g THEN call ELSE pc[w]
    BY DEF IInv, EnsureOK, Goto, Goroutines
  <2>2. AtBatch(w)
    BY DEF FileInv
  <2>3. CASE w = g
    <3>1. Follows(w, pc'[w])
      BY <2>1, <2>3 DEF Follows, Embedded, Body
    <3>2. "Bulk" \in Embedded
      BY DEF Embedded
    <3> QED
      BY <1>1, <2>2, <3>1, <3>2 DEF AtBatch, Follows, workVars
  <2>4. CASE w # g
    BY <1>1, <2>1, <2>2, <2>4 DEF AtBatch, workVars
  <2> QED
    BY <2>3, <2>4
<1>4. VectorsAreOwn' /\ PutIsStored' /\ KeysAreStored' /\ EntityHasVector'
  BY DEF FileInv, VectorsAreOwn, PutIsStored, KeysAreStored, EntityHasVector, workVars
<1> QED
  BY <1>2, <1>3, <1>4 DEF FileInv

LEMMA EnsureFile ==
  ASSUME IInv, FileInv, NEW g \in Goroutines, EnsureCollection(g)
  PROVE  FileInv'
<1>1. UNCHANGED <<workVars, dropped, partitions, again>>
  BY DEF EnsureCollection, Lock, HasCollection, CreateCollection, DescribeIndex, CreateIndex,
         LoadCollection, EnsureFails, workVars, milvusVars, fileVars
<1>2. pc[g] = "Lock" \/ pc[g] \in Body
  BY DEF EnsureCollection, Lock, HasCollection, CreateCollection, DescribeIndex, CreateIndex,
         LoadCollection, EnsureFails, Body
<1>3. \E call \in Body \cup {AfterEnsure(g), "failed"} : Goto(g, call)
  BY DEF EnsureCollection, Lock, HasCollection, CreateCollection, DescribeIndex, CreateIndex,
         LoadCollection, EnsureFails, Body
<1>4. PICK call \in Body \cup {AfterEnsure(g), "failed"} : Goto(g, call)
  BY <1>3
<1>5. g \in Workers => AfterEnsure(g) \in {"Upsert", "HasPartition"}
  BY GoroutineAssumption DEF AfterEnsure
<1>6. call \in Calls
  BY <1>4 DEF AfterEnsure, Calls, Body
<1>7. g \in Workers => Follows(g, call)
  BY <1>2, <1>4, <1>5 DEF Follows, Embedded, Body
<1>8. faulty' \in BOOLEAN
  BY DEF EnsureCollection, Lock, HasCollection, CreateCollection, DescribeIndex, CreateIndex,
         LoadCollection, EnsureFails, Fails, FileInv, FileOK
<1>9. partitions \subseteq {PartitionOf[w] : w \in Workers} /\ again \in [Workers -> BOOLEAN]
  BY DEF FileInv, FileOK
<1> QED
  BY <1>1, <1>4, <1>6, <1>7, <1>8, <1>9, CallOnly

\* The calls of a file that neither embed nor write.
LEMMA CallFile ==
  ASSUME IInv, FileInv, NEW w \in Workers,
         Start(w) \/ NextBatch(w) \/ EmbedFails(w) \/ HasPartition(w) \/ CreatePartition(w)
           \/ Invalidate(w)
  PROVE  FileInv'
<1>1. UNCHANGED <<workVars, dropped>>
  BY DEF Start, NextBatch, EmbedFails, HasPartition, CreatePartition, Invalidate, workVars,
         milvusVars, fileVars
<1>2. \E call \in Calls : Goto(w, call) /\ Follows(w, call)
  <2>1. CASE Start(w)
    BY <2>1 DEF Start, Calls, Follows, Embedded, Body
  <2>2. CASE NextBatch(w)
    BY <2>2 DEF NextBatch, Calls, Follows, Embedded, Body
  <2>3. CASE EmbedFails(w)
    BY <2>3 DEF EmbedFails, Calls, Follows, Embedded, Body
  <2>4. CASE HasPartition(w) \/ CreatePartition(w)
    <3>1. AfterPartition(w) \in {"Upsert", "failed"}
      BY DEF AfterPartition
    <3>2. \E call \in {AfterPartition(w), "CreatePartition", "failed"} : Goto(w, call)
      BY <2>4 DEF HasPartition, CreatePartition
    <3>3. pc[w] \in {"HasPartition", "CreatePartition"}
      BY <2>4 DEF HasPartition, CreatePartition
    <3> QED
      BY <3>1, <3>2, <3>3 DEF Calls, Follows, Embedded, Body
  <2>5. CASE Invalidate(w)
    BY <2>5 DEF Invalidate, Calls, Follows, Embedded, Body
  <2> QED
    BY <2>1, <2>2, <2>3, <2>4, <2>5
<1>3. partitions' \subseteq {PartitionOf[v] : v \in Workers}
  BY DEF Start, NextBatch, EmbedFails, HasPartition, CreatePartition, Invalidate,
         milvusVars, FileInv, FileOK
<1>4. faulty' \in BOOLEAN /\ again' \in [Workers -> BOOLEAN]
  BY DEF Start, NextBatch, EmbedFails, HasPartition, CreatePartition, Invalidate,
         fileVars, Fails, FileInv, FileOK
<1>5. w \in Goroutines
  BY DEF Goroutines
<1> QED
  BY <1>1, <1>2, <1>3, <1>4, <1>5, CallOnly

\* The vectors that arrive are those of the next texts.
LEMMA EmbedFile == ASSUME IInv, FileInv, NEW w \in Workers, Embed(w) PROVE FileInv'
<1> DEFINE texts == Slice(Texts(Batch(w)), Len(vecs[w]), EmbedBatch)
<1>0. TypeOK /\ w \in Goroutines
  BY TypeIs DEF IInv, FileInv, Goroutines
<1>1. PICK data \in Responses(texts) :
        LET got == SortedByIndex(data)
        IN  IF Len(got) # Len(texts)
            THEN Fails({"err"}) /\ Goto(w, "failed") /\ UNCHANGED vecs
            ELSE /\ vecs' = [vecs EXCEPT ![w] = @ \o got]
                 /\ Goto(w, IF Len(vecs[w] \o got) = Len(Batch(w)) THEN "Lock" ELSE "Embed")
                 /\ UNCHANGED faulty
  BY DEF Embed
<1>2. /\ pc[w] = "Embed"
      /\ UNCHANGED <<partitions, vector, dropped, entity, sent, put, again>>
  BY DEF Embed, milvusVars
<1>3. CASE Len(SortedByIndex(data)) # Len(texts)
  <2>1. Fails({"err"}) /\ Goto(w, "failed") /\ UNCHANGED vecs
    BY <1>1, <1>3
  <2>2. "failed" \in Calls /\ Follows(w, "failed")
    BY DEF Calls, Follows, Embedded, Body
  <2>3. /\ partitions' \subseteq {PartitionOf[v] : v \in Workers}
        /\ faulty' \in BOOLEAN /\ again' \in [Workers -> BOOLEAN]
    BY <1>2, <2>1 DEF Fails, FileInv, FileOK
  <2> QED
    BY <1>0, <1>2, <2>1, <2>2, <2>3, CallOnly DEF workVars
<1>4. CASE Len(SortedByIndex(data)) = Len(texts)
  <2>1. /\ vecs[w] \in Seq(Contents) /\ Len(vecs[w]) \in Nat
        /\ Batch(w) \in Seq(Rows) /\ Len(Batch(w)) \in Nat /\ Len(vecs[w]) <= Len(Batch(w))
        /\ DOMAIN Batch(w) = 1 .. Len(Batch(w))
        /\ \A i \in 1 .. Len(Batch(w)) : Batch(w)[i].text \in Contents
    BY <1>0, BatchIs
  <2>2. /\ Texts(Batch(w)) \in Seq(Contents) /\ Len(Texts(Batch(w))) = Len(Batch(w))
        /\ \A i \in 1 .. Len(Batch(w)) : Texts(Batch(w))[i] = Batch(w)[i].text
    BY <2>1 DEF Texts
  <2>3. /\ texts \in Seq(Contents) /\ Len(vecs[w]) + Len(texts) <= Len(Batch(w))
        /\ Len(texts) \in Nat
        /\ \A i \in 1 .. Len(texts) : texts[i] = Batch(w)[Len(vecs[w]) + i].text
    <3>1. EmbedBatch \in Nat /\ Len(vecs[w]) \in 0 .. Len(Texts(Batch(w)))
      BY <2>1, <2>2, BatchAssumption DEF Batches
    <3> DEFINE s == Texts(Batch(w))
    <3>2. /\ texts \in Seq(Contents)
          /\ Len(texts) = IF Len(vecs[w]) + EmbedBatch <= Len(s) THEN EmbedBatch
                          ELSE Len(s) - Len(vecs[w])
          /\ \A i \in 1 .. Len(texts) : texts[i] = s[Len(vecs[w]) + i]
      BY <2>2, <3>1, SliceIs
    <3>5. Len(s) = Len(Batch(w)) /\ Len(s) \in Nat
      BY <2>1, <2>2
    <3> HIDE DEF s, texts
    <3>3. Len(texts) \in Nat /\ Len(vecs[w]) + Len(texts) <= Len(Batch(w))
      <4>1. Len(vecs[w]) \in Nat /\ Len(vecs[w]) <= Len(s)
        BY <2>1, <3>5
      <4>2. CASE Len(vecs[w]) + EmbedBatch <= Len(s)
        <5>1. Len(texts) = EmbedBatch
          BY <3>2, <4>2
        <5> QED
          BY <3>1, <3>5, <4>2, <5>1
      <4>3. CASE ~(Len(vecs[w]) + EmbedBatch <= Len(s))
        <5>1. Len(texts) = Len(s) - Len(vecs[w])
          BY <3>2, <4>3
        <5> QED
          BY <3>5, <4>1, <5>1
      <4> QED
        BY <4>2, <4>3
    <3>4. ASSUME NEW i \in 1 .. Len(texts) PROVE texts[i] = Batch(w)[Len(vecs[w]) + i].text
      <4>1. Len(vecs[w]) + i \in 1 .. Len(Batch(w))
        BY <2>1, <3>3
      <4> QED
        BY <2>2, <3>2, <4>1 DEF s
    <3> QED
      BY <3>2, <3>3, <3>4
  <2> HIDE DEF texts
  <2>4. SortedByIndex(data) = texts
    BY <1>1, <1>4, <2>3, SortedIsTexts
  <2>5. /\ vecs' = [vecs EXCEPT ![w] = @ \o texts]
        /\ Goto(w, IF Len(vecs[w] \o texts) = Len(Batch(w)) THEN "Lock" ELSE "Embed")
        /\ UNCHANGED faulty
    BY <1>1, <1>4, <2>4
  <2> DEFINE next == vecs[w] \o texts
  <2>6. /\ next \in Seq(Contents) /\ Len(next) = Len(vecs[w]) + Len(texts)
        /\ \A i \in 1 .. Len(vecs[w]) + Len(texts) :
             next[i] = IF i <= Len(vecs[w]) THEN vecs[w][i] ELSE texts[i - Len(vecs[w])]
    BY <2>1, <2>3, ConcatProperties
  <2>7. \A v \in Workers : Batch(v)' = Batch(v)
    BY <1>2 DEF Batch
  <2>8. ASSUME NEW i \in 1 .. Len(next) PROVE next[i] = Batch(w)[i].text
    <3>1. CASE i <= Len(vecs[w])
      <4>1. i \in 1 .. Len(vecs[w])
        BY <2>1, <2>6, <3>1
      <4> QED
        BY <2>1, <2>3, <2>6, <3>1, <4>1 DEF FileInv, AtBatch
    <3>2. CASE i > Len(vecs[w])
      <4> DEFINE k == i - Len(vecs[w])
      <4>1. k \in 1 .. Len(texts) /\ Len(vecs[w]) + k = i
        BY <2>1, <2>3, <2>6, <3>2
      <4>2. next[i] = texts[k]
        BY <2>1, <2>3, <2>6, <3>2
      <4> HIDE DEF k
      <4>3. texts[k] = Batch(w)[i].text
        BY <2>3, <4>1
      <4> QED
        BY <4>2, <4>3
    <3> QED
      BY <2>1, <2>3, <2>6, <3>1, <3>2
  <2>9. Len(next) <= Len(Batch(w)) /\ Len(next) \in Nat
    BY <2>1, <2>3, <2>6
  <2> HIDE DEF next
  <2>10. /\ vecs' = [vecs EXCEPT ![w] = next]
         /\ Goto(w, IF Len(next) = Len(Batch(w)) THEN "Lock" ELSE "Embed")
    BY <2>5 DEF next
  <2>11. FileOK'
    BY <1>2, <2>5, <2>6, <2>7, <2>9, <2>10 DEF FileInv, FileOK, next
  <2>12. ASSUME NEW v \in Workers PROVE AtBatch(v)'
    <3>1. AtBatch(v)
      BY DEF FileInv
    <3>2. CASE v = w
      <4>1. vecs'[v] = next /\ pc'[v] = IF Len(next) = Len(Batch(w)) THEN "Lock" ELSE "Embed"
        BY <1>0, <2>10, <3>2 DEF FileInv, FileOK, IInv, EnsureOK, Goto
      <4>2. "Lock" \in Embedded /\ "Embed" \notin Embedded
        BY DEF Embedded, Body
      <4> QED
        BY <1>2, <2>7, <2>8, <3>1, <3>2, <4>1, <4>2 DEF AtBatch
    <3>3. CASE v # w
      <4>1. vecs'[v] = vecs[v] /\ pc'[v] = pc[v]
        BY <2>10, <3>3 DEF FileInv, FileOK, IInv, EnsureOK, Goto, Goroutines
      <4> QED
        BY <1>2, <2>7, <3>1, <4>1 DEF AtBatch
    <3> QED
      BY <3>2, <3>3
  <2>13. VectorsAreOwn' /\ PutIsStored' /\ KeysAreStored' /\ EntityHasVector'
    BY <1>2 DEF FileInv, VectorsAreOwn, PutIsStored, KeysAreStored, EntityHasVector
  <2> QED
    BY <2>11, <2>12, <2>13 DEF FileInv
<1> QED
  BY <1>3, <1>4

(***************************************************************************)
(* A request to Milvus, whether it is answered or its answer is lost.      *)
(***************************************************************************)
LEMMA VectorMoves ==
  ASSUME IInv, FileInv, NEW w \in Workers, pc[w] = "Upsert", vector' \in Upserted(w)
  PROVE  /\ vector' \in [Ids -> Contents \cup {None}]
         /\ VectorsAreOwn'
         /\ \A c \in Ids : vector[c] # None => vector'[c] # None
         /\ \A i \in 1 .. Len(Request(w)) : vector'[Request(w)[i].id] # None
<1>0. TypeOK
  BY TypeIs DEF IInv, FileInv
<1> DEFINE rows == Request(w)
           ids  == {rows[i].id : i \in DOMAIN rows}
           kept == {f \in [ids -> DOMAIN rows] : \A c \in ids : rows[f[c]].id = c}
<1>1. /\ rows \in Seq(Rows) /\ DOMAIN rows = 1 .. Len(rows)
      /\ \A i \in 1 .. Len(rows) : rows[i] = Batch(w)[put[w] + i]
                                   /\ put[w] + i \in 1 .. Len(Batch(w))
  BY <1>0, RequestIs
<1>2. PICK f \in kept :
        vector' = [c \in Ids |-> IF c \in ids THEN vecs[w][put[w] + f[c]] ELSE vector[c]]
  BY DEF Upserted
<1>3. /\ Len(vecs[w]) = Len(Batch(w))
      /\ \A i \in 1 .. Len(vecs[w]) : vecs[w][i] = Batch(w)[i].text
  BY DEF FileInv, AtBatch, Embedded
<1>4. \A i \in 1 .. Len(Batch(w)) :
        /\ Batch(w)[i] = RowsOf[w][sent[w] + i] /\ sent[w] + i \in DOMAIN RowsOf[w]
        /\ Batch(w)[i].id \in Ids /\ Batch(w)[i].text \in Contents
  BY <1>0, BatchIs, RowsAre DEF IsRow
<1> HIDE DEF rows
<1>5. ASSUME NEW c \in ids
      PROVE  /\ c \in Ids
             /\ \E k \in DOMAIN RowsOf[w] : RowsOf[w][k].id = c
                                            /\ RowsOf[w][k].text = vecs[w][put[w] + f[c]]
             /\ vecs[w][put[w] + f[c]] \in Contents
  <2>1. f[c] \in 1 .. Len(rows) /\ rows[f[c]].id = c
    BY <1>1, <1>2
  <2> DEFINE i == put[w] + f[c]
  <2>2. i \in 1 .. Len(Batch(w)) /\ Batch(w)[i].id = c
    BY <1>1, <2>1
  <2> HIDE DEF i
  <2>3. vecs[w][i] = Batch(w)[i].text
    BY <1>3, <2>2
  <2>4. sent[w] + i \in DOMAIN RowsOf[w] /\ Batch(w)[i] = RowsOf[w][sent[w] + i] /\ c \in Ids
        /\ Batch(w)[i].text \in Contents
    BY <1>4, <2>2
  <2> QED
    BY <2>2, <2>3, <2>4 DEF i
<1> HIDE DEF ids, kept
<1>6. \A c \in Ids : vector'[c] = IF c \in ids THEN vecs[w][put[w] + f[c]] ELSE vector[c]
  BY <1>2
<1>7. \A c \in Ids : vector[c] \in Contents \cup {None}
  BY DEF FileInv, FileOK
<1>8. vector' \in [Ids -> Contents \cup {None}]
  BY <1>2, <1>5, <1>7
<1>9. VectorsAreOwn'
  <2> SUFFICES ASSUME NEW c \in Ids, vector'[c] # None
               PROVE  \E v \in Workers : \E k \in DOMAIN RowsOf[v] :
                        RowsOf[v][k].id = c /\ RowsOf[v][k].text = vector'[c]
    BY DEF VectorsAreOwn
  <2>1. CASE c \in ids
    BY <1>5, <1>6, <2>1
  <2>2. CASE c \notin ids
    BY <1>6, <2>2 DEF FileInv, VectorsAreOwn
  <2> QED
    BY <2>1, <2>2
<1>10. \A c \in Ids : vector[c] # None => vector'[c] # None
  BY <1>5, <1>6, NoTextIsNone
<1>11. ASSUME NEW i \in 1 .. Len(rows) PROVE vector'[rows[i].id] # None
  <2>1. rows[i].id \in ids
    BY <1>1 DEF ids
  <2> QED
    BY <1>5, <1>6, <2>1, NoTextIsNone
<1> QED
  BY <1>8, <1>9, <1>10, <1>11 DEF rows

\* Rows that Milvus had it keeps, and it has those of the request.
LEMMA UpsertFile ==
  ASSUME IInv, FileInv, NEW w \in Workers, Upsert(w)
  PROVE  FileInv'
<1>0. TypeOK /\ w \in Goroutines
  BY TypeIs DEF IInv, FileInv, Goroutines
<1>1. /\ pc[w] = "Upsert" /\ vector' \in Upserted(w)
      /\ put' = [put EXCEPT ![w] = @ + Len(Request(w))]
      /\ again' = [again EXCEPT ![w] = FALSE]
      /\ Goto(w, IF put'[w] = Len(Batch(w)) THEN "Bulk" ELSE "Upsert")
      /\ UNCHANGED <<partitions, dropped, entity, faulty, sent, vecs>>
  BY DEF Upsert
<1>2. /\ vector' \in [Ids -> Contents \cup {None}] /\ VectorsAreOwn'
      /\ \A c \in Ids : vector[c] # None => vector'[c] # None
      /\ \A i \in 1 .. Len(Request(w)) : vector'[Request(w)[i].id] # None
  BY <1>1, VectorMoves
<1>3. \A v \in Workers : Batch(v)' = Batch(v)
  BY <1>1 DEF Batch
<1>4. /\ Len(Request(w)) \in Nat /\ put[w] + Len(Request(w)) <= Len(Batch(w))
      /\ \A i \in 1 .. Len(Request(w)) : Request(w)[i] = Batch(w)[put[w] + i]
                                         /\ put[w] + i \in 1 .. Len(Batch(w))
  BY <1>0, RequestIs
<1>5. /\ sent \in [Workers -> Nat] /\ put \in [Workers -> Nat]
      /\ put'[w] = put[w] + Len(Request(w)) /\ \A v \in Workers : v # w => put'[v] = put[v]
  BY <1>1 DEF FileInv, FileOK
<1>6. FileOK'
  BY <1>1, <1>2, <1>3, <1>4, <1>5 DEF FileInv, FileOK
<1>7. ASSUME NEW v \in Workers PROVE AtBatch(v)'
  <2>1. AtBatch(v)
    BY DEF FileInv
  <2>2. CASE v = w
    <3>1. pc'[v] = IF put'[w] = Len(Batch(w)) THEN "Bulk" ELSE "Upsert"
      BY <1>0, <1>1, <2>2 DEF IInv, EnsureOK, Goto
    <3>2. "Upsert" \in Embedded
      BY DEF Embedded
    <3> QED
      BY <1>1, <1>3, <2>1, <2>2, <3>1, <3>2 DEF AtBatch
  <2>3. CASE v # w
    <3>1. pc'[v] = pc[v] /\ put'[v] = put[v]
      BY <1>1, <1>5, <2>3 DEF IInv, EnsureOK, Goto, Goroutines
    <3> QED
      BY <1>1, <1>3, <2>1, <3>1 DEF AtBatch
  <2> QED
    BY <2>2, <2>3
<1>8. PutIsStored'
  <2> SUFFICES ASSUME ~dropped, NEW v \in Workers, NEW i \in 1 .. sent[v] + put'[v]
               PROVE  vector'[RowsOf[v][i].id] # None
    BY <1>1 DEF PutIsStored
  <2>1. CASE i \in 1 .. sent[v] + put[v]
    <3>1. vector[RowsOf[v][i].id] # None
      BY <2>1 DEF FileInv, PutIsStored
    <3>2. i \in 1 .. Len(RowsOf[v])
      <4>1. /\ sent[v] \in Nat /\ put[v] \in Nat /\ put[v] <= Len(Batch(v))
            /\ Len(Batch(v)) \in Nat /\ sent[v] + Len(Batch(v)) <= Len(RowsOf[v])
        BY <1>0, BatchIs
      <4>2. Len(RowsOf[v]) \in Nat
        BY RowsAre
      <4> QED
        BY <2>1, <4>1, <4>2
    <3>3. RowsOf[v][i].id \in Ids
      BY <3>2, RowsAre DEF IsRow
    <3> QED
      BY <1>2, <3>1, <3>3
  <2>2. CASE i \notin 1 .. sent[v] + put[v]
    <3>1. v = w
      BY <1>5, <2>2
    <3> DEFINE k == i - (sent[w] + put[w])
    <3>2. k \in 1 .. Len(Request(w)) /\ i = sent[w] + (put[w] + k)
      BY <1>4, <1>5, <2>2, <3>1
    <3> HIDE DEF k
    <3>3. Request(w)[k] = Batch(w)[put[w] + k] /\ put[w] + k \in 1 .. Len(Batch(w))
      BY <1>4, <3>2
    <3>4. Batch(w)[put[w] + k] = RowsOf[w][sent[w] + (put[w] + k)]
      BY <1>0, <3>3, BatchIs
    <3> QED
      BY <1>2, <3>1, <3>2, <3>3, <3>4
  <2> QED
    BY <2>1, <2>2
<1>9. KeysAreStored'
  BY <1>1 DEF FileInv, KeysAreStored
<1>10. EntityHasVector'
  BY <1>1, <1>2 DEF FileInv, EntityHasVector
<1> QED
  BY <1>2, <1>6, <1>7, <1>8, <1>9, <1>10 DEF FileInv

\* A request that fails may have had its effect.
LEMMA UpsertFailsFile ==
  ASSUME IInv, FileInv, NEW w \in Workers, UpsertFails(w)
  PROVE  FileInv'
<1>0. TypeOK /\ w \in Goroutines
  BY TypeIs DEF IInv, FileInv, Goroutines
<1>1. /\ pc[w] = "Upsert" /\ UNCHANGED <<partitions, dropped, entity, sent, vecs, put, again>>
      /\ \E call \in {"failed", "Invalidate"} : Goto(w, call)
      /\ faulty' \in BOOLEAN
  BY DEF UpsertFails, fileVars, Fails, FileInv, FileOK
<1>2. PICK call \in {"failed", "Invalidate"} : Goto(w, call)
  BY <1>1
<1>3. CASE UNCHANGED vector
  <2>1. call \in Calls /\ Follows(w, call)
    BY <1>1, <1>2 DEF Calls, Follows, Embedded, Body
  <2>2. /\ partitions' \subseteq {PartitionOf[v] : v \in Workers}
        /\ again' \in [Workers -> BOOLEAN]
    BY <1>1 DEF FileInv, FileOK
  <2>3. UNCHANGED <<workVars, dropped>>
    BY <1>1, <1>3 DEF workVars
  <2> QED
    BY <1>0, <1>1, <1>2, <2>1, <2>2, <2>3, CallOnly
<1>4. CASE vector' \in Upserted(w)
  <2>1. /\ vector' \in [Ids -> Contents \cup {None}] /\ VectorsAreOwn'
        /\ \A c \in Ids : vector[c] # None => vector'[c] # None
    BY <1>1, <1>4, VectorMoves
  <2>2. \A v \in Workers : Batch(v)' = Batch(v)
    BY <1>1 DEF Batch
  <2>3. FileOK'
    BY <1>1, <2>1, <2>2 DEF FileInv, FileOK
  <2>4. ASSUME NEW v \in Workers PROVE AtBatch(v)'
    <3>1. AtBatch(v)
      BY DEF FileInv
    <3>2. pc'[v] = IF v = w THEN call ELSE pc[v]
      BY <1>2 DEF IInv, EnsureOK, Goto, Goroutines
    <3>3. "Upsert" \in Embedded
      BY DEF Embedded
    <3> QED
      BY <1>1, <1>2, <2>2, <3>1, <3>2, <3>3 DEF AtBatch
  <2>5. PutIsStored'
    <3> SUFFICES ASSUME ~dropped, NEW v \in Workers, NEW i \in 1 .. sent[v] + put[v]
                 PROVE  vector'[RowsOf[v][i].id] # None
      BY <1>1 DEF PutIsStored
    <3>1. vector[RowsOf[v][i].id] # None
      BY DEF FileInv, PutIsStored
    <3>2. /\ sent[v] \in Nat /\ put[v] \in Nat /\ put[v] <= Len(Batch(v))
          /\ Len(Batch(v)) \in Nat /\ sent[v] + Len(Batch(v)) <= Len(RowsOf[v])
      BY <1>0, BatchIs
    <3>3. i \in 1 .. Len(RowsOf[v])
      BY <3>2, RowsAre
    <3>4. RowsOf[v][i].id \in Ids
      BY <3>3, RowsAre DEF IsRow
    <3> QED
      BY <2>1, <3>1, <3>4
  <2>6. KeysAreStored' /\ EntityHasVector'
    BY <1>1, <2>1 DEF FileInv, KeysAreStored, EntityHasVector
  <2> QED
    BY <2>1, <2>3, <2>4, <2>5, <2>6 DEF FileInv
<1> QED
  BY <1>3, <1>4 DEF UpsertFails

(***************************************************************************)
(* A bulk request, of which some documents are indexed.  The documents of  *)
(* a batch replace none of the keys of other batches, because a row whose  *)
(* chunk id is also in another batch is out of the claim.                  *)
(***************************************************************************)
LEMMA EntityMoves ==
  ASSUME IInv, FileInv, NEW w \in Workers, pc[w] = "Bulk",
         NEW some \in SUBSET DOMAIN Docs(w), entity' = Indexed(w, some)
  PROVE  /\ entity' \in [Ids -> [keys : SUBSET Keys, offset : Nat]]
         /\ ~dropped => \A c \in Ids : entity'[c] # NoDoc => vector[c] # None
         /\ ES => \A v \in Workers : \A i \in 1 .. sent[v] :
                    ~Elsewhere(v, i) => RowsOf[v][i].keys \subseteq entity'[RowsOf[v][i].id].keys
         /\ some = DOMAIN Docs(w) =>
              \A i \in 1 .. Len(Batch(w)) : Batch(w)[i].keys \subseteq entity'[Batch(w)[i].id].keys
<1>0. TypeOK
  BY TypeIs DEF IInv, FileInv
<1>1. \A c \in Ids : entity'[c] = IF c \in some THEN Docs(w)[c] ELSE entity[c]
  BY DEF Indexed
<1>2. \A c \in some :
        /\ c \in Ids /\ Docs(w)[c] \in [keys : SUBSET Keys, offset : Nat]
        /\ \E i \in 1 .. Len(Batch(w)) : Batch(w)[i].id = c
  BY <1>0, DocsAre
<1>3. /\ put[w] = Len(Batch(w)) /\ Len(Batch(w)) \in Nat /\ sent[w] \in Nat
      /\ sent[w] + Len(Batch(w)) <= Len(RowsOf[w])
      /\ \A i \in 1 .. Len(Batch(w)) :
           /\ Batch(w)[i] = RowsOf[w][sent[w] + i] /\ sent[w] + i \in 1 .. Len(RowsOf[w])
           /\ Batch(w)[i].id \in Ids
  BY <1>0, BatchIs DEF FileInv, AtBatch, IsRow
<1>4. entity' \in [Ids -> [keys : SUBSET Keys, offset : Nat]]
  <2>1. \A c \in Ids : entity[c] \in [keys : SUBSET Keys, offset : Nat]
    BY DEF FileInv, FileOK
  <2>2. \A c \in Ids : entity'[c] \in [keys : SUBSET Keys, offset : Nat]
    BY <1>1, <1>2, <2>1
  <2> QED
    BY <2>2 DEF Indexed
<1>5. ASSUME ~dropped, NEW c \in Ids, entity'[c] # NoDoc PROVE vector[c] # None
  <2>1. CASE c \in some
    <3>1. PICK i \in 1 .. Len(Batch(w)) : Batch(w)[i].id = c
      BY <1>2, <2>1
    <3>2. RowsOf[w][sent[w] + i].id = c /\ sent[w] + i \in 1 .. sent[w] + put[w]
      BY <1>3, <3>1
    <3> QED
      BY <1>5, <3>2 DEF FileInv, PutIsStored
  <2>2. CASE c \notin some
    BY <1>1, <1>5, <2>2 DEF FileInv, EntityHasVector
  <2> QED
    BY <2>1, <2>2
<1>6. ASSUME ES, NEW v \in Workers, NEW i \in 1 .. sent[v], ~Elsewhere(v, i)
      PROVE  RowsOf[v][i].keys \subseteq entity'[RowsOf[v][i].id].keys
  <2>1. sent[v] \in Nat /\ i \in 1 .. Len(RowsOf[v])
    BY <1>0, RowsAre DEF TypeOK
  <2>2. RowsOf[v][i].id \in Ids
    BY <2>1, RowsAre DEF IsRow
  <2>3. ASSUME RowsOf[v][i].id \in some PROVE FALSE
    <3>1. PICK k \in 1 .. Len(Batch(w)) : Batch(w)[k].id = RowsOf[v][i].id
      BY <1>2, <2>3
    <3>2. RowsOf[w][sent[w] + k].id = RowsOf[v][i].id /\ sent[w] + k \in DOMAIN RowsOf[w]
      BY <1>3, <3>1, RowsAre
    <3>3. <<w, ((sent[w] + k) - 1) \div MaxBatch>> = <<v, (i - 1) \div MaxBatch>>
      BY <1>6, <3>2 DEF Elsewhere
    <3>4. v = w /\ ((sent[w] + k) - 1) \div MaxBatch = (i - 1) \div MaxBatch
      BY <3>3
    <3>5. sent[w] % MaxBatch = 0
      <4>1. sent[w] # Len(RowsOf[w])
        BY <1>3
      <4> QED
        BY <4>1 DEF FileInv, AtBatch
    <3> DEFINE a == i - 1  b == (sent[w] + k) - 1
    <3>6. MaxBatch \in Nat \ {0}
      BY BatchAssumption DEF Batches
    <3>7. a \in Nat /\ b \in Nat /\ a < sent[w] /\ sent[w] <= b
      BY <1>3, <2>1, <3>4, SMTT(60)
    <3>8. a \div MaxBatch # b \div MaxBatch
      <4> HIDE DEF a, b
      <4> QED
        BY <1>3, <3>5, <3>6, <3>7, OtherBatch
    <3> QED
      BY <3>4, <3>8
  <2> QED
    BY <1>1, <1>6, <2>2, <2>3 DEF FileInv, KeysAreStored
<1>7. ASSUME some = DOMAIN Docs(w), NEW i \in 1 .. Len(Batch(w))
      PROVE  Batch(w)[i].keys \subseteq entity'[Batch(w)[i].id].keys
  <2>1. CASE Batch(w)[i].keys = {}
    BY <2>1
  <2>2. CASE Batch(w)[i].keys # {}
    <3>1. /\ Batch(w)[i].id \in DOMAIN Docs(w)
          /\ Batch(w)[i].keys \subseteq Docs(w)[Batch(w)[i].id].keys
      BY <1>0, <2>2, DocsAre
    <3> QED
      BY <1>1, <1>3, <1>7, <3>1
  <2> QED
    BY <2>1, <2>2
<1> QED
  BY <1>4, <1>5, <1>6, <1>7

LEMMA BulkFailsFile ==
  ASSUME IInv, FileInv, NEW w \in Workers, BulkFails(w)
  PROVE  FileInv'
<1>0. w \in Goroutines
  BY DEF Goroutines
<1>1. /\ pc[w] = "Bulk" /\ Goto(w, "failed") /\ faulty' \in BOOLEAN
      /\ UNCHANGED <<partitions, vector, dropped, sent, vecs, put, again>>
  BY DEF BulkFails, milvusVars, fileVars, Fails, FileInv, FileOK
<1>2. CASE UNCHANGED entity
  <2>1. "failed" \in Calls /\ Follows(w, "failed")
    BY DEF Calls, Follows, Embedded, Body
  <2>2. /\ partitions' \subseteq {PartitionOf[v] : v \in Workers}
        /\ again' \in [Workers -> BOOLEAN] /\ UNCHANGED <<workVars, dropped>>
    BY <1>1, <1>2 DEF FileInv, FileOK, workVars
  <2> QED
    BY <1>0, <1>1, <2>1, <2>2, CallOnly
<1>3. CASE \E some \in SUBSET DOMAIN Docs(w) : entity' = Indexed(w, some)
  <2>1. PICK some \in SUBSET DOMAIN Docs(w) : entity' = Indexed(w, some)
    BY <1>3
  <2>2. /\ entity' \in [Ids -> [keys : SUBSET Keys, offset : Nat]]
        /\ ~dropped => \A c \in Ids : entity'[c] # NoDoc => vector[c] # None
        /\ ES => \A v \in Workers : \A i \in 1 .. sent[v] :
                   ~Elsewhere(v, i) => RowsOf[v][i].keys \subseteq entity'[RowsOf[v][i].id].keys
    BY <1>1, <2>1, EntityMoves
  <2>3. \A v \in Workers : Batch(v)' = Batch(v)
    BY <1>1 DEF Batch
  <2>4. FileOK'
    BY <1>1, <2>2, <2>3 DEF FileInv, FileOK
  <2>5. ASSUME NEW v \in Workers PROVE AtBatch(v)'
    <3>1. AtBatch(v)
      BY DEF FileInv
    <3>2. pc'[v] = IF v = w THEN "failed" ELSE pc[v]
      BY <1>1 DEF IInv, EnsureOK, Goto, Goroutines
    <3>3. "failed" \notin Embedded
      BY DEF Embedded, Body
    <3> QED
      BY <1>1, <2>3, <3>1, <3>2, <3>3 DEF AtBatch
  <2>6. VectorsAreOwn' /\ PutIsStored'
    BY <1>1 DEF FileInv, VectorsAreOwn, PutIsStored
  <2>7. KeysAreStored' /\ EntityHasVector'
    BY <1>1, <2>2 DEF KeysAreStored, EntityHasVector
  <2> QED
    BY <2>4, <2>5, <2>6, <2>7 DEF FileInv
<1> QED
  BY <1>2, <1>3 DEF BulkFails

\* The batch is counted: its rows are in Milvus, and now its keys are in ES.
LEMMA BulkFile ==
  ASSUME IInv, FileInv, NEW w \in Workers, Bulk(w)
  PROVE  FileInv'
<1>0. TypeOK /\ w \in Goroutines
  BY TypeIs DEF IInv, FileInv, Goroutines
<1>1. /\ pc[w] = "Bulk" /\ Goto(w, "read")
      /\ entity' = IF ES THEN Indexed(w, DOMAIN Docs(w)) ELSE entity
      /\ sent' = [sent EXCEPT ![w] = @ + Len(Batch(w))]
      /\ vecs' = [vecs EXCEPT ![w] = <<>>] /\ put' = [put EXCEPT ![w] = 0]
      /\ UNCHANGED <<partitions, vector, dropped, faulty, again>>
  BY DEF Bulk, CountBatch, milvusVars
<1>2. /\ entity' \in [Ids -> [keys : SUBSET Keys, offset : Nat]]
      /\ ~dropped => \A c \in Ids : entity'[c] # NoDoc => vector[c] # None
      /\ ES => \A v \in Workers : \A i \in 1 .. sent[v] :
                 ~Elsewhere(v, i) => RowsOf[v][i].keys \subseteq entity'[RowsOf[v][i].id].keys
      /\ ES => \A i \in 1 .. Len(Batch(w)) :
                 Batch(w)[i].keys \subseteq entity'[Batch(w)[i].id].keys
  <2>1. CASE ES
    BY <1>1, <2>1, EntityMoves
  <2>2. CASE ~ES
    BY <1>1, <2>2 DEF FileInv, FileOK, EntityHasVector
  <2> QED
    BY <2>1, <2>2
<1>3. /\ put[w] = Len(Batch(w)) /\ Len(Batch(w)) \in Nat /\ sent[w] \in Nat
      /\ sent[w] + Len(Batch(w)) <= Len(RowsOf[w])
      /\ sent[w] + Len(Batch(w)) = Len(RowsOf[w]) \/ Len(Batch(w)) = MaxBatch
      /\ \A i \in 1 .. Len(Batch(w)) : Batch(w)[i] = RowsOf[w][sent[w] + i]
  BY <1>0, <1>1, BatchIs DEF FileInv, AtBatch
<1>4. /\ sent'[w] = sent[w] + Len(Batch(w)) /\ put'[w] = 0 /\ vecs'[w] = <<>>
      /\ \A v \in Workers : v # w => /\ sent'[v] = sent[v] /\ put'[v] = put[v]
                                     /\ vecs'[v] = vecs[v] /\ Batch(v)' = Batch(v)
      /\ sent' \in [Workers -> Nat] /\ put' \in [Workers -> Nat]
      /\ vecs' \in [Workers -> Seq(Contents)]
  BY <1>1, <1>3 DEF FileInv, FileOK, Batch
<1>5. Len(Batch(w)') \in Nat
  <2>1. sent'[w] \in 0 .. Len(RowsOf[w])
    BY <1>3, <1>4, RowsAre
  <2>2. Batch(w)' = Slice(RowsOf[w], sent'[w], MaxBatch)
    BY DEF Batch
  <2> QED
    BY <2>1, <2>2, BatchAt
<1>6. FileOK'
  <2>1. ASSUME NEW v \in Workers
        PROVE  /\ sent'[v] <= Len(RowsOf[v])
               /\ Len(vecs'[v]) <= Len(Batch(v)') /\ put'[v] <= Len(Batch(v)')
    <3>1. CASE v = w
      <4>1. Len(<<>>) = 0
        OBVIOUS
      <4> QED
        BY <1>3, <1>4, <1>5, <3>1, <4>1
    <3>2. CASE v # w
      BY <1>4, <3>2 DEF FileInv, FileOK
    <3> QED
      BY <3>1, <3>2
  <2>2. /\ partitions' \subseteq {PartitionOf[v] : v \in Workers} /\ faulty' \in BOOLEAN
        /\ vector' \in [Ids -> Contents \cup {None}] /\ again' \in [Workers -> BOOLEAN]
    BY <1>1 DEF FileInv, FileOK
  <2> QED
    BY <1>2, <1>4, <2>1, <2>2 DEF FileOK
<1>7. ASSUME NEW v \in Workers PROVE AtBatch(v)'
  <2>1. AtBatch(v)
    BY DEF FileInv
  <2>2. CASE v = w
    <3>1. pc'[v] = "read"
      BY <1>0, <1>1, <2>2 DEF IInv, EnsureOK, Goto
    <3>2. "read" \notin Embedded
      BY DEF Embedded, Body
    <3>3. sent'[w] = Len(RowsOf[w]) \/ sent'[w] % MaxBatch = 0
      <4>1. CASE sent[w] + Len(Batch(w)) = Len(RowsOf[w])
        BY <1>4, <4>1
      <4>2. CASE Len(Batch(w)) = MaxBatch
        <5>1. MaxBatch \in Nat \ {0} /\ Len(RowsOf[w]) \in Nat
          BY BatchAssumption, RowsAre DEF Batches
        <5>2. sent[w] % MaxBatch = 0
          BY <1>3, <2>1, <2>2, <4>2, <5>1 DEF AtBatch
        <5> QED
          BY <1>3, <1>4, <4>2, <5>1, <5>2, WholeBatches
      <4> QED
        BY <1>3, <4>1, <4>2
    <3>4. \A i \in 1 .. Len(vecs'[w]) : vecs'[w][i] = Batch(w)'[i].text
      BY <1>4
    <3> QED
      BY <1>4, <2>2, <3>1, <3>2, <3>3, <3>4 DEF AtBatch
  <2>3. CASE v # w
    <3>1. pc'[v] = pc[v]
      BY <1>1, <2>3 DEF IInv, EnsureOK, Goto, Goroutines
    <3> QED
      BY <1>4, <2>1, <2>3, <3>1 DEF AtBatch
  <2> QED
    BY <2>2, <2>3
<1>8. VectorsAreOwn'
  BY <1>1 DEF FileInv, VectorsAreOwn
<1>9. PutIsStored'
  <2> SUFFICES ASSUME ~dropped, NEW v \in Workers, NEW i \in 1 .. sent'[v] + put'[v]
               PROVE  vector[RowsOf[v][i].id] # None
    BY <1>1 DEF PutIsStored
  <2>1. sent'[v] + put'[v] = sent[v] + put[v]
    <3>1. CASE v = w
      BY <1>3, <1>4, <3>1
    <3>2. CASE v # w
      BY <1>4, <3>2
    <3> QED
      BY <3>1, <3>2
  <2> QED
    BY <2>1 DEF FileInv, PutIsStored
<1>10. KeysAreStored'
  <2> SUFFICES ASSUME ES, NEW v \in Workers, NEW i \in 1 .. sent'[v], ~Elsewhere(v, i)
               PROVE  RowsOf[v][i].keys \subseteq entity'[RowsOf[v][i].id].keys
    BY DEF KeysAreStored
  <2>1. CASE i \in 1 .. sent[v]
    BY <1>2, <2>1
  <2>2. CASE i \notin 1 .. sent[v]
    <3>1. v = w
      BY <1>4, <2>2
    <3> DEFINE k == i - sent[w]
    <3>2. k \in 1 .. Len(Batch(w)) /\ i = sent[w] + k
      BY <1>3, <1>4, <2>2, <3>1
    <3> HIDE DEF k
    <3>3. Batch(w)[k] = RowsOf[w][i]
      BY <1>3, <3>2
    <3> QED
      BY <1>2, <3>1, <3>2, <3>3
  <2> QED
    BY <2>1, <2>2
<1>11. EntityHasVector'
  BY <1>1, <1>2 DEF EntityHasVector
<1> QED
  BY <1>6, <1>7, <1>8, <1>9, <1>10, <1>11 DEF FileInv

LEMMA DropFile == ASSUME IInv, FileInv, Drop PROVE FileInv'
<1>1. /\ dropped' = TRUE /\ partitions' = {} /\ vector' = [c \in Ids |-> None]
      /\ UNCHANGED <<entity, pc, sent, vecs, put, again>> /\ faulty' \in BOOLEAN
  BY DEF Drop, fileVars, FileInv, FileOK
<1>2. \A w \in Workers : Batch(w)' = Batch(w)
  BY <1>1 DEF Batch
<1>3. FileOK'
  BY <1>1, <1>2 DEF FileInv, FileOK
<1>4. \A w \in Workers : AtBatch(w)'
  BY <1>1, <1>2 DEF FileInv, AtBatch
<1>5. VectorsAreOwn' /\ PutIsStored' /\ KeysAreStored' /\ EntityHasVector'
  BY <1>1 DEF FileInv, VectorsAreOwn, PutIsStored, KeysAreStored, EntityHasVector
<1> QED
  BY <1>3, <1>4, <1>5 DEF FileInv

LEMMA StutterFile == ASSUME FileInv, UNCHANGED vars PROVE FileInv'
<1>1. /\ UNCHANGED <<partitions, vector, dropped, entity, faulty>>
      /\ UNCHANGED <<pc, sent, vecs, put, again>>
  BY DEF vars, milvusVars, fileVars
<1>2. \A w \in Workers : Batch(w)' = Batch(w)
  BY <1>1 DEF Batch
<1>3. FileOK'
  BY <1>1, <1>2 DEF FileInv, FileOK
<1>4. \A w \in Workers : AtBatch(w)'
  BY <1>1, <1>2 DEF FileInv, AtBatch
<1>5. VectorsAreOwn' /\ PutIsStored' /\ KeysAreStored' /\ EntityHasVector'
  BY <1>1 DEF FileInv, VectorsAreOwn, PutIsStored, KeysAreStored, EntityHasVector
<1> QED
  BY <1>3, <1>4, <1>5 DEF FileInv

LEMMA NextFile == IInv /\ FileInv /\ [Next]_vars => FileInv'
<1> SUFFICES ASSUME IInv, FileInv, [Next]_vars PROVE FileInv'
  OBVIOUS
<1>1. ASSUME NEW g \in Goroutines, EnsureCollection(g) PROVE FileInv'
  BY <1>1, EnsureFile
<1>2. ASSUME NEW w \in Workers, WriteFile(w) PROVE FileInv'
  <2>1. CASE Start(w) \/ NextBatch(w) \/ EmbedFails(w) \/ HasPartition(w) \/ CreatePartition(w)
               \/ Invalidate(w)
    BY <2>1, CallFile
  <2>2. CASE Embed(w)
    BY <2>2, EmbedFile
  <2>3. CASE Upsert(w)
    BY <2>3, UpsertFile
  <2>4. CASE UpsertFails(w)
    BY <2>4, UpsertFailsFile
  <2>5. CASE Bulk(w)
    BY <2>5, BulkFile
  <2>6. CASE BulkFails(w)
    BY <2>6, BulkFailsFile
  <2> QED
    BY <1>2, <2>1, <2>2, <2>3, <2>4, <2>5, <2>6 DEF WriteFile
<1>3. CASE Drop
  BY <1>3, DropFile
<1>4. CASE UNCHANGED vars
  BY <1>4, StutterFile
<1> QED
  BY <1>1, <1>2, <1>3, <1>4 DEF Next

\* What is done of the files and what the stores hold, together: the invariant the
\* theorems below rest on.
THEOREM FilesHold == Spec => [](IInv /\ FileInv)
<1>1. Init => IInv /\ FileInv
  BY InitInv, InitFileInv
<1>2. (IInv /\ FileInv) /\ [Next]_vars => (IInv /\ FileInv)'
  BY NextInv, NextFile
<1> QED
  BY <1>1, <1>2, PTL DEF Spec

(***************************************************************************)
(* The type invariant, with the bounds of what is done of a file: as many  *)
(* vectors as the batch has texts, as many rows put as it has rows.        *)
(***************************************************************************)
THEOREM TypeCorrect == Spec => []TypeOK
<1>1. IInv /\ FileInv => TypeOK
  BY TypeIs DEF IInv, FileInv
<1> QED
  BY FilesHold, <1>1, PTL

(***************************************************************************)
(* ES has no document of a chunk that Milvus has no row for, at whatever   *)
(* call a file fails, until the collection is dropped.                     *)
(***************************************************************************)
THEOREM EntityHasVectorHolds == Spec => []EntityHasVector
<1>1. IInv /\ FileInv => EntityHasVector
  BY DEF FileInv
<1> QED
  BY FilesHold, <1>1, PTL

(***************************************************************************)
(* The rows that count as written are in the stores, each with the vector  *)
(* of its own text and all its keys: whatever the order the embedder       *)
(* answers in, and whatever the sizes of batches and requests.             *)
(***************************************************************************)
THEOREM WrittenIsStoredHolds == Spec => []WrittenIsStored
<1>1. ASSUME IInv, FileInv PROVE WrittenIsStored
  <2> SUFFICES ASSUME NEW w \in Workers, NEW i \in 1 .. sent[w], ~Elsewhere(w, i)
               PROVE  /\ ~dropped => \E k \in DOMAIN RowsOf[w] :
                                       /\ RowsOf[w][k].id = RowsOf[w][i].id
                                       /\ vector[RowsOf[w][i].id] = RowsOf[w][k].text
                      /\ ES => RowsOf[w][i].keys \subseteq entity[RowsOf[w][i].id].keys
    BY DEF WrittenIsStored
  <2>1. TypeOK
    BY <1>1, TypeIs DEF IInv, FileInv
  <2>2. sent[w] \in Nat /\ put[w] \in Nat /\ i \in 1 .. Len(RowsOf[w])
    BY <2>1, RowsAre DEF TypeOK
  <2>3. RowsOf[w][i].id \in Ids
    BY <2>2, RowsAre DEF IsRow
  <2>4. ASSUME ~dropped
        PROVE  \E k \in DOMAIN RowsOf[w] : /\ RowsOf[w][k].id = RowsOf[w][i].id
                                           /\ vector[RowsOf[w][i].id] = RowsOf[w][k].text
    <3>1. i \in 1 .. sent[w] + put[w]
      BY <2>2
    <3>2. vector[RowsOf[w][i].id] # None
      BY <1>1, <2>4, <3>1 DEF FileInv, PutIsStored
    <3>3. PICK v \in Workers :
            \E k \in DOMAIN RowsOf[v] : /\ RowsOf[v][k].id = RowsOf[w][i].id
                                        /\ RowsOf[v][k].text = vector[RowsOf[w][i].id]
      BY <1>1, <2>3, <3>2 DEF FileInv, VectorsAreOwn
    <3>4. PICK k \in DOMAIN RowsOf[v] : /\ RowsOf[v][k].id = RowsOf[w][i].id
                                        /\ RowsOf[v][k].text = vector[RowsOf[w][i].id]
      BY <3>3
    <3>5. <<v, (k - 1) \div MaxBatch>> = <<w, (i - 1) \div MaxBatch>>
      BY <3>4 DEF Elsewhere
    <3>6. v = w
      BY <3>5
    <3> QED
      BY <3>4, <3>6
  <2>5. ES => RowsOf[w][i].keys \subseteq entity[RowsOf[w][i].id].keys
    BY <1>1 DEF FileInv, KeysAreStored
  <2> QED
    BY <2>4, <2>5
<1>2. IInv /\ FileInv => WrittenIsStored
  BY <1>1
<1> QED
  BY FilesHold, <1>2, PTL

-----------------------------------------------------------------------------
(***************************************************************************)
(* Healing.  While every call works, a goroutine finds the collection as   *)
(* it has left it.                                                         *)
(***************************************************************************)
BodyReady(g) ==
  /\ pc[g] \in {"DescribeIndex", "CreateIndex"} => collection # "absent"
  /\ pc[g] = "LoadCollection" => collection \in {"indexed", "loaded"}

\* So does a worker, unless the collection was dropped; and a second attempt is made
\* after the one drop there is.
WriteReady(w) ==
  /\ pc[w] \in {"HasPartition", "CreatePartition", "Upsert"} /\ ~dropped => collection = "loaded"
  /\ pc[w] = "CreatePartition" => PartitionOf[w] # Default
  /\ pc[w] = "Upsert" /\ ~dropped => PartitionOf[w] \in partitions \cup {Default}
  /\ pc[w] = "Invalidate" => dropped
  /\ again[w] => dropped /\ pc[w] \in Body \cup {"Lock", "Upsert", "failed"}
  /\ again[w] /\ pc[w] = "Lock" /\ ensured[Proc(w)] => collection = "loaded"
  /\ again[w] /\ pc[w] = "Upsert" => collection = "loaded"

HealInv ==
  ~faulty => /\ \A g \in Goroutines : BodyReady(g)
             /\ \A w \in Workers : WriteReady(w) /\ (pc[w] = "failed" => Excusable(w))

LEMMA InitHeal == Init => HealInv
<1> SUFFICES ASSUME Init PROVE HealInv
  OBVIOUS
<1>1. \A g \in Goroutines : pc[g] \in {"Lock", "start"}
  BY DEF Init
<1>2. \A w \in Workers : w \in Goroutines /\ again[w] = FALSE
  BY DEF Init, Goroutines
<1> QED
  BY <1>1, <1>2 DEF HealInv, BodyReady, WriteReady

\* The excuse of a file stands.
LEMMA ExcuseStays ==
  ASSUME NEW w \in Workers, Excusable(w), sent'[w] = sent[w], dropped => dropped'
  PROVE  Excusable(w)'
<1>1. Batch(w)' = Batch(w)
  BY DEF Batch
<1>2. Conflict(w)' = Conflict(w)
  BY <1>1 DEF Conflict, Keyed
<1> QED
  BY <1>1, <1>2 DEF Excusable

(***************************************************************************)
(* A step of one goroutine that takes nothing away from the collection and *)
(* that sets a flag only when the collection is loaded: the others find    *)
(* what they found before.                                                 *)
(***************************************************************************)
Grows ==
  /\ collection # "absent" => collection' # "absent"
  /\ collection \in {"indexed", "loaded"} => collection' \in {"indexed", "loaded"}
  /\ collection = "loaded" => collection' = "loaded"
  /\ partitions \subseteq partitions'
  /\ dropped' = dropped
  /\ \A p \in Procs : ensured'[p] => ensured[p] \/ collection' = "loaded"

LEMMA HealStep ==
  ASSUME HealInv, NEW g \in Goroutines, Grows, faulty => faulty',
         \A h \in Goroutines : h # g => pc'[h] = pc[h],
         \A w \in Workers : w # g => sent'[w] = sent[w] /\ again'[w] = again[w],
         ~faulty' => /\ BodyReady(g)'
                     /\ g \in Workers => WriteReady(g)' /\ (pc'[g] = "failed" => Excusable(g)')
  PROVE  HealInv'
<1> SUFFICES ASSUME ~faulty'
             PROVE  /\ \A h \in Goroutines : BodyReady(h)'
                    /\ \A w \in Workers : WriteReady(w)' /\ (pc'[w] = "failed" => Excusable(w)')
  BY DEF HealInv
<1>0. ~faulty
  OBVIOUS
<1>1. ASSUME NEW h \in Goroutines, h # g PROVE BodyReady(h)'
  <2>1. BodyReady(h) /\ pc'[h] = pc[h]
    BY <1>0, <1>1 DEF HealInv
  <2> QED
    BY <2>1 DEF BodyReady, Grows
<1>2. ASSUME NEW w \in Workers, w # g PROVE WriteReady(w)' /\ (pc'[w] = "failed" => Excusable(w)')
  <2>1. /\ WriteReady(w) /\ (pc[w] = "failed" => Excusable(w))
        /\ pc'[w] = pc[w] /\ sent'[w] = sent[w] /\ again'[w] = again[w]
    BY <1>0, <1>2 DEF HealInv, Goroutines
  <2>2. Proc(w) \in Procs
    BY GoroutineAssumption DEF Proc, Goroutines
  <2>3. WriteReady(w)'
    BY <2>1, <2>2 DEF WriteReady, Grows
  <2>4. pc'[w] = "failed" => Excusable(w)'
    BY <2>1, ExcuseStays DEF Grows
  <2> QED
    BY <2>3, <2>4
<1> QED
  BY <1>1, <1>2

\* What Goto and the other assignments of a step of g leave to the others.
LEMMA OthersStay ==
  ASSUME IInv, FileInv, NEW g \in Goroutines, NEW call, Goto(g, call)
  PROVE  pc'[g] = call /\ \A h \in Goroutines : h # g => pc'[h] = pc[h]
BY DEF IInv, EnsureOK, Goto

LEMMA EnsureHeals ==
  ASSUME IInv, FileInv, HealInv, NEW g \in Goroutines, EnsureCollection(g)
  PROVE  HealInv'
<1>0. /\ collection \in {"absent", "created", "indexed", "loaded"}
      /\ ensured \in [Procs -> BOOLEAN] /\ Proc(g) \in Procs
  BY GoroutineAssumption DEF IInv, EnsureOK, Proc
<1>1. /\ UNCHANGED <<partitions, dropped, sent, again>> /\ (faulty => faulty')
  <2>1. UNCHANGED <<partitions, dropped, sent, again>>
    BY DEF EnsureCollection, Lock, HasCollection, CreateCollection, DescribeIndex, CreateIndex,
           LoadCollection, EnsureFails, milvusVars, fileVars
  <2>2. faulty' = TRUE \/ faulty' = faulty
    BY DEF EnsureCollection, Lock, HasCollection, CreateCollection, DescribeIndex, CreateIndex,
           LoadCollection, EnsureFails, Fails
  <2> QED
    BY <2>1, <2>2
<1>2. Grows
  <2>1. CASE Lock(g) \/ HasCollection(g) \/ DescribeIndex(g)
    BY <1>1, <2>1 DEF Lock, HasCollection, DescribeIndex, milvusVars, flagVars, Grows
  <2>2. CASE CreateCollection(g) \/ CreateIndex(g)
    BY <1>0, <1>1, <2>2 DEF CreateCollection, CreateIndex, flagVars, Grows
  <2>3. CASE LoadCollection(g) \/ EnsureFails(g)
    BY <1>0, <1>1, <2>3 DEF LoadCollection, EnsureFails, Unlock, milvusVars, Grows
  <2> QED
    BY <2>1, <2>2, <2>3 DEF EnsureCollection
<1>3. \A h \in Goroutines : h # g => pc'[h] = pc[h]
  <2>1. \E call \in Body \cup {AfterEnsure(g), "failed"} : Goto(g, call)
    BY DEF EnsureCollection, Lock, HasCollection, CreateCollection, DescribeIndex, CreateIndex,
           LoadCollection, EnsureFails, Body
  <2> QED
    BY <2>1, OthersStay
<1>4. ASSUME ~faulty'
      PROVE  /\ BodyReady(g)'
             /\ g \in Workers => WriteReady(g)' /\ (pc'[g] = "failed" => Excusable(g)')
  <2>0. BodyReady(g) /\ (g \in Workers => WriteReady(g))
    BY <1>1, <1>4 DEF HealInv
  <2>1. g \in Workers => again[g] \in BOOLEAN
    BY DEF FileInv, FileOK
  <2>2. g \in Workers => AfterEnsure(g) = IF again[g] THEN "Upsert" ELSE "HasPartition"
    BY GoroutineAssumption DEF AfterEnsure
  <2>3. AfterEnsure(g) \in {"done", "Upsert", "HasPartition"}
    BY DEF AfterEnsure
  <2>4. CASE Lock(g)
    <3>1. CASE g \in Workers /\ ensured[Proc(g)]
      <4>1. pc'[g] = AfterEnsure(g)
        BY <2>4, <3>1, OthersStay DEF Lock
      <4>2. ~dropped => collection = "loaded"
        BY <1>0, <3>1 DEF IInv, FlagIsHonest
      <4>3. UNCHANGED <<collection, ensured>> /\ pc[g] = "Lock"
        BY <2>4 DEF Lock, milvusVars
      <4>4. WriteReady(g)'
        BY <1>1, <2>0, <2>1, <2>2, <3>1, <4>1, <4>2, <4>3 DEF WriteReady
      <4>5. BodyReady(g)' /\ pc'[g] # "failed"
        BY <2>3, <4>1 DEF BodyReady
      <4> QED
        BY <4>4, <4>5
    <3>2. CASE ~(g \in Workers /\ ensured[Proc(g)])
      <4>1. pc'[g] = "HasCollection" /\ pc[g] = "Lock"
        BY <2>4, <3>2, OthersStay DEF Lock
      <4>2. "HasCollection" \in Body
        BY DEF Body
      <4> QED
        BY <1>1, <2>0, <4>1, <4>2 DEF BodyReady, WriteReady
    <3> QED
      BY <3>1, <3>2
  <2>5. CASE HasCollection(g) \/ CreateCollection(g) \/ DescribeIndex(g) \/ CreateIndex(g)
    <3>1. pc[g] \in Body /\ pc'[g] \in Body
      BY <2>5, OthersStay DEF HasCollection, CreateCollection, DescribeIndex, CreateIndex, Body
    <3>2. BodyReady(g)'
      <4>1. CASE HasCollection(g)
        <5>1. pc'[g] = IF collection = "absent" THEN "CreateCollection" ELSE "DescribeIndex"
          BY <4>1, OthersStay DEF HasCollection
        <5> QED
          BY <4>1, <5>1 DEF HasCollection, BodyReady, milvusVars
      <4>2. CASE CreateCollection(g)
        <5>1. pc'[g] = "DescribeIndex"
          BY <4>2, OthersStay DEF CreateCollection
        <5> QED
          BY <4>2, <5>1 DEF CreateCollection, BodyReady
      <4>3. CASE DescribeIndex(g)
        <5>1. collection # "absent" /\ UNCHANGED collection
          BY <2>0, <4>3 DEF DescribeIndex, BodyReady, milvusVars
        <5>2. \/ collection \in {"indexed", "loaded"} /\ pc'[g] = "LoadCollection"
              \/ pc'[g] = "CreateIndex"
          BY <4>3, OthersStay DEF DescribeIndex
        <5> QED
          BY <5>1, <5>2 DEF BodyReady
      <4>4. CASE CreateIndex(g)
        <5>1. pc'[g] = "LoadCollection"
          BY <4>4, OthersStay DEF CreateIndex
        <5> QED
          BY <1>0, <4>4, <5>1 DEF CreateIndex, BodyReady
      <4> QED
        BY <2>5, <4>1, <4>2, <4>3, <4>4
    <3>3. pc'[g] \notin {"HasPartition", "CreatePartition", "Upsert", "Invalidate", "Lock", "failed"}
      BY <3>1 DEF Body
    <3>4. g \in Workers => WriteReady(g)'
      BY <1>1, <2>0, <3>1, <3>3 DEF WriteReady
    <3> QED
      BY <3>2, <3>3, <3>4
  <2>6. CASE LoadCollection(g)
    <3>1. pc'[g] = AfterEnsure(g) /\ collection' = "loaded"
      BY <2>6, OthersStay DEF LoadCollection
    <3>2. g \in Workers => WriteReady(g)'
      BY <1>1, <2>0, <2>1, <2>2, <3>1 DEF WriteReady
    <3> QED
      BY <2>3, <3>1, <3>2 DEF BodyReady
  <2>7. CASE EnsureFails(g)
    BY <1>0, <1>4, <2>0, <2>7 DEF EnsureFails, BodyReady, Fails
  <2> QED
    BY <2>4, <2>5, <2>6, <2>7 DEF EnsureCollection
<1> QED
  BY <1>1, <1>2, <1>3, <1>4, HealStep

\* A call of a worker that changes nothing of the collection: what is left to show is
\* that the worker itself finds what it needs at its next call.
LEMMA WorkerHeals ==
  ASSUME IInv, FileInv, HealInv, NEW w \in Workers, NEW call, Goto(w, call), call \notin Body,
         UNCHANGED <<collection, dropped>>, partitions \subseteq partitions',
         \A p \in Procs : ensured'[p] => ensured[p],
         faulty' = TRUE \/ faulty' = faulty,
         \A v \in Workers : v # w => sent'[v] = sent[v] /\ again'[v] = again[v],
         ~faulty' => WriteReady(w)' /\ (call = "failed" => Excusable(w)')
  PROVE  HealInv'
<1>1. w \in Goroutines
  BY DEF Goroutines
<1>2. pc'[w] = call /\ \A h \in Goroutines : h # w => pc'[h] = pc[h]
  BY <1>1, OthersStay
<1>3. Grows
  BY DEF Grows
<1>4. BodyReady(w)'
  BY <1>2 DEF BodyReady, Body
<1>5. faulty => faulty'
  OBVIOUS
<1> QED
  BY <1>1, <1>2, <1>3, <1>4, <1>5, HealStep

\* The calls that embed and that count the batch.
LEMMA BatchHeals ==
  ASSUME IInv, FileInv, HealInv, NEW w \in Workers,
         Start(w) \/ NextBatch(w) \/ Embed(w) \/ EmbedFails(w) \/ Bulk(w) \/ BulkFails(w)
  PROVE  HealInv'
<1>1. /\ UNCHANGED <<collection, dropped, partitions, ensured, again>>
      /\ faulty' = TRUE \/ faulty' = faulty
      /\ \A v \in Workers : v # w => sent'[v] = sent[v]
  <2>1. UNCHANGED <<collection, dropped, partitions, ensured, again>>
    BY DEF Start, NextBatch, Embed, EmbedFails, Bulk, BulkFails, milvusVars, flagVars, fileVars
  <2>2. faulty' = TRUE \/ faulty' = faulty
    BY DEF Start, NextBatch, Embed, EmbedFails, Bulk, BulkFails, Fails
  <2>3. \A v \in Workers : v # w => sent'[v] = sent[v]
    BY DEF Start, NextBatch, Embed, EmbedFails, Bulk, BulkFails, fileVars, CountBatch, FileInv,
           FileOK
  <2> QED
    BY <2>1, <2>2, <2>3
<1>2. pc[w] \in {"start", "read", "Embed", "Bulk"}
  BY DEF Start, NextBatch, Embed, EmbedFails, Bulk, BulkFails
<1>3. \E call \in {"read", "failed", "done", "Embed", "Lock"} : Goto(w, call)
  BY DEF Start, NextBatch, Embed, EmbedFails, Bulk, BulkFails
<1>4. PICK call \in {"read", "failed", "done", "Embed", "Lock"} : Goto(w, call)
  BY <1>3
<1>5. pc'[w] = call
  BY <1>4, OthersStay DEF Goroutines
<1>6. ASSUME ~faulty' PROVE WriteReady(w)'
  <2>1. again[w] => FALSE
    BY <1>1, <1>2, <1>6 DEF HealInv, WriteReady, Body
  <2> QED
    BY <1>1, <1>5, <2>1 DEF WriteReady
<1>7. ASSUME ~faulty', call = "failed" PROVE Excusable(w)'
  <2>1. CASE NextBatch(w)
    <3>1. Goto(w, IF w \in BadEnd /\ Len(RowsOf[w]) - sent[w] < MaxBatch THEN "failed"
                  ELSE IF Len(RowsOf[w]) - sent[w] = 0 THEN "done" ELSE "Embed")
      BY <2>1 DEF NextBatch
    <3>2. w \in BadEnd /\ Len(RowsOf[w]) - sent[w] < MaxBatch
      BY <3>1, <1>5, <1>7, OthersStay DEF Goroutines
    <3>3. Excusable(w) /\ sent'[w] = sent[w]
      BY <2>1, <3>2 DEF Excusable, NextBatch, fileVars
    <3> QED
      BY <1>1, <3>3, ExcuseStays
  <2>2. CASE BulkFails(w)
    <3>1. ES /\ Conflict(w) /\ sent'[w] = sent[w]
      BY <1>7, <2>2 DEF BulkFails, Fails, fileVars
    <3>2. Excusable(w)
      BY <3>1 DEF Excusable
    <3> QED
      BY <1>1, <3>1, <3>2, ExcuseStays
  <2>3. CASE Start(w) \/ Embed(w) \/ EmbedFails(w) \/ Bulk(w)
    <3>1. faulty' = TRUE \/ \E next \in {"read", "Embed", "Lock"} : Goto(w, next)
      BY <2>3 DEF Start, Embed, EmbedFails, Bulk, Fails
    <3>2. \E next \in {"read", "Embed", "Lock"} : pc'[w] = next
      BY <1>7, <3>1, OthersStay DEF Goroutines
    <3> QED
      BY <1>5, <1>7, <3>2
  <2> QED
    BY <2>1, <2>2, <2>3
<1>8. call \notin Body
  BY <1>4 DEF Body
<1> QED
  BY <1>1, <1>4, <1>6, <1>7, <1>8, WorkerHeals

\* EnsurePartition.
LEMMA PartitionHeals ==
  ASSUME IInv, FileInv, HealInv, NEW w \in Workers, HasPartition(w) \/ CreatePartition(w)
  PROVE  HealInv'
<1>1. /\ UNCHANGED <<collection, dropped, ensured, again, sent>>
      /\ faulty' = TRUE \/ faulty' = faulty
      /\ partitions \subseteq partitions'
  BY DEF HasPartition, CreatePartition, milvusVars, flagVars, fileVars, Fails
<1>2. pc[w] \in {"HasPartition", "CreatePartition"}
  BY DEF HasPartition, CreatePartition
<1>3. AfterPartition(w) \in {"Upsert", "failed"}
  BY DEF AfterPartition
<1>4. \E call \in {AfterPartition(w), "CreatePartition", "failed"} : Goto(w, call)
  BY DEF HasPartition, CreatePartition
<1>5. PICK call \in {AfterPartition(w), "CreatePartition", "failed"} : Goto(w, call)
  BY <1>4
<1>6. pc'[w] = call
  BY <1>5, OthersStay DEF Goroutines
<1>7. ASSUME ~faulty' PROVE WriteReady(w)' /\ (call = "failed" => Excusable(w)')
  <2>1. WriteReady(w) /\ ~again[w] /\ (~dropped => collection = "loaded")
    BY <1>1, <1>2, <1>7 DEF HealInv, WriteReady, Body
  <2>2. AfterPartition(w) = "failed" => Excusable(w)
    BY DEF AfterPartition, Excusable
  <2>3. \/ /\ call = AfterPartition(w)
           /\ PartitionOf[w] \in partitions' \cup {Default}
        \/ call = "CreatePartition" /\ PartitionOf[w] # Default
        \/ call = "failed" /\ collection = "absent" /\ PartitionOf[w] # Default
    <3>1. CASE HasPartition(w)
      <4>1. CASE PartitionOf[w] = Default
        <5>1. Goto(w, AfterPartition(w))
          BY <3>1, <4>1 DEF HasPartition
        <5> QED
          BY <1>6, <4>1, <5>1, OthersStay DEF Goroutines
      <4>2. CASE PartitionOf[w] # Default
        <5>1. /\ Goto(w, IF collection = "absent" THEN "failed"
                         ELSE IF PartitionOf[w] \in partitions THEN AfterPartition(w)
                         ELSE "CreatePartition")
              /\ UNCHANGED partitions
          BY <1>7, <3>1, <4>2 DEF HasPartition, Fails, milvusVars
        <5> QED
          BY <1>6, <4>2, <5>1, OthersStay DEF Goroutines
      <4> QED
        BY <4>1, <4>2
    <3>2. CASE CreatePartition(w)
      <4>1. PartitionOf[w] # Default
        BY <2>1, <3>2 DEF CreatePartition, WriteReady
      <4>2. \/ partitions' = partitions \cup {PartitionOf[w]} /\ Goto(w, AfterPartition(w))
            \/ collection = "absent" /\ Goto(w, "failed")
        BY <1>7, <3>2 DEF CreatePartition, Fails
      <4> QED
        BY <1>6, <4>1, <4>2, OthersStay DEF Goroutines
    <3> QED
      BY <3>1, <3>2
  <2>4. WriteReady(w)'
    BY <1>1, <1>3, <1>6, <2>1, <2>3 DEF WriteReady
  <2>5. call = "failed" => Excusable(w)
    BY <2>1, <2>2, <2>3 DEF Excusable
  <2>6. call = "failed" => Excusable(w)'
    BY <1>1, <2>5, ExcuseStays
  <2> QED
    BY <2>4, <2>6
<1>8. call \notin Body
  BY <1>3, <1>5 DEF Body
<1> QED
  BY <1>1, <1>5, <1>7, <1>8, WorkerHeals

\* writeChunks: a request that finds the collection missing is the first one, and
\* finds it so because it was dropped.
LEMMA WriteHeals ==
  ASSUME IInv, FileInv, HealInv, NEW w \in Workers, Upsert(w) \/ UpsertFails(w) \/ Invalidate(w)
  PROVE  HealInv'
<1>0. /\ w \in Goroutines /\ Proc(w) \in Procs /\ ensured \in [Procs -> BOOLEAN]
      /\ again \in [Workers -> BOOLEAN]
  BY GoroutineAssumption DEF Goroutines, Proc, IInv, EnsureOK, FileInv, FileOK
<1>1. UNCHANGED <<collection, dropped, partitions, sent>> /\ (faulty' = TRUE \/ faulty' = faulty)
  BY DEF Upsert, UpsertFails, Invalidate, milvusVars, fileVars, Fails
<1>2. \A p \in Procs : ensured'[p] => ensured[p]
  BY <1>0 DEF Upsert, UpsertFails, Invalidate, Invalidated, flagVars
<1>3. \A v \in Workers : v # w => again'[v] = again[v]
  BY <1>0 DEF Upsert, UpsertFails, Invalidate, fileVars
<1>4. \E call \in {"Bulk", "Upsert", "failed", "Invalidate", "Lock"} : Goto(w, call)
  BY DEF Upsert, UpsertFails, Invalidate
<1>5. PICK call \in {"Bulk", "Upsert", "failed", "Invalidate", "Lock"} : Goto(w, call)
  BY <1>4
<1>6. pc'[w] = call
  BY <1>0, <1>5, OthersStay
<1>7. ASSUME ~faulty' PROVE WriteReady(w)' /\ (call = "failed" => Excusable(w)')
  <2>1. WriteReady(w)
    BY <1>1, <1>7 DEF HealInv
  <2>2. CASE Upsert(w)
    <3>1. pc[w] = "Upsert" /\ again'[w] = FALSE
      BY <1>0, <2>2 DEF Upsert
    <3>2. \E next \in {"Bulk", "Upsert"} : Goto(w, next)
      BY <2>2 DEF Upsert
    <3>3. pc'[w] \in {"Bulk", "Upsert"}
      BY <1>0, <3>2, OthersStay
    <3> QED
      BY <1>1, <1>6, <2>1, <3>1, <3>3 DEF WriteReady
  <2>3. CASE UpsertFails(w)
    <3>1. pc[w] = "Upsert" /\ UNCHANGED <<again, ensured>>
      BY <2>3 DEF UpsertFails, fileVars, flagVars
    <3>2. \/ collection = "absent" /\ Goto(w, IF again[w] THEN "failed" ELSE "Invalidate")
          \/ collection # "absent" /\ ~Reachable(w) /\ Goto(w, "failed")
      BY <1>7, <2>3 DEF UpsertFails, Fails
    <3>3. CASE collection = "absent" /\ Goto(w, IF again[w] THEN "failed" ELSE "Invalidate")
      <4>1. ~again[w] /\ dropped
        BY <2>1, <3>1, <3>3 DEF WriteReady
      <4>2. pc'[w] = "Invalidate"
        BY <1>0, <3>3, <4>1, OthersStay
      <4> QED
        BY <1>1, <1>6, <3>1, <4>1, <4>2 DEF WriteReady
    <3>4. CASE collection # "absent" /\ ~Reachable(w) /\ Goto(w, "failed")
      <4>1. pc'[w] = "failed"
        BY <1>0, <3>4, OthersStay
      <4>2. dropped /\ PartitionOf[w] # Default
        BY <2>1, <3>1, <3>4 DEF WriteReady, Reachable
      <4>3. WriteReady(w)'
        BY <1>1, <3>1, <4>1, <4>2 DEF WriteReady
      <4>4. Excusable(w)'
        BY <1>1, <4>2 DEF Excusable
      <4> QED
        BY <4>3, <4>4
    <3> QED
      BY <3>2, <3>3, <3>4
  <2>4. CASE Invalidate(w)
    <3>1. /\ pc[w] = "Invalidate" /\ Goto(w, "Lock") /\ again'[w] = TRUE
          /\ ensured'[Proc(w)] = FALSE
      BY <1>0, <2>4 DEF Invalidate, Invalidated
    <3>2. pc'[w] = "Lock"
      BY <1>0, <3>1, OthersStay
    <3> QED
      BY <1>1, <1>6, <2>1, <3>1, <3>2 DEF WriteReady, Proc
  <2> QED
    BY <2>2, <2>3, <2>4
<1>8. call \notin Body
  BY <1>5 DEF Body
<1> QED
  BY <1>1, <1>2, <1>3, <1>5, <1>7, <1>8, WorkerHeals

\* A drop that no goroutine is in the way of.
LEMMA DropHeals == ASSUME IInv, FileInv, HealInv, Drop PROVE HealInv'
<1> SUFFICES ASSUME ~faulty'
             PROVE  /\ \A g \in Goroutines : BodyReady(g)'
                    /\ \A w \in Workers : WriteReady(w)' /\ (pc'[w] = "failed" => Excusable(w)')
  BY DEF HealInv
<1>1. /\ ~faulty /\ \A g \in Goroutines : pc[g] \notin Body
      /\ ~dropped /\ dropped' = TRUE /\ UNCHANGED <<pc, sent, again>>
  BY DEF Drop, fileVars
<1>2. ASSUME NEW g \in Goroutines PROVE BodyReady(g)'
  BY <1>1 DEF BodyReady, Body
<1>3. ASSUME NEW w \in Workers PROVE WriteReady(w)' /\ (pc'[w] = "failed" => Excusable(w)')
  <2>1. WriteReady(w) /\ (pc[w] = "failed" => Excusable(w))
    BY <1>1 DEF HealInv
  <2>2. WriteReady(w)'
    BY <1>1, <2>1 DEF WriteReady
  <2>3. pc'[w] = "failed" => Excusable(w)'
    BY <1>1, <2>1, ExcuseStays
  <2> QED
    BY <2>2, <2>3
<1> QED
  BY <1>2, <1>3

LEMMA StutterHeals == ASSUME HealInv, UNCHANGED vars PROVE HealInv'
<1>1. UNCHANGED <<collection, partitions, dropped, faulty, ensured, pc, sent, again>>
  BY DEF vars, milvusVars, flagVars, fileVars
<1>2. ASSUME NEW w \in Workers PROVE Excusable(w) => Excusable(w)'
  BY <1>1, ExcuseStays
<1>3. \A g \in Goroutines : BodyReady(g) => BodyReady(g)'
  BY <1>1 DEF BodyReady
<1>4. \A w \in Workers : WriteReady(w) => WriteReady(w)'
  BY <1>1 DEF WriteReady
<1> QED
  BY <1>1, <1>2, <1>3, <1>4 DEF HealInv

LEMMA NextHeals == IInv /\ FileInv /\ HealInv /\ [Next]_vars => HealInv'
<1> SUFFICES ASSUME IInv, FileInv, HealInv, [Next]_vars PROVE HealInv'
  OBVIOUS
<1>1. ASSUME NEW g \in Goroutines, EnsureCollection(g) PROVE HealInv'
  BY <1>1, EnsureHeals
<1>2. ASSUME NEW w \in Workers, WriteFile(w) PROVE HealInv'
  BY <1>2, BatchHeals, PartitionHeals, WriteHeals DEF WriteFile
<1>3. CASE Drop
  BY <1>3, DropHeals
<1>4. CASE UNCHANGED vars
  BY <1>4, StutterHeals
<1> QED
  BY <1>1, <1>2, <1>3, <1>4 DEF Next

(***************************************************************************)
(* When every call works, a drop of the collection fails no file but those *)
(* that have something else to fail for: a row that does not validate or   *)
(* parse, rows that disagree, or a named partition that went with it.      *)
(***************************************************************************)
THEOREM DropIsHealedHolds == Spec => []DropIsHealed
<1>1. Init => IInv /\ FileInv /\ HealInv
  BY InitInv, InitFileInv, InitHeal
<1>2. (IInv /\ FileInv /\ HealInv) /\ [Next]_vars => (IInv /\ FileInv /\ HealInv)'
  BY NextInv, NextFile, NextHeals
<1>3. IInv /\ FileInv /\ HealInv => DropIsHealed
  BY DEF HealInv, DropIsHealed
<1> QED
  BY <1>1, <1>2, <1>3, PTL DEF Spec

=============================================================================
