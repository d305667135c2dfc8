------------------------------- MODULE Runner -------------------------------
(***************************************************************************)
(* Writing a file: Runner takes its chunk rows batch by batch, has them    *)
(* embedded over HTTP, upserts them into the Milvus collection and then    *)
(* indexes their entity keys in Elasticsearch.  The collection is created  *)
(* on demand: the goroutines of a process share a flag that says it is     *)
(* ready and a mutex around making it so, and every write that finds it    *)
(* missing clears the flag and tries again once.  API and importers are    *)
(* processes of their own, and an operator may drop the collection.        *)
(*                                                                         *)
(* Every call to the embedder, Milvus or ES is one action.                 *)
(***************************************************************************)
EXTENDS Naturals, Sequences, FiniteSets

CONSTANTS
  Workers,      \* goroutines that each write one file
  Starters,     \* main goroutines that call EnsureCollection when they start
  Procs,
  ProcOf,
  RowsOf,       \* the chunk rows of each worker's file
  BadEnd,       \* workers whose file ends with a line that does not parse
  PartitionOf,  \* the partition each file goes to
  Default,      \* the default partition, which needs no creating
  Ids,          \* chunk ids
  MaxBatch,     \* rows per batch of the runner
  EmbedBatch,   \* texts per request to the embedder
  InsertBatch,  \* rows per request to Milvus
  ES,           \* elasticsearch enabled
  Faults,       \* what may go wrong, see FaultKinds
  None

\* No document: one has keys.
NoDoc == [keys |-> {}, offset |-> 0]

Goroutines == Workers \cup Starters
Batches    == Nat \ {0}

(***************************************************************************)
(* "err": a call fails before its effect.  "lost": it takes effect, then   *)
(* reports an error.  "exists": creating what exists is an error, as in    *)
(* SDKs that check first.  "drop": the collection is dropped, once, while  *)
(* no goroutine is making it ready; "dropAnytime": or while one is.        *)
(***************************************************************************)
FaultKinds == {"err", "lost", "exists", "drop", "dropAnytime"}

\* All chunk rows, their texts and their entity keys.
Rows     == UNION {{RowsOf[w][i] : i \in DOMAIN RowsOf[w]} : w \in Workers}
Contents == {r.text : r \in Rows}
Keys     == UNION {r.keys : r \in Rows}

\* A chunk row; valid says whether validateChunkEntities accepts it.
IsRow(r) == r.id \in Ids /\ r.valid \in BOOLEAN /\ r.offset \in Nat /\ r.text # None

ASSUME GoroutineAssumption == /\ Workers \cap Starters = {}
                              /\ ProcOf \in [Goroutines -> Procs]
                              /\ None \notin Goroutines
ASSUME BatchAssumption     == {MaxBatch, EmbedBatch, InsertBatch} \subseteq Batches
ASSUME FileAssumption      == /\ BadEnd \subseteq Workers
                              /\ RowsOf \in [Workers -> Seq(Rows)]
                              /\ \A r \in Rows : IsRow(r)
ASSUME FaultAssumption     == Faults \subseteq FaultKinds /\ ES \in BOOLEAN

VARIABLES
  collection,  \* how far the Milvus collection is
  partitions,  \* its named partitions
  vector,      \* the text whose vector each chunk id holds in Milvus
  entity,      \* the entity document of each chunk id in ES
  dropped,     \* whether the collection was dropped
  faulty,      \* whether a call failed that the code could not foresee
  mutex,       \* lazyWriteMu of each process
  ensured,     \* lazyWriteEnsured of each process
  pc,          \* the call each goroutine is about to make
  sent,        \* how many rows of its file a worker has written, in whole batches
  vecs,        \* the vectors of its batch so far
  put,         \* how many rows of its batch Milvus has
  again        \* whether the next request to Milvus is the second attempt

milvusVars == <<collection, partitions, vector, dropped>>
flagVars   == <<mutex, ensured>>
fileVars   == <<sent, vecs, put, again>>
vars == <<milvusVars, entity, faulty, flagVars, pc, fileVars>>

Body  == {"HasCollection", "CreateCollection", "DescribeIndex", "CreateIndex", "LoadCollection"}
Calls == Body \cup {"start", "read", "Embed", "Lock", "HasPartition", "CreatePartition",
                    "Upsert", "Invalidate", "Bulk", "done", "failed"}
Ended == {"done", "failed"}

Init ==
  /\ collection = "absent"
  /\ partitions = {}
  /\ vector = [c \in Ids |-> None]
  /\ entity = [c \in Ids |-> NoDoc]
  /\ dropped = FALSE
  /\ faulty = FALSE
  /\ mutex = [p \in Procs |-> None]
  /\ ensured = [p \in Procs |-> FALSE]
  /\ pc = [g \in Goroutines |-> IF g \in Starters THEN "Lock" ELSE "start"]
  /\ sent = [w \in Workers |-> 0]
  /\ vecs = [w \in Workers |-> <<>>]
  /\ put = [w \in Workers |-> 0]
  /\ again = [w \in Workers |-> FALSE]

\* The next n elements of s after the first k.
Slice(s, k, n) == SubSeq(s, k + 1, IF k + n <= Len(s) THEN k + n ELSE Len(s))

Batch(w) == Slice(RowsOf[w], sent[w], MaxBatch)
Texts(rows) == [i \in DOMAIN rows |-> rows[i].text]

Goto(g, call) == pc' = [pc EXCEPT ![g] = call]
\* A call that fails for a reason outside the code.
Fails(kinds) == Faults \cap kinds # {} /\ faulty' = TRUE

-----------------------------------------------------------------------------
(***************************************************************************)
(* RunNDJSON and RunPlain.                                                 *)
(***************************************************************************)
\* The workers of a process run once its main goroutine has the collection ready.
Start(w) ==
  /\ pc[w] = "start"
  /\ \A s \in Starters : ProcOf[s] = ProcOf[w] => pc[s] = "done"
  /\ Goto(w, "read")
  /\ UNCHANGED <<milvusVars, entity, faulty, flagVars, fileVars>>

\* Full batches are written as they fill up; a line that does not parse leaves
\* the rows pending before it unwritten.
NextBatch(w) ==
  /\ pc[w] = "read"
  /\ LET left == Len(RowsOf[w]) - sent[w]
     IN  Goto(w, IF w \in BadEnd /\ left < MaxBatch THEN "failed"
                 ELSE IF left = 0 THEN "done" ELSE "Embed")
  /\ UNCHANGED <<milvusVars, entity, faulty, flagVars, fileVars>>

(***************************************************************************)
(* HTTPEmbedder: the texts of a request come back as vectors with their    *)
(* index, in any order and perhaps not all of them.                        *)
(***************************************************************************)
Responses(texts) ==
  LET Order(k) == {q \in [1 .. k -> DOMAIN texts] : \A i, j \in 1 .. k : q[i] = q[j] => i = j}
  IN  {[i \in DOMAIN q |-> [index |-> q[i], embedding |-> texts[q[i]]]] :
         q \in UNION {Order(k) : k \in 0 .. Len(texts)}}

\* Mutated: the index is not looked at.
InArrivalOrder(data) == [i \in DOMAIN data |-> data[i].embedding]

\* parseOpenAIData: the vectors in the order of their indices.
SortedByIndex(data) ==
  LET rank(i) == Cardinality({j \in DOMAIN data : data[j].index <= data[i].index})
  IN  [r \in DOMAIN data |-> data[CHOOSE i \in DOMAIN data : rank(i) = r].embedding]

Embed(w) ==
  /\ pc[w] = "Embed"
  /\ LET texts == Slice(Texts(Batch(w)), Len(vecs[w]), EmbedBatch)
     IN  \E data \in Responses(texts) :
           LET got == SortedByIndex(data)
           IN  IF Len(got) # Len(texts)
               THEN Fails({"err"}) /\ Goto(w, "failed") /\ UNCHANGED vecs
               ELSE /\ vecs' = [vecs EXCEPT ![w] = @ \o got]
                    /\ Goto(w, IF Len(vecs[w] \o got) = Len(Batch(w)) THEN "Lock" ELSE "Embed")
                    /\ UNCHANGED faulty
  /\ UNCHANGED <<milvusVars, entity, flagVars, sent, put, again>>

EmbedFails(w) ==
  /\ pc[w] = "Embed"
  /\ Fails({"err"})
  /\ Goto(w, "failed")
  /\ UNCHANGED <<milvusVars, entity, flagVars, fileVars>>

-----------------------------------------------------------------------------
(***************************************************************************)
(* runEnsureCollection and ensureCollectionBody, under lazyWriteMu.  An    *)
(* error clears the flag and ends the write, or the process of a starter.  *)
(***************************************************************************)
Proc(g) == ProcOf[g]

\* Mutated: an error leaves with the mutex held.
UnlockIfReady(g, ready) ==
  /\ ensured' = [ensured EXCEPT ![Proc(g)] = ready]
  /\ mutex' = IF ready THEN [mutex EXCEPT ![Proc(g)] = None] ELSE mutex

\* Mutated: the flag is set before the outcome is known.
UnlockReady(g, ready) ==
  /\ ensured' = [ensured EXCEPT ![Proc(g)] = TRUE]
  /\ mutex' = [mutex EXCEPT ![Proc(g)] = None]

Unlock(g, ready) ==
  /\ ensured' = [ensured EXCEPT ![Proc(g)] = ready]
  /\ mutex' = [mutex EXCEPT ![Proc(g)] = None]

\* What follows once the collection is ready: a second attempt goes straight back
\* to its request.
AfterEnsure(g) ==
  IF g \in Starters THEN "done" ELSE IF again[g] THEN "Upsert" ELSE "HasPartition"

Lock(g) ==
  /\ pc[g] = "Lock"
  /\ mutex[Proc(g)] = None
  /\ IF g \in Workers /\ ensured[Proc(g)]
     THEN Goto(g, AfterEnsure(g)) /\ UNCHANGED mutex
     ELSE Goto(g, "HasCollection") /\ mutex' = [mutex EXCEPT ![Proc(g)] = g]
  /\ UNCHANGED <<milvusVars, entity, faulty, ensured, fileVars>>

HasCollection(g) ==
  /\ pc[g] = "HasCollection"
  /\ Goto(g, IF collection = "absent" THEN "CreateCollection" ELSE "DescribeIndex")
  /\ UNCHANGED <<milvusVars, entity, faulty, flagVars, fileVars>>

CreateCollection(g) ==
  /\ pc[g] = "CreateCollection"
  /\ collection' = IF collection = "absent" THEN "created" ELSE collection
  /\ Goto(g, "DescribeIndex")
  /\ UNCHANGED <<partitions, vector, dropped, entity, faulty, flagVars, fileVars>>

\* An error is taken for the absence of the index.
DescribeIndex(g) ==
  /\ pc[g] = "DescribeIndex"
  /\ \/ collection \in {"indexed", "loaded"} /\ Goto(g, "LoadCollection") /\ UNCHANGED faulty
     \/ collection \in {"absent", "created"} /\ Goto(g, "CreateIndex") /\ UNCHANGED faulty
     \/ Fails({"err"}) /\ Goto(g, "CreateIndex")
  /\ UNCHANGED <<milvusVars, entity, flagVars, fileVars>>

CreateIndex(g) ==
  /\ pc[g] = "CreateIndex"
  /\ collection # "absent"
  /\ collection' = IF collection = "created" THEN "indexed" ELSE collection
  /\ Goto(g, "LoadCollection")
  /\ UNCHANGED <<partitions, vector, dropped, entity, faulty, flagVars, fileVars>>

LoadCollection(g) ==
  /\ pc[g] = "LoadCollection"
  /\ collection \in {"indexed", "loaded"}
  /\ collection' = "loaded"
  /\ Unlock(g, TRUE)
  /\ Goto(g, AfterEnsure(g))
  /\ UNCHANGED <<partitions, vector, dropped, entity, faulty, fileVars>>

\* A call of the body that fails: of itself, because the collection is gone, or
\* because another process has created it meanwhile.
EnsureFails(g) ==
  /\ pc[g] \in Body \ {"DescribeIndex"}
  /\ \/ Fails({"err"})
     \/ /\ pc[g] = "CreateCollection" /\ collection # "absent"
        /\ Fails({"exists"})
     \/ /\ \/ pc[g] = "CreateIndex" /\ collection = "absent"
           \/ pc[g] = "LoadCollection" /\ collection \in {"absent", "created"}
        /\ UNCHANGED faulty
  /\ Unlock(g, FALSE)
  /\ Goto(g, "failed")
  /\ UNCHANGED <<milvusVars, entity, fileVars>>

(***************************************************************************)
(* EnsurePartition, outside the mutex.                                     *)
(***************************************************************************)
\* Mutated: the documents are sent before the rows.
IndexFirst(w) == "Bulk"

\* validateChunkEntities runs once the partition is there.
AfterPartition(w) ==
  IF \A i \in DOMAIN Batch(w) : Batch(w)[i].valid THEN "Upsert" ELSE "failed"

HasPartition(w) ==
  /\ pc[w] = "HasPartition"
  /\ IF PartitionOf[w] = Default THEN Goto(w, AfterPartition(w)) /\ UNCHANGED faulty
     ELSE \/ Fails({"err"}) /\ Goto(w, "failed")
          \/ /\ Goto(w, IF collection = "absent" THEN "failed"
                        ELSE IF PartitionOf[w] \in partitions THEN AfterPartition(w)
                        ELSE "CreatePartition")
             /\ UNCHANGED faulty
  /\ UNCHANGED <<milvusVars, entity, flagVars, fileVars>>

CreatePartition(w) ==
  /\ pc[w] = "CreatePartition"
  /\ \/ Fails({"err"}) /\ Goto(w, "failed") /\ UNCHANGED partitions
     \/ PartitionOf[w] \in partitions /\ Fails({"exists"}) /\ Goto(w, "failed") /\ UNCHANGED partitions
     \/ /\ collection # "absent"
        /\ partitions' = partitions \cup {PartitionOf[w]}
        /\ Goto(w, AfterPartition(w))
        /\ UNCHANGED faulty
     \/ collection = "absent" /\ Goto(w, "failed") /\ UNCHANGED <<partitions, faulty>>
  /\ UNCHANGED <<collection, vector, dropped, entity, flagVars, fileVars>>

(***************************************************************************)
(* writeChunks: the rows of the batch, InsertBatch at a time.              *)
(***************************************************************************)
Request(w) == Slice(Batch(w), put[w], InsertBatch)
Reachable(w) == collection # "absent" /\ PartitionOf[w] \in partitions \cup {Default}

\* Row i of the batch goes with vector i; of rows with one id Milvus keeps one.
Upserted(w) ==
  LET rows == Request(w)
      ids  == {rows[i].id : i \in DOMAIN rows}
      kept == {f \in [ids -> DOMAIN rows] : \A c \in ids : rows[f[c]].id = c}
  IN  {[c \in Ids |-> IF c \in ids THEN vecs[w][put[w] + f[c]] ELSE vector[c]] : f \in kept}

Upsert(w) ==
  /\ pc[w] = "Upsert"
  /\ Reachable(w)
  /\ vector' \in Upserted(w)
  /\ put' = [put EXCEPT ![w] = @ + Len(Request(w))]
  /\ again' = [again EXCEPT ![w] = FALSE]
  /\ Goto(w, IF put'[w] = Len(Batch(w)) THEN "Bulk" ELSE "Upsert")
  /\ UNCHANGED <<collection, partitions, dropped, entity, faulty, flagVars, sent, vecs>>

\* Only "collection not found" is worth a second attempt, and only once.
UpsertFails(w) ==
  /\ pc[w] = "Upsert"
  /\ \/ /\ collection = "absent"
        /\ Goto(w, IF again[w] THEN "failed" ELSE "Invalidate")
        /\ UNCHANGED <<vector, faulty>>
     \/ /\ collection # "absent" /\ ~Reachable(w)
        /\ Goto(w, "failed")
        /\ UNCHANGED <<vector, faulty>>
     \/ Fails({"err"}) /\ Goto(w, "failed") /\ UNCHANGED vector
     \/ Reachable(w) /\ Fails({"lost"}) /\ Goto(w, "failed") /\ vector' \in Upserted(w)
  /\ UNCHANGED <<collection, partitions, dropped, entity, flagVars, fileVars>>

\* Mutated: the flag is kept.
StillEnsured(w) == ensured

Invalidated(w) == [ensured EXCEPT ![Proc(w)] = FALSE]

Invalidate(w) ==
  /\ pc[w] = "Invalidate"
  /\ mutex[Proc(w)] = None
  /\ ensured' = Invalidated(w)
  /\ again' = [again EXCEPT ![w] = TRUE]
  /\ Goto(w, "Lock")
  /\ UNCHANGED <<milvusVars, entity, faulty, mutex, sent, vecs, put>>

(***************************************************************************)
(* entityChunkDocsFromBatch and BulkIndexChunkDocs: one document per chunk *)
(* id of the batch with the keys of all its rows; rows that disagree on    *)
(* the document fail the batch, whose vectors Milvus has by then.          *)
(***************************************************************************)
Keyed(w) == {i \in DOMAIN Batch(w) : Batch(w)[i].keys # {}}
Docs(w) ==
  [c \in {Batch(w)[i].id : i \in Keyed(w)} |->
     LET same == {Batch(w)[i] : i \in {k \in Keyed(w) : Batch(w)[k].id = c}}
     IN  [keys   |-> UNION {r.keys : r \in same},
          offset |-> CHOOSE o \in {r.offset : r \in same} : \A r \in same : o <= r.offset]]
Conflict(w) == \E i, k \in Keyed(w) : /\ Batch(w)[i].id = Batch(w)[k].id
                                      /\ Batch(w)[i].doc # Batch(w)[k].doc

\* entity with the documents of the chunk ids in some indexed.
Indexed(w, some) == [c \in Ids |-> IF c \in some THEN Docs(w)[c] ELSE entity[c]]

\* Mutated: the vectors of the last batch stay.
CountOnly(w) ==
  /\ sent' = [sent EXCEPT ![w] = @ + Len(Batch(w))]
  /\ UNCHANGED <<vecs, put>>

\* writeBatch returns the number of rows, and the next batch starts afresh.
CountBatch(w) ==
  /\ sent' = [sent EXCEPT ![w] = @ + Len(Batch(w))]
  /\ vecs' = [vecs EXCEPT ![w] = <<>>]
  /\ put' = [put EXCEPT ![w] = 0]

Bulk(w) ==
  /\ pc[w] = "Bulk"
  /\ ~(ES /\ Conflict(w))
  /\ entity' = IF ES THEN Indexed(w, DOMAIN Docs(w)) ELSE entity
  /\ CountBatch(w)
  /\ Goto(w, "read")
  /\ UNCHANGED <<milvusVars, faulty, flagVars, again>>

\* A bulk request that fails may have indexed some of its documents.
BulkFails(w) ==
  /\ pc[w] = "Bulk"
  /\ ES
  /\ \/ Conflict(w) /\ UNCHANGED <<entity, faulty>>
     \/ /\ ~Conflict(w) /\ DOMAIN Docs(w) # {}
        /\ Fails({"err", "lost"})
        /\ \E some \in SUBSET DOMAIN Docs(w) : entity' = Indexed(w, some)
  /\ Goto(w, "failed")
  /\ UNCHANGED <<milvusVars, flagVars, fileVars>>

-----------------------------------------------------------------------------
\* An operator drops the collection, and its rows and partitions with it.
Drop ==
  /\ ~dropped
  /\ collection # "absent"
  /\ \/ \A g \in Goroutines : pc[g] \notin Body
     \/ "dropAnytime" \in Faults
  /\ Faults \cap {"drop", "dropAnytime"} # {}
  /\ faulty' = (faulty \/ \E g \in Goroutines : pc[g] \in Body)
  /\ dropped' = TRUE
  /\ collection' = "absent"
  /\ partitions' = {}
  /\ vector' = [c \in Ids |-> None]
  /\ UNCHANGED <<entity, flagVars, pc, fileVars>>

EnsureCollection(g) ==
  \/ Lock(g) \/ HasCollection(g) \/ CreateCollection(g) \/ DescribeIndex(g)
  \/ CreateIndex(g) \/ LoadCollection(g) \/ EnsureFails(g)

WriteFile(w) ==
  \/ Start(w) \/ NextBatch(w) \/ Embed(w) \/ EmbedFails(w)
  \/ HasPartition(w) \/ CreatePartition(w)
  \/ Upsert(w) \/ UpsertFails(w) \/ Invalidate(w)
  \/ Bulk(w) \/ BulkFails(w)

Next ==
  \/ \E g \in Goroutines : EnsureCollection(g)
  \/ \E w \in Workers : WriteFile(w)
  \/ Drop

Spec == Init /\ [][Next]_vars

-----------------------------------------------------------------------------
TypeOK ==
  /\ collection \in {"absent", "created", "indexed", "loaded"}
  /\ partitions \subseteq {PartitionOf[w] : w \in Workers}
  /\ vector \in [Ids -> Contents \cup {None}]
  /\ entity \in [Ids -> [keys : SUBSET Keys, offset : Nat]]
  /\ dropped \in BOOLEAN /\ faulty \in BOOLEAN
  /\ mutex \in [Procs -> Goroutines \cup {None}]
  /\ ensured \in [Procs -> BOOLEAN]
  /\ pc \in [Goroutines -> Calls]
  /\ sent \in [Workers -> Nat] /\ put \in [Workers -> Nat]
  /\ vecs \in [Workers -> Seq(Contents)]
  /\ again \in [Workers -> BOOLEAN]
  /\ \A w \in Workers : /\ sent[w] <= Len(RowsOf[w])
                        /\ Len(vecs[w]) <= Len(Batch(w))
                        /\ put[w] <= Len(Batch(w))

(***************************************************************************)
(* repository.go:98: goroutines of a process must not look for and create  *)
(* the collection at the same time.  The one that is at it holds the       *)
(* mutex, also while Milvus answers, and on no path is the mutex kept:     *)
(* nobody holds it who is not about to make one of these calls.            *)
(***************************************************************************)
OneEnsures ==
  \A p \in Procs : \A g \in Goroutines :
    mutex[p] = g <=> Proc(g) = p /\ pc[g] \in Body

(***************************************************************************)
(* ... so that the collection is never marked ready without being so: as   *)
(* long as nobody drops it, the flag of every process means that it        *)
(* exists, has its index and is loaded, whichever process made it so.      *)
(***************************************************************************)
FlagIsHonest ==
  ~dropped => \A p \in Procs : ensured[p] => collection = "loaded"

\* Whether the id of row i of w is also written in another batch or file.
Elsewhere(w, i) ==
  \E v \in Workers : \E k \in DOMAIN RowsOf[v] :
    /\ RowsOf[v][k].id = RowsOf[w][i].id
    /\ <<v, (k - 1) \div MaxBatch>> # <<w, (i - 1) \div MaxBatch>>

(***************************************************************************)
(* What is counted as written is in the stores: unless the collection was  *)
(* dropped, every row of every finished batch has a vector, that of its    *)
(* own text although the embedder answers in any order and in several      *)
(* requests; and all its entity keys are on its ES document, however many  *)
(* rows of the batch share it.                                             *)
(***************************************************************************)
WrittenIsStored ==
  \A w \in Workers : \A i \in 1 .. sent[w] :
    LET row == RowsOf[w][i]
    IN  ~Elsewhere(w, i) =>
          /\ ~dropped => \E k \in DOMAIN RowsOf[w] : /\ RowsOf[w][k].id = row.id
                                                     /\ vector[row.id] = RowsOf[w][k].text
          /\ ES => row.keys \subseteq entity[row.id].keys

(***************************************************************************)
(* A hit of Elasticsearch is answered as it is, so the bulk comes after    *)
(* the upsert: at whatever call a file fails, ES has no document of a      *)
(* chunk that Milvus has no row for.  A drop breaks that.                  *)
(***************************************************************************)
EntityHasVector ==
  ~dropped => \A c \in Ids : entity[c] # NoDoc => vector[c] # None

\* What a file may fail for: the batch it is at, its last line, or its named
\* partition having been dropped.
Excusable(w) ==
  \/ w \in BadEnd /\ Len(RowsOf[w]) - sent[w] < MaxBatch
  \/ \E i \in DOMAIN Batch(w) : ~Batch(w)[i].valid
  \/ ES /\ Conflict(w)
  \/ dropped /\ PartitionOf[w] # Default

(***************************************************************************)
(* The second attempt of writeChunks heals a drop: when every call works   *)
(* and the collection is dropped between two uses, no file fails, however  *)
(* many goroutines and processes find it missing and make it anew at once. *)
(***************************************************************************)
DropIsHealed ==
  ~faulty => \A w \in Workers : pc[w] = "failed" => Excusable(w)
=============================================================================
