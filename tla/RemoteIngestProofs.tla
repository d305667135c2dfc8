------------------------ MODULE RemoteIngestProofs -------------------------
(***************************************************************************)
(* Proofs about RemoteIngest, for any buckets, keys, prefix and requests,  *)
(* and any faults: the files that the worker comes to; then the row and    *)
(* the task documents of a job.                                            *)
(***************************************************************************)
EXTENDS RemoteIngest, Induction, FiniteSetTheorems

-----------------------------------------------------------------------------
(***************************************************************************)
(* The operators the model is built from.                                  *)
(***************************************************************************)

\* Least returns the first of a set of keys that is not empty.
LEMMA LeastIsLeast ==
  ASSUME NEW S, S \subseteq Keys, S # {}
  PROVE  Least(S) \in S /\ \A l \in S : Least(S) <= l
<1>1. S \in SUBSET Nat
  BY KeyAssumption
<1>2. \E n \in S : \A l \in S : n <= l
  BY <1>1, HasLeast
<1> QED
  BY <1>2, Zenon DEF Least

\* A request that the worker does not refuse is about one bucket.
LEMMA OneBucket ==
  ASSUME request \in Requests, ~ResolveFails
  PROVE  WorkerBuckets = {Bucket} /\ Bucket \in Buckets
<1>1. WorkerBuckets \subseteq Buckets
  BY RequestAssumption DEF WorkerBuckets, URIBuckets, Named, Objects
<1>2. IsFiniteSet(WorkerBuckets)
  BY <1>1, KeyAssumption, FS_Subset
<1>3. Cardinality(WorkerBuckets) = 1
  BY DEF ResolveFails
<1>4. PICK b : WorkerBuckets = {b}
  BY <1>2, <1>3, FS_Singleton
<1> QED
  BY <1>1, <1>4 DEF Bucket

LEMMA NamedKeysAreKeys == ASSUME request \in Requests PROVE NamedKeys \subseteq Keys
BY RequestAssumption DEF NamedKeys, Named, Objects

LEMMA CountIsNat == ASSUME NEW S, S \subseteq Keys PROVE Cardinality(S) \in Nat
BY KeyAssumption, FS_Subset, FS_CardinalityType

-----------------------------------------------------------------------------
(***************************************************************************)
(* The inductive invariant.  Wanted are the keys the job has to ingest; a  *)
(* key it has passed is in Milvus.  While the prefix is listed, an object  *)
(* that has been there all along is on a page read or on one to come.      *)
(***************************************************************************)
ByPrefix == IF request.prefix THEN Prefixed ELSE {}
Wanted == NamedKeys \cup {k \in ByPrefix : <<Bucket, k>> \in steady}
Done == {k \in Keys : <<Bucket, k>> \in written}

Working == FileCalls \cup {"BulkS3Queued", "SetTotalFiles", "Flush"}
Asides == Calls \ (Working \cup {"ListKeys", "MarkTerminal", "ended"})

InScope ==
  /\ pc \in Working \cup {"ListKeys"} => WorkerBuckets = {Bucket} /\ Bucket \in Buckets
  /\ pc = "ListKeys" => request.prefix
  /\ rest \subseteq NamedKeys \cup ByPrefix
  /\ written \subseteq WorkerBuckets \X (NamedKeys \cup ByPrefix)

InOrder ==
  /\ pc \in Asides => listed = {}
  /\ pc = "ListKeys" =>
       \A k \in Prefixed : <<Bucket, k>> \in steady => k \in listed \/ \A l \in listed : k > l

NoneSkipped ==
  /\ pc \in Working => Wanted \subseteq rest \cup Done
  /\ pc \in {"TaskSucceeded", "CountSuccess"} => Key \in Done
  /\ pc = "Flush" => rest = {}
  /\ pc \in {"BulkS3Queued", "SetTotalFiles"} => rest # {}

Sealed == Asked \cup (Matched \cap steady) \subseteq sealed

EndsSealed ==
  /\ pc \in {"MarkTerminal", "ended"} /\ ~failed => Sealed
  /\ status = "succeeded" => Sealed

IInv == TypeOK /\ InScope /\ InOrder /\ NoneSkipped /\ EndsSealed

LEMMA InitInv == Init => IInv
<1> SUFFICES ASSUME Init PROVE IInv
  OBVIOUS
<1> USE DEF Init
<1>1. TypeOK
  <2>1. objects \subseteq Objects /\ steady \subseteq objects
    BY RequestAssumption
  <2>2. pc \in Calls /\ pc \notin FileCalls
    BY DEF Calls, FileCalls
  <2>3. task \in [Keys -> TaskStatus]
    BY DEF TaskStatus
  <2>4. /\ listed = {} /\ rest = {} /\ written = {} /\ sealed = {}
        /\ {totalFiles, successFiles, failFiles} \subseteq Nat
        /\ request \in Requests /\ config \in Configs
        /\ status \in {"absent", "queued", "running", "succeeded", "failed"}
    OBVIOUS
  <2>5. failed \in BOOLEAN
    OBVIOUS
  <2> HIDE DEF Init
  <2> QED
    BY <2>1, <2>2, <2>3, <2>4, <2>5 DEF TypeOK
<1>2. InScope /\ InOrder /\ NoneSkipped /\ EndsSealed
  <2>1. pc = "post" /\ rest = {} /\ written = {} /\ status = "absent"
    OBVIOUS
  <2>2. pc \notin Working \cup {"ListKeys", "MarkTerminal", "ended"}
    BY <2>1 DEF Working, FileCalls
  <2> QED
    BY <2>1, <2>2 DEF InScope, InOrder, NoneSkipped, EndsSealed, Working, FileCalls
<1> QED
  BY <1>1, <1>2 DEF IInv

\* What depends on the request alone stays as it is.
LEMMA RequestStays ==
  ASSUME request' = request
  PROVE  /\ NamedKeys' = NamedKeys /\ WorkerBuckets' = WorkerBuckets /\ Bucket' = Bucket
         /\ ByPrefix' = ByPrefix /\ Asked' = Asked /\ Matched' = Matched
         /\ ResolveFails' = ResolveFails
BY DEF NamedKeys, Named, WorkerBuckets, URIBuckets, Bucket, ByPrefix, Asked, Matched, ResolveFails

(***************************************************************************)
(* A step that does not touch the keys, the objects or the stores keeps    *)
(* the invariant as long as it stays outside the work, or inside it.       *)
(***************************************************************************)
coreVars == <<request, listed, rest, storeVars, indexVars>>

LEMMA AsideInv ==
  ASSUME IInv, UNCHANGED coreVars, TypeOK', pc \in Asides,
         pc' \in Asides \/ (pc' \in {"MarkTerminal", "ended"} /\ failed'),
         status' # "succeeded" \/ status' = status
  PROVE  IInv'
<1> USE RequestStays DEF coreVars, storeVars, indexVars
<1>1. pc' \notin Working \cup {"ListKeys"}
  BY DEF Asides, Working, FileCalls
<1>2. InScope'
  BY <1>1 DEF IInv, InScope
<1>3. InOrder' /\ NoneSkipped'
  BY <1>1 DEF IInv, InOrder, NoneSkipped, Working, FileCalls
<1>4. EndsSealed'
  BY DEF IInv, EndsSealed, Sealed, Asides
<1> QED
  BY <1>2, <1>3, <1>4 DEF IInv

\* The job fails: whatever it has done stays within what was asked for.
LEMMA FailInv ==
  ASSUME IInv, TypeOK', Return(TRUE), UNCHANGED <<request, listed, status, storeVars, sealed>>,
         rest' \subseteq NamedKeys \cup ByPrefix,
         written' = written \/ (pc \in FileCalls /\ written' \subseteq written \cup {Object})
  PROVE  IInv'
<1> USE RequestStays DEF storeVars
<1>1. pc' \in {"MarkTerminal", "ended"} /\ failed'
  BY DEF Return, Goto
<1>2. InScope'
  <2>1. written' \subseteq WorkerBuckets \X (NamedKeys \cup ByPrefix)
    <3>1. CASE written' = written
      BY <3>1 DEF IInv, InScope
    <3>2. CASE pc \in FileCalls /\ written' \subseteq written \cup {Object}
      <4>1. Key \in rest
        BY <3>2, LeastIsLeast DEF IInv, TypeOK, Key
      <4> QED
        BY <3>2, <4>1 DEF IInv, InScope, Object, Working
    <3> QED
      BY <3>1, <3>2
  <2> QED
    BY <1>1, <2>1 DEF InScope, Working, FileCalls
<1>3. InOrder' /\ NoneSkipped'
  BY <1>1 DEF InOrder, NoneSkipped, Working, FileCalls, Asides
<1>4. EndsSealed'
  BY <1>1 DEF IInv, EndsSealed, Sealed
<1> QED
  BY <1>2, <1>3, <1>4 DEF IInv

-----------------------------------------------------------------------------
(***************************************************************************)
(* Types.                                                                  *)
(***************************************************************************)
LEMMA TasksType ==
  ASSUME task \in [Keys -> TaskStatus], NEW keys, NEW o, TasksQueued(keys, o)
  PROVE  task' \in [Keys -> TaskStatus]
BY DEF TasksQueued, TaskStatus

LEMMA UpdateType ==
  ASSUME task \in [Keys -> TaskStatus], NEW value \in TaskStatus, NEW o, UpdateTask(value, o)
  PROVE  task' \in [Keys -> TaskStatus]
BY DEF UpdateTask

LEMMA ReturnType ==
  ASSUME NEW err \in BOOLEAN, Return(err)
  PROVE  failed' \in BOOLEAN /\ pc' \in Calls \ FileCalls
BY DEF Return, Goto, Calls, FileCalls

LEMMA CallsAre ==
  /\ FileCalls \subseteq Calls /\ FirstCall \in FileCalls
  /\ {"post", "rejected", "InsertQueued", "BulkIndexQueued", "Enqueue", "queued", "MarkRunning",
      "Resolve", "ListKeys", "BulkS3Queued", "SetTotalFiles", "Flush", "MarkTerminal", "ended"}
     \subseteq Calls \ FileCalls
BY DEF Calls, FileCalls, FirstCall

LEMMA HandleType == ASSUME TypeOK, Handle PROVE TypeOK'
<1> USE CallsAre DEF workVars, rowVars, storeVars, indexVars, Goto
<1>1. CASE Post
  BY <1>1 DEF TypeOK, Post
<1>2. ASSUME NEW o \in Outcomes, InsertQueued(o) PROVE TypeOK'
  <2>1. Cardinality(NamedKeys) \in Nat
    BY NamedKeysAreKeys, CountIsNat DEF TypeOK
  <2> QED
    BY <1>2, <2>1 DEF TypeOK, InsertQueued
<1>3. ASSUME NEW o \in Outcomes, BulkIndexQueued(o) PROVE TypeOK'
  BY <1>3, TasksType DEF TypeOK, BulkIndexQueued
<1>4. ASSUME NEW o \in Outcomes, Enqueue(o) PROVE TypeOK'
  BY <1>4 DEF TypeOK, Enqueue
<1> QED
  BY <1>1, <1>2, <1>3, <1>4 DEF Handle

LEMMA AheadType ==
  ASSUME TypeOK, Ahead # {}
  PROVE  Ahead \subseteq Keys /\ Least(Ahead) \in Ahead /\ Least(Ahead) \in Prefixed
<1>1. Ahead \subseteq Prefixed /\ Prefixed \subseteq Keys
  BY KeyAssumption DEF Ahead
<1> QED
  BY <1>1, LeastIsLeast

LEMMA StartType ==
  ASSUME NEW keys, keys \subseteq Keys, Start(keys), failed \in BOOLEAN
  PROVE  /\ rest' \subseteq Keys /\ failed' \in BOOLEAN /\ pc' \in Calls
         /\ pc' \in FileCalls => rest' # {}
BY CallsAre, ReturnType DEF Start, Goto

LEMMA JobType ==
  ASSUME TypeOK,
         Dequeue \/ Resolve \/ \E o \in Outcomes : MarkRunning(o) \/ ListKeys(o) \/ BulkS3Queued(o)
  PROVE  TypeOK'
<1> USE CallsAre DEF workVars, rowVars, storeVars, indexVars, Goto
<1>1. CASE Dequeue
  BY <1>1 DEF TypeOK, Dequeue
<1>2. CASE Resolve
  <2>1. NamedKeys \subseteq Keys
    BY NamedKeysAreKeys DEF TypeOK
  <2>2. /\ rest' \subseteq Keys /\ failed' \in BOOLEAN /\ pc' \in Calls
        /\ pc' \in FileCalls => rest' # {}
    BY <1>2, <2>1, StartType, ReturnType DEF TypeOK, Resolve
  <2> QED
    BY <1>2, <2>2 DEF TypeOK, Resolve
<1>3. ASSUME NEW o \in Outcomes, MarkRunning(o) PROVE TypeOK'
  BY <1>3 DEF TypeOK, MarkRunning
<1>4. ASSUME NEW o \in Outcomes, ListKeys(o) PROVE TypeOK'
  <2>1. NamedKeys \cup listed \subseteq Keys
    BY NamedKeysAreKeys, KeyAssumption DEF TypeOK
  <2>2. listed' \subseteq Prefixed
    BY <1>4, AheadType DEF TypeOK, ListKeys
  <2>3. /\ rest' \subseteq Keys /\ failed' \in BOOLEAN /\ pc' \in Calls
        /\ pc' \in FileCalls => rest' # {}
    BY <1>4, <2>1, StartType, ReturnType DEF TypeOK, ListKeys
  <2> QED
    BY <1>4, <2>2, <2>3 DEF TypeOK, ListKeys
<1>5. ASSUME NEW o \in Outcomes, BulkS3Queued(o) PROVE TypeOK'
  BY <1>5, TasksType, ReturnType DEF TypeOK, BulkS3Queued
<1> QED
  BY <1>1, <1>2, <1>3, <1>4, <1>5

LEMMA NextFileType ==
  ASSUME TypeOK, pc \in FileCalls, NextFile
  PROVE  /\ rest' \subseteq Keys /\ failed' \in BOOLEAN /\ pc' \in Calls
         /\ pc' \in FileCalls => rest' # {}
<1>1. Key \in rest
  BY LeastIsLeast DEF TypeOK, Key
<1> QED
  BY <1>1, CallsAre DEF TypeOK, NextFile, Goto

LEMMA FileFailedType ==
  ASSUME FileFailed, failed \in BOOLEAN PROVE failed' \in BOOLEAN /\ pc' \in Calls
BY CallsAre, ReturnType DEF FileFailed, Goto, FileCalls

LEMMA FileType ==
  ASSUME TypeOK, ProcessFile, pc \in FileCalls => Bucket \in Buckets
  PROVE  TypeOK'
<1> USE CallsAre DEF workVars, rowVars, storeVars, indexVars, Goto
<1>0. {"OnTaskRunning", "GetObject", "RunFile", "TaskSucceeded", "CountSuccess", "TaskFailed",
       "CountFailure"} \subseteq FileCalls
  BY DEF FileCalls
<1>1. {"running", "succeeded", "failed"} \subseteq TaskStatus
  BY DEF TaskStatus
<1>2. ASSUME NEW o \in Outcomes, OnTaskRunning(o) PROVE TypeOK'
  BY <1>0, <1>1, <1>2, UpdateType, ReturnType DEF TypeOK, OnTaskRunning
<1>3. ASSUME NEW o \in Outcomes, GetObject(o) PROVE TypeOK'
  BY <1>0, <1>3, FileFailedType DEF TypeOK, GetObject
<1>4. ASSUME NEW o \in Outcomes, RunFile(o) PROVE TypeOK'
  <2>1. Key \in rest
    BY <1>0, <1>4, LeastIsLeast DEF TypeOK, RunFile, Key
  <2>2. written \subseteq written' /\ written' \subseteq Objects
    BY <1>0, <1>4, <2>1 DEF TypeOK, RunFile, Object, Objects
  <2>3. /\ rest' \subseteq Keys /\ failed' \in BOOLEAN /\ pc' \in Calls
        /\ pc' \in FileCalls => rest' # {}
    BY <1>0, <1>4, NextFileType, FileFailedType DEF TypeOK, RunFile
  <2> QED
    BY <1>4, <2>2, <2>3 DEF TypeOK, RunFile
<1>5. ASSUME NEW o \in Outcomes, TaskSucceeded(o) PROVE TypeOK'
  BY <1>0, <1>1, <1>5, UpdateType, ReturnType DEF TypeOK, TaskSucceeded
<1>6. ASSUME NEW o \in Outcomes, CountSuccess(o) PROVE TypeOK'
  <2>1. /\ rest' \subseteq Keys /\ failed' \in BOOLEAN /\ pc' \in Calls
        /\ pc' \in FileCalls => rest' # {}
    BY <1>0, <1>6, NextFileType, ReturnType DEF TypeOK, CountSuccess
  <2> QED
    BY <1>6, <2>1 DEF TypeOK, CountSuccess
<1>7. ASSUME NEW o \in Outcomes, TaskFailed(o) PROVE TypeOK'
  BY <1>0, <1>1, <1>7, UpdateType, ReturnType DEF TypeOK, TaskFailed
<1>8. ASSUME NEW o \in Outcomes, CountFailure(o) PROVE TypeOK'
  <2>1. pc' \in Calls \ FileCalls /\ failed' \in BOOLEAN
    BY <1>8, ReturnType DEF CountFailure
  <2>2. failFiles' \in Nat
    BY <1>8 DEF TypeOK, CountFailure
  <2> QED
    BY <1>8, <2>1, <2>2 DEF TypeOK, CountFailure
<1> QED
  BY <1>2, <1>3, <1>4, <1>5, <1>6, <1>7, <1>8 DEF ProcessFile

LEMMA NextType == ASSUME IInv, Next PROVE TypeOK'
<1> USE CallsAre DEF workVars, rowVars, storeVars, indexVars, Goto
<1>0. TypeOK
  BY DEF IInv
<1>1. CASE Handle
  BY <1>0, <1>1, HandleType
<1>2. CASE Dequeue \/ Resolve
            \/ \E o \in Outcomes : MarkRunning(o) \/ ListKeys(o) \/ BulkS3Queued(o)
  BY <1>0, <1>2, JobType
<1>3. ASSUME NEW o \in Outcomes, SetTotalFiles(o) PROVE TypeOK'
  <2>1. rest # {}
    BY <1>3 DEF IInv, NoneSkipped, SetTotalFiles
  <2>2. Cardinality(rest) \in Nat
    BY <1>0, CountIsNat DEF TypeOK
  <2> QED
    BY <1>0, <1>3, <2>1, <2>2, ReturnType DEF TypeOK, SetTotalFiles
<1>4. CASE ProcessFile
  BY <1>0, <1>4, FileType DEF IInv, InScope, Working
<1>5. ASSUME NEW o \in Outcomes, Flush(o) PROVE TypeOK'
  BY <1>0, <1>5, ReturnType DEF TypeOK, Flush
<1>6. ASSUME NEW o \in Outcomes, MarkTerminal(o) PROVE TypeOK'
  BY <1>0, <1>6 DEF TypeOK, MarkTerminal, Verdict
<1>7. ASSUME NEW b \in Buckets, NEW k \in Keys, Change(b, k) PROVE TypeOK'
  BY <1>0, <1>7 DEF TypeOK, Change, Objects
<1> QED
  BY <1>1, <1>2, <1>3, <1>4, <1>5, <1>6, <1>7 DEF Next, ProcessJob

-----------------------------------------------------------------------------
(***************************************************************************)
(* The steps of the job.                                                   *)
(***************************************************************************)
LEMMA HandleInv == ASSUME IInv, TypeOK', Handle PROVE IInv'
<1> USE DEF Goto, coreVars, workVars, rowVars, storeVars, indexVars
<1>0. {"post", "rejected", "InsertQueued", "BulkIndexQueued", "Enqueue", "queued"} \subseteq Asides
  BY DEF Asides, Calls, Working, FileCalls
<1>1. CASE Post
  BY <1>0, <1>1, AsideInv DEF Post
<1>2. ASSUME NEW o \in Outcomes, InsertQueued(o) PROVE IInv'
  BY <1>0, <1>2, AsideInv DEF InsertQueued
<1>3. ASSUME NEW o \in Outcomes, BulkIndexQueued(o) PROVE IInv'
  BY <1>0, <1>3, AsideInv DEF BulkIndexQueued
<1>4. ASSUME NEW o \in Outcomes, Enqueue(o) PROVE IInv'
  BY <1>0, <1>4, AsideInv DEF Enqueue
<1> QED
  BY <1>1, <1>2, <1>3, <1>4 DEF Handle

\* The keys to ingest are known and are all that is wanted.
LEMMA StartInv ==
  ASSUME IInv, TypeOK', NEW keys, Start(keys), Wanted \subseteq keys,
         keys \subseteq NamedKeys \cup ByPrefix, WorkerBuckets = {Bucket}, Bucket \in Buckets,
         UNCHANGED <<request, status, storeVars, indexVars>>,
         keys = {} => listed' = listed
  PROVE  IInv'
<1> USE RequestStays DEF storeVars, indexVars
<1>1. CASE keys = {}
  BY <1>1, FailInv DEF Start, storeVars, indexVars
<1>2. CASE keys # {}
  <2>1. rest' = keys /\ pc' \in Working \ {"TaskSucceeded", "CountSuccess", "Flush"}
    BY <1>2 DEF Start, Goto, FirstCall, Working, FileCalls
  <2>2. InScope'
    BY <2>1 DEF IInv, InScope, Working, FileCalls
  <2>3. Wanted' = Wanted
    BY DEF Wanted
  <2>4. NoneSkipped'
    BY <1>2, <2>1, <2>3 DEF NoneSkipped
  <2>5. InOrder' /\ EndsSealed'
    BY <2>1 DEF IInv, InOrder, EndsSealed, Sealed, Working, FileCalls, Asides
  <2> QED
    BY <2>2, <2>4, <2>5 DEF IInv
<1> QED
  BY <1>1, <1>2

LEMMA DequeueInv == ASSUME IInv, TypeOK', Dequeue PROVE IInv'
<1>1. {"queued", "MarkRunning", "Resolve"} \subseteq Asides
  BY DEF Asides, Calls, Working, FileCalls
<1> QED
  BY <1>1, AsideInv DEF Dequeue, Goto, coreVars, workVars, rowVars, storeVars, indexVars

LEMMA MarkRunningInv ==
  ASSUME IInv, TypeOK', NEW o \in Outcomes, MarkRunning(o) PROVE IInv'
<1>1. {"MarkRunning", "Resolve"} \subseteq Asides
  BY DEF Asides, Calls, Working, FileCalls
<1> QED
  BY <1>1, AsideInv DEF MarkRunning, Goto, coreVars, storeVars, indexVars

LEMMA ResolveInv == ASSUME IInv, TypeOK', Resolve PROVE IInv'
<1> USE DEF workVars, rowVars, storeVars, indexVars
<1>1. CASE ResolveFails
  BY <1>1, FailInv DEF Resolve, IInv, InScope
<1>2. CASE ~ResolveFails /\ request.prefix
  <2>1. WorkerBuckets = {Bucket} /\ Bucket \in Buckets
    BY <1>2, OneBucket DEF IInv, TypeOK
  <2>2. pc' = "ListKeys" /\ UNCHANGED <<request, listed, rest, failed, status, storeVars, indexVars>>
    BY <1>2 DEF Resolve, Goto
  <2>3. InScope'
    BY <1>2, <2>1, <2>2, RequestStays DEF IInv, InScope
  <2>4. InOrder'
    <3>1. pc \in Asides
      BY <1>2 DEF Resolve, Asides, Calls, Working, FileCalls
    <3>2. listed' = {}
      BY <2>2, <3>1 DEF IInv, InOrder
    <3> QED
      BY <2>2, <3>2 DEF InOrder, Asides
  <2>5. NoneSkipped' /\ EndsSealed'
    BY <2>2, RequestStays DEF IInv, NoneSkipped, EndsSealed, Sealed, Working, FileCalls
  <2> QED
    BY <2>3, <2>4, <2>5 DEF IInv
<1>3. CASE ~ResolveFails /\ ~request.prefix
  <2>1. WorkerBuckets = {Bucket} /\ Bucket \in Buckets
    BY <1>3, OneBucket DEF IInv, TypeOK
  <2>2. Start(NamedKeys) /\ UNCHANGED <<request, status, storeVars, indexVars, listed>>
    BY <1>3 DEF Resolve
  <2>3. Wanted \subseteq NamedKeys
    BY <1>3 DEF Wanted, ByPrefix
  <2> QED
    BY <2>1, <2>2, <2>3, StartInv
<1> QED
  BY <1>1, <1>2, <1>3

(***************************************************************************)
(* The next key listed is the least of those ahead: what is there and is   *)
(* not listed yet stays ahead, and when nothing is ahead all is listed.    *)
(***************************************************************************)
LEMMA ListKeysInv ==
  ASSUME IInv, TypeOK', NEW o \in Outcomes, ListKeys(o) PROVE IInv'
<1> USE DEF rowVars, storeVars, indexVars
<1>0. /\ pc = "ListKeys" /\ request.prefix /\ WorkerBuckets = {Bucket} /\ Bucket \in Buckets
      /\ UNCHANGED <<request, status, storeVars, indexVars>>
  BY DEF IInv, InScope, ListKeys
<1>1. CASE o # "ok"
  BY <1>0, <1>1, FailInv DEF ListKeys, IInv, InScope
<1>2. CASE o = "ok" /\ Ahead # {}
  <2>1. UNCHANGED <<pc, rest, failed>> /\ listed' = listed \cup {Least(Ahead)}
    BY <1>2 DEF ListKeys
  <2>2. InScope'
    BY <1>0, <2>1, RequestStays DEF IInv, InScope
  <2>3. ASSUME NEW k \in Prefixed, <<Bucket, k>> \in steady, k \notin listed'
        PROVE  \A l \in listed' : k > l
    <3>1. k \notin listed /\ k # Least(Ahead)
      BY <2>1, <2>3
    <3>2. \A l \in listed : k > l
      BY <1>0, <2>3, <3>1 DEF IInv, InOrder
    <3>3. k \in Ahead
      BY <2>3, <3>2 DEF Ahead, IInv, TypeOK
    <3>4. Least(Ahead) <= k /\ Least(Ahead) \in Nat /\ k \in Nat
      BY <3>3, <1>2, AheadType, LeastIsLeast, KeyAssumption DEF IInv
    <3>5. k > Least(Ahead)
      BY <3>1, <3>4
    <3> QED
      BY <2>1, <3>2, <3>5
  <2>4. InOrder'
    BY <1>0, <2>1, <2>3, RequestStays DEF InOrder, Asides
  <2>5. NoneSkipped' /\ EndsSealed'
    BY <1>0, <2>1, RequestStays DEF IInv, NoneSkipped, EndsSealed, Sealed, Working, FileCalls
  <2> QED
    BY <2>2, <2>4, <2>5 DEF IInv
<1>3. CASE o = "ok" /\ Ahead = {}
  <2>1. Start(NamedKeys \cup listed) /\ listed' = listed
    BY <1>3 DEF ListKeys
  <2>2. NamedKeys \cup listed \subseteq NamedKeys \cup ByPrefix
    BY <1>0 DEF IInv, TypeOK, ByPrefix
  <2>3. ASSUME NEW k \in Prefixed, <<Bucket, k>> \in steady PROVE k \in listed
    <3>1. k \in Ahead \/ k \in listed
      BY <1>0, <2>3 DEF IInv, InOrder, Ahead, TypeOK
    <3> QED
      BY <1>3, <3>1
  <2>4. Wanted \subseteq NamedKeys \cup listed
    BY <2>3 DEF Wanted, ByPrefix
  <2> QED
    BY <1>0, <2>1, <2>2, <2>4, StartInv
<1> QED
  BY <1>1, <1>2, <1>3

(***************************************************************************)
(* A step of the work that goes on with the same file.                     *)
(***************************************************************************)
LEMMA WorkInv ==
  ASSUME IInv, TypeOK', pc \in Working, pc' \in Working \ {"Flush"}, rest # {},
         UNCHANGED <<request, listed, rest, status, storeVars, sealed>>,
         written \subseteq written', written' \subseteq written \cup {Object},
         pc' \in {"TaskSucceeded", "CountSuccess"} => Object \in written'
  PROVE  IInv'
<1> USE RequestStays DEF storeVars
<1>1. Key \in rest /\ rest \subseteq Keys /\ Key' = Key
  BY LeastIsLeast DEF IInv, TypeOK, Key
<1>2. InScope'
  BY <1>1 DEF IInv, InScope, Object, Working, FileCalls
<1>3. InOrder'
  BY DEF IInv, InOrder, Working, FileCalls, Asides
<1>4. Done \subseteq Done' /\ Wanted' = Wanted
  BY DEF Done, Wanted
<1>5. pc' \in {"TaskSucceeded", "CountSuccess"} => Key \in Done'
  BY <1>1 DEF Done, Object
<1>6. NoneSkipped'
  BY <1>1, <1>4, <1>5 DEF IInv, NoneSkipped
<1>7. EndsSealed'
  BY DEF IInv, EndsSealed, Sealed, Working, FileCalls
<1> QED
  BY <1>2, <1>3, <1>6, <1>7 DEF IInv

\* The file is done with and its chunks are there.
LEMMA NextFileInv ==
  ASSUME IInv, TypeOK', pc \in FileCalls, NextFile,
         UNCHANGED <<request, listed, status, storeVars, sealed>>,
         written \subseteq written', written' \subseteq written \cup {Object},
         Object \in written'
  PROVE  IInv'
<1> USE RequestStays DEF storeVars
<1>1. Key \in rest /\ rest \subseteq Keys
  BY LeastIsLeast DEF IInv, TypeOK, Key
<1>2. rest' = rest \ {Key} /\ pc' \in Working \ {"TaskSucceeded", "CountSuccess"}
  BY DEF NextFile, Goto, FirstCall, Working, FileCalls
<1>3. InScope'
  BY <1>1, <1>2 DEF IInv, InScope, Object, Working, FileCalls
<1>4. InOrder'
  BY <1>2 DEF IInv, InOrder, Working, FileCalls, Asides
<1>5. Done \subseteq Done' /\ Wanted' = Wanted /\ Key \in Done'
  BY <1>1 DEF Done, Wanted, Object
<1>6. pc' = "Flush" => rest' = {}
  BY <1>1 DEF NextFile, Goto, FirstCall
<1>7. pc' \notin {"BulkS3Queued", "SetTotalFiles"}
  BY DEF NextFile, Goto, FirstCall
<1>8. NoneSkipped'
  BY <1>2, <1>5, <1>6, <1>7 DEF IInv, NoneSkipped, Working
<1>9. EndsSealed'
  BY <1>2 DEF IInv, EndsSealed, Sealed, Working, FileCalls
<1> QED
  BY <1>3, <1>4, <1>8, <1>9 DEF IInv

LEMMA AfterListInv ==
  ASSUME IInv, TypeOK', NEW o \in Outcomes, BulkS3Queued(o) \/ SetTotalFiles(o) PROVE IInv'
<1> USE DEF workVars, rowVars, storeVars, indexVars
<1>1. /\ pc \in {"BulkS3Queued", "SetTotalFiles"}
      /\ UNCHANGED <<request, listed, rest, status, storeVars, indexVars>>
  BY DEF BulkS3Queued, SetTotalFiles
<1>2. CASE o = "ok"
  <2>1. pc' \in Working \ {"Flush", "TaskSucceeded", "CountSuccess"}
    BY <1>2 DEF BulkS3Queued, SetTotalFiles, Goto, FirstCall, Working, FileCalls
  <2>2. rest # {} /\ pc \in Working
    BY <1>1 DEF IInv, NoneSkipped, Working
  <2> QED
    BY <1>1, <2>1, <2>2, WorkInv
<1>3. CASE o # "ok"
  BY <1>1, <1>3, FailInv DEF BulkS3Queued, SetTotalFiles, IInv, InScope
<1> QED
  BY <1>2, <1>3

LEMMA FileInv == ASSUME IInv, TypeOK', ProcessFile PROVE IInv'
<1> USE DEF workVars, rowVars, storeVars, indexVars
<1>0. /\ {"OnTaskRunning", "GetObject", "RunFile", "TaskSucceeded", "CountSuccess", "TaskFailed",
          "CountFailure"} = FileCalls
      /\ FileCalls \subseteq Working \ {"Flush"}
  BY DEF FileCalls, Working
<1>1. pc \in FileCalls /\ rest # {} /\ Key \in Keys /\ rest \subseteq NamedKeys \cup ByPrefix
  <2>1. pc \in FileCalls
    BY <1>0 DEF ProcessFile, OnTaskRunning, GetObject, RunFile, TaskSucceeded, CountSuccess,
                TaskFailed, CountFailure
  <2>2. rest # {} /\ rest \subseteq Keys
    BY <2>1 DEF IInv, TypeOK
  <2> QED
    BY <2>1, <2>2, LeastIsLeast DEF IInv, InScope, Key
<1>2. pc \in {"TaskSucceeded", "CountSuccess"} => Object \in written
  BY DEF IInv, NoneSkipped, Done, Object
<1>3. ASSUME FileFailed, UNCHANGED <<request, listed, rest, status, storeVars, sealed>>,
             written \subseteq written', written' \subseteq written \cup {Object}
      PROVE  IInv'
  BY <1>0, <1>1, <1>3, WorkInv, FailInv DEF FileFailed, Goto
<1>4. ASSUME NEW o \in Outcomes, OnTaskRunning(o) PROVE IInv'
  BY <1>0, <1>1, <1>4, WorkInv, FailInv DEF OnTaskRunning, Goto
<1>5. ASSUME NEW o \in Outcomes, GetObject(o) PROVE IInv'
  BY <1>0, <1>1, <1>3, <1>5, WorkInv DEF GetObject, Goto
<1>6. ASSUME NEW o \in Outcomes, RunFile(o) PROVE IInv'
  <2>1. /\ UNCHANGED <<request, listed, status, storeVars, sealed>>
        /\ written \subseteq written' /\ written' \subseteq written \cup {Object}
    BY <1>6 DEF RunFile
  <2>2. CASE o # "ok" \/ Key \in Unsupported
    BY <1>3, <1>6, <2>1, <2>2 DEF RunFile
  <2>3. CASE o = "ok" /\ Key \notin Unsupported
    <3>1. Object \in written'
      BY <1>6, <2>3 DEF RunFile, Applied
    <3> QED
      BY <1>0, <1>1, <1>6, <2>1, <2>3, <3>1, WorkInv, NextFileInv DEF RunFile, Goto
  <2> QED
    BY <2>2, <2>3
<1>7. ASSUME NEW o \in Outcomes, TaskSucceeded(o) PROVE IInv'
  BY <1>0, <1>1, <1>2, <1>7, WorkInv, FailInv DEF TaskSucceeded, Goto
<1>8. ASSUME NEW o \in Outcomes, CountSuccess(o) PROVE IInv'
  BY <1>0, <1>1, <1>2, <1>8, NextFileInv, FailInv DEF CountSuccess
<1>9. ASSUME NEW o \in Outcomes, TaskFailed(o) PROVE IInv'
  BY <1>0, <1>1, <1>9, WorkInv, FailInv DEF TaskFailed, Goto
<1>10. ASSUME NEW o \in Outcomes, CountFailure(o) PROVE IInv'
  BY <1>0, <1>1, <1>10, FailInv DEF CountFailure
<1> QED
  BY <1>4, <1>5, <1>6, <1>7, <1>8, <1>9, <1>10 DEF ProcessFile

\* What is sealed at the end is all that is wanted, from the one bucket.
LEMMA FlushInv == ASSUME IInv, TypeOK', NEW o \in Outcomes, Flush(o) PROVE IInv'
<1> USE RequestStays DEF workVars, rowVars, storeVars, indexVars
<1>1. /\ pc = "Flush" /\ rest = {} /\ WorkerBuckets = {Bucket} /\ Wanted \subseteq Done
      /\ UNCHANGED <<request, listed, rest, status, storeVars, written>>
  BY DEF Flush, IInv, NoneSkipped, InScope, Working
<1>2. pc' \in {"MarkTerminal", "ended"} /\ failed' = (o # "ok")
  BY DEF Flush, Return, Goto
<1>3. InScope' /\ InOrder' /\ NoneSkipped'
  BY <1>1, <1>2 DEF IInv, InScope, InOrder, NoneSkipped, Working, FileCalls, Asides
<1>4. Asked \cup (Matched \cap steady) \subseteq written
  <2>1. \A k \in Wanted : <<Bucket, k>> \in written
    BY <1>1 DEF Done
  <2>2. ASSUME NEW x \in Asked \cup (Matched \cap steady)
        PROVE  \E k \in Wanted : x = <<Bucket, k>>
    BY <1>1 DEF Asked, Matched, Wanted, ByPrefix
  <2> QED
    BY <2>1, <2>2
<1>5. EndsSealed'
  <2>1. sealed \subseteq sealed'
    BY DEF Flush, IInv, TypeOK
  <2>2. o = "ok" => sealed' = written
    BY DEF Flush, Applied
  <2> QED
    BY <1>1, <1>2, <1>4, <2>1, <2>2 DEF IInv, EndsSealed, Sealed
<1> QED
  BY <1>3, <1>5 DEF IInv

LEMMA MarkTerminalInv == ASSUME IInv, TypeOK', NEW o \in Outcomes, MarkTerminal(o) PROVE IInv'
<1> USE RequestStays DEF workVars, rowVars, storeVars, indexVars
<1>1. /\ pc = "MarkTerminal" /\ pc' = "ended"
      /\ UNCHANGED <<request, listed, rest, failed, storeVars, indexVars>>
  BY DEF MarkTerminal, Goto
<1>2. InScope' /\ InOrder' /\ NoneSkipped'
  BY <1>1 DEF IInv, InScope, InOrder, NoneSkipped, Working, FileCalls, Asides
<1>3. EndsSealed'
  <2>1. ~failed => Sealed
    BY <1>1 DEF IInv, EndsSealed
  <2>2. status' = "succeeded" => ~failed \/ status = "succeeded"
    BY DEF MarkTerminal, Verdict
  <2> QED
    BY <1>1, <2>1, <2>2 DEF IInv, EndsSealed, Sealed
<1> QED
  BY <1>2, <1>3 DEF IInv

LEMMA ChangeInv ==
  ASSUME IInv, TypeOK', NEW b \in Buckets, NEW k \in Keys, Change(b, k) PROVE IInv'
<1> USE RequestStays DEF workVars, rowVars, indexVars
<1>1. /\ UNCHANGED <<request, pc, listed, rest, failed, status, written, sealed>>
      /\ steady' \subseteq steady
  BY DEF Change
<1>2. InScope' /\ InOrder'
  BY <1>1 DEF IInv, InScope, InOrder
<1>3. Wanted' \subseteq Wanted /\ Done' = Done /\ Key' = Key
  BY <1>1 DEF Wanted, Done, Key, Least
<1>4. NoneSkipped'
  BY <1>1, <1>3 DEF IInv, NoneSkipped
<1>5. EndsSealed'
  BY <1>1 DEF IInv, EndsSealed, Sealed
<1> QED
  BY <1>2, <1>4, <1>5 DEF IInv

-----------------------------------------------------------------------------
LEMMA NextInv == ASSUME IInv, [Next]_vars PROVE IInv'
<1>1. CASE Next
  <2>1. TypeOK'
    BY <1>1, NextType
  <2> QED
    BY <1>1, <2>1, HandleInv, DequeueInv, MarkRunningInv, ResolveInv, ListKeysInv, AfterListInv,
       FileInv, FlushInv, MarkTerminalInv, ChangeInv DEF Next, ProcessJob
<1>2. CASE UNCHANGED vars
  BY <1>2, RequestStays
     DEF vars, workVars, rowVars, storeVars, indexVars, IInv, TypeOK, InScope, InOrder,
         NoneSkipped, EndsSealed, Sealed, Wanted, Done, Key, Least
<1> QED
  BY <1>1, <1>2

THEOREM InductiveInvariant == Spec => []IInv
<1>1. Init => IInv
  BY InitInv
<1>2. IInv /\ [Next]_vars => IInv'
  BY NextInv
<1> QED
  BY <1>1, <1>2, PTL DEF Spec

(***************************************************************************)
(* Type correctness: among it, that a file is worked on only while there   *)
(* are keys left (the loop of processS3 in job_worker.go).                 *)
(***************************************************************************)
THEOREM TypeCorrect == Spec => []TypeOK
<1>1. IInv => TypeOK
  BY DEF IInv
<1> QED
  BY <1>1, InductiveInvariant, PTL

(***************************************************************************)
(* However often a listing is cut into pages while objects come and go,    *)
(* and whatever calls fail, a job that ends well has ingested all that was *)
(* asked for and was there, and no job ingests anything else.              *)
(***************************************************************************)
THEOREM AskedIsIndexedHolds == Spec => []AskedIsIndexed
<1>1. ASSUME IInv PROVE AskedIsIndexed
  <2>1. written \subseteq Asked \cup Matched
    BY <1>1 DEF IInv, InScope, Asked, Matched, ByPrefix
  <2>2. status = "succeeded" \/ (pc = "ended" /\ ~failed) => Sealed
    BY <1>1 DEF IInv, EndsSealed
  <2> QED
    BY <2>1, <2>2 DEF AskedIsIndexed, Sealed
<1> QED
  BY <1>1, InductiveInvariant, PTL

-----------------------------------------------------------------------------
(***************************************************************************)
(* The inductive invariant.                                                *)
(***************************************************************************)
Having(value) == {k \in Keys : task[k] = value}
Documented    == {k \in Keys : task[k] # "absent"}

\* Who makes which call, and for which requests.
RowCalls == {"MarkRunning", "OnTaskRunning", "TaskSucceeded", "CountSuccess", "TaskFailed",
             "CountFailure", "BulkS3Queued", "SetTotalFiles", "MarkTerminal"}

Roles ==
  /\ pc \notin {"post", "rejected"} =>
       ~Malformed /\ (config.apiMeta => Deferred \/ ~EnqueueFails)
  /\ pc \in {"InsertQueued", "BulkIndexQueued"} => config.apiMeta
  /\ pc = "BulkIndexQueued" => ~Deferred
  /\ status # "absent" => config.apiMeta
  /\ pc \in RowCalls => config.workerMeta
  /\ pc \in {"BulkS3Queued", "SetTotalFiles"} => Deferred
  /\ pc \in Working \cup {"Resolve", "ListKeys", "MarkTerminal"} /\ config.workerMeta =>
       config.apiMeta

\* No file has been worked on.
Untouched ==
  /\ \A k \in Keys : task[k] \in {"absent", "queued"}
  /\ successFiles = 0 /\ failFiles = 0 /\ status # "succeeded"

\* The documents there are before the first file is worked on.
Recorded ==
  /\ pc \in {"post", "InsertQueued", "BulkIndexQueued"} => Documented = {}
  /\ pc \in {"BulkIndexQueued", "Enqueue", "queued", "MarkRunning", "Resolve", "ListKeys"}
       /\ config.apiMeta /\ ~Deferred => totalFiles = Cardinality(NamedKeys)
  /\ pc \in {"Enqueue", "queued", "MarkRunning", "Resolve", "ListKeys"} /\ config.apiMeta =>
       Documented = IF Deferred THEN {} ELSE NamedKeys
  /\ pc = "BulkS3Queued" => Documented = {}
  /\ pc = "SetTotalFiles" => Documented = rest

\* What the document of the key in hand says.
InHand(value) ==
  /\ pc = "OnTaskRunning" => value \in {"absent", "queued"}
  /\ pc \in {"GetObject", "RunFile", "TaskSucceeded", "TaskFailed"} => value = "running"
  /\ pc = "CountSuccess" => value = "succeeded"
  /\ pc = "CountFailure" => value = "failed"

\* The keys before it are done, those after it are not begun; the row has counted
\* the ones before it.
AtFile ==
  /\ totalFiles = Cardinality(Documented)
  /\ \A k \in Keys : k \notin rest => task[k] \in {"absent", "succeeded"}
  /\ \A k \in rest : IF k = Key THEN InHand(task[k]) ELSE task[k] \in {"absent", "queued"}
  /\ failFiles = 0 /\ status # "succeeded"
  /\ With("succeeded") = IF pc = "CountSuccess" THEN successFiles + 1 ELSE successFiles
  /\ ~Mixed => rest \subseteq Documented

Over ==
  /\ successFiles + failFiles <= totalFiles
  /\ successFiles \in {With("succeeded"), With("succeeded") - 1}
  /\ failFiles <= With("failed")
  /\ ~failed => Documented = Having("succeeded") /\ successFiles = totalFiles
  /\ status = "succeeded" => ~failed

Early == Asides \cup {"ListKeys", "BulkS3Queued", "SetTotalFiles"}

TaskInv ==
  config.es =>
    /\ pc \in Early \/ ~config.workerMeta => Untouched /\ Recorded
    /\ config.workerMeta => /\ pc \in FileCalls \cup {"Flush"} => AtFile
                            /\ pc \in {"MarkTerminal", "ended"} => Over

-----------------------------------------------------------------------------
(***************************************************************************)
(* Counting keys.                                                          *)
(***************************************************************************)
LEMMA OneMore ==
  ASSUME NEW S, S \subseteq Keys, NEW k \in Keys, k \notin S
  PROVE  Cardinality(S \cup {k}) = Cardinality(S) + 1
<1>1. IsFiniteSet(S)
  BY KeyAssumption, FS_Subset
<1> QED
  BY <1>1, FS_AddElement

LEMMA NoMore ==
  ASSUME NEW S, NEW T, S \subseteq T, T \subseteq Keys
  PROVE  Cardinality(S) <= Cardinality(T)
<1>1. IsFiniteSet(T)
  BY KeyAssumption, FS_Subset
<1> QED
  BY <1>1, FS_Subset

LEMMA WithIs == \A value : With(value) = Cardinality(Having(value))
BY DEF With, Having

LEMMA WithNone == ASSUME NEW S, S = {} PROVE Cardinality(S) = 0
BY FS_EmptySet

\* Every call is of one of these kinds.
LEMMA Kinds ==
  /\ Calls = Early \cup FileCalls \cup {"Flush", "MarkTerminal", "ended"}
  /\ Early = {"post", "rejected", "InsertQueued", "BulkIndexQueued", "Enqueue", "queued",
              "MarkRunning", "Resolve", "ListKeys", "BulkS3Queued", "SetTotalFiles"}
BY DEF Calls, Early, Asides, Working, FileCalls

\* A request with nothing beside its prefix is left to the worker, or refused.
LEMMA PrefixIsDeferred ==
  ASSUME Roles, pc \notin {"post", "rejected"}, config.apiMeta, request.prefix, ~Mixed
  PROVE  Deferred
BY DEF Mixed, Roles, Malformed, Deferred

-----------------------------------------------------------------------------
(***************************************************************************)
(* Roles.                                                                  *)
(***************************************************************************)
LEMMA InitRoles == Init => Roles
BY DEF Init, Roles, RowCalls, Working, FileCalls

\* What depends on the request and the configuration alone stays as it is.
LEMMA ConfigStays ==
  ASSUME request' = request, config' = config
  PROVE  /\ Malformed' = Malformed /\ Deferred' = Deferred /\ EnqueueFails' = EnqueueFails
         /\ Mixed' = Mixed /\ NamedKeys' = NamedKeys
BY DEF Malformed, Deferred, EnqueueFails, URIBuckets, Named, Mixed, NamedKeys

LEMMA RequestKept == ASSUME Next PROVE request' = request /\ config' = config
BY DEF Next, Handle, ProcessJob, ProcessFile, Post, InsertQueued, BulkIndexQueued, Enqueue, Dequeue,
       MarkRunning, Resolve, ListKeys, BulkS3Queued, SetTotalFiles, OnTaskRunning, GetObject,
       RunFile, TaskSucceeded, CountSuccess, TaskFailed, CountFailure, Flush, MarkTerminal, Change

LEMMA RolesKept == ASSUME Roles, TypeOK, Next PROVE Roles'
<1> USE DEF Goto, rowVars
<1>0. request' = request /\ config' = config
  BY RequestKept
<1>1. /\ Malformed' = Malformed /\ Deferred' = Deferred /\ EnqueueFails' = EnqueueFails
  BY <1>0, ConfigStays
<1>2. CASE Handle
  <2>1. CASE Post
    BY <1>0, <1>1, <2>1 DEF Post, Roles, RowCalls, Working, FileCalls
  <2>2. ASSUME NEW o \in Outcomes, InsertQueued(o) PROVE Roles'
    BY <1>0, <1>1, <2>2 DEF InsertQueued, Roles, RowCalls, Working, FileCalls
  <2>3. ASSUME NEW o \in Outcomes, BulkIndexQueued(o) PROVE Roles'
    BY <1>0, <1>1, <2>3 DEF BulkIndexQueued, Roles, RowCalls, Working, FileCalls
  <2>4. ASSUME NEW o \in Outcomes, Enqueue(o) PROVE Roles'
    BY <1>0, <1>1, <2>4 DEF Enqueue, Roles, RowCalls, Working, FileCalls
  <2> QED
    BY <1>2, <2>1, <2>2, <2>3, <2>4 DEF Handle
<1>3. CASE Dequeue
  BY <1>0, <1>1, <1>3 DEF Dequeue, Roles, RowCalls, Working, FileCalls
<1>4. ASSUME NEW o \in Outcomes, MarkRunning(o) PROVE Roles'
  BY <1>0, <1>1, <1>4 DEF MarkRunning, Roles, RowCalls, Working, FileCalls
<1>5. ASSUME Resolve \/ \E o \in Outcomes : ListKeys(o) \/ BulkS3Queued(o) \/ SetTotalFiles(o)
      PROVE  Roles'
  <2>1. /\ pc \in {"Resolve", "ListKeys", "BulkS3Queued", "SetTotalFiles"} /\ UNCHANGED status
        /\ \/ pc' \in {"ListKeys"} \cup {FirstCall}
           \/ pc' = pc
           \/ pc' \in {"BulkS3Queued", "SetTotalFiles"} /\ Deferred /\ config.workerMeta
           \/ pc' = IF config.workerMeta THEN "MarkTerminal" ELSE "ended"
    BY <1>5 DEF Resolve, ListKeys, BulkS3Queued, SetTotalFiles, Start, Return, Roles, RowCalls
  <2>2. FirstCall = "GetObject" \/ (FirstCall = "OnTaskRunning" /\ config.workerMeta)
    BY DEF FirstCall
  <2> QED
    BY <1>0, <1>1, <2>1, <2>2 DEF Roles, RowCalls, Working, FileCalls
<1>6. ASSUME ProcessFile \/ \E o \in Outcomes : Flush(o) PROVE Roles'
  <2>1. pc \in FileCalls \cup {"Flush"} /\ UNCHANGED status
    BY <1>6 DEF ProcessFile, OnTaskRunning, GetObject, RunFile, TaskSucceeded, CountSuccess,
                TaskFailed, CountFailure, Flush, FileCalls
  <2>2. pc' \in {"TaskSucceeded", "CountSuccess", "TaskFailed", "CountFailure"} => config.workerMeta
    BY <1>6 DEF ProcessFile, OnTaskRunning, GetObject, RunFile, TaskSucceeded, CountSuccess,
                TaskFailed, CountFailure, Flush, FileFailed, NextFile, Return, FirstCall, Roles,
                RowCalls
  <2>3. pc' \in {"OnTaskRunning", "MarkTerminal"} => config.workerMeta
    BY <1>6 DEF ProcessFile, OnTaskRunning, GetObject, RunFile, TaskSucceeded, CountSuccess,
                TaskFailed, CountFailure, Flush, FileFailed, NextFile, Return, FirstCall, Roles,
                RowCalls
  <2>4. pc' \in FileCalls \cup {"Flush", "MarkTerminal", "ended"}
    BY <1>6 DEF ProcessFile, OnTaskRunning, GetObject, RunFile, TaskSucceeded, CountSuccess,
                TaskFailed, CountFailure, Flush, FileFailed, NextFile, Return, FirstCall, FileCalls
  <2> QED
    BY <1>0, <1>1, <2>1, <2>2, <2>3, <2>4 DEF Roles, RowCalls, Working, FileCalls
<1>7. ASSUME NEW o \in Outcomes, MarkTerminal(o) PROVE Roles'
  <2>1. pc = "MarkTerminal" /\ pc' = "ended" /\ config.workerMeta
    BY <1>7 DEF MarkTerminal, Roles, RowCalls
  <2>2. status' # "absent" => config.apiMeta
    BY <1>7, <2>1 DEF MarkTerminal, Roles
  <2> QED
    BY <1>0, <1>1, <2>1, <2>2 DEF Roles, RowCalls, Working, FileCalls
<1>8. ASSUME NEW b \in Buckets, NEW k \in Keys, Change(b, k) PROVE Roles'
  BY <1>0, <1>1, <1>8 DEF Change, Roles
<1> QED
  BY <1>2, <1>3, <1>4, <1>5, <1>6, <1>7, <1>8 DEF Next, ProcessJob

-----------------------------------------------------------------------------
(***************************************************************************)
(* Up to the first file.                                                   *)
(***************************************************************************)
LEMMA InitTask == Init => TaskInv
<1> SUFFICES ASSUME Init PROVE TaskInv
  OBVIOUS
<1>1. Untouched
  BY DEF Init, Untouched
<1>2. Documented = {} /\ pc = "post"
  BY DEF Init, Documented
<1>3. Recorded
  BY <1>2 DEF Recorded
<1>4. pc \notin FileCalls \cup {"Flush", "MarkTerminal", "ended"}
  BY <1>2 DEF FileCalls
<1> QED
  BY <1>1, <1>3, <1>4 DEF TaskInv

\* A job that ends before its first file has counted nothing.
LEMMA UntouchedOver ==
  ASSUME TypeOK', Untouched', failed'
  PROVE  Over'
<1>1. Having("succeeded")' = {}
  BY DEF Untouched, Having
<1>2. Cardinality(Having("succeeded")') = 0
  BY <1>1, WithNone
<1>3. Having("failed")' \subseteq Keys
  BY DEF Having
<1>4. Cardinality(Having("failed")') \in Nat
  BY <1>3, CountIsNat
<1>5. With("succeeded")' = 0 /\ With("failed")' \in Nat
  BY <1>2, <1>4 DEF With, Having
<1>6. totalFiles' \in Nat /\ successFiles' = 0 /\ failFiles' = 0 /\ status' # "succeeded"
  BY DEF TypeOK, Untouched
<1> QED
  BY <1>5, <1>6 DEF Over

\* The first file, when the documents there are are those of keys to come.
LEMMA FirstFile ==
  ASSUME Untouched', pc' = "OnTaskRunning", totalFiles' = Cardinality(Documented'),
         Documented' \subseteq rest', ~Mixed' => rest' \subseteq Documented',
         rest' \subseteq Keys
  PROVE  AtFile'
<1>1. Having("succeeded")' = {}
  BY DEF Untouched, Having
<1>2. With("succeeded")' = 0
  BY <1>1, WithNone DEF With, Having
<1>3. \A k \in Keys : task'[k] \in {"absent", "queued"} /\ (k \notin rest' => task'[k] = "absent")
  BY DEF Untouched, Documented
<1>4. \A k \in rest' : InHand(task[k])' /\ task'[k] \in {"absent", "queued"}
  BY <1>3 DEF InHand
<1> QED
  BY <1>2, <1>3, <1>4 DEF AtFile, Untouched

\* What is left to show of a step that keeps the files untouched.
LEMMA EarlyKept ==
  ASSUME TypeOK', Untouched', Recorded',
         config'.workerMeta /\ pc' \in FileCalls \cup {"Flush"} => AtFile',
         config'.workerMeta /\ pc' \in {"MarkTerminal", "ended"} => failed'
  PROVE  TaskInv'
BY UntouchedOver DEF TaskInv

LEMMA TasksQueuedIs ==
  ASSUME Untouched, NEW keys, keys \subseteq Keys, NEW o, TasksQueued(keys, o)
  PROVE  /\ \A k \in Keys : task'[k] \in {"absent", "queued"}
         /\ o = "ok" /\ Documented = {} => Documented' = keys
<1>1. PICK done \in SUBSET keys :
        /\ o = "ok" => done = keys
        /\ task' = [k \in Keys |-> IF k \in done THEN "queued" ELSE task[k]]
  BY DEF TasksQueued
<1> QED
  BY <1>1 DEF Untouched, Documented

LEMMA HandleTask ==
  ASSUME IInv, Roles, TaskInv, config.es, TypeOK', Handle
  PROVE  TaskInv'
<1> USE DEF Goto, rowVars, workVars
<1>0. /\ request' = request /\ config' = config
      /\ Deferred' = Deferred /\ NamedKeys' = NamedKeys
  BY RequestKept, ConfigStays DEF Next
<1>1. NamedKeys \subseteq Keys /\ Untouched /\ Recorded
  <2>1. pc \in Early
    BY Kinds DEF Handle, Post, InsertQueued, BulkIndexQueued, Enqueue
  <2> QED
    BY <2>1, NamedKeysAreKeys DEF TaskInv, IInv, TypeOK
<1>2. pc' \in Early /\ pc' \notin FileCalls \cup {"Flush", "MarkTerminal", "ended"}
  BY Kinds DEF Handle, Post, InsertQueued, BulkIndexQueued, Enqueue, FileCalls
<1>3. Untouched'
  <2>1. CASE Post
    BY <1>1, <2>1 DEF Post, Untouched
  <2>2. ASSUME NEW o \in Outcomes, InsertQueued(o) PROVE Untouched'
    BY <1>1, <2>2 DEF InsertQueued, Untouched
  <2>3. ASSUME NEW o \in Outcomes, BulkIndexQueued(o) PROVE Untouched'
    BY <1>1, <2>3, TasksQueuedIs DEF BulkIndexQueued, Untouched
  <2>4. ASSUME NEW o \in Outcomes, Enqueue(o) PROVE Untouched'
    BY <1>1, <2>4 DEF Enqueue, Untouched
  <2> QED
    BY <2>1, <2>2, <2>3, <2>4 DEF Handle
<1>4. Recorded'
  <2>1. CASE Post
    <3>1. /\ Documented' = Documented /\ pc = "post"
          /\ \/ pc' = "rejected" \/ pc' = "InsertQueued"
             \/ pc' = "Enqueue" /\ ~config.apiMeta
      BY <2>1 DEF Post, Documented
    <3> QED
      BY <1>0, <1>1, <3>1 DEF Recorded
  <2>2. ASSUME NEW o \in Outcomes, InsertQueued(o) PROVE Recorded'
    <3>1. /\ Documented' = Documented /\ pc = "InsertQueued"
          /\ \/ pc' = "rejected"
             \/ pc' = "BulkIndexQueued" /\ ~Deferred /\ totalFiles' = Cardinality(NamedKeys)
             \/ pc' = "Enqueue" /\ Deferred
             \/ pc' = "Enqueue" /\ NamedKeys = {} /\ totalFiles' = Cardinality(NamedKeys)
      BY <2>2 DEF InsertQueued, Documented, Applied
    <3> QED
      BY <1>0, <1>1, <3>1 DEF Recorded
  <2>3. ASSUME NEW o \in Outcomes, BulkIndexQueued(o) PROVE Recorded'
    <3>1. /\ pc = "BulkIndexQueued" /\ UNCHANGED totalFiles /\ ~Deferred /\ config.apiMeta
          /\ pc' \in {"rejected", "Enqueue"} /\ (pc' = "Enqueue" => o = "ok")
      BY <2>3 DEF BulkIndexQueued, Roles
    <3>2. o = "ok" => Documented' = NamedKeys
      BY <1>1, <2>3, <3>1, TasksQueuedIs DEF BulkIndexQueued, Recorded
    <3> QED
      BY <1>0, <1>1, <3>1, <3>2 DEF Recorded
  <2>4. ASSUME NEW o \in Outcomes, Enqueue(o) PROVE Recorded'
    <3>1. /\ Documented' = Documented /\ pc = "Enqueue" /\ UNCHANGED totalFiles
          /\ pc' \in {"rejected", "queued"}
      BY <2>4 DEF Enqueue, Documented
    <3> QED
      BY <1>0, <1>1, <3>1 DEF Recorded
  <2> QED
    BY <2>1, <2>2, <2>3, <2>4 DEF Handle
<1> QED
  BY <1>2, <1>3, <1>4, EarlyKept

\* The keys are known and the first file is next, or the job has no file.
LEMMA StartTask ==
  ASSUME IInv, Roles, Untouched, Recorded, config.es, pc \in {"Resolve", "ListKeys"},
         NEW keys, NamedKeys \subseteq keys, keys \subseteq Keys, Start(keys),
         ~request.prefix => keys = NamedKeys,
         request' = request, config' = config, UNCHANGED <<rowVars, task>>, TypeOK'
  PROVE  TaskInv'
<1> USE DEF Goto, rowVars
<1>0. /\ Deferred' = Deferred /\ NamedKeys' = NamedKeys /\ Mixed' = Mixed
      /\ Documented' = Documented
  BY ConfigStays DEF Documented
<1>1. Untouched'
  BY DEF Untouched
<1>2. CASE keys = {}
  <2>1. failed' /\ pc' \in {"MarkTerminal", "ended"}
    BY <1>2 DEF Start, Return
  <2>2. Recorded' /\ pc' \notin FileCalls \cup {"Flush"}
    BY <2>1 DEF Recorded, FileCalls
  <2> QED
    BY <1>1, <2>1, <2>2, EarlyKept
<1>3. CASE keys # {} /\ config.workerMeta /\ Deferred
  <2>1. pc' = "BulkS3Queued"
    BY <1>3 DEF Start
  <2>2. config.apiMeta
    BY <1>3 DEF Deferred
  <2>3. Documented = {}
    BY <1>3, <2>2 DEF Recorded
  <2>4. Recorded' /\ pc' \notin FileCalls \cup {"Flush"}
    BY <1>0, <2>1, <2>3 DEF Recorded, FileCalls
  <2> QED
    BY <1>1, <2>1, <2>4, EarlyKept
<1>4. CASE keys # {} /\ ~(config.workerMeta /\ Deferred)
  <2>1. pc' = FirstCall /\ rest' = keys /\ pc' \in FileCalls
    BY <1>4, CallsAre DEF Start
  <2>2. Recorded' /\ pc' \notin {"MarkTerminal", "ended"}
    BY <2>1 DEF Recorded, FirstCall
  <2>3. ASSUME config.workerMeta PROVE AtFile'
    <3>1. pc' = "OnTaskRunning"
      BY <2>1, <2>3 DEF FirstCall
    <3>2. ~Deferred /\ config.apiMeta
      BY <1>4, <2>3 DEF Roles, Working
    <3>3. totalFiles = Cardinality(NamedKeys) /\ Documented = NamedKeys
      BY <3>2 DEF Recorded
    <3>4. ~Mixed => ~request.prefix
      BY <3>2, PrefixIsDeferred
    <3>5. ~Mixed' => rest' \subseteq Documented'
      BY <1>0, <2>1, <3>3, <3>4
    <3>6. /\ Documented' \subseteq rest' /\ rest' \subseteq Keys
          /\ totalFiles' = Cardinality(Documented')
      BY <1>0, <2>1, <3>3
    <3> QED
      BY <1>1, <3>1, <3>5, <3>6, FirstFile
  <2> QED
    BY <1>1, <2>2, <2>3, EarlyKept
<1> QED
  BY <1>2, <1>3, <1>4

LEMMA EarlyTask ==
  ASSUME IInv, Roles, TaskInv, config.es, TypeOK', request' = request, config' = config,
         Dequeue \/ Resolve
           \/ \E o \in Outcomes : \/ MarkRunning(o) \/ ListKeys(o) \/ BulkS3Queued(o)
                                  \/ SetTotalFiles(o)
  PROVE  TaskInv'
<1> USE DEF Goto, rowVars, workVars
<1>0. /\ Deferred' = Deferred /\ NamedKeys' = NamedKeys /\ Mixed' = Mixed
  BY ConfigStays
<1>1. NamedKeys \subseteq Keys /\ Untouched /\ Recorded /\ rest \subseteq Keys
  <2>1. pc \in Early
    BY Kinds DEF Dequeue, Resolve, MarkRunning, ListKeys, BulkS3Queued, SetTotalFiles
  <2> QED
    BY <2>1, NamedKeysAreKeys DEF TaskInv, IInv, TypeOK
<1>2. ASSUME UNCHANGED task, UNCHANGED <<successFiles, failFiles>>, status' \in {status, "running"},
             Return(TRUE)
      PROVE  TaskInv'
  <2>1. Untouched'
    BY <1>1, <1>2 DEF Untouched
  <2>2. failed' /\ pc' \in {"MarkTerminal", "ended"}
    BY <1>2 DEF Return
  <2>3. Recorded' /\ pc' \notin FileCalls \cup {"Flush"}
    BY <2>2 DEF Recorded, FileCalls
  <2> QED
    BY <2>1, <2>2, <2>3, EarlyKept
<1>3. ASSUME UNCHANGED <<task, totalFiles, successFiles, failFiles>>,
             status' \in {status, "running"}, pc \in {"queued", "MarkRunning", "Resolve", "ListKeys"},
             pc' \in {"MarkRunning", "Resolve", "ListKeys"}
      PROVE  TaskInv'
  <2>1. Untouched' /\ Documented' = Documented
    BY <1>1, <1>3 DEF Untouched, Documented
  <2>2. Recorded' /\ pc' \notin FileCalls \cup {"Flush"}
    BY <1>0, <1>1, <1>3, <2>1 DEF Recorded, FileCalls
  <2> QED
    BY <1>3, <2>1, <2>2, EarlyKept
<1>4. CASE Dequeue
  BY <1>3, <1>4 DEF Dequeue
<1>5. ASSUME NEW o \in Outcomes, MarkRunning(o) PROVE TaskInv'
  <2>1. CASE pc' = "Resolve"
    BY <1>3, <1>5, <2>1 DEF MarkRunning
  <2>2. CASE pc' # "Resolve"
    <3>1. failed' /\ pc' = "ended"
      BY <1>5, <2>2 DEF MarkRunning
    <3>2. Untouched' /\ Recorded'
      BY <1>1, <1>5, <3>1 DEF MarkRunning, Untouched, Recorded
    <3> QED
      BY <3>1, <3>2, EarlyKept DEF FileCalls
  <2> QED
    BY <2>1, <2>2
<1>6. CASE Resolve
  <2>1. pc = "Resolve" /\ UNCHANGED <<rowVars, task>>
    BY <1>6 DEF Resolve
  <2>2. CASE ResolveFails
    BY <1>2, <1>6, <2>1, <2>2 DEF Resolve
  <2>3. CASE ~ResolveFails /\ request.prefix
    BY <1>3, <1>6, <2>1, <2>3 DEF Resolve
  <2>4. CASE ~ResolveFails /\ ~request.prefix
    <3>1. Start(NamedKeys)
      BY <1>6, <2>4 DEF Resolve
    <3> QED
      BY <1>1, <2>1, <3>1, StartTask
  <2> QED
    BY <2>2, <2>3, <2>4
<1>7. ASSUME NEW o \in Outcomes, ListKeys(o) PROVE TaskInv'
  <2>1. pc = "ListKeys" /\ UNCHANGED <<rowVars, task>> /\ request.prefix
    BY <1>7 DEF ListKeys, IInv, InScope
  <2>2. CASE o # "ok"
    BY <1>2, <1>7, <2>1, <2>2 DEF ListKeys
  <2>3. CASE o = "ok" /\ Ahead # {}
    BY <1>3, <1>7, <2>1, <2>3 DEF ListKeys
  <2>4. CASE o = "ok" /\ Ahead = {}
    <3>1. Start(NamedKeys \cup listed)
      BY <1>7, <2>4 DEF ListKeys
    <3>2. NamedKeys \cup listed \subseteq Keys
      BY <1>1, KeyAssumption DEF IInv, TypeOK
    <3> QED
      BY <1>1, <2>1, <3>1, <3>2, StartTask
  <2> QED
    BY <2>2, <2>3, <2>4
<1>8. ASSUME NEW o \in Outcomes, BulkS3Queued(o) PROVE TaskInv'
  <2>1. /\ pc = "BulkS3Queued" /\ TasksQueued(rest, o) /\ UNCHANGED <<rest, rowVars>>
        /\ \A k \in Keys : task'[k] \in {"absent", "queued"}
        /\ o = "ok" /\ Documented = {} => Documented' = rest
    BY <1>1, <1>8, TasksQueuedIs DEF BulkS3Queued
  <2>2. Untouched'
    BY <1>1, <2>1 DEF Untouched
  <2>3. CASE o = "ok"
    <3>1. pc' = "SetTotalFiles" /\ Documented' = rest'
      BY <1>1, <1>8, <2>1, <2>3 DEF BulkS3Queued, Recorded
    <3>2. Recorded' /\ pc' \notin FileCalls \cup {"Flush"}
      BY <3>1 DEF Recorded, FileCalls
    <3> QED
      BY <2>2, <3>1, <3>2, EarlyKept
  <2>4. CASE o # "ok"
    <3>1. failed' /\ pc' \in {"MarkTerminal", "ended"}
      BY <1>8, <2>4 DEF BulkS3Queued, Return
    <3>2. Recorded' /\ pc' \notin FileCalls \cup {"Flush"}
      BY <3>1 DEF Recorded, FileCalls
    <3> QED
      BY <2>2, <3>1, <3>2, EarlyKept
  <2> QED
    BY <2>3, <2>4
<1>9. ASSUME NEW o \in Outcomes, SetTotalFiles(o) PROVE TaskInv'
  <2>1. pc = "SetTotalFiles" /\ config.workerMeta /\ UNCHANGED <<rest, task>>
    BY <1>9 DEF SetTotalFiles, Roles, RowCalls
  <2>2. Documented' = Documented /\ Documented = rest /\ Untouched'
    BY <1>1, <1>9, <2>1 DEF SetTotalFiles, Recorded, Documented, Untouched
  <2>3. CASE o = "ok"
    <3>1. pc' = "OnTaskRunning" /\ totalFiles' = Cardinality(rest)
      BY <1>9, <2>1, <2>3 DEF SetTotalFiles, FirstCall, Applied
    <3>2. AtFile'
      BY <1>1, <2>1, <2>2, <3>1, FirstFile
    <3>3. Recorded'
      BY <3>1 DEF Recorded
    <3> QED
      BY <2>2, <3>1, <3>2, <3>3, EarlyKept
  <2>4. CASE o # "ok"
    BY <1>2, <1>9, <2>1, <2>4 DEF SetTotalFiles
  <2> QED
    BY <2>3, <2>4
<1> QED
  BY <1>4, <1>5, <1>6, <1>7, <1>8, <1>9

-----------------------------------------------------------------------------
(***************************************************************************)
(* The files.                                                              *)
(***************************************************************************)
LEMMA KeyInHand ==
  ASSUME IInv, pc \in FileCalls
  PROVE  Key \in rest /\ rest \subseteq Keys /\ Key \in Keys
BY LeastIsLeast DEF IInv, TypeOK, Key

LEMMA StatusOfTask ==
  ASSUME IInv PROVE task \in [Keys -> TaskStatus] /\ successFiles \in Nat /\ failFiles \in Nat
BY DEF IInv, TypeOK

\* What an update of the task document of the key in hand does to the documents.
LEMMA UpdateDocs ==
  ASSUME IInv, pc \in FileCalls, NEW v \in TaskStatus \ {"absent"}, NEW o, UpdateTask(v, o)
  PROVE  /\ Documented' = Documented
         /\ \A k \in Keys : k # Key => task'[k] = task[k]
         /\ task'[Key] = IF Applied(o) /\ task[Key] # "absent" THEN v ELSE task[Key]
<1>1. Key \in Keys /\ task \in [Keys -> TaskStatus]
  BY KeyInHand, StatusOfTask
<1>2. CASE Applied(o) /\ task[Key] # "absent"
  <2>1. task' = [task EXCEPT ![Key] = v]
    BY <1>2 DEF UpdateTask
  <2> QED
    BY <1>1, <1>2, <2>1 DEF Documented
<1>3. CASE ~(Applied(o) /\ task[Key] # "absent")
  <2>1. task' = task
    BY <1>3 DEF UpdateTask
  <2> QED
    BY <1>1, <1>3, <2>1 DEF Documented
<1> QED
  BY <1>2, <1>3

\* How many tasks have succeeded once the document of the key in hand has changed.
LEMMA SuccessesAre ==
  ASSUME IInv, pc \in FileCalls, task[Key] # "succeeded",
         \A k \in Keys : k # Key => task'[k] = task[k]
  PROVE  With("succeeded")' = IF task'[Key] = "succeeded" THEN With("succeeded") + 1
                                                          ELSE With("succeeded")
<1>1. Key \in Keys
  BY KeyInHand
<1>2. Having("succeeded") \subseteq Keys /\ Key \notin Having("succeeded")
  BY DEF Having
<1>3. Having("succeeded")' = IF task'[Key] = "succeeded" THEN Having("succeeded") \cup {Key}
                                                         ELSE Having("succeeded")
  BY <1>1 DEF Having
<1>4. Cardinality(Having("succeeded") \cup {Key}) = Cardinality(Having("succeeded")) + 1
  BY <1>1, <1>2, OneMore
<1>5. With("succeeded")' = Cardinality(Having("succeeded")')
  BY DEF With, Having
<1> QED
  BY <1>3, <1>4, <1>5 DEF With, Having

\* As many tasks have succeeded as there are documents, at most.
LEMMA SuccessesFit ==
  ASSUME AtFile
  PROVE  With("succeeded") <= totalFiles /\ With("succeeded") \in Nat /\ totalFiles \in Nat
<1>1. Having("succeeded") \subseteq Documented /\ Documented \subseteq Keys
  BY DEF Having, Documented
<1>2. Cardinality(Having("succeeded")) \in Nat /\ Cardinality(Documented) \in Nat
  BY <1>1, CountIsNat
<1>3. Cardinality(Having("succeeded")) <= Cardinality(Documented)
  BY <1>1, NoMore
<1> QED
  BY <1>2, <1>3, WithIs DEF AtFile

LEMMA WithStays ==
  ASSUME task' = task
  PROVE  Documented' = Documented /\ \A v : With(v)' = With(v)
BY DEF Documented, With

\* A step that goes on with the same file.
LEMMA HandKept ==
  ASSUME IInv, AtFile, pc \in FileCalls, UNCHANGED <<rest, rowVars>>, request' = request,
         config' = config, Documented' = Documented, \A k \in Keys : k # Key => task'[k] = task[k],
         With("succeeded")' = IF pc' = "CountSuccess" THEN successFiles + 1 ELSE successFiles,
         InHand(task[Key])'
  PROVE  AtFile'
<1>1. Key' = Key /\ Key \in rest /\ rest \subseteq Keys
  BY KeyInHand DEF Key
<1>2. Mixed' = Mixed
  BY ConfigStays
<1>3. \A k \in Keys : k \notin rest' => task'[k] \in {"absent", "succeeded"}
  BY <1>1 DEF AtFile
<1>4. \A k \in rest' : IF k = Key' THEN InHand(task[k])' ELSE task'[k] \in {"absent", "queued"}
  BY <1>1 DEF AtFile
<1>5. failFiles' = 0 /\ status' # "succeeded" /\ totalFiles' = Cardinality(Documented')
  BY DEF AtFile, rowVars
<1>6. successFiles' = successFiles
  BY DEF rowVars
<1>7. ~Mixed' => rest' \subseteq Documented'
  BY <1>2 DEF AtFile
<1> QED
  BY <1>3, <1>4, <1>5, <1>6, <1>7 DEF AtFile

LEMMA Sums ==
  \A s, t \in Nat, f \in {0, 1} : s + 1 <= t \/ (s <= t /\ f = 0) => s + f <= t
OBVIOUS

\* A job that ends at a file without its failure being counted.
LEMMA FileOver ==
  ASSUME IInv, AtFile, pc \in FileCalls, failed', UNCHANGED <<totalFiles, failFiles, status>>,
         successFiles' \in {With("succeeded")', With("succeeded")' - 1},
         successFiles' \in {With("succeeded"), With("succeeded") - 1} \cup {successFiles},
         TypeOK'
  PROVE  Over'
<1>1. With("succeeded") <= totalFiles /\ With("succeeded") \in Nat /\ totalFiles \in Nat
  BY SuccessesFit
<1>2. successFiles \in {With("succeeded"), With("succeeded") - 1} /\ successFiles \in Nat
  BY <1>1, StatusOfTask DEF AtFile
<1>3. failFiles' = 0 /\ status' # "succeeded"
  BY DEF AtFile
<1>4. successFiles' <= totalFiles'
  BY <1>1, <1>2
<1>5. With("failed")' \in Nat
  <2>1. Having("failed")' \subseteq Keys
    BY DEF Having
  <2>2. Cardinality(Having("failed")') \in Nat
    BY <2>1, CountIsNat
  <2> QED
    BY <2>2 DEF With, Having
<1>6. successFiles' \in Nat /\ totalFiles' \in Nat
  BY DEF TypeOK
<1>7. successFiles' + failFiles' <= totalFiles'
  BY <1>3, <1>4, <1>6, Sums
<1>8. failFiles' <= With("failed")'
  BY <1>3, <1>5
<1> QED
  BY <1>3, <1>7, <1>8 DEF Over

LEMMA FileKept ==
  ASSUME config'.workerMeta,
         (pc' \in FileCalls \cup {"Flush"} /\ AtFile')
           \/ (pc' \in {"MarkTerminal", "ended"} /\ Over')
  PROVE  TaskInv'
BY Kinds DEF TaskInv, FileCalls

LEMMA OnTaskRunningTask ==
  ASSUME IInv, Roles, AtFile, config.es, TypeOK', request' = request, config' = config,
         config.workerMeta, NEW o \in Outcomes, OnTaskRunning(o)
  PROVE  TaskInv'
<1> USE DEF Goto
<1>1. pc = "OnTaskRunning" /\ pc \in FileCalls /\ UNCHANGED <<rest, rowVars>>
  BY DEF OnTaskRunning, FileCalls
<1>2. task[Key] \in {"absent", "queued"}
  BY <1>1, KeyInHand DEF AtFile, InHand
<1>3. /\ Documented' = Documented /\ \A k \in Keys : k # Key => task'[k] = task[k]
      /\ task'[Key] = IF Applied(o) /\ task[Key] # "absent" THEN "running" ELSE task[Key]
  BY <1>1, UpdateDocs DEF OnTaskRunning, TaskStatus
<1>4. With("succeeded")' = With("succeeded") /\ With("succeeded") = successFiles
  <2>1. task'[Key] # "succeeded" /\ task[Key] # "succeeded"
    BY <1>2, <1>3
  <2> QED
    BY <1>1, <1>3, <2>1, SuccessesAre DEF AtFile
<1>5. CASE Updated(o)
  <2>1. pc' = "GetObject" /\ task'[Key] = "running" /\ Key' = Key
    BY <1>1, <1>3, <1>5 DEF OnTaskRunning, Updated, Applied, Key
  <2>2. InHand(task[Key])'
    BY <2>1 DEF InHand
  <2>3. AtFile'
    BY <1>1, <1>3, <1>4, <2>1, <2>2, HandKept
  <2> QED
    BY <2>1, <2>3, FileKept DEF FileCalls
<1>6. CASE ~Updated(o)
  <2>1. failed' /\ pc' = "MarkTerminal"
    BY <1>6 DEF OnTaskRunning, Return
  <2>2. Over'
    BY <1>1, <1>4, <2>1, FileOver DEF rowVars
  <2> QED
    BY <2>1, <2>2, FileKept
<1> QED
  BY <1>5, <1>6

\* The steps that change neither the row nor a document.
LEMMA ReadTask ==
  ASSUME IInv, Roles, AtFile, config.es, TypeOK', request' = request, config' = config,
         config.workerMeta, \E o \in Outcomes : GetObject(o) \/ RunFile(o)
  PROVE  TaskInv'
<1> USE DEF Goto
<1>1. /\ pc \in {"GetObject", "RunFile"} /\ pc \in FileCalls /\ UNCHANGED <<rest, rowVars, task>>
      /\ pc' \in {"RunFile", "TaskSucceeded", "TaskFailed"}
  BY DEF GetObject, RunFile, FileFailed, FileCalls
<1>2. task[Key] = "running" /\ Key' = Key
  BY <1>1, KeyInHand DEF AtFile, InHand, Key
<1>3. InHand(task[Key])'
  BY <1>1, <1>2 DEF InHand
<1>4. With("succeeded")' = With("succeeded") /\ Documented' = Documented
  BY <1>1, WithStays
<1>5. With("succeeded") = successFiles
  BY <1>1 DEF AtFile
<1>6. AtFile'
  BY <1>1, <1>3, <1>4, <1>5, HandKept
<1> QED
  BY <1>1, <1>6, FileKept DEF FileCalls

LEMMA TaskSucceededTask ==
  ASSUME IInv, Roles, AtFile, config.es, TypeOK', request' = request, config' = config,
         config.workerMeta, NEW o \in Outcomes, TaskSucceeded(o)
  PROVE  TaskInv'
<1> USE DEF Goto
<1>1. pc = "TaskSucceeded" /\ pc \in FileCalls /\ UNCHANGED <<rest, rowVars>>
  BY DEF TaskSucceeded, FileCalls
<1>2. task[Key] = "running"
  BY <1>1, KeyInHand DEF AtFile, InHand
<1>3. /\ Documented' = Documented /\ \A k \in Keys : k # Key => task'[k] = task[k]
      /\ task'[Key] = IF Applied(o) THEN "succeeded" ELSE "running"
  BY <1>1, <1>2, UpdateDocs DEF TaskSucceeded, TaskStatus
<1>4. With("succeeded")' = IF Applied(o) THEN successFiles + 1 ELSE successFiles
  BY <1>1, <1>2, <1>3, SuccessesAre DEF AtFile
<1>5. CASE Updated(o)
  <2>1. pc' = "CountSuccess" /\ task'[Key] = "succeeded" /\ Key' = Key
    BY <1>1, <1>3, <1>5 DEF TaskSucceeded, Updated, Applied, Key
  <2>2. InHand(task[Key])'
    BY <2>1 DEF InHand
  <2>3. With("succeeded")' = successFiles + 1
    BY <1>4, <1>5 DEF Updated, Applied
  <2>4. AtFile'
    BY <1>1, <1>3, <2>1, <2>2, <2>3, HandKept
  <2> QED
    BY <2>1, <2>4, FileKept DEF FileCalls
<1>6. CASE ~Updated(o)
  <2>1. failed' /\ pc' = "MarkTerminal"
    BY <1>6 DEF TaskSucceeded, Return
  <2>2. successFiles \in Nat
    BY StatusOfTask
  <2>3. successFiles' \in {With("succeeded")', With("succeeded")' - 1}
    BY <1>1, <1>4, <2>2 DEF rowVars
  <2>4. Over'
    BY <1>1, <2>1, <2>3, FileOver DEF rowVars
  <2> QED
    BY <2>1, <2>4, FileKept
<1> QED
  BY <1>5, <1>6

LEMMA TaskFailedTask ==
  ASSUME IInv, Roles, AtFile, config.es, TypeOK', request' = request, config' = config,
         config.workerMeta, NEW o \in Outcomes, TaskFailed(o)
  PROVE  TaskInv'
<1> USE DEF Goto
<1>1. pc = "TaskFailed" /\ pc \in FileCalls /\ UNCHANGED <<rest, rowVars>>
  BY DEF TaskFailed, FileCalls
<1>2. task[Key] = "running"
  BY <1>1, KeyInHand DEF AtFile, InHand
<1>3. /\ Documented' = Documented /\ \A k \in Keys : k # Key => task'[k] = task[k]
      /\ task'[Key] = IF Applied(o) THEN "failed" ELSE "running"
  BY <1>1, <1>2, UpdateDocs DEF TaskFailed, TaskStatus
<1>4. With("succeeded")' = With("succeeded") /\ With("succeeded") = successFiles
  BY <1>1, <1>2, <1>3, SuccessesAre DEF AtFile
<1>5. CASE Updated(o)
  <2>1. pc' = "CountFailure" /\ task'[Key] = "failed" /\ Key' = Key
    BY <1>1, <1>3, <1>5 DEF TaskFailed, Updated, Applied, Key
  <2>2. InHand(task[Key])'
    BY <2>1 DEF InHand
  <2>3. AtFile'
    BY <1>1, <1>3, <1>4, <2>1, <2>2, HandKept
  <2> QED
    BY <2>1, <2>3, FileKept DEF FileCalls
<1>6. CASE ~Updated(o)
  <2>1. failed' /\ pc' = "MarkTerminal"
    BY <1>6 DEF TaskFailed, Return
  <2>2. Over'
    BY <1>1, <1>4, <2>1, FileOver DEF rowVars
  <2> QED
    BY <2>1, <2>2, FileKept
<1> QED
  BY <1>5, <1>6

\* The file is counted, and the job goes on to the next one or to the Flush.
LEMMA CountSuccessTask ==
  ASSUME IInv, Roles, AtFile, config.es, TypeOK', request' = request, config' = config,
         config.workerMeta, NEW o \in Outcomes, CountSuccess(o)
  PROVE  TaskInv'
<1> USE DEF Goto
<1>1. /\ pc = "CountSuccess" /\ pc \in FileCalls
      /\ UNCHANGED <<totalFiles, failFiles, status, task>>
      /\ successFiles' = IF Applied(o) THEN successFiles + 1 ELSE successFiles
  BY DEF CountSuccess, FileCalls
<1>2. task[Key] = "succeeded" /\ Key \in rest /\ rest \subseteq Keys
  BY <1>1, KeyInHand DEF AtFile, InHand
<1>3. With("succeeded")' = With("succeeded") /\ Documented' = Documented
  BY <1>1, WithStays
<1>4. With("succeeded") = successFiles + 1 /\ successFiles \in Nat
  BY <1>1, StatusOfTask DEF AtFile
<1>5. CASE o = "ok"
  <2>1. /\ rest' = rest \ {Key} /\ pc' = IF rest = {Key} THEN "Flush" ELSE "OnTaskRunning"
        /\ successFiles' = successFiles + 1
    BY <1>1, <1>5 DEF CountSuccess, NextFile, FirstCall, Applied
  <2>2. \A k \in Keys : k \notin rest' => task'[k] \in {"absent", "succeeded"}
    BY <1>1, <1>2, <2>1 DEF AtFile
  <2>3. \A k \in rest' : task'[k] \in {"absent", "queued"}
    BY <1>1, <2>1 DEF AtFile
  <2>4. \A k \in rest' : InHand(task[k])'
    <3>1. rest' # {} => pc' = "OnTaskRunning"
      BY <2>1
    <3> QED
      BY <2>3, <3>1 DEF InHand
  <2>5. ~Mixed' => rest' \subseteq Documented'
    BY <1>3, <2>1, ConfigStays DEF AtFile
  <2>6. /\ totalFiles' = Cardinality(Documented') /\ failFiles' = 0 /\ status' # "succeeded"
        /\ With("succeeded")' = successFiles' /\ pc' # "CountSuccess"
    BY <1>1, <1>3, <1>4, <2>1 DEF AtFile
  <2>7. AtFile'
    BY <2>2, <2>3, <2>4, <2>5, <2>6 DEF AtFile
  <2> QED
    BY <2>1, <2>7, FileKept DEF FileCalls
<1>6. CASE o # "ok"
  <2>1. failed' /\ pc' = "MarkTerminal"
    BY <1>6 DEF CountSuccess, Return
  <2>2. /\ successFiles' \in {With("succeeded")', With("succeeded")' - 1}
        /\ successFiles' \in {With("succeeded"), With("succeeded") - 1} \cup {successFiles}
    BY <1>1, <1>3, <1>4
  <2>3. Over'
    BY <1>1, <2>1, <2>2, FileOver
  <2> QED
    BY <2>1, <2>3, FileKept
<1> QED
  BY <1>5, <1>6

\* The failure is counted: the failed file is one more than those that succeeded.
LEMMA CountFailureTask ==
  ASSUME IInv, Roles, AtFile, config.es, TypeOK', request' = request, config' = config,
         config.workerMeta, NEW o \in Outcomes, CountFailure(o)
  PROVE  TaskInv'
<1> USE DEF Goto
<1>1. /\ pc = "CountFailure" /\ pc \in FileCalls /\ failed' /\ pc' = "MarkTerminal"
      /\ UNCHANGED <<totalFiles, successFiles, status, task>>
      /\ failFiles' \in {failFiles, failFiles + 1}
  BY DEF CountFailure, FileCalls, Return
<1>2. task[Key] = "failed" /\ Key \in Keys
  BY <1>1, KeyInHand DEF AtFile, InHand
<1>3. With("succeeded")' = With("succeeded") /\ With("failed")' = With("failed")
  BY <1>1, WithStays
<1>4. With("succeeded") = successFiles /\ failFiles = 0 /\ successFiles \in Nat
  BY <1>1, StatusOfTask DEF AtFile
<1>5. successFiles + 1 <= totalFiles
  <2>1. /\ Having("succeeded") \subseteq Keys /\ Key \notin Having("succeeded")
        /\ Having("succeeded") \cup {Key} \subseteq Documented /\ Documented \subseteq Keys
    BY <1>2 DEF Having, Documented
  <2>2. Cardinality(Having("succeeded") \cup {Key}) = Cardinality(Having("succeeded")) + 1
    BY <1>2, <2>1, OneMore
  <2>3. Cardinality(Having("succeeded") \cup {Key}) <= Cardinality(Documented)
    BY <2>1, NoMore
  <2> QED
    BY <1>4, <2>2, <2>3, WithIs DEF AtFile
<1>6. 1 <= With("failed") /\ With("failed") \in Nat
  <2>1. {Key} \subseteq Having("failed") /\ Having("failed") \subseteq Keys
    BY <1>2 DEF Having
  <2>2. Cardinality({Key}) = 1
    BY FS_Singleton
  <2>3. 1 <= Cardinality(Having("failed"))
    BY <2>1, <2>2, NoMore
  <2> QED
    BY <2>1, <2>3, CountIsNat, WithIs
<1>7. totalFiles \in Nat
  BY DEF IInv, TypeOK
<1>8. /\ successFiles' + failFiles' <= totalFiles'
      /\ failFiles' <= With("failed")'
      /\ successFiles' = With("succeeded")'
  <2>1. totalFiles' = totalFiles /\ successFiles' = successFiles /\ failFiles' \in {0, 1}
    BY <1>1, <1>4
  <2>2. successFiles' + failFiles' <= totalFiles'
    BY <2>1, <1>4, <1>5, <1>7, Sums
  <2>3. failFiles' <= With("failed")'
    <3>1. failFiles' <= With("failed")
      BY <2>1, <1>6
    <3> QED
      BY <3>1, <1>3, Zenon
  <2> QED
    BY <2>1, <2>2, <2>3, <1>3, <1>4
<1>9. status' # "succeeded"
  BY <1>1 DEF AtFile
<1>10. Over'
  BY <1>1, <1>8, <1>9 DEF Over
<1> QED
  BY <1>1, <1>10, FileKept

-----------------------------------------------------------------------------
(***************************************************************************)
(* The end of the job, and jobs that the worker keeps no records of.       *)
(***************************************************************************)
\* No key is left: each document there is says succeeded, and has been counted.
LEMMA FlushTask ==
  ASSUME IInv, AtFile, TypeOK', config' = config, config.workerMeta, NEW o \in Outcomes, Flush(o)
  PROVE  TaskInv'
<1> USE DEF Goto, rowVars
<1>1. /\ pc = "Flush" /\ pc' = "MarkTerminal" /\ UNCHANGED <<rowVars, task>>
  BY DEF Flush, Return
<1>2. Documented = Having("succeeded")
  <2>1. rest = {}
    BY <1>1 DEF IInv, NoneSkipped
  <2>2. \A k \in Keys : task[k] \in {"absent", "succeeded"}
    BY <2>1 DEF AtFile
  <2> QED
    BY <2>2 DEF Documented, Having
<1>3. totalFiles = With("succeeded") /\ With("succeeded") = successFiles
  BY <1>1, <1>2, WithIs DEF AtFile
<1>4. With("succeeded")' = With("succeeded") /\ Documented' = Having("succeeded")'
  BY <1>1, <1>2, WithStays DEF Having
<1>5. With("failed")' \in Nat
  <2>1. Having("failed") \subseteq Keys
    BY DEF Having
  <2> QED
    BY <1>1, <2>1, CountIsNat, WithIs, WithStays
<1>6. failFiles' = 0 /\ status' # "succeeded"
  BY <1>1 DEF AtFile
<1>7. successFiles' = totalFiles' /\ successFiles' = With("succeeded")' /\ totalFiles' \in Nat
  BY <1>1, <1>3, <1>4 DEF TypeOK
<1>8. successFiles' + failFiles' <= totalFiles' /\ failFiles' <= With("failed")'
  BY <1>5, <1>6, <1>7, Sums
<1>9. Over'
  BY <1>4, <1>6, <1>7, <1>8 DEF Over
<1> QED
  BY <1>1, <1>9, FileKept

LEMMA MarkTerminalTask ==
  ASSUME Over, config' = config, config.workerMeta, NEW o \in Outcomes, MarkTerminal(o)
  PROVE  TaskInv'
<1>1. /\ pc' = "ended" /\ UNCHANGED <<failed, totalFiles, successFiles, failFiles, task>>
      /\ status' \in {status, Verdict}
  BY DEF MarkTerminal, Goto, workVars
<1>2. status' = "succeeded" => ~failed
  BY <1>1 DEF Over, Verdict
<1>3. /\ Documented' = Documented /\ Having("succeeded")' = Having("succeeded")
      /\ With("succeeded")' = With("succeeded") /\ With("failed")' = With("failed")
  BY <1>1, WithStays DEF Having
<1>4. Over'
  BY <1>1, <1>2, <1>3 DEF Over
<1> QED
  BY <1>1, <1>4, FileKept

\* Without its own metadata the worker writes neither the row nor a document.
LEMMA UnrecordedTask ==
  ASSUME Roles, TaskInv, config.es, config' = config, ~config.workerMeta,
         ProcessFile \/ \E o \in Outcomes : Flush(o)
  PROVE  TaskInv'
<1>1. Untouched
  BY DEF TaskInv
<1>2. /\ pc \notin RowCalls
      /\ pc' \in {"GetObject", "RunFile", "Flush", "ended"} /\ UNCHANGED <<rowVars, task>>
  BY DEF ProcessFile, OnTaskRunning, GetObject, RunFile, TaskSucceeded, CountSuccess,
         TaskFailed, CountFailure, Flush, FileFailed, NextFile, Return, FirstCall, Goto, Roles,
         RowCalls
<1>3. Untouched' /\ Recorded'
  BY <1>1, <1>2 DEF Untouched, Recorded, rowVars
<1> QED
  BY <1>3 DEF TaskInv

\* The row and the documents stay, and so does the work.
LEMMA StillTask ==
  ASSUME TaskInv, UNCHANGED <<request, config, pc, workVars, rowVars, task>>
  PROVE  TaskInv'
BY ConfigStays
   DEF TaskInv, Untouched, Recorded, AtFile, Over, InHand, Documented, Having, With, Key, Least,
       workVars, rowVars

LEMMA NextTask == ASSUME IInv, Roles, TaskInv, TypeOK', Next PROVE TaskInv'
<1>0. request' = request /\ config' = config
  BY RequestKept
<1>1. CASE ~config.es
  BY <1>0, <1>1 DEF TaskInv
<1>2. CASE config.es
  <2>1. CASE Handle
    BY <1>2, <2>1, HandleTask
  <2>2. CASE Dequeue \/ Resolve
               \/ \E o \in Outcomes : \/ MarkRunning(o) \/ ListKeys(o) \/ BulkS3Queued(o)
                                      \/ SetTotalFiles(o)
    BY <1>0, <1>2, <2>2, EarlyTask
  <2>3. CASE ~config.workerMeta /\ (ProcessFile \/ \E o \in Outcomes : Flush(o))
    BY <1>0, <1>2, <2>3, UnrecordedTask
  <2>4. CASE config.workerMeta /\ ProcessFile
    <3>1. pc \in FileCalls
      BY <2>4 DEF ProcessFile, OnTaskRunning, GetObject, RunFile, TaskSucceeded, CountSuccess,
                  TaskFailed, CountFailure, FileCalls
    <3>2. AtFile
      BY <1>2, <2>4, <3>1 DEF TaskInv
    <3> QED
      BY <1>0, <1>2, <2>4, <3>2, OnTaskRunningTask, ReadTask, TaskSucceededTask, CountSuccessTask,
         TaskFailedTask, CountFailureTask DEF ProcessFile
  <2>5. ASSUME config.workerMeta, NEW o \in Outcomes, Flush(o) PROVE TaskInv'
    BY <1>0, <1>2, <2>5, FlushTask DEF TaskInv, Flush
  <2>6. ASSUME NEW o \in Outcomes, MarkTerminal(o) PROVE TaskInv'
    BY <1>0, <1>2, <2>6, MarkTerminalTask DEF TaskInv, MarkTerminal, Roles, RowCalls
  <2>7. ASSUME NEW b \in Buckets, NEW k \in Keys, Change(b, k) PROVE TaskInv'
    BY <2>7, StillTask DEF Change
  <2> QED
    BY <2>1, <2>2, <2>3, <2>4, <2>5, <2>6, <2>7 DEF Next, ProcessJob
<1> QED
  BY <1>1, <1>2

(***************************************************************************)
(* The row, the documents and the keys to come agree in every state.       *)
(***************************************************************************)
THEOREM TasksHold == Spec => [](IInv /\ Roles /\ TaskInv)
<1>1. Init => IInv /\ Roles /\ TaskInv
  BY InitInv, InitRoles, InitTask
<1>2. ASSUME IInv, Roles, TaskInv, [Next]_vars PROVE IInv' /\ Roles' /\ TaskInv'
  <2>1. IInv'
    BY <1>2, NextInv
  <2>2. CASE Next
    BY <1>2, <2>1, <2>2, NextTask, RolesKept DEF IInv
  <2>3. CASE UNCHANGED vars
    <3>1. TaskInv'
      BY <1>2, <2>3, StillTask DEF vars
    <3>2. Roles'
      BY <1>2, <2>3, ConfigStays DEF vars, rowVars, Roles
    <3> QED
      BY <2>1, <3>1, <3>2
  <2> QED
    BY <1>2, <2>2, <2>3
<1> QED
  BY <1>1, <1>2, PTL DEF Spec

(***************************************************************************)
(* For every request without a prefix beside its named objects, the keys   *)
(* that the handler or BulkIndexQueued wrote documents for are the keys    *)
(* that processS3 of job_worker.go comes to, and a job whose row says      *)
(* succeeded has left no document behind in another status.                *)
(***************************************************************************)
THEOREM TasksAreFilesHolds == Spec => []TasksAreFiles
<1>1. ASSUME IInv, Roles, TaskInv PROVE TasksAreFiles
  <2> SUFFICES ASSUME config.apiMeta, config.workerMeta, config.es, ~Mixed
               PROVE  /\ pc = "OnTaskRunning" => \A k \in rest : task[k] = "queued"
                      /\ status = "succeeded" => \A k \in Keys : task[k] \in {"absent", "succeeded"}
    BY DEF TasksAreFiles
  <2>1. ASSUME pc = "OnTaskRunning", NEW k \in rest PROVE task[k] = "queued"
    <3>1. AtFile
      BY <1>1, <2>1 DEF TaskInv, FileCalls
    <3>2. task[k] \in {"absent", "queued"}
      BY <2>1, <3>1 DEF AtFile, InHand
    <3>3. task[k] # "absent"
      BY <3>1 DEF AtFile, Documented
    <3> QED
      BY <3>2, <3>3
  <2>2. ASSUME status = "succeeded" PROVE \A k \in Keys : task[k] \in {"absent", "succeeded"}
    <3>1. pc \in {"MarkTerminal", "ended"}
      BY <1>1, <2>2, Kinds DEF TaskInv, AtFile, Untouched, IInv, TypeOK
    <3>2. Documented = Having("succeeded")
      BY <1>1, <2>2, <3>1 DEF TaskInv, Over
    <3> QED
      BY <3>2 DEF Documented, Having
  <2> QED
    BY <2>1, <2>2
<1> QED
  BY <1>1, TasksHold, PTL

(***************************************************************************)
(* Whatever calls fail or are carried out without an answer, the counters  *)
(* of the row (IncrSuccess, IncrFail) never exceed its total and trail the *)
(* task documents, and a row that says succeeded has counted every file.   *)
(***************************************************************************)
THEOREM CountersAgreeHolds == Spec => []CountersAgree
<1>1. ASSUME IInv, Roles, TaskInv PROVE CountersAgree
  <2> SUFFICES ASSUME config.es
               PROVE  /\ successFiles + failFiles <= totalFiles
                      /\ successFiles \in {With("succeeded"), With("succeeded") - 1}
                      /\ failFiles <= With("failed")
                      /\ status = "succeeded" => successFiles = totalFiles
    BY DEF CountersAgree
  <2>0. With("failed") \in Nat
    <3>1. Having("failed") \subseteq Keys
      BY DEF Having
    <3> QED
      BY <3>1, CountIsNat, WithIs
  <2>1. totalFiles \in Nat /\ successFiles \in Nat
    BY <1>1 DEF IInv, TypeOK
  <2>2. CASE pc \in Early \/ ~config.workerMeta
    <3>1. Untouched
      BY <1>1, <2>2 DEF TaskInv
    <3>2. Having("succeeded") = {}
      BY <3>1 DEF Untouched, Having
    <3>3. With("succeeded") = 0
      BY <3>2, WithIs, WithNone
    <3> QED
      BY <2>0, <2>1, <3>1, <3>3 DEF Untouched
  <2>3. CASE config.workerMeta /\ pc \in FileCalls \cup {"Flush"}
    <3>1. AtFile
      BY <1>1, <2>3 DEF TaskInv
    <3>2. With("succeeded") <= totalFiles /\ With("succeeded") \in Nat
      BY <3>1, SuccessesFit
    <3>3. successFiles \in {With("succeeded"), With("succeeded") - 1}
      BY <2>1, <3>1 DEF AtFile
    <3>4. failFiles = 0 /\ status # "succeeded"
      BY <3>1 DEF AtFile
    <3>5. successFiles <= totalFiles
      BY <2>1, <3>2, <3>3
    <3> QED
      BY <2>0, <2>1, <3>3, <3>4, <3>5, Sums
  <2>4. CASE config.workerMeta /\ pc \in {"MarkTerminal", "ended"}
    BY <1>1, <2>4 DEF TaskInv, Over
  <2> QED
    BY <1>1, <2>2, <2>3, <2>4, Kinds DEF IInv, TypeOK
<1> QED
  BY <1>1, TasksHold, PTL

=============================================================================
