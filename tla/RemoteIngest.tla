---------------------------- MODULE RemoteIngest ----------------------------
(***************************************************************************)
(* Ingestion from S3: POST /v1/admin/ingest/remote names objects by URI,   *)
(* by bucket and keys, or by bucket and prefix.  The handler records the   *)
(* job with a task document per object, unless only the worker, which      *)
(* lists the prefix, can know them; worker and handler each work out the   *)
(* objects from the request.  Meanwhile objects come and go.               *)
(*                                                                         *)
(* One job from its request to its end: IngestQueue shows that it is with  *)
(* one goroutine at most, and what becomes of it in the queue.             *)
(***************************************************************************)
EXTENDS Naturals, FiniteSets

CONSTANTS
  Buckets,
  Keys,         \* object keys, numbered in their order
  Prefixed,     \* those under the prefix that a request may name
  Unsupported,  \* those with an extension that is not ingested
  BadURI,       \* an s3_uri that does not parse
  Blank,        \* an entry in a list of keys with nothing but white space
  None,         \* no bucket
  Requests,     \* bucket, uris, keys as listed, and prefix of the requests that are made
  Stores,       \* the sets of objects there may be to begin with
  Faults        \* "err", "lost" as in IngestQueue; "change": objects come and go

Objects == Buckets \X Keys

ASSUME KeyAssumption ==
  /\ Keys \subseteq Nat \ {0} /\ Prefixed \cup Unsupported \subseteq Keys
  /\ IsFiniteSet(Keys) /\ IsFiniteSet(Buckets)
ASSUME RequestAssumption ==
  /\ \A r \in Requests : /\ r.bucket \in Buckets \cup {None}
                         /\ r.uris \subseteq Objects \cup {BadURI}
                         /\ r.keys \subseteq Keys \cup {Blank} /\ r.prefix \in BOOLEAN
  /\ \A s \in Stores : s \subseteq Objects
ASSUME NameAssumption == None \notin Buckets /\ BadURI \notin Objects /\ Blank \notin Keys
ASSUME FaultAssumption == Faults \subseteq {"err", "lost", "change"}

VARIABLES
  request,
  config,        \* apiMeta: INGEST_META_ENABLED, workerMeta: MYSQL_DSN, es
  pc,            \* the call that is about to be made
  listed,        \* the keys the worker has listed
  rest,          \* the keys it still has to ingest
  failed,        \* whether ProcessJob is returning an error
  status, totalFiles, successFiles, failFiles,  \* the row
  task,          \* the status in the task document of each key
  objects,       \* the objects there are
  steady,        \* those that have been there since the request
  written,       \* the objects whose chunks are in Milvus
  sealed         \* the same, as of the Flush

rowVars   == <<status, totalFiles, successFiles, failFiles>>
workVars  == <<listed, rest, failed>>
storeVars == <<objects, steady>>
indexVars == <<written, sealed>>
vars == <<request, config, pc, workVars, rowVars, task, storeVars, indexVars>>

Configs == [apiMeta : BOOLEAN, workerMeta : BOOLEAN, es : BOOLEAN]

TaskStatus == {"absent", "queued", "running", "succeeded", "failed"}
FileCalls == {"OnTaskRunning", "GetObject", "RunFile", "TaskSucceeded", "CountSuccess",
              "TaskFailed", "CountFailure"}
Calls == FileCalls \cup {"post", "rejected", "InsertQueued", "BulkIndexQueued", "Enqueue",
          "queued", "MarkRunning", "Resolve", "ListKeys", "BulkS3Queued", "SetTotalFiles",
          "Flush", "MarkTerminal", "ended"}

Init ==
  /\ request \in Requests
  /\ config \in Configs
  /\ pc = "post"
  /\ listed = {} /\ rest = {} /\ failed = FALSE
  /\ status = "absent" /\ totalFiles = 0 /\ successFiles = 0 /\ failFiles = 0
  /\ task = [k \in Keys |-> "absent"]
  /\ objects \in Stores
  /\ steady = objects
  /\ written = {} /\ sealed = {}

Outcomes == {"ok"} \cup (Faults \cap {"err", "lost"})
Applied(o) == o \in {"ok", "lost"}
Goto(call) == pc' = call

-----------------------------------------------------------------------------
(***************************************************************************)
(* What a request asks for, as the handler reads it and as the worker does.*)
(***************************************************************************)
Named == request.uris \ {BadURI}
URIBuckets == {o[1] : o \in Named}
NamedKeys == {o[2] : o \in Named} \cup (request.keys \ {Blank})

\* The handler looks whether the list of keys is empty, not what is in it.
Malformed ==
  \/ request.uris = {} /\ request.bucket = None
  \/ request.uris = {} /\ request.keys = {} /\ ~request.prefix

\* Mutated: the flag is not set.
NotDeferred == FALSE

\* The tasks are left to the worker when there is nothing beside the prefix, not
\* even a blank key.
Deferred == /\ config.apiMeta
            /\ request.bucket # None /\ request.prefix
            /\ request.keys = {} /\ request.uris = {}

\* ResolveS3EnqueueKeys; the request's own bucket is not compared.
EnqueueFails == BadURI \in request.uris \/ Cardinality(URIBuckets) > 1

\* processS3
WorkerBuckets == URIBuckets \cup ({request.bucket} \ {None})
ResolveFails == BadURI \in request.uris \/ Cardinality(WorkerBuckets) # 1
Bucket == CHOOSE b \in WorkerBuckets : TRUE

-----------------------------------------------------------------------------
(***************************************************************************)
(* The handler.                                                            *)
(***************************************************************************)
Post ==
  /\ pc = "post"
  /\ Goto(IF Malformed THEN "rejected"
          ELSE IF ~config.apiMeta THEN "Enqueue"
          ELSE IF ~Deferred /\ EnqueueFails THEN "rejected" ELSE "InsertQueued")
  /\ UNCHANGED <<request, config, workVars, rowVars, task, storeVars, indexVars>>

InsertQueued(o) ==
  /\ pc = "InsertQueued"
  /\ IF Applied(o)
     THEN status' = "queued" /\ totalFiles' = IF Deferred THEN 0 ELSE Cardinality(NamedKeys)
     ELSE UNCHANGED <<status, totalFiles>>
  /\ Goto(IF o # "ok" THEN "rejected"
          ELSE IF config.es /\ ~Deferred /\ NamedKeys # {} THEN "BulkIndexQueued" ELSE "Enqueue")
  /\ UNCHANGED <<request, config, workVars, successFiles, failFiles, task, storeVars, indexVars>>

\* The task documents of keys; a bulk that reports an error may have made some.
TasksQueued(keys, o) ==
  \E done \in SUBSET keys :
    /\ o = "ok" => done = keys
    /\ o = "err" => done = {}
    /\ task' = [k \in Keys |-> IF k \in done THEN "queued" ELSE task[k]]

BulkIndexQueued(o) ==
  /\ pc = "BulkIndexQueued"
  /\ TasksQueued(NamedKeys, o)
  /\ Goto(IF o = "ok" THEN "Enqueue" ELSE "rejected")
  /\ UNCHANGED <<request, config, workVars, rowVars, storeVars, indexVars>>

\* A request that fails although its job is on the list has the job done.
Enqueue(o) ==
  /\ pc = "Enqueue"
  /\ Goto(IF Applied(o) THEN "queued" ELSE "rejected")
  /\ UNCHANGED <<request, config, workVars, rowVars, task, storeVars, indexVars>>

Handle == \/ Post
          \/ \E o \in Outcomes : InsertQueued(o)
          \/ \E o \in Outcomes : BulkIndexQueued(o)
          \/ \E o \in Outcomes : Enqueue(o)

-----------------------------------------------------------------------------
(***************************************************************************)
(* ProcessJob and processS3.                                               *)
(***************************************************************************)
\* ProcessJob has its result.
Return(err) ==
  /\ failed' = err
  /\ Goto(IF config.workerMeta THEN "MarkTerminal" ELSE "ended")

Dequeue ==
  /\ pc = "queued"
  /\ Goto(IF config.workerMeta THEN "MarkRunning" ELSE "Resolve")
  /\ UNCHANGED <<request, config, workVars, rowVars, task, storeVars, indexVars>>

\* Without a row the job fails before there is anything to record it in.
MarkRunning(o) ==
  /\ pc = "MarkRunning"
  /\ status' = IF Applied(o) /\ status # "absent" THEN "running" ELSE status
  /\ IF o = "ok" /\ status # "absent" THEN Goto("Resolve") /\ UNCHANGED failed
                                      ELSE Goto("ended") /\ failed' = TRUE
  /\ UNCHANGED <<request, config, listed, rest, totalFiles, successFiles, failFiles, task,
                 storeVars, indexVars>>

\* The first call for a file.
FirstCall == IF config.workerMeta /\ config.es THEN "OnTaskRunning" ELSE "GetObject"

\* The keys without repetition are known.
Start(keys) ==
  /\ rest' = keys
  /\ IF keys = {} THEN Return(TRUE)
     ELSE /\ Goto(IF config.workerMeta /\ Deferred
                  THEN IF config.es THEN "BulkS3Queued" ELSE "SetTotalFiles" ELSE FirstCall)
          /\ UNCHANGED failed

Resolve ==
  /\ pc = "Resolve"
  /\ IF ResolveFails THEN Return(TRUE) /\ UNCHANGED rest
     ELSE IF request.prefix THEN Goto("ListKeys") /\ UNCHANGED <<rest, failed>>
     ELSE Start(NamedKeys)
  /\ UNCHANGED <<request, config, listed, rowVars, task, storeVars, indexVars>>

\* Mutated: one page is taken for all.
FirstPage == IF listed # {} THEN {} ELSE {k \in Prefixed : <<Bucket, k>> \in objects}

\* The objects on the pages to come, each page being read when it is asked for.
Ahead == {k \in Prefixed : <<Bucket, k>> \in objects /\ \A l \in listed : k > l}
Least(keys) == CHOOSE k \in keys : \A l \in keys : k <= l

ListKeys(o) ==
  /\ pc = "ListKeys"
  /\ IF o # "ok" THEN Return(TRUE) /\ UNCHANGED <<listed, rest>>
     ELSE IF Ahead # {}
     THEN listed' = listed \cup {Least(Ahead)} /\ UNCHANGED <<pc, rest, failed>>
     ELSE Start(NamedKeys \cup listed) /\ UNCHANGED listed
  /\ UNCHANGED <<request, config, rowVars, task, storeVars, indexVars>>

\* AfterS3List
BulkS3Queued(o) ==
  /\ pc = "BulkS3Queued"
  /\ TasksQueued(rest, o)
  /\ IF o = "ok" THEN Goto("SetTotalFiles") /\ UNCHANGED failed ELSE Return(TRUE)
  /\ UNCHANGED <<request, config, listed, rest, rowVars, storeVars, indexVars>>

SetTotalFiles(o) ==
  /\ pc = "SetTotalFiles"
  /\ totalFiles' = IF Applied(o) THEN Cardinality(rest) ELSE totalFiles
  /\ IF o = "ok" THEN Goto(FirstCall) /\ UNCHANGED failed ELSE Return(TRUE)
  /\ UNCHANGED <<request, config, listed, rest, status, successFiles, failFiles, task,
                 storeVars, indexVars>>

-----------------------------------------------------------------------------
(***************************************************************************)
(* The objects, in the order of their keys.                                *)
(***************************************************************************)
Key == Least(rest)
Object == <<Bucket, Key>>

\* An update of a task document that does not exist is an error.
UpdateTask(value, o) ==
  /\ task' = IF Applied(o) /\ task[Key] # "absent" THEN [task EXCEPT ![Key] = value] ELSE task

\* Mutated: the error of an update is dropped.
UpdatedAlways(o) == TRUE

Updated(o) == o = "ok" /\ task[Key] # "absent"

FileFailed ==
  IF config.workerMeta
  THEN Goto(IF config.es THEN "TaskFailed" ELSE "CountFailure") /\ UNCHANGED failed
  ELSE Return(TRUE)

\* Mutated: the end of the keys is not looked for.
NextFileAlways == rest' = rest \ {Key} /\ Goto(FirstCall) /\ UNCHANGED failed

NextFile == /\ rest' = rest \ {Key}
            /\ Goto(IF rest = {Key} THEN "Flush" ELSE FirstCall)
            /\ UNCHANGED failed

\* Its error ends the job and leaves the task as it is.
OnTaskRunning(o) ==
  /\ pc = "OnTaskRunning"
  /\ UpdateTask("running", o)
  /\ IF Updated(o) THEN Goto("GetObject") /\ UNCHANGED failed ELSE Return(TRUE)
  /\ UNCHANGED <<request, config, listed, rest, rowVars, storeVars, indexVars>>

\* The object may be gone, or too large.
GetObject(o) ==
  /\ pc = "GetObject"
  /\ IF o = "ok" /\ Object \in objects THEN Goto("RunFile") /\ UNCHANGED failed ELSE FileFailed
  /\ UNCHANGED <<request, config, listed, rest, rowVars, task, storeVars, indexVars>>

RunFile(o) ==
  /\ pc = "RunFile"
  /\ written' = IF Applied(o) /\ Key \notin Unsupported THEN written \cup {Object} ELSE written
  /\ IF o # "ok" \/ Key \in Unsupported THEN FileFailed /\ UNCHANGED rest
     ELSE IF ~config.workerMeta THEN NextFile
     ELSE Goto(IF config.es THEN "TaskSucceeded" ELSE "CountSuccess") /\ UNCHANGED <<rest, failed>>
  /\ UNCHANGED <<request, config, listed, rowVars, task, storeVars, sealed>>

TaskSucceeded(o) ==
  /\ pc = "TaskSucceeded"
  /\ UpdateTask("succeeded", o)
  /\ IF Updated(o) THEN Goto("CountSuccess") /\ UNCHANGED failed ELSE Return(TRUE)
  /\ UNCHANGED <<request, config, listed, rest, rowVars, storeVars, indexVars>>

CountSuccess(o) ==
  /\ pc = "CountSuccess"
  /\ successFiles' = IF Applied(o) THEN successFiles + 1 ELSE successFiles
  /\ IF o = "ok" THEN NextFile ELSE Return(TRUE) /\ UNCHANGED rest
  /\ UNCHANGED <<request, config, listed, status, totalFiles, failFiles, task, storeVars,
                 indexVars>>

TaskFailed(o) ==
  /\ pc = "TaskFailed"
  /\ UpdateTask("failed", o)
  /\ IF Updated(o) THEN Goto("CountFailure") /\ UNCHANGED failed ELSE Return(TRUE)
  /\ UNCHANGED <<request, config, listed, rest, rowVars, storeVars, indexVars>>

CountFailure(o) ==
  /\ pc = "CountFailure"
  /\ failFiles' = IF Applied(o) THEN failFiles + 1 ELSE failFiles
  /\ Return(TRUE)
  /\ UNCHANGED <<request, config, listed, rest, status, totalFiles, successFiles, task,
                 storeVars, indexVars>>

Flush(o) ==
  /\ pc = "Flush"
  /\ sealed' = IF Applied(o) THEN written ELSE sealed
  /\ Return(o # "ok")
  /\ UNCHANGED <<request, config, listed, rest, rowVars, task, storeVars, written>>

Verdict == IF failed THEN "failed" ELSE "succeeded"

MarkTerminal(o) ==
  /\ pc = "MarkTerminal"
  /\ status' = IF Applied(o) THEN Verdict ELSE status
  /\ Goto("ended")
  /\ UNCHANGED <<request, config, workVars, totalFiles, successFiles, failFiles, task,
                 storeVars, indexVars>>

ProcessFile ==
  \/ \E o \in Outcomes : OnTaskRunning(o)
  \/ \E o \in Outcomes : GetObject(o)
  \/ \E o \in Outcomes : RunFile(o)
  \/ \E o \in Outcomes : TaskSucceeded(o)
  \/ \E o \in Outcomes : CountSuccess(o)
  \/ \E o \in Outcomes : TaskFailed(o)
  \/ \E o \in Outcomes : CountFailure(o)

ProcessJob ==
  \/ Dequeue \/ Resolve
  \/ \E o \in Outcomes : MarkRunning(o)
  \/ \E o \in Outcomes : ListKeys(o)
  \/ \E o \in Outcomes : BulkS3Queued(o)
  \/ \E o \in Outcomes : SetTotalFiles(o)
  \/ ProcessFile
  \/ \E o \in Outcomes : Flush(o)
  \/ \E o \in Outcomes : MarkTerminal(o)

-----------------------------------------------------------------------------
\* Others put and delete objects, in the bucket the job reads.
Change(b, k) ==
  /\ "change" \in Faults
  /\ pc \in {"ListKeys", "GetObject"}
  /\ objects' = IF <<b, k>> \in objects THEN objects \ {<<b, k>>} ELSE objects \cup {<<b, k>>}
  /\ steady' = steady \ {<<b, k>>}
  /\ UNCHANGED <<request, config, pc, workVars, rowVars, task, indexVars>>

Next == Handle \/ ProcessJob \/ \E b \in Buckets, k \in Keys : Change(b, k)

Spec == Init /\ [][Next]_vars

-----------------------------------------------------------------------------
TypeOK ==
  /\ request \in Requests /\ config \in Configs
  /\ pc \in Calls
  /\ listed \subseteq Prefixed /\ rest \subseteq Keys /\ failed \in BOOLEAN
  /\ status \in {"absent", "queued", "running", "succeeded", "failed"}
  /\ {totalFiles, successFiles, failFiles} \subseteq Nat
  /\ task \in [Keys -> TaskStatus]
  /\ steady \subseteq objects /\ objects \subseteq Objects
  /\ sealed \subseteq written /\ written \subseteq Objects
  /\ pc \in FileCalls => rest # {}

\* The objects that the request names, and those its prefix matches.
Asked == WorkerBuckets \X NamedKeys
Matched == IF request.prefix THEN WorkerBuckets \X Prefixed ELSE {}

(***************************************************************************)
(* A job that ends well has ingested every object it names and every one   *)
(* under its prefix that was there all along, from the one bucket it names *)
(* and although its listing takes several calls and objects come and go;   *)
(* and a job, however it ends, ingests nothing else.                       *)
(***************************************************************************)
AskedIsIndexed ==
  /\ written \subseteq Asked \cup Matched
  /\ status = "succeeded" \/ (pc = "ended" /\ ~failed) =>
       Asked \cup (Matched \cap steady) \subseteq sealed

(***************************************************************************)
(* The handler and the worker resolve a request in two pieces of code, one *)
(* for the task documents and one for the files: as long as the request    *)
(* lists neither keys, were they blank, nor URIs beside a prefix, each     *)
(* file the worker comes to has its document, and each document of a job   *)
(* that goes well its file.                                                *)
(***************************************************************************)
Mixed == request.prefix /\ (request.keys # {} \/ request.uris # {})

TasksAreFiles ==
  config.apiMeta /\ config.workerMeta /\ config.es /\ ~Mixed =>
    /\ pc = "OnTaskRunning" => \A k \in rest : task[k] = "queued"
    /\ status = "succeeded" => \A k \in Keys : task[k] \in {"absent", "succeeded"}

(***************************************************************************)
(* With task documents the row never counts more files than it has in      *)
(* total, and trails the documents by one; a row that says succeeded has   *)
(* counted every file there is a document of.                              *)
(***************************************************************************)
With(value) == Cardinality({k \in Keys : task[k] = value})

CountersAgree ==
  config.es =>
    /\ successFiles + failFiles <= totalFiles
    /\ successFiles \in {With("succeeded"), With("succeeded") - 1}
    /\ failFiles <= With("failed")
    /\ status = "succeeded" => successFiles = totalFiles
=============================================================================
