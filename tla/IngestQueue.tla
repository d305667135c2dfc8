---------------------------- MODULE IngestQueue ----------------------------
(***************************************************************************)
(* Multipart ingestion, end to end: POST /v1/admin/ingest stores the file  *)
(* bodies in Redis, records the job (a MySQL row) and its tasks (one ES    *)
(* document per file) and pushes the job on a Redis list; the goroutines   *)
(* of the importer processes pop jobs and write each file to Milvus and    *)
(* then to ES, keeping the row, the task documents and the Redis status    *)
(* hash up to date as they go.                                             *)
(*                                                                         *)
(* Every call to a store is one action, so other goroutines, other         *)
(* requests and the environment may act between any two calls.             *)
(***************************************************************************)
EXTENDS Naturals, Sequences

CONSTANTS
  Jobs,        \* one per POST: a job id is a fresh UUID
  NFiles,      \* the number of files in the form of each job
  Chunks,      \* chunk ids, the keys of Milvus rows and ES documents
  ChunkOf,     \* the chunk id that each file writes
  Keyed,       \* the files whose chunk carries entity_keys
  Workers,     \* consumer goroutines
  Procs,       \* importer processes
  ProcOf,      \* the process a goroutine runs in
  ApiMeta,     \* INGEST_META_ENABLED on the API
  WorkerMeta,  \* MYSQL_DSN set on the importer
  ES,          \* elasticsearch enabled
  Faults,      \* what the environment may do, see FaultKinds
  None

\* One multipart file of one job.
FileRefs == UNION {{j} \X (1 .. NFiles[j]) : j \in Jobs}

(***************************************************************************)
(* The environment.  A call either succeeds, fails before its effect       *)
(* ("err") or takes effect and then reports an error ("lost": the reply    *)
(* does not arrive).  "resend": the Redis client sends an LPUSH again      *)
(* whose reply it did not get.  "expire": a Redis TTL runs out.  "crash"   *)
(* kills an importer process, "shutdown" is SIGTERM.                       *)
(***************************************************************************)
FaultKinds == {"err", "lost", "resend", "expire", "crash", "shutdown"}

ASSUME NFilesAssumption  == NFiles \in [Jobs -> Nat \ {0}]
ASSUME ChunkOfAssumption == ChunkOf \in [FileRefs -> Chunks]
ASSUME ProcOfAssumption  == ProcOf \in [Workers -> Procs]
ASSUME ConfigAssumption  == /\ {ApiMeta, WorkerMeta, ES} \subseteq BOOLEAN
                            /\ Keyed \subseteq FileRefs
                            /\ Faults \subseteq FaultKinds
ASSUME NoneAssumption    == None \notin Jobs /\ None \notin FileRefs

VARIABLES
  api,           \* where the handler of each request is
  stored,        \* how many of the request's bodies it has stored
  list,          \* the Redis list; LPUSH appends here, BRPOP takes the head
  payload,       \* the ingest:p:{job}:{n} keys that exist
  hash,          \* the status field of ingest:j:{job}
  hashTTL,       \* whether that key has an expiry
  status,        \* ingest_job.status
  totalFiles,    \* ingest_job.total_files
  successFiles,  \* ingest_job.success_files
  failFiles,     \* ingest_job.fail_files
  task,          \* the status in each ES task document
  milvus,        \* the file whose row each Milvus primary key holds
  sealed,        \* the same, as of the last Flush
  entity,        \* the file whose ES entity document each chunk id holds
  proc,          \* whether a process is up or has its context cancelled
  pc,            \* the call each goroutine is about to make
  job,           \* the job it holds
  file,          \* the file of that job it is at
  failed         \* whether its ProcessJob is returning an error

apiVars   == <<api, stored>>
redisVars == <<list, payload, hash, hashTTL>>
rowVars   == <<status, totalFiles, successFiles, failFiles>>
indexVars == <<milvus, sealed, entity>>
workVars  == <<job, file, failed>>
vars == <<apiVars, redisVars, rowVars, task, indexVars, proc, pc, workVars>>

JobStatus    == {"queued", "running", "succeeded", "failed"}
Terminal     == {"succeeded", "failed"}
HandlerCalls == {"SetPayload", "InsertQueued", "BulkIndexQueued", "HSet",
                 "Expire", "LPush", "accepted", "rejected"}
WorkerCalls  == {"loop", "BRPop", "SetJobRunning", "MarkRunning", "GetPayload",
                 "OnTaskRunning", "WriteMilvus", "WriteES", "TaskSucceeded",
                 "CountSuccess", "TaskFailed", "CountFailure", "Flush",
                 "DelPayload", "MarkTerminal", "SetJobTerminal", "exited"}
Idle         == {"loop", "BRPop", "exited"}

Init ==
  /\ api = [j \in Jobs |-> "SetPayload"]
  /\ stored = [j \in Jobs |-> 0]
  /\ list = <<>>
  /\ payload = {}
  /\ hash = [j \in Jobs |-> "absent"]
  /\ hashTTL = [j \in Jobs |-> FALSE]
  /\ status = [j \in Jobs |-> "absent"]
  /\ totalFiles = [j \in Jobs |-> 0]
  /\ successFiles = [j \in Jobs |-> 0]
  /\ failFiles = [j \in Jobs |-> 0]
  /\ task = [r \in FileRefs |-> "absent"]
  /\ milvus = [c \in Chunks |-> None]
  /\ sealed = [c \in Chunks |-> None]
  /\ entity = [c \in Chunks |-> None]
  /\ proc = [p \in Procs |-> "up"]
  /\ pc = [w \in Workers |-> "loop"]
  /\ job = [w \in Workers |-> None]
  /\ file = [w \in Workers |-> 1]
  /\ failed = [w \in Workers |-> FALSE]

Outcomes == {"ok"} \cup (Faults \cap {"err", "lost"})

\* The outcomes under which a call takes effect.
Applied(o) == o \in {"ok", "lost"}

\* f with f[x] set to v by a call of outcome o.
Write(f, x, v, o) == IF Applied(o) THEN [f EXCEPT ![x] = v] ELSE f

RefsOf(j) == {j} \X (1 .. NFiles[j])

-----------------------------------------------------------------------------
(***************************************************************************)
(* The handler of POST /v1/admin/ingest.  An error of a call ends it with  *)
(* a 4xx or 5xx; what it has written by then stays.                        *)
(***************************************************************************)
Continue(j, o, next) == api' = [api EXCEPT ![j] = IF o = "ok" THEN next ELSE "rejected"]

\* A file of an unsupported type, unreadable or too large: 400.
RejectFile(j) ==
  /\ api[j] = "SetPayload"
  /\ api' = [api EXCEPT ![j] = "rejected"]
  /\ UNCHANGED <<stored, redisVars, rowVars, task, indexVars, proc, pc, workVars>>

SetPayload(j, o) ==
  /\ api[j] = "SetPayload"
  /\ payload' = IF Applied(o) THEN payload \cup {<<j, stored[j] + 1>>} ELSE payload
  /\ stored' = IF o = "ok" THEN [stored EXCEPT ![j] = @ + 1] ELSE stored
  /\ Continue(j, o, IF stored[j] + 1 < NFiles[j] THEN "SetPayload"
                    ELSE IF ApiMeta THEN "InsertQueued" ELSE "HSet")
  /\ UNCHANGED <<list, hash, hashTTL, rowVars, task, indexVars, proc, pc, workVars>>

InsertQueued(j, o) ==
  /\ api[j] = "InsertQueued"
  /\ status' = Write(status, j, "queued", o)
  /\ totalFiles' = Write(totalFiles, j, NFiles[j], o)
  /\ Continue(j, o, IF ES THEN "BulkIndexQueued" ELSE "HSet")
  /\ UNCHANGED <<stored, redisVars, successFiles, failFiles, task, indexVars,
                 proc, pc, workVars>>

\* A bulk request that reports an error may have indexed some of its documents.
BulkIndexQueued(j, o) ==
  /\ api[j] = "BulkIndexQueued"
  /\ \E done \in SUBSET RefsOf(j) :
       /\ o = "ok" => done = RefsOf(j)
       /\ o = "err" => done = {}
       /\ task' = [r \in FileRefs |-> IF r \in done THEN "queued" ELSE task[r]]
  /\ Continue(j, o, "HSet")
  /\ UNCHANGED <<stored, redisVars, rowVars, indexVars, proc, pc, workVars>>

HSet(j, o) ==
  /\ api[j] = "HSet"
  /\ hash' = Write(hash, j, "queued", o)
  /\ Continue(j, o, "Expire")
  /\ UNCHANGED <<stored, list, payload, hashTTL, rowVars, task, indexVars, proc,
                 pc, workVars>>

Expire(j, o) ==
  /\ api[j] = "Expire"
  /\ hashTTL' = Write(hashTTL, j, TRUE, o)
  /\ Continue(j, o, "LPush")
  /\ UNCHANGED <<stored, list, payload, hash, rowVars, task, indexVars, proc,
                 pc, workVars>>

LPush(j, o) ==
  /\ api[j] = "LPush"
  /\ list' = IF Applied(o) THEN Append(list, j) ELSE list
  /\ Continue(j, o, "accepted")
  /\ UNCHANGED <<stored, payload, hash, hashTTL, rowVars, task, indexVars, proc,
                 pc, workVars>>

\* The first reply is lost and the client sends the command again.
LPushResent(j) ==
  /\ "resend" \in Faults
  /\ api[j] = "LPush"
  /\ list' = list \o <<j, j>>
  /\ Continue(j, "ok", "accepted")
  /\ UNCHANGED <<stored, payload, hash, hashTTL, rowVars, task, indexVars, proc,
                 pc, workVars>>

Handle(j) ==
  \/ RejectFile(j)
  \/ \E o \in Outcomes : SetPayload(j, o)
  \/ \E o \in Outcomes : InsertQueued(j, o)
  \/ \E o \in Outcomes : BulkIndexQueued(j, o)
  \/ \E o \in Outcomes : HSet(j, o)
  \/ \E o \in Outcomes : Expire(j, o)
  \/ \E o \in Outcomes : LPush(j, o)
  \/ LPushResent(j)

-----------------------------------------------------------------------------
(***************************************************************************)
(* A consumer goroutine.  Its calls carry the context of its process: once *)
(* that is cancelled, a call that starts fails without taking effect.      *)
(***************************************************************************)
Up(w) == proc[ProcOf[w]] = "up"

CallOutcomes(w) == IF Up(w) THEN Outcomes ELSE {"err"}

At(w, call) == pc[w] = call

Goto(w, call) == pc' = [pc EXCEPT ![w] = call]

\* The file of its job the goroutine is at.
Ref(w) == <<job[w], file[w]>>

\* Mutated: only a result without an error is recorded in the row.
ReturnRecordsSuccessOnly(w, err) ==
  /\ failed' = [failed EXCEPT ![w] = err]
  /\ Goto(w, IF WorkerMeta /\ ~err THEN "MarkTerminal" ELSE "SetJobTerminal")
  /\ UNCHANGED <<job, file>>

\* ProcessJob has its result; its deferred function records it in the row.
Return(w, err) ==
  /\ failed' = [failed EXCEPT ![w] = err]
  /\ Goto(w, IF WorkerMeta THEN "MarkTerminal" ELSE "SetJobTerminal")
  /\ UNCHANGED <<job, file>>

\* The call goes through: on to the next one within ProcessJob.
Proceed(w, call) == Goto(w, call) /\ UNCHANGED workVars

\* Mutated: the file is read and run again until it passes.
FileRetried(w) == Proceed(w, "GetPayload")

\* Reading or running the file failed: OnTaskFailed, then return the error.
FileFailed(w) ==
  IF WorkerMeta THEN Proceed(w, IF ES THEN "TaskFailed" ELSE "CountFailure")
                ELSE Return(w, TRUE)

\* Mutated: the loop runs once too often.
NextFileTooFar(w) ==
  IF file[w] <= NFiles[job[w]]
  THEN /\ Goto(w, "GetPayload")
       /\ file' = [file EXCEPT ![w] = @ + 1]
       /\ UNCHANGED <<job, failed>>
  ELSE Proceed(w, "Flush")

\* The file is done: the next iteration of the loop, or what follows the loop.
NextFile(w) ==
  IF file[w] < NFiles[job[w]]
  THEN /\ Goto(w, "GetPayload")
       /\ file' = [file EXCEPT ![w] = @ + 1]
       /\ UNCHANGED <<job, failed>>
  ELSE Proceed(w, "Flush")

\* The file ran without error: OnTaskSucceeded.
FileRan(w) ==
  IF WorkerMeta THEN Proceed(w, IF ES THEN "TaskSucceeded" ELSE "CountSuccess")
                ELSE NextFile(w)

\* The top of the consumer loop.  BRPOP fails at once under a cancelled context.
StartDequeue(w) ==
  /\ At(w, "loop")
  /\ Goto(w, IF Up(w) THEN "BRPop" ELSE "exited")
  /\ UNCHANGED <<apiVars, redisVars, rowVars, task, indexVars, proc, workVars>>

\* Five seconds without a job, or a broken connection: back to the loop.
DequeueNone(w) ==
  /\ At(w, "BRPop")
  /\ list = <<>> \/ "err" \in Faults
  /\ Goto(w, "loop")
  /\ UNCHANGED <<apiVars, redisVars, rowVars, task, indexVars, proc, workVars>>

\* Mutated: the job is read and stays on the list.
DequeuePeek(w) ==
  /\ At(w, "BRPop")
  /\ list # <<>>
  /\ job' = [job EXCEPT ![w] = Head(list)]
  /\ Goto(w, "SetJobRunning")
  /\ UNCHANGED <<apiVars, redisVars, rowVars, task, indexVars, proc, file, failed>>

\* BRPOP removes the job as it returns it.  A BRPOP that is already waiting is
\* not interrupted when the context is cancelled.
Dequeue(w) ==
  /\ At(w, "BRPop")
  /\ list # <<>>
  /\ list' = Tail(list)
  /\ job' = [job EXCEPT ![w] = Head(list)]
  /\ Goto(w, "SetJobRunning")
  /\ UNCHANGED <<apiVars, payload, hash, hashTTL, rowVars, task, indexVars, proc,
                 file, failed>>

\* The job is popped and the reply does not arrive: no one holds it any more.
DequeueLost(w) ==
  /\ "lost" \in Faults
  /\ At(w, "BRPop")
  /\ list # <<>>
  /\ list' = Tail(list)
  /\ Goto(w, "loop")
  /\ UNCHANGED <<apiVars, payload, hash, hashTTL, rowVars, task, indexVars, proc,
                 workVars>>

\* The status hash; the error is ignored.  HSET creates a key that has expired
\* again, without an expiry.
SetJobRunning(w, o) ==
  /\ At(w, "SetJobRunning")
  /\ hash' = Write(hash, job[w], "running", o)
  /\ Proceed(w, IF WorkerMeta THEN "MarkRunning" ELSE "GetPayload")
  /\ UNCHANGED <<apiVars, list, payload, hashTTL, rowVars, task, indexVars, proc>>

\* An UPDATE that changes no row is an error: there is no row, or it says running
\* already, since the same second.  An error here leaves ProcessJob before its
\* deferred function is registered.
MarkRunning(w, o) ==
  /\ At(w, "MarkRunning")
  /\ LET row == status[job[w]]
     IN  \E changed \in IF row = "running" THEN BOOLEAN ELSE {row # "absent"} :
           /\ status' = IF row = "absent" THEN status
                         ELSE Write(status, job[w], "running", o)
           /\ IF changed /\ o = "ok"
              THEN Proceed(w, "GetPayload")
              ELSE /\ failed' = [failed EXCEPT ![w] = TRUE]
                   /\ Goto(w, "SetJobTerminal")
                   /\ UNCHANGED <<job, file>>
  /\ UNCHANGED <<apiVars, redisVars, totalFiles, successFiles, failFiles, task,
                 indexVars, proc>>

GetPayload(w, o) ==
  /\ At(w, "GetPayload")
  /\ IF o = "ok" /\ Ref(w) \in payload
     THEN Proceed(w, IF WorkerMeta /\ ES THEN "OnTaskRunning" ELSE "WriteMilvus")
     ELSE FileFailed(w)
  /\ UNCHANGED <<apiVars, redisVars, rowVars, task, indexVars, proc>>

\* An _update of a task document that does not exist is an error (404).
UpdateTask(w, value, o) ==
  task' = IF task[Ref(w)] = "absent" THEN task ELSE Write(task, Ref(w), value, o)

\* Mutated: the error of an update is dropped.
UpdatedAlways(w, o) == TRUE

Updated(w, o) == o = "ok" /\ task[Ref(w)] # "absent"

OnTaskRunning(w, o) ==
  /\ At(w, "OnTaskRunning")
  /\ UpdateTask(w, "running", o)
  /\ IF Updated(w, o) THEN Proceed(w, "WriteMilvus") ELSE Return(w, TRUE)
  /\ UNCHANGED <<apiVars, redisVars, rowVars, indexVars, proc>>

\* Parsing, embedding and the upsert into Milvus.
WriteMilvus(w, o) ==
  /\ At(w, "WriteMilvus")
  /\ milvus' = Write(milvus, ChunkOf[Ref(w)], Ref(w), o)
  /\ IF o # "ok" THEN FileFailed(w)
     ELSE IF ES /\ Ref(w) \in Keyed THEN Proceed(w, "WriteES")
     ELSE FileRan(w)
  /\ UNCHANGED <<apiVars, redisVars, rowVars, task, sealed, entity, proc>>

\* Mutated: the error of the bulk is dropped.
WriteESUnchecked(w, o) ==
  /\ At(w, "WriteES")
  /\ entity' = Write(entity, ChunkOf[Ref(w)], Ref(w), o)
  /\ FileRan(w)
  /\ UNCHANGED <<apiVars, redisVars, rowVars, task, milvus, sealed, proc>>

\* The bulk of entity documents, after Milvus has taken the rows.
WriteES(w, o) ==
  /\ At(w, "WriteES")
  /\ entity' = Write(entity, ChunkOf[Ref(w)], Ref(w), o)
  /\ IF o = "ok" THEN FileRan(w) ELSE FileFailed(w)
  /\ UNCHANGED <<apiVars, redisVars, rowVars, task, milvus, sealed, proc>>

\* OnTaskSucceeded and OnTaskFailed: the ES document first and, if that went
\* well, the counters of the row.
TaskSucceeded(w, o) ==
  /\ At(w, "TaskSucceeded")
  /\ UpdateTask(w, "succeeded", o)
  /\ IF Updated(w, o) THEN Proceed(w, "CountSuccess") ELSE Return(w, TRUE)
  /\ UNCHANGED <<apiVars, redisVars, rowVars, indexVars, proc>>

\* Mutated: the error of the counters is dropped.
CountSuccessUnchecked(w, o) ==
  /\ At(w, "CountSuccess")
  /\ successFiles' = Write(successFiles, job[w], successFiles[job[w]] + 1, o)
  /\ NextFile(w)
  /\ UNCHANGED <<apiVars, redisVars, status, totalFiles, failFiles, task,
                 indexVars, proc>>

\* Mutated: a success that could not be counted is recorded as a failure.
CountSuccessOrFail(w, o) ==
  /\ At(w, "CountSuccess")
  /\ successFiles' = Write(successFiles, job[w], successFiles[job[w]] + 1, o)
  /\ IF o = "ok" THEN NextFile(w) ELSE FileFailed(w)
  /\ UNCHANGED <<apiVars, redisVars, status, totalFiles, failFiles, task,
                 indexVars, proc>>

CountSuccess(w, o) ==
  /\ At(w, "CountSuccess")
  /\ successFiles' = Write(successFiles, job[w], successFiles[job[w]] + 1, o)
  /\ IF o = "ok" THEN NextFile(w) ELSE Return(w, TRUE)
  /\ UNCHANGED <<apiVars, redisVars, status, totalFiles, failFiles, task,
                 indexVars, proc>>

TaskFailed(w, o) ==
  /\ At(w, "TaskFailed")
  /\ UpdateTask(w, "failed", o)
  /\ IF Updated(w, o) THEN Proceed(w, "CountFailure") ELSE Return(w, TRUE)
  /\ UNCHANGED <<apiVars, redisVars, rowVars, indexVars, proc>>

CountFailure(w, o) ==
  /\ At(w, "CountFailure")
  /\ failFiles' = Write(failFiles, job[w], failFiles[job[w]] + 1, o)
  /\ Return(w, TRUE)
  /\ UNCHANGED <<apiVars, redisVars, status, totalFiles, successFiles, task,
                 indexVars, proc>>

\* Mutated: the error of the flush is dropped.
FlushUnchecked(w, o) ==
  /\ At(w, "Flush")
  /\ sealed' = IF Applied(o) THEN milvus ELSE sealed
  /\ Proceed(w, "DelPayload")
  /\ UNCHANGED <<apiVars, redisVars, rowVars, task, milvus, entity, proc>>

\* Flush seals what any goroutine has written to the collection so far.
Flush(w, o) ==
  /\ At(w, "Flush")
  /\ sealed' = IF Applied(o) THEN milvus ELSE sealed
  /\ IF o = "ok" THEN Proceed(w, "DelPayload") ELSE Return(w, TRUE)
  /\ UNCHANGED <<apiVars, redisVars, rowVars, task, milvus, entity, proc>>

\* The error is ignored.
DelPayload(w, o) ==
  /\ At(w, "DelPayload")
  /\ payload' = IF Applied(o) THEN payload \ RefsOf(job[w]) ELSE payload
  /\ Return(w, FALSE)
  /\ UNCHANGED <<apiVars, list, hash, hashTTL, rowVars, task, indexVars, proc>>

\* Mutated: the deferred function does not see the error.
VerdictShadowed(w) == "succeeded"

Verdict(w) == IF failed[w] THEN "failed" ELSE "succeeded"

\* The deferred function of ProcessJob; its error is only logged.
MarkTerminal(w, o) ==
  /\ At(w, "MarkTerminal")
  /\ status' = Write(status, job[w], Verdict(w), o)
  /\ Proceed(w, "SetJobTerminal")
  /\ UNCHANGED <<apiVars, redisVars, totalFiles, successFiles, failFiles, task,
                 indexVars, proc>>

\* Mutated: a job that has failed is pushed again.
SetJobTerminalRequeues(w, o) ==
  /\ At(w, "SetJobTerminal")
  /\ hash' = Write(hash, job[w], Verdict(w), o)
  /\ list' = IF failed[w] /\ o = "ok" THEN Append(list, job[w]) ELSE list
  /\ Goto(w, "loop")
  /\ job' = [job EXCEPT ![w] = None]
  /\ file' = [file EXCEPT ![w] = 1]
  /\ failed' = [failed EXCEPT ![w] = FALSE]
  /\ UNCHANGED <<apiVars, payload, hashTTL, rowVars, task, indexVars, proc>>

SetJobTerminal(w, o) ==
  /\ At(w, "SetJobTerminal")
  /\ hash' = Write(hash, job[w], Verdict(w), o)
  /\ Goto(w, "loop")
  /\ job' = [job EXCEPT ![w] = None]
  /\ file' = [file EXCEPT ![w] = 1]
  /\ failed' = [failed EXCEPT ![w] = FALSE]
  /\ UNCHANGED <<apiVars, list, payload, hashTTL, rowVars, task, indexVars, proc>>

ProcessJob(w) ==
  \/ \E o \in CallOutcomes(w) : SetJobRunning(w, o)
  \/ \E o \in CallOutcomes(w) : MarkRunning(w, o)
  \/ \E o \in CallOutcomes(w) : GetPayload(w, o)
  \/ \E o \in CallOutcomes(w) : OnTaskRunning(w, o)
  \/ \E o \in CallOutcomes(w) : WriteMilvus(w, o)
  \/ \E o \in CallOutcomes(w) : WriteES(w, o)
  \/ \E o \in CallOutcomes(w) : TaskSucceeded(w, o)
  \/ \E o \in CallOutcomes(w) : CountSuccess(w, o)
  \/ \E o \in CallOutcomes(w) : TaskFailed(w, o)
  \/ \E o \in CallOutcomes(w) : CountFailure(w, o)
  \/ \E o \in CallOutcomes(w) : Flush(w, o)
  \/ \E o \in CallOutcomes(w) : DelPayload(w, o)
  \/ \E o \in CallOutcomes(w) : MarkTerminal(w, o)
  \/ \E o \in CallOutcomes(w) : SetJobTerminal(w, o)

Consume(w) == StartDequeue(w) \/ DequeueNone(w) \/ Dequeue(w) \/ ProcessJob(w)

-----------------------------------------------------------------------------
(***************************************************************************)
(* Expiry, and the life of an importer process.                            *)
(***************************************************************************)
\* A body expires hours after it was stored, long after its request has ended.
ExpirePayload(r) ==
  /\ "expire" \in Faults
  /\ r \in payload
  /\ api[r[1]] \in {"accepted", "rejected"}
  /\ payload' = payload \ {r}
  /\ UNCHANGED <<apiVars, list, hash, hashTTL, rowVars, task, indexVars, proc, pc,
                 workVars>>

ExpireHash(j) ==
  /\ "expire" \in Faults
  /\ hashTTL[j] /\ api[j] \in {"accepted", "rejected"}
  /\ hash' = [hash EXCEPT ![j] = "absent"]
  /\ hashTTL' = [hashTTL EXCEPT ![j] = FALSE]
  /\ UNCHANGED <<apiVars, list, payload, rowVars, task, indexVars, proc, pc,
                 workVars>>

\* SIGINT or SIGTERM cancels the context all goroutines of the process share.
Shutdown(p) ==
  /\ "shutdown" \in Faults
  /\ proc[p] = "up"
  /\ proc' = [proc EXCEPT ![p] = "cancelled"]
  /\ UNCHANGED <<apiVars, redisVars, rowVars, task, indexVars, pc, workVars>>

WorkersOf(p) == {w \in Workers : ProcOf[w] = p}

\* A process in place of one that has exited or crashed.
Started(p) ==
  /\ proc' = [proc EXCEPT ![p] = "up"]
  /\ pc' = [w \in Workers |-> IF w \in WorkersOf(p) THEN "loop" ELSE pc[w]]
  /\ job' = [w \in Workers |-> IF w \in WorkersOf(p) THEN None ELSE job[w]]
  /\ file' = [w \in Workers |-> IF w \in WorkersOf(p) THEN 1 ELSE file[w]]
  /\ failed' = [w \in Workers |-> IF w \in WorkersOf(p) THEN FALSE ELSE failed[w]]
  /\ UNCHANGED <<apiVars, redisVars, rowVars, task, indexVars>>

Restart(p) ==
  /\ proc[p] = "cancelled"
  /\ \A w \in WorkersOf(p) : At(w, "exited")
  /\ Started(p)

\* The process dies between two calls; what its goroutines held is gone.
Crash(p) ==
  /\ "crash" \in Faults
  /\ Started(p)

Environment ==
  \/ \E r \in FileRefs : ExpirePayload(r)
  \/ \E j \in Jobs : ExpireHash(j)
  \/ \E p \in Procs : Shutdown(p)
  \/ \E p \in Procs : Restart(p)
  \/ \E p \in Procs : Crash(p)
  \/ \E w \in Workers : DequeueLost(w)

Next ==
  \/ \E j \in Jobs : Handle(j)
  \/ \E w \in Workers : Consume(w)
  \/ Environment

Spec == Init /\ [][Next]_vars

\* The goroutines of a live process are scheduled, and each of their calls
\* returns: the clients have timeouts.  Requests need never arrive.
Fairness == \A w \in Workers : WF_vars(Consume(w))

FairSpec == Spec /\ Fairness

-----------------------------------------------------------------------------
HandlersOK ==
  /\ api \in [Jobs -> HandlerCalls]
  /\ stored \in [Jobs -> Nat]
  /\ \A j \in Jobs : api[j] = "SetPayload" => stored[j] < NFiles[j]

RecordsOK ==
  /\ list \in Seq(Jobs)
  /\ payload \subseteq FileRefs
  /\ hash \in [Jobs -> JobStatus \cup {"absent"}]
  /\ hashTTL \in [Jobs -> BOOLEAN]
  /\ status \in [Jobs -> JobStatus \cup {"absent"}]
  /\ totalFiles \in [Jobs -> Nat]
  /\ successFiles \in [Jobs -> Nat]
  /\ failFiles \in [Jobs -> Nat]
  /\ task \in [FileRefs -> JobStatus \cup {"absent"}]

\* What a store may hold under a chunk id.
Holders(c) == {r \in FileRefs : ChunkOf[r] = c} \cup {None}

IndexOK ==
  /\ milvus \in [Chunks -> FileRefs \cup {None}]
  /\ sealed \in [Chunks -> FileRefs \cup {None}]
  /\ entity \in [Chunks -> FileRefs \cup {None}]
  /\ \A c \in Chunks : {milvus[c], sealed[c], entity[c]} \subseteq Holders(c)

WorkersOK ==
  /\ proc \in [Procs -> {"up", "cancelled"}]
  /\ pc \in [Workers -> WorkerCalls]
  /\ job \in [Workers -> Jobs \cup {None}]
  /\ file \in [Workers -> Nat]
  /\ failed \in [Workers -> BOOLEAN]
  /\ \A w \in Workers :
       \/ pc[w] \in Idle /\ job[w] = None /\ file[w] = 1
       \/ pc[w] \notin Idle /\ Ref(w) \in FileRefs

\* Types, that a store holds under a chunk id only a file with that id, and that
\* handlers and goroutines are at files that exist.
TypeOK == HandlersOK /\ RecordsOK /\ IndexOK /\ WorkersOK

Stored(store, r) == store[ChunkOf[r]] # None

\* Written by a goroutine, and written for good.
Written(r) == Stored(milvus, r) /\ (ES /\ r \in Keyed => Stored(entity, r))
Indexed(r) == Stored(sealed, r) /\ (ES /\ r \in Keyed => Stored(entity, r))

\* A job reported as succeeded, in MySQL or in Redis, has every one of its
\* files in Milvus, sealed by a Flush, and in the entity index where it belongs:
\* whatever failed, was lost, crashed or was shut down on the way.
SucceededIsIndexed ==
  \A j \in Jobs : "succeeded" \in {status[j], hash[j]} => \A r \in RefsOf(j) : Indexed(r)

SealedIsWritten == \A c \in Chunks : sealed[c] # None => milvus[c] # None

\* The result of ProcessJob is known, and it is not an error.
Succeeding(w) == \/ pc[w] = "DelPayload"
                 \/ pc[w] \in {"MarkTerminal", "SetJobTerminal"} /\ ~failed[w]

Passed(w) ==
  /\ \A r \in RefsOf(job[w]) : r[2] < file[w] => Written(r)
  /\ pc[w] = "WriteES" => Stored(milvus, Ref(w))
  /\ pc[w] \in {"TaskSucceeded", "CountSuccess"} => Written(Ref(w))
  /\ pc[w] = "Flush" => \A r \in RefsOf(job[w]) : Written(r)
  /\ Succeeding(w) => \A r \in RefsOf(job[w]) : Indexed(r)

\* What a goroutine has passed is in the stores, and stays there, however the
\* goroutines interleave on shared chunk ids: the files before the one it is at
\* are written, all of them when it flushes, and they are sealed before it
\* deletes a body or reports a success.
WorkIsWritten == SealedIsWritten /\ \A w \in Workers : job[w] # None => Passed(w)

\* A row that says succeeded has counted every file, and no failure; every task
\* document of the job says succeeded.  Holds when each job is delivered once.
SucceededIsCounted ==
  \A j \in Jobs : status[j] = "succeeded" =>
    /\ successFiles[j] = totalFiles[j]
    /\ failFiles[j] = 0
    /\ ES => \A r \in RefsOf(j) : task[r] = "succeeded"

\* The counters trail the task documents by one file at most, and in order: the
\* files up to success_files have succeeded, the next may have any outcome, no
\* later one was started, and a counted failure is the failure of that next file.
CountersTrailTasks ==
  /\ \A j \in Jobs : /\ failFiles[j] <= 1
                     /\ successFiles[j] + failFiles[j] <= NFiles[j]
  /\ ES => \A r \in FileRefs :
       /\ r[2] <= successFiles[r[1]] => task[r] = "succeeded"
       /\ r[2] > successFiles[r[1]] + 1 => task[r] \in {"absent", "queued"}
       /\ r[2] = successFiles[r[1]] + 1 /\ failFiles[r[1]] > 0 => task[r] = "failed"

\* A job is in one place: at one position of the list or with one goroutine,
\* never both, and only once its request has reached LPUSH.
SingleDelivery ==
  /\ \A m, n \in DOMAIN list : list[m] = list[n] => m = n
  /\ \A n \in DOMAIN list : api[list[n]] \in {"accepted", "rejected"}
  /\ \A w \in Workers : job[w] # None =>
       /\ api[job[w]] \in {"accepted", "rejected"}
       /\ \A n \in DOMAIN list : list[n] # job[w]
       /\ \A v \in Workers \ {w} : job[v] # job[w]

\* Short of a TTL, the bodies of an accepted job are there until its chunks are
\* sealed: a job that fails, is lost or dies with its process could be repeated.
PayloadUntilIndexed ==
  "expire" \notin Faults => \A j \in Jobs : api[j] = "accepted" =>
    \/ RefsOf(j) \subseteq payload
    \/ \A r \in RefsOf(j) : Stored(sealed, r)

\* A terminal row is final: neither its status nor its counters change again.
RowFinal ==
  [][\A j \in Jobs : status[j] \in Terminal =>
       /\ status'[j] = status[j]
       /\ successFiles'[j] = successFiles[j]
       /\ failFiles'[j] = failFiles[j]]_vars

\* The outcome in a task document is final.
TaskFinal ==
  [][\A r \in FileRefs : task[r] \in Terminal => task'[r] = task[r]]_vars

\* The promise of JobLifecycle, read off the MySQL row and the sealed Milvus rows.
Lifecycle == INSTANCE JobLifecycle WITH
  ChunksOf <- [j \in Jobs |-> {ChunkOf[r] : r \in RefsOf(j)}],
  phase    <- [j \in Jobs |-> IF status[j] = "absent" THEN "none" ELSE status[j]],
  durable  <- {c \in Chunks : sealed[c] # None}

KeepsLifecycle == Lifecycle!Spec

\* A goroutine that takes a job puts it down again: no outcome of any call, and
\* no cancellation, leaves ProcessJob without a way on.
JobPutDown == \A w \in Workers : job[w] # None ~> job[w] = None

\* When only TTLs run out, each accepted job reaches a terminal row and a
\* terminal status in Redis, unless that hash has itself expired.
AcceptedEnds ==
  \A j \in Jobs : api[j] = "accepted" ~>
    /\ ApiMeta /\ WorkerMeta => status[j] \in Terminal
    /\ hash[j] \in Terminal \cup {"absent"}

-----------------------------------------------------------------------------
(***************************************************************************)
(* What a document says of the system, and its code does not do.           *)
(***************************************************************************)
\* "ProcessJob ends: UPDATE ingest_job to a terminal status": a row that says
\* running belongs to a job that a goroutine holds.
RunningIsHeld ==
  \A j \in Jobs : status[j] = "running" => \E w \in Workers : job[w] = j
=============================================================================
