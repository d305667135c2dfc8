------------------------- MODULE IngestQueueProofs -------------------------
(***************************************************************************)
(* Proofs about IngestQueue, for any number of jobs, files, goroutines and *)
(* processes, any assignment of chunk ids and any set of faults: what is   *)
(* written and indexed; then what is kept for a job beside the indexes,    *)
(* its bodies, its row and its task documents, and that the row, read      *)
(* together with the sealed chunks, implements JobLifecycle.               *)
(***************************************************************************)
EXTENDS IngestQueue, TLAPS

-----------------------------------------------------------------------------
(***************************************************************************)
(* Files and jobs.                                                         *)
(***************************************************************************)
\* A file reference is a job and the number of one of its files.
LEMMA FileRefsMember ==
  ASSUME NEW j, NEW n
  PROVE  <<j, n>> \in FileRefs <=> j \in Jobs /\ n \in 1 .. NFiles[j]
BY DEF FileRefs

\* A file reference is the pair of its components, which are of the right kind.
LEMMA FileRefsPair ==
  ASSUME NEW r \in FileRefs
  PROVE  /\ r = <<r[1], r[2]>>
         /\ r[1] \in Jobs
         /\ r[2] \in 1 .. NFiles[r[1]]
BY DEF FileRefs

\* The files of a job are file references, and they are of that job.
LEMMA RefsOfMember ==
  ASSUME NEW j \in Jobs, NEW r
  PROVE  r \in RefsOf(j) <=> r \in FileRefs /\ r[1] = j
BY DEF RefsOf, FileRefs

\* Every job has a first file, and after any file but the last a next one.
LEMMA Files ==
  ASSUME NEW j \in Jobs
  PROVE  /\ NFiles[j] \in Nat \ {0}
         /\ <<j, 1>> \in FileRefs
         /\ \A n : <<j, n>> \in FileRefs /\ n < NFiles[j] => <<j, n + 1>> \in FileRefs
<1>1. NFiles[j] \in Nat \ {0}
  BY NFilesAssumption
<1>2. <<j, 1>> \in FileRefs
  BY <1>1, FileRefsMember
<1>3. ASSUME NEW n, <<j, n>> \in FileRefs, n < NFiles[j]
      PROVE  <<j, n + 1>> \in FileRefs
  BY <1>1, <1>3, FileRefsMember
<1> QED
  BY <1>1, <1>2, <1>3

-----------------------------------------------------------------------------
(***************************************************************************)
(* Types.                                                                  *)
(***************************************************************************)
USE DEF JobStatus, Terminal, HandlerCalls, WorkerCalls, Idle

LEMMA TypeInit == Init => TypeOK
BY NFilesAssumption, NoneAssumption
   DEF Init, TypeOK, HandlersOK, RecordsOK, IndexOK, WorkersOK, Holders

\* No step of a handler disturbs the types.
LEMMA TypeHandle ==
  ASSUME TypeOK, NEW j \in Jobs, Handle(j)
  PROVE  TypeOK'
<1> USE DEF TypeOK, HandlersOK, RecordsOK, IndexOK, WorkersOK, Holders, Ref, Continue,
            Write, apiVars, redisVars, rowVars, indexVars, workVars
<1>1. CASE RejectFile(j)
  BY <1>1 DEF RejectFile
<1>2. ASSUME NEW o \in Outcomes, SetPayload(j, o)
      PROVE  TypeOK'
  <2>1. stored[j] \in Nat /\ NFiles[j] \in Nat /\ stored[j] < NFiles[j]
    BY <1>2, NFilesAssumption DEF SetPayload
  <2>2. <<j, stored[j] + 1>> \in FileRefs
    <3>1. stored[j] + 1 \in 1 .. NFiles[j]
      BY <2>1
    <3> QED
      BY <3>1, FileRefsMember
  <2>3. RecordsOK' /\ IndexOK' /\ WorkersOK'
    BY <1>2, <2>2 DEF SetPayload
  <2>4. api' \in [Jobs -> HandlerCalls] /\ stored' \in [Jobs -> Nat]
    BY <1>2, <2>1 DEF SetPayload
  <2>5. \A i \in Jobs : api'[i] = "SetPayload" => stored'[i] < NFiles[i]
    BY <1>2, <2>1 DEF SetPayload
  <2> QED
    BY <2>3, <2>4, <2>5
<1>3. ASSUME NEW o \in Outcomes, InsertQueued(j, o)
      PROVE  TypeOK'
  BY <1>3, Files DEF InsertQueued
<1>4. ASSUME NEW o \in Outcomes, BulkIndexQueued(j, o)
      PROVE  TypeOK'
  BY <1>4 DEF BulkIndexQueued
<1>5. ASSUME NEW o \in Outcomes, HSet(j, o)
      PROVE  TypeOK'
  BY <1>5 DEF HSet
<1>6. ASSUME NEW o \in Outcomes, Expire(j, o)
      PROVE  TypeOK'
  BY <1>6 DEF Expire
<1>7. ASSUME NEW o \in Outcomes, LPush(j, o)
      PROVE  TypeOK'
  BY <1>7 DEF LPush
<1>8. CASE LPushResent(j)
  BY <1>8, SMTT(60) DEF LPushResent
<1> QED
  BY <1>1, <1>2, <1>3, <1>4, <1>5, <1>6, <1>7, <1>8 DEF Handle

\* A goroutine that holds a job, and goes on with it in any of the ways it can,
\* is still at a file of that job.
LEMMA TypeProceed ==
  ASSUME WorkersOK, NEW w \in Workers, pc[w] \notin Idle, UNCHANGED proc,
         NEW call \in WorkerCalls \ Idle, Proceed(w, call)
  PROVE  WorkersOK'
BY DEF WorkersOK, Proceed, Goto, Ref, workVars

LEMMA TypeReturn ==
  ASSUME WorkersOK, NEW w \in Workers, pc[w] \notin Idle, UNCHANGED proc,
         NEW err \in BOOLEAN, Return(w, err)
  PROVE  WorkersOK'
BY DEF WorkersOK, Return, Goto, Ref

LEMMA TypeNextFile ==
  ASSUME WorkersOK, NEW w \in Workers, pc[w] \notin Idle, UNCHANGED proc,
         NextFile(w)
  PROVE  WorkersOK'
<1>1. CASE file[w] < NFiles[job[w]]
  <2>1. job[w] \in Jobs /\ file[w] \in Nat
    BY FileRefsMember DEF WorkersOK, Ref
  <2>2. <<job[w], file[w] + 1>> \in FileRefs
    BY <1>1, <2>1, Files DEF WorkersOK, Ref
  <2> QED
    BY <1>1, <2>1, <2>2 DEF WorkersOK, NextFile, Goto, Ref
<1>2. CASE ~(file[w] < NFiles[job[w]])
  BY <1>2, TypeProceed DEF NextFile
<1> QED
  BY <1>1, <1>2

LEMMA TypeFileEnds ==
  ASSUME WorkersOK, NEW w \in Workers, pc[w] \notin Idle, UNCHANGED proc,
         FileRan(w) \/ FileFailed(w)
  PROVE  WorkersOK'
BY TypeProceed, TypeReturn, TypeNextFile DEF FileRan, FileFailed

\* No step of a consumer goroutine disturbs the types.
LEMMA TypeConsume ==
  ASSUME TypeOK, NEW w \in Workers, Consume(w)
  PROVE  TypeOK'
<1> USE DEF TypeOK, HandlersOK, RecordsOK, IndexOK, apiVars, redisVars, rowVars, indexVars,
            At
<1>1. CASE StartDequeue(w)
  BY <1>1 DEF StartDequeue, WorkersOK, Goto, Ref, workVars
<1>2. CASE DequeueNone(w)
  BY <1>2 DEF DequeueNone, WorkersOK, Goto, Ref, workVars
<1>3. CASE Dequeue(w)
  <2>1. Head(list) \in Jobs /\ list' \in Seq(Jobs)
    BY <1>3 DEF Dequeue
  <2>2. <<Head(list), 1>> \in FileRefs
    BY <2>1, Files
  <2>3. /\ file[w] = 1
        /\ pc' = [pc EXCEPT ![w] = "SetJobRunning"]
        /\ job' = [job EXCEPT ![w] = Head(list)]
        /\ UNCHANGED <<proc, file, failed>>
    BY <1>3 DEF Dequeue, WorkersOK, Goto
  <2>4. /\ pc'[w] = "SetJobRunning" /\ <<job'[w], file'[w]>> = <<Head(list), 1>>
        /\ \A v \in Workers \ {w} :
             pc'[v] = pc[v] /\ job'[v] = job[v] /\ file'[v] = file[v]
    BY <2>3 DEF WorkersOK
  <2>5. WorkersOK'
    BY <2>1, <2>2, <2>3, <2>4 DEF WorkersOK, Ref
  <2> QED
    BY <1>3, <2>1, <2>5 DEF Dequeue
<1> USE DEF Write
<1>4. ASSUME NEW o \in CallOutcomes(w), SetJobRunning(w, o)
      PROVE  TypeOK'
  BY <1>4, TypeProceed DEF SetJobRunning
<1>5. ASSUME NEW o \in CallOutcomes(w), MarkRunning(w, o)
      PROVE  TypeOK'
  <2>1. RecordsOK' /\ IndexOK' /\ HandlersOK'
    BY <1>5 DEF MarkRunning
  <2>2. CASE Proceed(w, "GetPayload")
    BY <1>5, <2>1, <2>2, TypeProceed DEF MarkRunning
  <2>3. CASE /\ failed' = [failed EXCEPT ![w] = TRUE]
             /\ Goto(w, "SetJobTerminal")
             /\ UNCHANGED <<job, file>>
    BY <1>5, <2>1, <2>3 DEF MarkRunning, WorkersOK, Goto, Ref
  <2> QED
    BY <1>5, <2>2, <2>3 DEF MarkRunning
<1>6. ASSUME NEW o \in CallOutcomes(w), GetPayload(w, o)
      PROVE  TypeOK'
  BY <1>6, TypeProceed, TypeFileEnds DEF GetPayload
<1>7. ASSUME NEW o \in CallOutcomes(w), OnTaskRunning(w, o)
      PROVE  TypeOK'
  BY <1>7, TypeProceed, TypeReturn DEF OnTaskRunning, UpdateTask
<1>8. ASSUME NEW o \in CallOutcomes(w), WriteMilvus(w, o)
      PROVE  TypeOK'
  <2>1. WorkersOK'
    BY <1>8, TypeProceed, TypeFileEnds DEF WriteMilvus
  <2>2. Ref(w) \in FileRefs /\ ChunkOf[Ref(w)] \in Chunks
    BY <1>8, ChunkOfAssumption DEF WriteMilvus, WorkersOK
  <2> QED
    BY <1>8, <2>1, <2>2 DEF WriteMilvus, Holders
<1>9. ASSUME NEW o \in CallOutcomes(w), WriteES(w, o)
      PROVE  TypeOK'
  <2>1. WorkersOK'
    BY <1>9, TypeFileEnds DEF WriteES
  <2>2. Ref(w) \in FileRefs /\ ChunkOf[Ref(w)] \in Chunks
    BY <1>9, ChunkOfAssumption DEF WriteES, WorkersOK
  <2> QED
    BY <1>9, <2>1, <2>2 DEF WriteES, Holders
<1>10. ASSUME NEW o \in CallOutcomes(w), TaskSucceeded(w, o)
       PROVE  TypeOK'
  BY <1>10, TypeProceed, TypeReturn DEF TaskSucceeded, UpdateTask
<1>11. ASSUME NEW o \in CallOutcomes(w), CountSuccess(w, o)
       PROVE  TypeOK'
  <2>1. WorkersOK'
    BY <1>11, TypeNextFile, TypeReturn DEF CountSuccess
  <2>2. job[w] \in Jobs
    BY <1>11, FileRefsMember DEF CountSuccess, WorkersOK, Ref
  <2>3. successFiles' \in [Jobs -> Nat]
    BY <1>11, <2>2 DEF CountSuccess
  <2> QED
    BY <1>11, <2>1, <2>3 DEF CountSuccess
<1>12. ASSUME NEW o \in CallOutcomes(w), TaskFailed(w, o)
       PROVE  TypeOK'
  BY <1>12, TypeProceed, TypeReturn DEF TaskFailed, UpdateTask
<1>13. ASSUME NEW o \in CallOutcomes(w), CountFailure(w, o)
       PROVE  TypeOK'
  <2>1. WorkersOK'
    BY <1>13, TypeReturn DEF CountFailure
  <2>2. job[w] \in Jobs
    BY <1>13, FileRefsMember DEF CountFailure, WorkersOK, Ref
  <2>3. failFiles' \in [Jobs -> Nat]
    BY <1>13, <2>2, SMTT(60) DEF CountFailure
  <2> QED
    BY <1>13, <2>1, <2>3 DEF CountFailure
<1>14. ASSUME NEW o \in CallOutcomes(w), Flush(w, o)
       PROVE  TypeOK'
  <2>1. WorkersOK'
    BY <1>14, TypeProceed, TypeReturn DEF Flush
  <2>2. sealed' \in {sealed, milvus}
    BY <1>14 DEF Flush
  <2> QED
    BY <1>14, <2>1, <2>2 DEF Flush
<1>15. ASSUME NEW o \in CallOutcomes(w), DelPayload(w, o)
       PROVE  TypeOK'
  BY <1>15, TypeReturn DEF DelPayload
<1>16. ASSUME NEW o \in CallOutcomes(w), MarkTerminal(w, o)
       PROVE  TypeOK'
  BY <1>16, TypeProceed DEF MarkTerminal, Verdict
<1>17. ASSUME NEW o \in CallOutcomes(w), SetJobTerminal(w, o)
       PROVE  TypeOK'
  BY <1>17, ZenonT(60) DEF SetJobTerminal, Verdict, WorkersOK, Goto, Ref
<1> QED
  BY <1>1, <1>2, <1>3, <1>4, <1>5, <1>6, <1>7, <1>8, <1>9, <1>10, <1>11, <1>12, <1>13,
     <1>14, <1>15, <1>16, <1>17 DEF Consume, ProcessJob

\* Nor does the environment.
LEMMA TypeEnvironment ==
  ASSUME TypeOK, Environment
  PROVE  TypeOK'
<1> USE DEF TypeOK, HandlersOK, RecordsOK, IndexOK, WorkersOK, Holders, Ref, At, Goto,
            apiVars, redisVars, rowVars, indexVars, workVars
<1>1. ASSUME NEW r \in FileRefs, ExpirePayload(r)
      PROVE  TypeOK'
  BY <1>1 DEF ExpirePayload
<1>2. ASSUME NEW j \in Jobs, ExpireHash(j)
      PROVE  TypeOK'
  BY <1>2 DEF ExpireHash
<1>3. ASSUME NEW p \in Procs, Shutdown(p)
      PROVE  TypeOK'
  BY <1>3 DEF Shutdown
<1>4. ASSUME NEW p \in Procs, Started(p)
      PROVE  TypeOK'
  BY <1>4 DEF Started
<1>5. ASSUME NEW w \in Workers, DequeueLost(w)
      PROVE  TypeOK'
  BY <1>5, SMTT(60) DEF DequeueLost
<1> QED
  BY <1>1, <1>2, <1>3, <1>4, <1>5 DEF Environment, Restart, Crash

\* TypeOK is preserved by every step.
LEMMA TypeStep == TypeOK /\ [Next]_vars => TypeOK'
<1> SUFFICES ASSUME TypeOK, [Next]_vars
             PROVE  TypeOK'
  OBVIOUS
<1>1. CASE Next
  BY <1>1, TypeHandle, TypeConsume, TypeEnvironment DEF Next
<1>2. CASE UNCHANGED vars
  BY <1>2 DEF TypeOK, HandlersOK, RecordsOK, IndexOK, WorkersOK, Ref, vars, apiVars,
              redisVars, rowVars, indexVars, workVars
<1> QED
  BY <1>1, <1>2

\* The variables stay in their types, the stores hold under a chunk id only files
\* with that id, and no goroutine is at a file that its job does not have.
THEOREM TypeCorrect == Spec => []TypeOK
BY TypeInit, TypeStep, PTL DEF Spec

-----------------------------------------------------------------------------
(***************************************************************************)
(* A job that is reported as succeeded is indexed.  The invariant that     *)
(* makes it inductive, WorkIsWritten, follows a goroutine through its      *)
(* files.  It survives the steps of the others because the stores only     *)
(* grow: an upsert may replace what a chunk id holds, nothing empties it,  *)
(* and a Flush seals everything that is written.                           *)
(***************************************************************************)
IndexInv == TypeOK /\ WorkIsWritten /\ SucceededIsIndexed

\* The ways in which a step may change the stores.
LEMMA IndexChanges ==
  ASSUME [Next]_vars
  PROVE  \/ UNCHANGED indexVars
         \/ \E w \in Workers : \E o \in CallOutcomes(w) :
              WriteMilvus(w, o) \/ WriteES(w, o) \/ Flush(w, o)
<1>1. ASSUME NEW j \in Jobs, Handle(j)
      PROVE  UNCHANGED indexVars
  BY <1>1 DEF Handle, RejectFile, SetPayload, InsertQueued, BulkIndexQueued, HSet, Expire,
              LPush, LPushResent
<1>2. ASSUME NEW w \in Workers, Consume(w)
      PROVE  \/ UNCHANGED indexVars
             \/ \E o \in CallOutcomes(w) :
                  WriteMilvus(w, o) \/ WriteES(w, o) \/ Flush(w, o)
  BY <1>2 DEF Consume, ProcessJob, StartDequeue, DequeueNone, Dequeue, SetJobRunning,
              MarkRunning, GetPayload, OnTaskRunning, TaskSucceeded, CountSuccess,
              TaskFailed, CountFailure, DelPayload, MarkTerminal, SetJobTerminal
<1>3. ASSUME Environment
      PROVE  UNCHANGED indexVars
  BY <1>3 DEF Environment, ExpirePayload, ExpireHash, Shutdown, Restart, Crash, Started,
              DequeueLost
<1> QED
  BY <1>1, <1>2, <1>3 DEF Next, vars

\* No step empties a chunk id, and what is sealed has been written.
LEMMA StoresGrow ==
  ASSUME TypeOK, SealedIsWritten, [Next]_vars
  PROVE  /\ \A c \in Chunks : /\ milvus[c] # None => milvus'[c] # None
                              /\ sealed[c] # None => sealed'[c] # None
                              /\ entity[c] # None => entity'[c] # None
         /\ SealedIsWritten'
<1> USE DEF SealedIsWritten, TypeOK, IndexOK
<1>1. CASE UNCHANGED indexVars
  BY <1>1 DEF indexVars
<1> SUFFICES ASSUME NEW w \in Workers, NEW o \in CallOutcomes(w),
                    WriteMilvus(w, o) \/ WriteES(w, o) \/ Flush(w, o)
             PROVE  /\ \A c \in Chunks : /\ milvus[c] # None => milvus'[c] # None
                                         /\ sealed[c] # None => sealed'[c] # None
                                         /\ entity[c] # None => entity'[c] # None
                    /\ SealedIsWritten'
  BY <1>1, IndexChanges
<1>2. Ref(w) # None
  BY NoneAssumption DEF WorkersOK, WriteMilvus, WriteES, Flush, At
<1>3. CASE WriteMilvus(w, o)
  BY <1>2, <1>3 DEF WriteMilvus, Write
<1>4. CASE WriteES(w, o)
  BY <1>2, <1>4 DEF WriteES, Write
<1>5. CASE Flush(w, o)
  BY <1>5 DEF Flush
<1> QED
  BY <1>3, <1>4, <1>5

\* So what is written stays written, and what is indexed stays indexed.
LEMMA WrittenStays ==
  ASSUME TypeOK, SealedIsWritten, [Next]_vars, NEW r \in FileRefs
  PROVE  /\ Stored(milvus, r) => Stored(milvus, r)'
         /\ Written(r) => Written(r)'
         /\ Indexed(r) => Indexed(r)'
<1>1. ChunkOf[r] \in Chunks
  BY ChunkOfAssumption
<1> QED
  BY <1>1, StoresGrow DEF Stored, Written, Indexed

\* A step leaves the position of a goroutine alone, unless it is its own step or
\* its process is replaced.
LEMMA OthersStay ==
  ASSUME TypeOK, [Next]_vars, NEW v \in Workers
  PROVE  \/ pc'[v] = pc[v] /\ job'[v] = job[v] /\ file'[v] = file[v] /\ failed'[v] = failed[v]
         \/ job'[v] = None
         \/ Consume(v)
<1> USE DEF TypeOK, WorkersOK
<1>1. ASSUME NEW j \in Jobs, Handle(j)
      PROVE  UNCHANGED <<pc, workVars>>
  BY <1>1 DEF Handle, RejectFile, SetPayload, InsertQueued, BulkIndexQueued, HSet, Expire,
              LPush, LPushResent
<1>2. ASSUME NEW w \in Workers \ {v}, Consume(w)
      PROVE  pc'[v] = pc[v] /\ job'[v] = job[v] /\ file'[v] = file[v] /\ failed'[v] = failed[v]
  <2> USE DEF Goto, Proceed, Return, workVars
  <2>1. ASSUME NextFile(w) \/ FileRan(w) \/ FileFailed(w)
        PROVE  pc'[v] = pc[v] /\ job'[v] = job[v] /\ file'[v] = file[v] /\ failed'[v] = failed[v]
    BY <2>1 DEF NextFile, FileRan, FileFailed
  <2>2. CASE StartDequeue(w) \/ DequeueNone(w) \/ Dequeue(w)
    BY <2>2 DEF StartDequeue, DequeueNone, Dequeue
  <2>3. ASSUME NEW o \in CallOutcomes(w),
               SetJobRunning(w, o) \/ MarkRunning(w, o) \/ GetPayload(w, o) \/ OnTaskRunning(w, o)
        PROVE  pc'[v] = pc[v] /\ job'[v] = job[v] /\ file'[v] = file[v] /\ failed'[v] = failed[v]
    BY <2>1, <2>3 DEF SetJobRunning, MarkRunning, GetPayload, OnTaskRunning
  <2>4. ASSUME NEW o \in CallOutcomes(w),
               \/ WriteMilvus(w, o) \/ WriteES(w, o) \/ TaskSucceeded(w, o)
               \/ CountSuccess(w, o) \/ TaskFailed(w, o) \/ CountFailure(w, o)
        PROVE  pc'[v] = pc[v] /\ job'[v] = job[v] /\ file'[v] = file[v] /\ failed'[v] = failed[v]
    BY <2>1, <2>4 DEF WriteMilvus, WriteES, TaskSucceeded, CountSuccess, TaskFailed,
                      CountFailure
  <2>5. ASSUME NEW o \in CallOutcomes(w),
               Flush(w, o) \/ DelPayload(w, o) \/ MarkTerminal(w, o) \/ SetJobTerminal(w, o)
        PROVE  pc'[v] = pc[v] /\ job'[v] = job[v] /\ file'[v] = file[v] /\ failed'[v] = failed[v]
    BY <2>5 DEF Flush, DelPayload, MarkTerminal, SetJobTerminal
  <2> QED
    BY <1>2, <2>2, <2>3, <2>4, <2>5 DEF Consume, ProcessJob
<1>3. ASSUME Environment
      PROVE  \/ UNCHANGED <<pc, workVars>>
             \/ job'[v] = None
             \/ pc'[v] = pc[v] /\ job'[v] = job[v] /\ file'[v] = file[v] /\ failed'[v] = failed[v]
  <2>1. ASSUME NEW w \in Workers, DequeueLost(w)
        PROVE  \/ job'[v] = None
               \/ /\ pc'[v] = pc[v] /\ job'[v] = job[v]
                  /\ file'[v] = file[v] /\ failed'[v] = failed[v]
    BY <2>1 DEF DequeueLost, At, Goto, workVars
  <2>2. ASSUME NEW p \in Procs, Started(p)
        PROVE  \/ job'[v] = None
               \/ /\ pc'[v] = pc[v] /\ job'[v] = job[v]
                  /\ file'[v] = file[v] /\ failed'[v] = failed[v]
    BY <2>2 DEF Started
  <2> QED
    BY <1>3, <2>1, <2>2 DEF Environment, ExpirePayload, ExpireHash, Shutdown, Restart, Crash
<1> QED
  BY <1>1, <1>2, <1>3 DEF Next, vars, workVars

\* A goroutine that stays at its file has only to show what its next call needs.
LEMMA PassedTo ==
  ASSUME TypeOK, WorkIsWritten, [Next]_vars, NEW w \in Workers, NEW r \in FileRefs,
         r = Ref(w), pc[w] \notin Idle,
         job'[w] = job[w], file'[w] = file[w],
         pc'[w] = "WriteES" => Stored(milvus, r)',
         pc'[w] \in {"TaskSucceeded", "CountSuccess"} => Written(r)',
         pc'[w] = "Flush" => \A q \in RefsOf(job[w]) : Written(q)',
         Succeeding(w)' => \A q \in RefsOf(job[w]) : Indexed(q)'
  PROVE  Passed(w)'
<1>1. job[w] \in Jobs /\ job[w] # None
  BY FileRefsMember, NoneAssumption DEF TypeOK, WorkersOK, Ref
<1>2. SealedIsWritten /\ Passed(w)
  BY <1>1 DEF WorkIsWritten
<1>3. ASSUME NEW q \in RefsOf(job[w]), q[2] < file[w]
      PROVE  Written(q)'
  BY <1>1, <1>2, <1>3, WrittenStays, RefsOfMember DEF Passed
<1>4. Ref(w)' = r
  BY DEF Ref
<1> QED
  BY <1>3, <1>4 DEF Passed, RefsOf

\* The last file of a job, or one more, is written.
LEMMA PassedNextFile ==
  ASSUME TypeOK, WorkIsWritten, [Next]_vars, NEW w \in Workers, NEW r \in FileRefs,
         r = Ref(w), pc[w] \notin Idle, NextFile(w), Written(r)'
  PROVE  Passed(w)'
<1>1. /\ job[w] \in Jobs /\ job[w] # None
      /\ r = <<job[w], file[w]>> /\ file[w] \in 1 .. NFiles[job[w]]
      /\ NFiles[job[w]] \in Nat
  BY FileRefsMember, NoneAssumption, Files DEF TypeOK, WorkersOK, Ref
<1>2. SealedIsWritten /\ Passed(w)
  BY <1>1 DEF WorkIsWritten
<1>3. ASSUME NEW q \in RefsOf(job[w]), q[2] < file[w] + 1
      PROVE  Written(q)'
  <2>1. q \in FileRefs /\ q = <<job[w], q[2]>> /\ q[2] \in Nat
    BY <1>1, RefsOfMember, FileRefsPair
  <2>2. CASE q[2] < file[w]
    BY <1>2, <2>1, <2>2, WrittenStays DEF Passed
  <2>3. CASE q[2] = file[w]
    BY <1>1, <2>1, <2>3
  <2> QED
    BY <1>1, <1>3, <2>1, <2>2, <2>3
<1>4. CASE file[w] < NFiles[job[w]]
  <2>1. /\ pc'[w] = "GetPayload"
        /\ job'[w] = job[w] /\ file'[w] = file[w] + 1
    BY <1>4 DEF NextFile, Goto, TypeOK, WorkersOK
  <2> QED
    BY <1>3, <2>1 DEF Passed, Succeeding, RefsOf
<1>5. CASE ~(file[w] < NFiles[job[w]])
  <2>1. /\ pc'[w] = "Flush"
        /\ job'[w] = job[w] /\ file'[w] = file[w]
    BY <1>5 DEF NextFile, Proceed, Goto, workVars, TypeOK, WorkersOK
  <2>2. ASSUME NEW q \in RefsOf(job[w])
        PROVE  Written(q)'
    <3>1. q[2] \in 1 .. NFiles[job[w]]
      BY <1>1 DEF RefsOf
    <3>2. q[2] < file[w] + 1
      BY <1>1, <1>5, <3>1
    <3> QED
      BY <1>3, <3>2
  <2> QED
    BY <2>1, <2>2, PassedTo DEF Succeeding
<1> QED
  BY <1>4, <1>5

LEMMA PassedFileRan ==
  ASSUME TypeOK, WorkIsWritten, [Next]_vars, NEW w \in Workers, NEW r \in FileRefs,
         r = Ref(w), pc[w] \notin Idle, FileRan(w), Written(r)'
  PROVE  Passed(w)'
<1>1. CASE NextFile(w)
  BY <1>1, PassedNextFile
<1>2. CASE Proceed(w, "TaskSucceeded") \/ Proceed(w, "CountSuccess")
  <2>1. /\ pc'[w] \in {"TaskSucceeded", "CountSuccess"}
        /\ job'[w] = job[w] /\ file'[w] = file[w]
    BY <1>2 DEF Proceed, Goto, workVars, TypeOK, WorkersOK
  <2> QED
    BY <2>1, PassedTo DEF Succeeding
<1> QED
  BY <1>1, <1>2 DEF FileRan

\* After a failure the goroutine has nothing more to show.
LEMMA PassedFailure ==
  ASSUME TypeOK, WorkIsWritten, [Next]_vars, NEW w \in Workers,
         pc[w] \notin Idle, FileFailed(w) \/ Return(w, TRUE)
  PROVE  Passed(w)'
<1> USE DEF Proceed, Goto, workVars, TypeOK, WorkersOK
<1>1. /\ \/ pc'[w] \in {"TaskFailed", "CountFailure"}
         \/ pc'[w] \in {"MarkTerminal", "SetJobTerminal"} /\ failed'[w]
      /\ job'[w] = job[w] /\ file'[w] = file[w]
  <2>1. CASE Return(w, TRUE)
    BY <2>1 DEF Return
  <2>2. CASE Proceed(w, "TaskFailed") \/ Proceed(w, "CountFailure")
    BY <2>2
  <2> QED
    BY <2>1, <2>2 DEF FileFailed
<1>2. Ref(w) \in FileRefs
  BY DEF TypeOK, WorkersOK
<1> QED
  BY <1>1, <1>2, PassedTo DEF Succeeding

\* The step of a goroutine keeps its own progress.
LEMMA PassedStep ==
  ASSUME TypeOK, WorkIsWritten, [Next]_vars, NEW w \in Workers, Consume(w),
         job'[w] # None
  PROVE  Passed(w)'
<1>1. CASE StartDequeue(w) \/ DequeueNone(w)
  BY <1>1 DEF StartDequeue, DequeueNone, At, workVars, TypeOK, WorkersOK
<1>2. CASE Dequeue(w)
  <2>1. job'[w] = Head(list) /\ Head(list) \in Jobs /\ file'[w] = 1 /\ pc'[w] = "SetJobRunning"
    BY <1>2 DEF Dequeue, At, Goto, TypeOK, WorkersOK, RecordsOK
  <2>2. ASSUME NEW r \in RefsOf(job'[w])
        PROVE  ~(r[2] < 1)
    BY <2>1, RefsOfMember, FileRefsPair, Files
  <2> QED
    BY <2>1, <2>2 DEF Passed, Succeeding, RefsOf
<1>3. ASSUME pc[w] \notin Idle, ProcessJob(w)
      PROVE  Passed(w)'
  <2> PICK r \in FileRefs : r = Ref(w)
    BY <1>3 DEF TypeOK, WorkersOK
  <2>1. /\ job[w] \in Jobs /\ job[w] # None
        /\ Passed(w) /\ SealedIsWritten
    BY <1>3, FileRefsMember, NoneAssumption DEF TypeOK, WorkersOK, WorkIsWritten, Ref
  <2>2. \A q \in FileRefs : /\ Stored(milvus, q) => Stored(milvus, q)'
                            /\ Written(q) => Written(q)'
                            /\ Indexed(q) => Indexed(q)'
    BY <2>1, WrittenStays
  <2>3. \A q \in RefsOf(job[w]) : q \in FileRefs
    BY <2>1, RefsOfMember
  <2>4. ASSUME NEW call \in WorkerCalls \ {"WriteES", "TaskSucceeded", "CountSuccess",
                                           "Flush", "DelPayload", "MarkTerminal",
                                           "SetJobTerminal"},
               Proceed(w, call)
        PROVE  Passed(w)'
    <3>1. pc'[w] = call /\ job'[w] = job[w] /\ file'[w] = file[w]
      BY <2>4 DEF Proceed, Goto, workVars, TypeOK, WorkersOK
    <3> QED
      BY <1>3, <2>1, <3>1, PassedTo DEF Succeeding
  <2>5. ASSUME NEW o \in CallOutcomes(w), SetJobRunning(w, o)
        PROVE  Passed(w)'
    BY <2>4, <2>5 DEF SetJobRunning
  <2>6. ASSUME NEW o \in CallOutcomes(w), MarkRunning(w, o)
        PROVE  Passed(w)'
    <3>1. CASE Proceed(w, "GetPayload")
      BY <2>4, <3>1
    <3>2. CASE /\ failed' = [failed EXCEPT ![w] = TRUE]
               /\ Goto(w, "SetJobTerminal")
               /\ UNCHANGED <<job, file>>
      <4>1. pc'[w] = "SetJobTerminal" /\ failed'[w] /\ job'[w] = job[w] /\ file'[w] = file[w]
        BY <3>2 DEF Goto, TypeOK, WorkersOK
      <4> QED
        BY <1>3, <2>1, <4>1, PassedTo DEF Succeeding
    <3> QED
      BY <2>6, <3>1, <3>2 DEF MarkRunning
  <2>7. ASSUME NEW o \in CallOutcomes(w), GetPayload(w, o)
        PROVE  Passed(w)'
    BY <1>3, <2>4, <2>7, PassedFailure DEF GetPayload
  <2>8. ASSUME NEW o \in CallOutcomes(w), OnTaskRunning(w, o)
        PROVE  Passed(w)'
    BY <1>3, <2>4, <2>8, PassedFailure DEF OnTaskRunning
  <2>9. ASSUME NEW o \in CallOutcomes(w), WriteMilvus(w, o)
        PROVE  Passed(w)'
    <3>1. CASE o # "ok"
      BY <1>3, <2>9, <3>1, PassedFailure DEF WriteMilvus
    <3>2. CASE o = "ok"
      <4>1. Stored(milvus, r)'
        BY <2>1, <2>9, <3>2, ChunkOfAssumption, NoneAssumption
           DEF WriteMilvus, Write, Applied, Stored, TypeOK, IndexOK
      <4>2. CASE ES /\ r \in Keyed
        <5>1. pc'[w] = "WriteES" /\ job'[w] = job[w] /\ file'[w] = file[w]
          BY <2>9, <3>2, <4>2 DEF WriteMilvus, Proceed, Goto, workVars, TypeOK, WorkersOK
        <5> QED
          BY <1>3, <2>1, <4>1, <5>1, PassedTo DEF Succeeding
      <4>3. CASE ~(ES /\ r \in Keyed)
        <5>1. Written(r)'
          BY <4>1, <4>3 DEF Written
        <5>2. FileRan(w)
          BY <2>9, <3>2, <4>3 DEF WriteMilvus
        <5> QED
          BY <1>3, <2>1, <5>1, <5>2, PassedFileRan
      <4> QED
        BY <4>2, <4>3
    <3> QED
      BY <3>1, <3>2
  <2>10. ASSUME NEW o \in CallOutcomes(w), WriteES(w, o)
         PROVE  Passed(w)'
    <3>1. CASE o # "ok"
      BY <1>3, <2>10, <3>1, PassedFailure DEF WriteES
    <3>2. CASE o = "ok"
      <4>1. Stored(milvus, r)
        BY <2>1, <2>10 DEF WriteES, At, Passed
      <4>2. Stored(entity, r)'
        BY <2>1, <2>10, <3>2, ChunkOfAssumption, NoneAssumption
           DEF WriteES, Write, Applied, Stored, TypeOK, IndexOK
      <4>3. Written(r)'
        BY <2>1, <2>2, <4>1, <4>2 DEF Written
      <4>4. FileRan(w)
        BY <2>10, <3>2 DEF WriteES
      <4> QED
        BY <1>3, <2>1, <4>3, <4>4, PassedFileRan
    <3> QED
      BY <3>1, <3>2
  <2>11. ASSUME NEW o \in CallOutcomes(w), TaskSucceeded(w, o)
         PROVE  Passed(w)'
    <3>1. Written(r)'
      BY <2>1, <2>2, <2>11 DEF TaskSucceeded, At, Passed
    <3>2. CASE Proceed(w, "CountSuccess")
      <4>1. pc'[w] = "CountSuccess" /\ job'[w] = job[w] /\ file'[w] = file[w]
        BY <3>2 DEF Proceed, Goto, workVars, TypeOK, WorkersOK
      <4> QED
        BY <1>3, <2>1, <3>1, <4>1, PassedTo DEF Succeeding
    <3> QED
      BY <1>3, <2>11, <3>2, PassedFailure DEF TaskSucceeded
  <2>12. ASSUME NEW o \in CallOutcomes(w), CountSuccess(w, o)
         PROVE  Passed(w)'
    <3>1. Written(r)'
      BY <2>1, <2>2, <2>12 DEF CountSuccess, At, Passed
    <3> QED
      BY <1>3, <2>1, <2>12, <3>1, PassedFailure, PassedNextFile DEF CountSuccess
  <2>13. ASSUME NEW o \in CallOutcomes(w), TaskFailed(w, o)
         PROVE  Passed(w)'
    BY <1>3, <2>4, <2>13, PassedFailure DEF TaskFailed
  <2>14. ASSUME NEW o \in CallOutcomes(w), CountFailure(w, o)
         PROVE  Passed(w)'
    BY <1>3, <2>14, PassedFailure DEF CountFailure
  <2>15. ASSUME NEW o \in CallOutcomes(w), Flush(w, o)
         PROVE  Passed(w)'
    <3>1. CASE o # "ok"
      BY <1>3, <2>15, <3>1, PassedFailure DEF Flush
    <3>2. CASE o = "ok"
      <4>1. sealed' = milvus /\ entity' = entity
        BY <2>15, <3>2 DEF Flush, Applied
      <4>2. \A q \in RefsOf(job[w]) : Written(q)
        BY <2>1, <2>15 DEF Flush, At, Passed
      <4>3. \A q \in RefsOf(job[w]) : Indexed(q)'
        BY <4>1, <4>2 DEF Written, Indexed, Stored
      <4>4. pc'[w] = "DelPayload" /\ job'[w] = job[w] /\ file'[w] = file[w]
        BY <2>15, <3>2 DEF Flush, Proceed, Goto, workVars, TypeOK, WorkersOK
      <4> QED
        BY <1>3, <2>1, <4>3, <4>4, PassedTo
    <3> QED
      BY <3>1, <3>2
  <2>16. ASSUME NEW o \in CallOutcomes(w), DelPayload(w, o)
         PROVE  Passed(w)'
    <3>1. \A q \in RefsOf(job[w]) : Indexed(q)'
      BY <2>1, <2>2, <2>3, <2>16 DEF DelPayload, At, Passed, Succeeding
    <3>2. /\ pc'[w] \in {"MarkTerminal", "SetJobTerminal"}
          /\ job'[w] = job[w] /\ file'[w] = file[w]
      BY <2>16 DEF DelPayload, Return, Goto, TypeOK, WorkersOK
    <3> QED
      BY <1>3, <2>1, <3>1, <3>2, PassedTo
  <2>17. ASSUME NEW o \in CallOutcomes(w), MarkTerminal(w, o)
         PROVE  Passed(w)'
    <3>1. /\ pc'[w] = "SetJobTerminal" /\ failed'[w] = failed[w]
          /\ job'[w] = job[w] /\ file'[w] = file[w]
      BY <2>17 DEF MarkTerminal, Proceed, Goto, workVars, TypeOK, WorkersOK
    <3>2. Succeeding(w)' => \A q \in RefsOf(job[w]) : Indexed(q)'
      BY <2>1, <2>2, <2>3, <2>17, <3>1 DEF MarkTerminal, At, Passed, Succeeding
    <3> QED
      BY <1>3, <2>1, <3>1, <3>2, PassedTo
  <2>18. ASSUME NEW o \in CallOutcomes(w), SetJobTerminal(w, o)
         PROVE  FALSE
    BY <2>18 DEF SetJobTerminal, TypeOK, WorkersOK
  <2> QED
    BY <1>3, <2>5, <2>6, <2>7, <2>8, <2>9, <2>10, <2>11, <2>12, <2>13, <2>14, <2>15,
       <2>16, <2>17, <2>18 DEF ProcessJob
<1>4. ProcessJob(w) => pc[w] \notin Idle
  BY DEF ProcessJob, SetJobRunning, MarkRunning, GetPayload, OnTaskRunning, WriteMilvus,
         WriteES, TaskSucceeded, CountSuccess, TaskFailed, CountFailure, Flush, DelPayload,
         MarkTerminal, SetJobTerminal, At
<1> QED
  BY <1>1, <1>2, <1>3, <1>4 DEF Consume

\* A status that becomes "succeeded" is written by a goroutine that holds the job
\* and has no error to report.
LEMMA SucceededBy ==
  ASSUME TypeOK, [Next]_vars, NEW j \in Jobs,
         "succeeded" \in {status'[j], hash'[j]}
  PROVE  \/ "succeeded" \in {status[j], hash[j]}
         \/ \E w \in Workers : job[w] = j /\ Succeeding(w)
<1> USE DEF TypeOK, RecordsOK, Write, redisVars, rowVars
<1>1. ASSUME NEW i \in Jobs, Handle(i)
      PROVE  "succeeded" \in {status[j], hash[j]}
  BY <1>1 DEF Handle, RejectFile, SetPayload, InsertQueued, BulkIndexQueued, HSet, Expire,
              LPush, LPushResent
<1>2. ASSUME NEW w \in Workers, Consume(w)
      PROVE  \/ "succeeded" \in {status[j], hash[j]}
             \/ job[w] = j /\ Succeeding(w)
  <2>1. ASSUME NEW o \in CallOutcomes(w), MarkTerminal(w, o) \/ SetJobTerminal(w, o)
        PROVE  \/ "succeeded" \in {status[j], hash[j]}
               \/ job[w] = j /\ Succeeding(w)
    BY <2>1 DEF MarkTerminal, SetJobTerminal, Verdict, Succeeding, At
  <2>2. ASSUME NEW o \in CallOutcomes(w), MarkRunning(w, o) \/ SetJobRunning(w, o)
        PROVE  "succeeded" \in {status[j], hash[j]}
    BY <2>2 DEF MarkRunning, SetJobRunning
  <2>3. \/ UNCHANGED <<status, hash>>
        \/ \E o \in CallOutcomes(w) :
             \/ MarkTerminal(w, o) \/ SetJobTerminal(w, o)
             \/ MarkRunning(w, o) \/ SetJobRunning(w, o)
    BY <1>2 DEF Consume, ProcessJob, StartDequeue, DequeueNone, Dequeue, GetPayload,
                OnTaskRunning, WriteMilvus, WriteES, TaskSucceeded, CountSuccess, TaskFailed,
                CountFailure, Flush, DelPayload
  <2> QED
    BY <2>1, <2>2, <2>3
<1>3. ASSUME Environment
      PROVE  "succeeded" \in {status[j], hash[j]}
  BY <1>3, ZenonT(60) DEF Environment, ExpirePayload, ExpireHash, Shutdown, Restart, Crash, Started,
              DequeueLost
<1>4. CASE UNCHANGED vars
  BY <1>4 DEF vars
<1> QED
  BY <1>1, <1>2, <1>3, <1>4 DEF Next

LEMMA IndexInit == Init => IndexInv
<1> SUFFICES ASSUME Init PROVE IndexInv
  OBVIOUS
<1>1. WorkIsWritten /\ SucceededIsIndexed
  BY DEF Init, WorkIsWritten, SealedIsWritten, SucceededIsIndexed
<1> QED
  BY <1>1, TypeInit DEF IndexInv

LEMMA IndexStep == IndexInv /\ [Next]_vars => IndexInv'
<1> SUFFICES ASSUME IndexInv, [Next]_vars
             PROVE  IndexInv'
  OBVIOUS
<1>1. TypeOK /\ TypeOK' /\ WorkIsWritten /\ SealedIsWritten
  BY TypeStep DEF IndexInv, WorkIsWritten
<1>2. SealedIsWritten'
  BY <1>1, StoresGrow
<1>3. ASSUME NEW w \in Workers, job'[w] # None
      PROVE  Passed(w)'
  <2>1. CASE Consume(w)
    BY <1>1, <1>3, <2>1, PassedStep
  <2>2. CASE pc'[w] = pc[w] /\ job'[w] = job[w] /\ file'[w] = file[w] /\ failed'[w] = failed[w]
    <3>1. Passed(w) /\ job[w] \in Jobs /\ Ref(w) \in FileRefs
      BY <1>1, <1>3, <2>2, FileRefsMember DEF WorkIsWritten, TypeOK, WorkersOK, Ref
    <3> PICK r \in FileRefs : r = Ref(w) /\ r = Ref(w)'
      BY <2>2, <3>1 DEF Ref
    <3>2. \A q \in RefsOf(job[w]) : q \in FileRefs
      BY <3>1, RefsOfMember
    <3> QED
      BY <1>1, <2>2, <3>1, <3>2, WrittenStays DEF Passed, Succeeding, RefsOf
  <2> QED
    BY <1>1, <1>3, <2>1, <2>2, OthersStay
<1>4. ASSUME NEW j \in Jobs, "succeeded" \in {status'[j], hash'[j]}, NEW r \in RefsOf(j)
      PROVE  Indexed(r)'
  <2>1. r \in FileRefs
    BY RefsOfMember
  <2>2. CASE "succeeded" \in {status[j], hash[j]}
    BY <1>1, <2>1, <2>2, WrittenStays DEF IndexInv, SucceededIsIndexed
  <2>3. CASE \E w \in Workers : job[w] = j /\ Succeeding(w)
    <3>1. PICK w \in Workers : job[w] = j /\ Succeeding(w)
      BY <2>3
    <3>2. Passed(w)
      BY <1>1, <3>1, NoneAssumption DEF WorkIsWritten
    <3> QED
      BY <1>1, <2>1, <3>1, <3>2, WrittenStays DEF Passed
  <2> QED
    BY <1>1, <1>4, <2>2, <2>3, SucceededBy
<1>5. WorkIsWritten'
  BY <1>2, <1>3 DEF WorkIsWritten
<1>6. SucceededIsIndexed'
  BY <1>4 DEF SucceededIsIndexed, RefsOf
<1> QED
  BY <1>1, <1>5, <1>6 DEF IndexInv

\* What a goroutine has passed is in the stores: for any interleaving of any
\* number of goroutines on shared chunk ids, under any faults.
THEOREM WorkIsWrittenHolds == Spec => []WorkIsWritten
<1>1. Spec => []IndexInv
  BY IndexInit, IndexStep, PTL DEF Spec
<1>2. IndexInv => WorkIsWritten
  BY DEF IndexInv
<1> QED
  BY <1>1, <1>2, PTL

\* A job that MySQL or Redis reports as succeeded has all its files in Milvus,
\* sealed, and in the entity index, whatever failed or crashed on the way.
THEOREM SucceededIsIndexedHolds == Spec => []SucceededIsIndexed
<1>1. Spec => []IndexInv
  BY IndexInit, IndexStep, PTL DEF Spec
<1>2. IndexInv => SucceededIsIndexed
  BY DEF IndexInv
<1> QED
  BY <1>1, <1>2, PTL

-----------------------------------------------------------------------------
(***************************************************************************)
(* A job is in one place, unless the Redis client sends an LPUSH again.    *)
(***************************************************************************)
\* BRPOP leaves the rest of the list as it was.
LEMMA Popped ==
  ASSUME NEW s \in Seq(Jobs), s # <<>>
  PROVE  /\ 1 \in DOMAIN s /\ Head(s) = s[1]
         /\ \A n \in DOMAIN Tail(s) : n + 1 \in DOMAIN s /\ Tail(s)[n] = s[n + 1]
         /\ DOMAIN Tail(s) \subseteq Nat
OBVIOUS

\* LPUSH adds the job at the end and leaves the others where they are.
LEMMA Pushed ==
  ASSUME NEW s \in Seq(Jobs), NEW j \in Jobs
  PROVE  \A n \in DOMAIN Append(s, j) :
           \/ n \in DOMAIN s /\ Append(s, j)[n] = s[n]
           \/ n = Len(s) + 1 /\ Append(s, j)[n] = j
OBVIOUS

Settled(j) == api[j] \in {"accepted", "rejected"}

\* The list and the goroutines are left alone, and so is the state of the jobs in
\* them: no request moves on from accepted or rejected.
LEMMA SingleStays ==
  ASSUME TypeOK, SingleDelivery, UNCHANGED <<list, job>>,
         \A j \in Jobs : Settled(j) => Settled(j)'
  PROVE  SingleDelivery'
BY DEF SingleDelivery, Settled, TypeOK, RecordsOK, WorkersOK

\* A goroutine lets go of the job it held, or goes on with it.
LEMMA SingleReleased ==
  ASSUME TypeOK, SingleDelivery, UNCHANGED <<list, api>>,
         \A w \in Workers : job'[w] \in {job[w], None}
  PROVE  SingleDelivery'
BY DEF SingleDelivery

LEMMA SingleStep ==
  ASSUME "resend" \notin Faults, TypeOK, SingleDelivery, [Next]_vars
  PROVE  SingleDelivery'
<1> USE DEF TypeOK, HandlersOK, RecordsOK, WorkersOK
<1>1. ASSUME NEW j \in Jobs, Handle(j)
      PROVE  SingleDelivery'
  <2>1. ASSUME NEW o \in Outcomes, LPush(j, o)
        PROVE  SingleDelivery'
    <3>1. /\ api[j] = "LPush" /\ Settled(j)' /\ job' = job
          /\ \A i \in Jobs \ {j} : api'[i] = api[i]
          /\ list' \in {list, Append(list, j)}
      BY <2>1 DEF LPush, Continue, Settled, workVars
    <3>2. CASE list' = list
      BY <3>1, <3>2, SingleStays DEF Settled
    <3>3. CASE list' = Append(list, j)
      <4> list \in Seq(Jobs)
        OBVIOUS
      <4>1. /\ \A n \in DOMAIN list : list[n] \in Jobs /\ list[n] # j
            /\ \A w \in Workers : job[w] # j
        <5>1. \A n \in DOMAIN list : list[n] \in Jobs
          OBVIOUS
        <5>2. api[j] \notin {"accepted", "rejected"} /\ j # None
          BY <3>1, NoneAssumption
        <5> QED
          BY <5>1, <5>2 DEF SingleDelivery
      <4>2. \A n \in DOMAIN list' : \/ n \in DOMAIN list /\ list'[n] = list[n]
                                    \/ n = Len(list) + 1 /\ list'[n] = j
        <5> HIDE DEF TypeOK
        <5> QED
          BY <3>3, Pushed
      <4>3. \A m, n \in DOMAIN list' : list'[m] = list'[n] => m = n
        <5> SUFFICES ASSUME NEW m \in DOMAIN list', NEW n \in DOMAIN list',
                            list'[m] = list'[n]
                     PROVE  m = n
          OBVIOUS
        <5>1. CASE m \in DOMAIN list /\ list'[m] = list[m]
          BY <4>1, <4>2, <5>1, ZenonT(60) DEF SingleDelivery
        <5>2. CASE m = Len(list) + 1 /\ list'[m] = j
          BY <4>1, <4>2, <5>2 DEF SingleDelivery
        <5> QED
          BY <4>2, <5>1, <5>2
      <4>4. \A n \in DOMAIN list' : api'[list'[n]] \in {"accepted", "rejected"}
        <5>1. \A n \in DOMAIN list : api'[list[n]] \in {"accepted", "rejected"}
          BY <3>1, <4>1 DEF SingleDelivery
        <5>2. api'[j] \in {"accepted", "rejected"}
          BY <3>1 DEF Settled
        <5> QED
          BY <4>2, <5>1, <5>2
      <4>5. ASSUME NEW w \in Workers, job[w] # None
            PROVE  /\ api'[job[w]] \in {"accepted", "rejected"}
                   /\ \A n \in DOMAIN list' : list'[n] # job[w]
                   /\ \A v \in Workers \ {w} : job[v] # job[w]
        BY <3>1, <4>1, <4>2, <4>5 DEF SingleDelivery, Settled
      <4> QED
        BY <3>1, <4>3, <4>4, <4>5 DEF SingleDelivery
    <3> QED
      BY <3>1, <3>2, <3>3
  <2>2. ASSUME NEW o \in Outcomes,
               \/ RejectFile(j) \/ SetPayload(j, o) \/ InsertQueued(j, o)
               \/ BulkIndexQueued(j, o) \/ HSet(j, o) \/ Expire(j, o)
        PROVE  SingleDelivery'
    <3>1. /\ ~Settled(j) /\ UNCHANGED <<list, job>>
          /\ \A i \in Jobs \ {j} : api'[i] = api[i]
      BY <2>2, ZenonT(60) DEF RejectFile, SetPayload, InsertQueued, BulkIndexQueued, HSet, Expire,
                  Continue, Settled, redisVars, workVars
    <3> QED
      BY <3>1, SingleStays DEF Settled
  <2>3. ~LPushResent(j)
    BY DEF LPushResent
  <2> QED
    BY <1>1, <2>1, <2>2, <2>3 DEF Handle, Outcomes
<1>2. ASSUME NEW w \in Workers, Dequeue(w) \/ DequeueLost(w)
      PROVE  SingleDelivery'
  <2>1. /\ list # <<>> /\ list' = Tail(list) /\ api' = api /\ job[w] = None
        /\ \/ job' = job
           \/ job' = [job EXCEPT ![w] = list[1]]
        /\ list' \in Seq(Jobs)
    <3>1. /\ list # <<>> /\ list' = Tail(list) /\ api' = api /\ pc[w] = "BRPop"
          /\ \/ job' = job
             \/ job' = [job EXCEPT ![w] = Head(list)]
      BY <1>2 DEF Dequeue, DequeueLost, At, apiVars, workVars
    <3>2. list \in Seq(Jobs) /\ job[w] = None
      BY <3>1
    <3> HIDE DEF TypeOK
    <3>3. Head(list) = list[1] /\ Tail(list) \in Seq(Jobs)
      BY <3>1, <3>2, Popped
    <3> QED
      BY <3>1, <3>2, <3>3
  <2>2. /\ \A n \in DOMAIN list' : /\ n \in Nat /\ n + 1 \in DOMAIN list
                                   /\ list'[n] = list[n + 1]
        /\ 1 \in DOMAIN list
    BY <2>1, Popped
  <2>3. \A n \in DOMAIN list' : list'[n] # list[1]
    <3> SUFFICES ASSUME NEW n \in DOMAIN list' PROVE list'[n] # list[1]
      OBVIOUS
    <3>1. n + 1 \in DOMAIN list /\ list'[n] = list[n + 1] /\ n + 1 # 1 /\ 1 \in DOMAIN list
      <4>1. n \in Nat /\ n >= 1
        BY <2>1
      <4> QED
        BY <2>2, <4>1
    <3> QED
      BY <3>1 DEF SingleDelivery
  <2>4. ASSUME NEW m \in DOMAIN list', NEW n \in DOMAIN list', list'[m] = list'[n]
        PROVE  m = n
    <3>1. m \in Nat /\ n \in Nat /\ list[m + 1] = list[n + 1]
      BY <2>2, <2>4
    <3>2. m + 1 = n + 1
      BY <2>2, <3>1 DEF SingleDelivery
    <3> QED
      BY <3>1, <3>2
  <2>5. \A n \in DOMAIN list' : api[list'[n]] \in {"accepted", "rejected"}
    BY <2>2 DEF SingleDelivery
  <2>6. ASSUME NEW v \in Workers, job'[v] # None
        PROVE  /\ api[job'[v]] \in {"accepted", "rejected"}
               /\ \A n \in DOMAIN list' : list'[n] # job'[v]
               /\ \A u \in Workers \ {v} : job'[u] # job'[v]
    <3>1. CASE job' = job
      BY <2>2, <2>6, <3>1, SMTT(60) DEF SingleDelivery
    <3>2. CASE job' = [job EXCEPT ![w] = list[1]]
      BY <2>2, <2>3, <2>6, <3>2, NoneAssumption, SMTT(60) DEF SingleDelivery
    <3> QED
      BY <2>1, <3>1, <3>2
  <2> QED
    BY <2>1, <2>4, <2>5, <2>6 DEF SingleDelivery
<1>3. ASSUME NEW w \in Workers, StartDequeue(w) \/ DequeueNone(w) \/ ProcessJob(w)
      PROVE  SingleDelivery'
  <2>1. /\ UNCHANGED <<list, api>>
        /\ job' = job \/ job' = [job EXCEPT ![w] = None]
    <3> USE DEF Proceed, Return, redisVars, apiVars, workVars
    <3>1. NextFile(w) \/ FileRan(w) \/ FileFailed(w) => job' = job
      BY DEF NextFile, FileRan, FileFailed
    <3> QED
      BY <1>3, <3>1
         DEF ProcessJob, StartDequeue, DequeueNone, SetJobRunning, MarkRunning, GetPayload,
             OnTaskRunning, WriteMilvus, WriteES, TaskSucceeded, CountSuccess, TaskFailed,
             CountFailure, Flush, DelPayload, MarkTerminal, SetJobTerminal
  <2> QED
    BY <2>1, SingleReleased
<1>4. ASSUME NEW p \in Procs, Started(p)
      PROVE  SingleDelivery'
  BY <1>4, SingleReleased DEF Started, redisVars, apiVars
<1>5. ASSUME \/ \E r \in FileRefs : ExpirePayload(r)
             \/ \E j \in Jobs : ExpireHash(j)
             \/ \E p \in Procs : Shutdown(p)
             \/ UNCHANGED vars
      PROVE  SingleDelivery'
  <2>1. UNCHANGED <<list, job, api>>
    BY <1>5 DEF ExpirePayload, ExpireHash, Shutdown, vars, apiVars, redisVars, workVars
  <2> QED
    BY <2>1, SingleStays DEF Settled
<1> QED
  BY <1>1, <1>2, <1>3, <1>4, <1>5 DEF Next, Consume, Environment, Restart, Crash

\* At most one goroutine of one process holds a job, and none while it is still
\* on the list: without the Redis client's resends, no two goroutines ever work
\* on the same row, the same task documents or the same bodies.
THEOREM SingleDeliveryHolds ==
  ASSUME "resend" \notin Faults
  PROVE  Spec => []SingleDelivery
<1>1. Init => TypeOK /\ SingleDelivery
  BY TypeInit DEF Init, SingleDelivery
<1>2. TypeOK /\ SingleDelivery /\ [Next]_vars => TypeOK' /\ SingleDelivery'
  BY TypeStep, SingleStep
<1> QED
  BY <1>1, <1>2, PTL DEF Spec

USE DEF JobStatus, Terminal, HandlerCalls, WorkerCalls, Idle

-----------------------------------------------------------------------------
(***************************************************************************)
(* Bodies.  The handler stores them one by one before it goes on; short of *)
(* a TTL only DelPayload deletes any, after the Flush.                     *)
(***************************************************************************)
BodiesKept ==
  \A j \in Jobs :
    /\ api[j] \notin {"SetPayload", "rejected"} => stored[j] = NFiles[j]
    /\ api[j] # "rejected" =>
         \/ \A k \in 1 .. NFiles[j] : k <= stored[j] => <<j, k>> \in payload
         \/ \A r \in RefsOf(j) : Stored(sealed, r)

\* What an action that leaves requests and bodies alone owes.
LEMMA BodiesStay ==
  ASSUME IndexInv, [Next]_vars, BodiesKept, UNCHANGED apiVars, payload \subseteq payload'
  PROVE  BodiesKept'
<1>1. \A j \in Jobs : \A r \in RefsOf(j) : Stored(sealed, r) => Stored(sealed, r)'
  <2> SUFFICES ASSUME NEW j \in Jobs, NEW r \in RefsOf(j), Stored(sealed, r)
               PROVE  Stored(sealed, r)'
    OBVIOUS
  <2>1. ChunkOf[r] \in Chunks
    BY RefsOfMember, ChunkOfAssumption
  <2> QED
    BY <2>1, StoresGrow DEF IndexInv, WorkIsWritten, Stored
<1> QED
  BY <1>1 DEF BodiesKept, apiVars, RefsOf

LEMMA BodiesStep ==
  ASSUME "expire" \notin Faults, IndexInv, BodiesKept, [Next]_vars
  PROVE  BodiesKept'
<1>0. TypeOK /\ TypeOK'
  BY TypeStep DEF IndexInv
<1>1. ASSUME NEW j \in Jobs, NEW o \in Outcomes, SetPayload(j, o)
      PROVE  BodiesKept'
  <2>1. /\ api[j] = "SetPayload" /\ stored[j] \in Nat /\ NFiles[j] \in Nat
        /\ stored[j] < NFiles[j] /\ sealed' = sealed
        /\ payload \subseteq payload'
        /\ \A i \in Jobs \ {j} : api'[i] = api[i] /\ stored'[i] = stored[i]
    BY <1>0, <1>1, NFilesAssumption
       DEF SetPayload, Continue, TypeOK, HandlersOK, indexVars
  <2>2. CASE o = "ok"
    <3>1. /\ stored'[j] = stored[j] + 1 /\ <<j, stored[j] + 1>> \in payload'
          /\ api'[j] \notin {"SetPayload", "rejected"} => stored'[j] = NFiles[j]
      BY <1>0, <1>1, <2>1, <2>2 DEF SetPayload, Continue, Applied, TypeOK, HandlersOK
    <3>2. \A k \in 1 .. NFiles[j] : k <= stored[j] + 1 => k <= stored[j] \/ k = stored[j] + 1
      BY <2>1
    <3> QED
      BY <2>1, <3>1, <3>2 DEF BodiesKept, Stored
  <2>3. CASE o # "ok"
    <3>1. api'[j] = "rejected"
      BY <1>0, <1>1, <2>3 DEF SetPayload, Continue, TypeOK, HandlersOK
    <3> QED
      BY <2>1, <3>1 DEF BodiesKept, Stored
  <2> QED
    BY <2>2, <2>3
<1>2. ASSUME NEW j \in Jobs, Handle(j), ~\E o \in Outcomes : SetPayload(j, o)
      PROVE  BodiesKept'
  <2>1. /\ UNCHANGED <<stored, payload, sealed>>
        /\ \A i \in Jobs \ {j} : api'[i] = api[i]
        /\ api'[j] \in {"rejected"} \/ api[j] \notin {"SetPayload", "rejected"}
    BY <1>0, <1>2 DEF Handle, RejectFile, InsertQueued, BulkIndexQueued, HSet, Expire, LPush,
                 LPushResent, Continue, TypeOK, HandlersOK, redisVars, indexVars
  <2> QED
    BY <2>1 DEF BodiesKept, Stored
<1>3. ASSUME NEW w \in Workers, Consume(w), ~\E o \in CallOutcomes(w) : DelPayload(w, o)
      PROVE  UNCHANGED <<apiVars, payload>>
  BY <1>3 DEF Consume, ProcessJob, StartDequeue, DequeueNone, Dequeue, SetJobRunning,
              MarkRunning, GetPayload, OnTaskRunning, WriteMilvus, WriteES, TaskSucceeded,
              CountSuccess, TaskFailed, CountFailure, Flush, MarkTerminal, SetJobTerminal,
              redisVars
<1>4. ASSUME NEW w \in Workers, NEW o \in CallOutcomes(w), DelPayload(w, o)
      PROVE  BodiesKept'
  <2>1. job[w] \in Jobs /\ job[w] # None
    BY <1>0, <1>4, FileRefsMember, NoneAssumption DEF DelPayload, At, TypeOK, WorkersOK, Ref
  <2>2. \A r \in RefsOf(job[w]) : Stored(sealed, r)
    BY <1>4, <2>1 DEF IndexInv, WorkIsWritten, Passed, Succeeding, DelPayload, At, Indexed
  <2>3. /\ UNCHANGED <<apiVars, sealed>>
        /\ \A r \in payload : r \notin RefsOf(job[w]) => r \in payload'
    BY <1>4 DEF DelPayload, indexVars
  <2>4. \A j \in Jobs \ {job[w]} : \A k \in 1 .. NFiles[j] : <<j, k>> \notin RefsOf(job[w])
    BY DEF RefsOf
  <2> QED
    BY <2>1, <2>2, <2>3, <2>4 DEF BodiesKept, apiVars, Stored
<1>5. ASSUME Environment
      PROVE  UNCHANGED <<apiVars, payload>>
  BY <1>5 DEF Environment, ExpirePayload, ExpireHash, Shutdown, Restart, Crash, Started,
              DequeueLost, redisVars
<1>6. CASE UNCHANGED <<apiVars, payload>>
  BY <1>6, BodiesStay
<1> QED
  BY <1>1, <1>2, <1>3, <1>4, <1>5, <1>6 DEF Next, vars, redisVars

\* Short of a TTL, the bodies of an accepted job are there until its chunks are

\* sealed: no failure, re-delivery, crash or shutdown leaves a job with neither.
THEOREM PayloadUntilIndexedHolds == Spec => []PayloadUntilIndexed
<1>1. CASE "expire" \in Faults
  <2>1. PayloadUntilIndexed
    BY <1>1 DEF PayloadUntilIndexed
  <2> QED
    BY <2>1, PTL
<1>2. CASE "expire" \notin Faults
  <2>1. Init => IndexInv /\ BodiesKept
    <3> SUFFICES ASSUME Init PROVE BodiesKept
      BY IndexInit
    <3>1. \A j \in Jobs : api[j] = "SetPayload" /\ stored[j] = 0
      BY DEF Init
    <3>2. \A j \in Jobs : \A k \in 1 .. NFiles[j] : ~(k <= 0)
      BY NFilesAssumption
    <3> QED
      BY <3>1, <3>2 DEF BodiesKept
  <2>2. IndexInv /\ BodiesKept /\ [Next]_vars => IndexInv' /\ BodiesKept'
    BY <1>2, IndexStep, BodiesStep
  <2>3. BodiesKept => PayloadUntilIndexed
    <3> SUFFICES ASSUME BodiesKept, NEW j \in Jobs, api[j] = "accepted",
                        ~\A r \in RefsOf(j) : Stored(sealed, r)
                 PROVE  RefsOf(j) \subseteq payload
      BY DEF PayloadUntilIndexed
    <3>1. stored[j] = NFiles[j] /\ \A k \in 1 .. NFiles[j] : k <= stored[j] => <<j, k>> \in payload
      BY DEF BodiesKept
    <3> QED
      BY <3>1, Files DEF RefsOf
  <2> QED
    BY <2>1, <2>2, <2>3, PTL DEF Spec
<1> QED
  BY <1>1, <1>2

-----------------------------------------------------------------------------
(***************************************************************************)
(* Records.  As long as a job waits its records say so; while a goroutine  *)
(* is at it they say how far the goroutine has come; then they stay.       *)
(***************************************************************************)
Untouched(j) ==
  /\ status[j] \in {"absent", "queued"}
  /\ successFiles[j] = 0 /\ failFiles[j] = 0
  /\ \A k \in 1 .. NFiles[j] : task[<<j, k>>] \in {"absent", "queued"}

Waiting(j) == ~Settled(j) \/ \E n \in DOMAIN list : list[n] = j

\* CountersTrailTasks of one job.
Trails(j) ==
  /\ failFiles[j] <= 1
  /\ successFiles[j] + failFiles[j] <= NFiles[j]
  /\ ES => \A k \in 1 .. NFiles[j] :
       /\ k <= successFiles[j] => task[<<j, k>>] = "succeeded"
       /\ k > successFiles[j] + 1 => task[<<j, k>>] \in {"absent", "queued"}
       /\ k = successFiles[j] + 1 /\ failFiles[j] > 0 => task[<<j, k>>] = "failed"

\* The files before the n-th have succeeded and are counted, none after it was started.
Underway(j, n) ==
  /\ successFiles[j] = n - 1 /\ failFiles[j] = 0
  /\ \A k \in 1 .. NFiles[j] : /\ k > n => task[<<j, k>>] \in {"absent", "queued"}
                               /\ ES /\ k < n => task[<<j, k>>] = "succeeded"

AllCounted(j) ==
  /\ successFiles[j] = NFiles[j] /\ failFiles[j] = 0
  /\ ES => \A k \in 1 .. NFiles[j] : task[<<j, k>>] = "succeeded"

\* What the task document of a file says at each call.
TaskAt(call, doc) ==
  /\ call \in {"GetPayload", "OnTaskRunning"} => doc \in {"absent", "queued"}
  /\ call \in {"WriteMilvus", "WriteES", "TaskSucceeded", "TaskFailed"} => doc \notin Terminal
  /\ ES /\ call = "CountSuccess" => doc = "succeeded"
  /\ ES /\ call = "CountFailure" => doc = "failed"

StartCalls == {"SetJobRunning", "MarkRunning"}
FileCalls  == {"GetPayload", "OnTaskRunning", "WriteMilvus", "WriteES", "TaskSucceeded",
               "CountSuccess", "TaskFailed", "CountFailure"}
EndCalls   == {"Flush", "DelPayload", "MarkTerminal"}
MetaCalls  == {"MarkRunning", "OnTaskRunning", "TaskSucceeded", "CountSuccess", "TaskFailed",
               "CountFailure", "MarkTerminal"}

\* All files have been through, and nothing has failed since.
Through(call, err) == \/ call \in {"Flush", "DelPayload"}
                      \/ call \in {"MarkTerminal", "SetJobTerminal"} /\ ~err

\* What the records of job j say when its goroutine is at a call for its n-th file.
RecordsAt(j, call, n, err) ==
  /\ ~WorkerMeta => Untouched(j) /\ call \notin MetaCalls
  /\ call \in StartCalls => Untouched(j) /\ n = 1
  /\ WorkerMeta /\ call \in FileCalls \cup EndCalls => status[j] = "running"
  /\ WorkerMeta /\ call \in FileCalls => Underway(j, n) /\ TaskAt(call, task[<<j, n>>])
  /\ WorkerMeta /\ Through(call, err) => AllCounted(j)

JobRecords(j) ==
  /\ api[j] \in {"SetPayload", "InsertQueued"} => status[j] = "absent"
  /\ status[j] # "absent" => totalFiles[j] = NFiles[j]
  /\ Waiting(j) => Untouched(j)
  /\ Trails(j)
  /\ status[j] = "succeeded" => AllCounted(j)

RecordsOf(w) == RecordsAt(job[w], pc[w], file[w], failed[w])

RecordsInv ==
  /\ \A j \in Jobs : JobRecords(j)
  /\ \A w \in Workers : job[w] # None => RecordsOf(w)

\* The row and the task documents of job j are left alone.
Same(j) ==
  /\ status'[j] = status[j] /\ totalFiles'[j] = totalFiles[j]
  /\ successFiles'[j] = successFiles[j] /\ failFiles'[j] = failFiles[j]
  /\ \A k \in 1 .. NFiles[j] : task'[<<j, k>>] = task[<<j, k>>]

\* Then they say what they said.
LEMMA SameRecords ==
  ASSUME NEW j \in Jobs, Same(j)
  PROVE  /\ Untouched(j)' <=> Untouched(j)
         /\ Trails(j)' <=> Trails(j)
         /\ AllCounted(j)' <=> AllCounted(j)
         /\ \A call, err : \A n \in 1 .. NFiles[j] :
              RecordsAt(j, call, n, err)' <=> RecordsAt(j, call, n, err)
<1>1. /\ Untouched(j)' <=> Untouched(j)
      /\ Trails(j)' <=> Trails(j)
      /\ AllCounted(j)' <=> AllCounted(j)
  BY DEF Same, Untouched, Trails, AllCounted
<1>2. \A n \in 1 .. NFiles[j] : Underway(j, n)' <=> Underway(j, n)
  BY DEF Same, Underway
<1> QED
  BY <1>1, <1>2 DEF Same, RecordsAt

\* The position of a goroutine after a step that does not put its job down.
GoesTo(w, call, n, err) ==
  pc'[w] = call /\ job'[w] = job[w] /\ file'[w] = n /\ failed'[w] = err

LEMMA Positions ==
  ASSUME TypeOK, NEW w \in Workers
  PROVE  /\ \A call : Proceed(w, call) => GoesTo(w, call, file[w], failed[w])
         /\ \A err : Return(w, err) =>
              GoesTo(w, IF WorkerMeta THEN "MarkTerminal" ELSE "SetJobTerminal", file[w], err)
         /\ NextFile(w) => IF file[w] < NFiles[job[w]]
                           THEN GoesTo(w, "GetPayload", file[w] + 1, failed[w])
                           ELSE GoesTo(w, "Flush", file[w], failed[w])
BY DEF TypeOK, WorkersOK, Proceed, Return, NextFile, Goto, workVars, GoesTo

\* A goroutine within ProcessJob is at a file of a job.
LEMMA Holding ==
  ASSUME TypeOK, NEW w \in Workers, job[w] # None \/ pc[w] \notin Idle
  PROVE  /\ job[w] \in Jobs /\ job[w] # None /\ pc[w] \notin Idle
         /\ file[w] \in 1 .. NFiles[job[w]] /\ Ref(w) = <<job[w], file[w]>>
         /\ Ref(w) \in FileRefs
BY FileRefsMember, NoneAssumption DEF TypeOK, WorkersOK, Ref

LEMMA WithinProcessJob ==
  ASSUME NEW w \in Workers, ProcessJob(w)
  PROVE  pc[w] \notin Idle
BY DEF ProcessJob, SetJobRunning, MarkRunning, GetPayload, OnTaskRunning, WriteMilvus,
       WriteES, TaskSucceeded, CountSuccess, TaskFailed, CountFailure, Flush, DelPayload,
       MarkTerminal, SetJobTerminal, At

\* Only its request and the goroutine that holds it touch the records of a job.
LEMMA RecordsTouched ==
  ASSUME TypeOK, [Next]_vars, NEW j \in Jobs
  PROVE  \/ Same(j)
         \/ Handle(j) /\ ~Settled(j)
         \/ \E w \in Workers : job[w] = j /\ ProcessJob(w)
<1> USE DEF TypeOK, RecordsOK
<1>1. ASSUME NEW i \in Jobs, Handle(i), i # j \/ Settled(j)
      PROVE  Same(j)
  <2>1. CASE i = j
    BY <1>1, <2>1 DEF Handle, RejectFile, SetPayload, InsertQueued, BulkIndexQueued, HSet,
                      Expire, LPush, LPushResent, Settled
  <2>2. ASSUME i # j, NEW o \in Outcomes, BulkIndexQueued(i, o)
        PROVE  Same(j)
    <3>1. UNCHANGED rowVars /\ \E done \in SUBSET RefsOf(i) :
            task' = [r \in FileRefs |-> IF r \in done THEN "queued" ELSE task[r]]
      BY <2>2 DEF BulkIndexQueued
    <3>2. \A k \in 1 .. NFiles[j] : <<j, k>> \in FileRefs /\ <<j, k>> \notin RefsOf(i)
      BY <2>2, FileRefsMember DEF RefsOf
    <3> QED
      BY <3>1, <3>2 DEF Same, rowVars
  <2>3. ASSUME i # j, ~\E o \in Outcomes : BulkIndexQueued(i, o)
        PROVE  Same(j)
    BY <1>1, <2>3 DEF Handle, RejectFile, SetPayload, InsertQueued, HSet, Expire, LPush,
                      LPushResent, Same, rowVars, Write
  <2> QED
    BY <1>1, <2>1, <2>2, <2>3
<1>2. ASSUME NEW w \in Workers, ProcessJob(w), job[w] # j
      PROVE  Same(j)
  <2>1. \A k \in 1 .. NFiles[j] : <<j, k>> # Ref(w)
    BY <1>2 DEF Ref
  <2> HIDE DEF Ref
  <2>2. ASSUME NEW o \in CallOutcomes(w),
               \/ SetJobRunning(w, o) \/ GetPayload(w, o) \/ WriteMilvus(w, o)
               \/ WriteES(w, o) \/ Flush(w, o) \/ DelPayload(w, o) \/ SetJobTerminal(w, o)
        PROVE  Same(j)
    BY <2>2 DEF SetJobRunning, GetPayload, WriteMilvus, WriteES, Flush, DelPayload,
                SetJobTerminal, Same, rowVars
  <2>3. ASSUME NEW o \in CallOutcomes(w),
               MarkRunning(w, o) \/ MarkTerminal(w, o) \/ CountSuccess(w, o) \/ CountFailure(w, o)
        PROVE  Same(j)
    BY <1>2, <2>3 DEF MarkRunning, MarkTerminal, CountSuccess, CountFailure, Same, Write
  <2>4. ASSUME NEW o \in CallOutcomes(w),
               OnTaskRunning(w, o) \/ TaskSucceeded(w, o) \/ TaskFailed(w, o)
        PROVE  Same(j)
    BY <2>1, <2>4, FileRefsMember
       DEF OnTaskRunning, TaskSucceeded, TaskFailed, UpdateTask, Same, Write, rowVars
  <2> QED
    BY <1>2, <2>2, <2>3, <2>4 DEF ProcessJob
<1>3. ASSUME NEW w \in Workers, StartDequeue(w) \/ DequeueNone(w) \/ Dequeue(w)
      PROVE  Same(j)
  BY <1>3 DEF StartDequeue, DequeueNone, Dequeue, Same, rowVars
<1>4. CASE Environment \/ UNCHANGED vars
  BY <1>4 DEF Environment, ExpirePayload, ExpireHash, Shutdown, Restart, Crash, Started,
              DequeueLost, vars, Same, rowVars
<1> QED
  BY <1>1, <1>2, <1>3, <1>4 DEF Next, Consume

\* Untouched records trail what was done, for nothing was, and end nothing.
LEMMA UntouchedTrails ==
  ASSUME NEW j \in Jobs, Untouched(j)
  PROVE  Trails(j) /\ status[j] \notin Terminal
BY NFilesAssumption DEF Untouched, Trails

\* The handler makes the row once, and the task documents, before it pushes the job.
LEMMA RecordsHandle ==
  ASSUME TypeOK, NEW j \in Jobs, JobRecords(j), ~Settled(j), Handle(j)
  PROVE  JobRecords(j)'
<1> USE DEF TypeOK, HandlersOK, RecordsOK
<1>0. /\ Untouched(j)
      /\ status[j] # "absent" => totalFiles[j] = NFiles[j]
      /\ api[j] \in {"SetPayload", "InsertQueued"} => status[j] = "absent"
  BY DEF JobRecords, Waiting
<1>1. ASSUME NEW o \in Outcomes, InsertQueued(j, o)
      PROVE  /\ Untouched(j)' /\ api'[j] \notin {"SetPayload", "InsertQueued"}
             /\ status'[j] # "absent" => totalFiles'[j] = NFiles[j]
  BY <1>0, <1>1 DEF InsertQueued, Continue, Write, Untouched
<1>2. ASSUME NEW o \in Outcomes, BulkIndexQueued(j, o)
      PROVE  /\ Untouched(j)' /\ UNCHANGED rowVars
             /\ api'[j] \notin {"SetPayload", "InsertQueued"}
  <2>1. /\ \E done \in SUBSET RefsOf(j) :
             task' = [r \in FileRefs |-> IF r \in done THEN "queued" ELSE task[r]]
        /\ UNCHANGED rowVars
        /\ api'[j] \notin {"SetPayload", "InsertQueued"}
    BY <1>2 DEF BulkIndexQueued, Continue
  <2>2. \A k \in 1 .. NFiles[j] : <<j, k>> \in FileRefs
    BY FileRefsMember
  <2> QED
    BY <1>0, <2>1, <2>2 DEF Untouched, rowVars
<1>3. ASSUME NEW o \in Outcomes, SetPayload(j, o) \/ RejectFile(j)
      PROVE  Untouched(j)' /\ UNCHANGED rowVars /\ status[j] = "absent"
  BY <1>0, <1>3 DEF SetPayload, RejectFile, Untouched, rowVars
<1>4. ASSUME NEW o \in Outcomes, HSet(j, o) \/ Expire(j, o) \/ LPush(j, o) \/ LPushResent(j)
      PROVE  /\ Untouched(j)' /\ UNCHANGED rowVars
             /\ api'[j] \notin {"SetPayload", "InsertQueued"}
  BY <1>0, <1>4 DEF HSet, Expire, LPush, LPushResent, Continue, Untouched, rowVars
<1>5. /\ Untouched(j)'
      /\ api'[j] \in {"SetPayload", "InsertQueued"} => status'[j] = "absent"
      /\ status'[j] # "absent" => totalFiles'[j] = NFiles[j]
  BY <1>0, <1>1, <1>2, <1>3, <1>4 DEF Handle, rowVars, Outcomes
<1>6. Trails(j)' /\ status'[j] \notin Terminal
  BY <1>5, NFilesAssumption DEF Untouched, Trails
<1> QED
  BY <1>5, <1>6 DEF JobRecords

\* What a step of the goroutine that holds job j owes: what is final stays, the
\* records still trail what was done, and they say how far the goroutine has come.
Owed(w, j) ==
  /\ totalFiles'[j] = totalFiles[j] /\ (status'[j] = "absent" <=> status[j] = "absent")
  /\ status[j] \in Terminal => Same(j)
  /\ \A k \in 1 .. NFiles[j] : task[<<j, k>>] \in Terminal => task'[<<j, k>>] = task[<<j, k>>]
  /\ Trails(j)' /\ (status'[j] = "succeeded" => AllCounted(j)')
  /\ \/ job'[w] = None
     \/ \E call, err : \E n \in 1 .. NFiles[j] :
          GoesTo(w, call, n, err) /\ RecordsAt(j, call, n, err)'

\* A step that leaves the records alone owes the position only.
LEMMA OwedSame ==
  ASSUME NEW w \in Workers, NEW j \in Jobs, Same(j), JobRecords(j),
         NEW call, NEW err, NEW n \in 1 .. NFiles[j],
         GoesTo(w, call, n, err), RecordsAt(j, call, n, err)
  PROVE  Owed(w, j)
<1>1. Trails(j)' /\ (status'[j] = "succeeded" => AllCounted(j)')
  BY SameRecords DEF JobRecords, Same
<1>2. RecordsAt(j, call, n, err)'
  BY SameRecords
<1> QED
  BY <1>1, <1>2 DEF Owed, Same

\* Without the metadata a goroutine leaves the records as its request made them.
LEMMA OwedWithoutMeta ==
  ASSUME ~WorkerMeta, TypeOK, NEW w \in Workers, NEW j \in Jobs, j = job[w],
         JobRecords(j), RecordsOf(w), ProcessJob(w)
  PROVE  Owed(w, j)
<1> DEFINE n == file[w]
           NextAt(m) == \E call, err : GoesTo(w, call, m, err) /\ call \notin MetaCalls \cup StartCalls
<1>1. /\ n \in 1 .. NFiles[j] /\ pc[w] \notin MetaCalls /\ Untouched(j)
      /\ NFiles[j] \in Nat
  BY WithinProcessJob, Holding, Files DEF RecordsOf, RecordsAt
<1>2. \/ job'[w] = None
      \/ \E m \in 1 .. NFiles[j] : NextAt(m)
  <2>1. ASSUME Proceed(w, "GetPayload") \/ Proceed(w, "WriteMilvus") \/ Proceed(w, "WriteES")
                 \/ Proceed(w, "DelPayload")
        PROVE  NextAt(n)
    BY <2>1, Positions DEF MetaCalls, StartCalls
  <2>2. ASSUME NEW err, Return(w, err)
        PROVE  NextAt(n)
    BY <2>2, Positions DEF MetaCalls, StartCalls
  <2>3. ASSUME NextFile(w)
        PROVE  \E m \in 1 .. NFiles[j] : NextAt(m)
    <3>1. CASE n < NFiles[j]
      BY <1>1, <2>3, <3>1, Positions DEF MetaCalls, StartCalls
    <3>2. CASE ~(n < NFiles[j])
      BY <1>1, <2>3, <3>2, Positions DEF MetaCalls, StartCalls
    <3> QED
      BY <3>1, <3>2
  <2>4. FileRan(w) \/ FileFailed(w) => \E m \in 1 .. NFiles[j] : NextAt(m)
    BY <1>1, <2>2, <2>3 DEF FileRan, FileFailed
  <2>5. ASSUME NEW o \in CallOutcomes(w), SetJobTerminal(w, o)
        PROVE  job'[w] = None
    BY <2>5 DEF SetJobTerminal, TypeOK, WorkersOK
  <2> HIDE DEF NextAt, n
  <2> QED
    BY <1>1, <2>1, <2>2, <2>3, <2>4, <2>5
       DEF ProcessJob, SetJobRunning, MarkRunning, GetPayload, OnTaskRunning, WriteMilvus,
           WriteES, TaskSucceeded, CountSuccess, TaskFailed, CountFailure, Flush, DelPayload,
           MarkTerminal, At, MetaCalls
<1>3. Same(j)
  <2>1. UNCHANGED <<rowVars, task>>
    BY <1>1 DEF ProcessJob, SetJobRunning, MarkRunning, GetPayload, OnTaskRunning, WriteMilvus,
           WriteES, TaskSucceeded, CountSuccess, TaskFailed, CountFailure, Flush, DelPayload,
           MarkTerminal, SetJobTerminal, At, MetaCalls
  <2> QED
    BY <2>1 DEF rowVars, Same
<1>4. ASSUME NEW m \in 1 .. NFiles[j], NEW call, NEW err,
             call \notin MetaCalls \cup StartCalls, GoesTo(w, call, m, err)
      PROVE  Owed(w, j)
  <2>1. RecordsAt(j, call, m, err)
    BY <1>1, <1>4 DEF RecordsAt, MetaCalls, StartCalls
  <2> QED
    BY <1>3, <1>4, <2>1, OwedSame
<1>5. CASE job'[w] = None
  BY <1>3, <1>5, SameRecords DEF Owed, Same, JobRecords
<1> QED
  BY <1>2, <1>4, <1>5

\* With it, a step that changes at most the task document of its file, while that
\* has no outcome, owes the position and what the document then says.
LEMMA OwedTask ==
  ASSUME WorkerMeta, TypeOK, NEW w \in Workers, NEW j \in Jobs, NEW n \in 1 .. NFiles[j],
         status[j] = "running", Underway(j, n), UNCHANGED rowVars,
         \A k \in (1 .. NFiles[j]) \ {n} : task'[<<j, k>>] = task[<<j, k>>],
         task[<<j, n>>] \notin Terminal,
         NEW call, NEW err, GoesTo(w, call, n, err), ~Through(call, err),
         call \notin StartCalls, call \in FileCalls => TaskAt(call, task'[<<j, n>>])
  PROVE  Owed(w, j)
<1>1. Underway(j, n)'
  BY DEF Underway, rowVars
<1>2. Trails(j)'
  BY <1>1, NFilesAssumption DEF Underway, Trails, TypeOK, RecordsOK
<1>3. RecordsAt(j, call, n, err)'
  BY <1>1 DEF RecordsAt, rowVars
<1> QED
  BY <1>2, <1>3 DEF Owed, rowVars

\* The counter of the file that was run is the next one, and the records still trail.
LEMMA OwedCount ==
  ASSUME WorkerMeta, TypeOK, NEW w \in Workers, NEW j \in Jobs, NEW n \in 1 .. NFiles[j],
         status[j] = "running", Underway(j, n), UNCHANGED <<status, totalFiles, task>>,
         \/ /\ successFiles'[j] \in {n - 1, n} /\ failFiles'[j] = 0
            /\ ES => task[<<j, n>>] = "succeeded"
         \/ /\ successFiles'[j] = n - 1 /\ failFiles'[j] \in {0, 1}
            /\ ES => task[<<j, n>>] = "failed"
  PROVE  /\ Trails(j)'
         /\ successFiles'[j] = n =>
              IF n < NFiles[j] THEN Underway(j, n + 1)' ELSE AllCounted(j)'
         /\ GoesTo(w, "MarkTerminal", n, TRUE) => Owed(w, j)
<1>0. NFiles[j] \in Nat \ {0} /\ n \in Nat \ {0}
  BY NFilesAssumption
<1>1. Trails(j)'
  BY <1>0 DEF Underway, Trails
<1>2. ASSUME successFiles'[j] = n, n < NFiles[j]
      PROVE  Underway(j, n + 1)'
  BY <1>0, <1>2 DEF Underway
<1>3. ASSUME successFiles'[j] = n, ~(n < NFiles[j])
      PROVE  AllCounted(j)'
  BY <1>0, <1>3 DEF Underway, AllCounted
<1>4. RecordsAt(j, "MarkTerminal", n, TRUE)'
  BY DEF RecordsAt, StartCalls, FileCalls, EndCalls, Through
<1> QED
  BY <1>1, <1>2, <1>3, <1>4 DEF Owed

\* With the metadata it moves the records on, one call at a time.
LEMMA OwedWithMeta ==
  ASSUME WorkerMeta, TypeOK, NEW w \in Workers, NEW j \in Jobs, j = job[w],
         JobRecords(j), RecordsOf(w), ProcessJob(w)
  PROVE  Owed(w, j)
<1> USE DEF At, StartCalls, FileCalls, EndCalls, MetaCalls
<1> PICK n \in 1 .. NFiles[j], err \in BOOLEAN : n = file[w] /\ err = failed[w]
  BY WithinProcessJob, Holding DEF TypeOK, WorkersOK
<1>1. /\ NFiles[j] \in Nat \ {0} /\ Ref(w) = <<j, n>> /\ Ref(w) \in FileRefs
      /\ RecordsAt(j, pc[w], n, err) /\ RecordsOK
  BY WithinProcessJob, Holding, Files DEF RecordsOf, TypeOK
<1>2. ASSUME UNCHANGED <<rowVars, task>>
      PROVE  Same(j)
  BY <1>2 DEF Same, rowVars
<1>3. ASSUME pc[w] \in FileCalls
      PROVE  /\ status[j] = "running" /\ Underway(j, n) /\ TaskAt(pc[w], task[<<j, n>>])
             /\ successFiles[j] = n - 1 /\ failFiles[j] = 0
  BY <1>1, <1>3 DEF RecordsAt, Underway
<1>4. ASSUME pc[w] \in FileCalls, task[<<j, n>>] \notin Terminal, UNCHANGED <<rowVars, task>>,
             FileFailed(w)
      PROVE  Owed(w, j)
  <2>1. GoesTo(w, IF ES THEN "TaskFailed" ELSE "CountFailure", n, err)
    BY <1>4, Positions DEF FileFailed
  <2> QED
    BY <1>3, <1>4, <2>1, OwedTask DEF TaskAt, Through
<1>5. ASSUME pc[w] \in FileCalls, task[<<j, n>>] \notin Terminal, UNCHANGED <<rowVars, task>>,
             FileRan(w)
      PROVE  Owed(w, j)
  <2>1. GoesTo(w, IF ES THEN "TaskSucceeded" ELSE "CountSuccess", n, err)
    BY <1>5, Positions DEF FileRan
  <2> QED
    BY <1>3, <1>5, <2>1, OwedTask DEF TaskAt, Through
<1>6. ASSUME NEW o \in CallOutcomes(w), SetJobRunning(w, o)
      PROVE  Owed(w, j)
  <2>1. GoesTo(w, "MarkRunning", n, err) /\ Same(j)
    BY <1>2, <1>6, Positions DEF SetJobRunning
  <2>2. RecordsAt(j, "MarkRunning", n, err)
    BY <1>1, <1>6 DEF SetJobRunning, RecordsAt, Through
  <2> QED
    BY <2>1, <2>2, OwedSame
<1>7. ASSUME NEW o \in CallOutcomes(w), MarkRunning(w, o)
      PROVE  Owed(w, j)
  <2>1. /\ Untouched(j) /\ n = 1 /\ status[j] \in {"absent", "queued"}
        /\ UNCHANGED <<totalFiles, successFiles, failFiles, task>>
    BY <1>1, <1>7 DEF MarkRunning, RecordsAt, Untouched
  <2>2. /\ status'[j] \in {status[j], "running"} /\ (status[j] = "absent" => status' = status)
        /\ \/ GoesTo(w, "GetPayload", n, err) /\ status'[j] = "running"
           \/ GoesTo(w, "SetJobTerminal", n, TRUE)
    <3>1. CASE Proceed(w, "GetPayload") /\ status[j] # "absent" /\ o = "ok"
      BY <1>1, <1>7, <3>1, Positions DEF MarkRunning, Write, Applied, RecordsOK
    <3>2. CASE failed' = [failed EXCEPT ![w] = TRUE] /\ Goto(w, "SetJobTerminal")
                 /\ UNCHANGED <<job, file>>
      BY <1>7, <3>2 DEF MarkRunning, Write, Goto, GoesTo, TypeOK, RecordsOK, WorkersOK
    <3> QED
      BY <1>7, <2>1, <3>1, <3>2 DEF MarkRunning
  <2>3. Trails(j)' /\ status'[j] \notin Terminal /\ status[j] \notin Terminal
    BY <1>1, <2>1, <2>2 DEF Untouched, Trails
  <2>4. status'[j] = "running" => RecordsAt(j, "GetPayload", n, err)'
    <3>1. Underway(j, n)' /\ TaskAt("GetPayload", task'[<<j, n>>])
      BY <2>1 DEF Untouched, Underway, TaskAt
    <3> QED
      BY <3>1 DEF RecordsAt, Through
  <2>5. RecordsAt(j, "SetJobTerminal", n, TRUE)'
    BY DEF RecordsAt, Through
  <2> QED
    BY <2>1, <2>2, <2>3, <2>4, <2>5 DEF Owed
<1>8. ASSUME NEW o \in CallOutcomes(w), GetPayload(w, o)
      PROVE  Owed(w, j)
  <2>1. /\ pc[w] = "GetPayload" /\ UNCHANGED <<rowVars, task>>
        /\ \/ FileFailed(w)
           \/ GoesTo(w, IF ES THEN "OnTaskRunning" ELSE "WriteMilvus", n, err)
    BY <1>8, Positions DEF GetPayload
  <2>2. task[<<j, n>>] \in {"absent", "queued"}
    BY <1>3, <2>1 DEF TaskAt
  <2> QED
    BY <1>3, <1>4, <2>1, <2>2, OwedTask DEF TaskAt, Through
<1>9. ASSUME NEW value, NEW o \in CallOutcomes(w), UpdateTask(w, value, o)
      PROVE  /\ \A k \in (1 .. NFiles[j]) \ {n} : task'[<<j, k>>] = task[<<j, k>>]
             /\ task'[<<j, n>>] \in {task[<<j, n>>], value}
             /\ Updated(w, o) => task'[<<j, n>>] = value
  <2>1. \A k \in (1 .. NFiles[j]) \ {n} : <<j, k>> \in FileRefs /\ <<j, k>> # <<j, n>>
    BY FileRefsMember
  <2> QED
    BY <1>1, <1>9, <2>1 DEF UpdateTask, Updated, Write, Applied, RecordsOK
<1>9a. ASSUME pc[w] \in FileCalls, task[<<j, n>>] \notin Terminal, UNCHANGED rowVars,
              \A k \in (1 .. NFiles[j]) \ {n} : task'[<<j, k>>] = task[<<j, k>>],
              GoesTo(w, "MarkTerminal", n, TRUE)
       PROVE  Owed(w, j)
  BY <1>3, <1>9a, OwedTask DEF Through
<1>10. ASSUME NEW o \in CallOutcomes(w), OnTaskRunning(w, o)
       PROVE  Owed(w, j)
  <2>1. pc[w] = "OnTaskRunning" /\ UNCHANGED rowVars /\ UpdateTask(w, "running", o)
    BY <1>10 DEF OnTaskRunning
  <2>2. /\ task[<<j, n>>] \notin Terminal /\ task'[<<j, n>>] \notin Terminal
        /\ \A k \in (1 .. NFiles[j]) \ {n} : task'[<<j, k>>] = task[<<j, k>>]
    BY <1>3, <1>9, <2>1 DEF TaskAt
  <2>3. \/ GoesTo(w, "WriteMilvus", n, err)
        \/ GoesTo(w, "MarkTerminal", n, TRUE)
    BY <1>10, Positions DEF OnTaskRunning
  <2>4. CASE GoesTo(w, "WriteMilvus", n, err)
    BY <1>3, <2>1, <2>2, <2>4, OwedTask DEF TaskAt, Through
  <2> QED
    BY <1>9a, <2>1, <2>2, <2>3, <2>4
<1>11. ASSUME NEW o \in CallOutcomes(w), WriteMilvus(w, o) \/ WriteES(w, o)
       PROVE  Owed(w, j)
  <2>1. /\ pc[w] \in {"WriteMilvus", "WriteES"} /\ UNCHANGED <<rowVars, task>>
        /\ FileFailed(w) \/ FileRan(w) \/ GoesTo(w, "WriteES", n, err)
    BY <1>11, Positions DEF WriteMilvus, WriteES
  <2>2. task[<<j, n>>] \notin Terminal
    BY <1>3, <2>1 DEF TaskAt
  <2> QED
    BY <1>3, <1>4, <1>5, <2>1, <2>2, OwedTask DEF TaskAt, Through
<1>12. ASSUME NEW o \in CallOutcomes(w), TaskSucceeded(w, o)
       PROVE  Owed(w, j)
  <2>1. pc[w] = "TaskSucceeded" /\ UNCHANGED rowVars /\ UpdateTask(w, "succeeded", o)
    BY <1>12 DEF TaskSucceeded
  <2>2. /\ task[<<j, n>>] \notin Terminal
        /\ \A k \in (1 .. NFiles[j]) \ {n} : task'[<<j, k>>] = task[<<j, k>>]
        /\ Updated(w, o) => task'[<<j, n>>] = "succeeded"
    BY <1>3, <1>9, <2>1 DEF TaskAt
  <2>3. \/ GoesTo(w, "CountSuccess", n, err) /\ Updated(w, o)
        \/ GoesTo(w, "MarkTerminal", n, TRUE)
    BY <1>12, Positions DEF TaskSucceeded
  <2>4. CASE GoesTo(w, "CountSuccess", n, err) /\ Updated(w, o)
    BY <1>3, <2>1, <2>2, <2>4, OwedTask DEF TaskAt, Through
  <2> QED
    BY <1>9a, <2>1, <2>2, <2>3, <2>4
<1>13. ASSUME NEW o \in CallOutcomes(w), TaskFailed(w, o)
       PROVE  Owed(w, j)
  <2>1. pc[w] = "TaskFailed" /\ UNCHANGED rowVars /\ UpdateTask(w, "failed", o)
    BY <1>13 DEF TaskFailed
  <2>2. /\ task[<<j, n>>] \notin Terminal
        /\ \A k \in (1 .. NFiles[j]) \ {n} : task'[<<j, k>>] = task[<<j, k>>]
        /\ Updated(w, o) => task'[<<j, n>>] = "failed"
    BY <1>3, <1>9, <2>1 DEF TaskAt
  <2>3. \/ GoesTo(w, "CountFailure", n, err) /\ Updated(w, o)
        \/ GoesTo(w, "MarkTerminal", n, TRUE)
    BY <1>13, Positions DEF TaskFailed
  <2>4. CASE GoesTo(w, "CountFailure", n, err) /\ Updated(w, o)
    BY <1>3, <2>1, <2>2, <2>4, OwedTask DEF TaskAt, Through
  <2> QED
    BY <1>9a, <2>1, <2>2, <2>3, <2>4
<1>14. ASSUME NEW o \in CallOutcomes(w), CountSuccess(w, o)
       PROVE  Owed(w, j)
  <2>1. /\ pc[w] = "CountSuccess" /\ UNCHANGED <<status, totalFiles, failFiles, task>>
        /\ successFiles' = Write(successFiles, j, successFiles[j] + 1, o)
        /\ IF o = "ok" THEN NextFile(w) ELSE Return(w, TRUE)
    BY <1>14 DEF CountSuccess
  <2>2. /\ successFiles'[j] \in {n - 1, n} /\ failFiles'[j] = 0
        /\ o = "ok" => successFiles'[j] = n
        /\ ES => task[<<j, n>>] = "succeeded"
    BY <1>1, <1>3, <2>1 DEF TaskAt, Write, Applied, RecordsOK
  <2>3. /\ Trails(j)'
        /\ o = "ok" => IF n < NFiles[j] THEN Underway(j, n + 1)' ELSE AllCounted(j)'
        /\ GoesTo(w, "MarkTerminal", n, TRUE) => Owed(w, j)
    BY <1>3, <2>1, <2>2, OwedCount
  <2>4. CASE o # "ok"
    BY <2>1, <2>3, <2>4, Positions
  <2>5. CASE o = "ok" /\ n < NFiles[j]
    <3>1. GoesTo(w, "GetPayload", n + 1, err) /\ n + 1 \in 1 .. NFiles[j]
      BY <1>1, <2>1, <2>5, Positions
    <3>2. TaskAt("GetPayload", task'[<<j, n + 1>>])
      BY <1>1, <1>3, <2>1, <2>5, <3>1 DEF Underway, TaskAt
    <3>3. RecordsAt(j, "GetPayload", n + 1, err)'
      BY <1>3, <2>1, <2>3, <2>5, <3>2 DEF RecordsAt, Through
    <3> QED
      BY <1>3, <2>1, <2>3, <3>1, <3>3 DEF Owed
  <2>6. CASE o = "ok" /\ ~(n < NFiles[j])
    <3>1. GoesTo(w, "Flush", n, err)
      BY <2>1, <2>6, Positions
    <3>2. RecordsAt(j, "Flush", n, err)'
      BY <1>3, <2>1, <2>3, <2>6 DEF RecordsAt, Through
    <3> QED
      BY <1>3, <2>1, <2>3, <3>1, <3>2 DEF Owed
  <2> QED
    BY <2>4, <2>5, <2>6
<1>15. ASSUME NEW o \in CallOutcomes(w), CountFailure(w, o)
       PROVE  Owed(w, j)
  <2>1. /\ pc[w] = "CountFailure" /\ UNCHANGED <<status, totalFiles, successFiles, task>>
        /\ failFiles' = Write(failFiles, j, failFiles[j] + 1, o)
        /\ Return(w, TRUE)
    BY <1>15 DEF CountFailure
  <2>2. /\ successFiles'[j] = n - 1 /\ failFiles'[j] \in {0, 1}
        /\ ES => task[<<j, n>>] = "failed"
    BY <1>1, <1>3, <2>1 DEF TaskAt, Write, RecordsOK
  <2>3. GoesTo(w, "MarkTerminal", n, TRUE)
    BY <2>1, Positions
  <2> QED
    BY <1>3, <2>1, <2>2, <2>3, OwedCount
<1>16. ASSUME NEW o \in CallOutcomes(w), Flush(w, o) \/ DelPayload(w, o)
       PROVE  Owed(w, j)
  <2>1. /\ pc[w] \in {"Flush", "DelPayload"} /\ Same(j)
        /\ \/ GoesTo(w, "DelPayload", n, err)
           \/ \E e \in BOOLEAN : GoesTo(w, "MarkTerminal", n, e)
    BY <1>2, <1>16, Positions DEF Flush, DelPayload
  <2>2. /\ RecordsAt(j, "DelPayload", n, err)
        /\ \A e \in BOOLEAN : RecordsAt(j, "MarkTerminal", n, e)
    BY <1>1, <2>1 DEF RecordsAt, Through
  <2> QED
    BY <2>1, <2>2, OwedSame
<1>17. ASSUME NEW o \in CallOutcomes(w), MarkTerminal(w, o)
       PROVE  Owed(w, j)
  <2>1. /\ pc[w] = "MarkTerminal" /\ UNCHANGED <<totalFiles, successFiles, failFiles, task>>
        /\ status'[j] \in {status[j], Verdict(w)}
        /\ GoesTo(w, "SetJobTerminal", n, err)
    BY <1>17, Positions DEF MarkTerminal, Write
  <2>2. status[j] = "running" /\ (~err => AllCounted(j))
    BY <1>1, <2>1 DEF RecordsAt, Through
  <2>3. Trails(j)' /\ (~err => AllCounted(j)')
    BY <2>1, <2>2 DEF JobRecords, Trails, AllCounted
  <2>4. status'[j] = "succeeded" => ~err
    BY <2>1, <2>2 DEF Verdict
  <2>5. RecordsAt(j, "SetJobTerminal", n, err)'
    BY <2>3 DEF RecordsAt, Through
  <2> QED
    BY <2>1, <2>2, <2>3, <2>4, <2>5 DEF Owed, Verdict
<1>18. ASSUME NEW o \in CallOutcomes(w), SetJobTerminal(w, o)
       PROVE  Owed(w, j)
  <2>1. Same(j) /\ job'[w] = None
    BY <1>2, <1>18 DEF SetJobTerminal, TypeOK, WorkersOK
  <2> QED
    BY <2>1, SameRecords DEF Owed, Same, JobRecords
<1> QED
  BY <1>6, <1>7, <1>8, <1>10, <1>11, <1>12, <1>13, <1>14, <1>15, <1>16, <1>17, <1>18
     DEF ProcessJob

\* Only the request of a job moves, and only until it has its answer.
LEMMA RequestMoves ==
  ASSUME TypeOK, [Next]_vars, NEW j \in Jobs
  PROVE  \/ api'[j] = api[j]
         \/ Handle(j) /\ ~Settled(j)
<1> USE DEF TypeOK, HandlersOK
<1>1. ASSUME NEW i \in Jobs, Handle(i), i # j
      PROVE  api'[j] = api[j]
  BY <1>1 DEF Handle, RejectFile, SetPayload, InsertQueued, BulkIndexQueued, HSet, Expire,
              LPush, LPushResent, Continue
<1>2. Handle(j) => ~Settled(j)
  BY DEF Handle, RejectFile, SetPayload, InsertQueued, BulkIndexQueued, HSet, Expire, LPush,
         LPushResent, Settled
<1>3. ASSUME NEW w \in Workers, Consume(w)
      PROVE  UNCHANGED apiVars
  BY <1>3 DEF Consume, ProcessJob, StartDequeue, DequeueNone, Dequeue, SetJobRunning,
              MarkRunning, GetPayload, OnTaskRunning, WriteMilvus, WriteES, TaskSucceeded,
              CountSuccess, TaskFailed, CountFailure, Flush, DelPayload, MarkTerminal,
              SetJobTerminal
<1>4. CASE Environment \/ UNCHANGED vars
  BY <1>4 DEF Environment, ExpirePayload, ExpireHash, Shutdown, Restart, Crash, Started,
              DequeueLost, vars, apiVars
<1> QED
  BY <1>1, <1>2, <1>3, <1>4 DEF Next, apiVars

\* A step leaves the list, pops its head, or pushes the job of a pending request.
LEMMA ListMoves ==
  ASSUME "resend" \notin Faults, [Next]_vars, TypeOK
  PROVE  \/ list' = list
         \/ list # <<>> /\ list' = Tail(list)
         \/ \E j \in Jobs : ~Settled(j) /\ list' = Append(list, j)
<1>0. list \in Seq(Jobs)
  BY DEF TypeOK, RecordsOK
<1>1. ASSUME NEW j \in Jobs, Handle(j), list' # list
      PROVE  ~Settled(j) /\ list' = Append(list, j)
  <2>1. PICK o \in Outcomes : LPush(j, o)
    BY <1>1 DEF Handle, RejectFile, SetPayload, InsertQueued, BulkIndexQueued, HSet, Expire,
                LPushResent, redisVars
  <2> QED
    BY <1>0, <1>1, <2>1 DEF LPush, Settled
<1>2. ASSUME NEW w \in Workers, Consume(w), list' # list
      PROVE  list # <<>> /\ list' = Tail(list)
  <2>1. Dequeue(w)
    BY <1>2 DEF Consume, ProcessJob, StartDequeue, DequeueNone, SetJobRunning,
              MarkRunning, GetPayload, OnTaskRunning, WriteMilvus, WriteES, TaskSucceeded,
              CountSuccess, TaskFailed, CountFailure, Flush, DelPayload, MarkTerminal,
              SetJobTerminal, redisVars
  <2> QED
    BY <2>1 DEF Dequeue
<1>3. CASE Environment \/ UNCHANGED vars
  BY <1>3 DEF Environment, ExpirePayload, ExpireHash, Shutdown, Restart, Crash, Started,
              DequeueLost, vars, redisVars
<1> QED
  BY <1>1, <1>2, <1>3 DEF Next

\* A job that has stopped waiting never waits again.
LEMMA WaitingEnds ==
  ASSUME "resend" \notin Faults, TypeOK, [Next]_vars, NEW j \in Jobs, Waiting(j)'
  PROVE  Waiting(j)
<1>1. CASE ~Settled(j)'
  BY <1>1, RequestMoves DEF Settled, Waiting
<1>2. ASSUME NEW m \in DOMAIN list', list'[m] = j
      PROVE  Waiting(j)
  <2>1. list \in Seq(Jobs)
    BY DEF TypeOK, RecordsOK
  <2>2. CASE list' = list
    BY <1>2, <2>2 DEF Waiting
  <2>3. CASE list # <<>> /\ list' = Tail(list)
    BY <1>2, <2>1, <2>3, Popped DEF Waiting
  <2>4. CASE \E i \in Jobs : ~Settled(i) /\ list' = Append(list, i)
    BY <1>2, <2>1, <2>4, Pushed DEF Waiting
  <2> QED
    BY <2>2, <2>3, <2>4, ListMoves
<1> QED
  BY <1>1, <1>2 DEF Waiting

LEMMA OwedHolds ==
  ASSUME TypeOK, RecordsInv, NEW w \in Workers, ProcessJob(w)
  PROVE  job[w] \in Jobs /\ job[w] # None /\ Owed(w, job[w])
<1>1. job[w] \in Jobs /\ job[w] # None
  BY WithinProcessJob, Holding
<1>2. PICK j \in Jobs : j = job[w]
  BY <1>1
<1>3. JobRecords(j) /\ RecordsOf(w)
  BY <1>1, <1>2 DEF RecordsInv
<1>4. Owed(w, j)
  BY <1>2, <1>3, OwedWithoutMeta, OwedWithMeta
<1> QED
  BY <1>1, <1>2, <1>4

LEMMA RecordsInit == Init => RecordsInv
<1> SUFFICES ASSUME Init PROVE RecordsInv
  OBVIOUS
<1>1. ASSUME NEW j \in Jobs
      PROVE  Untouched(j) /\ status[j] = "absent"
  BY FileRefsMember DEF Init, Untouched
<1>2. \A w \in Workers : job[w] = None
  BY DEF Init
<1> QED
  BY <1>1, <1>2, UntouchedTrails DEF RecordsInv, JobRecords

\* Under single delivery every job's records keep step with its one goroutine.
LEMMA RecordsStep ==
  ASSUME "resend" \notin Faults, TypeOK, SingleDelivery, RecordsInv, [Next]_vars
  PROVE  RecordsInv'
<1>1. ASSUME NEW j \in Jobs
      PROVE  JobRecords(j)'
  <2>0. JobRecords(j) /\ (Waiting(j)' => Waiting(j))
    BY WaitingEnds DEF RecordsInv
  <2>1. CASE Handle(j) /\ ~Settled(j)
    BY <2>0, <2>1, RecordsHandle
  <2>2. CASE api'[j] = api[j] /\ Same(j)
    BY <2>0, <2>2, SameRecords DEF JobRecords, Same
  <2>3. ASSUME api'[j] = api[j], NEW w \in Workers, job[w] = j, ProcessJob(w)
        PROVE  JobRecords(j)'
    <3>1. Owed(w, j) /\ j # None
      BY <2>3, OwedHolds
    <3>2. ~Waiting(j)
      BY <2>3, <3>1 DEF SingleDelivery, Waiting, Settled
    <3> QED
      BY <2>0, <2>3, <3>1, <3>2 DEF Owed, JobRecords
  <2> QED
    BY <2>1, <2>2, <2>3, RecordsTouched, RequestMoves
<1>2. ASSUME NEW w \in Workers, job'[w] # None, ProcessJob(w)
      PROVE  RecordsOf(w)'
  <2>1. PICK j \in Jobs : j = job[w] /\ Owed(w, j)
    BY <1>2, OwedHolds
  <2>2. PICK call, err : \E n \in 1 .. NFiles[j] :
          GoesTo(w, call, n, err) /\ RecordsAt(j, call, n, err)'
    BY <1>2, <2>1 DEF Owed
  <2> QED
    BY <2>1, <2>2 DEF GoesTo, RecordsOf
<1>3. ASSUME NEW w \in Workers, job'[w] # None,
             pc'[w] = pc[w] /\ job'[w] = job[w] /\ file'[w] = file[w] /\ failed'[w] = failed[w]
      PROVE  RecordsOf(w)'
  <2>1. /\ job[w] \in Jobs /\ file[w] \in 1 .. NFiles[job[w]]
        /\ RecordsOf(w) /\ Settled(job[w])
    BY <1>3, Holding DEF RecordsInv, SingleDelivery, Settled
  <2>2. PICK j, n, call, err :
          /\ j \in Jobs /\ n \in 1 .. NFiles[j]
          /\ j = job[w] /\ n = file[w] /\ call = pc[w] /\ err = failed[w]
          /\ RecordsAt(j, call, n, err)
    BY <2>1 DEF RecordsOf
  <2>3. CASE Same(j)
    <3>1. RecordsAt(j, call, n, err)'
      BY <2>2, <2>3, SameRecords
    <3> QED
      BY <1>3, <2>2, <3>1 DEF RecordsOf
  <2>4. ASSUME NEW v \in Workers, job[v] = j, ProcessJob(v)
        PROVE  v = w
    BY <1>3, <2>2, <2>4 DEF SingleDelivery
  <2> QED
    BY <1>2, <1>3, <2>1, <2>2, <2>3, <2>4, RecordsTouched
<1>4. ASSUME NEW w \in Workers, job'[w] # None, Dequeue(w)
      PROVE  RecordsOf(w)'
  <2>1. /\ list # <<>> /\ job'[w] = Head(list) /\ file'[w] = 1 /\ pc'[w] = "SetJobRunning"
        /\ UNCHANGED <<rowVars, task>>
    BY <1>4 DEF Dequeue, At, Goto, TypeOK, WorkersOK
  <2>2. list \in Seq(Jobs)
    BY DEF TypeOK, RecordsOK
  <2>3. Head(list) = list[1] /\ 1 \in DOMAIN list
    BY <2>1, <2>2, Popped
  <2>4. PICK j \in Jobs : j = Head(list) /\ Waiting(j)
    BY <2>2, <2>3 DEF Waiting
  <2>5. PICK err : err = failed'[w]
    OBVIOUS
  <2>6. Untouched(j)'
    BY <2>1, <2>4 DEF RecordsInv, JobRecords, Untouched, rowVars
  <2>7. RecordsAt(j, "SetJobRunning", 1, err)'
    BY <2>6 DEF RecordsAt, MetaCalls, FileCalls, EndCalls, Through
  <2> QED
    BY <2>1, <2>4, <2>5, <2>7 DEF RecordsOf
<1>5. ASSUME NEW w \in Workers, job'[w] # None
      PROVE  RecordsOf(w)'
  <2>1. ASSUME StartDequeue(w) \/ DequeueNone(w)
        PROVE  FALSE
    BY <1>5, <2>1 DEF StartDequeue, DequeueNone, At, workVars, TypeOK, WorkersOK
  <2> QED
    BY <1>2, <1>3, <1>4, <1>5, <2>1, OthersStay DEF Consume
<1> QED
  BY <1>1, <1>5 DEF RecordsInv

\* The inductive invariant of all that follows.
LEMMA RecordsHold ==
  ASSUME "resend" \notin Faults
  PROVE  Spec => [](TypeOK /\ SingleDelivery /\ RecordsInv)
<1>1. Init => TypeOK /\ SingleDelivery /\ RecordsInv
  BY TypeInit, RecordsInit DEF Init, SingleDelivery
<1>2. TypeOK /\ SingleDelivery /\ RecordsInv /\ [Next]_vars
        => (TypeOK /\ SingleDelivery /\ RecordsInv)'
  BY TypeStep, SingleStep, RecordsStep
<1> QED
  BY <1>1, <1>2, PTL DEF Spec

\* However a job's steps fail, its counters trail its task documents by one file
\* at most, and in order.
THEOREM CountersTrailTasksHolds ==
  ASSUME "resend" \notin Faults
  PROVE  Spec => []CountersTrailTasks
<1>1. RecordsInv => CountersTrailTasks
  <2> SUFFICES ASSUME RecordsInv PROVE CountersTrailTasks
    OBVIOUS
  <2>1. \A j \in Jobs : Trails(j)
    BY DEF RecordsInv, JobRecords
  <2>2. ASSUME ES, NEW r \in FileRefs
        PROVE  /\ r[2] <= successFiles[r[1]] => task[r] = "succeeded"
               /\ r[2] > successFiles[r[1]] + 1 => task[r] \in {"absent", "queued"}
               /\ r[2] = successFiles[r[1]] + 1 /\ failFiles[r[1]] > 0 => task[r] = "failed"
    BY <2>1, <2>2, FileRefsPair DEF Trails
  <2> QED
    BY <2>1, <2>2 DEF CountersTrailTasks, Trails
<1> QED
  BY <1>1, RecordsHold, PTL

\* A row that says succeeded has counted every file and no failure, and each of
\* the job's task documents says succeeded.
THEOREM SucceededIsCountedHolds ==
  ASSUME "resend" \notin Faults
  PROVE  Spec => []SucceededIsCounted
<1>1. RecordsInv => SucceededIsCounted
  <2> SUFFICES ASSUME RecordsInv, NEW j \in Jobs, status[j] = "succeeded"
               PROVE  /\ successFiles[j] = totalFiles[j] /\ failFiles[j] = 0
                      /\ ES => \A r \in RefsOf(j) : task[r] = "succeeded"
    BY DEF SucceededIsCounted
  <2>1. AllCounted(j) /\ totalFiles[j] = NFiles[j]
    BY DEF RecordsInv, JobRecords
  <2> QED
    BY <2>1 DEF AllCounted, RefsOf
<1> QED
  BY <1>1, RecordsHold, PTL

\* No step changes what is final in the records of a job.
LEMMA FinalStep ==
  ASSUME TypeOK, RecordsInv, [Next]_vars, NEW j \in Jobs
  PROVE  /\ status[j] \in Terminal =>
              /\ status'[j] = status[j]
              /\ successFiles'[j] = successFiles[j]
              /\ failFiles'[j] = failFiles[j]
         /\ \A k \in 1 .. NFiles[j] :
              task[<<j, k>>] \in Terminal => task'[<<j, k>>] = task[<<j, k>>]
<1>1. CASE Same(j)
  BY <1>1 DEF Same
<1>2. CASE ~Settled(j)
  BY <1>2 DEF RecordsInv, JobRecords, Waiting, Untouched
<1>3. ASSUME NEW w \in Workers, job[w] = j, ProcessJob(w)
      PROVE  Owed(w, j)
  BY <1>3, OwedHolds
<1> QED
  BY <1>1, <1>2, <1>3, RecordsTouched DEF Owed, Same

\* Once the row of a job is terminal neither its status nor its counters change,
\* whatever is still running, is restarted or is told to stop.
THEOREM RowFinalHolds ==
  ASSUME "resend" \notin Faults
  PROVE  Spec => RowFinal
<1>1. TypeOK /\ RecordsInv /\ [Next]_vars =>
        [\A j \in Jobs : status[j] \in Terminal =>
           /\ status'[j] = status[j]
           /\ successFiles'[j] = successFiles[j]
           /\ failFiles'[j] = failFiles[j]]_vars
  BY FinalStep
<1> QED
  BY <1>1, RecordsHold, PTL DEF RowFinal, Spec

\* The outcome in a task document is never overwritten, not even by a later file's
\* failure.
THEOREM TaskFinalHolds ==
  ASSUME "resend" \notin Faults
  PROVE  Spec => TaskFinal
<1>1. TypeOK /\ RecordsInv /\ [Next]_vars =>
        [\A r \in FileRefs : task[r] \in Terminal => task'[r] = task[r]]_vars
  BY FinalStep, FileRefsPair
<1> QED
  BY <1>1, RecordsHold, PTL DEF TaskFinal, Spec

-----------------------------------------------------------------------------
(***************************************************************************)
(* The refinement of JobLifecycle.  It rests on all of the above and on    *)
(* MilvusStarted: what a Flush seals was written for jobs that had started *)
(* by then, be it for others than the one whose goroutine flushes.         *)
(***************************************************************************)
Begun(j) == status[j] \notin {"absent", "queued"}

MilvusStarted == \A c \in Chunks : milvus[c] # None => Begun(milvus[c][1])

LifecycleInv == IndexInv /\ SingleDelivery /\ RecordsInv /\ MilvusStarted

\* The calls that write a job's status, and what it says by then.
LEMMA StatusMoves ==
  ASSUME WorkerMeta, TypeOK, RecordsInv, [Next]_vars, status' # status
  PROVE  /\ UNCHANGED indexVars
         /\ \E j \in Jobs :
              \/ status[j] = "absent" /\ status' = [status EXCEPT ![j] = "queued"]
              \/ status[j] = "queued" /\ status' = [status EXCEPT ![j] = "running"]
              \/ /\ status[j] = "running"
                 /\ \E w \in Workers : /\ job[w] = j /\ pc[w] = "MarkTerminal"
                                       /\ status' = [status EXCEPT ![j] = Verdict(w)]
<1>1. ASSUME NEW j \in Jobs, Handle(j)
      PROVE  /\ status[j] = "absent" /\ status' = [status EXCEPT ![j] = "queued"]
             /\ UNCHANGED indexVars
  <2>1. PICK o \in Outcomes : InsertQueued(j, o)
    BY <1>1 DEF Handle, RejectFile, SetPayload, BulkIndexQueued, HSet, Expire, LPush,
                LPushResent, rowVars
  <2> QED
    BY <2>1 DEF InsertQueued, Write, RecordsInv, JobRecords
<1>2. ASSUME NEW w \in Workers, Consume(w)
      PROVE  /\ job[w] \in Jobs /\ UNCHANGED indexVars
             /\ \/ /\ status[job[w]] = "queued"
                   /\ status' = [status EXCEPT ![job[w]] = "running"]
                \/ /\ status[job[w]] = "running" /\ pc[w] = "MarkTerminal"
                   /\ status' = [status EXCEPT ![job[w]] = Verdict(w)]
  <2>1. PICK o \in CallOutcomes(w) : MarkRunning(w, o) \/ MarkTerminal(w, o)
    BY <1>2 DEF Consume, ProcessJob, StartDequeue, DequeueNone, Dequeue, SetJobRunning,
                GetPayload, OnTaskRunning, WriteMilvus, WriteES, TaskSucceeded, CountSuccess,
                TaskFailed, CountFailure, Flush, DelPayload, SetJobTerminal, rowVars
  <2>2. pc[w] \in {"MarkRunning", "MarkTerminal"}
    BY <2>1 DEF MarkRunning, MarkTerminal, At
  <2>3. job[w] \in Jobs /\ RecordsOf(w)
    BY <2>2, Holding DEF RecordsInv
  <2>4. CASE MarkRunning(w, o)
    <3>1. status[job[w]] \in {"absent", "queued"}
      BY <2>3, <2>4 DEF MarkRunning, At, RecordsOf, RecordsAt, StartCalls, Untouched
    <3> QED
      BY <2>3, <2>4, <3>1 DEF MarkRunning, Write
  <2>5. CASE MarkTerminal(w, o)
    <3>1. status[job[w]] = "running"
      BY <2>3, <2>5 DEF MarkTerminal, At, RecordsOf, RecordsAt, EndCalls
    <3> QED
      BY <2>3, <2>5, <3>1 DEF MarkTerminal, At, Write
  <2> QED
    BY <2>1, <2>4, <2>5
<1>3. CASE Environment \/ UNCHANGED vars
  BY <1>3 DEF Environment, ExpirePayload, ExpireHash, Shutdown, Restart, Crash, Started,
              DequeueLost, vars, rowVars
<1> QED
  BY <1>1, <1>2, <1>3 DEF Next

\* A job that has begun has begun for good.
LEMMA BegunStays ==
  ASSUME WorkerMeta, TypeOK, RecordsInv, [Next]_vars, NEW j \in Jobs, Begun(j)
  PROVE  Begun(j)'
<1>1. CASE status' = status
  BY <1>1 DEF Begun
<1>2. CASE status' # status
  BY <1>2, StatusMoves DEF Begun, Verdict, TypeOK, RecordsOK
<1> QED
  BY <1>1, <1>2

LEMMA MilvusStartedStep ==
  ASSUME WorkerMeta, TypeOK, RecordsInv, MilvusStarted, [Next]_vars
  PROVE  MilvusStarted'
<1> SUFFICES ASSUME NEW c \in Chunks, milvus'[c] # None
             PROVE  Begun(milvus[c][1])'
  BY DEF MilvusStarted
<1>1. CASE milvus'[c] = milvus[c]
  <2>1. milvus[c][1] \in Jobs /\ Begun(milvus[c][1])
    BY <1>1, FileRefsPair DEF MilvusStarted, TypeOK, IndexOK
  <2>2. PICK j \in Jobs : j = milvus[c][1]
    BY <2>1
  <2>3. Begun(j)'
    BY <2>1, <2>2, BegunStays
  <2> QED
    BY <1>1, <2>2, <2>3 DEF Begun
<1>2. CASE milvus'[c] # milvus[c]
  <2>1. PICK w \in Workers : \E o \in CallOutcomes(w) : WriteMilvus(w, o)
    BY <1>2, IndexChanges DEF indexVars, WriteES, Flush
  <2>2. pc[w] = "WriteMilvus" /\ status' = status
    BY <2>1 DEF WriteMilvus, At, rowVars
  <2>3. PICK j \in Jobs : j = job[w] /\ Ref(w) = <<j, file[w]>> /\ RecordsOf(w)
    BY <2>2, Holding DEF RecordsInv
  <2>4. milvus'[c][1] = j
    BY <1>2, <2>1, <2>3 DEF WriteMilvus, Write, TypeOK, IndexOK
  <2>5. Begun(j)'
    BY <2>2, <2>3 DEF RecordsOf, RecordsAt, FileCalls, Begun
  <2> QED
    BY <2>4, <2>5 DEF Begun
<1> QED
  BY <1>1, <1>2

\* The abstract state: a row that is not there is a job not submitted, and what
\* is sealed is durable.
Phase   == [j \in Jobs |-> IF status[j] = "absent" THEN "none" ELSE status[j]]
Durable == {c \in Chunks : sealed[c] # None}
Writes  == [j \in Jobs |-> {ChunkOf[r] : r \in RefsOf(j)}]

\* A write of the status is a step of one job; the durable chunks stay.
LEMMA StatusRefines ==
  ASSUME WorkerMeta, LifecycleInv, [Next]_vars, status' # status
  PROVE  Lifecycle!Next
<1>1. TypeOK /\ RecordsInv /\ WorkIsWritten
  BY DEF LifecycleInv, IndexInv
<1>2. Durable' = Durable
  BY <1>1, StatusMoves DEF Durable, indexVars
<1>3. status \in [Jobs -> JobStatus \cup {"absent"}]
  BY <1>1 DEF TypeOK, RecordsOK
<1>4. \A j \in Jobs : Phase[j] = IF status[j] = "absent" THEN "none" ELSE status[j]
  BY DEF Phase
<1>5. ASSUME NEW j \in Jobs, NEW v \in JobStatus, status' = [status EXCEPT ![j] = v]
      PROVE  Phase' = [Phase EXCEPT ![j] = v]
  BY <1>3, <1>5 DEF Phase
<1>6. ASSUME NEW j \in Jobs, status[j] = "absent", status' = [status EXCEPT ![j] = "queued"]
      PROVE  Lifecycle!Submit(j)
  BY <1>2, <1>4, <1>5, <1>6 DEF Lifecycle!Submit, Phase, Durable
<1>7. ASSUME NEW j \in Jobs, status[j] = "queued", status' = [status EXCEPT ![j] = "running"]
      PROVE  Lifecycle!Start(j)
  BY <1>2, <1>4, <1>5, <1>7 DEF Lifecycle!Start, Phase, Durable
<1>8. ASSUME NEW w \in Workers, NEW j \in Jobs, job[w] = j, pc[w] = "MarkTerminal",
             status[j] = "running", status' = [status EXCEPT ![j] = Verdict(w)]
      PROVE  Lifecycle!Succeed(j) \/ Lifecycle!Fail(j)
  <2>1. CASE failed[w]
    BY <1>2, <1>4, <1>5, <1>8, <2>1 DEF Lifecycle!Fail, Phase, Durable, Verdict
  <2>2. CASE ~failed[w]
    <3>1. \A r \in RefsOf(j) : ChunkOf[r] \in Durable
      BY <1>1, <1>8, <2>2, RefsOfMember, ChunkOfAssumption, NoneAssumption
         DEF WorkIsWritten, Passed, Succeeding, Indexed, Stored, Durable
    <3>2. Writes[j] \subseteq Durable
      BY <3>1 DEF Writes
    <3> QED
      BY <1>2, <1>4, <1>5, <1>8, <2>2, <3>2
         DEF Lifecycle!Succeed, Phase, Durable, Writes, Verdict
  <2> QED
    BY <2>1, <2>2
<1> QED
  BY <1>1, <1>6, <1>7, <1>8, StatusMoves DEF Lifecycle!Next

\* A Flush is Persist: what it seals was written for jobs that have begun.
LEMMA SealRefines ==
  ASSUME WorkerMeta, LifecycleInv, [Next]_vars, status' = status, sealed' # sealed
  PROVE  Lifecycle!Persist
<1>1. TypeOK /\ SealedIsWritten /\ MilvusStarted
  BY DEF LifecycleInv, IndexInv, WorkIsWritten
<1>2. sealed' = milvus
  BY IndexChanges DEF indexVars, WriteMilvus, WriteES, Flush
<1>3. Durable \subseteq Durable' /\ Phase' = Phase
  BY <1>1, StoresGrow DEF Durable, Phase
<1>4. ASSUME NEW c \in Chunks, milvus[c] # None
      PROVE  \E j \in Jobs : Phase[j] \notin {"none", "queued"} /\ c \in Writes[j]
  <2>1. PICK r \in FileRefs : r = milvus[c] /\ ChunkOf[r] = c
    BY <1>1, <1>4 DEF TypeOK, IndexOK, Holders
  <2>2. r[1] \in Jobs /\ r \in RefsOf(r[1]) /\ Begun(r[1])
    BY <1>1, <1>4, <2>1, FileRefsPair, RefsOfMember DEF MilvusStarted
  <2>3. c \in Writes[r[1]]
    BY <2>1, <2>2 DEF Writes
  <2>4. Phase[r[1]] \notin {"none", "queued"}
    BY <1>1, <2>2 DEF Phase, Begun, TypeOK, RecordsOK
  <2> QED
    BY <2>2, <2>3, <2>4
<1>5. Durable' \subseteq
        UNION {Writes[j] : j \in {i \in Jobs : Phase[i] \notin {"none", "queued"}}}
  BY <1>2, <1>4 DEF Durable
<1> QED
  BY <1>3, <1>5 DEF Lifecycle!Persist, Phase, Durable, Writes

LEMMA LifecycleStep ==
  ASSUME "resend" \notin Faults, WorkerMeta, LifecycleInv, [Next]_vars
  PROVE  LifecycleInv' /\ [Lifecycle!Next]_(Lifecycle!vars)
<1>1. LifecycleInv'
  BY IndexStep, SingleStep, RecordsStep, MilvusStartedStep DEF LifecycleInv, IndexInv
<1>2. CASE status' # status
  BY <1>1, <1>2, StatusRefines
<1>3. CASE status' = status /\ sealed' # sealed
  BY <1>1, <1>3, SealRefines DEF Lifecycle!Next
<1>4. CASE UNCHANGED <<status, sealed>>
  BY <1>1, <1>4 DEF Lifecycle!vars
<1> QED
  BY <1>2, <1>3, <1>4

LEMMA LifecycleInit == Init => LifecycleInv /\ Lifecycle!Init
<1> SUFFICES ASSUME Init PROVE LifecycleInv /\ Lifecycle!Init
  OBVIOUS
<1>1. SingleDelivery /\ MilvusStarted
  BY DEF Init, SingleDelivery, MilvusStarted
<1>2. Lifecycle!Init
  BY DEF Init, Lifecycle!Init
<1> QED
  BY <1>1, <1>2, IndexInit, RecordsInit DEF LifecycleInv

\* The row and the sealed chunks, read together, keep the promise of JobLifecycle:
\* with the importer's metadata on, and a queue that delivers once, no fault makes
\* a job skip a status, turn back, or say succeeded before its chunks are durable.
THEOREM KeepsLifecycleHolds ==
  ASSUME "resend" \notin Faults, WorkerMeta
  PROVE  Spec => KeepsLifecycle
BY LifecycleInit, LifecycleStep, PTL DEF Spec, KeepsLifecycle, Lifecycle!Spec

=============================================================================
