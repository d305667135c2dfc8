---------------------------- MODULE JobLifecycle ----------------------------
(***************************************************************************)
(* What the ingestion pipeline promises to whoever reads ingest_job: a job *)
(* is queued, then running, then succeeded or failed, once and for all;    *)
(* its chunks become searchable only after it has started; and when it     *)
(* says succeeded they all are, for good.                                  *)
(***************************************************************************)
EXTENDS Naturals

CONSTANTS
  Jobs,
  Chunks,
  ChunksOf    \* the set of chunk ids that each job writes

VARIABLES
  phase,    \* the job's status, "none" before it is submitted
  durable   \* the chunk ids that are stored for good

vars == <<phase, durable>>

Phases == {"none", "queued", "running", "succeeded", "failed"}

Init ==
  /\ phase = [j \in Jobs |-> "none"]
  /\ durable = {}

Submit(j) ==
  /\ phase[j] = "none"
  /\ phase' = [phase EXCEPT ![j] = "queued"]
  /\ UNCHANGED durable

Start(j) ==
  /\ phase[j] = "queued"
  /\ phase' = [phase EXCEPT ![j] = "running"]
  /\ UNCHANGED durable

\* Jobs share one index: any of them may make durable what others have written.
Persist ==
  /\ durable' \in SUBSET UNION {ChunksOf[j] : j \in
                      {i \in Jobs : phase[i] \notin {"none", "queued"}}}
  /\ durable \subseteq durable'
  /\ UNCHANGED phase

Succeed(j) ==
  /\ phase[j] = "running"
  /\ ChunksOf[j] \subseteq durable
  /\ phase' = [phase EXCEPT ![j] = "succeeded"]
  /\ UNCHANGED durable

Fail(j) ==
  /\ phase[j] = "running"
  /\ phase' = [phase EXCEPT ![j] = "failed"]
  /\ UNCHANGED durable

Next ==
  \/ \E j \in Jobs : Submit(j) \/ Start(j) \/ Succeed(j) \/ Fail(j)
  \/ Persist

Spec == Init /\ [][Next]_vars
=============================================================================
