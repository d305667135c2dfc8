---------------------------- MODULE ImporterLock ----------------------------
(***************************************************************************)
(* The optional singleton lock of the importer: a Redis key with an expiry *)
(* that a process sets at its start, extends from a ticker while it runs   *)
(* and deletes when it returns.  A process that fails to extend the key    *)
(* keeps consuming.  Time is discrete: a step of Elapse is one unit.       *)
(***************************************************************************)
EXTENDS Integers

CONSTANTS
  Procs,      \* one per start of cmd/importer: a token is fresh
  TTL,        \* singletonLockTTL, in units of time
  MaxMisses,  \* bound on the refreshes of a process that fail in a row
  Faults,     \* what the environment may do, see FaultKinds
  None

\* "err": SETNX, or the script that releases the lock, fails before its effect.
\* "lost": SETNX takes effect, its reply does not arrive, and the client reports
\* an error or sends it again and finds the key set.  "crash" kills a process.
\* "stall": the goroutine that refreshes the lock, or its process, is late.
FaultKinds == {"err", "lost", "crash", "stall"}

ASSUME TTLAssumption   == TTL \in Nat /\ TTL >= 3
ASSUME FaultAssumption == MaxMisses \in Nat /\ Faults \subseteq FaultKinds
ASSUME TokenAssumption == None \notin Procs

VARIABLES
  key,     \* the token under the lock's key
  ttl,     \* the time left before the key expires
  pc,      \* where runWorker is
  due,     \* the time left before the ticker of each process fires
  misses   \* how many refreshes in a row have failed

vars == <<key, ttl, pc, due, misses>>

Holding   == {"starting", "consuming"}
LockCalls == {"SetNX", "starting", "consuming", "release", "exited"}

\* Mutated: the lock is extended twice in its life.
PeriodTooLong == TTL \div 2

Period == TTL \div 3

Init ==
  /\ key = None
  /\ ttl = 0
  /\ pc = [p \in Procs |-> "SetNX"]
  /\ due = [p \in Procs |-> 0]
  /\ misses = [p \in Procs |-> 0]

Outcomes == {"ok"} \cup (Faults \cap {"err", "lost"})

Goto(p, call) == pc' = [pc EXCEPT ![p] = call]

\* Mutated: the key is set without an expiry.
AcquireForEver(p, o) ==
  /\ pc[p] = "SetNX"
  /\ key' = IF key = None /\ o # "err" THEN p ELSE key
  /\ UNCHANGED <<ttl, misses>>
  /\ IF key = None /\ o = "ok"
     THEN Goto(p, "starting") /\ due' = [due EXCEPT ![p] = Period]
     ELSE Goto(p, "exited") /\ UNCHANGED due

\* SETNX with an expiry.  Finding the key set, or an error, is fatal.
Acquire(p, o) ==
  /\ pc[p] = "SetNX"
  /\ LET set == key = None /\ o # "err"
     IN  /\ key' = IF set THEN p ELSE key
         /\ ttl' = IF set THEN TTL ELSE ttl
  /\ IF key = None /\ o = "ok"
     THEN Goto(p, "starting") /\ due' = [due EXCEPT ![p] = Period]
     ELSE Goto(p, "exited") /\ UNCHANGED due
  /\ UNCHANGED misses

\* Milvus, Elasticsearch, S3 and MySQL are there: the goroutines start.
Start(p) ==
  /\ pc[p] = "starting"
  /\ Goto(p, "consuming")
  /\ UNCHANGED <<key, ttl, due, misses>>

\* One of them is not: log.Fatalf ends the process, and no deferred call runs.
StartFails(p) ==
  /\ pc[p] = "starting"
  /\ Goto(p, "exited")
  /\ UNCHANGED <<key, ttl, due, misses>>

\* The ticker fires: a script extends the key if it still has this token.  Its
\* error is ignored.
Refresh(p, ok) ==
  /\ pc[p] \in Holding
  /\ due[p] = 0
  /\ ok \/ misses[p] < MaxMisses
  /\ ttl' = IF ok /\ key = p THEN TTL ELSE ttl
  /\ due' = [due EXCEPT ![p] = Period]
  /\ misses' = [misses EXCEPT ![p] = IF ok THEN 0 ELSE @ + 1]
  /\ UNCHANGED <<key, pc>>

\* A signal has come and the consumer goroutines have returned: the ticker is
\* stopped, and its goroutine waited for, before the key is deleted.
Return(p) ==
  /\ pc[p] = "consuming"
  /\ Goto(p, "release")
  /\ UNCHANGED <<key, ttl, due, misses>>

\* Mutated: the script does not compare the token.
ReleaseAny(p, o) ==
  /\ pc[p] = "release"
  /\ key' = IF o # "err" THEN None ELSE key
  /\ ttl' = IF o # "err" THEN 0 ELSE ttl
  /\ Goto(p, "exited")
  /\ UNCHANGED <<due, misses>>

\* A script deletes the key if it still has this token.
Release(p, o) ==
  /\ pc[p] = "release"
  /\ LET deleted == key = p /\ o # "err"
     IN  /\ key' = IF deleted THEN None ELSE key
         /\ ttl' = IF deleted THEN 0 ELSE ttl
  /\ Goto(p, "exited")
  /\ UNCHANGED <<due, misses>>

Crash(p) ==
  /\ "crash" \in Faults
  /\ pc[p] \in Holding \cup {"release"}
  /\ Goto(p, "exited")
  /\ UNCHANGED <<key, ttl, due, misses>>

\* A unit of time.  Short of a stall, a ticker that is due fires first.
Elapse ==
  /\ "stall" \in Faults \/ \A p \in Procs : pc[p] \in Holding => due[p] > 0
  /\ ttl' = IF ttl > 0 THEN ttl - 1 ELSE 0
  /\ key' = IF ttl = 1 THEN None ELSE key
  /\ due' = [p \in Procs |-> IF pc[p] \in Holding /\ due[p] > 0 THEN due[p] - 1 ELSE due[p]]
  /\ UNCHANGED <<pc, misses>>

RunWorker(p) ==
  \/ \E o \in Outcomes : Acquire(p, o)
  \/ Start(p)
  \/ StartFails(p)
  \/ \E ok \in BOOLEAN : Refresh(p, ok)
  \/ Return(p)
  \/ \E o \in Outcomes : Release(p, o)

Next ==
  \/ \E p \in Procs : RunWorker(p)
  \/ \E p \in Procs : Crash(p)
  \/ Elapse

Spec == Init /\ [][Next]_vars

\* Time passes, and the goroutine behind a ticker runs.
Fairness ==
  /\ WF_vars(Elapse)
  /\ \A p \in Procs : WF_vars(\E ok \in BOOLEAN : Refresh(p, ok))

FairSpec == Spec /\ Fairness

-----------------------------------------------------------------------------
TypeOK ==
  /\ key \in Procs \cup {None}
  /\ ttl \in 0 .. TTL
  /\ key = None <=> ttl = 0
  /\ pc \in [Procs -> LockCalls]
  /\ due \in [Procs -> 0 .. Period]
  /\ misses \in [Procs -> 0 .. MaxMisses]

\* "For one queue only one importer process is permitted": no two processes are
\* past the lock at the same time.  Holds while no two refreshes in a row fail.
SingleImporter ==
  \A p, q \in Procs : pc[p] \in Holding /\ pc[q] \in Holding => p = q

\* A process that has lost its lease to another neither deletes nor extends the
\* lock of that other one: the key goes by its expiry or its owner's hand, and
\* only its owner is given more time.
OwnLockStep ==
  /\ key' # key /\ key # None => ttl = 1 \/ (key' = None /\ pc[key] = "release")
  /\ ttl' > ttl => /\ key' # None
                   /\ pc[key'] \in Holding \cup {"SetNX"}
                   /\ \A p \in Procs \ {key'} : due'[p] = due[p] /\ pc'[p] = pc[p]

OwnLockOnly == [][OwnLockStep]_vars

\* A lock whose owner has exited, in whatever way, is free in the end: the next
\* importer that is started can have it.
LockFreed == \A p \in Procs : key = p /\ pc[p] = "exited" ~> key # p
=============================================================================
