------------------------- MODULE ImporterLockProofs -------------------------
(***************************************************************************)
(* Proofs about ImporterLock, for any number of starts of the importer and *)
(* any TTL.                                                                *)
(***************************************************************************)
EXTENDS ImporterLock, TLAPS

USE DEF Holding, LockCalls

\* The lock outlives two periods of the ticker, and the third as well.
LEMMA PeriodFits == Period \in Nat /\ Period >= 1 /\ 3 * Period <= TTL
BY TTLAssumption DEF Period

LEMMA TypeInit == Init => TypeOK
BY TTLAssumption, FaultAssumption, TokenAssumption, PeriodFits DEF Init, TypeOK

LEMMA TypeStep == TypeOK /\ [Next]_vars => TypeOK'
<1> SUFFICES ASSUME TypeOK, [Next]_vars
             PROVE  TypeOK'
  OBVIOUS
<1> USE TTLAssumption, FaultAssumption, TokenAssumption, PeriodFits DEF TypeOK, Goto
<1> HIDE DEF Holding
<1>1. ASSUME NEW p \in Procs, NEW o \in Outcomes, Acquire(p, o)
      PROVE  TypeOK'
  BY <1>1 DEF Acquire
<1>2. ASSUME NEW p \in Procs, Start(p) \/ StartFails(p) \/ Return(p) \/ Crash(p)
      PROVE  TypeOK'
  BY <1>2 DEF Start, StartFails, Return, Crash
<1>3. ASSUME NEW p \in Procs, NEW ok \in BOOLEAN, Refresh(p, ok)
      PROVE  TypeOK'
  BY <1>3 DEF Refresh
<1>4. ASSUME NEW p \in Procs, NEW o \in Outcomes, Release(p, o)
      PROVE  TypeOK'
  BY <1>4 DEF Release
<1>5. CASE Elapse
  <2>1. due' \in [Procs -> 0 .. Period]
    BY <1>5 DEF Elapse
  <2> QED
    BY <1>5, <2>1 DEF Elapse
<1>6. CASE UNCHANGED vars
  BY <1>6 DEF vars
<1> QED
  BY <1>1, <1>2, <1>3, <1>4, <1>5, <1>6 DEF Next, RunWorker

\* The variables stay in their types, and the key is there exactly while it has
\* time left.
THEOREM TypeCorrect == Spec => []TypeOK
BY TypeInit, TypeStep, PTL DEF Spec

-----------------------------------------------------------------------------
(***************************************************************************)
(* While no two refreshes in a row fail, a process past the lock has the   *)
(* key, with enough time left for the tickers to come: what is left until  *)
(* the next one, and a whole period for each miss that may still happen.   *)
(***************************************************************************)
Leased ==
  \A p \in Procs : pc[p] \in Holding =>
    /\ key = p
    /\ misses[p] <= 1
    /\ ttl >= due[p] + (IF misses[p] = 0 THEN 2 * Period ELSE Period)

LEMMA LeasedStep ==
  ASSUME MaxMisses <= 1, "stall" \notin Faults, TypeOK, Leased, [Next]_vars
  PROVE  Leased'
<1> USE PeriodFits DEF TypeOK, Leased, Goto
<1>1. ASSUME NEW p \in Procs, NEW o \in Outcomes, Acquire(p, o)
      PROVE  Leased'
  <2>1. CASE key = None
    <3>1. \A q \in Procs \ {p} : pc[q] \notin Holding
      BY <2>1, TokenAssumption
    <3>2. CASE o = "ok"
      <4>1. key' = p /\ ttl' = TTL /\ due'[p] = Period /\ misses' = misses
        BY <1>1, <2>1, <3>2 DEF Acquire
      <4>2. misses[p] \in 0 .. MaxMisses /\ misses[p] <= 1
        BY FaultAssumption
      <4> QED
        <5>1. /\ pc' = [pc EXCEPT ![p] = "starting"]
              /\ \A q \in Procs \ {p} : pc'[q] = pc[q]
          BY <1>1, <2>1, <3>2 DEF Acquire
        <5>2. TTL >= Period + (IF misses[p] = 0 THEN 2 * Period ELSE Period)
          BY TTLAssumption
        <5>3. \A q \in Procs : pc'[q] \in Holding => q = p
          BY <3>1, <5>1
        <5> QED
          BY <4>1, <4>2, <5>2, <5>3
    <3>3. CASE o # "ok"
      BY <1>1, <3>1, <3>3 DEF Acquire
    <3> QED
      BY <3>2, <3>3
  <2>2. CASE key # None
    BY <1>1, <2>2 DEF Acquire
  <2> QED
    BY <2>1, <2>2
<1>2. ASSUME NEW p \in Procs, Start(p) \/ StartFails(p) \/ Return(p) \/ Crash(p)
      PROVE  Leased'
  BY <1>2 DEF Start, StartFails, Return, Crash
<1>3. ASSUME NEW p \in Procs, NEW ok \in BOOLEAN, Refresh(p, ok)
      PROVE  Leased'
  <2>1. key = p /\ key' = p /\ pc' = pc /\ due'[p] = Period
    BY <1>3 DEF Refresh
  <2>2. CASE ok
    BY <1>3, <2>1, <2>2 DEF Refresh
  <2>3. CASE ~ok
    BY <1>3, <2>1, <2>3, FaultAssumption DEF Refresh
  <2> QED
    BY <2>2, <2>3
<1>4. ASSUME NEW p \in Procs, NEW o \in Outcomes, Release(p, o)
      PROVE  Leased'
  BY <1>4 DEF Release
<1>5. CASE Elapse
  BY <1>5 DEF Elapse
<1>6. CASE UNCHANGED vars
  BY <1>6 DEF vars
<1> QED
  BY <1>1, <1>2, <1>3, <1>4, <1>5, <1>6 DEF Next, RunWorker

\* No two importer processes are past the lock at the same time, if tickers are
\* on time and of two refreshes in a row one succeeds.
THEOREM SingleImporterHolds ==
  ASSUME MaxMisses <= 1, "stall" \notin Faults
  PROVE  Spec => []SingleImporter
<1>1. Init => TypeOK /\ Leased
  BY TypeInit DEF Init, Leased
<1>2. TypeOK /\ Leased /\ [Next]_vars => TypeOK' /\ Leased'
  BY TypeStep, LeasedStep
<1>3. Leased => SingleImporter
  BY DEF Leased, SingleImporter
<1> QED
  BY <1>1, <1>2, <1>3, PTL DEF Spec

-----------------------------------------------------------------------------
\* A process deletes and extends no lock but its own, however late it is and
\* whoever has the lock by then.
THEOREM OwnLockOnlyHolds == Spec => OwnLockOnly
<1>1. ASSUME TypeOK, Next
      PROVE  OwnLockStep
  <2> USE <1>1, TokenAssumption DEF TypeOK, OwnLockStep, Goto
  <2>1. ASSUME NEW p \in Procs, NEW o \in Outcomes, Acquire(p, o)
        PROVE  OwnLockStep
    BY <2>1 DEF Acquire
  <2>2. ASSUME NEW p \in Procs, Start(p) \/ StartFails(p) \/ Return(p) \/ Crash(p)
        PROVE  OwnLockStep
    BY <2>2 DEF Start, StartFails, Return, Crash
  <2>3. ASSUME NEW p \in Procs, NEW ok \in BOOLEAN, Refresh(p, ok)
        PROVE  OwnLockStep
    BY <2>3 DEF Refresh
  <2>4. ASSUME NEW p \in Procs, NEW o \in Outcomes, Release(p, o)
        PROVE  OwnLockStep
    BY <2>4 DEF Release
  <2>5. CASE Elapse
    BY <2>5 DEF Elapse
  <2> QED
    BY <1>1, <2>1, <2>2, <2>3, <2>4, <2>5 DEF Next, RunWorker
<1>2. TypeOK /\ [Next]_vars => [OwnLockStep]_vars
  BY <1>1
<1> QED
  BY <1>2, TypeInit, TypeStep, PTL DEF Spec, OwnLockOnly
=============================================================================
