----------------------- MODULE BatchImageQueue_proofs -----------------------
(***************************************************************************)
(* Proofs about the Redis queue and its workers, for any sets of jobs and  *)
(* workers and any number of faults.                                       *)
(***************************************************************************)
EXTENDS BatchImageQueue, TLAPS

\* The token in a lock is that of a worker past the lock on that very job.
LockHolder ==
    \A b \in Jobs : lock[b] \in Workers => Past(lock[b]) /\ job[lock[b]] = b

\* A worker past the lock that no longer holds it saw its lock expire.
LostMeansStalled ==
    \A w \in Workers : Past(w) /\ lock[job[w]] # w => w \in stalled

IInv == TypeOK /\ InflightIsPresent /\ LockHolder /\ LostMeansStalled

-----------------------------------------------------------------------------

\* The empty queue has the right types.
LEMMA TypeInit == Init => TypeOK
  BY NoneAssumption, OrphanAssumption DEF Init, TypeOK, WrkPC

\* The type invariant is inductive: every step of the queue's scripts and of
\* RunOnce keeps each structure in its type.
LEMMA TypeStep == TypeOK /\ [Next]_vars => TypeOK'
<1> SUFFICES ASSUME TypeOK, [Next]_vars
             PROVE  TypeOK'
  OBVIOUS
<1> USE NoneAssumption, OrphanAssumption, FaultAssumption DEF TypeOK
<1>1. ASSUME NEW b \in Jobs, Enqueue(b) PROVE TypeOK'
  BY <1>1 DEF Enqueue, Push
<1>2. ASSUME NEW b \in Jobs, MoveDueDelayed(b) PROVE TypeOK'
  BY <1>2 DEF MoveDueDelayed, Push
<1>3. ASSUME NEW b \in Jobs, RecoverStaleActive(b) PROVE TypeOK'
  BY <1>3 DEF RecoverStaleActive, Push
<1>4. ASSUME NEW b \in Jobs, ActiveGetsStale(b) PROVE TypeOK'
  BY <1>4 DEF ActiveGetsStale, Fault
<1>5. ASSUME NEW b \in Jobs, LockExpires(b) PROVE TypeOK'
  BY <1>5 DEF LockExpires, Fault, queueVars
<1>6. ASSUME NEW b \in Jobs, InflightExpires(b) PROVE TypeOK'
  BY <1>6 DEF InflightExpires, Fault
<1>7. ASSUME NEW w \in Workers, NEW b \in Jobs, Reserve(w, b) PROVE TypeOK'
  BY <1>7 DEF Reserve, WrkPC
<1>8. ASSUME NEW w \in Workers, WorkerStep(w) PROVE TypeOK'
  <2>1. CASE AcquireLock(w)
    BY <2>1 DEF AcquireLock, Go, Fault, queueVars, WrkPC
  <2>2. CASE LockConflict(w)
    BY <2>2 DEF LockConflict, RequeueAfter, Return, WrkPC
  <2>3. CASE Processed(w)
    BY <2>3 DEF Processed, Go, queueVars, WrkPC
  <2>4. CASE WorkerAck(w)
    BY <2>4 DEF WorkerAck, Acknowledge, Go, WrkPC
  <2>5. CASE WorkerRequeue(w)
    BY <2>5 DEF WorkerRequeue, RequeueAfter, Go, WrkPC
  <2>6. CASE QueueCallFails(w)
    BY <2>6 DEF QueueCallFails, Fault, Return, Go, queueVars, WrkPC
  <2>7. CASE ReleaseLock(w)
    BY <2>7 DEF ReleaseLock, Return, queueVars, WrkPC
  <2>8. QED
    BY <1>8, <2>1, <2>2, <2>3, <2>4, <2>5, <2>6, <2>7 DEF WorkerStep
<1>9. ASSUME NEW w \in Workers, Heartbeat(w) PROVE TypeOK'
  BY <1>9 DEF Heartbeat
<1>10. ASSUME NEW w \in Workers, Crash(w) PROVE TypeOK'
  BY <1>10 DEF Crash, Fault, Return, queueVars, WrkPC
<1>11. CASE UNCHANGED vars
  BY <1>11 DEF vars, queueVars
<1>12. QED
  BY <1>1, <1>2, <1>3, <1>4, <1>5, <1>6, <1>7, <1>8, <1>9, <1>10, <1>11 DEF Next

-----------------------------------------------------------------------------

\* A job with an inflight key is in the ready list, the delayed set or the
\* active set: whichever script takes it from one puts it in another, and only
\* the acknowledgement, which drops the key, takes it from all.
LEMMA InflightStep == TypeOK /\ InflightIsPresent /\ [Next]_vars => InflightIsPresent'
<1> SUFFICES ASSUME TypeOK, InflightIsPresent, [Next]_vars
             PROVE  InflightIsPresent'
  OBVIOUS
<1> USE DEF TypeOK, InflightIsPresent, Present
<1>1. ASSUME NEW b \in Jobs, Enqueue(b) PROVE InflightIsPresent'
  BY <1>1 DEF Enqueue, Push
<1>2. ASSUME NEW b \in Jobs, MoveDueDelayed(b) PROVE InflightIsPresent'
  BY <1>2 DEF MoveDueDelayed, Push
<1>3. ASSUME NEW b \in Jobs, RecoverStaleActive(b) PROVE InflightIsPresent'
  BY <1>3 DEF RecoverStaleActive, Push
<1>4. ASSUME NEW b \in Jobs, ActiveGetsStale(b) PROVE InflightIsPresent'
  BY <1>4 DEF ActiveGetsStale
<1>5. ASSUME NEW b \in Jobs, LockExpires(b) PROVE InflightIsPresent'
  BY <1>5 DEF LockExpires, queueVars
<1>6. ASSUME NEW b \in Jobs, InflightExpires(b) PROVE InflightIsPresent'
  BY <1>6 DEF InflightExpires
<1>7. ASSUME NEW w \in Workers, NEW b \in Jobs, Reserve(w, b) PROVE InflightIsPresent'
  BY <1>7 DEF Reserve
<1>8. ASSUME NEW w \in Workers, WorkerStep(w) PROVE InflightIsPresent'
  <2>1. CASE LockConflict(w) \/ WorkerRequeue(w)
    BY <2>1 DEF LockConflict, WorkerRequeue, RequeueAfter
  <2>2. CASE WorkerAck(w)
    BY <2>2 DEF WorkerAck, Acknowledge
  <2>3. CASE UNCHANGED queueVars
    BY <2>3 DEF queueVars
  <2>4. QED
    BY <1>8, <2>1, <2>2, <2>3
    DEF WorkerStep, AcquireLock, Processed, QueueCallFails, ReleaseLock
<1>9. ASSUME NEW w \in Workers, Heartbeat(w) PROVE InflightIsPresent'
  BY <1>9 DEF Heartbeat
<1>10. ASSUME NEW w \in Workers, Crash(w) PROVE InflightIsPresent'
  BY <1>10 DEF Crash, queueVars
<1>11. CASE UNCHANGED vars
  BY <1>11 DEF vars, queueVars
<1>12. QED
  BY <1>1, <1>2, <1>3, <1>4, <1>5, <1>6, <1>7, <1>8, <1>9, <1>10, <1>11 DEF Next

\* The token in a lock names its holder, and a worker that lost its lock is
\* recorded as stalled.
LEMMA LockStep ==
  TypeOK /\ LockHolder /\ LostMeansStalled /\ [Next]_vars => (LockHolder /\ LostMeansStalled)'
<1> SUFFICES ASSUME TypeOK, LockHolder, LostMeansStalled, [Next]_vars
             PROVE  (LockHolder /\ LostMeansStalled)'
  OBVIOUS
<1> USE NoneAssumption, OrphanAssumption DEF TypeOK, LockHolder, LostMeansStalled, Past
<1>1. ASSUME UNCHANGED <<lock, pc, job, stalled>> PROVE (LockHolder /\ LostMeansStalled)'
  BY <1>1
<1>2. ASSUME NEW b \in Jobs, LockExpires(b) PROVE (LockHolder /\ LostMeansStalled)'
  BY <1>2 DEF LockExpires
<1>3. ASSUME NEW w \in Workers, NEW b \in Jobs, Reserve(w, b)
      PROVE  (LockHolder /\ LostMeansStalled)'
  BY <1>3 DEF Reserve
<1>4. ASSUME NEW w \in Workers, WorkerStep(w) PROVE (LockHolder /\ LostMeansStalled)'
  <2>1. CASE AcquireLock(w)
    BY <2>1 DEF AcquireLock, Go
  <2>2. CASE LockConflict(w)
    BY <2>2 DEF LockConflict, Return
  <2>3. CASE Processed(w) \/ WorkerAck(w) \/ WorkerRequeue(w)
    BY <2>3 DEF Processed, WorkerAck, WorkerRequeue, Go
  <2>4. CASE QueueCallFails(w)
    BY <2>4 DEF QueueCallFails, Return, Go
  <2>5. CASE ReleaseLock(w)
    BY <2>5 DEF ReleaseLock, Return
  <2>6. QED
    BY <1>4, <2>1, <2>2, <2>3, <2>4, <2>5 DEF WorkerStep
<1>5. ASSUME NEW w \in Workers, Crash(w) PROVE (LockHolder /\ LostMeansStalled)'
  BY <1>5 DEF Crash, Return
<1>6. QED
  BY <1>1, <1>2, <1>3, <1>4, <1>5
  DEF Next, vars, Enqueue, MoveDueDelayed, RecoverStaleActive, ActiveGetsStale,
      InflightExpires, Heartbeat

\* The inductive invariant holds in every reachable state.
THEOREM Invariance == Spec => []IInv
<1>1. Init => IInv
  <2>1. Init => InflightIsPresent /\ LockHolder /\ LostMeansStalled
    BY NoneAssumption, OrphanAssumption
    DEF Init, InflightIsPresent, LockHolder, LostMeansStalled, Past
  <2>2. QED
    BY <2>1, TypeInit DEF IInv
<1>2. IInv /\ [Next]_vars => IInv'
  BY TypeStep, InflightStep, LockStep DEF IInv
<1>3. QED
  BY <1>1, <1>2, PTL DEF Spec

\* Types of the queue's structures (batch_image_queue.go).
THEOREM TypeCorrect == Spec => []TypeOK
  BY Invariance, PTL DEF IInv

\* A job that Enqueue refuses as already queued is really in the queue.
THEOREM InflightCorrect == Spec => []InflightIsPresent
  BY Invariance, PTL DEF IInv

\* Two workers process one job only after a stall: the job lock of
\* TryAcquireJobLock excludes them otherwise.
THEOREM Exclusion == Spec => []OneWorkerPerJob
<1>1. IInv => OneWorkerPerJob
  BY DEF IInv, TypeOK, LostMeansStalled, OneWorkerPerJob
<1>2. QED
  BY <1>1, Invariance, PTL

-----------------------------------------------------------------------------
(* The three structures implement the abstract queue. *)

\* Every step of the Redis queue is a step of the abstract queue or leaves it
\* unchanged.
LEMMA RefinementStep == TypeOK /\ [Next]_vars => [AbstractQueue!Next]_(AbstractQueue!vars)
<1> SUFFICES ASSUME TypeOK, [Next]_vars
             PROVE  [AbstractQueue!Next]_(AbstractQueue!vars)
  OBVIOUS
<1> USE DEF TypeOK, AbstractQueue!Next, AbstractQueue!vars
<1>1. ASSUME NEW b \in Jobs, Enqueue(b) PROVE AbstractQueue!Next
  <2>1. Present' = Present \union {b}
    BY <1>1 DEF Enqueue, Push, Present
  <2>2. QED
    BY <1>1, <2>1 DEF Enqueue, AbstractQueue!Enqueue
<1>2. ASSUME NEW b \in Jobs, MoveDueDelayed(b) PROVE UNCHANGED <<Present, inflight>>
  BY <1>2 DEF MoveDueDelayed, Push, Present
<1>3. ASSUME NEW b \in Jobs, RecoverStaleActive(b) PROVE UNCHANGED <<Present, inflight>>
  BY <1>3 DEF RecoverStaleActive, Push, Present
<1>4. ASSUME NEW b \in Jobs, ActiveGetsStale(b) PROVE UNCHANGED <<Present, inflight>>
  BY <1>4 DEF ActiveGetsStale, Present
<1>5. ASSUME NEW b \in Jobs, LockExpires(b) PROVE UNCHANGED <<Present, inflight>>
  BY <1>5 DEF LockExpires, queueVars, Present
<1>6. ASSUME NEW b \in Jobs, InflightExpires(b) PROVE AbstractQueue!Next
  <2>1. Present' = Present
    BY <1>6 DEF InflightExpires, Present
  <2>2. QED
    BY <1>6, <2>1 DEF InflightExpires, AbstractQueue!ClaimExpires
<1>7. ASSUME NEW w \in Workers, NEW b \in Jobs, Reserve(w, b)
      PROVE  UNCHANGED <<Present, inflight>>
  BY <1>7 DEF Reserve, Present
<1>8. ASSUME NEW w \in Workers, WorkerStep(w)
      PROVE  AbstractQueue!Next \/ UNCHANGED <<Present, inflight>>
  <2>1. CASE LockConflict(w) \/ WorkerRequeue(w)
    <3>1. job[w] \in Jobs /\ RequeueAfter(job[w])
      BY <2>1 DEF LockConflict, WorkerRequeue
    <3>2. Present' = Present \union {job[w]}
      BY <3>1 DEF RequeueAfter, Present
    <3>3. QED
      BY <3>1, <3>2 DEF RequeueAfter, AbstractQueue!PutBack
  <2>2. CASE WorkerAck(w)
    <3>1. job[w] \in Jobs /\ Acknowledge(job[w])
      BY <2>2 DEF WorkerAck
    <3>2. Present' = Present \/ Present' = Present \ {job[w]}
      BY <3>1 DEF Acknowledge, Present
    <3>3. QED
      BY <3>1, <3>2 DEF Acknowledge, AbstractQueue!Ack
  <2>3. CASE UNCHANGED queueVars
    BY <2>3 DEF queueVars, Present
  <2>4. QED
    BY <1>8, <2>1, <2>2, <2>3
    DEF WorkerStep, AcquireLock, Processed, QueueCallFails, ReleaseLock
<1>9. ASSUME NEW w \in Workers, Heartbeat(w) PROVE UNCHANGED <<Present, inflight>>
  BY <1>9 DEF Heartbeat, Present
<1>10. ASSUME NEW w \in Workers, Crash(w) PROVE UNCHANGED <<Present, inflight>>
  BY <1>10 DEF Crash, queueVars, Present
<1>11. CASE UNCHANGED vars
  BY <1>11 DEF vars, queueVars, Present
<1>12. QED
  BY <1>1, <1>2, <1>3, <1>4, <1>5, <1>6, <1>7, <1>8, <1>9, <1>10, <1>11 DEF Next

\* The Redis structures implement the set of pending jobs with at-least-once
\* delivery that the rest of the batch image code relies on.
THEOREM Refinement == Spec => ImplementsJobQueue
<1>1. Init => AbstractQueue!Init
  BY DEF Init, Present, AbstractQueue!Init
<1>2. QED
  BY <1>1, RefinementStep, TypeCorrect, PTL DEF Spec, ImplementsJobQueue, AbstractQueue!Spec

=============================================================================
