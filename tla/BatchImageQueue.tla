--------------------------- MODULE BatchImageQueue ---------------------------
(***************************************************************************)
(* The Redis queue of batch image jobs (repository/batch_image_queue.go)   *)
(* and the worker goroutines around it (service/batch_image_worker.go).    *)
(* One action is one Lua script, one MULTI block or one Redis command.     *)
(*                                                                         *)
(* The ready list is a bag: only the fairness of Reserve depends on its    *)
(* order.  A member of the active set is stale once its score is older     *)
(* than StaleActiveAfter.  What a worker does with a job is a choice       *)
(* between its three outcomes.                                             *)
(***************************************************************************)
EXTENDS Integers, FiniteSets

CONSTANTS
    Jobs,
    Workers,
    None,
    Orphan,      \* a token whose worker died or could not delete the lock
    MaxFaults    \* bound on crashes, stalls of a worker and Redis errors

ASSUME NoneAssumption   == None \notin Workers /\ None \notin Jobs
ASSUME OrphanAssumption == Orphan \notin Workers /\ Orphan # None
ASSUME FaultAssumption == MaxFaults \in Nat

VARIABLES
    ready,       \* batch_image:queue:ready, the number of copies of each job
    delayed,     \* batch_image:queue:delayed
    active,      \* batch_image:queue:active
    stale,       \* members of active with an old score
    inflight,    \* batch_image:queue:inflight:<job>
    lock,        \* batch_image:queue:lock:<job>: the worker whose token it holds
    pc,          \* program counter of each worker
    job,         \* the job it reserved
    stalled,     \* history: workers whose lock expired while they worked
    faults

queueVars == <<ready, delayed, active, stale, inflight>>
vars == <<queueVars, lock, pc, job, stalled, faults>>

WrkPC == {"idle", "reserved", "conflict", "process", "requeue", "ack", "unlock"}

Fault == faults < MaxFaults /\ faults' = faults + 1

Init ==
    /\ ready = [b \in Jobs |-> 0]
    /\ delayed = {}
    /\ active = {}
    /\ stale = {}
    /\ inflight = {}
    /\ lock = [b \in Jobs |-> None]
    /\ pc = [w \in Workers |-> "idle"]
    /\ job = [w \in Workers |-> None]
    /\ stalled = {}
    /\ faults = 0

-----------------------------------------------------------------------------
(* The queue's operations *)

Push(b) == ready' = [ready EXCEPT ![b] = @ + 1]

\* batchImageEnqueueScript: SET NX of the inflight key, then LPUSH.
Enqueue(b) ==
    /\ b \notin inflight
    /\ inflight' = inflight \union {b}
    /\ Push(b)
    /\ UNCHANGED <<delayed, active, stale, lock, pc, job, stalled, faults>>

\* batchImageReserveScript: RPOP, then ZADD to the active set.
Reserve(w, b) ==
    /\ pc[w] = "idle"
    /\ ready[b] > 0
    /\ ready' = [ready EXCEPT ![b] = @ - 1]
    /\ active' = active \union {b}
    /\ stale' = stale \ {b}
    /\ pc' = [pc EXCEPT ![w] = "reserved"]
    /\ job' = [job EXCEPT ![w] = b]
    /\ UNCHANGED <<delayed, inflight, lock, stalled, faults>>

\* RequeueAfter, with a positive delay.
RequeueAfter(b) ==
    /\ active' = active \ {b}
    /\ stale' = stale \ {b}
    /\ delayed' = delayed \union {b}
    /\ UNCHANGED <<ready, inflight>>

\* Mutant: the MULTI block forgets the inflight key.
AcknowledgeKeepsInflight(b) ==
    /\ active' = active \ {b}
    /\ stale' = stale \ {b}
    /\ delayed' = delayed \ {b}
    /\ UNCHANGED <<ready, inflight>>

\* Mutant: the score survives the member.
AcknowledgeKeepsScore(b) ==
    /\ active' = active \ {b}
    /\ delayed' = delayed \ {b}
    /\ inflight' = inflight \ {b}
    /\ UNCHANGED <<ready, stale>>

Acknowledge(b) ==
    /\ active' = active \ {b}
    /\ stale' = stale \ {b}
    /\ delayed' = delayed \ {b}
    /\ inflight' = inflight \ {b}
    /\ UNCHANGED ready

\* batchImageMoveDueDelayedScript, for a job whose delay has passed.
MoveDueDelayed(b) ==
    /\ b \in delayed
    /\ delayed' = delayed \ {b}
    /\ Push(b)
    /\ UNCHANGED <<active, stale, inflight, lock, pc, job, stalled, faults>>

\* Mutant: ZREM without LPUSH.
RecoverDropsJob(b) ==
    /\ b \in stale
    /\ active' = active \ {b}
    /\ stale' = stale \ {b}
    /\ UNCHANGED <<ready, delayed, inflight, lock, pc, job, stalled, faults>>

\* Mutant: jobs with an inflight key are thought to be handled.
RecoverUnclaimedOnly(b) ==
    /\ b \in stale \ inflight
    /\ active' = active \ {b}
    /\ stale' = stale \ {b}
    /\ Push(b)
    /\ UNCHANGED <<delayed, inflight, lock, pc, job, stalled, faults>>

\* batchImageRecoverStaleActiveScript
RecoverStaleActive(b) ==
    /\ b \in stale
    /\ active' = active \ {b}
    /\ stale' = stale \ {b}
    /\ Push(b)
    /\ UNCHANGED <<delayed, inflight, lock, pc, job, stalled, faults>>

-----------------------------------------------------------------------------
(* A worker: BatchImageWorker.RunOnce *)

Go(w, to) == pc' = [pc EXCEPT ![w] = to]

\* RunOnce returns; the next call acquires its lock with a new token.
Return(w) ==
    /\ pc' = [pc EXCEPT ![w] = "idle"]
    /\ job' = [job EXCEPT ![w] = None]
    /\ stalled' = stalled \ {w}

\* TryAcquireJobLock: SET NX.  An error is handled like a lock that is held.
AcquireLock(w) ==
    /\ pc[w] = "reserved"
    /\ \/ /\ lock[job[w]] = None
          /\ lock' = [lock EXCEPT ![job[w]] = w]
          /\ Go(w, "process") /\ UNCHANGED faults
       \/ /\ lock[job[w]] # None
          /\ Go(w, "conflict") /\ UNCHANGED <<lock, faults>>
       \/ Fault /\ Go(w, "conflict") /\ UNCHANGED lock
    /\ UNCHANGED <<queueVars, job, stalled>>

\* The job of a worker that did not get the lock is put back.
LockConflict(w) ==
    /\ pc[w] = "conflict"
    /\ RequeueAfter(job[w])
    /\ Return(w)
    /\ UNCHANGED <<lock, faults>>

\* runJobHeartbeat: ZADD XX refreshes the score, whoever put the job there.
Heartbeat(w) ==
    /\ pc[w] = "process"
    /\ job[w] \in stale
    /\ stale' = stale \ {job[w]}
    /\ UNCHANGED <<ready, delayed, active, inflight, lock, pc, job, stalled, faults>>

\* The processor returns: terminal, try again, or an error (try again too).
Processed(w) ==
    /\ pc[w] = "process"
    /\ \E to \in {"ack", "requeue"} : Go(w, to)
    /\ UNCHANGED <<queueVars, lock, job, stalled, faults>>

WorkerAck(w) ==
    /\ pc[w] = "ack"
    /\ Acknowledge(job[w])
    /\ Go(w, "unlock")
    /\ UNCHANGED <<lock, job, stalled, faults>>

WorkerRequeue(w) ==
    /\ pc[w] = "requeue"
    /\ RequeueAfter(job[w])
    /\ Go(w, "unlock")
    /\ UNCHANGED <<lock, job, stalled, faults>>

\* A Redis error on Ack or RequeueAfter: the job stays where it is.
QueueCallFails(w) ==
    /\ pc[w] \in {"conflict", "ack", "requeue"}
    /\ Fault
    /\ IF pc[w] = "conflict" THEN Return(w) ELSE Go(w, "unlock") /\ UNCHANGED <<job, stalled>>
    /\ UNCHANGED <<queueVars, lock>>

\* Mutant: the lock is deleted whatever its token.
ReleaseLockBlind(w) ==
    /\ pc[w] = "unlock"
    /\ lock' = [lock EXCEPT ![job[w]] = None]
    /\ Return(w)
    /\ UNCHANGED <<queueVars, faults>>

\* batchImageReleaseLockScript compares the token before it deletes.
ReleaseLock(w) ==
    /\ pc[w] = "unlock"
    /\ lock' = [lock EXCEPT ![job[w]] = IF @ = w THEN None ELSE @]
    /\ Return(w)
    /\ UNCHANGED <<queueVars, faults>>

\* The process dies, or the deferred Release gets a Redis error: the lock keeps
\* a token nobody knows.
Crash(w) ==
    /\ pc[w] # "idle"
    /\ Fault
    /\ lock' = [lock EXCEPT ![job[w]] = IF @ = w THEN Orphan ELSE @]
    /\ Return(w)
    /\ UNCHANGED queueVars

-----------------------------------------------------------------------------
(* Time *)

Handling(b) == {w \in Workers : job[w] = b}

\* The score of an active job gets old: while its worker's heartbeat refreshes
\* it, only if that worker stalls.
ActiveGetsStale(b) ==
    /\ b \in active \ stale
    /\ IF Handling(b) # {} THEN Fault ELSE UNCHANGED faults
    /\ stale' = stale \union {b}
    /\ UNCHANGED <<ready, delayed, active, inflight, lock, pc, job, stalled>>

\* The TTL of the lock passes; while its holder works, only if it stalls.
LockExpires(b) ==
    /\ lock[b] # None
    /\ IF lock[b] = Orphan
       THEN UNCHANGED <<stalled, faults>>
       ELSE Fault /\ stalled' = stalled \union {lock[b]}
    /\ lock' = [lock EXCEPT ![b] = None]
    /\ UNCHANGED <<queueVars, pc, job>>

\* The TTL of the inflight key (7 days) passes.
InflightExpires(b) ==
    /\ b \in inflight
    /\ Fault
    /\ inflight' = inflight \ {b}
    /\ UNCHANGED <<ready, delayed, active, stale, lock, pc, job, stalled>>

-----------------------------------------------------------------------------

WorkerStep(w) ==
    \/ AcquireLock(w) \/ LockConflict(w) \/ Processed(w) \/ WorkerAck(w)
    \/ WorkerRequeue(w) \/ QueueCallFails(w) \/ ReleaseLock(w)

Next ==
    \/ \E b \in Jobs :
        \/ Enqueue(b) \/ MoveDueDelayed(b) \/ RecoverStaleActive(b)
        \/ ActiveGetsStale(b) \/ LockExpires(b) \/ InflightExpires(b)
    \/ \E w \in Workers : WorkerStep(w) \/ Heartbeat(w) \/ Crash(w)
    \/ \E w \in Workers, b \in Jobs : Reserve(w, b)

Spec == Init /\ [][Next]_vars

\* The worker, mover and recovery goroutines loop for ever, time passes, and
\* the ready list is popped in order.
Fairness ==
    /\ \A b \in Jobs :
        /\ WF_vars(MoveDueDelayed(b))
        /\ WF_vars(RecoverStaleActive(b))
        /\ SF_vars(ActiveGetsStale(b) /\ Handling(b) = {})
        /\ WF_vars(LockExpires(b) /\ lock[b] = Orphan)
        /\ SF_vars(\E w \in Workers : Reserve(w, b))
    /\ \A w \in Workers : WF_vars(WorkerStep(w))

FairSpec == Spec /\ Fairness

-----------------------------------------------------------------------------
(* Properties *)

TypeOK ==
    /\ ready \in [Jobs -> Nat]
    /\ delayed \in SUBSET Jobs
    /\ active \in SUBSET Jobs
    /\ stale \in SUBSET active
    /\ inflight \in SUBSET Jobs
    /\ lock \in [Jobs -> Workers \union {None, Orphan}]
    /\ pc \in [Workers -> WrkPC]
    /\ job \in [Workers -> Jobs \union {None}]
    /\ \A w \in Workers : pc[w] = "idle" <=> job[w] = None
    /\ stalled \in SUBSET Workers
    /\ faults \in Nat

Present == {b \in Jobs : ready[b] > 0} \union delayed \union active

\* A job whose inflight key is set is in one of the three structures, whatever
\* crashed between two steps (the comments on batchImageReserveScript and
\* batchImageEnqueueScript); otherwise the key would keep every producer from
\* enqueueing it again for seven days.
InflightIsPresent == inflight \subseteq Present

Past(w) == pc[w] \in {"process", "requeue", "ack", "unlock"}

\* Two workers are past the lock of one job only after the lock of one of them
\* expired under it: a straggler that returns late does not take away the lock
\* of its successor (batchImageReleaseLockScript).
OneWorkerPerJob ==
    \A v, w \in Workers :
        v # w /\ Past(v) /\ Past(w) /\ job[v] = job[w] => v \in stalled \/ w \in stalled

\* The three structures together are a set with at-least-once delivery: they
\* implement the queue that BatchImage assumes.
AbstractQueue == INSTANCE JobQueue WITH pending <- Present, claimed <- inflight

ImplementsJobQueue == AbstractQueue!Spec

\* A job that is queued is eventually processed under the lock: neither a crash
\* nor a Redis error nor a lost lock strands it (RunStaleActiveRecovery,
\* RunDelayedMover).
QueuedIsProcessed ==
    \A b \in Jobs : b \in inflight ~>
        (b \notin inflight \/ \E w \in Workers : job[w] = b /\ pc[w] = "process")

=============================================================================
