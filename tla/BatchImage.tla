----------------------------- MODULE BatchImage -----------------------------
(***************************************************************************)
(* The life of batch image jobs: Submit, the client's Cancel and           *)
(* resubmission, the workers' pipeline (poll, index, settle), and the      *)
(* recovery of stale submissions, all of them concurrent, over the hold of *)
(* the job in BatchImageLedger.                                            *)
(*                                                                         *)
(* One action is one call the code makes to the database, to the queue or  *)
(* to the provider; what a handler read before stays in its program        *)
(* counter, or in the worker's "snap", while others run.  A call that      *)
(* fails consumes one of MaxFaults faults of a kind in FaultKinds:         *)
(*    db          a statement on batch_image_jobs fails, without effect    *)
(*    bill        a balance transaction fails and rolls back               *)
(*    commit      a balance transaction commits and its caller gets an     *)
(*                error (the connection is lost during COMMIT)             *)
(*    queue       a Redis queue call fails                                 *)
(*    provider    a call to the upstream provider fails                    *)
(*    submitCrash the process that runs Submit dies                        *)
(*    workerCrash a worker dies                                            *)
(*    stall       Submit is silent for StaleActiveAfter and still alive    *)
(*    lock        a worker's job lock expires while it works               *)
(*                                                                         *)
(* "queue" is the set of jobs in the ready list, the delayed set or the    *)
(* active set.                                                             *)
(***************************************************************************)
EXTENDS BatchImageLedger, FiniteSets

CONSTANTS
    Workers,      \* worker goroutines, over all instances
    MaxRetries,   \* batchImageSettlementMaxRetries
    CancelJobs,   \* jobs whose client calls Cancel
    ResubmitJobs, \* jobs whose client repeats Submit with the idempotency key
    FaultKinds,   \* the kinds of fault that may happen
    MaxFaults,    \* bound on the number of faults
    None          \* no worker

ASSUME JobsAssumption  == Jobs # {}
ASSUME NoneAssumption  == None \notin Workers
ASSUME RetryAssumption == MaxRetries \in Nat \ {0}
ASSUME FaultAssumption == MaxFaults \in Nat

VARIABLES
    status,       \* batch_image_jobs.status, "none" before the row exists
    named,        \* provider_job_name IS NOT NULL
    stale,        \* updated_at is before the recovery cutoff
    retry,        \* retry_count, counted up to MaxRetries
    settleErr,    \* last_error_code starts with SETTLEMENT_
    cost,         \* success_count times billable_unit_price
    hidden,       \* jobs whose user_deleted_at IS NOT NULL
    upstream,     \* the provider's batch job
    queue,        \* jobs in the Redis queue
    lock,         \* holder of the job lock
    sub,          \* program counter of the Submit that created the job
    cli,          \* program counter of the client's later request
    rec,          \* program counter of the stale-submission recovery
    wrk,          \* state of each worker
    outrun,       \* history: jobs submitted under a Cancel that had read them before
    faults        \* faults so far

row   == <<status, named, stale, retry, settleErr, cost, hidden>>
procs == <<sub, cli, rec, wrk, outrun>>
vars  == <<ledger, row, upstream, queue, lock, procs, faults>>

Status == {"none", "created", "uploading", "submitted", "running", "indexing",
           "settling", "completed", "failed", "cancelled", "output_deleted"}

UpstreamState == {"none", "queued", "running", "succeeded", "failed", "cancelled"}

SubPC == {"idle", "reserve", "items", "upload", "provider", "persist", "abort",
          "enqueue", "queueFailed", "releaseRecord", "releaseOnly",
          "releaseFailed", "releaseRetry", "record", "hide", "done"}

CliPC == {"idle", "cancelProvider", "cancelEnqueue", "cancelJob", "release",
          "releaseRetry", "resubmit"}

RecPC == {"idle", "fail", "release", "releaseRetry"}

WrkPC == {"idle", "dispatch", "load", "poll", "toRunning", "toIndexing",
          "toFailed", "toCancelled", "index", "toSettling", "release", "settle",
          "capture", "mark", "recordFailure", "exhaustRelease", "exhaustFail",
          "releaseError", "settleEnd", "ack", "requeue"}

-----------------------------------------------------------------------------
(* Statuses and transitions *)

Terminal == {"completed", "failed", "cancelled", "output_deleted"}

\* isBatchImageProcessorDoneStatus
Done == Terminal \union {"settling"}

Unsubmitted == {"created", "uploading"}

AllowedFrom(from) ==
    CASE from = "created"   -> {"uploading", "submitted", "cancelled", "failed"}
      [] from = "uploading" -> {"submitted", "cancelled", "failed"}
      [] from = "submitted" -> {"running", "indexing", "failed", "cancelled"}
      [] from = "running"   -> {"running", "indexing", "failed", "cancelled"}
      [] from = "indexing"  -> {"settling", "failed"}
      [] from = "settling"  -> {"completed", "failed"}
      [] from \in {"completed", "failed", "cancelled"} -> {"output_deleted"}
      [] OTHER -> {}

\* Mutant: only a completed job is protected.
CanTransitionUnlessCompleted(from, to) == from \notin {"completed", "output_deleted"}

CanTransition(from, to) == to \in AllowedFrom(from)

\* Every UPDATE of the row also sets updated_at.
SetStatus(b, to) ==
    /\ status' = [status EXCEPT ![b] = to]
    /\ stale' = [stale EXCEPT ![b] = FALSE]

\* TransitionBatchImageJobStatus, when the row lock finds a legal source.
Transition(b, to) ==
    /\ CanTransition(status[b], to)
    /\ SetStatus(b, to)
    /\ UNCHANGED <<named, retry, settleErr, cost, hidden>>

-----------------------------------------------------------------------------
(* Faults *)

Fault(kind) ==
    /\ kind \in FaultKinds
    /\ faults < MaxFaults
    /\ faults' = faults + 1

NoFault == UNCHANGED faults

-----------------------------------------------------------------------------
(* The environment: the provider's batch job, the passing of time, locks *)

UpstreamRuns(b) ==
    /\ upstream[b] \in {"queued", "running"}
    /\ \/ upstream[b] = "queued" /\ upstream' = [upstream EXCEPT ![b] = "running"]
       \/ upstream[b] = "running"
          /\ \E s \in {"succeeded", "failed"} : upstream' = [upstream EXCEPT ![b] = s]
    /\ UNCHANGED <<ledger, row, queue, lock, procs, faults>>

\* provider.Cancel reaches the provider: a batch job that still runs stops.
UpstreamCancel(b) ==
    upstream' = [upstream EXCEPT ![b] = IF @ \in {"queued", "running"} THEN "cancelled" ELSE @]

SubmitAlive(b) == sub[b] \notin {"idle", "done"}

\* The row of an unfinished submission grows older than the recovery cutoff.
\* While Submit lives its statements and its heartbeat prevent that.
Age(b) ==
    /\ status[b] \in Unsubmitted
    /\ ~ stale[b]
    /\ IF SubmitAlive(b) THEN Fault("stall") ELSE NoFault
    /\ stale' = [stale EXCEPT ![b] = TRUE]
    /\ UNCHANGED <<ledger, status, named, retry, settleErr, cost, hidden, upstream, queue, lock, procs>>

Working(w, b) == wrk[w].pc # "idle" /\ wrk[w].job = b

\* The TTL of the job lock passes: always after its holder died, and as a
\* fault when the holder works but could not refresh it.
LockExpires(b) ==
    /\ lock[b] # None
    /\ IF Working(lock[b], b) THEN Fault("lock") ELSE NoFault
    /\ lock' = [lock EXCEPT ![b] = None]
    /\ UNCHANGED <<ledger, row, upstream, queue, procs>>

-----------------------------------------------------------------------------
(* Submit *)

SubGo(b, pc) ==
    /\ sub' = [sub EXCEPT ![b] = pc]
    /\ UNCHANGED <<cli, rec, wrk, outrun>>

\* CreateBatchImageJob
SubmitCreate(b) ==
    /\ status[b] = "none"
    /\ SetStatus(b, "created")
    /\ SubGo(b, "reserve")
    /\ UNCHANGED <<ledger, named, retry, settleErr, cost, hidden, upstream, queue, lock, faults>>

SubmitReserve(b) ==
    /\ sub[b] = "reserve"
    /\ \/ Reserve(b) /\ NoFault /\ SubGo(b, "items")
       \/ ReserveRefused(b) /\ NoFault /\ SubGo(b, "record")
       \/ UNCHANGED ledger /\ Fault("bill") /\ SubGo(b, "record")
       \/ Reserve(b) /\ Fault("commit") /\ SubGo(b, "record")
    /\ UNCHANGED <<row, upstream, queue, lock>>

\* createPendingItems
SubmitItems(b) ==
    /\ sub[b] = "items"
    /\ \/ NoFault /\ SubGo(b, "upload")
       \/ Fault("db") /\ SubGo(b, "releaseRecord")
    /\ UNCHANGED <<ledger, row, upstream, queue, lock>>

\* created -> uploading; a job that was cancelled or recovered meanwhile only
\* has its hold released.
SubmitUpload(b) ==
    /\ sub[b] = "upload"
    /\ \/ Transition(b, "uploading") /\ NoFault /\ SubGo(b, "provider")
       \/ /\ ~ CanTransition(status[b], "uploading")
          /\ UNCHANGED row /\ NoFault /\ SubGo(b, "releaseOnly")
       \/ UNCHANGED row /\ Fault("db") /\ SubGo(b, "releaseRecord")
    /\ UNCHANGED <<ledger, upstream, queue, lock>>

\* TouchBatchImageJobSubmitting, during provider.Submit.
SubmitHeartbeat(b) ==
    /\ sub[b] = "provider"
    /\ status[b] \in Unsubmitted
    /\ stale[b]
    /\ stale' = [stale EXCEPT ![b] = FALSE]
    /\ UNCHANGED <<ledger, status, named, retry, settleErr, cost, hidden, upstream, queue, lock, procs, faults>>

\* provider.Submit; a call that fails may have created the batch job.
SubmitProvider(b) ==
    /\ sub[b] = "provider"
    /\ \/ /\ upstream' = [upstream EXCEPT ![b] = "queued"]
          /\ \/ NoFault /\ SubGo(b, "persist")
             \/ Fault("provider") /\ SubGo(b, "releaseRecord")
       \/ UNCHANGED upstream /\ Fault("provider") /\ SubGo(b, "releaseRecord")
    /\ UNCHANGED <<ledger, row, queue, lock>>

\* UpdateBatchImageJobProviderSubmit; a Cancel on its way decided on a job that
\* had no provider job.
SubmitPersist(b) ==
    /\ sub[b] = "persist"
    /\ \/ /\ CanTransition(status[b], "submitted")
          /\ SetStatus(b, "submitted")
          /\ named' = [named EXCEPT ![b] = TRUE]
          /\ UNCHANGED <<retry, settleErr, cost, hidden>>
          /\ sub' = [sub EXCEPT ![b] = "enqueue"]
          /\ outrun' = IF cli[b] = "cancelJob" THEN outrun \union {b} ELSE outrun
          /\ UNCHANGED <<cli, rec, wrk>>
          /\ NoFault
       \/ /\ ~ CanTransition(status[b], "submitted")
          /\ UNCHANGED row /\ NoFault /\ SubGo(b, "abort")
       \/ UNCHANGED row /\ Fault("db") /\ SubGo(b, "abort")
    /\ UNCHANGED <<ledger, upstream, queue, lock>>

\* abortOrphanProviderJob: best effort.
SubmitAbort(b) ==
    /\ sub[b] = "abort"
    /\ \/ UpstreamCancel(b) /\ NoFault
       \/ UNCHANGED upstream /\ Fault("provider")
    /\ SubGo(b, "done")
    /\ UNCHANGED <<ledger, row, queue, lock>>

Enqueue(b) == queue' = queue \union {b}

SubmitEnqueue(b) ==
    /\ sub[b] = "enqueue"
    /\ \/ Enqueue(b) /\ NoFault /\ SubGo(b, "done")
       \/ UNCHANGED queue /\ Fault("queue") /\ SubGo(b, "queueFailed")
    /\ UNCHANGED <<ledger, row, upstream, lock>>

\* RecordBatchImageJobSubmitFailure(QUEUE_FAILED, markFailed = false)
SubmitQueueFailed(b) ==
    /\ sub[b] = "queueFailed"
    /\ \/ /\ settleErr' = [settleErr EXCEPT ![b] = FALSE]
          /\ NoFault
       \/ UNCHANGED settleErr /\ Fault("db")
    /\ SubGo(b, "done")
    /\ UNCHANGED <<ledger, status, named, stale, retry, cost, hidden, upstream, queue, lock>>

\* releaseFailedSubmitHold
SubmitRelease(b) ==
    /\ sub[b] \in {"releaseRecord", "releaseOnly"}
    /\ \/ /\ Release(b) /\ NoFault
          /\ SubGo(b, IF sub[b] = "releaseRecord" THEN "record" ELSE "done")
       \/ ReleaseRefused(b) /\ NoFault /\ SubGo(b, "releaseFailed")
       \/ UNCHANGED ledger /\ Fault("bill") /\ SubGo(b, "releaseFailed")
       \/ Release(b) /\ Fault("commit") /\ SubGo(b, "releaseFailed")
    /\ UNCHANGED <<row, upstream, queue, lock>>

\* RecordBatchImageJobSubmitFailure(markFailed = true): the status is written
\* whatever it was, and an error of the statement is ignored.
SubmitRecord(b) ==
    /\ sub[b] \in {"record", "releaseFailed"}
    /\ \/ /\ SetStatus(b, "failed")
          /\ settleErr' = [settleErr EXCEPT ![b] = FALSE]
          /\ UNCHANGED <<named, retry, cost, hidden>>
          /\ NoFault
       \/ UNCHANGED row /\ Fault("db")
    /\ SubGo(b, IF sub[b] = "record" THEN "hide" ELSE "releaseRetry")
    /\ UNCHANGED <<ledger, upstream, queue, lock>>

\* MarkBatchImageJobUserDeleted, of a job that is over.
Hide(b) ==
    /\ status[b] \in Terminal
    /\ b \notin hidden
    /\ hidden' = hidden \union {b}

\* hidePreUpstreamSubmitFailure: best effort.
SubmitHide(b) ==
    /\ sub[b] = "hide"
    /\ \/ Hide(b) /\ NoFault
       \/ (status[b] \notin Terminal \/ b \in hidden) /\ UNCHANGED hidden /\ NoFault
       \/ UNCHANGED hidden /\ Fault("db")
    /\ SubGo(b, "done")
    /\ UNCHANGED <<ledger, status, named, stale, retry, settleErr, cost, upstream, queue, lock>>

\* enqueueBillingRetry
SubmitReleaseRetry(b) ==
    /\ sub[b] = "releaseRetry"
    /\ \/ Enqueue(b) /\ NoFault
       \/ UNCHANGED queue /\ Fault("queue")
    /\ SubGo(b, "done")
    /\ UNCHANGED <<ledger, row, upstream, lock>>

SubmitCrash(b) ==
    /\ SubmitAlive(b)
    /\ Fault("submitCrash")
    /\ SubGo(b, "done")
    /\ UNCHANGED <<ledger, row, upstream, queue, lock>>

SubmitStep(b) ==
    \/ SubmitReserve(b)  \/ SubmitItems(b)   \/ SubmitUpload(b)
    \/ SubmitProvider(b) \/ SubmitPersist(b) \/ SubmitAbort(b)
    \/ SubmitEnqueue(b)  \/ SubmitQueueFailed(b)
    \/ SubmitRelease(b)  \/ SubmitRecord(b)  \/ SubmitHide(b)
    \/ SubmitReleaseRetry(b)

-----------------------------------------------------------------------------
(* The client's later requests: Cancel, and Submit with the same            *)
(* idempotency key *)

CliGo(b, pc) ==
    /\ cli' = [cli EXCEPT ![b] = pc]
    /\ UNCHANGED <<sub, rec, wrk, outrun>>

\* Mutant: the cancel does not ask for the provider job.
CancelTargetForgetsProvider(b) ==
    IF status[b] \in {"failed", "cancelled"} THEN "release" ELSE "cancelJob"

CancelTarget(b) ==
    CASE status[b] \in {"failed", "cancelled"} -> "release"
      [] status[b] \notin Done /\ named[b]     -> "cancelProvider"
      [] OTHER                                 -> "cancelJob"

\* Cancel reads the job and decides on what it read.
CancelRead(b) ==
    /\ b \in CancelJobs
    /\ cli[b] = "idle"
    /\ b \notin hidden
    /\ status[b] \notin {"none", "settling", "completed", "output_deleted"}
    /\ CliGo(b, CancelTarget(b))
    /\ UNCHANGED <<ledger, row, upstream, queue, lock, faults>>

CancelProvider(b) ==
    /\ cli[b] = "cancelProvider"
    /\ \/ UpstreamCancel(b) /\ NoFault /\ CliGo(b, "cancelEnqueue")
       \/ UNCHANGED upstream /\ Fault("provider") /\ CliGo(b, "idle")
    /\ UNCHANGED <<ledger, row, queue, lock>>

CancelEnqueue(b) ==
    /\ cli[b] = "cancelEnqueue"
    /\ \/ Enqueue(b) /\ NoFault
       \/ UNCHANGED queue /\ Fault("queue")
    /\ CliGo(b, "idle")
    /\ UNCHANGED <<ledger, row, upstream, lock>>

\* The job had no provider job when it was read.
CancelJob(b) ==
    /\ cli[b] = "cancelJob"
    /\ \/ Transition(b, "cancelled") /\ NoFault /\ CliGo(b, "release")
       \/ ~ CanTransition(status[b], "cancelled") /\ UNCHANGED row /\ NoFault /\ CliGo(b, "idle")
       \/ UNCHANGED row /\ Fault("db") /\ CliGo(b, "idle")
    /\ UNCHANGED <<ledger, upstream, queue, lock>>

CancelRelease(b) ==
    /\ cli[b] = "release"
    /\ \/ Release(b) /\ NoFault /\ CliGo(b, "idle")
       \/ ReleaseRefused(b) /\ NoFault /\ CliGo(b, "releaseRetry")
       \/ UNCHANGED ledger /\ Fault("bill") /\ CliGo(b, "releaseRetry")
       \/ Release(b) /\ Fault("commit") /\ CliGo(b, "releaseRetry")
    /\ UNCHANGED <<row, upstream, queue, lock>>

CancelReleaseRetry(b) ==
    /\ cli[b] = "releaseRetry"
    /\ \/ Enqueue(b) /\ NoFault
       \/ UNCHANGED queue /\ Fault("queue")
    /\ CliGo(b, "idle")
    /\ UNCHANGED <<ledger, row, upstream, lock>>

\* A second Submit with the idempotency key of the job enqueues it again if it
\* reads "submitted".
ResubmitRead(b) ==
    /\ b \in ResubmitJobs
    /\ cli[b] = "idle"
    /\ status[b] = "submitted"
    /\ CliGo(b, "resubmit")
    /\ UNCHANGED <<ledger, row, upstream, queue, lock, faults>>

Resubmit(b) ==
    /\ cli[b] = "resubmit"
    /\ \/ Enqueue(b) /\ UNCHANGED settleErr /\ NoFault
       \/ /\ settleErr' = [settleErr EXCEPT ![b] = FALSE]
          /\ UNCHANGED queue /\ Fault("queue")
    /\ CliGo(b, "idle")
    /\ UNCHANGED <<ledger, status, named, stale, retry, cost, hidden, upstream, lock>>

CliStart(b) == CancelRead(b) \/ ResubmitRead(b)

CliStep(b) ==
    \/ CancelProvider(b) \/ CancelEnqueue(b) \/ CancelJob(b)
    \/ CancelRelease(b)  \/ CancelReleaseRetry(b) \/ Resubmit(b)

-----------------------------------------------------------------------------
(* Recovery of submissions that never reached the provider *)

RecGo(b, pc) ==
    /\ rec' = [rec EXCEPT ![b] = pc]
    /\ UNCHANGED <<sub, cli, wrk, outrun>>

\* Mutant: the scan forgets the jobs that were uploading.
StaleCreated(b) == status[b] = "created" /\ ~ named[b] /\ stale[b]

StaleUnsubmitted(b) == status[b] \in Unsubmitted /\ ~ named[b] /\ stale[b]

\* ListStaleUnsubmittedBatchImageJobs
RecoveryList(b) ==
    /\ rec[b] = "idle"
    /\ StaleUnsubmitted(b)
    /\ RecGo(b, "fail")
    /\ UNCHANGED <<ledger, row, upstream, queue, lock, faults>>

\* FailStaleUnsubmittedBatchImageJob rechecks what the list read.
RecoveryFail(b) ==
    /\ rec[b] = "fail"
    /\ \/ /\ StaleUnsubmitted(b)
          /\ SetStatus(b, "failed")
          /\ settleErr' = [settleErr EXCEPT ![b] = FALSE]
          /\ UNCHANGED <<named, retry, cost, hidden>>
          /\ NoFault /\ RecGo(b, "release")
       \/ ~ StaleUnsubmitted(b) /\ UNCHANGED row /\ NoFault /\ RecGo(b, "idle")
       \/ UNCHANGED row /\ Fault("db") /\ RecGo(b, "idle")
    /\ UNCHANGED <<ledger, upstream, queue, lock>>

RecoveryRelease(b) ==
    /\ rec[b] = "release"
    /\ \/ Release(b) /\ NoFault /\ RecGo(b, "idle")
       \/ ReleaseRefused(b) /\ NoFault /\ RecGo(b, "releaseRetry")
       \/ UNCHANGED ledger /\ Fault("bill") /\ RecGo(b, "releaseRetry")
       \/ Release(b) /\ Fault("commit") /\ RecGo(b, "releaseRetry")
    /\ UNCHANGED <<row, upstream, queue, lock>>

RecoveryReleaseRetry(b) ==
    /\ rec[b] = "releaseRetry"
    /\ \/ Enqueue(b) /\ NoFault
       \/ UNCHANGED queue /\ Fault("queue")
    /\ RecGo(b, "idle")
    /\ UNCHANGED <<ledger, row, upstream, lock>>

RecoveryStep(b) ==
    \/ RecoveryList(b) \/ RecoveryFail(b) \/ RecoveryRelease(b) \/ RecoveryReleaseRetry(b)

-----------------------------------------------------------------------------
(* Workers: BatchImageWorker.RunOnce around BatchImagePipelineProcessor *)

\* The job of an idle worker has no meaning.
Idle == [pc |-> "idle", job |-> CHOOSE b \in Jobs : TRUE, snap |-> "none"]

WrkGo(w, pc) ==
    /\ wrk' = [wrk EXCEPT ![w].pc = pc]
    /\ UNCHANGED <<sub, cli, rec, outrun>>

\* Reserve and TryAcquireJobLock.  On a lock conflict the job is put back.
WorkerReserve(w, b) ==
    /\ wrk[w].pc = "idle"
    /\ b \in queue
    /\ lock[b] = None
    /\ lock' = [lock EXCEPT ![b] = w]
    /\ wrk' = [wrk EXCEPT ![w] = [pc |-> "dispatch", job |-> b, snap |-> "none"]]
    /\ UNCHANGED <<ledger, row, upstream, queue, sub, cli, rec, outrun, faults>>

\* The pipeline reads the job: settling jobs are settled, the others go to
\* the provider processor, which reads the job again.
WorkerDispatch(w, b) ==
    /\ wrk[w].pc = "dispatch"
    /\ \/ WrkGo(w, IF status[b] = "settling" THEN "settle" ELSE "load") /\ NoFault
       \/ WrkGo(w, "requeue") /\ Fault("db")
    /\ UNCHANGED <<ledger, row, upstream, queue, lock>>

\* Mutant: a worker that finds the job failed or cancelled drops it.
LoadTargetForgetsHold(b) ==
    CASE status[b] \in Done                              -> "ack"
      [] status[b] \notin Done /\ ~ named[b]             -> "requeue"
      [] status[b] = "indexing" /\ named[b]              -> "index"
      [] OTHER                                           -> "poll"

LoadTarget(b) ==
    CASE status[b] \in {"failed", "cancelled"}           -> "release"
      [] status[b] \in Done \ {"failed", "cancelled"}    -> "ack"
      [] status[b] \notin Done /\ ~ named[b]             -> "requeue"
      [] status[b] = "indexing" /\ named[b]              -> "index"
      [] OTHER                                           -> "poll"

WorkerLoad(w, b) ==
    /\ wrk[w].pc = "load"
    /\ \/ /\ wrk' = [wrk EXCEPT ![w].pc = LoadTarget(b), ![w].snap = status[b]]
          /\ UNCHANGED <<sub, cli, rec, outrun>> /\ NoFault
       \/ WrkGo(w, "requeue") /\ Fault("db")
    /\ UNCHANGED <<ledger, row, upstream, queue, lock>>

\* provider.Get; expired batch jobs are treated as failed ones.
WorkerPoll(w, b) ==
    /\ wrk[w].pc = "poll"
    /\ \/ /\ WrkGo(w, CASE upstream[b] = "running" /\ wrk[w].snap # "running" -> "toRunning"
                       [] upstream[b] = "succeeded" -> "toIndexing"
                       [] upstream[b] = "failed"    -> "toFailed"
                       [] upstream[b] = "cancelled" -> "toCancelled"
                       [] OTHER                     -> "requeue")
          /\ NoFault
       \/ WrkGo(w, "requeue") /\ Fault("provider")
    /\ UNCHANGED <<ledger, row, upstream, queue, lock>>

\* A transition of the provider processor and where it leads.
Moves == [toRunning   |-> [to |-> "running",   then |-> "requeue"],
          toIndexing  |-> [to |-> "indexing",  then |-> "index"],
          toFailed    |-> [to |-> "failed",    then |-> "release"],
          toCancelled |-> [to |-> "cancelled", then |-> "release"],
          toSettling  |-> [to |-> "settling",  then |-> "requeue"]]

WorkerTransition(w, b) ==
    /\ wrk[w].pc \in DOMAIN Moves
    /\ LET m == Moves[wrk[w].pc] IN
       \/ Transition(b, m.to) /\ WrkGo(w, m.then) /\ NoFault
       \/ ~ CanTransition(status[b], m.to) /\ UNCHANGED row /\ WrkGo(w, "requeue") /\ NoFault
       \/ UNCHANGED row /\ WrkGo(w, "requeue") /\ Fault("db")
    /\ UNCHANGED <<ledger, upstream, queue, lock>>

\* BatchImageResultIndexer.Index: the items and counts are replaced only while
\* the job is indexing.  Output that cannot be opened is retried; output that
\* cannot be parsed, and a statement that fails, fail the job.
WorkerIndex(w, b) ==
    /\ wrk[w].pc = "index"
    /\ \/ /\ status[b] = "indexing"
          /\ \E c \in 0 .. Hold[b] : cost' = [cost EXCEPT ![b] = c]
          /\ WrkGo(w, "toSettling") /\ NoFault
       \/ status[b] # "indexing" /\ UNCHANGED cost /\ WrkGo(w, "requeue") /\ NoFault
       \/ UNCHANGED cost /\ WrkGo(w, "toFailed") /\ NoFault
       \/ UNCHANGED cost /\ WrkGo(w, "toFailed") /\ Fault("db")
       \/ UNCHANGED cost /\ WrkGo(w, "requeue") /\ Fault("provider")
    /\ UNCHANGED <<ledger, status, named, stale, retry, settleErr, hidden, upstream, queue, lock>>

\* releaseTerminalHold
WorkerRelease(w, b) ==
    /\ wrk[w].pc = "release"
    /\ \/ Release(b) /\ WrkGo(w, "ack") /\ NoFault
       \/ ReleaseRefused(b) /\ WrkGo(w, "requeue") /\ NoFault
       \/ UNCHANGED ledger /\ WrkGo(w, "requeue") /\ Fault("bill")
       \/ Release(b) /\ WrkGo(w, "requeue") /\ Fault("commit")
    /\ UNCHANGED <<row, upstream, queue, lock>>

-----------------------------------------------------------------------------
(* Settlement *)

RetryExhausted(b) == retry[b] >= MaxRetries /\ settleErr[b]

\* Settle reads the job again.
WorkerSettle(w, b) ==
    /\ wrk[w].pc = "settle"
    /\ \/ /\ WrkGo(w, CASE status[b] = "completed"                       -> "ack"
                       [] status[b] \notin {"completed", "settling"}     -> "requeue"
                       [] status[b] = "settling" /\ RetryExhausted(b)    -> "exhaustRelease"
                       [] status[b] = "settling" /\ ~ RetryExhausted(b)  -> "capture")
          /\ NoFault
       \/ WrkGo(w, "requeue") /\ Fault("db")
    /\ UNCHANGED <<ledger, row, upstream, queue, lock>>

WorkerCapture(w, b) ==
    /\ wrk[w].pc = "capture"
    /\ \/ Capture(b, cost[b]) /\ WrkGo(w, "mark") /\ NoFault
       \/ CaptureRefused(b, cost[b]) /\ WrkGo(w, "recordFailure") /\ NoFault
       \/ UNCHANGED ledger /\ WrkGo(w, "recordFailure") /\ Fault("bill")
       \/ Capture(b, cost[b]) /\ WrkGo(w, "recordFailure") /\ Fault("commit")
    /\ UNCHANGED <<row, upstream, queue, lock>>

\* MarkBatchImageJobSettled: a compare-and-set on status = settling.
WorkerMark(w, b) ==
    /\ wrk[w].pc = "mark"
    /\ \/ /\ status[b] = "settling"
          /\ SetStatus(b, "completed")
          /\ UNCHANGED <<named, retry, settleErr, cost, hidden>>
          /\ WrkGo(w, "ack") /\ NoFault
       \/ status[b] # "settling" /\ UNCHANGED row /\ WrkGo(w, "requeue") /\ NoFault
       \/ UNCHANGED row /\ WrkGo(w, "requeue") /\ Fault("db")
    /\ UNCHANGED <<ledger, upstream, queue, lock>>

\* SetBatchImageJobSettlementFailed counts a failure, whatever the status.
CountFailure(b) ==
    /\ retry' = [retry EXCEPT ![b] = IF @ < MaxRetries THEN @ + 1 ELSE @]
    /\ settleErr' = [settleErr EXCEPT ![b] = TRUE]
    /\ UNCHANGED <<status, named, stale, cost, hidden>>

\* recordSettlementFailure: the last retry goes to the exhaustion exit at once.
WorkerRecordFailure(w, b) ==
    /\ wrk[w].pc = "recordFailure"
    /\ \/ /\ CountFailure(b)
          /\ WrkGo(w, IF retry'[b] >= MaxRetries THEN "exhaustRelease" ELSE "settleEnd")
          /\ NoFault
       \/ UNCHANGED row /\ WrkGo(w, "settleEnd") /\ Fault("db")
    /\ UNCHANGED <<ledger, upstream, queue, lock>>

\* failExhaustedSettlement releases the hold, then fails the job.
WorkerExhaustRelease(w, b) ==
    /\ wrk[w].pc = "exhaustRelease"
    /\ \/ Release(b) /\ WrkGo(w, "exhaustFail") /\ NoFault
       \/ ReleaseRefused(b) /\ WrkGo(w, "releaseError") /\ NoFault
       \/ UNCHANGED ledger /\ WrkGo(w, "releaseError") /\ Fault("bill")
       \/ Release(b) /\ WrkGo(w, "releaseError") /\ Fault("commit")
    /\ UNCHANGED <<row, upstream, queue, lock>>

WorkerReleaseError(w, b) ==
    /\ wrk[w].pc = "releaseError"
    /\ \/ CountFailure(b) /\ NoFault
       \/ UNCHANGED row /\ Fault("db")
    /\ WrkGo(w, "settleEnd")
    /\ UNCHANGED <<ledger, upstream, queue, lock>>

WorkerExhaustFail(w, b) ==
    /\ wrk[w].pc = "exhaustFail"
    /\ \/ Transition(b, "failed") /\ WrkGo(w, "settleEnd") /\ NoFault
       \/ ~ CanTransition(status[b], "failed") /\ UNCHANGED row /\ WrkGo(w, "requeue") /\ NoFault
       \/ UNCHANGED row /\ WrkGo(w, "requeue") /\ Fault("db")
    /\ UNCHANGED <<ledger, upstream, queue, lock>>

\* After a billing failure the pipeline reads the job once more.
WorkerSettleEnd(w, b) ==
    /\ wrk[w].pc = "settleEnd"
    /\ \/ WrkGo(w, IF status[b] \in Terminal THEN "ack" ELSE "requeue") /\ NoFault
       \/ WrkGo(w, "requeue") /\ Fault("db")
    /\ UNCHANGED <<ledger, row, upstream, queue, lock>>

-----------------------------------------------------------------------------
(* The end of RunOnce *)

\* The deferred lock.Release deletes the lock only if its token matches.
Unlock(w, b) ==
    /\ lock' = [lock EXCEPT ![b] = IF @ = w THEN None ELSE @]
    /\ wrk' = [wrk EXCEPT ![w] = Idle]
    /\ UNCHANGED <<sub, cli, rec, outrun>>

\* An Ack that fails leaves the job in the active set.
WorkerAck(w, b) ==
    /\ wrk[w].pc = "ack"
    /\ \/ queue' = queue \ {b} /\ NoFault
       \/ UNCHANGED queue /\ Fault("queue")
    /\ Unlock(w, b)
    /\ UNCHANGED <<ledger, row, upstream>>

\* RequeueAfter; when it fails the job is still in the active set, if no other
\* worker acknowledged it.
WorkerRequeue(w, b) ==
    /\ wrk[w].pc = "requeue"
    /\ \/ Enqueue(b) /\ NoFault
       \/ UNCHANGED queue /\ Fault("queue")
    /\ Unlock(w, b)
    /\ UNCHANGED <<ledger, row, upstream>>

\* The job stays in the active set and its lock stays taken.
WorkerCrash(w) ==
    /\ wrk[w].pc # "idle"
    /\ Fault("workerCrash")
    /\ wrk' = [wrk EXCEPT ![w] = Idle]
    /\ UNCHANGED <<ledger, row, upstream, queue, lock, sub, cli, rec, outrun>>

WorkerStep(w) ==
    LET b == wrk[w].job IN
    \/ WorkerDispatch(w, b) \/ WorkerLoad(w, b)  \/ WorkerPoll(w, b)
    \/ WorkerTransition(w, b) \/ WorkerIndex(w, b) \/ WorkerRelease(w, b)
    \/ WorkerSettle(w, b)   \/ WorkerCapture(w, b) \/ WorkerMark(w, b)
    \/ WorkerRecordFailure(w, b) \/ WorkerExhaustRelease(w, b)
    \/ WorkerReleaseError(w, b)  \/ WorkerExhaustFail(w, b)
    \/ WorkerSettleEnd(w, b) \/ WorkerAck(w, b) \/ WorkerRequeue(w, b)

\* MarkBatchImageOutputDeleted, after the retention time or on demand.
DeleteOutput(b) ==
    /\ status[b] = "completed"
    /\ SetStatus(b, "output_deleted")
    /\ UNCHANGED <<ledger, named, retry, settleErr, cost, hidden, upstream, queue, lock, procs, faults>>

\* The client deletes the record of a job.
DeleteRecord(b) ==
    /\ Hide(b)
    /\ UNCHANGED <<ledger, status, named, stale, retry, settleErr, cost, upstream, queue, lock, procs, faults>>

-----------------------------------------------------------------------------
(* The specification *)

Init ==
    /\ LedgerInit
    /\ status = [b \in Jobs |-> "none"]
    /\ named = [b \in Jobs |-> FALSE]
    /\ stale = [b \in Jobs |-> FALSE]
    /\ retry = [b \in Jobs |-> 0]
    /\ settleErr = [b \in Jobs |-> FALSE]
    /\ cost = [b \in Jobs |-> 0]
    /\ hidden = {}
    /\ upstream = [b \in Jobs |-> "none"]
    /\ queue = {}
    /\ lock = [b \in Jobs |-> None]
    /\ sub = [b \in Jobs |-> "idle"]
    /\ cli = [b \in Jobs |-> "idle"]
    /\ rec = [b \in Jobs |-> "idle"]
    /\ wrk = [w \in Workers |-> Idle]
    /\ outrun = {}
    /\ faults = 0

JobStep(b) ==
    \/ SubmitCreate(b) \/ SubmitStep(b) \/ SubmitHeartbeat(b) \/ SubmitCrash(b)
    \/ CliStart(b) \/ CliStep(b)
    \/ RecoveryStep(b)
    \/ UpstreamRuns(b) \/ Age(b) \/ LockExpires(b)
    \/ DeleteOutput(b) \/ DeleteRecord(b)

Next ==
    \/ \E b \in Jobs : JobStep(b)
    \/ \E w \in Workers : WorkerStep(w) \/ WorkerCrash(w)
    \/ \E w \in Workers, b \in Jobs : WorkerReserve(w, b)

Spec == Init /\ [][Next]_vars

\* Every handler that runs makes progress, the loops of the workers and of the
\* recovery run for ever, the ready list is first in first out, an expired lock
\* goes away, and the provider finishes what it was given.
Fairness ==
    /\ \A b \in Jobs :
        /\ WF_vars(SubmitStep(b))
        /\ WF_vars(CliStep(b))
        /\ WF_vars(RecoveryStep(b))
        /\ WF_vars(UpstreamRuns(b))
        /\ WF_vars(Age(b) /\ ~ SubmitAlive(b))
        /\ WF_vars(LockExpires(b) /\ ~ Working(lock[b], b))
    /\ \A w \in Workers : WF_vars(WorkerStep(w))
    /\ \A w \in Workers, b \in Jobs : SF_vars(WorkerReserve(w, b))

FairSpec == Spec /\ Fairness

-----------------------------------------------------------------------------
(* Properties *)

RowTypeOK ==
    /\ status \in [Jobs -> Status]
    /\ named \in [Jobs -> BOOLEAN]
    /\ stale \in [Jobs -> BOOLEAN]
    /\ retry \in [Jobs -> 0 .. MaxRetries]
    /\ settleErr \in [Jobs -> BOOLEAN]
    /\ cost \in [Jobs -> Nat]
    /\ hidden \in SUBSET Jobs

ProcsTypeOK ==
    /\ sub \in [Jobs -> SubPC]
    /\ cli \in [Jobs -> CliPC]
    /\ rec \in [Jobs -> RecPC]
    /\ wrk \in [Workers -> [pc : WrkPC, job : Jobs, snap : Status]]
    /\ outrun \in SUBSET Jobs

EnvTypeOK ==
    /\ upstream \in [Jobs -> UpstreamState]
    /\ queue \in SUBSET Jobs
    /\ lock \in [Jobs -> Workers \union {None}]
    /\ faults \in Nat

TypeOK == LedgerTypeOK /\ RowTypeOK /\ ProcsTypeOK /\ EnvTypeOK

OpenHold(b) == Claimed("hold", b) /\ ~ Claimed("capture", b) /\ b \notin refunded

\* The hold was charged and given back: one of the two was paid by the pool.
PaidTwice(b) == Claimed("capture", b) /\ b \in refunded

\* What the provider still works on, of the jobs it is known to work on.
ProviderWorks(b) == named[b] /\ upstream[b] \in {"queued", "running"}

\* While the provider works on a job, producing cost, the owner's hold for it
\* is open and its money is in frozen_balance.  There are two ways out of it.
\* A Cancel that read the job before Submit stored the provider's name moves
\* it from submitted to cancelled and gives the hold back, which the provider
\* is not told (public.go:753); no other cancelled job is excused.  And a hold
\* of the same user that was paid twice was paid with the money of the others.
LiveJobIsFunded ==
    \A b \in Jobs : ProviderWorks(b) =>
        \/ /\ OpenHold(b)
           /\ \/ frozen[Owner[b]] >= Hold[b]
              \/ \E c \in Jobs : Owner[c] = Owner[b] /\ PaidTwice(c)
        \/ status[b] = "cancelled" /\ b \in outrun

\* A completed job was charged, and exactly what its successful items cost:
\* MarkBatchImageJobSettled comes after CaptureBatchImageBalance.
CompletedIsCharged ==
    \A b \in Jobs : status[b] \in {"completed", "output_deleted"} =>
        /\ Claimed("capture", b)
        /\ charged[b] = cost[b]

\* The units of money that the holds of the jobs in S stand for.
Money(S) == UNION {{b} \X (1 .. Hold[b]) : b \in S}

OpenOf(u) == {b \in Jobs : Owner[b] = u /\ OpenHold(b)}
TwiceOf(u) == {b \in Jobs : Owner[b] = u /\ PaidTwice(b)}

\* frozen_balance is one pool per user, and neither the capture nor the
\* release looks at whose money is in it.  After any fault and any race it is
\* the sum of the open holds of the user, less the holds that were paid twice.
FrozenIsOpenHolds ==
    \A u \in Users : frozen[u] + Cardinality(Money(TwiceOf(u))) = Cardinality(Money(OpenOf(u)))

\* A hold is paid twice only by a settlement that gave up after MaxRetries
\* failures, one of which was a capture that had been committed
\* (settlement.go:223).  A worker that lost its lock may do it as well.
TwiceOnlyWhenExhausted ==
    "lock" \notin FaultKinds => \A b \in Jobs : PaidTwice(b) => retry[b] = MaxRetries

\* No job is charged from, or given, the money of another job's hold, but by a
\* settlement that gave up.
MoneyOnlyFromOwnHold == FrozenIsOpenHolds /\ TwiceOnlyWhenExhausted

\* A hold that is still frozen has something that will settle or release it:
\* a handler at work on the job, the queue, or the recovery, which lists
\* unsubmitted jobs.  (When Submit crashes or the queue fails just after the
\* submission, when the commit of a hold is reported as an error, and when a
\* worker loses its lock, the code may lose a hold.)
OpenHoldHasOwner ==
    \A b \in Jobs : OpenHold(b) =>
        \/ SubmitAlive(b)
        \/ cli[b] # "idle"
        \/ rec[b] # "idle"
        \/ b \in queue \/ \E w \in Workers : Working(w, b)
        \/ status[b] \in Unsubmitted /\ ~ named[b]

\* A finished job stays as it finished.  RecordBatchImageJobSubmitFailure
\* writes "failed" without looking, but the only finished job it can meet is a
\* cancelled one; stragglers that lost their lock do not revive a job.
TerminalIsFinal ==
    [][\A b \in Jobs : status[b] \in Terminal =>
        \/ status'[b] = status[b]
        \/ status[b] = "completed" /\ status'[b] = "output_deleted"
        \/ status[b] = "cancelled" /\ status'[b] = "failed"]_vars

\* Every hold is eventually captured or returned.
HoldIsResolved ==
    \A b \in Jobs : Claimed("hold", b) ~> (Claimed("capture", b) \/ b \in refunded)

=============================================================================
