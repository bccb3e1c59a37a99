-------------------------- MODULE BatchImage_proofs --------------------------
(***************************************************************************)
(* Proofs about the life of batch image jobs and their money, for any sets *)
(* of jobs, users and workers, any holds and balances, any bound on the    *)
(* retries, and any number of faults.  The faults are of any kind in the   *)
(* first half; Undisturbed, Reliable and Accountable exclude some in the   *)
(* second.                                                                 *)
(*                                                                         *)
(* The invariants that the runs check are not inductive: that no release   *)
(* pays back the hold of a job at the provider depends on where each       *)
(* handler is and on the statuses it may meet there.  IInv adds that.      *)
(***************************************************************************)
EXTENDS BatchImage, FiniteSetTheorems, TLAPS

\* Submit before its job can have reached the provider.
Early == {"reserve", "items", "upload", "provider", "persist", "releaseRecord",
          "releaseOnly", "releaseFailed", "releaseRetry", "record"}

\* Submit with the hold reserved and the job still to be submitted.
Reserved == {"items", "upload", "provider", "persist"}

AtProvider == {"submitted", "running", "indexing"}

\* Settlement has begun, or the job is over.
Settled == Terminal \union {"settling"}

\* A worker inside Settle.
SettlePC == {"capture", "mark", "recordFailure", "exhaustRelease", "exhaustFail",
             "releaseError"}

\* Only the submission itself moves its job to the provider.
EarlyStatus ==
    \A b \in Jobs : sub[b] \in Early => status[b] \in Unsubmitted \union {"failed", "cancelled"}

\* Cancel, the recovery and the provider processor release the hold of a job
\* only after they moved it, or found it moved, to a terminal status.
ReleaserStatus ==
    /\ \A b \in Jobs : cli[b] = "release" \/ rec[b] = "release" => status[b] \in Terminal
    /\ \A w \in Workers : wrk[w].pc = "release" => status[wrk[w].job] \in Terminal

\* Settle has seen its job settling, hence funded, and marks what it captured.
SettlerState ==
    \A w \in Workers :
        /\ wrk[w].pc \in SettlePC => /\ status[wrk[w].job] \in Settled
                                     /\ Claimed("hold", wrk[w].job)
        /\ wrk[w].pc = "mark" => Claimed("capture", wrk[w].job)

\* A job whose hold was returned will not reach the provider any more.
RefundedStatus ==
    \A b \in refunded : \/ status[b] \in Settled
                        \/ status[b] \in Unsubmitted /\ sub[b] \notin Reserved \union {"reserve"}

\* The cost of a captured job is final.
CapturedState ==
    \A b \in Jobs : Claimed("capture", b) => status[b] \in Settled /\ charged[b] = cost[b]

\* From Reserve to the settlement the job has its hold.
HoldState ==
    \A b \in Jobs :
        sub[b] \in Reserved \/ status[b] \in AtProvider \union {"settling"} => Claimed("hold", b)

\* Money is charged or given back only to a job that reserved it, and only a
\* claimed release gives it back.
HoldFirst ==
    \A b \in Jobs : /\ b \in refunded \/ Claimed("capture", b) => Claimed("hold", b)
                    /\ b \in refunded => Claimed("release", b)

IInv ==
    /\ TypeOK
    /\ EarlyStatus
    /\ ReleaserStatus
    /\ SettlerState
    /\ RefundedStatus
    /\ CapturedState
    /\ HoldState
    /\ CompletedIsCharged
    /\ HoldFirst

-----------------------------------------------------------------------------
(* The balance transactions *)

\* A balance transaction keeps the types of the ledger and no claim is ever
\* withdrawn from usage_billing_dedup.
LEMMA LedgerStep ==
  ASSUME LedgerTypeOK, NEW b \in Jobs,
         \/ Reserve(b) \/ Release(b) \/ UNCHANGED ledger
         \/ \E c \in Nat : Capture(b, c)
  PROVE  /\ LedgerTypeOK'
         /\ \A x \in Jobs : claims[x] \subseteq claims'[x]
  BY OwnerAssumption, HoldAssumption
  DEF LedgerTypeOK, Reserve, Release, Capture, Duplicate, Claim, Claimed, ClaimKinds, ledger

\* A hold that was reserved, or captured, has its claim, also when it had it before.
LEMMA ReserveClaims ==
  ASSUME LedgerTypeOK, NEW b \in Jobs, Reserve(b) PROVE "hold" \in claims'[b]
  BY DEF LedgerTypeOK, Reserve, Duplicate, Claim, Claimed, ledger

\* After a capture, made now or before, its claim is there.
LEMMA CaptureClaims ==
  ASSUME LedgerTypeOK, NEW b \in Jobs, NEW c \in Nat, Capture(b, c) PROVE "capture" \in claims'[b]
  BY DEF LedgerTypeOK, Capture, Duplicate, Claim, Claimed, ledger

-----------------------------------------------------------------------------
(* Types *)

\* A new installation has the right types.
LEMMA TypeInit == Init => TypeOK
<1> SUFFICES ASSUME Init PROVE TypeOK
  OBVIOUS
<1>1. LedgerTypeOK
  BY BalanceAssumption DEF Init, LedgerInit, LedgerTypeOK
<1>2. RowTypeOK
  BY RetryAssumption DEF Init, RowTypeOK, Status
<1>3. ProcsTypeOK
  BY JobsAssumption DEF Init, ProcsTypeOK, Idle, SubPC, CliPC, RecPC, WrkPC, Status
<1>4. EnvTypeOK
  BY DEF Init, EnvTypeOK, UpstreamState
<1>5. QED
  BY <1>1, <1>2, <1>3, <1>4 DEF TypeOK

\* A step of the submission keeps the types.
LEMMA TypeSubmit ==
  ASSUME TypeOK, NEW b \in Jobs,
         SubmitCreate(b) \/ SubmitStep(b) \/ SubmitHeartbeat(b) \/ SubmitCrash(b)
  PROVE  TypeOK'
<1> USE DEF SubmitCreate, SubmitStep, SubmitHeartbeat, SubmitCrash, SubmitReserve, SubmitItems,
            SubmitUpload, SubmitProvider, SubmitPersist, SubmitAbort, SubmitEnqueue,
            SubmitQueueFailed, SubmitRelease, SubmitRecord, SubmitHide, Hide, SubmitReleaseRetry
<1>1. LedgerTypeOK'
  BY LedgerStep DEF TypeOK, ReserveRefused, ReleaseRefused
<1>2. RowTypeOK'
  <2>1. status' \in [Jobs -> Status]
    BY DEF TypeOK, RowTypeOK, Status, Transition, SetStatus, row, procs
  <2>2. named' \in [Jobs -> BOOLEAN]
    BY DEF TypeOK, RowTypeOK, Status, Transition, SetStatus, row, procs
  <2>3. stale' \in [Jobs -> BOOLEAN]
    BY DEF TypeOK, RowTypeOK, Status, Transition, SetStatus, row, procs
  <2>4. retry' \in [Jobs -> 0 .. MaxRetries]
    BY DEF TypeOK, RowTypeOK, Status, Transition, SetStatus, row, procs
  <2>5. settleErr' \in [Jobs -> BOOLEAN]
    BY DEF TypeOK, RowTypeOK, Status, Transition, SetStatus, row, procs
  <2>6. cost' \in [Jobs -> Nat]
    BY DEF TypeOK, RowTypeOK, Status, Transition, SetStatus, row, procs
  <2>7. hidden' \in SUBSET Jobs
    BY DEF TypeOK, RowTypeOK, Status, Transition, SetStatus, row, procs
  <2>8. QED
    BY <2>1, <2>2, <2>3, <2>4, <2>5, <2>6, <2>7 DEF RowTypeOK
<1>3. ProcsTypeOK'
  BY DEF TypeOK, ProcsTypeOK, SubGo, SubPC, procs
<1>4. EnvTypeOK'
  BY DEF TypeOK, EnvTypeOK, Fault, NoFault, Enqueue, UpstreamCancel, UpstreamState
<1>5. QED
  BY <1>1, <1>2, <1>3, <1>4 DEF TypeOK

\* A step of the client's later requests keeps the types.
LEMMA TypeClient ==
  ASSUME TypeOK, NEW b \in Jobs, CliStart(b) \/ CliStep(b)
  PROVE  TypeOK'
<1> USE DEF CliStart, CliStep, CancelRead, CancelTarget, ResubmitRead, CancelProvider, CancelEnqueue,
            CancelJob, CancelRelease, CancelReleaseRetry, Resubmit
<1>1. LedgerTypeOK'
  BY LedgerStep DEF TypeOK, ReleaseRefused
<1>2. RowTypeOK'
  <2>1. status' \in [Jobs -> Status]
    BY DEF TypeOK, RowTypeOK, Status, Transition, SetStatus, row
  <2>2. named' \in [Jobs -> BOOLEAN]
    BY DEF TypeOK, RowTypeOK, Status, Transition, SetStatus, row
  <2>3. stale' \in [Jobs -> BOOLEAN]
    BY DEF TypeOK, RowTypeOK, Status, Transition, SetStatus, row
  <2>4. retry' \in [Jobs -> 0 .. MaxRetries]
    BY DEF TypeOK, RowTypeOK, Status, Transition, SetStatus, row
  <2>5. settleErr' \in [Jobs -> BOOLEAN]
    BY DEF TypeOK, RowTypeOK, Status, Transition, SetStatus, row
  <2>6. cost' \in [Jobs -> Nat]
    BY DEF TypeOK, RowTypeOK, Status, Transition, SetStatus, row
  <2>7. hidden' \in SUBSET Jobs
    BY DEF TypeOK, RowTypeOK, Status, Transition, SetStatus, row
  <2>8. QED
    BY <2>1, <2>2, <2>3, <2>4, <2>5, <2>6, <2>7 DEF RowTypeOK
<1>3. ProcsTypeOK'
  BY DEF TypeOK, ProcsTypeOK, CliGo, CliPC
<1>4. EnvTypeOK'
  BY DEF TypeOK, EnvTypeOK, Fault, NoFault, Enqueue, UpstreamCancel, UpstreamState
<1>5. QED
  BY <1>1, <1>2, <1>3, <1>4 DEF TypeOK

\* A step of the stale-submission recovery keeps the types.
LEMMA TypeRecovery ==
  ASSUME TypeOK, NEW b \in Jobs, RecoveryStep(b)
  PROVE  TypeOK'
<1> USE DEF RecoveryStep, RecoveryList, RecoveryFail, RecoveryRelease, RecoveryReleaseRetry
<1>1. LedgerTypeOK'
  BY LedgerStep DEF TypeOK, ReleaseRefused
<1>2. RowTypeOK'
  <2>1. status' \in [Jobs -> Status]
    BY DEF TypeOK, RowTypeOK, Status, SetStatus, row
  <2>2. named' \in [Jobs -> BOOLEAN]
    BY DEF TypeOK, RowTypeOK, Status, SetStatus, row
  <2>3. stale' \in [Jobs -> BOOLEAN]
    BY DEF TypeOK, RowTypeOK, Status, SetStatus, row
  <2>4. retry' \in [Jobs -> 0 .. MaxRetries]
    BY DEF TypeOK, RowTypeOK, Status, SetStatus, row
  <2>5. settleErr' \in [Jobs -> BOOLEAN]
    BY DEF TypeOK, RowTypeOK, Status, SetStatus, row
  <2>6. cost' \in [Jobs -> Nat]
    BY DEF TypeOK, RowTypeOK, Status, SetStatus, row
  <2>7. hidden' \in SUBSET Jobs
    BY DEF TypeOK, RowTypeOK, Status, SetStatus, row
  <2>8. QED
    BY <2>1, <2>2, <2>3, <2>4, <2>5, <2>6, <2>7 DEF RowTypeOK
<1>3. ProcsTypeOK'
  BY DEF TypeOK, ProcsTypeOK, RecGo, RecPC
<1>4. EnvTypeOK'
  BY DEF TypeOK, EnvTypeOK, Fault, NoFault, Enqueue
<1>5. QED
  BY <1>1, <1>2, <1>3, <1>4 DEF TypeOK

\* A step of the provider, of time or of the output cleanup keeps the types.
LEMMA TypeEnvironment ==
  ASSUME TypeOK, NEW b \in Jobs,
         UpstreamRuns(b) \/ Age(b) \/ LockExpires(b) \/ DeleteOutput(b) \/ DeleteRecord(b)
  PROVE  TypeOK'
<1> USE DEF UpstreamRuns, Age, LockExpires, DeleteOutput, DeleteRecord, Hide
<1>1. LedgerTypeOK'
  BY LedgerStep DEF TypeOK
<1>2. RowTypeOK'
  <2>1. status' \in [Jobs -> Status]
    BY DEF TypeOK, RowTypeOK, Status, SetStatus, row
  <2>2. named' \in [Jobs -> BOOLEAN]
    BY DEF TypeOK, RowTypeOK, Status, SetStatus, row
  <2>3. stale' \in [Jobs -> BOOLEAN]
    BY DEF TypeOK, RowTypeOK, Status, SetStatus, row
  <2>4. retry' \in [Jobs -> 0 .. MaxRetries]
    BY DEF TypeOK, RowTypeOK, Status, SetStatus, row
  <2>5. settleErr' \in [Jobs -> BOOLEAN]
    BY DEF TypeOK, RowTypeOK, Status, SetStatus, row
  <2>6. cost' \in [Jobs -> Nat]
    BY DEF TypeOK, RowTypeOK, Status, SetStatus, row
  <2>7. hidden' \in SUBSET Jobs
    BY DEF TypeOK, RowTypeOK, Status, SetStatus, row
  <2>8. QED
    BY <2>1, <2>2, <2>3, <2>4, <2>5, <2>6, <2>7 DEF RowTypeOK
<1>3. ProcsTypeOK'
  BY DEF TypeOK, ProcsTypeOK, procs
<1>4. EnvTypeOK'
  BY DEF TypeOK, EnvTypeOK, Fault, NoFault, UpstreamState
<1>5. QED
  BY <1>1, <1>2, <1>3, <1>4 DEF TypeOK

\* A step of a worker keeps the types.
LEMMA TypeWorker ==
  ASSUME TypeOK, NEW w \in Workers, NEW b \in Jobs,
         \/ b = wrk[w].job /\ WorkerStep(w)
         \/ WorkerCrash(w)
         \/ WorkerReserve(w, b)
  PROVE  TypeOK'
<1> USE DEF WorkerStep, WorkerDispatch, WorkerLoad, WorkerPoll, WorkerTransition, WorkerIndex,
            WorkerRelease, WorkerSettle, WorkerCapture, WorkerMark, WorkerRecordFailure,
            WorkerExhaustRelease, WorkerReleaseError, WorkerExhaustFail, WorkerSettleEnd,
            WorkerAck, WorkerRequeue, WorkerCrash, WorkerReserve
<1>1. LedgerTypeOK'
  BY LedgerStep DEF TypeOK, RowTypeOK, ReleaseRefused, CaptureRefused
<1>2. RowTypeOK'
  <2>1. status' \in [Jobs -> Status]
    BY DEF TypeOK, RowTypeOK, Status, Transition, SetStatus, Moves, CountFailure, row
  <2>2. named' \in [Jobs -> BOOLEAN]
    BY DEF TypeOK, RowTypeOK, Status, Transition, SetStatus, Moves, CountFailure, row
  <2>3. stale' \in [Jobs -> BOOLEAN]
    BY DEF TypeOK, RowTypeOK, Status, Transition, SetStatus, Moves, CountFailure, row
  <2>4. retry' \in [Jobs -> 0 .. MaxRetries]
    BY RetryAssumption DEF TypeOK, RowTypeOK, Status, Transition, SetStatus, Moves, CountFailure, row
  <2>5. settleErr' \in [Jobs -> BOOLEAN]
    BY DEF TypeOK, RowTypeOK, Status, Transition, SetStatus, Moves, CountFailure, row
  <2>6. cost' \in [Jobs -> Nat]
    BY HoldAssumption DEF TypeOK, RowTypeOK, Status, Transition, SetStatus, Moves, CountFailure, row
  <2>7. hidden' \in SUBSET Jobs
    BY DEF TypeOK, RowTypeOK, Status, Transition, SetStatus, Moves, CountFailure, row
  <2>8. QED
    BY <2>1, <2>2, <2>3, <2>4, <2>5, <2>6, <2>7 DEF RowTypeOK
<1>3. ProcsTypeOK'
  <2>1. LoadTarget(b) \in WrkPC /\ Idle \in [pc : WrkPC, job : Jobs, snap : Status]
    BY JobsAssumption DEF LoadTarget, Idle, WrkPC, Status
  <2>2. QED
    BY <2>1 DEF TypeOK, RowTypeOK, ProcsTypeOK, WrkGo, Unlock, Moves, WrkPC, Status
<1>4. EnvTypeOK'
  BY DEF TypeOK, EnvTypeOK, Fault, NoFault, Enqueue, Unlock
<1>5. QED
  BY <1>1, <1>2, <1>3, <1>4 DEF TypeOK

\* The type invariant is inductive.
LEMMA TypeStep == TypeOK /\ [Next]_vars => TypeOK'
<1>1. ASSUME TypeOK, UNCHANGED vars PROVE TypeOK'
  BY <1>1 DEF TypeOK, LedgerTypeOK, RowTypeOK, ProcsTypeOK, EnvTypeOK, vars, ledger, row, procs
<1>2. ASSUME TypeOK, NEW w \in Workers PROVE wrk[w].job \in Jobs
  BY <1>2 DEF TypeOK, ProcsTypeOK
<1>3. QED
  BY <1>1, <1>2, TypeSubmit, TypeClient, TypeRecovery, TypeEnvironment, TypeWorker
  DEF Next, JobStep

\* Types of the rows, of the queue and of every handler's program counter.
THEOREM TypeCorrect == Spec => []TypeOK
  BY TypeInit, TypeStep, PTL DEF Spec

-----------------------------------------------------------------------------
(* How a step changes the status and the money of a job *)

\* The changes of batch_image_jobs.status, with what their statements and
\* handlers guarantee.
Moved(b) ==
    \/ status'[b] = status[b]
    \/ status[b] = "none" /\ status'[b] = "created"
    \/ /\ CanTransition(status[b], status'[b])
       /\ status'[b] \notin {"completed", "output_deleted"}
       /\ status'[b] = "submitted" => sub[b] = "persist"
    \/ status[b] = "settling" /\ status'[b] = "completed" /\ Claimed("capture", b)
    \/ status[b] = "completed" /\ status'[b] = "output_deleted"
    \/ sub[b] \in Early /\ status'[b] = "failed"

\* Every step of the system changes the status of a job in one of these ways.
LEMMA StatusMoves == ASSUME IInv, [Next]_vars, NEW b \in Jobs PROVE Moved(b)
<1> USE DEF IInv, TypeOK, RowTypeOK, ProcsTypeOK, Moved, SetStatus
<1>1. ASSUME NEW c \in Jobs, SubmitCreate(c) \/ SubmitStep(c) \/ SubmitHeartbeat(c) \/ SubmitCrash(c)
      PROVE  Moved(b)
  BY <1>1
  DEF SubmitCreate, SubmitStep, SubmitHeartbeat, SubmitCrash, SubmitReserve, SubmitItems,
      SubmitUpload, SubmitProvider, SubmitPersist, SubmitAbort, SubmitEnqueue,
      SubmitQueueFailed, SubmitRelease, SubmitRecord, SubmitHide, Hide, SubmitReleaseRetry, Transition, Early, row
<1>2. ASSUME NEW c \in Jobs, CliStart(c) \/ CliStep(c) PROVE Moved(b)
  BY <1>2
  DEF CliStart, CliStep, CancelRead, CancelTarget, ResubmitRead, CancelProvider, CancelEnqueue,
      CancelJob, CancelRelease, CancelReleaseRetry, Resubmit, Transition, row
<1>3. ASSUME NEW c \in Jobs, RecoveryStep(c) PROVE Moved(b)
  BY <1>3
  DEF RecoveryStep, RecoveryList, RecoveryFail, RecoveryRelease, RecoveryReleaseRetry,
      StaleUnsubmitted, Unsubmitted, CanTransition, AllowedFrom, row
<1>4. ASSUME NEW c \in Jobs, UpstreamRuns(c) \/ Age(c) \/ LockExpires(c) \/ DeleteOutput(c) \/ DeleteRecord(c)
      PROVE  Moved(b)
  BY <1>4 DEF UpstreamRuns, Age, LockExpires, DeleteOutput, DeleteRecord, Hide, row
<1>5. ASSUME NEW w \in Workers, WorkerStep(w) PROVE Moved(b)
  <2> DEFINE c == wrk[w].job
  <2>1. CASE WorkerMark(w, c)
    BY <2>1 DEF WorkerMark, SettlerState, row
  <2>2. CASE WorkerTransition(w, c)
    BY <2>2 DEF WorkerTransition, Transition, Moves, row
  <2>3. CASE WorkerExhaustFail(w, c)
    BY <2>3 DEF WorkerExhaustFail, Transition, row
  <2>4. CASE UNCHANGED status
    BY <2>4
  <2>5. QED
    BY <1>5, <2>1, <2>2, <2>3, <2>4
    DEF WorkerStep, WorkerDispatch, WorkerLoad, WorkerPoll, WorkerIndex, WorkerRelease,
        WorkerSettle, WorkerCapture, WorkerRecordFailure, WorkerExhaustRelease,
        WorkerReleaseError, WorkerSettleEnd, WorkerAck, WorkerRequeue, CountFailure, row
<1>6. ASSUME NEW w \in Workers, WorkerCrash(w) \/ \E c \in Jobs : WorkerReserve(w, c)
      PROVE  Moved(b)
  BY <1>6 DEF WorkerCrash, WorkerReserve, row
<1>7. CASE UNCHANGED vars
  BY <1>7 DEF vars, row
<1>8. QED
  BY <1>1, <1>2, <1>3, <1>4, <1>5, <1>6, <1>7 DEF Next, JobStep

\* Who may take the money of a job out of frozen_balance, and on what.
MoneyMoved(b) ==
    /\ claims[b] \subseteq claims'[b]
    /\ b \in refunded => b \in refunded'
    /\ "hold" \in claims'[b] => Claimed("hold", b) \/ sub[b] = "reserve"
    /\ b \in refunded' \ refunded =>
        /\ Claimed("hold", b)
        /\ "release" \in claims'[b]
        /\ \/ sub[b] \in {"releaseRecord", "releaseOnly"}
              /\ sub'[b] \notin Reserved \union {"reserve"}
           \/ cli[b] = "release" \/ rec[b] = "release"
           \/ \E w \in Workers : wrk[w].job = b /\ wrk[w].pc \in {"release", "exhaustRelease"}
    /\ "capture" \in claims'[b] /\ ~ Claimed("capture", b) =>
        /\ charged'[b] = cost[b]
        /\ cost'[b] = cost[b]
        /\ \E w \in Workers : wrk[w].job = b /\ wrk[w].pc = "capture"
    /\ Claimed("capture", b) => charged'[b] = charged[b]
    /\ cost'[b] # cost[b] => status[b] = "indexing"

\* Every step of the system changes the money of a job in this way only.
LEMMA MoneyMoves == ASSUME IInv, [Next]_vars, NEW b \in Jobs PROVE MoneyMoved(b)
<1> USE DEF IInv, TypeOK, LedgerTypeOK, RowTypeOK, ProcsTypeOK, MoneyMoved, Claimed,
            Reserve, Release, Capture, Claim, Duplicate, ledger
<1>1. ASSUME NEW c \in Jobs, SubmitCreate(c) \/ SubmitStep(c) \/ SubmitHeartbeat(c) \/ SubmitCrash(c)
      PROVE  MoneyMoved(b)
  BY <1>1
  DEF SubmitCreate, SubmitStep, SubmitHeartbeat, SubmitCrash, SubmitReserve, SubmitItems,
      SubmitUpload, SubmitProvider, SubmitPersist, SubmitAbort, SubmitEnqueue,
      SubmitQueueFailed, SubmitRelease, SubmitRecord, SubmitHide, Hide, SubmitReleaseRetry, SubGo,
      ReserveRefused, ReleaseRefused, Transition, Reserved, row
<1>2. ASSUME NEW c \in Jobs, CliStart(c) \/ CliStep(c) PROVE MoneyMoved(b)
  BY <1>2
  DEF CliStart, CliStep, CancelRead, CancelTarget, ResubmitRead, CancelProvider, CancelEnqueue,
      CancelJob, CancelRelease, CancelReleaseRetry, Resubmit, ReleaseRefused, Transition, row
<1>3. ASSUME NEW c \in Jobs, RecoveryStep(c) PROVE MoneyMoved(b)
  BY <1>3
  DEF RecoveryStep, RecoveryList, RecoveryFail, RecoveryRelease, RecoveryReleaseRetry,
      ReleaseRefused, row
<1>4. ASSUME NEW c \in Jobs, UpstreamRuns(c) \/ Age(c) \/ LockExpires(c) \/ DeleteOutput(c) \/ DeleteRecord(c)
      PROVE  MoneyMoved(b)
  BY <1>4 DEF UpstreamRuns, Age, LockExpires, DeleteOutput, DeleteRecord, Hide, row
<1>5. ASSUME NEW w \in Workers, WorkerStep(w) PROVE MoneyMoved(b)
  <2> DEFINE c == wrk[w].job
  <2>1. CASE WorkerRelease(w, c)
    BY <2>1 DEF WorkerRelease, ReleaseRefused, row
  <2>2. CASE WorkerExhaustRelease(w, c)
    BY <2>2 DEF WorkerExhaustRelease, ReleaseRefused, row
  <2>3. CASE WorkerCapture(w, c)
    BY <2>3 DEF WorkerCapture, CaptureRefused, row
  <2>4. CASE WorkerIndex(w, c)
    BY <2>4 DEF WorkerIndex, row
  <2>5. CASE UNCHANGED <<ledger, cost>>
    BY <2>5
  <2>6. QED
    BY <1>5, <2>1, <2>2, <2>3, <2>4, <2>5
    DEF WorkerStep, WorkerDispatch, WorkerLoad, WorkerPoll, WorkerTransition, WorkerSettle,
        WorkerMark, WorkerRecordFailure, WorkerReleaseError, WorkerExhaustFail,
        WorkerSettleEnd, WorkerAck, WorkerRequeue, CountFailure, Transition, row
<1>6. ASSUME NEW w \in Workers, WorkerCrash(w) \/ \E c \in Jobs : WorkerReserve(w, c)
      PROVE  MoneyMoved(b)
  BY <1>6 DEF WorkerCrash, WorkerReserve, row
<1>7. CASE UNCHANGED vars
  BY <1>7 DEF vars, row
<1>8. QED
  BY <1>1, <1>2, <1>3, <1>4, <1>5, <1>6, <1>7 DEF Next, JobStep

-----------------------------------------------------------------------------
(* How a step moves the handlers of a job *)

\* Submit stays on its path to the provider only while nothing released the
\* hold, and leaves it when the job is submitted.
SubMoved(b) ==
    /\ sub'[b] \in Early => sub[b] \in Early \/ status'[b] = "created"
    /\ sub'[b] \in Reserved => sub[b] \in Reserved \/ "hold" \in claims'[b]
    /\ sub'[b] \in Reserved \union {"reserve"} =>
        sub[b] \in Reserved \union {"reserve"} \/ status[b] = "none"
    /\ status'[b] = "submitted" => status[b] = "submitted" \/ sub'[b] \notin Early

\* The two other requests that release a hold have seen the job over.
ReleaserMoved(b) ==
    /\ cli'[b] = "release" => cli[b] = "release" \/ status'[b] \in Terminal
    /\ rec'[b] = "release" => rec[b] = "release" \/ status'[b] \in Terminal

WorkerMoved(w) ==
    LET b == wrk'[w].job
        stays == wrk[w].job = b
    IN
    /\ wrk'[w].pc = "release" => (stays /\ wrk[w].pc = "release") \/ status'[b] \in Terminal
    /\ wrk'[w].pc \in SettlePC => stays /\ (wrk[w].pc \in SettlePC \/ status[b] = "settling")
    /\ wrk'[w].pc = "mark" => (stays /\ wrk[w].pc = "mark") \/ "capture" \in claims'[b]

\* Submit, Cancel and the recovery move their program counters like this.
LEMMA HandlerMoves ==
  ASSUME IInv, [Next]_vars, NEW b \in Jobs PROVE SubMoved(b) /\ ReleaserMoved(b)
<1> DEFINE Goal == SubMoved(b) /\ ReleaserMoved(b)
<1> USE DEF IInv, TypeOK, RowTypeOK, ProcsTypeOK, SubMoved, ReleaserMoved, SetStatus,
            Early, Reserved
<1>1. ASSUME NEW c \in Jobs, SubmitCreate(c) PROVE Goal
  BY <1>1 DEF SubmitCreate, SubGo
<1>2. ASSUME NEW c \in Jobs, SubmitReserve(c) PROVE Goal
  <2>1. LedgerTypeOK /\ UNCHANGED <<cli, rec, status>>
    BY <1>2 DEF SubmitReserve, SubGo, row
  <2>2. \/ sub' = [sub EXCEPT ![c] = "record"]
        \/ sub' = [sub EXCEPT ![c] = "items"] /\ "hold" \in claims'[c]
    <3>1. Reserve(c) => "hold" \in claims'[c]
      BY <2>1, ReserveClaims
    <3>2. QED
      BY <1>2, <3>1, Zenon DEF SubmitReserve, SubGo
  <2>3. QED
    BY <1>2, <2>1, <2>2 DEF SubmitReserve
<1>3. ASSUME NEW c \in Jobs, SubmitUpload(c) \/ SubmitPersist(c) PROVE Goal
  BY <1>3 DEF SubmitUpload, SubmitPersist, SubGo, Transition, row
<1>4. ASSUME NEW c \in Jobs,
             \/ SubmitItems(c) \/ SubmitProvider(c) \/ SubmitAbort(c) \/ SubmitEnqueue(c)
             \/ SubmitQueueFailed(c) \/ SubmitRelease(c) \/ SubmitRecord(c)
             \/ SubmitHide(c) \/ SubmitReleaseRetry(c) \/ SubmitCrash(c) \/ SubmitHeartbeat(c)
      PROVE  Goal
  BY <1>4
  DEF SubmitItems, SubmitProvider, SubmitAbort, SubmitEnqueue, SubmitQueueFailed, SubmitRelease,
      SubmitRecord, SubmitHide, Hide, SubmitReleaseRetry, SubmitCrash, SubmitHeartbeat, SubGo, row, procs
<1>5. ASSUME NEW c \in Jobs, CliStart(c) \/ CliStep(c) PROVE Goal
  BY <1>5
  DEF CliStart, CliStep, CancelRead, CancelTarget, ResubmitRead, CancelProvider, CancelEnqueue, CancelJob,
      CancelRelease, CancelReleaseRetry, Resubmit, CliGo, Transition, Terminal, row
<1>6. ASSUME NEW c \in Jobs, RecoveryStep(c) PROVE Goal
  BY <1>6
  DEF RecoveryStep, RecoveryList, RecoveryFail, RecoveryRelease, RecoveryReleaseRetry, RecGo,
      Terminal, row
<1>7. ASSUME NEW c \in Jobs, UpstreamRuns(c) \/ Age(c) \/ LockExpires(c) \/ DeleteOutput(c) \/ DeleteRecord(c)
      PROVE  Goal
  BY <1>7 DEF UpstreamRuns, Age, LockExpires, DeleteOutput, DeleteRecord, Hide, row, procs
<1>8. ASSUME UNCHANGED <<sub, cli, rec>>, status'[b] # "submitted" \/ status[b] = "submitted"
      PROVE  Goal
  BY <1>8
<1>9. ASSUME NEW w \in Workers, WorkerStep(w) PROVE Goal
  <2>1. UNCHANGED <<sub, cli, rec>>
    BY <1>9
    DEF WorkerStep, WorkerDispatch, WorkerLoad, WorkerPoll, WorkerTransition, WorkerIndex,
        WorkerRelease, WorkerSettle, WorkerCapture, WorkerMark, WorkerRecordFailure,
        WorkerExhaustRelease, WorkerReleaseError, WorkerExhaustFail, WorkerSettleEnd,
        WorkerAck, WorkerRequeue, WrkGo, Unlock
  <2>2. status'[b] # "submitted" \/ status[b] = "submitted"
    BY <1>9
    DEF WorkerStep, WorkerDispatch, WorkerLoad, WorkerPoll, WorkerTransition, WorkerIndex,
        WorkerRelease, WorkerSettle, WorkerCapture, WorkerMark, WorkerRecordFailure,
        WorkerExhaustRelease, WorkerReleaseError, WorkerExhaustFail, WorkerSettleEnd,
        WorkerAck, WorkerRequeue, CountFailure, Transition, Moves, row
  <2>3. QED
    BY <1>8, <2>1, <2>2
<1>10. ASSUME NEW w \in Workers, WorkerCrash(w) \/ \E c \in Jobs : WorkerReserve(w, c) PROVE Goal
  BY <1>10 DEF WorkerCrash, WorkerReserve, row
<1>11. CASE UNCHANGED vars
  BY <1>11 DEF vars, row, procs
<1>12. QED
  BY <1>1, <1>2, <1>3, <1>4, <1>5, <1>6, <1>7, <1>9, <1>10, <1>11
  DEF Next, JobStep, SubmitStep

\* A worker moves its program counter like this.
LEMMA WorkerMoves ==
  ASSUME IInv, [Next]_vars, NEW w \in Workers PROVE WorkerMoved(w)
<1> USE DEF IInv, TypeOK, RowTypeOK, ProcsTypeOK, WorkerMoved, SettlePC
<1>1. ASSUME wrk'[w] = wrk[w] PROVE WorkerMoved(w)
  BY <1>1 DEF SettlerState
<1>2. ASSUME UNCHANGED wrk PROVE WorkerMoved(w)
  BY <1>1, <1>2
<1>3. ASSUME NEW c \in Jobs, JobStep(c) PROVE UNCHANGED wrk
  BY <1>3
  DEF JobStep, SubmitCreate, SubmitStep, SubmitHeartbeat, SubmitCrash, SubmitReserve, SubmitItems,
      SubmitUpload, SubmitProvider, SubmitPersist, SubmitAbort, SubmitEnqueue,
      SubmitQueueFailed, SubmitRelease, SubmitRecord, SubmitHide, Hide, SubmitReleaseRetry, SubGo,
      CliStart, CliStep, CancelRead, CancelTarget, ResubmitRead, CancelProvider, CancelEnqueue, CancelJob,
      CancelRelease, CancelReleaseRetry, Resubmit, CliGo,
      RecoveryStep, RecoveryList, RecoveryFail, RecoveryRelease, RecoveryReleaseRetry, RecGo,
      UpstreamRuns, Age, LockExpires, DeleteOutput, DeleteRecord, Hide, procs
<1>4. ASSUME NEW v \in Workers, v # w,
             WorkerStep(v) \/ WorkerCrash(v) \/ \E c \in Jobs : WorkerReserve(v, c)
      PROVE  wrk'[w] = wrk[w]
  BY <1>4
  DEF WorkerStep, WorkerDispatch, WorkerLoad, WorkerPoll, WorkerTransition, WorkerIndex,
      WorkerRelease, WorkerSettle, WorkerCapture, WorkerMark, WorkerRecordFailure,
      WorkerExhaustRelease, WorkerReleaseError, WorkerExhaustFail, WorkerSettleEnd,
      WorkerAck, WorkerRequeue, WrkGo, Unlock, WorkerCrash, WorkerReserve
<1>5. ASSUME NEW b \in Jobs, b = wrk[w].job, WorkerStep(w) PROVE WorkerMoved(w)
  <2> USE <1>5
  <2>1. CASE WorkerLoad(w, b)
    BY <2>1 DEF WorkerLoad, LoadTarget, Terminal, WrkGo, row
  <2>2. CASE WorkerTransition(w, b)
    BY <2>2 DEF WorkerTransition, Transition, SetStatus, Moves, WrkGo, Terminal, row
  <2>3. CASE WorkerSettle(w, b)
    BY <2>3 DEF WorkerSettle, WrkGo, row
  <2>4. CASE WorkerCapture(w, b)
    <3>1. cost[b] \in Nat
      OBVIOUS
    <3>2. Capture(b, cost[b]) => "capture" \in claims'[b]
      BY <3>1, CaptureClaims
    <3>3. /\ \/ wrk' = [wrk EXCEPT ![w].pc = "recordFailure"]
             \/ wrk' = [wrk EXCEPT ![w].pc = "mark"] /\ Capture(b, cost[b])
          /\ wrk[w].pc = "capture"
      BY <2>4, Zenon DEF WorkerCapture, WrkGo
    <3>4. QED
      BY <3>1, <3>2, <3>3
  <2>5. CASE WorkerDispatch(w, b) \/ WorkerPoll(w, b) \/ WorkerIndex(w, b) \/ WorkerRelease(w, b)
    BY <2>5 DEF WorkerDispatch, WorkerPoll, WorkerIndex, WorkerRelease, WrkGo
  <2>6. CASE \/ WorkerMark(w, b) \/ WorkerRecordFailure(w, b) \/ WorkerExhaustRelease(w, b)
             \/ WorkerReleaseError(w, b) \/ WorkerExhaustFail(w, b) \/ WorkerSettleEnd(w, b)
    BY <2>6
    DEF WorkerMark, WorkerRecordFailure, WorkerExhaustRelease, WorkerReleaseError,
        WorkerExhaustFail, WorkerSettleEnd, WrkGo
  <2>7. CASE WorkerAck(w, b) \/ WorkerRequeue(w, b)
    BY <2>7 DEF WorkerAck, WorkerRequeue, Unlock, Idle
  <2>8. QED
    BY <2>1, <2>2, <2>3, <2>4, <2>5, <2>6, <2>7 DEF WorkerStep
<1>6. CASE WorkerCrash(w)
  BY <1>6 DEF WorkerCrash, Idle
<1>7. ASSUME NEW c \in Jobs, WorkerReserve(w, c) PROVE WorkerMoved(w)
  BY <1>7 DEF WorkerReserve
<1>8. CASE UNCHANGED vars
  BY <1>2, <1>8 DEF vars, procs
<1>9. wrk[w].job \in Jobs
  OBVIOUS
<1>10. QED
  BY <1>1, <1>2, <1>3, <1>4, <1>5, <1>6, <1>7, <1>8, <1>9 DEF Next

-----------------------------------------------------------------------------
(* The inductive invariant *)

\* The invariant holds before the first job.
LEMMA InvInit == Init => IInv
<1> SUFFICES ASSUME Init PROVE IInv
  OBVIOUS
<1>1. TypeOK
  BY TypeInit
<1>2. \A w \in Workers : wrk[w].pc = "idle"
  BY DEF Init, Idle
<1>3. ReleaserStatus /\ SettlerState
  BY <1>2 DEF Init, ReleaserStatus, SettlerState, SettlePC
<1>4. EarlyStatus /\ HoldState
  BY DEF Init, EarlyStatus, HoldState, Early, Reserved, AtProvider
<1>5. RefundedStatus /\ CapturedState /\ CompletedIsCharged /\ HoldFirst
  BY DEF Init, LedgerInit, RefundedStatus, CapturedState, CompletedIsCharged, HoldFirst, Claimed
<1>6. QED
  BY <1>1, <1>3, <1>4, <1>5 DEF IInv

\* Every step keeps it, whichever handlers run at the same time.
LEMMA InvStep == IInv /\ [Next]_vars => IInv'
<1> SUFFICES ASSUME IInv, [Next]_vars
             PROVE  IInv'
  OBVIOUS
<1>1. TypeOK'
  BY TypeStep DEF IInv
<1>2. \A b \in Jobs : Moved(b) /\ MoneyMoved(b) /\ SubMoved(b) /\ ReleaserMoved(b)
  BY StatusMoves, MoneyMoves, HandlerMoves
<1>3. \A w \in Workers : WorkerMoved(w) /\ wrk[w].job \in Jobs /\ wrk'[w].job \in Jobs
  BY <1>1, WorkerMoves DEF IInv, TypeOK, ProcsTypeOK
<1>4. \A b \in Jobs : /\ status[b] \in Terminal => status'[b] \in Terminal
                      /\ status[b] \in Settled => status'[b] \in Settled
  BY <1>2 DEF Moved, Terminal, Settled, CanTransition, AllowedFrom, IInv, EarlyStatus, Unsubmitted
<1>5. EarlyStatus'
  BY <1>2
  DEF IInv, EarlyStatus, Moved, SubMoved, CanTransition, AllowedFrom, Unsubmitted, Early
<1>6. ReleaserStatus'
  BY <1>2, <1>3, <1>4 DEF IInv, ReleaserStatus, ReleaserMoved, WorkerMoved
<1>7. SettlerState'
  BY <1>2, <1>3, <1>4
  DEF IInv, SettlerState, HoldState, WorkerMoved, MoneyMoved, Claimed, Settled, SettlePC
<1>8. RefundedStatus'
  <2> SUFFICES ASSUME NEW b \in Jobs, b \in refunded'
               PROVE  \/ status'[b] \in Settled
                      \/ status'[b] \in Unsubmitted /\ sub'[b] \notin Reserved \union {"reserve"}
    BY <1>1 DEF RefundedStatus, TypeOK, LedgerTypeOK
  <2>1. CASE b \in refunded
    BY <2>1, <1>2, <1>4
    DEF IInv, RefundedStatus, Moved, SubMoved, CanTransition, AllowedFrom, Unsubmitted,
        Settled, Terminal, Reserved
  <2>2. CASE b \notin refunded
    <3>1. CASE sub[b] \in {"releaseRecord", "releaseOnly"} /\ sub'[b] \notin Reserved \union {"reserve"}
      BY <3>1, <1>2
      DEF IInv, EarlyStatus, Moved, CanTransition, AllowedFrom, Unsubmitted, Settled, Terminal, Early
    <3>2. CASE \/ cli[b] = "release" \/ rec[b] = "release"
               \/ \E w \in Workers : wrk[w].job = b /\ wrk[w].pc \in {"release", "exhaustRelease"}
      BY <3>2, <1>4 DEF IInv, ReleaserStatus, SettlerState, Settled, SettlePC
    <3>3. QED
      BY <2>2, <3>1, <3>2, <1>2 DEF MoneyMoved
  <2>3. QED
    BY <2>1, <2>2
<1>9. CapturedState'
  <2> SUFFICES ASSUME NEW b \in Jobs, "capture" \in claims'[b]
               PROVE  status'[b] \in Settled /\ charged'[b] = cost'[b]
    BY DEF CapturedState, Claimed
  <2>1. CASE Claimed("capture", b)
    BY <2>1, <1>2, <1>4 DEF IInv, CapturedState, MoneyMoved, Settled, Terminal
  <2>2. CASE ~ Claimed("capture", b)
    BY <2>2, <1>2, <1>4 DEF IInv, SettlerState, MoneyMoved, SettlePC
  <2>3. QED
    BY <2>1, <2>2
<1>10. HoldState'
  BY <1>2
  DEF IInv, HoldState, MoneyMoved, Moved, SubMoved, Claimed, CanTransition, AllowedFrom,
      AtProvider, Reserved
<1>11. CompletedIsCharged'
  <2> SUFFICES ASSUME NEW b \in Jobs, status'[b] \in {"completed", "output_deleted"}
               PROVE  "capture" \in claims'[b]
    BY <1>9 DEF CompletedIsCharged, CapturedState, Claimed
  <2>1. QED
    BY <1>2 DEF IInv, CompletedIsCharged, Moved, MoneyMoved, Claimed
<1>12. HoldFirst'
  <2>1. ASSUME NEW b \in Jobs, b \in refunded' \/ "capture" \in claims'[b]
        PROVE  "hold" \in claims'[b]
    <3>1. Claimed("hold", b)
      BY <1>2, <2>1 DEF IInv, HoldFirst, MoneyMoved, SettlerState, SettlePC, Claimed
    <3> QED
      BY <3>1, <1>2 DEF MoneyMoved, Claimed
  <2>2. ASSUME NEW b \in Jobs, b \in refunded' PROVE "release" \in claims'[b]
    BY <1>2, <2>2 DEF IInv, HoldFirst, MoneyMoved, Claimed
  <2> QED
    BY <2>1, <2>2 DEF HoldFirst, Claimed
<1>13. QED
  BY <1>1, <1>5, <1>6, <1>7, <1>8, <1>9, <1>10, <1>11, <1>12 DEF IInv

\* Every reachable state satisfies the inductive invariant.
THEOREM Invariance == Spec => []IInv
  BY InvInit, InvStep, PTL DEF Spec

\* A completed job was charged exactly its cost.
THEOREM Charged == Spec => []CompletedIsCharged
  BY Invariance, PTL DEF IInv

\* A finished job stays as it finished.
THEOREM Final == Spec => TerminalIsFinal
<1>1. IInv /\ [Next]_vars =>
        [\A b \in Jobs : status[b] \in Terminal =>
          \/ status'[b] = status[b]
          \/ status[b] = "completed" /\ status'[b] = "output_deleted"
          \/ status[b] = "cancelled" /\ status'[b] = "failed"]_vars
  BY StatusMoves
  DEF Moved, Terminal, CanTransition, AllowedFrom, IInv, EarlyStatus, Unsubmitted
<1>2. QED
  BY <1>1, Invariance, PTL DEF Spec, TerminalIsFinal

-----------------------------------------------------------------------------
(* The balance transactions of a step *)

\* The money of the jobs moves by the three balance transactions only.
LedgerMoved ==
    \/ UNCHANGED ledger
    \/ \E c \in Jobs : Reserve(c) \/ Release(c)
    \/ \E w \in Workers : wrk[w].pc = "capture" /\ Capture(wrk[w].job, cost[wrk[w].job])

\* Every step of the system is at most one balance transaction.
LEMMA LedgerMoves == TypeOK /\ [Next]_vars => LedgerMoved
<1> SUFFICES ASSUME TypeOK, [Next]_vars PROVE LedgerMoved
  OBVIOUS
<1>1. ASSUME NEW c \in Jobs, JobStep(c) PROVE LedgerMoved
  <2>1. CASE SubmitReserve(c) \/ SubmitRelease(c) \/ CancelRelease(c) \/ RecoveryRelease(c)
    BY <2>1 DEF LedgerMoved, SubmitReserve, SubmitRelease, CancelRelease, RecoveryRelease,
                ReserveRefused, ReleaseRefused
  <2>2. CASE UNCHANGED ledger
    BY <2>2 DEF LedgerMoved
  <2> QED
    BY <1>1, <2>1, <2>2
    DEF JobStep, SubmitCreate, SubmitStep, SubmitHeartbeat, SubmitCrash, SubmitItems,
        SubmitUpload, SubmitProvider, SubmitPersist, SubmitAbort, SubmitEnqueue,
        SubmitQueueFailed, SubmitRecord, SubmitHide, Hide, SubmitReleaseRetry,
        CliStart, CliStep, CancelRead, CancelTarget, ResubmitRead, CancelProvider, CancelEnqueue, CancelJob,
        CancelReleaseRetry, Resubmit, RecoveryStep, RecoveryList, RecoveryFail,
        RecoveryReleaseRetry, UpstreamRuns, Age, LockExpires, DeleteOutput, DeleteRecord
<1>2. ASSUME NEW w \in Workers, WorkerStep(w) PROVE LedgerMoved
  <2> DEFINE c == wrk[w].job
  <2>1. CASE WorkerCapture(w, c)
    BY <2>1 DEF LedgerMoved, WorkerCapture, CaptureRefused
  <2>2. CASE WorkerRelease(w, c) \/ WorkerExhaustRelease(w, c)
    <3>1. c \in Jobs
      BY DEF TypeOK, ProcsTypeOK
    <3> QED
      BY <2>2, <3>1 DEF LedgerMoved, WorkerRelease, WorkerExhaustRelease, ReleaseRefused
  <2>3. CASE UNCHANGED ledger
    BY <2>3 DEF LedgerMoved
  <2> QED
    BY <1>2, <2>1, <2>2, <2>3
    DEF WorkerStep, WorkerDispatch, WorkerLoad, WorkerPoll, WorkerTransition, WorkerIndex,
        WorkerSettle, WorkerMark, WorkerRecordFailure, WorkerReleaseError, WorkerExhaustFail,
        WorkerSettleEnd, WorkerAck, WorkerRequeue
<1>3. ASSUME NEW w \in Workers, WorkerCrash(w) \/ \E c \in Jobs : WorkerReserve(w, c)
      PROVE  LedgerMoved
  BY <1>3 DEF WorkerCrash, WorkerReserve, LedgerMoved
<1>4. CASE UNCHANGED vars
  BY <1>4 DEF vars, LedgerMoved
<1> QED
  BY <1>1, <1>2, <1>3, <1>4 DEF Next

-----------------------------------------------------------------------------
(* The pool.  frozen_balance of a user is the sum of the open holds less the  *)
(* holds that were paid twice, whatever fails and whoever runs at the same    *)
(* time: each transaction claims its request id with the money it moves.      *)

\* One more hold is worth its amount more.
LEMMA MoneyAdd ==
  ASSUME NEW S \in SUBSET Jobs, NEW b \in Jobs, b \notin S, IsFiniteSet(Money(S))
  PROVE  /\ IsFiniteSet(Money(S \union {b}))
         /\ Cardinality(Money(S \union {b})) = Cardinality(Money(S)) + Hold[b]
<1> DEFINE own == {b} \X (1 .. Hold[b])
<1>1. Hold[b] \in Nat \ {0}
  BY HoldAssumption
<1>2. IsFiniteSet(1 .. Hold[b]) /\ Cardinality(1 .. Hold[b]) = Hold[b]
  BY <1>1, FS_Interval
<1>3. IsFiniteSet({b}) /\ Cardinality({b}) = 1
  BY FS_Singleton
<1>4. IsFiniteSet(own) /\ Cardinality(own) = 1 * Hold[b]
  BY <1>2, <1>3, FS_Product
<1>5. Money(S \union {b}) = Money(S) \union own
  BY DEF Money
<1>6. Money(S) \cap own = {}
  BY DEF Money
<1> HIDE DEF own
<1>7. /\ IsFiniteSet(Money(S) \union own)
      /\ Cardinality(Money(S) \union own) =
           Cardinality(Money(S)) + Cardinality(own) - Cardinality(Money(S) \cap own)
  BY <1>4, FS_Union
<1>8. Cardinality(Money(S) \cap own) = 0
  BY <1>6, FS_EmptySet
<1>9. Cardinality(Money(S)) \in Nat
  BY FS_CardinalityType
<1>10. Cardinality(Money(S) \union own) = Cardinality(Money(S)) + Hold[b]
  BY <1>1, <1>4, <1>7, <1>8, <1>9
<1> QED
  BY <1>5, <1>7, <1>10

\* One hold less is worth its amount less.
LEMMA MoneyRemove ==
  ASSUME NEW S \in SUBSET Jobs, NEW b \in S, IsFiniteSet(Money(S))
  PROVE  /\ IsFiniteSet(Money(S \ {b}))
         /\ Cardinality(Money(S \ {b})) = Cardinality(Money(S)) - Hold[b]
<1>1. Money(S \ {b}) \subseteq Money(S)
  BY DEF Money
<1>2. IsFiniteSet(Money(S \ {b}))
  BY <1>1, FS_Subset
<1>3. (S \ {b}) \union {b} = S
  OBVIOUS
<1>4. Cardinality(Money(S)) = Cardinality(Money(S \ {b})) + Hold[b]
  BY <1>2, <1>3, MoneyAdd
<1>5. Cardinality(Money(S \ {b})) \in Nat /\ Hold[b] \in Nat
  BY <1>2, FS_CardinalityType, HoldAssumption
<1> QED
  BY <1>2, <1>4, <1>5

PoolInv ==
    /\ FrozenIsOpenHolds
    /\ \A u \in Users : IsFiniteSet(Money(OpenOf(u))) /\ IsFiniteSet(Money(TwiceOf(u)))

\* A hold is opened, closed, or paid a second time, with its money; nothing
\* else changes.
LEMMA PoolOfOne ==
  ASSUME TypeOK, PoolInv, NEW c \in Jobs,
         \A b \in Jobs \ {c} : (OpenHold(b)' <=> OpenHold(b)) /\ (PaidTwice(b)' <=> PaidTwice(b)),
         \/ /\ ~ OpenHold(c) /\ OpenHold(c)' /\ (PaidTwice(c)' <=> PaidTwice(c))
            /\ frozen' = [frozen EXCEPT ![Owner[c]] = @ + Hold[c]]
         \/ /\ OpenHold(c) /\ ~ OpenHold(c)' /\ (PaidTwice(c)' <=> PaidTwice(c))
            /\ frozen' = [frozen EXCEPT ![Owner[c]] = @ - Hold[c]]
         \/ /\ ~ PaidTwice(c) /\ PaidTwice(c)' /\ (OpenHold(c)' <=> OpenHold(c))
            /\ frozen' = [frozen EXCEPT ![Owner[c]] = @ - Hold[c]]
         \/ /\ (PaidTwice(c)' <=> PaidTwice(c)) /\ (OpenHold(c)' <=> OpenHold(c))
            /\ frozen' = frozen
  PROVE  PoolInv'
<1> DEFINE o == Owner[c]
<1>1. /\ o \in Users /\ Hold[c] \in Nat
      /\ \A u \in Users : frozen[u] \in Int
  BY OwnerAssumption, HoldAssumption DEF TypeOK, LedgerTypeOK
<1>2. \A u \in Users : /\ OpenOf(u) \in SUBSET Jobs /\ TwiceOf(u) \in SUBSET Jobs
                       /\ Cardinality(Money(OpenOf(u))) \in Nat
                       /\ Cardinality(Money(TwiceOf(u))) \in Nat
  BY FS_CardinalityType DEF PoolInv, OpenOf, TwiceOf
<1>3. \A u \in Users \ {o} : OpenOf(u)' = OpenOf(u) /\ TwiceOf(u)' = TwiceOf(u)
  BY DEF OpenOf, TwiceOf
<1>4. \A u \in Users \ {o} : frozen'[u] = frozen[u]
  BY DEF TypeOK, LedgerTypeOK
<1>5. /\ IsFiniteSet(Money(OpenOf(o)')) /\ IsFiniteSet(Money(TwiceOf(o)'))
      /\ frozen'[o] + Cardinality(Money(TwiceOf(o)')) = Cardinality(Money(OpenOf(o)'))
  <2>0. /\ IsFiniteSet(Money(OpenOf(o))) /\ IsFiniteSet(Money(TwiceOf(o)))
        /\ frozen[o] + Cardinality(Money(TwiceOf(o))) = Cardinality(Money(OpenOf(o)))
    BY <1>1 DEF PoolInv, FrozenIsOpenHolds
  <2>1. CASE /\ ~ OpenHold(c) /\ OpenHold(c)' /\ (PaidTwice(c)' <=> PaidTwice(c))
             /\ frozen' = [frozen EXCEPT ![o] = @ + Hold[c]]
    <3>1. OpenOf(o)' = OpenOf(o) \union {c} /\ TwiceOf(o)' = TwiceOf(o) /\ c \notin OpenOf(o)
      BY <2>1 DEF OpenOf, TwiceOf
    <3>2. frozen'[o] = frozen[o] + Hold[c]
      BY <1>1, <2>1 DEF TypeOK, LedgerTypeOK
    <3> QED
      BY <1>1, <1>2, <2>0, <3>1, <3>2, MoneyAdd
  <2>2. CASE /\ OpenHold(c) /\ ~ OpenHold(c)' /\ (PaidTwice(c)' <=> PaidTwice(c))
             /\ frozen' = [frozen EXCEPT ![o] = @ - Hold[c]]
    <3>1. OpenOf(o)' = OpenOf(o) \ {c} /\ TwiceOf(o)' = TwiceOf(o) /\ c \in OpenOf(o)
      BY <2>2 DEF OpenOf, TwiceOf
    <3>2. frozen'[o] = frozen[o] - Hold[c]
      BY <1>1, <2>2 DEF TypeOK, LedgerTypeOK
    <3> QED
      BY <1>1, <1>2, <2>0, <3>1, <3>2, MoneyRemove
  <2>3. CASE /\ ~ PaidTwice(c) /\ PaidTwice(c)' /\ (OpenHold(c)' <=> OpenHold(c))
             /\ frozen' = [frozen EXCEPT ![o] = @ - Hold[c]]
    <3>1. TwiceOf(o)' = TwiceOf(o) \union {c} /\ OpenOf(o)' = OpenOf(o) /\ c \notin TwiceOf(o)
      BY <2>3 DEF OpenOf, TwiceOf
    <3>2. frozen'[o] = frozen[o] - Hold[c]
      BY <1>1, <2>3 DEF TypeOK, LedgerTypeOK
    <3> QED
      BY <1>1, <1>2, <2>0, <3>1, <3>2, MoneyAdd
  <2>4. CASE /\ (PaidTwice(c)' <=> PaidTwice(c)) /\ (OpenHold(c)' <=> OpenHold(c))
             /\ frozen' = frozen
    <3>1. TwiceOf(o)' = TwiceOf(o) /\ OpenOf(o)' = OpenOf(o)
      BY <2>4 DEF OpenOf, TwiceOf
    <3> QED
      BY <2>0, <2>4, <3>1
  <2> QED
    BY <2>1, <2>2, <2>3, <2>4
<1>6. ASSUME NEW u \in Users
      PROVE  /\ IsFiniteSet(Money(OpenOf(u)')) /\ IsFiniteSet(Money(TwiceOf(u)'))
             /\ frozen'[u] + Cardinality(Money(TwiceOf(u)')) = Cardinality(Money(OpenOf(u)'))
  BY <1>3, <1>4, <1>5 DEF PoolInv, FrozenIsOpenHolds
<1>7. \A S : Money(S)' = Money(S)
  BY DEF Money
<1> QED
  BY <1>6 DEF PoolInv, FrozenIsOpenHolds, Money

\* Every step keeps the account.
LEMMA PoolStep == IInv /\ PoolInv /\ [Next]_vars => PoolInv'
<1> SUFFICES ASSUME IInv, PoolInv, [Next]_vars PROVE PoolInv'
  OBVIOUS
<1>0. TypeOK /\ LedgerTypeOK /\ HoldFirst /\ LedgerMoved
  BY LedgerMoves DEF IInv, TypeOK
<1> USE DEF OpenHold, PaidTwice, Claimed
<1>1. CASE UNCHANGED ledger
  BY <1>1 DEF PoolInv, FrozenIsOpenHolds, OpenOf, TwiceOf, Money, ledger
<1>2. ASSUME NEW c \in Jobs, Reserve(c) PROVE PoolInv'
  <2>1. CASE Duplicate("hold", c)
    BY <1>1, <2>1 DEF Duplicate
  <2>2. CASE /\ ~ Claimed("hold", c) /\ Claim("hold", c)
             /\ frozen' = [frozen EXCEPT ![Owner[c]] = @ + Hold[c]]
             /\ UNCHANGED <<charged, refunded>>
    BY <1>0, <2>2, PoolOfOne DEF Claim, HoldFirst, LedgerTypeOK
  <2> QED
    BY <1>2, <2>1, <2>2 DEF Reserve
<1>3. ASSUME NEW c \in Jobs, Release(c) PROVE PoolInv'
  <2>1. CASE Duplicate("release", c)
    BY <1>1, <2>1 DEF Duplicate
  <2>2. CASE Claim("release", c) /\ UNCHANGED <<balance, frozen, charged, refunded>>
    BY <1>0, <2>2, PoolOfOne DEF Claim, LedgerTypeOK
  <2>3. CASE /\ ~ Claimed("release", c) /\ Claimed("hold", c) /\ Claim("release", c)
             /\ frozen' = [frozen EXCEPT ![Owner[c]] = @ - Hold[c]]
             /\ refunded' = refunded \union {c}
    BY <1>0, <2>3, PoolOfOne DEF Claim, HoldFirst, LedgerTypeOK
  <2> QED
    BY <1>3, <2>1, <2>2, <2>3 DEF Release
<1>4. ASSUME NEW w \in Workers, wrk[w].pc = "capture", NEW c \in Jobs, c = wrk[w].job, Capture(c, cost[c])
      PROVE  PoolInv'
  <2>1. CASE Duplicate("capture", c)
    BY <1>1, <2>1 DEF Duplicate
  <2>2. CASE /\ ~ Claimed("capture", c) /\ Claim("capture", c)
             /\ frozen' = [frozen EXCEPT ![Owner[c]] = @ - Hold[c]]
             /\ UNCHANGED refunded
    <3>1. Claimed("hold", c)
      BY <1>4 DEF IInv, SettlerState, SettlePC
    <3> QED
      BY <1>0, <2>2, <3>1, PoolOfOne DEF Claim, LedgerTypeOK
  <2> QED
    BY <1>4, <2>1, <2>2 DEF Capture
<1>5. \A w \in Workers : wrk[w].job \in Jobs
  BY <1>0 DEF TypeOK, ProcsTypeOK
<1> QED
  BY <1>0, <1>1, <1>2, <1>3, <1>4, <1>5 DEF LedgerMoved

\* The account is even before the first job.
LEMMA PoolInit == Init => PoolInv
<1> SUFFICES ASSUME Init PROVE PoolInv
  OBVIOUS
<1>1. \A u \in Users : OpenOf(u) = {} /\ TwiceOf(u) = {} /\ frozen[u] = 0
  BY DEF Init, LedgerInit, OpenOf, TwiceOf, OpenHold, PaidTwice, Claimed
<1>2. Money({}) = {} /\ IsFiniteSet({}) /\ Cardinality({}) = 0
  BY FS_EmptySet DEF Money
<1> QED
  BY <1>1, <1>2 DEF PoolInv, FrozenIsOpenHolds

\* The frozen balance of every user is what the open holds add up to, less
\* what was paid twice: after every fault, every race and every crash.
THEOREM Pool == Spec => []FrozenIsOpenHolds
<1>1. PoolInv => FrozenIsOpenHolds
  BY DEF PoolInv
<1> QED
  BY <1>1, PoolInit, PoolStep, Invariance, PTL DEF Spec

-----------------------------------------------------------------------------
(* One worker per job: as long as no job lock expires under a worker that     *)
(* works, the fields of a job that is in a worker's hands change only under   *)
(* that worker, under Submit, Cancel and the recovery.                        *)

\* Nobody takes the lock of a worker that works.
HoldsLock == \A w \in Workers : wrk[w].pc # "idle" => lock[wrk[w].job] = w

\* A step that is about another job leaves everything of this one alone.
Untouched(b) ==
    /\ status'[b] = status[b] /\ named'[b] = named[b] /\ stale'[b] = stale[b]
    /\ retry'[b] = retry[b] /\ settleErr'[b] = settleErr[b]
    /\ claims'[b] = claims[b] /\ (b \in refunded' <=> b \in refunded)
    /\ sub'[b] = sub[b] /\ cli'[b] = cli[b] /\ rec'[b] = rec[b]
    /\ (b \in queue' <=> b \in queue) /\ lock'[b] = lock[b]
    /\ upstream'[b] = upstream[b] /\ (b \in outrun' <=> b \in outrun)

\* The handlers of one job do not touch another job.
LEMMA OtherJobs ==
  ASSUME TypeOK, NEW c \in Jobs, JobStep(c), NEW b \in Jobs \ {c}
  PROVE  Untouched(b)
<1> USE DEF TypeOK, RowTypeOK, ProcsTypeOK, EnvTypeOK, LedgerTypeOK, Untouched, SetStatus,
            Reserve, Release, ReserveRefused, ReleaseRefused, Claim, Duplicate, Transition,
            Enqueue, UpstreamCancel, ledger, row, procs
<1>1. CASE SubmitCreate(c) \/ SubmitHeartbeat(c) \/ SubmitCrash(c)
  BY <1>1 DEF SubmitCreate, SubmitHeartbeat, SubmitCrash, SubGo
<1>2. CASE SubmitStep(c)
  BY <1>2
  DEF SubmitStep, SubmitReserve, SubmitItems, SubmitUpload, SubmitProvider, SubmitPersist,
      SubmitAbort, SubmitEnqueue, SubmitQueueFailed, SubmitRelease, SubmitRecord, SubmitHide,
      Hide, SubmitReleaseRetry, SubGo
<1>3. CASE CliStart(c) \/ CliStep(c)
  BY <1>3
  DEF CliStart, CliStep, CancelRead, CancelTarget, ResubmitRead, CancelProvider, CancelEnqueue, CancelJob,
      CancelRelease, CancelReleaseRetry, Resubmit, CliGo
<1>4. CASE RecoveryStep(c)
  BY <1>4 DEF RecoveryStep, RecoveryList, RecoveryFail, RecoveryRelease, RecoveryReleaseRetry, RecGo
<1>5. CASE UpstreamRuns(c) \/ Age(c) \/ LockExpires(c) \/ DeleteOutput(c) \/ DeleteRecord(c)
  BY <1>5 DEF UpstreamRuns, Age, LockExpires, DeleteOutput, DeleteRecord, Hide
<1> QED
  BY <1>1, <1>2, <1>3, <1>4, <1>5 DEF JobStep

\* Nor does a worker touch a job that it does not hold.
LEMMA OtherWork ==
  ASSUME TypeOK, NEW w \in Workers, WorkerStep(w), NEW b \in Jobs, wrk[w].job # b
  PROVE  Untouched(b)
<1> DEFINE c == wrk[w].job
<1> c \in Jobs
  BY DEF TypeOK, ProcsTypeOK
<1> HIDE DEF c
<1>0. c # b
  BY DEF c
<1> USE DEF TypeOK, RowTypeOK, ProcsTypeOK, EnvTypeOK, LedgerTypeOK, Untouched, SetStatus,
            Claim, Duplicate, Transition, Enqueue, ledger, row, procs
<1>1. CASE WorkerDispatch(w, c) \/ WorkerLoad(w, c) \/ WorkerPoll(w, c) \/ WorkerIndex(w, c)
           \/ WorkerSettle(w, c) \/ WorkerSettleEnd(w, c)
  BY <1>0, <1>1
  DEF WorkerDispatch, WorkerLoad, WorkerPoll, WorkerIndex, WorkerSettle, WorkerSettleEnd, WrkGo
<1>2. CASE WorkerTransition(w, c) \/ WorkerMark(w, c) \/ WorkerExhaustFail(w, c)
           \/ WorkerRecordFailure(w, c) \/ WorkerReleaseError(w, c)
  BY <1>0, <1>2
  DEF WorkerTransition, WorkerMark, WorkerExhaustFail, WorkerRecordFailure, WorkerReleaseError,
      CountFailure, WrkGo
<1>3. CASE WorkerRelease(w, c) \/ WorkerExhaustRelease(w, c)
  BY <1>0, <1>3 DEF WorkerRelease, WorkerExhaustRelease, Release, ReleaseRefused, WrkGo
<1>4. CASE WorkerCapture(w, c)
  BY <1>0, <1>4 DEF WorkerCapture, Capture, CaptureRefused, WrkGo
<1>5. CASE WorkerAck(w, c) \/ WorkerRequeue(w, c)
  BY <1>0, <1>5 DEF WorkerAck, WorkerRequeue, Unlock
<1> QED
  BY <1>1, <1>2, <1>3, <1>4, <1>5 DEF WorkerStep, c

\* Only a worker moves itself; it keeps its job until it is idle again.
LEMMA OtherWorkers ==
  ASSUME TypeOK, NEW w \in Workers, WorkerStep(w)
  PROVE  /\ wrk[w].pc # "idle"
         /\ \A v \in Workers \ {w} : wrk'[v] = wrk[v]
         /\ wrk'[w].pc = "idle" \/ wrk'[w].job = wrk[w].job
         /\ UNCHANGED <<sub, cli, rec>>
  BY DEF TypeOK, ProcsTypeOK, WorkerStep, WorkerDispatch, WorkerLoad, WorkerPoll, WorkerTransition,
         WorkerIndex, WorkerRelease, WorkerSettle, WorkerCapture, WorkerMark, WorkerRecordFailure,
         WorkerExhaustRelease, WorkerReleaseError, WorkerExhaustFail, WorkerSettleEnd, WorkerAck,
         WorkerRequeue, WrkGo, Unlock, Idle, Moves

\* The handlers of a job do not move the workers.
LEMMA JobHandlers == ASSUME NEW c \in Jobs, JobStep(c) PROVE UNCHANGED wrk
  BY DEF JobStep, SubmitCreate, SubmitStep, SubmitHeartbeat, SubmitCrash, SubmitReserve, SubmitItems,
         SubmitUpload, SubmitProvider, SubmitPersist, SubmitAbort, SubmitEnqueue, SubmitQueueFailed,
         SubmitRelease, SubmitRecord, SubmitHide, Hide, SubmitReleaseRetry, SubGo,
         CliStart, CliStep, CancelRead, CancelTarget, ResubmitRead, CancelProvider, CancelEnqueue, CancelJob,
         CancelRelease, CancelReleaseRetry, Resubmit, CliGo,
         RecoveryStep, RecoveryList, RecoveryFail, RecoveryRelease, RecoveryReleaseRetry, RecGo,
         UpstreamRuns, Age, LockExpires, DeleteOutput, DeleteRecord, procs

-----------------------------------------------------------------------------
(* The provider's work is funded.  A row that names a running provider job is *)
(* submitted or running, unless a Cancel decided before the name was stored;  *)
(* the other ways to end a job have asked the provider first.                 *)

\* A worker that acts on the answer of the provider, which is over with the job.
PolledPC == {"toIndexing", "toFailed", "toCancelled", "index", "toSettling"}

ProviderJob(b) ==
    /\ named[b] => status[b] \notin Unsubmitted \union {"none"} /\ sub[b] \notin Early
    /\ named[b] /\ cli[b] = "cancelJob" => b \in outrun
    /\ ProviderWorks(b) => \/ status[b] \in {"submitted", "running"}
                           \/ status[b] = "cancelled" /\ b \in outrun

ProviderSeen(w) ==
    LET b == wrk[w].job IN
    /\ wrk[w].pc \in PolledPC \union {"poll", "toRunning"} => named[b]
    /\ wrk[w].pc \in PolledPC => ~ ProviderWorks(b)

ProviderInv ==
    /\ \A b \in Jobs : ProviderJob(b)
    /\ \A w \in Workers : ProviderSeen(w)

\* The handlers of a job keep its name, and only Submit starts a provider job.
LEMMA ProviderByJob ==
  ASSUME IInv, NEW c \in Jobs, JobStep(c), ProviderJob(c)
  PROVE  /\ ProviderJob(c)'
         /\ named[c] => named'[c]
         /\ named[c] /\ ~ ProviderWorks(c) => ~ ProviderWorks(c)'
<1> DEFINE Goal == /\ ProviderJob(c)'
                   /\ named[c] => named'[c]
                   /\ named[c] /\ ~ ProviderWorks(c) => ~ ProviderWorks(c)'
<1> USE DEF IInv, TypeOK, RowTypeOK, ProcsTypeOK, EnvTypeOK, ProviderJob, ProviderWorks, Early,
            Unsubmitted, SetStatus, row, procs
<1>1. CASE SubmitCreate(c) \/ SubmitHeartbeat(c) \/ SubmitCrash(c)
  BY <1>1 DEF SubmitCreate, SubmitHeartbeat, SubmitCrash, SubGo
<1>2. CASE SubmitPersist(c) \/ SubmitUpload(c)
  BY <1>2 DEF SubmitPersist, SubmitUpload, SubGo, Transition, CanTransition, AllowedFrom
<1>3. CASE SubmitProvider(c) \/ SubmitAbort(c) \/ SubmitRecord(c) \/ SubmitRelease(c)
  BY <1>3 DEF SubmitProvider, SubmitAbort, SubmitRecord, SubmitRelease, SubGo, UpstreamCancel
<1>4. CASE SubmitReserve(c) \/ SubmitItems(c) \/ SubmitEnqueue(c) \/ SubmitQueueFailed(c)
           \/ SubmitHide(c) \/ SubmitReleaseRetry(c)
  BY <1>4
  DEF SubmitReserve, SubmitItems, SubmitEnqueue, SubmitQueueFailed, SubmitHide, Hide,
      SubmitReleaseRetry, SubGo
<1>5. CASE CancelJob(c)
  BY <1>5 DEF CancelJob, CliGo, Transition, CanTransition, AllowedFrom
<1>6. CASE CancelRead(c)
  <2>1. status[c] \notin {"none", "settling", "completed", "output_deleted"} /\ cli' = [cli EXCEPT ![c] = CancelTarget(c)]
        /\ UNCHANGED <<status, named, sub, upstream, outrun>>
    BY <1>6 DEF CancelRead, CliGo
  <2>2. CancelTarget(c) = "cancelJob" => ~ named[c]
    BY <2>1 DEF CancelTarget, Done, Terminal
  <2> QED
    BY <2>1, <2>2
<1>7. CASE ResubmitRead(c) \/ CancelProvider(c) \/ CancelEnqueue(c) \/ CancelRelease(c)
           \/ CancelReleaseRetry(c) \/ Resubmit(c)
  BY <1>7
  DEF ResubmitRead, CancelProvider, CancelEnqueue, CancelRelease, CancelReleaseRetry, Resubmit,
      CliGo, UpstreamCancel
<1>8. CASE RecoveryStep(c)
  BY <1>8
  DEF RecoveryStep, RecoveryList, RecoveryFail, RecoveryRelease, RecoveryReleaseRetry, RecGo,
      StaleUnsubmitted
<1>9. CASE UpstreamRuns(c) \/ Age(c) \/ LockExpires(c) \/ DeleteOutput(c) \/ DeleteRecord(c)
  BY <1>9 DEF UpstreamRuns, Age, LockExpires, DeleteOutput, DeleteRecord, Hide
<1> QED
  BY <1>1, <1>2, <1>3, <1>4, <1>5, <1>6, <1>7, <1>8, <1>9 DEF JobStep, SubmitStep, CliStart, CliStep

\* A worker ends a job at the provider only after the provider ended it.
LEMMA ProviderByWorker ==
  ASSUME IInv, NEW w \in Workers, NEW c \in Jobs, c = wrk[w].job, WorkerStep(w),
         ProviderJob(c), ProviderSeen(w)
  PROVE  /\ ProviderJob(c)' /\ ProviderSeen(w)'
         /\ UNCHANGED <<named, upstream>>
<1> DEFINE Goal == ProviderJob(c)' /\ ProviderSeen(w)' /\ UNCHANGED <<named, upstream>>
<1> USE DEF IInv, TypeOK, RowTypeOK, ProcsTypeOK, EnvTypeOK, ProviderJob, ProviderSeen, PolledPC,
            ProviderWorks, SetStatus, Transition, CanTransition, AllowedFrom, WrkGo, row
<1>1. CASE WorkerDispatch(w, c) \/ WorkerPoll(w, c) \/ WorkerIndex(w, c) \/ WorkerRelease(w, c)
  BY <1>1 DEF WorkerDispatch, WorkerPoll, WorkerIndex, WorkerRelease
<1>2. CASE WorkerLoad(w, c)
  BY <1>2 DEF WorkerLoad, LoadTarget, Done, Terminal
<1>3. CASE WorkerTransition(w, c)
  BY <1>3 DEF WorkerTransition, Moves, Unsubmitted
<1>4. CASE WorkerMark(w, c) \/ WorkerExhaustFail(w, c)
  BY <1>4 DEF WorkerMark, WorkerExhaustFail, SettlerState, SettlePC, Settled, Terminal, Unsubmitted
<1>5. CASE WorkerSettle(w, c) \/ WorkerCapture(w, c) \/ WorkerRecordFailure(w, c)
           \/ WorkerExhaustRelease(w, c) \/ WorkerReleaseError(w, c) \/ WorkerSettleEnd(w, c)
  BY <1>5 DEF WorkerSettle, WorkerCapture, WorkerRecordFailure, WorkerExhaustRelease,
              WorkerReleaseError, WorkerSettleEnd, CountFailure
<1>6. CASE WorkerAck(w, c) \/ WorkerRequeue(w, c)
  BY <1>6 DEF WorkerAck, WorkerRequeue, Unlock, Idle
<1> QED
  BY <1>1, <1>2, <1>3, <1>4, <1>5, <1>6 DEF WorkerStep

\* Every step keeps it.
LEMMA ProviderStep == IInv /\ ProviderInv /\ [Next]_vars => ProviderInv'
<1> SUFFICES ASSUME IInv, ProviderInv, [Next]_vars PROVE ProviderInv'
  OBVIOUS
<1>0. TypeOK /\ \A w \in Workers : wrk[w].job \in Jobs
  BY DEF IInv, TypeOK, ProcsTypeOK
<1>1. ASSUME NEW b \in Jobs, Untouched(b), ProviderJob(b) PROVE ProviderJob(b)'
  BY <1>1 DEF Untouched, ProviderJob, ProviderWorks
<1>2. ASSUME NEW c \in Jobs, JobStep(c) PROVE ProviderInv'
  <2>1. ASSUME NEW b \in Jobs PROVE ProviderJob(b)'
    BY <1>0, <1>1, <1>2, <2>1, OtherJobs, ProviderByJob DEF ProviderInv
  <2>2. ASSUME NEW b \in Jobs, named[b]
        PROVE  named'[b] /\ (~ ProviderWorks(b) => ~ ProviderWorks(b)')
    <3>1. CASE b # c
      BY <1>0, <1>2, <2>2, <3>1, OtherJobs DEF Untouched, ProviderWorks
    <3>2. CASE b = c
      BY <1>2, <2>2, <3>2, ProviderByJob DEF ProviderInv
    <3> QED
      BY <3>1, <3>2
  <2>3. UNCHANGED wrk
    BY <1>2, JobHandlers
  <2> QED
    BY <1>0, <2>1, <2>2, <2>3 DEF ProviderInv, ProviderSeen
<1>3. ASSUME NEW w \in Workers, WorkerStep(w) PROVE ProviderInv'
  <2>1. PICK c \in Jobs : c = wrk[w].job
    BY <1>0
  <2>2. ProviderJob(c)' /\ ProviderSeen(w)' /\ UNCHANGED <<named, upstream>>
    BY <1>3, <2>1, ProviderByWorker DEF ProviderInv
  <2>3. ASSUME NEW b \in Jobs PROVE ProviderJob(b)'
    BY <1>0, <1>1, <1>3, <2>1, <2>2, <2>3, OtherWork DEF ProviderInv
  <2>4. ASSUME NEW v \in Workers, v # w PROVE ProviderSeen(v)'
    BY <1>0, <1>3, <2>2, <2>4, OtherWorkers DEF ProviderInv, ProviderSeen, ProviderWorks
  <2> QED
    BY <2>2, <2>3, <2>4 DEF ProviderInv
<1>4. ASSUME NEW w \in Workers, WorkerCrash(w) \/ \E c \in Jobs : WorkerReserve(w, c)
      PROVE  ProviderInv'
  <2>1. UNCHANGED <<status, named, sub, cli, outrun, upstream>>
    BY <1>4 DEF WorkerCrash, WorkerReserve, row
  <2>2. \A v \in Workers : wrk'[v] = wrk[v] \/ wrk'[v].pc \in {"idle", "dispatch"}
    BY <1>0, <1>4 DEF WorkerCrash, WorkerReserve, Idle, TypeOK, ProcsTypeOK
  <2> QED
    BY <2>1, <2>2 DEF ProviderInv, ProviderJob, ProviderSeen, ProviderWorks, PolledPC
<1>5. CASE UNCHANGED vars
  BY <1>5 DEF ProviderInv, ProviderJob, ProviderSeen, ProviderWorks, vars, row, procs
<1> QED
  BY <1>2, <1>3, <1>4, <1>5 DEF Next

\* While the provider works on a job its hold is open and in the pool of its
\* owner, whatever Cancel, the recovery of stale submissions and stragglers
\* among the workers do meanwhile; but for a Cancel that Submit outran, and
\* for a pool from which a hold was paid twice.
THEOREM Funded == Spec => []LiveJobIsFunded
<1>1. Init => ProviderInv
  <2> SUFFICES ASSUME Init PROVE ProviderInv
    OBVIOUS
  <2>1. \A w \in Workers : wrk[w].pc = "idle"
    BY DEF Init, Idle
  <2> QED
    BY <2>1 DEF Init, ProviderInv, ProviderJob, ProviderSeen, ProviderWorks, PolledPC
<1>2. Init => PoolInv
  BY PoolInit
<1>3. IInv /\ PoolInv /\ ProviderInv => LiveJobIsFunded
  <2> SUFFICES ASSUME IInv, PoolInv, ProviderInv, NEW b \in Jobs, ProviderWorks(b),
                      ~ (status[b] = "cancelled" /\ b \in outrun)
               PROVE  /\ OpenHold(b)
                      /\ \/ frozen[Owner[b]] >= Hold[b]
                         \/ \E c \in Jobs : Owner[c] = Owner[b] /\ PaidTwice(c)
    BY DEF LiveJobIsFunded
  <2>1. OpenHold(b)
    BY DEF IInv, HoldState, CapturedState, RefundedStatus, ProviderInv, ProviderJob, OpenHold,
           AtProvider, Settled, Terminal, Unsubmitted
  <2>2. ASSUME ~ \E c \in Jobs : Owner[c] = Owner[b] /\ PaidTwice(c)
        PROVE  frozen[Owner[b]] >= Hold[b]
    <3>1. TwiceOf(Owner[b]) = {} /\ b \in OpenOf(Owner[b]) /\ OpenOf(Owner[b]) \in SUBSET Jobs
      BY <2>1, <2>2 DEF TwiceOf, OpenOf
    <3>2. Cardinality(Money({})) = 0
      BY FS_EmptySet DEF Money
    <3>3. /\ Owner[b] \in Users /\ Hold[b] \in Nat
          /\ frozen[Owner[b]] \in Int
      BY OwnerAssumption, HoldAssumption DEF IInv, TypeOK, LedgerTypeOK
    <3>4. /\ IsFiniteSet(Money(OpenOf(Owner[b])))
          /\ frozen[Owner[b]] + Cardinality(Money(TwiceOf(Owner[b]))) = Cardinality(Money(OpenOf(Owner[b])))
      BY <3>3 DEF PoolInv, FrozenIsOpenHolds
    <3>5. /\ IsFiniteSet(Money(OpenOf(Owner[b]) \ {b}))
          /\ Cardinality(Money(OpenOf(Owner[b]) \ {b})) = Cardinality(Money(OpenOf(Owner[b]))) - Hold[b]
      BY <3>1, <3>4, MoneyRemove
    <3>6. Cardinality(Money(OpenOf(Owner[b]) \ {b})) \in Nat /\ Cardinality(Money(OpenOf(Owner[b]))) \in Nat
      BY <3>4, <3>5, FS_CardinalityType
    <3> QED
      BY <3>1, <3>2, <3>3, <3>4, <3>5, <3>6
  <2> QED
    BY <2>1, <2>2
<1> QED
  BY <1>1, <1>2, <1>3, PoolStep, ProviderStep, Invariance, PTL DEF Spec

-----------------------------------------------------------------------------
(* Settlement under the lock *)

\* The lock stays with the worker that works on the job.
LEMMA HoldsLockStep ==
  TypeOK /\ "lock" \notin FaultKinds /\ HoldsLock /\ [Next]_vars => HoldsLock'
<1> SUFFICES ASSUME TypeOK, "lock" \notin FaultKinds, HoldsLock, [Next]_vars,
                    NEW v \in Workers, wrk'[v].pc # "idle"
             PROVE  lock'[wrk'[v].job] = v
  BY DEF HoldsLock
<1> USE DEF TypeOK, ProcsTypeOK, EnvTypeOK, HoldsLock
<1>1. ASSUME NEW c \in Jobs, JobStep(c) PROVE lock'[wrk'[v].job] = v
  <2>1. wrk'[v] = wrk[v]
    BY <1>1, JobHandlers
  <2>2. CASE wrk[v].job # c
    BY <1>1, <2>1, <2>2, OtherJobs DEF Untouched
  <2>3. CASE wrk[v].job = c
    BY <1>1, <2>1, <2>3
    DEF JobStep, SubmitCreate, SubmitStep, SubmitHeartbeat, SubmitCrash, SubmitReserve, SubmitItems,
        SubmitUpload, SubmitProvider, SubmitPersist, SubmitAbort, SubmitEnqueue, SubmitQueueFailed,
        SubmitRelease, SubmitRecord, SubmitHide, Hide, SubmitReleaseRetry,
        CliStart, CliStep, CancelRead, CancelTarget, ResubmitRead, CancelProvider, CancelEnqueue, CancelJob,
        CancelRelease, CancelReleaseRetry, Resubmit,
        RecoveryStep, RecoveryList, RecoveryFail, RecoveryRelease, RecoveryReleaseRetry,
        UpstreamRuns, Age, LockExpires, Working, Fault, DeleteOutput, DeleteRecord
  <2> QED
    BY <2>2, <2>3
<1>2. ASSUME NEW w \in Workers, WorkerStep(w) PROVE lock'[wrk'[v].job] = v
  <2>1. CASE v # w
    <3>1. wrk'[v] = wrk[v] /\ wrk[w].pc # "idle"
      BY <1>2, <2>1, OtherWorkers
    <3>2. wrk[v].job # wrk[w].job
      BY <2>1, <3>1
    <3> QED
      BY <1>2, <3>1, <3>2, OtherWork DEF Untouched
  <2>2. CASE v = w
    <3>1. wrk'[w].job = wrk[w].job /\ wrk[w].pc # "idle"
      BY <1>2, <2>2, OtherWorkers
    <3>2. UNCHANGED lock \/ wrk'[w].pc = "idle"
      BY <1>2
      DEF WorkerStep, WorkerDispatch, WorkerLoad, WorkerPoll, WorkerTransition, WorkerIndex,
          WorkerRelease, WorkerSettle, WorkerCapture, WorkerMark, WorkerRecordFailure,
          WorkerExhaustRelease, WorkerReleaseError, WorkerExhaustFail, WorkerSettleEnd, WorkerAck,
          WorkerRequeue, Unlock, Idle
    <3> QED
      BY <2>2, <3>1, <3>2
  <2> QED
    BY <2>1, <2>2
<1>3. ASSUME NEW w \in Workers, WorkerCrash(w) PROVE lock'[wrk'[v].job] = v
  BY <1>3 DEF WorkerCrash, Idle
<1>4. ASSUME NEW w \in Workers, NEW c \in Jobs, WorkerReserve(w, c) PROVE lock'[wrk'[v].job] = v
  BY <1>4, NoneAssumption DEF WorkerReserve
<1>5. CASE UNCHANGED vars
  BY <1>5 DEF vars, procs
<1> QED
  BY <1>1, <1>2, <1>3, <1>4, <1>5 DEF Next

\* A worker that works is the only one on its job.
LEMMA OneWorker ==
  ASSUME TypeOK, HoldsLock, NEW w \in Workers, NEW v \in Workers \ {w},
         wrk[w].pc # "idle", wrk[v].pc # "idle"
  PROVE  wrk[w].job # wrk[v].job
  BY DEF HoldsLock

\* A worker about to capture, to count a failure or to release after the last
\* retry.
FailingPC == {"capture", "recordFailure", "exhaustRelease", "releaseError"}

\* A worker in the provider processor.
PollPC == {"load", "poll", "index"} \union DOMAIN Moves

\* What a worker has read of the status is still true: no other handler begins
\* or ends the settlement of its job.
SettlingSeen ==
    \A w \in Workers :
        /\ wrk[w].pc \in PollPC => status[wrk[w].job] # "settling"
        /\ wrk[w].pc \in FailingPC => status[wrk[w].job] = "settling"

\* Only workers begin or end a settlement.
LEMMA SettlingByWorkers ==
  ASSUME IInv, NEW c \in Jobs, JobStep(c), NEW b \in Jobs
  PROVE  status'[b] = "settling" <=> status[b] = "settling"
<1> USE DEF IInv, TypeOK, RowTypeOK, SetStatus, Transition, CanTransition, AllowedFrom, row
<1>1. CASE b # c
  BY <1>1, OtherJobs DEF Untouched
<1>2. CASE b = c
  <2>1. CASE SubmitCreate(c) \/ SubmitHeartbeat(c) \/ SubmitCrash(c)
    BY <1>2, <2>1 DEF SubmitCreate, SubmitHeartbeat, SubmitCrash
  <2>2. CASE SubmitStep(c)
    BY <1>2, <2>2
    DEF SubmitStep, SubmitReserve, SubmitItems, SubmitUpload, SubmitProvider, SubmitPersist,
        SubmitAbort, SubmitEnqueue, SubmitQueueFailed, SubmitRelease, SubmitRecord, SubmitHide,
        SubmitReleaseRetry, EarlyStatus, Early, Unsubmitted
  <2>3. CASE CliStart(c) \/ CliStep(c)
    BY <1>2, <2>3
    DEF CliStart, CliStep, CancelRead, CancelTarget, ResubmitRead, CancelProvider, CancelEnqueue, CancelJob,
        CancelRelease, CancelReleaseRetry, Resubmit
  <2>4. CASE RecoveryStep(c)
    BY <1>2, <2>4
    DEF RecoveryStep, RecoveryList, RecoveryFail, RecoveryRelease, RecoveryReleaseRetry,
        StaleUnsubmitted, Unsubmitted
  <2>5. CASE UpstreamRuns(c) \/ Age(c) \/ LockExpires(c) \/ DeleteOutput(c) \/ DeleteRecord(c)
    BY <1>2, <2>5 DEF UpstreamRuns, Age, LockExpires, DeleteOutput, DeleteRecord
  <2> QED
    BY <2>1, <2>2, <2>3, <2>4, <2>5 DEF JobStep
<1> QED
  BY <1>1, <1>2

\* What workers have read of the status stays true while they hold the lock.
LEMMA SettlingSeenStep ==
  IInv /\ HoldsLock /\ SettlingSeen /\ [Next]_vars => SettlingSeen'
<1> SUFFICES ASSUME IInv, HoldsLock, SettlingSeen, [Next]_vars, NEW v \in Workers
             PROVE  /\ wrk'[v].pc \in PollPC => status'[wrk'[v].job] # "settling"
                    /\ wrk'[v].pc \in FailingPC => status'[wrk'[v].job] = "settling"
  BY DEF SettlingSeen
<1> DEFINE Goal == /\ wrk'[v].pc \in PollPC => status'[wrk'[v].job] # "settling"
                   /\ wrk'[v].pc \in FailingPC => status'[wrk'[v].job] = "settling"
<1> USE DEF IInv, TypeOK, RowTypeOK, ProcsTypeOK, SettlingSeen, PollPC, FailingPC, Moves
<1>1. ASSUME NEW c \in Jobs, JobStep(c) PROVE Goal
  BY <1>1, JobHandlers, SettlingByWorkers
<1>2. ASSUME NEW w \in Workers, WorkerStep(w) PROVE Goal
  <2>1. CASE v # w /\ wrk[v].pc # "idle"
    <3>1. wrk'[v] = wrk[v] /\ wrk[w].pc # "idle"
      BY <1>2, <2>1, OtherWorkers
    <3>2. wrk[w].job # wrk[v].job
      BY <2>1, <3>1, OneWorker
    <3> QED
      BY <1>2, <3>1, <3>2, OtherWork DEF Untouched
  <2>2. CASE v # w /\ wrk[v].pc = "idle"
    BY <1>2, <2>2, OtherWorkers
  <2>3. CASE v = w
    <3> DEFINE c == wrk[w].job
    <3> USE <2>3 DEF SetStatus, Transition, WrkGo, row
    <3>1. CASE WorkerDispatch(w, c) \/ WorkerSettle(w, c) \/ WorkerCapture(w, c)
      BY <3>1 DEF WorkerDispatch, WorkerSettle, WorkerCapture
    <3>2. CASE WorkerLoad(w, c)
      BY <3>2 DEF WorkerLoad, LoadTarget, Done
    <3>3. CASE WorkerRecordFailure(w, c) \/ WorkerExhaustRelease(w, c) \/ WorkerReleaseError(w, c)
      BY <3>3 DEF WorkerRecordFailure, WorkerExhaustRelease, WorkerReleaseError, CountFailure
    <3>4. CASE WorkerPoll(w, c) \/ WorkerTransition(w, c) \/ WorkerIndex(w, c)
               \/ WorkerRelease(w, c) \/ WorkerMark(w, c) \/ WorkerExhaustFail(w, c)
               \/ WorkerSettleEnd(w, c)
      BY <3>4 DEF WorkerPoll, WorkerTransition, WorkerIndex, WorkerRelease, WorkerMark,
                  WorkerExhaustFail, WorkerSettleEnd, CanTransition, AllowedFrom
    <3>5. CASE WorkerAck(w, c) \/ WorkerRequeue(w, c)
      BY <3>5 DEF WorkerAck, WorkerRequeue, Unlock, Idle
    <3> QED
      BY <1>2, <3>1, <3>2, <3>3, <3>4, <3>5 DEF WorkerStep
  <2> QED
    BY <2>1, <2>2, <2>3
<1>3. ASSUME NEW w \in Workers, WorkerCrash(w) PROVE Goal
  BY <1>3 DEF WorkerCrash, Idle, row
<1>4. ASSUME NEW w \in Workers, NEW c \in Jobs, WorkerReserve(w, c) PROVE Goal
  BY <1>4 DEF WorkerReserve, row
<1>5. CASE UNCHANGED vars
  BY <1>5 DEF vars, procs, row
<1> QED
  BY <1>1, <1>2, <1>3, <1>4, <1>5 DEF Next

-----------------------------------------------------------------------------
(* Money that is paid twice.  The capture and the release of a hold claim     *)
(* different request ids and neither transaction looks at the other's, so an  *)
(* exhausted settlement gives back a hold whose capture was committed and     *)
(* reported as an error.  Under the job lock nothing else pays twice.         *)

\* A settlement ends with a charged job, or with a job that failed after the
\* release.
SettlementEnds(b) ==
    status[b] = "settling" /\ status'[b] # "settling" =>
        \/ status'[b] = "completed"
        \/ \E w \in Workers : wrk[w].job = b /\ wrk[w].pc = "exhaustFail"

Exhausted(b) == retry[b] = MaxRetries

ExhaustJob(b) ==
    /\ cli[b] = "release" \/ rec[b] = "release" => status[b] \in {"failed", "cancelled"}
    /\ status[b] = "settling" /\ b \in refunded => Exhausted(b)
    /\ status[b] \in {"failed", "cancelled"} /\ Claimed("capture", b) => Exhausted(b)
    /\ PaidTwice(b) => Exhausted(b)

ExhaustWorker(w) ==
    /\ wrk[w].pc = "release" => status[wrk[w].job] \in {"failed", "cancelled"}
    /\ wrk[w].pc \in {"exhaustRelease", "exhaustFail"} => Exhausted(wrk[w].job)

ExhaustInv ==
    /\ IInv /\ HoldsLock /\ SettlingSeen
    /\ \A b \in Jobs : ExhaustJob(b)
    /\ \A w \in Workers : ExhaustWorker(w)

ExhaustMoved(b) ==
    /\ Exhausted(b) => Exhausted(b)'
    /\ SettlementEnds(b)
    /\ cli'[b] = "release" => cli[b] = "release" \/ status'[b] \in {"failed", "cancelled"}
    /\ rec'[b] = "release" => rec[b] = "release" \/ status'[b] \in {"failed", "cancelled"}

\* Nobody resets the count of failures, and only the last retry ends a
\* settlement without a charge.
LEMMA ExhaustMoves ==
  ASSUME IInv, SettlingSeen, [Next]_vars, NEW b \in Jobs PROVE ExhaustMoved(b)
<1> USE DEF IInv, TypeOK, RowTypeOK, ProcsTypeOK, ExhaustMoved, Exhausted, SettlementEnds,
            SetStatus, Transition, row, procs
<1>1. ASSUME NEW c \in Jobs, JobStep(c) PROVE ExhaustMoved(b)
  <2>0. SettlementEnds(b)
    BY <1>1, SettlingByWorkers
  <2>1. CASE b # c
    BY <1>1, <2>0, <2>1, OtherJobs DEF Untouched
  <2>2. CASE b = c /\ (SubmitCreate(c) \/ SubmitHeartbeat(c) \/ SubmitCrash(c) \/ SubmitStep(c))
    BY <2>0, <2>2
    DEF SubmitCreate, SubmitHeartbeat, SubmitCrash, SubmitStep, SubmitReserve, SubmitItems,
        SubmitUpload, SubmitProvider, SubmitPersist, SubmitAbort, SubmitEnqueue,
        SubmitQueueFailed, SubmitRelease, SubmitRecord, SubmitHide, SubmitReleaseRetry, SubGo
  <2>3. CASE b = c /\ (CliStart(c) \/ CliStep(c))
    BY <2>0, <2>3
    DEF CliStart, CliStep, CancelRead, CancelTarget, ResubmitRead, CancelProvider, CancelEnqueue,
        CancelJob, CancelRelease, CancelReleaseRetry, Resubmit, CliGo
  <2>4. CASE b = c /\ RecoveryStep(c)
    BY <2>0, <2>4
    DEF RecoveryStep, RecoveryList, RecoveryFail, RecoveryRelease, RecoveryReleaseRetry, RecGo
  <2>5. CASE b = c /\ (UpstreamRuns(c) \/ Age(c) \/ LockExpires(c) \/ DeleteOutput(c) \/ DeleteRecord(c))
    BY <2>0, <2>5 DEF UpstreamRuns, Age, LockExpires, DeleteOutput, DeleteRecord
  <2> QED
    BY <1>1, <2>1, <2>2, <2>3, <2>4, <2>5 DEF JobStep
<1>2. ASSUME NEW w \in Workers, WorkerStep(w) PROVE ExhaustMoved(b)
  <2>0. UNCHANGED <<sub, cli, rec>>
    BY <1>2, OtherWorkers
  <2>1. CASE wrk[w].job # b
    BY <1>2, <2>0, <2>1, OtherWork DEF Untouched
  <2>2. CASE wrk[w].job = b
    <3>1. CASE WorkerRecordFailure(w, b) \/ WorkerReleaseError(w, b)
      BY <2>0, <3>1, RetryAssumption DEF WorkerRecordFailure, WorkerReleaseError, CountFailure
    <3>2. CASE WorkerTransition(w, b)
      BY <2>0, <2>2, <3>2 DEF WorkerTransition, SettlingSeen, PollPC
    <3>3. CASE WorkerMark(w, b) \/ WorkerExhaustFail(w, b)
      BY <2>0, <2>2, <3>3 DEF WorkerMark, WorkerExhaustFail
    <3>4. CASE UNCHANGED <<status, retry>>
      BY <2>0, <3>4
    <3> QED
      BY <1>2, <2>2, <3>1, <3>2, <3>3, <3>4
      DEF WorkerStep, WorkerDispatch, WorkerLoad, WorkerPoll, WorkerIndex, WorkerRelease,
          WorkerSettle, WorkerCapture, WorkerExhaustRelease, WorkerSettleEnd, WorkerAck,
          WorkerRequeue
  <2> QED
    BY <2>1, <2>2
<1>3. ASSUME NEW w \in Workers, WorkerCrash(w) \/ \E c \in Jobs : WorkerReserve(w, c)
      PROVE  ExhaustMoved(b)
  BY <1>3 DEF WorkerCrash, WorkerReserve
<1>4. CASE UNCHANGED vars
  BY <1>4 DEF vars
<1> QED
  BY <1>1, <1>2, <1>3, <1>4 DEF Next

\* A worker releases what it found over, or what it counted to the end.
LEMMA ExhaustByWorker ==
  ASSUME ExhaustInv, NEW w \in Workers, WorkerStep(w), NEW b \in Jobs, b = wrk[w].job
  PROVE  /\ wrk'[w].pc = "release" => wrk[w].pc = "release" \/ status'[b] \in {"failed", "cancelled"}
         /\ wrk'[w].pc \in {"exhaustRelease", "exhaustFail"} => Exhausted(b) \/ Exhausted(b)'
         /\ wrk'[w].pc = "idle" \/ wrk'[w].job = b
<1> USE DEF ExhaustInv, ExhaustWorker, Exhausted, IInv, TypeOK, RowTypeOK, ProcsTypeOK, WrkGo,
            SetStatus, Transition, row
<1>1. CASE WorkerLoad(w, b)
  BY <1>1 DEF WorkerLoad, LoadTarget
<1>2. CASE WorkerTransition(w, b)
  BY <1>2 DEF WorkerTransition, Moves
<1>3. CASE WorkerSettle(w, b)
  <2>1. wrk'[w].pc \in {"ack", "requeue", "exhaustRelease", "capture"} /\ wrk'[w].job = b
    BY <1>3 DEF WorkerSettle
  <2>2. wrk'[w].pc = "exhaustRelease" => retry[b] >= MaxRetries
    BY <1>3 DEF WorkerSettle, RetryExhausted
  <2>3. retry[b] \in 0..MaxRetries
    OBVIOUS
  <2> HIDE DEF ExhaustInv, IInv, Exhausted
  <2>4. retry[b] >= MaxRetries => retry[b] = MaxRetries
    BY <2>3, RetryAssumption
  <2> QED
    BY <2>1, <2>2, <2>4 DEF Exhausted
<1>4. CASE WorkerRecordFailure(w, b)
  BY <1>4, RetryAssumption DEF WorkerRecordFailure, CountFailure
<1>5. CASE WorkerDispatch(w, b) \/ WorkerPoll(w, b) \/ WorkerIndex(w, b) \/ WorkerRelease(w, b)
           \/ WorkerCapture(w, b) \/ WorkerMark(w, b)
  <2>1. CASE WorkerDispatch(w, b) \/ WorkerPoll(w, b)
    BY <2>1 DEF WorkerDispatch, WorkerPoll
  <2>2. CASE WorkerIndex(w, b)
    BY <2>2 DEF WorkerIndex
  <2>3. CASE WorkerRelease(w, b)
    BY <2>3 DEF WorkerRelease
  <2>4. CASE WorkerCapture(w, b)
    BY <2>4 DEF WorkerCapture
  <2>5. CASE WorkerMark(w, b)
    BY <2>5 DEF WorkerMark
  <2> QED
    BY <1>5, <2>1, <2>2, <2>3, <2>4, <2>5
<1>6. CASE WorkerExhaustRelease(w, b) \/ WorkerReleaseError(w, b) \/ WorkerExhaustFail(w, b)
           \/ WorkerSettleEnd(w, b)
  BY <1>6 DEF WorkerExhaustRelease, WorkerReleaseError, WorkerExhaustFail, WorkerSettleEnd
<1>7. CASE WorkerAck(w, b) \/ WorkerRequeue(w, b)
  BY <1>7 DEF WorkerAck, WorkerRequeue, Unlock, Idle
<1> QED
  BY <1>1, <1>2, <1>3, <1>4, <1>5, <1>6, <1>7 DEF WorkerStep

\* Every step keeps what is said of a job.
LEMMA ExhaustJobStep ==
  ASSUME ExhaustInv, [Next]_vars, NEW b \in Jobs PROVE ExhaustJob(b)'
<1>1. /\ ExhaustMoved(b) /\ Moved(b) /\ MoneyMoved(b) /\ ExhaustJob(b)
      /\ EarlyStatus /\ RefundedStatus /\ CapturedState /\ SettlingSeen
      /\ \A w \in Workers : ExhaustWorker(w)
  BY ExhaustMoves, StatusMoves, MoneyMoves DEF ExhaustInv, IInv
<1>2. CASE Exhausted(b)
  <2>1. status[b] \in {"failed", "cancelled"} => status'[b] \in {"failed", "cancelled"}
    BY <1>1 DEF Moved, CanTransition, AllowedFrom, EarlyStatus, Unsubmitted
  <2> QED
    BY <1>1, <1>2, <2>1 DEF ExhaustJob, ExhaustMoved
<1>3. CASE ~ Exhausted(b)
  <2>1. status[b] \in {"failed", "cancelled"} => status'[b] \in {"failed", "cancelled"}
    BY <1>1 DEF Moved, CanTransition, AllowedFrom, EarlyStatus, Unsubmitted
  <2>2. cli'[b] = "release" \/ rec'[b] = "release" => status'[b] \in {"failed", "cancelled"}
    BY <1>1, <2>1 DEF ExhaustJob, ExhaustMoved
  <2>3. b \in refunded' \ refunded => status[b] \in Unsubmitted \union {"failed", "cancelled"}
    BY <1>1, <1>3 DEF MoneyMoved, EarlyStatus, Early, ExhaustJob, ExhaustWorker
  <2>4. "capture" \in claims'[b] /\ ~ Claimed("capture", b) => status[b] = "settling"
    BY <1>1 DEF MoneyMoved, SettlingSeen, FailingPC
  <2>5. status'[b] = "settling" => b \notin refunded'
    <3>1. status'[b] = "settling" => status[b] \in {"settling", "indexing"}
      BY <1>1 DEF Moved, CanTransition, AllowedFrom
    <3> QED
      BY <1>1, <1>3, <2>3, <3>1
      DEF ExhaustJob, RefundedStatus, Settled, Terminal, Unsubmitted
  <2>6. status'[b] \in {"failed", "cancelled"} => "capture" \notin claims'[b]
    <3>1. Claimed("capture", b) => status[b] \in {"settling", "completed", "output_deleted"}
      BY <1>1, <1>3 DEF ExhaustJob, CapturedState, Settled, Terminal
    <3>2. status[b] = "settling" => status'[b] \notin {"failed", "cancelled"}
      BY <1>1, <1>3 DEF ExhaustMoved, SettlementEnds, ExhaustWorker
    <3>3. status[b] \in {"completed", "output_deleted"} => status'[b] \notin {"failed", "cancelled"}
      BY <1>1 DEF Moved, CanTransition, AllowedFrom, EarlyStatus, Unsubmitted
    <3> QED
      BY <2>4, <3>1, <3>2, <3>3
  <2>7. ~ (b \in refunded' /\ "capture" \in claims'[b])
    BY <1>1, <1>3, <2>3, <2>4
    DEF ExhaustJob, PaidTwice, CapturedState, Settled, Terminal, Unsubmitted
  <2> QED
    BY <2>2, <2>5, <2>6, <2>7 DEF ExhaustJob, PaidTwice, Claimed
<1> QED
  BY <1>2, <1>3

\* Every step keeps what a worker knows of its job.
LEMMA ExhaustWorkerStep ==
  ASSUME ExhaustInv, [Next]_vars, NEW v \in Workers PROVE ExhaustWorker(v)'
<1> PICK b \in Jobs : b = wrk[v].job
  BY DEF ExhaustInv, IInv, TypeOK, ProcsTypeOK
<1>1. TypeOK /\ ExhaustMoved(b) /\ Moved(b) /\ EarlyStatus /\ ExhaustWorker(v)
  BY ExhaustMoves, StatusMoves DEF ExhaustInv, IInv
<1>2. status[b] \in {"failed", "cancelled"} => status'[b] \in {"failed", "cancelled"}
  BY <1>1 DEF Moved, CanTransition, AllowedFrom, EarlyStatus, Unsubmitted
<1>3. ASSUME wrk'[v] = wrk[v] PROVE ExhaustWorker(v)'
  BY <1>1, <1>2, <1>3 DEF ExhaustWorker, ExhaustMoved, Exhausted
<1>4. ASSUME wrk'[v].pc \in {"idle", "dispatch"} PROVE ExhaustWorker(v)'
  BY <1>4 DEF ExhaustWorker
<1>5. ASSUME WorkerStep(v) PROVE ExhaustWorker(v)'
  BY <1>1, <1>2, <1>5, ExhaustByWorker DEF ExhaustWorker, ExhaustMoved, Exhausted
<1>6. ASSUME NEW w \in Workers, w # v, WorkerStep(w) PROVE wrk'[v] = wrk[v]
  BY <1>1, <1>6, OtherWorkers
<1>7. ASSUME NEW w \in Workers, WorkerCrash(w) \/ \E c \in Jobs : WorkerReserve(w, c)
      PROVE  wrk'[v] = wrk[v] \/ wrk'[v].pc \in {"idle", "dispatch"}
  BY <1>1, <1>7 DEF WorkerCrash, WorkerReserve, Idle, TypeOK, ProcsTypeOK
<1> QED
  BY <1>3, <1>4, <1>5, <1>6, <1>7, JobHandlers DEF Next, vars, procs

\* No job is charged from, or given, money of another job's hold: the frozen
\* balance is the open holds, but for holds that were paid twice, and only a
\* settlement that gave up after MaxRetries failures pays one twice, while no
\* worker loses its lock.
THEOREM OwnHold == Spec => []MoneyOnlyFromOwnHold
<1>1. Init => ExhaustInv
  <2> SUFFICES ASSUME Init PROVE ExhaustInv
    OBVIOUS
  <2>1. \A w \in Workers : wrk[w].pc = "idle"
    BY DEF Init, Idle
  <2>2. \A b \in Jobs : ExhaustJob(b)
    BY DEF Init, LedgerInit, ExhaustJob, PaidTwice, Claimed
  <2> QED
    BY InvInit, <2>1, <2>2
    DEF ExhaustInv, HoldsLock, SettlingSeen, PollPC, FailingPC, Moves, ExhaustWorker
<1>2. ASSUME "lock" \notin FaultKinds PROVE ExhaustInv /\ [Next]_vars => ExhaustInv'
  <2> SUFFICES ASSUME ExhaustInv, [Next]_vars PROVE ExhaustInv'
    OBVIOUS
  <2>1. IInv' /\ HoldsLock' /\ SettlingSeen'
    BY <1>2, InvStep, HoldsLockStep, SettlingSeenStep DEF ExhaustInv, IInv
  <2> QED
    BY <2>1, ExhaustJobStep, ExhaustWorkerStep DEF ExhaustInv
<1>3. ExhaustInv => TwiceOnlyWhenExhausted
  BY DEF ExhaustInv, ExhaustJob, Exhausted, TwiceOnlyWhenExhausted
<1>4. CASE "lock" \notin FaultKinds
  <2>1. Spec => []TwiceOnlyWhenExhausted
    BY <1>1, <1>2, <1>3, <1>4, PTL DEF Spec
  <2> QED
    BY <2>1, Pool, PTL DEF MoneyOnlyFromOwnHold
<1>5. CASE "lock" \in FaultKinds
  <2>1. TwiceOnlyWhenExhausted
    BY <1>5 DEF TwiceOnlyWhenExhausted
  <2> QED
    BY <2>1, Pool, PTL DEF MoneyOnlyFromOwnHold
<1> QED
  BY <1>4, <1>5

-----------------------------------------------------------------------------
(* No job in progress is forgotten, whatever its client cancels and whatever  *)
(* statements and transactions fail, as long as Submit is not cut off between *)
(* the provider and the queue, and nobody loses a lock.                       *)

Undisturbed == FaultKinds \cap {"queue", "submitCrash", "lock"} = {}

InProgress == AtProvider \union {"settling"}

\* The pipeline will come back to a job in progress.
InProgressIsQueued ==
    \A b \in Jobs : status[b] \in InProgress => b \in queue \/ sub[b] = "enqueue"

\* A worker acknowledges a job only when it is over.
AckSeen == \A w \in Workers : wrk[w].pc = "ack" => status[wrk[w].job] \in Terminal

ProgressInv == IInv /\ HoldsLock /\ SettlingSeen /\ AckSeen /\ InProgressIsQueued

\* Only a worker takes a job off the queue, and Submit queues what it submitted.
LEMMA ProgressByJob ==
  ASSUME ProgressInv, Undisturbed, NEW c \in Jobs, JobStep(c), NEW b \in Jobs,
         status'[b] \in InProgress
  PROVE  b \in queue' \/ sub'[b] = "enqueue"
<1> TypeOK /\ IInv /\ EarlyStatus /\ InProgressIsQueued
  BY DEF ProgressInv, IInv
<1> USE DEF TypeOK, RowTypeOK, ProcsTypeOK, EnvTypeOK, InProgressIsQueued, InProgress, AtProvider,
            SetStatus, Transition, CanTransition, AllowedFrom, Enqueue, row, procs
<1>0. ~ Fault("queue") /\ ~ Fault("submitCrash")
  BY DEF Undisturbed, Fault
<1>1. CASE b # c
  BY <1>1, OtherJobs DEF Untouched
<1>2. CASE b = c
  <2>1. CASE SubmitCreate(c) \/ SubmitHeartbeat(c) \/ SubmitCrash(c)
    BY <1>0, <1>2, <2>1 DEF SubmitCreate, SubmitHeartbeat, SubmitCrash, SubGo
  <2>2. CASE SubmitStep(c)
    BY <1>0, <1>2, <2>2
    DEF SubmitStep, SubmitReserve, SubmitItems, SubmitUpload, SubmitProvider, SubmitPersist,
        SubmitAbort, SubmitEnqueue, SubmitQueueFailed, SubmitRelease, SubmitRecord, SubmitHide,
        SubmitReleaseRetry, SubGo
  <2>3. CASE CliStart(c) \/ CliStep(c)
    BY <1>2, <2>3
    DEF CliStart, CliStep, CancelRead, CancelTarget, ResubmitRead, CancelProvider, CancelEnqueue, CancelJob,
        CancelRelease, CancelReleaseRetry, Resubmit, CliGo
  <2>4. CASE RecoveryStep(c)
    BY <1>2, <2>4
    DEF RecoveryStep, RecoveryList, RecoveryFail, RecoveryRelease, RecoveryReleaseRetry, RecGo
  <2>5. CASE UpstreamRuns(c) \/ Age(c) \/ LockExpires(c) \/ DeleteOutput(c) \/ DeleteRecord(c)
    BY <1>2, <2>5 DEF UpstreamRuns, Age, LockExpires, DeleteOutput, DeleteRecord
  <2> QED
    BY <2>1, <2>2, <2>3, <2>4, <2>5 DEF JobStep
<1> QED
  BY <1>1, <1>2

\* A worker acknowledges what is over, and puts back the rest.
LEMMA ProgressByWorker ==
  ASSUME ProgressInv, Undisturbed, NEW w \in Workers, WorkerStep(w)
  PROVE  /\ wrk'[w].pc = "ack" => status'[wrk[w].job] \in Terminal
         /\ \A b \in Jobs : status'[b] \in InProgress => b \in queue' \/ sub'[b] = "enqueue"
<1> PICK c \in Jobs : c = wrk[w].job
  BY DEF ProgressInv, IInv, TypeOK, ProcsTypeOK
<1> TypeOK /\ IInv /\ SettlingSeen /\ ReleaserStatus /\ AckSeen /\ InProgressIsQueued
  BY DEF ProgressInv, IInv
<1> USE DEF TypeOK, RowTypeOK, ProcsTypeOK, EnvTypeOK, SetStatus, Transition, WrkGo, row
<1>1. wrk'[w].pc = "ack" => status'[c] \in Terminal
  <2>1. CASE WorkerLoad(w, c)
    BY <2>1 DEF WorkerLoad, LoadTarget, Done, Terminal, SettlingSeen, PollPC
  <2>2. CASE WorkerRelease(w, c)
    BY <2>2 DEF WorkerRelease, ReleaserStatus
  <2>3. CASE WorkerSettle(w, c) \/ WorkerMark(w, c) \/ WorkerSettleEnd(w, c)
    BY <2>3 DEF WorkerSettle, WorkerMark, WorkerSettleEnd, Terminal
  <2>4. CASE WorkerDispatch(w, c) \/ WorkerPoll(w, c) \/ WorkerTransition(w, c) \/ WorkerIndex(w, c)
    BY <2>4 DEF WorkerDispatch, WorkerPoll, WorkerTransition, Moves, WorkerIndex
  <2>5. CASE WorkerCapture(w, c) \/ WorkerRecordFailure(w, c) \/ WorkerExhaustRelease(w, c)
             \/ WorkerReleaseError(w, c) \/ WorkerExhaustFail(w, c)
    BY <2>5 DEF WorkerCapture, WorkerRecordFailure, WorkerExhaustRelease, WorkerReleaseError,
                WorkerExhaustFail
  <2>6. CASE WorkerAck(w, c) \/ WorkerRequeue(w, c)
    BY <2>6 DEF WorkerAck, WorkerRequeue, Unlock, Idle
  <2> QED
    BY <2>1, <2>2, <2>3, <2>4, <2>5, <2>6 DEF WorkerStep
<1>2. ASSUME NEW b \in Jobs, status'[b] \in InProgress PROVE b \in queue' \/ sub'[b] = "enqueue"
  <2>1. status[b] \in InProgress
    <3>1. Moved(b) /\ sub' = sub
      BY StatusMoves, OtherWorkers DEF Next
    <3>2. status'[b] # "submitted" \/ status[b] = "submitted"
      BY DEF WorkerStep, WorkerDispatch, WorkerLoad, WorkerPoll, WorkerTransition, WorkerIndex,
             WorkerRelease, WorkerSettle, WorkerCapture, WorkerMark, WorkerRecordFailure,
             WorkerExhaustRelease, WorkerReleaseError, WorkerExhaustFail, WorkerSettleEnd,
             WorkerAck, WorkerRequeue, CountFailure, Moves
    <3> QED
      BY <1>2, <3>1, <3>2 DEF Moved, InProgress, AtProvider, CanTransition, AllowedFrom
  <2>2. sub' = sub /\ (wrk[w].pc # "ack" => queue \subseteq queue')
    BY OtherWorkers
    DEF WorkerStep, WorkerDispatch, WorkerLoad, WorkerPoll, WorkerTransition, WorkerIndex,
        WorkerRelease, WorkerSettle, WorkerCapture, WorkerMark, WorkerRecordFailure,
        WorkerExhaustRelease, WorkerReleaseError, WorkerExhaustFail, WorkerSettleEnd,
        WorkerAck, WorkerRequeue, Enqueue
  <2>3. CASE wrk[w].pc = "ack" /\ b = c
    BY <2>1, <2>3 DEF AckSeen, InProgress, AtProvider, Terminal
  <2>4. CASE b # c
    BY <2>1, <2>4, OtherWork DEF Untouched, InProgressIsQueued
  <2> QED
    BY <2>1, <2>2, <2>3, <2>4 DEF InProgressIsQueued
<1> QED
  BY <1>1, <1>2

\* Every step keeps the invariant.
LEMMA ProgressStep == Undisturbed /\ ProgressInv /\ [Next]_vars => ProgressInv'
<1> SUFFICES ASSUME Undisturbed, ProgressInv, [Next]_vars PROVE ProgressInv'
  OBVIOUS
<1>0. TypeOK /\ IInv /\ HoldsLock /\ AckSeen /\ InProgressIsQueued
  BY DEF ProgressInv, IInv
<1>1. IInv' /\ HoldsLock' /\ SettlingSeen'
  BY InvStep, HoldsLockStep, SettlingSeenStep DEF ProgressInv, Undisturbed, IInv
<1>2. \A b \in Jobs : status[b] \in Terminal => status'[b] \in Terminal
  BY <1>0, StatusMoves
  DEF Moved, Terminal, CanTransition, AllowedFrom, IInv, EarlyStatus, Unsubmitted
<1>3. \A w \in Workers : wrk[w].job \in Jobs
  BY <1>0 DEF TypeOK, ProcsTypeOK
<1>4. ASSUME NEW c \in Jobs, JobStep(c) PROVE AckSeen' /\ InProgressIsQueued'
  BY <1>0, <1>2, <1>3, <1>4, JobHandlers, ProgressByJob DEF AckSeen, InProgressIsQueued
<1>5. ASSUME NEW w \in Workers, WorkerStep(w) PROVE AckSeen' /\ InProgressIsQueued'
  BY <1>0, <1>2, <1>3, <1>5, OtherWorkers, ProgressByWorker DEF AckSeen, InProgressIsQueued
<1>6. ASSUME NEW w \in Workers, WorkerCrash(w) \/ \E c \in Jobs : WorkerReserve(w, c)
      PROVE  AckSeen' /\ InProgressIsQueued'
  BY <1>0, <1>6
  DEF WorkerCrash, WorkerReserve, Idle, AckSeen, InProgressIsQueued, TypeOK, ProcsTypeOK, row
<1>7. ASSUME UNCHANGED vars PROVE AckSeen' /\ InProgressIsQueued'
  BY <1>0, <1>7 DEF AckSeen, InProgressIsQueued, vars, row, procs
<1> QED
  BY <1>1, <1>4, <1>5, <1>6, <1>7 DEF Next, ProgressInv

\* A job that the provider works on, or that is being settled, stays queued
\* until it is over: none is forgotten half-way.
THEOREM NoneForgotten == Undisturbed /\ Spec => []InProgressIsQueued
<1>1. Init => ProgressInv
  <2> SUFFICES ASSUME Init PROVE ProgressInv
    OBVIOUS
  <2>1. \A w \in Workers : wrk[w].pc = "idle"
    BY DEF Init, Idle
  <2> QED
    BY <2>1, InvInit
    DEF Init, ProgressInv, HoldsLock, SettlingSeen, PollPC, FailingPC, Moves, AckSeen,
        InProgressIsQueued, InProgress, AtProvider
<1>2. ASSUME Undisturbed PROVE Spec => []InProgressIsQueued
  <2>1. ProgressInv /\ [Next]_vars => ProgressInv'
    BY <1>2, ProgressStep
  <2>2. ProgressInv => InProgressIsQueued
    BY DEF ProgressInv
  <2> QED
    BY <1>1, <2>1, <2>2, PTL DEF Spec
<1> QED
  BY <1>2

-----------------------------------------------------------------------------
(* The holds.  A hold is never forgotten if Submit does not die, the Redis    *)
(* queue answers, no job lock expires under a worker that works, and a COMMIT *)
(* whose outcome is unknown does not happen.  Statements and transactions may *)
(* fail, workers may die, Submit may fall silent while it works, clients may  *)
(* cancel, and the provider may do what it wants.                             *)

Reliable == FaultKinds \cap {"commit", "queue", "submitCrash", "lock"} = {}

\* A worker works on a job that is still queued: a crash loses nothing.
InQueue == \A w \in Workers : wrk[w].pc # "idle" => wrk[w].job \in queue

\* Nobody touches a job before Submit.
Fresh(b) ==
    /\ sub[b] = "idle" <=> status[b] = "none"
    /\ sub[b] = "idle" => /\ cli[b] = "idle" /\ rec[b] = "idle" /\ ~ stale[b]
                         /\ b \notin queue /\ claims[b] = {}
    /\ sub[b] = "reserve" => ~ Claimed("hold", b)
    /\ sub[b] # "queueFailed"
    /\ status[b] \in {"none", "created", "uploading"} => ~ named[b]

\* A job that has a hold, or will have one, and whose claims do not yet say
\* what became of it.
Owed(b) ==
    /\ Claimed("hold", b) \/ sub[b] = "reserve"
    /\ ~ Claimed("release", b) /\ ~ Claimed("capture", b)

\* Who will settle or release the hold: a release that is under way, the queue,
\* or the recovery, which lists what Submit leaves unsubmitted.
HasOwner(b) ==
    \/ sub[b] \in {"enqueue", "releaseRetry"}
    \/ cli[b] \in {"release", "releaseRetry"}
    \/ rec[b] \in {"release", "releaseRetry"}
    \/ b \in queue
    \/ status[b] \in Unsubmitted

OwedJob(b) == Owed(b) => HasOwner(b) /\ sub[b] \notin {"record", "hide"}

\* A worker takes a job off the queue only when its claims are complete.
OwedWorker(w) ==
    Owed(wrk[w].job) =>
        /\ wrk[w].pc \notin {"exhaustFail", "ack"}
        /\ wrk[w].pc = "settleEnd" => status[wrk[w].job] = "settling"

\* The jobs that no client cancels, and that no recovery fails under a silent
\* Submit: no release is claimed before the hold is, so that each returns it.
Kept == IF "stall" \in FaultKinds THEN {} ELSE Jobs \ CancelJobs

KeptJob(b) ==
    b \in Kept =>
        /\ cli[b] \in {"idle", "resubmit"}
        /\ sub[b] # "done" => ~ stale[b] /\ rec[b] = "idle"
        /\ sub[b] = "reserve" => cli[b] = "idle" /\ b \notin queue /\ claims[b] = {}
        /\ Claimed("release", b) /\ Claimed("hold", b) => b \in refunded

\* What the handlers of a job keep of it.
JobInv(b) == Fresh(b) /\ OwedJob(b) /\ KeptJob(b)

OwedInv ==
    /\ IInv /\ HoldsLock /\ SettlingSeen /\ InQueue
    /\ \A b \in Jobs : JobInv(b)
    /\ \A w \in Workers : OwedWorker(w)

\* A release is claimed, and returns the hold of a job that had one.
LEMMA ReleaseCloses ==
  ASSUME LedgerTypeOK, NEW b \in Jobs, Release(b)
  PROVE  /\ claims'[b] = claims[b] \union {"release"}
         /\ refunded \subseteq refunded'
         /\ Claimed("hold", b) /\ ~ Claimed("release", b) => b \in refunded'
  BY DEF LedgerTypeOK, Release, Duplicate, Claim, Claimed, ledger

\* A reservation adds the claim of the hold and no other.
LEMMA ReserveOpens ==
  ASSUME LedgerTypeOK, NEW b \in Jobs, Reserve(b)
  PROVE  claims'[b] = claims[b] \union {"hold"} /\ UNCHANGED refunded
  BY DEF LedgerTypeOK, Reserve, Duplicate, Claim, Claimed, ledger

\* A capture closes the hold.
LEMMA CaptureCloses ==
  ASSUME LedgerTypeOK, NEW b \in Jobs, NEW c \in Nat, Capture(b, c)
  PROVE  claims'[b] = claims[b] \union {"capture"} /\ UNCHANGED refunded
  BY DEF LedgerTypeOK, Capture, Duplicate, Claim, Claimed, ledger

\* The submission keeps the invariant of its job.
LEMMA OwedBySubmit ==
  ASSUME OwedInv, Reliable, NEW c \in Jobs,
         SubmitCreate(c) \/ SubmitStep(c) \/ SubmitHeartbeat(c) \/ SubmitCrash(c)
  PROVE  JobInv(c)'
<1> JobInv(c) /\ TypeOK /\ EarlyStatus /\ LedgerTypeOK
  BY DEF OwedInv, IInv, TypeOK
<1> USE DEF TypeOK, RowTypeOK, ProcsTypeOK, EnvTypeOK, LedgerTypeOK, JobInv, Fresh, OwedJob, Owed, HasOwner,
            KeptJob, Claimed, SubGo, Unsubmitted, SetStatus, row, procs
<1>0. ~ Fault("commit") /\ ~ Fault("queue") /\ ~ Fault("submitCrash")
  BY DEF Reliable, Fault
<1>1. CASE SubmitCreate(c)
  BY <1>1 DEF SubmitCreate, ledger
<1>2. CASE SubmitHeartbeat(c)
  BY <1>2 DEF SubmitHeartbeat, ledger
<1>3. CASE SubmitCrash(c)
  BY <1>0, <1>3 DEF SubmitCrash
<1>4. CASE SubmitReserve(c)
  <2>1. \/ Reserve(c) /\ sub' = [sub EXCEPT ![c] = "items"]
        \/ UNCHANGED ledger /\ sub' = [sub EXCEPT ![c] = "record"]
    BY <1>0, <1>4 DEF SubmitReserve, ReserveRefused
  <2>2. sub[c] = "reserve" /\ UNCHANGED <<row, queue, cli, rec>>
    BY <1>4 DEF SubmitReserve
  <2> QED
    BY <2>1, <2>2, ReserveOpens DEF ledger
<1>5. CASE SubmitItems(c) \/ SubmitProvider(c) \/ SubmitAbort(c)
  BY <1>5 DEF SubmitItems, SubmitProvider, SubmitAbort, ledger
<1>6. CASE SubmitUpload(c) \/ SubmitPersist(c)
  BY <1>6 DEF SubmitUpload, SubmitPersist, Transition, CanTransition, AllowedFrom, ledger
<1>7. CASE SubmitEnqueue(c) \/ SubmitQueueFailed(c) \/ SubmitReleaseRetry(c)
  BY <1>0, <1>7 DEF SubmitEnqueue, SubmitQueueFailed, SubmitReleaseRetry, Enqueue, ledger
<1>8. CASE SubmitRelease(c)
  <2>1. \/ Release(c) /\ sub' = [sub EXCEPT ![c] = IF sub[c] = "releaseRecord" THEN "record" ELSE "done"]
        \/ UNCHANGED ledger /\ sub' = [sub EXCEPT ![c] = "releaseFailed"]
    BY <1>0, <1>8 DEF SubmitRelease, ReleaseRefused
  <2>2. sub[c] \in {"releaseRecord", "releaseOnly"} /\ UNCHANGED <<row, queue, cli, rec>>
    BY <1>8 DEF SubmitRelease
  <2> QED
    BY <2>1, <2>2, ReleaseCloses DEF ledger
<1>9. CASE SubmitRecord(c)
  BY <1>9 DEF SubmitRecord, ledger
<1>10. CASE SubmitHide(c)
  BY <1>10 DEF SubmitHide, Hide, ledger
<1> QED
  BY <1>1, <1>2, <1>3, <1>4, <1>5, <1>6, <1>7, <1>8, <1>9, <1>10 DEF SubmitStep

\* The client and the recovery keep the invariant of the job.
LEMMA OwedByRequest ==
  ASSUME OwedInv, Reliable, NEW c \in Jobs, CliStart(c) \/ CliStep(c) \/ RecoveryStep(c)
  PROVE  JobInv(c)'
<1> JobInv(c) /\ TypeOK /\ EarlyStatus /\ LedgerTypeOK
  BY DEF OwedInv, IInv, TypeOK
<1> USE DEF TypeOK, RowTypeOK, ProcsTypeOK, EnvTypeOK, LedgerTypeOK, JobInv, Fresh, OwedJob, Owed, HasOwner,
            KeptJob, Claimed, CliGo, RecGo, Unsubmitted, SetStatus, row, procs
<1>0. ~ Fault("commit") /\ ~ Fault("queue")
  BY DEF Reliable, Fault
<1>1. CASE CancelRead(c) \/ CancelProvider(c)
  BY <1>1 DEF CancelRead, CancelTarget, CancelProvider, Kept, ledger
<1>2. CASE CancelJob(c)
  BY <1>2 DEF CancelJob, Transition, CanTransition, AllowedFrom, ledger
<1>3. CASE CancelEnqueue(c) \/ CancelReleaseRetry(c)
  BY <1>0, <1>3 DEF CancelEnqueue, CancelReleaseRetry, Enqueue, ledger
<1>4. CASE CancelRelease(c)
  <2>1. \/ Release(c) /\ cli' = [cli EXCEPT ![c] = "idle"]
        \/ UNCHANGED ledger /\ cli' = [cli EXCEPT ![c] = "releaseRetry"]
    BY <1>0, <1>4 DEF CancelRelease, ReleaseRefused
  <2>2. cli[c] = "release" /\ UNCHANGED <<row, queue, rec, sub>>
    BY <1>4 DEF CancelRelease
  <2> QED
    BY <2>1, <2>2, ReleaseCloses DEF ledger
<1>5. CASE ResubmitRead(c) \/ Resubmit(c)
  BY <1>0, <1>5 DEF ResubmitRead, Resubmit, Enqueue, EarlyStatus, Early, ledger
<1>6. CASE RecoveryList(c) \/ RecoveryFail(c)
  BY <1>6 DEF RecoveryList, RecoveryFail, StaleUnsubmitted, ledger
<1>7. CASE RecoveryRelease(c)
  <2>1. \/ Release(c) /\ rec' = [rec EXCEPT ![c] = "idle"]
        \/ UNCHANGED ledger /\ rec' = [rec EXCEPT ![c] = "releaseRetry"]
    BY <1>0, <1>7 DEF RecoveryRelease, ReleaseRefused
  <2>2. rec[c] = "release" /\ UNCHANGED <<row, queue, cli, sub>>
    BY <1>7 DEF RecoveryRelease
  <2> QED
    BY <2>1, <2>2, ReleaseCloses DEF ledger
<1>8. CASE RecoveryReleaseRetry(c)
  BY <1>0, <1>8 DEF RecoveryReleaseRetry, Enqueue, ledger
<1> QED
  BY <1>1, <1>2, <1>3, <1>4, <1>5, <1>6, <1>7, <1>8 DEF CliStart, CliStep, RecoveryStep

\* So do the provider, time, and the cleanup of what is over.
LEMMA OwedByEnvironment ==
  ASSUME OwedInv, Reliable, NEW c \in Jobs,
         UpstreamRuns(c) \/ Age(c) \/ LockExpires(c) \/ DeleteOutput(c) \/ DeleteRecord(c)
  PROVE  JobInv(c)'
<1> JobInv(c) /\ TypeOK
  BY DEF OwedInv, IInv
<1>1. c \in Kept => ~ Fault("stall")
  BY DEF Kept, Fault
<1> QED
  BY <1>1
  DEF TypeOK, RowTypeOK, ProcsTypeOK, EnvTypeOK, LedgerTypeOK, JobInv, Fresh, OwedJob, Owed, HasOwner,
      KeptJob, Claimed, SubmitAlive, Unsubmitted, SetStatus, UpstreamRuns, Age, LockExpires,
      DeleteOutput, DeleteRecord, Hide, row, procs, ledger

\* A worker keeps the invariant of its job.
LEMMA OwedByWorker ==
  ASSUME OwedInv, Reliable, NEW w \in Workers, WorkerStep(w), NEW c \in Jobs, c = wrk[w].job
  PROVE  /\ JobInv(c)'
         /\ wrk'[w].pc # "idle" => OwedWorker(w)' /\ c \in queue'
<1> JobInv(c) /\ OwedWorker(w) /\ wrk[w].pc # "idle" /\ c \in queue
  BY OtherWorkers DEF OwedInv, InQueue, IInv
<1> TypeOK /\ LedgerTypeOK /\ CompletedIsCharged /\ SettlerState /\ SettlingSeen
  BY DEF OwedInv, IInv, TypeOK
<1> USE DEF TypeOK, RowTypeOK, ProcsTypeOK, EnvTypeOK, LedgerTypeOK, JobInv, Fresh, OwedJob, Owed, HasOwner,
            KeptJob, OwedWorker, Claimed, WrkGo, Unsubmitted, SetStatus, row, procs
<1>0. ~ Fault("commit") /\ ~ Fault("queue")
  BY DEF Reliable, Fault
<1>1. CASE WorkerDispatch(w, c) \/ WorkerPoll(w, c)
  BY <1>1 DEF WorkerDispatch, WorkerPoll, ledger
<1>2. CASE WorkerLoad(w, c)
  BY <1>2 DEF WorkerLoad, LoadTarget, Done, Terminal, SettlingSeen, PollPC, CompletedIsCharged, ledger
<1>3. CASE WorkerTransition(w, c)
  BY <1>3 DEF WorkerTransition, Moves, Transition, CanTransition, AllowedFrom, ledger
<1>4. CASE WorkerIndex(w, c)
  BY <1>4 DEF WorkerIndex, ledger
<1>5. CASE WorkerRelease(w, c)
  <2>1. /\ wrk[w].pc = "release" /\ UNCHANGED <<row, queue, sub, cli, rec>>
        /\ \/ Release(c) /\ wrk' = [wrk EXCEPT ![w].pc = "ack"]
           \/ UNCHANGED ledger /\ wrk' = [wrk EXCEPT ![w].pc = "requeue"]
    BY <1>0, <1>5 DEF WorkerRelease, ReleaseRefused
  <2> QED
    BY <2>1, ReleaseCloses DEF ledger
<1>6. CASE WorkerSettle(w, c)
  BY <1>6 DEF WorkerSettle, CompletedIsCharged, ledger
<1>7. CASE WorkerCapture(w, c)
  <2>1. /\ wrk[w].pc = "capture" /\ UNCHANGED <<row, queue, sub, cli, rec>>
        /\ \/ Capture(c, cost[c]) /\ wrk' = [wrk EXCEPT ![w].pc = "mark"]
           \/ UNCHANGED ledger /\ wrk' = [wrk EXCEPT ![w].pc = "recordFailure"]
    BY <1>0, <1>7 DEF WorkerCapture, CaptureRefused
  <2> QED
    BY <2>1, CaptureCloses DEF SettlerState, SettlePC, ledger
<1>8. CASE WorkerMark(w, c)
  BY <1>8 DEF WorkerMark, SettlerState, ledger
<1>9. CASE WorkerRecordFailure(w, c) \/ WorkerReleaseError(w, c)
  BY <1>9 DEF WorkerRecordFailure, WorkerReleaseError, CountFailure, SettlingSeen, FailingPC, ledger
<1>10. CASE WorkerExhaustRelease(w, c)
  <2>1. /\ wrk[w].pc = "exhaustRelease" /\ UNCHANGED <<row, queue, sub, cli, rec>>
        /\ \/ Release(c) /\ wrk' = [wrk EXCEPT ![w].pc = "exhaustFail"]
           \/ UNCHANGED ledger /\ wrk' = [wrk EXCEPT ![w].pc = "releaseError"]
    BY <1>0, <1>10 DEF WorkerExhaustRelease, ReleaseRefused
  <2> QED
    BY <2>1, ReleaseCloses DEF ledger
<1>11. CASE WorkerExhaustFail(w, c)
  BY <1>11 DEF WorkerExhaustFail, Transition, CanTransition, AllowedFrom, ledger
<1>12. CASE WorkerSettleEnd(w, c)
  BY <1>12 DEF WorkerSettleEnd, Terminal, ledger
<1>13. CASE WorkerAck(w, c) \/ WorkerRequeue(w, c)
  BY <1>0, <1>13 DEF WorkerAck, WorkerRequeue, Unlock, Idle, Enqueue, ledger
<1> QED
  BY <1>1, <1>2, <1>3, <1>4, <1>5, <1>6, <1>7, <1>8, <1>9, <1>10, <1>11, <1>12, <1>13 DEF WorkerStep

\* What a job keeps when a step is about another job.
LEMMA OwedUntouched ==
  ASSUME NEW b \in Jobs, JobInv(b), Untouched(b) PROVE JobInv(b)'
  BY DEF JobInv, Fresh, OwedJob, Owed, HasOwner, KeptJob, Claimed, Untouched

\* A step of a job's handlers cannot make a worker's reading of it false.
LEMMA OwedWorkerByJob ==
  ASSUME OwedInv, Reliable, NEW c \in Jobs, JobStep(c), NEW v \in Workers
  PROVE  OwedWorker(v)' /\ (wrk'[v].pc # "idle" => wrk'[v].job \in queue')
<1> IInv /\ OwedWorker(v) /\ JobInv(c) /\ (wrk[v].pc # "idle" => wrk[v].job \in queue)
  BY DEF OwedInv, InQueue
<1>0. TypeOK /\ HoldState
  BY DEF IInv
<1>1. wrk'[v] = wrk[v] /\ wrk[v].job \in Jobs
  BY <1>0, JobHandlers DEF TypeOK, ProcsTypeOK
<1>2. status'[wrk[v].job] = "settling" <=> status[wrk[v].job] = "settling"
  BY <1>1, SettlingByWorkers
<1>3. CASE wrk[v].pc = "idle"
  BY <1>1, <1>3 DEF OwedWorker
<1>4. CASE wrk[v].pc # "idle" /\ wrk[v].job # c
  BY <1>0, <1>1, <1>4, OtherJobs DEF OwedWorker, Owed, Claimed, Untouched
<1>5. CASE wrk[v].pc # "idle" /\ wrk[v].job = c
  <2>1. c \in queue => c \in queue'
    BY DEF JobStep, SubmitCreate, SubmitStep, SubmitHeartbeat, SubmitCrash, SubmitReserve, SubmitItems,
           SubmitUpload, SubmitProvider, SubmitPersist, SubmitAbort, SubmitEnqueue, SubmitQueueFailed,
           SubmitRelease, SubmitRecord, SubmitHide, Hide, SubmitReleaseRetry,
           CliStart, CliStep, CancelRead, CancelTarget, ResubmitRead, CancelProvider, CancelEnqueue, CancelJob,
           CancelRelease, CancelReleaseRetry, Resubmit, Enqueue,
           RecoveryStep, RecoveryList, RecoveryFail, RecoveryRelease, RecoveryReleaseRetry,
           UpstreamRuns, Age, LockExpires, DeleteOutput, DeleteRecord
  <2>2. status[c] # "none"
    BY <1>5 DEF JobInv, Fresh
  <2>3. MoneyMoved(c) /\ SubMoved(c)
    BY MoneyMoves, HandlerMoves DEF Next
  <2>4. Owed(c)' => Owed(c)
    BY <1>0, <2>2, <2>3 DEF MoneyMoved, SubMoved, HoldState, Owed, Claimed
  <2> QED
    BY <1>1, <1>2, <1>5, <2>1, <2>4 DEF OwedWorker
<1> QED
  BY <1>3, <1>4, <1>5

\* A worker that takes a job, or dies, leaves the job as it is.
LEMMA OwedIdle ==
  ASSUME OwedInv, NEW w \in Workers, WorkerCrash(w) \/ (\E c \in Jobs : WorkerReserve(w, c))
  PROVE  /\ \A b \in Jobs : JobInv(b)'
         /\ \A v \in Workers : OwedWorker(v)'
         /\ InQueue'
<1>1. \A b \in Jobs : JobInv(b)
  BY DEF OwedInv
<1>2. /\ UNCHANGED <<ledger, row, queue, sub, cli, rec>>
      /\ \A v \in Workers :
            \/ wrk'[v] = wrk[v]
            \/ wrk'[v].pc = "idle"
            \/ wrk'[v].pc = "dispatch" /\ wrk'[v].job \in queue
  BY DEF WorkerCrash, WorkerReserve, Idle, OwedInv, IInv, TypeOK, ProcsTypeOK
<1>3. ASSUME NEW b \in Jobs PROVE JobInv(b)'
  BY <1>1, <1>2 DEF JobInv, Fresh, OwedJob, Owed, HasOwner, KeptJob, Claimed, ledger, row
<1>4. ASSUME NEW v \in Workers PROVE OwedWorker(v)' /\ (wrk'[v].pc # "idle" => wrk'[v].job \in queue')
  BY <1>2 DEF OwedInv, InQueue, OwedWorker, Owed, Claimed, ledger, row
<1> QED
  BY <1>3, <1>4 DEF InQueue

\* The invariant holds before the first job.
LEMMA OwedInit == Init => OwedInv
<1> SUFFICES ASSUME Init PROVE OwedInv
  OBVIOUS
<1>1. \A w \in Workers : wrk[w].pc = "idle"
  BY DEF Init, Idle
<1>2. \A b \in Jobs : JobInv(b)
  BY DEF Init, LedgerInit, JobInv, Fresh, OwedJob, Owed, HasOwner, KeptJob, Claimed
<1> QED
  BY InvInit, <1>1, <1>2 DEF OwedInv, HoldsLock, SettlingSeen, PollPC, FailingPC, Moves, InQueue, OwedWorker

\* Every step keeps it, as long as the faults are those it is about.
LEMMA OwedStep == Reliable /\ OwedInv /\ [Next]_vars => OwedInv'
<1> SUFFICES ASSUME Reliable, OwedInv, [Next]_vars PROVE OwedInv'
  OBVIOUS
<1>0. TypeOK /\ \A b \in Jobs : JobInv(b)
  BY DEF OwedInv, IInv
<1>1. IInv' /\ HoldsLock' /\ SettlingSeen'
  BY InvStep, HoldsLockStep, SettlingSeenStep DEF OwedInv, Reliable, IInv
<1>2. ASSUME NEW c \in Jobs, JobStep(c)
      PROVE  (\A b \in Jobs : JobInv(b)') /\ (\A v \in Workers : OwedWorker(v)') /\ InQueue'
  <2>1. JobInv(c)'
    BY <1>2, OwedBySubmit, OwedByRequest, OwedByEnvironment DEF JobStep
  <2>2. ASSUME NEW b \in Jobs \ {c} PROVE JobInv(b)'
    BY <1>0, <1>2, OtherJobs, OwedUntouched
  <2> QED
    BY <1>2, <2>1, <2>2, OwedWorkerByJob DEF InQueue
<1>3. ASSUME NEW w \in Workers, WorkerStep(w)
      PROVE  (\A b \in Jobs : JobInv(b)') /\ (\A v \in Workers : OwedWorker(v)') /\ InQueue'
  <2>1. PICK c \in Jobs : c = wrk[w].job
    BY <1>0 DEF TypeOK, ProcsTypeOK
  <2>2. wrk[w].pc # "idle" /\ (wrk'[w].pc # "idle" => wrk'[w].job = c)
    BY <1>0, <1>3, <2>1, OtherWorkers
  <2>3. JobInv(c)' /\ (wrk'[w].pc # "idle" => OwedWorker(w)' /\ c \in queue')
    BY <1>3, <2>1, OwedByWorker
  <2>4. ASSUME NEW b \in Jobs \ {c} PROVE JobInv(b)'
    BY <1>0, <1>3, <2>1, OtherWork, OwedUntouched
  <2>5. ASSUME NEW v \in Workers \ {w}, wrk'[v].pc # "idle"
        PROVE  OwedWorker(v)' /\ wrk'[v].job \in queue'
    <3>1. wrk'[v] = wrk[v] /\ wrk[v].job \in Jobs
      BY <1>0, <1>3, OtherWorkers DEF TypeOK, ProcsTypeOK
    <3>2. wrk[v].job # wrk[w].job
      BY <1>0, <2>2, <2>5, <3>1, OneWorker DEF OwedInv
    <3> QED
      BY <1>0, <1>3, <2>5, <3>1, <3>2, OtherWork DEF OwedInv, InQueue, OwedWorker, Owed, Claimed, Untouched
  <2>6. ASSUME NEW v \in Workers, wrk'[v].pc = "idle" PROVE OwedWorker(v)'
    BY <2>6 DEF OwedWorker
  <2>7. ASSUME NEW v \in Workers, wrk'[v].pc # "idle"
        PROVE  OwedWorker(v)' /\ wrk'[v].job \in queue'
    BY <2>2, <2>3, <2>5, <2>7
  <2> QED
    BY <2>3, <2>4, <2>6, <2>7 DEF InQueue
<1>4. ASSUME NEW w \in Workers, WorkerCrash(w) \/ (\E c \in Jobs : WorkerReserve(w, c))
      PROVE  (\A b \in Jobs : JobInv(b)') /\ (\A v \in Workers : OwedWorker(v)') /\ InQueue'
  BY <1>4, OwedIdle
<1>5. ASSUME UNCHANGED vars
      PROVE  (\A b \in Jobs : JobInv(b)') /\ (\A v \in Workers : OwedWorker(v)') /\ InQueue'
  BY <1>5
  DEF OwedInv, JobInv, Fresh, OwedJob, Owed, HasOwner, KeptJob, OwedWorker, InQueue, Claimed,
      vars, ledger, row, procs
<1>6. (\A b \in Jobs : JobInv(b)') /\ (\A v \in Workers : OwedWorker(v)') /\ InQueue'
  BY <1>2, <1>3, <1>4, <1>5 DEF Next
<1> QED
  BY <1>1, <1>6 DEF OwedInv

\* The invariant holds in every state that a system with these faults reaches.
LEMMA OwedInvariance == Reliable /\ Spec => []OwedInv
<1>1. ASSUME Reliable PROVE Spec => []OwedInv
  <2>1. OwedInv /\ [Next]_vars => OwedInv'
    BY <1>1, OwedStep
  <2> QED
    BY <2>1, OwedInit, PTL DEF Spec
<1> QED
  BY <1>1

\* A hold is lost in one way only, whatever clients cancel: its release id was
\* used up before there was a hold.  An open hold whose release is not claimed
\* is in the hands of a release, or its job is queued, or still unsubmitted and
\* so in the hands of Submit or of the recovery.
THEOREM EveryHoldHasOwner ==
    Reliable /\ Spec => [](\A b \in Jobs : OpenHold(b) /\ ~ Claimed("release", b) => HasOwner(b))
<1>1. OwedInv => \A b \in Jobs : OpenHold(b) /\ ~ Claimed("release", b) => HasOwner(b)
  BY DEF OwedInv, JobInv, OwedJob, Owed, OpenHold
<1> QED
  BY <1>1, OwedInvariance, PTL

\* That does not happen to a job which its client does not cancel, if Submit is
\* never silent for as long as the recovery waits; what happens to other jobs
\* does not disturb it.
THEOREM KeptHoldHasOwner ==
    Reliable /\ "stall" \notin FaultKinds /\ Spec =>
        [](\A b \in Jobs \ CancelJobs : OpenHold(b) => HasOwner(b))
<1>1. ASSUME "stall" \notin FaultKinds
      PROVE  OwedInv => \A b \in Jobs \ CancelJobs : OpenHold(b) => HasOwner(b)
  BY <1>1 DEF OwedInv, JobInv, OwedJob, Owed, KeptJob, Kept, OpenHold
<1>2. ASSUME Reliable, "stall" \notin FaultKinds
      PROVE  Spec => [](\A b \in Jobs \ CancelJobs : OpenHold(b) => HasOwner(b))
  <2>1. OwedInv => \A b \in Jobs \ CancelJobs : OpenHold(b) => HasOwner(b)
    BY <1>1, <1>2
  <2>2. Spec => []OwedInv
    BY <1>2, OwedInvariance
  <2> QED
    BY <2>1, <2>2, PTL
<1> QED
  BY <1>2

\* No hold is forgotten when no job is cancelled.
THEOREM HoldHasOwner ==
    Reliable /\ "stall" \notin FaultKinds /\ CancelJobs = {} /\ Spec => []OpenHoldHasOwner
<1>1. ASSUME "stall" \notin FaultKinds, CancelJobs = {} PROVE OwedInv => OpenHoldHasOwner
  BY <1>1
  DEF OwedInv, JobInv, Fresh, OwedJob, Owed, HasOwner, KeptJob, Kept, OpenHold, OpenHoldHasOwner,
      SubmitAlive, Unsubmitted
<1>2. ASSUME Reliable, "stall" \notin FaultKinds, CancelJobs = {} PROVE Spec => []OpenHoldHasOwner
  <2>1. OwedInv => OpenHoldHasOwner
    BY <1>1, <1>2
  <2>2. Spec => []OwedInv
    BY <1>2, OwedInvariance
  <2> QED
    BY <2>1, <2>2, PTL
<1> QED
  BY <1>2

-----------------------------------------------------------------------------
(* A hold is resolved once.  The claims of the capture and of the release are *)
(* two rows of usage_billing_dedup, and neither transaction looks at the      *)
(* other's.  That a job is never both charged and refunded rests on the       *)
(* count of settlement failures: it is exhausted only if no capture was ever  *)
(* committed, and once it is it stays so.  An error of the capture after its  *)
(* COMMIT ("commit"), or of its repetition ("bill"), is counted although the  *)
(* money was taken, and the hold is returned as well.  The proof lets a       *)
(* capture be refused at any time, whatever the pool of the user contains,    *)
(* and so it also needs that nobody clears the error that the count asks for  *)
(* ("queue") and that no second worker settles the same job ("lock").         *)

Accountable == FaultKinds \cap {"bill", "commit", "queue", "lock"} = {}

\* No job is both charged and refunded.
ResolvedOnce == \A b \in refunded : ~ Claimed("capture", b)

OnceJob(b) ==
    /\ status[b] = "settling" => /\ Claimed("capture", b) => ~ RetryExhausted(b)
                                 /\ b \in refunded => RetryExhausted(b)
    /\ cli[b] = "release" \/ rec[b] = "release" => status[b] \in {"failed", "cancelled"}
    /\ Claimed("capture", b) => status[b] \in {"settling", "completed", "output_deleted"}
    /\ b \in refunded => Claimed("release", b) /\ ~ Claimed("capture", b)
    /\ sub[b] # "queueFailed"

OnceWorker(w) ==
    LET b == wrk[w].job IN
    /\ wrk[w].pc = "release" => status[b] \in {"failed", "cancelled"}
    /\ wrk[w].pc = "capture" => ~ RetryExhausted(b)
    /\ wrk[w].pc = "exhaustRelease" => RetryExhausted(b)
    /\ wrk[w].pc \in {"recordFailure", "exhaustRelease", "exhaustFail", "releaseError"} =>
         ~ Claimed("capture", b)

OnceInv ==
    /\ IInv /\ HoldsLock /\ SettlingSeen
    /\ \A b \in Jobs : OnceJob(b)
    /\ \A w \in Workers : OnceWorker(w)

\* Only a worker counts a failure, and nothing resets the count of a job that
\* is being settled.
RetryMoved(b) ==
    /\ RetryExhausted(b) => RetryExhausted(b)' \/ status'[b] # "settling"
    /\ RetryExhausted(b)' =>
         \/ RetryExhausted(b)
         \/ \E w \in Workers : wrk[w].job = b /\ wrk[w].pc \in {"recordFailure", "releaseError"}

\* The requests that release a hold have seen the job failed or cancelled, and
\* the queue answers Submit.
RequestMoved(b) ==
    /\ cli'[b] = "release" => cli[b] = "release" \/ status'[b] \in {"failed", "cancelled"}
    /\ rec'[b] = "release" => rec[b] = "release" \/ status'[b] \in {"failed", "cancelled"}
    /\ sub'[b] # "queueFailed"

\* Submit, the client, the recovery and the environment move a job like this.
LEMMA OnceMovesJob ==
  ASSUME OnceInv, Accountable, NEW c \in Jobs, JobStep(c), NEW b \in Jobs
  PROVE  RetryMoved(b) /\ SettlementEnds(b) /\ RequestMoved(b)
<1> TypeOK /\ IInv /\ EarlyStatus /\ OnceJob(b)
  BY DEF OnceInv, IInv
<1> USE DEF TypeOK, RowTypeOK, ProcsTypeOK, RetryMoved, RequestMoved, RetryExhausted, OnceJob, SetStatus,
            Transition, row, procs
<1>0. ~ Fault("queue")
  BY DEF Accountable, Fault
<1>1. SettlementEnds(b)
  BY SettlingByWorkers DEF SettlementEnds
<1>2. CASE b # c
  BY <1>1, <1>2, OtherJobs DEF Untouched
<1>3. CASE b = c
  <2>1. CASE SubmitCreate(c) \/ SubmitHeartbeat(c) \/ SubmitCrash(c)
    BY <1>1, <1>3, <2>1 DEF SubmitCreate, SubmitHeartbeat, SubmitCrash, SubGo
  <2>2. CASE SubmitStep(c)
    BY <1>1, <1>0, <1>3, <2>2
    DEF SubmitStep, SubmitReserve, SubmitItems, SubmitUpload, SubmitProvider, SubmitPersist,
        SubmitAbort, SubmitEnqueue, SubmitQueueFailed, SubmitRelease, SubmitRecord, SubmitHide,
        SubmitReleaseRetry, SubGo
  <2>3. CASE CliStart(c) \/ CliStep(c)
    BY <1>1, <1>0, <1>3, <2>3
    DEF CliStart, CliStep, CancelRead, CancelTarget, ResubmitRead, CancelProvider, CancelEnqueue, CancelJob,
        CancelRelease, CancelReleaseRetry, Resubmit, CliGo
  <2>4. CASE RecoveryStep(c)
    BY <1>1, <1>3, <2>4
    DEF RecoveryStep, RecoveryList, RecoveryFail, RecoveryRelease, RecoveryReleaseRetry, RecGo
  <2>5. CASE UpstreamRuns(c) \/ Age(c) \/ LockExpires(c) \/ DeleteOutput(c) \/ DeleteRecord(c)
    BY <1>1, <1>3, <2>5 DEF UpstreamRuns, Age, LockExpires, DeleteOutput, DeleteRecord
  <2> QED
    BY <1>1, <2>1, <2>2, <2>3, <2>4, <2>5 DEF JobStep
<1> QED
  BY <1>2, <1>3

\* Workers move a job like this.
LEMMA OnceMovesWork ==
  ASSUME OnceInv, NEW w \in Workers, WorkerStep(w), NEW b \in Jobs
  PROVE  RetryMoved(b) /\ SettlementEnds(b) /\ RequestMoved(b)
<1> TypeOK /\ IInv /\ OnceJob(b) /\ SettlingSeen
  BY DEF OnceInv, IInv
<1> USE DEF TypeOK, RowTypeOK, ProcsTypeOK, RetryMoved, SettlementEnds, RetryExhausted
<1>1. RequestMoved(b)
  BY OtherWorkers DEF RequestMoved, OnceJob
<1>2. CASE wrk[w].job # b
  BY <1>1, <1>2, OtherWork DEF Untouched
<1>3. CASE wrk[w].job = b
  <2>1. CASE WorkerRecordFailure(w, b) \/ WorkerReleaseError(w, b)
    BY <1>1, <1>3, <2>1, RetryAssumption DEF WorkerRecordFailure, WorkerReleaseError, CountFailure, row
  <2>2. CASE WorkerTransition(w, b)
    BY <1>1, <1>3, <2>2 DEF WorkerTransition, Transition, SetStatus, SettlingSeen, PollPC, row
  <2>3. CASE WorkerMark(w, b) \/ WorkerExhaustFail(w, b)
    BY <1>1, <1>3, <2>3 DEF WorkerMark, WorkerExhaustFail, Transition, SetStatus, row
  <2>4. CASE UNCHANGED <<status, retry, settleErr>>
    BY <1>1, <2>4
  <2> QED
    BY <1>1, <1>3, <2>1, <2>2, <2>3, <2>4
    DEF WorkerStep, WorkerDispatch, WorkerLoad, WorkerPoll, WorkerIndex, WorkerRelease, WorkerSettle,
        WorkerCapture, WorkerExhaustRelease, WorkerSettleEnd, WorkerAck, WorkerRequeue, row
<1> QED
  BY <1>2, <1>3

\* So does every step.
LEMMA OnceMoves ==
  ASSUME OnceInv, Accountable, [Next]_vars, NEW b \in Jobs
  PROVE  RetryMoved(b) /\ SettlementEnds(b) /\ RequestMoved(b)
<1>1. ASSUME UNCHANGED <<status, retry, settleErr, sub, cli, rec>>
      PROVE  RetryMoved(b) /\ SettlementEnds(b) /\ RequestMoved(b)
  BY <1>1 DEF RetryMoved, SettlementEnds, RequestMoved, RetryExhausted, OnceInv, OnceJob
<1> QED
  BY <1>1, OnceMovesJob, OnceMovesWork DEF Next, WorkerCrash, WorkerReserve, vars, row, procs

\* How a worker comes to capture, to release and to fail a job.
OnceWorkerMoved(w) ==
    LET b == wrk[w].job IN
    /\ wrk'[w].pc # "idle" => wrk'[w].job = b
    /\ wrk'[w].pc = "release" => wrk[w].pc = "release" \/ status'[b] \in {"failed", "cancelled"}
    /\ wrk'[w].pc = "capture" => wrk[w].pc = "settle" /\ ~ RetryExhausted(b)
    /\ wrk'[w].pc = "exhaustRelease" =>
        \/ wrk[w].pc = "settle" /\ status[b] = "settling" /\ RetryExhausted(b)
        \/ wrk[w].pc = "recordFailure" /\ (retry'[b] >= MaxRetries /\ settleErr'[b])
    /\ wrk'[w].pc = "recordFailure" => wrk[w].pc = "capture" /\ "capture" \notin claims'[b]
    /\ wrk'[w].pc \in {"exhaustFail", "releaseError"} => wrk[w].pc = "exhaustRelease"

\* A step of a worker moves the worker like this.
LEMMA OnceWorkerMoves ==
  ASSUME OnceInv, Accountable, NEW w \in Workers, WorkerStep(w)
  PROVE  OnceWorkerMoved(w)
<1> DEFINE b == wrk[w].job
<1> TypeOK /\ b \in Jobs /\ SettlingSeen
  BY DEF OnceInv, IInv, TypeOK, ProcsTypeOK
<1> HIDE DEF b
<1> USE DEF TypeOK, RowTypeOK, ProcsTypeOK, SetStatus, Transition, WrkGo, row
<1>0. ~ Fault("bill") /\ ~ Fault("commit")
  BY DEF Accountable, Fault
<1>1. b = wrk[w].job
  BY DEF b
<1>2. CASE WorkerDispatch(w, b) \/ WorkerPoll(w, b) \/ WorkerIndex(w, b) \/ WorkerRelease(w, b)
  BY <1>1, <1>2 DEF OnceWorkerMoved, WorkerDispatch, WorkerPoll, WorkerIndex, WorkerRelease
<1>3. CASE WorkerLoad(w, b)
  BY <1>1, <1>3 DEF OnceWorkerMoved, WorkerLoad, LoadTarget
<1>4. CASE WorkerTransition(w, b)
  BY <1>1, <1>4 DEF OnceWorkerMoved, WorkerTransition, Moves
<1>5. CASE WorkerSettle(w, b)
  BY <1>1, <1>5 DEF OnceWorkerMoved, WorkerSettle, RetryExhausted
<1>6. CASE WorkerCapture(w, b)
  <2>1. /\ wrk[w].pc = "capture"
        /\ \/ wrk' = [wrk EXCEPT ![w].pc = "mark"]
           \/ /\ wrk' = [wrk EXCEPT ![w].pc = "recordFailure"]
              /\ ~ Claimed("capture", b) /\ UNCHANGED claims
    BY <1>0, <1>6 DEF WorkerCapture, CaptureRefused, ledger
  <2> QED
    BY <1>1, <2>1 DEF OnceWorkerMoved, Claimed
<1>7. CASE WorkerRecordFailure(w, b)
  BY <1>1, <1>7 DEF OnceWorkerMoved, WorkerRecordFailure, CountFailure
<1>8. CASE WorkerMark(w, b) \/ WorkerExhaustRelease(w, b) \/ WorkerReleaseError(w, b)
           \/ WorkerExhaustFail(w, b) \/ WorkerSettleEnd(w, b)
  BY <1>1, <1>8
  DEF OnceWorkerMoved, WorkerMark, WorkerExhaustRelease, WorkerReleaseError, WorkerExhaustFail,
      WorkerSettleEnd
<1>9. CASE WorkerAck(w, b) \/ WorkerRequeue(w, b)
  BY <1>1, <1>9 DEF OnceWorkerMoved, WorkerAck, WorkerRequeue, Unlock, Idle
<1> QED
  BY <1>1, <1>2, <1>3, <1>4, <1>5, <1>6, <1>7, <1>8, <1>9 DEF WorkerStep

\* A capture happens only before the retries are exhausted, and a release of a
\* job in settlement only after.
LEMMA OnceMoney ==
  ASSUME OnceInv, [Next]_vars, NEW b \in Jobs
  PROVE  /\ "capture" \in claims'[b] /\ ~ Claimed("capture", b) =>
              /\ status[b] = "settling" /\ ~ RetryExhausted(b)
              /\ \E w \in Workers : wrk[w].job = b /\ wrk[w].pc = "capture"
         /\ b \in refunded' \ refunded =>
              /\ ~ Claimed("capture", b)
              /\ status[b] = "settling" => RetryExhausted(b)
<1>1. MoneyMoved(b) /\ OnceJob(b)
  BY MoneyMoves DEF OnceInv
<1>2. \A w \in Workers : OnceWorker(w)
  BY DEF OnceInv
<1>3. "capture" \in claims'[b] /\ ~ Claimed("capture", b) =>
              /\ status[b] = "settling" /\ ~ RetryExhausted(b)
              /\ \E w \in Workers : wrk[w].job = b /\ wrk[w].pc = "capture"
  BY <1>1, <1>2 DEF MoneyMoved, OnceWorker, OnceInv, SettlingSeen, FailingPC
<1>4. ASSUME b \in refunded' \ refunded
      PROVE  /\ ~ Claimed("capture", b)
             /\ status[b] = "settling" => RetryExhausted(b)
  <2>1. CASE sub[b] \in {"releaseRecord", "releaseOnly"}
    BY <1>1, <2>1 DEF OnceJob, OnceInv, IInv, EarlyStatus, Early, Unsubmitted
  <2>2. CASE cli[b] = "release" \/ rec[b] = "release"
    BY <1>1, <2>2 DEF OnceJob
  <2>3. ASSUME NEW w \in Workers, wrk[w].job = b, wrk[w].pc \in {"release", "exhaustRelease"}
        PROVE  /\ ~ Claimed("capture", b)
               /\ status[b] = "settling" => RetryExhausted(b)
    BY <1>1, <1>2, <2>3 DEF OnceJob, OnceWorker
  <2> QED
    BY <1>1, <1>4, <2>1, <2>2, <2>3 DEF MoneyMoved
<1> QED
  BY <1>3, <1>4

\* Every step keeps what is said of a job.
LEMMA OnceJobStep ==
  ASSUME OnceInv, Accountable, [Next]_vars, NEW b \in Jobs
  PROVE  OnceJob(b)'
<1>1. /\ RetryMoved(b) /\ SettlementEnds(b) /\ RequestMoved(b) /\ Moved(b) /\ OnceJob(b)
      /\ claims[b] \subseteq claims'[b]
  BY OnceMoves, StatusMoves, MoneyMoves DEF OnceInv, MoneyMoved
<1>2. /\ EarlyStatus /\ RefundedStatus /\ CapturedState /\ SettlingSeen
      /\ \A w \in Workers : OnceWorker(w)
  BY DEF OnceInv, IInv
<1>3. status[b] \in {"failed", "cancelled"} => status'[b] \in {"failed", "cancelled"}
  BY <1>1, <1>2 DEF Moved, CanTransition, AllowedFrom, EarlyStatus, Unsubmitted
<1>4. cli'[b] = "release" \/ rec'[b] = "release" => status'[b] \in {"failed", "cancelled"}
  BY <1>1, <1>3 DEF RequestMoved, OnceJob
<1>5. ASSUME "capture" \in claims'[b]
      PROVE  status'[b] \in {"settling", "completed", "output_deleted"}
  <2>1. status[b] \in {"settling", "completed", "output_deleted"}
    BY <1>1, <1>5, OnceMoney DEF OnceJob
  <2>2. CASE status[b] = "settling" /\ status'[b] # "settling" /\ status'[b] # "completed"
    <3>1. PICK w \in Workers : wrk[w].job = b /\ wrk[w].pc = "exhaustFail"
      BY <1>1, <2>2 DEF SettlementEnds
    <3>2. ~ Claimed("capture", b)
      BY <1>2, <3>1 DEF OnceWorker
    <3>3. PICK v \in Workers : wrk[v].job = b /\ wrk[v].pc = "capture"
      BY <1>5, <3>2, OnceMoney
    <3> QED
      BY <3>1, <3>3, OneWorker DEF OnceInv, IInv
  <2>3. CASE status[b] \in {"completed", "output_deleted"}
    BY <1>1, <1>2, <2>3 DEF Moved, CanTransition, AllowedFrom, EarlyStatus, Unsubmitted
  <2> QED
    BY <2>1, <2>2, <2>3
<1>6. b \in refunded' => "capture" \notin claims'[b]
  <2> SUFFICES ASSUME b \in refunded', "capture" \in claims'[b] PROVE FALSE
    OBVIOUS
  <2>1. CASE Claimed("capture", b)
    BY <1>1, <2>1, OnceMoney DEF OnceJob
  <2>2. CASE ~ Claimed("capture", b)
    <3>1. /\ status[b] = "settling" /\ ~ RetryExhausted(b)
          /\ b \notin refunded
      BY <1>1, <2>2, OnceMoney DEF OnceJob
    <3> QED
      BY <3>1, OnceMoney
  <2> QED
    BY <2>1, <2>2
<1>7. ASSUME status'[b] = "settling"
      PROVE  /\ "capture" \in claims'[b] => ~ RetryExhausted(b)'
             /\ b \in refunded' => RetryExhausted(b)'
  <2>1. CASE status[b] = "settling"
    <3>1. ASSUME "capture" \in claims'[b], RetryExhausted(b)' PROVE FALSE
      <4>1. ~ RetryExhausted(b)
        BY <1>1, <2>1, <3>1, OnceMoney DEF OnceJob
      <4>2. PICK w \in Workers : wrk[w].job = b /\ wrk[w].pc \in {"recordFailure", "releaseError"}
        BY <1>1, <3>1, <4>1 DEF RetryMoved
      <4>3. ~ Claimed("capture", b)
        BY <1>2, <4>2 DEF OnceWorker
      <4>4. PICK v \in Workers : wrk[v].job = b /\ wrk[v].pc = "capture"
        BY <3>1, <4>3, OnceMoney
      <4> QED
        BY <4>2, <4>4, OneWorker DEF OnceInv, IInv
    <3>2. ASSUME b \in refunded' PROVE RetryExhausted(b)'
      BY <1>1, <1>7, <2>1, <3>2, OnceMoney DEF OnceJob, RetryMoved
    <3> QED
      BY <3>1, <3>2
  <2>2. CASE status[b] # "settling"
    <3>1. status[b] = "indexing"
      BY <1>1, <1>7, <2>2 DEF Moved, CanTransition, AllowedFrom
    <3>2. "capture" \notin claims'[b]
      BY <1>1, <3>1, OnceMoney DEF OnceJob
    <3>3. b \notin refunded
      BY <1>2, <3>1 DEF RefundedStatus, Settled, Terminal, Unsubmitted
    <3>4. b \notin refunded'
      <4>1. MoneyMoved(b)
        BY MoneyMoves DEF OnceInv
      <4>2. ASSUME NEW w \in Workers, wrk[w].job = b
            PROVE  wrk[w].pc \notin {"release", "exhaustRelease"}
        BY <1>2, <3>1, <4>2 DEF OnceWorker, SettlingSeen, FailingPC
      <4> QED
        BY <1>1, <1>2, <3>1, <3>3, <4>1, <4>2
        DEF MoneyMoved, OnceJob, EarlyStatus, Early, Unsubmitted
    <3> QED
      BY <3>2, <3>4
  <2> QED
    BY <2>1, <2>2
<1>8. b \in refunded' => "release" \in claims'[b]
  BY <1>1, MoneyMoves DEF MoneyMoved, OnceJob, OnceInv, Claimed
<1> QED
  BY <1>1, <1>4, <1>5, <1>6, <1>7, <1>8 DEF OnceJob, RequestMoved, Claimed

\* Every step keeps what a worker knows of its job.
LEMMA OnceWorkerStep ==
  ASSUME OnceInv, Accountable, [Next]_vars, SettlingSeen', NEW v \in Workers
  PROVE  OnceWorker(v)'
<1>1. ASSUME NEW b \in Jobs, wrk[v].job = b, wrk'[v] = wrk[v], wrk[v].pc # "idle"
      PROVE  OnceWorker(v)'
  <2>1. RetryMoved(b) /\ Moved(b) /\ OnceWorker(v)
    BY OnceMoves, StatusMoves DEF OnceInv
  <2>2. \A w \in Workers : wrk[w].job = b /\ wrk[w].pc # "idle" => w = v
    BY <1>1, OneWorker DEF OnceInv, IInv
  <2>3. wrk[v].pc = "release" => status'[b] \in {"failed", "cancelled"}
    BY <1>1, <2>1
    DEF OnceWorker, Moved, CanTransition, AllowedFrom, OnceInv, IInv, EarlyStatus, Unsubmitted
  <2>4. wrk[v].pc = "capture" => ~ RetryExhausted(b)'
    BY <1>1, <2>1, <2>2 DEF OnceWorker, RetryMoved
  <2>5. wrk[v].pc = "exhaustRelease" => RetryExhausted(b)'
    BY <1>1, <2>1 DEF OnceWorker, RetryMoved, SettlingSeen, FailingPC
  <2>6. wrk[v].pc \in {"recordFailure", "exhaustRelease", "exhaustFail", "releaseError"} =>
           "capture" \notin claims'[b]
    BY <1>1, <2>1, <2>2, OnceMoney DEF OnceWorker
  <2> QED
    BY <1>1, <2>3, <2>4, <2>5, <2>6 DEF OnceWorker, RetryExhausted, Claimed
<1>2. ASSUME wrk'[v].pc \in {"idle", "dispatch"} PROVE OnceWorker(v)'
  BY <1>2 DEF OnceWorker
<1>3. wrk[v].job \in Jobs
  BY DEF OnceInv, IInv, TypeOK, ProcsTypeOK
<1>4. CASE UNCHANGED wrk
  BY <1>1, <1>2, <1>3, <1>4
<1>5. ASSUME NEW w \in Workers, WorkerCrash(w) \/ \E c \in Jobs : WorkerReserve(w, c)
      PROVE  OnceWorker(v)'
  <2>1. wrk'[v] = wrk[v] \/ wrk'[v].pc \in {"idle", "dispatch"}
    BY <1>5 DEF WorkerCrash, WorkerReserve, Idle, OnceInv, IInv, TypeOK, ProcsTypeOK
  <2> QED
    BY <1>1, <1>2, <1>3, <2>1
<1>6. ASSUME NEW w \in Workers, WorkerStep(w), v # w PROVE OnceWorker(v)'
  <2>1. wrk'[v] = wrk[v]
    BY <1>6, OtherWorkers DEF OnceInv, IInv
  <2> QED
    BY <1>1, <1>2, <1>3, <2>1
<1>7. ASSUME WorkerStep(v) PROVE OnceWorker(v)'
  <2>1. PICK b \in Jobs : b = wrk[v].job
    BY <1>3
  <2>2. /\ OnceWorkerMoved(v) /\ OnceWorker(v) /\ RetryMoved(b) /\ Moved(b) /\ OnceJob(b)
    BY <1>7, OnceWorkerMoves, OnceMoves, StatusMoves DEF OnceInv
  <2>3. \A w \in Workers : wrk[w].job = b /\ wrk[w].pc # "idle" => w = v
    BY <1>7, <2>1, OtherWorkers, OneWorker DEF OnceInv, IInv
  <2>4. wrk'[v].pc # "idle" => wrk'[v].job = b
    BY <2>1, <2>2 DEF OnceWorkerMoved
  <2>5. wrk'[v].pc = "release" => status'[b] \in {"failed", "cancelled"}
    BY <2>1, <2>2
    DEF OnceWorkerMoved, OnceWorker, Moved, CanTransition, AllowedFrom, OnceInv, IInv, EarlyStatus,
        Unsubmitted
  <2>6. wrk'[v].pc = "capture" => ~ RetryExhausted(b)'
    BY <2>1, <2>2, <2>3 DEF OnceWorkerMoved, RetryMoved
  <2>7. wrk'[v].pc = "exhaustRelease" => RetryExhausted(b)'
    BY <2>1, <2>2, <2>4 DEF OnceWorkerMoved, RetryMoved, RetryExhausted, SettlingSeen, FailingPC
  <2>8. wrk'[v].pc \in {"recordFailure", "exhaustRelease", "exhaustFail", "releaseError"} =>
           "capture" \notin claims'[b]
    <3>1. ASSUME wrk'[v].pc \in {"exhaustRelease", "exhaustFail", "releaseError"}
          PROVE  ~ Claimed("capture", b) /\ wrk[v].pc # "capture" /\ wrk[v].pc # "idle"
      BY <2>1, <2>2, <3>1 DEF OnceWorkerMoved, OnceWorker, OnceJob
    <3>2. ASSUME wrk'[v].pc \in {"exhaustRelease", "exhaustFail", "releaseError"}
          PROVE  "capture" \notin claims'[b]
      BY <2>3, <3>1, <3>2, OnceMoney
    <3> QED
      BY <2>1, <2>2, <3>2 DEF OnceWorkerMoved
  <2> QED
    BY <2>4, <2>5, <2>6, <2>7, <2>8 DEF OnceWorker, RetryExhausted, Claimed
<1> QED
  BY <1>4, <1>5, <1>6, <1>7, JobHandlers DEF Next, vars, procs

\* The invariant holds before the first job.
LEMMA OnceInit == Init => OnceInv
<1> SUFFICES ASSUME Init PROVE OnceInv
  OBVIOUS
<1>1. \A w \in Workers : wrk[w].pc = "idle"
  BY DEF Init, Idle
<1>2. \A b \in Jobs : OnceJob(b)
  BY DEF Init, LedgerInit, OnceJob, Claimed
<1> QED
  BY InvInit, <1>1, <1>2
  DEF OnceInv, HoldsLock, SettlingSeen, PollPC, FailingPC, Moves, OnceWorker

\* Every step keeps it, as long as the faults are those it is about.
LEMMA OnceStep == Accountable /\ OnceInv /\ [Next]_vars => OnceInv'
<1> SUFFICES ASSUME Accountable, OnceInv, [Next]_vars PROVE OnceInv'
  OBVIOUS
<1>1. IInv' /\ HoldsLock' /\ SettlingSeen'
  BY InvStep, HoldsLockStep, SettlingSeenStep DEF OnceInv, Accountable, IInv
<1>2. ASSUME NEW b \in Jobs PROVE OnceJob(b)'
  BY OnceJobStep
<1>3. ASSUME NEW v \in Workers PROVE OnceWorker(v)'
  BY <1>1, OnceWorkerStep
<1> QED
  BY <1>1, <1>2, <1>3 DEF OnceInv

\* No job is both charged and refunded, whatever statements fail and whoever
\* cancels or dies, if a balance transaction does what it answers and neither
\* a job lock nor a call to the queue is lost.
THEOREM NeverBoth == Accountable /\ Spec => []ResolvedOnce
<1>1. OnceInv => ResolvedOnce
  BY DEF OnceInv, OnceJob, ResolvedOnce, IInv, TypeOK, LedgerTypeOK
<1>2. ASSUME Accountable PROVE Spec => []ResolvedOnce
  <2>1. OnceInv /\ [Next]_vars => OnceInv'
    BY <1>2, OnceStep
  <2> QED
    BY <1>1, <2>1, OnceInit, PTL DEF Spec
<1> QED
  BY <1>2

-----------------------------------------------------------------------------
(* What the billing promises to the owner of a job.                          *)

\* What became of the hold of each job.
Fate == [b \in Jobs |->
    CASE Claimed("capture", b)                        -> "charged"
      [] ~ Claimed("capture", b) /\ b \in refunded    -> "returned"
      [] OpenHold(b)                                  -> "held"
      [] OTHER                                        -> "none"]

Payment == INSTANCE JobPayment WITH fate <- Fate

\* A balance transaction that was made before is a stutter of the promise.
LEMMA FateDuplicate == ASSUME UNCHANGED ledger PROVE UNCHANGED <<balance, Fate, charged>>
  BY DEF ledger, Fate, OpenHold, Claimed

\* A transaction on one job does not change the fate of another.
LEMMA FateOfOne ==
  ASSUME NEW c \in Jobs, NEW f, Fate'[c] = f,
         \A b \in Jobs \ {c} : claims'[b] = claims[b] /\ (b \in refunded' <=> b \in refunded)
  PROVE  Fate' = [Fate EXCEPT ![c] = f]
<1>1. \A b \in Jobs \ {c} : Fate'[b] = Fate[b]
  BY DEF Fate, OpenHold, Claimed
<1>2. Fate = [b \in Jobs |-> Fate[b]] /\ Fate' = [b \in Jobs |-> Fate'[b]]
  BY DEF Fate
<1> HIDE DEF Fate
<1> QED
  BY <1>1, <1>2, Zenon

\* A reservation freezes the hold.
LEMMA ReserveImplements ==
  ASSUME OnceInv, NEW c \in Jobs, Reserve(c)
  PROVE  Payment!Freeze(c) \/ UNCHANGED <<balance, Fate, charged>>
<1> USE DEF OnceInv, IInv, TypeOK, LedgerTypeOK
<1>1. CASE Duplicate("hold", c)
  BY <1>1, FateDuplicate DEF Duplicate
<1>2. CASE ~ Claimed("hold", c)
  <2>1. /\ balance[Owner[c]] >= Hold[c]
        /\ balance' = [balance EXCEPT ![Owner[c]] = @ - Hold[c]]
        /\ claims' = [claims EXCEPT ![c] = @ \union {"hold"}]
        /\ UNCHANGED <<charged, refunded>>
    BY <1>2, Zenon DEF Reserve, Claim, Duplicate
  <2>2. ~ Claimed("capture", c) /\ c \notin refunded
    BY <1>2 DEF HoldFirst
  <2>3. Fate[c] = "none" /\ Fate'[c] = "held"
    BY <1>2, <2>1, <2>2 DEF Fate, OpenHold, Claimed
  <2>4. Fate' = [Fate EXCEPT ![c] = "held"]
    BY <2>1, <2>3, FateOfOne
  <2>5. balance' = [balance EXCEPT ![Owner[c]] = @ + (- Hold[c])]
    BY <2>1, OwnerAssumption, HoldAssumption
  <2> QED
    BY <2>1, <2>3, <2>4, <2>5 DEF Payment!Freeze, Payment!Turn
<1> QED
  BY <1>1, <1>2 DEF Reserve

\* A release that moves money returns the whole hold of a job that was neither
\* charged nor returned before.
LEMMA ReleaseImplements ==
  ASSUME OnceInv, [Next]_vars, NEW c \in Jobs, Release(c)
  PROVE  Payment!Return(c) \/ UNCHANGED <<balance, Fate, charged>>
<1> USE DEF OnceInv, IInv, TypeOK, LedgerTypeOK
<1>1. CASE Duplicate("release", c)
  BY <1>1, FateDuplicate DEF Duplicate
<1>2. CASE ~ Claimed("release", c) /\ ~ Claimed("hold", c)
  <2>1. /\ claims' = [claims EXCEPT ![c] = @ \union {"release"}]
        /\ UNCHANGED <<balance, frozen, charged, refunded>>
    BY <1>2, Zenon DEF Release, Claim, Duplicate
  <2>2. Fate' = Fate
    BY <1>2, <2>1 DEF Fate, OpenHold, Claimed
  <2> QED
    BY <2>1, <2>2
<1>3. CASE ~ Claimed("release", c) /\ Claimed("hold", c)
  <2>1. /\ balance' = [balance EXCEPT ![Owner[c]] = @ + Hold[c]]
        /\ claims' = [claims EXCEPT ![c] = @ \union {"release"}]
        /\ refunded' = refunded \union {c}
        /\ UNCHANGED charged
    BY <1>3, Zenon DEF Release, Claim, Duplicate
  <2>2. c \notin refunded
    BY <1>3 DEF OnceJob
  <2>3. ~ Claimed("capture", c)
    BY <2>1, <2>2, OnceMoney
  <2>4. Fate[c] = "held" /\ Fate'[c] = "returned"
    BY <1>3, <2>1, <2>2, <2>3 DEF Fate, OpenHold, Claimed
  <2>5. Fate' = [Fate EXCEPT ![c] = "returned"]
    BY <2>1, <2>4, FateOfOne
  <2> QED
    BY <2>1, <2>4, <2>5 DEF Payment!Return, Payment!Turn
<1> QED
  BY <1>1, <1>2, <1>3 DEF Release

\* A capture charges a job whose hold is still there, at most the hold.
LEMMA CaptureImplements ==
  ASSUME OnceInv, NEW w \in Workers, wrk[w].pc = "capture", NEW c \in Jobs, c = wrk[w].job,
         Capture(c, cost[c])
  PROVE  Payment!Charge(c) \/ UNCHANGED <<balance, Fate, charged>>
<1> USE DEF OnceInv, IInv, TypeOK, LedgerTypeOK, RowTypeOK
<1>1. CASE Duplicate("capture", c)
  BY <1>1, FateDuplicate DEF Duplicate
<1>2. CASE ~ Claimed("capture", c)
  <2>1. /\ cost[c] <= Hold[c]
        /\ balance' = [balance EXCEPT ![Owner[c]] = @ + (Hold[c] - cost[c])]
        /\ claims' = [claims EXCEPT ![c] = @ \union {"capture"}]
        /\ charged' = [charged EXCEPT ![c] = cost[c]]
        /\ UNCHANGED refunded
    BY <1>2, Zenon DEF Capture, Claim, Duplicate
  <2>2. Claimed("hold", c) /\ c \notin refunded
    BY DEF SettlerState, SettlePC, SettlingSeen, FailingPC, OnceWorker, OnceJob
  <2>3. Fate[c] = "held" /\ Fate'[c] = "charged"
    BY <1>2, <2>1, <2>2 DEF Fate, OpenHold, Claimed
  <2>4. Fate' = [Fate EXCEPT ![c] = "charged"]
    BY <2>1, <2>3, FateOfOne
  <2>5. cost[c] \in 0 .. Hold[c]
    BY <2>1, HoldAssumption
  <2> QED
    BY <2>1, <2>3, <2>4, <2>5 DEF Payment!Charge, Payment!Turn
<1> QED
  BY <1>1, <1>2 DEF Capture

\* The money of the users moves as the billing promises: every job is held at
\* most once, and then charged or returned, never both, and the balance of its
\* owner changes by exactly that.
THEOREM Refinement == Accountable /\ Spec => Payment!Spec
<1>1. Init => Payment!Init
  <2> SUFFICES ASSUME Init PROVE Payment!Init
    OBVIOUS
  <2>1. \A b \in Jobs : Fate[b] = "none"
    BY DEF Init, LedgerInit, Fate, OpenHold, Claimed
  <2>2. Fate = [b \in Jobs |-> Fate[b]]
    BY DEF Fate
  <2>3. Fate = [b \in Jobs |-> "none"]
    BY <2>1, <2>2, Zenon
  <2> QED
    BY <2>3 DEF Init, LedgerInit, Payment!Init
<1>2. OnceInv /\ [Next]_vars => [Payment!Next]_(Payment!vars)
  <2> SUFFICES ASSUME OnceInv, [Next]_vars
               PROVE  Payment!Next \/ UNCHANGED <<balance, Fate, charged>>
    BY DEF Payment!vars
  <2>1. LedgerMoved
    BY LedgerMoves DEF OnceInv, IInv
  <2>2. CASE UNCHANGED ledger
    BY <2>2, FateDuplicate
  <2>3. ASSUME NEW c \in Jobs, Reserve(c) \/ Release(c)
        PROVE  Payment!Next \/ UNCHANGED <<balance, Fate, charged>>
    BY <2>3, ReserveImplements, ReleaseImplements DEF Payment!Next
  <2>4. ASSUME NEW w \in Workers, wrk[w].pc = "capture", Capture(wrk[w].job, cost[wrk[w].job])
        PROVE  Payment!Next \/ UNCHANGED <<balance, Fate, charged>>
    <3>1. PICK c \in Jobs : c = wrk[w].job
      BY DEF OnceInv, IInv, TypeOK, ProcsTypeOK
    <3> QED
      BY <2>4, <3>1, CaptureImplements DEF Payment!Next
  <2> QED
    BY <2>1, <2>2, <2>3, <2>4 DEF LedgerMoved
<1>3. ASSUME Accountable PROVE Spec => Payment!Spec
  <2>1. OnceInv /\ [Next]_vars => OnceInv'
    BY <1>3, OnceStep
  <2> QED
    BY <1>1, <1>2, <2>1, OnceInit, PTL DEF Spec, Payment!Spec
<1> QED
  BY <1>3

=============================================================================
