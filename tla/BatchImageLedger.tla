-------------------------- MODULE BatchImageLedger --------------------------
(***************************************************************************)
(* The balance side of batch image jobs: three SQL transactions on the     *)
(* users row, each of which first claims its request id in                 *)
(* usage_billing_dedup (repository/usage_billing_repo.go).  A request id   *)
(* is <kind>:<batch id>, so the claims of a job are a set of kinds.        *)
(*                                                                         *)
(* An operation below is the committed effect of one transaction.  It is   *)
(* not enabled when the transaction returns an error and rolls back.       *)
(*                                                                         *)
(* Amounts are small naturals: the epsilon the code allows between a cost  *)
(* and its hold is 0 here.  Jobs of one user share frozen_balance.         *)
(***************************************************************************)
EXTENDS Integers

CONSTANTS
    Jobs,         \* batch ids
    Users,        \* rows of the users table
    Owner,        \* batch_image_jobs.user_id
    Hold,         \* batch_image_jobs.hold_amount, fixed when the job is created
    Balances      \* what users.balance may be before the first job

ASSUME OwnerAssumption   == Owner \in [Jobs -> Users]
ASSUME HoldAssumption    == Hold \in [Jobs -> Nat \ {0}]
ASSUME BalanceAssumption == Balances \subseteq [Users -> Nat]

VARIABLES
    balance,      \* users.balance
    frozen,       \* users.frozen_balance
    claims,       \* usage_billing_dedup: the kinds claimed for each job
    charged,      \* history: what the capture of a job charged
    refunded      \* history: the jobs whose release moved money back

ledger == <<balance, frozen, claims, charged, refunded>>

ClaimKinds == {"hold", "capture", "release"}

LedgerTypeOK ==
    /\ balance \in [Users -> Int]
    /\ frozen \in [Users -> Int]
    /\ claims \in [Jobs -> SUBSET ClaimKinds]
    /\ charged \in [Jobs -> Nat]
    /\ refunded \in SUBSET Jobs

LedgerInit ==
    /\ balance \in Balances
    /\ frozen = [u \in Users |-> 0]
    /\ claims = [b \in Jobs |-> {}]
    /\ charged = [b \in Jobs |-> 0]
    /\ refunded = {}

-----------------------------------------------------------------------------

Claimed(kind, b) == kind \in claims[b]

Claim(kind, b) ==
    claims' = [claims EXCEPT ![b] = @ \union {kind}]

\* The request id was claimed before: the transaction answers Applied = false.
Duplicate(kind, b) ==
    /\ Claimed(kind, b)
    /\ UNCHANGED ledger

\* ReserveBatchImageBalance: balance -> frozen_balance, if the balance covers it.
Reserve(b) ==
    \/ Duplicate("hold", b)
    \/ /\ ~ Claimed("hold", b)
       /\ balance[Owner[b]] >= Hold[b]
       /\ Claim("hold", b)
       /\ balance' = [balance EXCEPT ![Owner[b]] = @ - Hold[b]]
       /\ frozen' = [frozen EXCEPT ![Owner[b]] = @ + Hold[b]]
       /\ UNCHANGED <<charged, refunded>>

\* Mutant: the capture charges the hold instead of the cost.
CaptureWholeHold(b, cost) ==
    \/ Duplicate("capture", b)
    \/ /\ ~ Claimed("capture", b)
       /\ frozen[Owner[b]] >= Hold[b]
       /\ Claim("capture", b)
       /\ frozen' = [frozen EXCEPT ![Owner[b]] = @ - Hold[b]]
       /\ charged' = [charged EXCEPT ![b] = Hold[b]]
       /\ UNCHANGED <<balance, refunded>>

\* Mutant: hold and cost are subtracted the wrong way round.
CaptureSwapped(b, cost) ==
    \/ Duplicate("capture", b)
    \/ /\ ~ Claimed("capture", b)
       /\ frozen[Owner[b]] >= Hold[b]
       /\ Claim("capture", b)
       /\ balance' = [balance EXCEPT ![Owner[b]] = @ + (cost - Hold[b])]
       /\ frozen' = [frozen EXCEPT ![Owner[b]] = @ - Hold[b]]
       /\ charged' = [charged EXCEPT ![b] = cost - Hold[b]]
       /\ UNCHANGED refunded

\* CaptureBatchImageBalance: the hold leaves frozen_balance, the part that was
\* not spent goes back to balance.
Capture(b, cost) ==
    \/ Duplicate("capture", b)
    \/ /\ ~ Claimed("capture", b)
       /\ cost <= Hold[b]
       /\ frozen[Owner[b]] >= Hold[b]
       /\ Claim("capture", b)
       /\ balance' = [balance EXCEPT ![Owner[b]] = @ + (Hold[b] - cost)]
       /\ frozen' = [frozen EXCEPT ![Owner[b]] = @ - Hold[b]]
       /\ charged' = [charged EXCEPT ![b] = cost]
       /\ UNCHANGED refunded

\* Mutant: the release does not ask whether the job ever reserved.
ReleaseUnchecked(b) ==
    \/ Duplicate("release", b)
    \/ /\ ~ Claimed("release", b)
       /\ frozen[Owner[b]] >= Hold[b]
       /\ Claim("release", b)
       /\ balance' = [balance EXCEPT ![Owner[b]] = @ + Hold[b]]
       /\ frozen' = [frozen EXCEPT ![Owner[b]] = @ - Hold[b]]
       /\ refunded' = refunded \union {b}
       /\ UNCHANGED charged

\* ReleaseBatchImageBalance: the claim is inserted before the check that the
\* job ever reserved, and it is committed when that check finds nothing.
Release(b) ==
    \/ Duplicate("release", b)
    \/ /\ ~ Claimed("release", b)
       /\ ~ Claimed("hold", b)
       /\ Claim("release", b)
       /\ UNCHANGED <<balance, frozen, charged, refunded>>
    \/ /\ ~ Claimed("release", b)
       /\ Claimed("hold", b)
       /\ frozen[Owner[b]] >= Hold[b]
       /\ Claim("release", b)
       /\ balance' = [balance EXCEPT ![Owner[b]] = @ + Hold[b]]
       /\ frozen' = [frozen EXCEPT ![Owner[b]] = @ - Hold[b]]
       /\ refunded' = refunded \union {b}
       /\ UNCHANGED charged

\* The refusals: no fault of the database, the transaction rolls back.
ReserveRefused(b) ==
    /\ ~ Claimed("hold", b)
    /\ balance[Owner[b]] < Hold[b]
    /\ UNCHANGED ledger

CaptureRefused(b, cost) ==
    /\ ~ Claimed("capture", b)
    /\ (cost > Hold[b] \/ frozen[Owner[b]] < Hold[b])
    /\ UNCHANGED ledger

ReleaseRefused(b) ==
    /\ ~ Claimed("release", b)
    /\ Claimed("hold", b)
    /\ frozen[Owner[b]] < Hold[b]
    /\ UNCHANGED ledger

=============================================================================
