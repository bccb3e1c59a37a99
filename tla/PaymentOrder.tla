---------------------------- MODULE PaymentOrder ----------------------------
(***************************************************************************)
(* The life of one payment order, from its creation to its completion:     *)
(* webhooks, verification and reconciliation, cancel, expiry and the       *)
(* administrator's retry, all of them concurrent, and the fulfilment under *)
(* a lease.  (payment_order.go, payment_order_lifecycle.go,                *)
(* payment_fulfillment.go.)  Orders do not interact, so one is enough.     *)
(*                                                                         *)
(* One action is one statement, one transaction or one call to the         *)
(* provider.  The lease of a handler is the value of updated_at it read    *)
(* back; as every UPDATE of the row sets updated_at, all that matters is   *)
(* which handlers hold the present value: "lease".  The duration of a      *)
(* lease and the grace period of an expired order are both five minutes:   *)
(* "old" says that updated_at is older.                                    *)
(*                                                                         *)
(* Kinds of fault:                                                         *)
(*    db          a statement or transaction fails without effect          *)
(*    commit      it takes effect and reports an error                     *)
(*    lostRead    a lookup fails, or finds no provider it can choose, and   *)
(*                the code answers with success                            *)
(*    provider    the provider's QueryOrder or CreatePayment fails         *)
(*    crash       the process of a handler dies                            *)
(*    stall       a handler needs more than five minutes for a fulfilment  *)
(*    slowReload  ... and stands between taking the lease and reading it   *)
(***************************************************************************)
EXTENDS Naturals

CONSTANTS
    Handlers,     \* goroutines that serve requests, over all instances
    FaultKinds,   \* the kinds of fault that may happen
    MaxFaults,    \* bound on the number of faults
    None          \* no handler

ASSUME NoneAssumption  == None \notin Handlers
ASSUME FaultAssumption == MaxFaults \in Nat

VARIABLES
    status,       \* payment_orders.status, "none" before the row exists
    subscription, \* order_type: a subscription, or balance
    paidAt,       \* paid_at IS NOT NULL
    tradeNo,      \* payment_trade_no is the number the provider reports
    old,          \* updated_at is more than five minutes ago
    lease,        \* handlers whose lease version equals updated_at
    owner,        \* history: the handler that took the lease last
    code,         \* the order's redeem code; "used" once its value was granted
    rebated,      \* the audit row that claims the invite rebate
    credits,      \* history: grants of balance or of the subscription
    rebates,      \* history: rebate decisions
    creating,     \* program counter of CreateOrder
    provider,     \* the payment at the provider
    acked,        \* history: a webhook was answered with success
    late,         \* history: a payment came after the grace period
    unread,       \* history: a webhook was answered with success after a lookup that failed
    pc,           \* program counter of each handler
    kind,         \* the request it serves
    known,        \* tradeNo, as of its read of the order before a query
    faults,
    slow          \* history: a handler stood for five minutes between taking the lease and reading it

row     == <<status, subscription, paidAt, tradeNo, old, lease, owner>>
grants  == <<code, rebated, credits, rebates>>
replies == <<acked, late, unread>>
procs   == <<pc, kind, known>>
past    == <<faults, slow>>
vars == <<row, grants, creating, provider, replies, procs, past>>

\* "REFUNDING" stands for every refund status.
Status == {"none", "PENDING", "PAID", "RECHARGING", "COMPLETED", "EXPIRED",
           "CANCELLED", "FAILED", "REFUNDING"}

Kinds == {"none", "webhook", "verify", "cancel", "expire", "retry"}

PC == {"idle", "query", "storeTradeNo", "cancelPayment", "close", "providers",
       "confirm", "toPaid", "already", "fulfil", "lease", "leaseMissed", "reload", "lookup",
       "create", "redeem", "assign", "rebate", "complete", "completionMissed", "fail"}

\* Between taking the lease and the end of the fulfilment.
FulfilPC == {"reload", "lookup", "create", "redeem", "assign", "rebate", "complete",
             "completionMissed", "fail"}

Fulfillable == {"PAID", "FAILED", "RECHARGING"}

Settled == {"COMPLETED", "REFUNDING"}

-----------------------------------------------------------------------------
(* The row, the handlers, faults *)

\* ent's UpdateDefault: every UPDATE sets updated_at.
Touch ==
    /\ old' = FALSE
    /\ lease' = {}

\* Mutant: an UPDATE that leaves updated_at alone.
SetStatusOnly(s) ==
    /\ status' = s
    /\ UNCHANGED <<old, lease>>

SetStatus(s) ==
    /\ status' = s
    /\ Touch

Go(h, to) ==
    /\ pc' = [pc EXCEPT ![h] = to]
    /\ UNCHANGED <<kind, known, replies>>

\* The request ends; a webhook is answered with 200 or with an error.
Answer(h, ok, tooLate, unseen) ==
    /\ pc' = [pc EXCEPT ![h] = "idle"]
    /\ kind' = [kind EXCEPT ![h] = "none"]
    /\ known' = [known EXCEPT ![h] = FALSE]
    /\ IF ok /\ kind[h] = "webhook" THEN acked' = TRUE ELSE UNCHANGED acked
    /\ IF tooLate THEN late' = TRUE ELSE UNCHANGED late
    /\ IF unseen /\ kind[h] = "webhook" THEN unread' = TRUE ELSE UNCHANGED unread

Respond(h, ok) == Answer(h, ok, FALSE, FALSE)

\* The step of a handler that changes nothing but the handler's own state.
OnlyHandler == UNCHANGED <<row, grants, creating, provider>>

Fault(k) ==
    /\ k \in FaultKinds
    /\ faults < MaxFaults
    /\ faults' = faults + 1
    /\ IF k = "slowReload" THEN slow' = TRUE ELSE UNCHANGED slow

NoFault == UNCHANGED past

\* A lookup whose error is answered with success.
LostRead(h) ==
    /\ Answer(h, TRUE, FALSE, TRUE)
    /\ Fault("lostRead")

-----------------------------------------------------------------------------
(* CreateOrder *)

CreateOrder ==
    /\ status = "none"
    /\ status' = "PENDING"
    /\ subscription' \in BOOLEAN
    /\ creating' = "invoke"
    /\ UNCHANGED <<paidAt, tradeNo, old, lease, owner, grants, provider, replies, procs, past>>

\* prov.CreatePayment
CreatePayment ==
    /\ creating = "invoke"
    /\ \/ provider' = "open" /\ creating' = "store" /\ NoFault
       \/ UNCHANGED provider /\ creating' = "fail" /\ Fault("provider")
    /\ UNCHANGED <<row, grants, replies, procs>>

\* Some providers report the number they gave at creation, others assign
\* another one to the payment.
StorePayment ==
    /\ creating = "store"
    /\ \/ /\ tradeNo' \in BOOLEAN
          /\ Touch
          /\ (creating' = "done" /\ NoFault) \/ (creating' = "fail" /\ Fault("commit"))
       \/ UNCHANGED <<tradeNo, old, lease>> /\ creating' = "fail" /\ Fault("db")
    /\ UNCHANGED <<status, subscription, paidAt, owner, grants, provider, replies, procs>>

\* The status is overwritten whatever it is; the client gets no way to pay.
CreationFailed ==
    /\ creating = "fail"
    /\ creating' = "failed"
    /\ \/ SetStatus("FAILED") /\ NoFault
       \/ UNCHANGED <<status, old, lease>> /\ Fault("db")
    /\ UNCHANGED <<subscription, paidAt, tradeNo, owner, grants, provider, replies, procs>>

CreationCrash ==
    /\ creating \in {"invoke", "store", "fail"}
    /\ Fault("crash")
    /\ creating' = "failed"
    /\ UNCHANGED <<row, grants, provider, replies, procs>>

-----------------------------------------------------------------------------
(* The user, the provider, time *)

Pay ==
    /\ creating = "done"
    /\ provider = "open"
    /\ provider' = "paid"
    /\ UNCHANGED <<row, grants, creating, replies, procs, past>>

\* Five minutes pass without an UPDATE; only lease and grace period ask.
Age ==
    /\ ~ old
    /\ status \in {"RECHARGING", "EXPIRED"}
    /\ IF status = "EXPIRED" \/ \A h \in Handlers : pc[h] \notin FulfilPC THEN NoFault
       ELSE IF \E h \in Handlers : pc[h] = "reload" THEN Fault("slowReload")
       ELSE Fault("stall")
    /\ old' = TRUE
    /\ UNCHANGED <<status, subscription, paidAt, tradeNo, lease, owner, grants, creating,
                   provider, replies, procs>>

-----------------------------------------------------------------------------
(* Requests *)

Begin(h, k, at) ==
    /\ pc[h] = "idle"
    /\ pc' = [pc EXCEPT ![h] = at]
    /\ kind' = [kind EXCEPT ![h] = k]
    /\ IF at = "query" THEN known' = [known EXCEPT ![h] = tradeNo] ELSE UNCHANGED known
    /\ UNCHANGED <<row, grants, creating, provider, replies, past>>

\* The provider sends its notification until it is answered with success, and
\* perhaps again.
Webhook(h) ==
    /\ provider = "paid"
    /\ Begin(h, "webhook", "providers")

\* VerifyOrderByOutTradeNo; ReconcilePendingWxpayOrders does the same.
Verify(h) ==
    /\ status \in {"PENDING", "EXPIRED"}
    /\ Begin(h, "verify", "query")

\* CancelOrder, AdminCancelOrder
CancelOrder(h) ==
    /\ status = "PENDING"
    /\ Begin(h, "cancel", "query")

\* ExpireTimedOutOrders, once expires_at has passed.
ExpireOrder(h) ==
    /\ status = "PENDING"
    /\ Begin(h, "expire", "query")

RetryFulfillment(h) ==
    /\ paidAt
    /\ status \in Fulfillable
    /\ Begin(h, "retry", "fulfil")

-----------------------------------------------------------------------------
(* checkPaid and cancelCore *)

\* A query that fails counts as "not paid".
QueryOrder(h) ==
    /\ pc[h] = "query"
    /\ \/ /\ provider = "paid"
          /\ Go(h, IF known[h] THEN "confirm" ELSE "storeTradeNo")
          /\ NoFault
       \/ /\ provider # "paid"
          /\ IF kind[h] = "verify" THEN Respond(h, TRUE) ELSE Go(h, "cancelPayment")
          /\ NoFault
       \/ /\ IF kind[h] = "verify" THEN Respond(h, TRUE) ELSE Go(h, "close")
          /\ Fault("provider")
    /\ UNCHANGED <<row, grants, creating, provider>>

\* The number the provider reports is stored, whatever the status has become.
StoreTradeNo(h) ==
    /\ pc[h] = "storeTradeNo"
    /\ \/ tradeNo' = TRUE /\ Touch /\ NoFault
       \/ UNCHANGED <<tradeNo, old, lease>> /\ Fault("db")
    /\ Go(h, "confirm")
    /\ UNCHANGED <<status, subscription, paidAt, owner, grants, creating, provider>>

\* CancelableProvider.CancelPayment; not every provider can, and errors are
\* ignored.
CancelPayment(h) ==
    /\ pc[h] = "cancelPayment"
    /\ \/ provider = "open" /\ provider' = "closed"
       \/ UNCHANGED provider
    /\ Go(h, "close")
    /\ UNCHANGED <<row, grants, creating, past>>

CloseOrder(h) ==
    /\ pc[h] = "close"
    /\ \/ /\ status = "PENDING"
          /\ SetStatus(IF kind[h] = "expire" THEN "EXPIRED" ELSE "CANCELLED")
          /\ NoFault
       \/ status # "PENDING" /\ UNCHANGED <<status, old, lease>> /\ NoFault
       \/ UNCHANGED <<status, old, lease>> /\ Fault("db")
    /\ Respond(h, TRUE)
    /\ UNCHANGED <<subscription, paidAt, tradeNo, owner, grants, creating, provider>>

-----------------------------------------------------------------------------
(* handleNotify and HandlePaymentNotification, up to the fulfilment *)

\* The provider that can verify the notification.  If none is found, because a
\* read fails, the order's instance is gone or several could be meant, WeChat Pay
\* is answered with an error, and so is a notification that does not verify;
\* everybody else is answered with success.
GetWebhookProviders(h) ==
    /\ pc[h] = "providers"
    /\ \/ Go(h, "confirm") /\ NoFault
       \/ Respond(h, FALSE) /\ Fault("db")
       \/ LostRead(h)
    /\ OnlyHandler

\* Mutant: a failed lookup by the number is answered with success as well.
ConfirmSilently(h) ==
    /\ pc[h] = "confirm"
    /\ \/ Go(h, "toPaid") /\ NoFault
       \/ Respond(h, TRUE) /\ Fault("db")
       \/ LostRead(h)
    /\ OnlyHandler

\* Two reads: of the order by its number, whose error is reported, and by its
\* id, whose error is answered with success.  The order of a payment exists: an
\* unknown one would be acknowledged too.
Confirm(h) ==
    /\ pc[h] = "confirm"
    /\ \/ Go(h, "toPaid") /\ NoFault
       \/ Respond(h, FALSE) /\ Fault("db")
       \/ LostRead(h)
    /\ OnlyHandler

Payable ==
    \/ status \in {"PENDING", "CANCELLED"}
    \/ status = "EXPIRED" /\ ~ old

ToPaid(h) ==
    /\ pc[h] = "toPaid"
    /\ \/ /\ Payable
          /\ SetStatus("PAID")
          /\ paidAt' = TRUE
          /\ tradeNo' = TRUE
          /\ \/ Go(h, "fulfil") /\ NoFault
             \/ Respond(h, FALSE) /\ Fault("commit")
       \/ /\ \/ ~ Payable /\ Go(h, "already") /\ NoFault
             \/ Respond(h, FALSE) /\ Fault("db")
          /\ UNCHANGED <<status, old, lease, paidAt, tradeNo>>
    /\ UNCHANGED <<subscription, owner, grants, creating, provider>>

\* Mutant: an order somebody works on counts as processed.
AlreadyDone(h) ==
    /\ pc[h] = "already"
    /\ IF status \in {"PAID", "FAILED"} THEN Go(h, "fulfil")
       ELSE Answer(h, TRUE, status = "EXPIRED", FALSE)
    /\ NoFault
    /\ OnlyHandler

\* An expired order is left as it is, for the administrator to see.
AlreadyProcessed(h) ==
    /\ pc[h] = "already"
    /\ \/ status \in Fulfillable /\ Go(h, "fulfil") /\ NoFault
       \/ status \notin Fulfillable /\ Answer(h, TRUE, status = "EXPIRED", FALSE) /\ NoFault
       \/ LostRead(h)
    /\ OnlyHandler

\* ExecuteBalanceFulfillment, ExecuteSubscriptionFulfillment: the checks.
ExecuteFulfillment(h) ==
    /\ pc[h] = "fulfil"
    /\ \/ status \in Fulfillable /\ Go(h, "lease") /\ NoFault
       \/ status \notin Fulfillable /\ Respond(h, status = "COMPLETED") /\ NoFault
       \/ Respond(h, FALSE) /\ Fault("db")
    /\ OnlyHandler

-----------------------------------------------------------------------------
(* The lease *)

LeaseFree ==
    \/ status \in {"PAID", "FAILED"}
    \/ status = "RECHARGING" /\ old

AcquireLease(h) ==
    /\ pc[h] = "lease"
    /\ \/ /\ LeaseFree
          /\ SetStatus("RECHARGING")
          /\ owner' = h
          /\ \/ Go(h, "reload") /\ NoFault
             \/ Respond(h, FALSE) /\ Fault("commit")
       \/ /\ \/ ~ LeaseFree /\ Go(h, "leaseMissed") /\ NoFault
             \/ Respond(h, FALSE) /\ Fault("db")
          /\ UNCHANGED <<status, old, lease, owner>>
    /\ UNCHANGED <<subscription, paidAt, tradeNo, grants, creating, provider>>

LeaseMissed(h) ==
    /\ pc[h] = "leaseMissed"
    /\ \/ Respond(h, status = "COMPLETED") /\ NoFault
       \/ Respond(h, FALSE) /\ Fault("db")
    /\ OnlyHandler

\* The version is read back, and whose it is nobody can tell.
ReloadLease(h) ==
    /\ pc[h] = "reload"
    /\ \/ /\ status = "RECHARGING"
          /\ lease' = lease \union {h}
          /\ Go(h, IF subscription THEN "assign" ELSE "lookup")
          /\ NoFault
       \/ /\ \/ status # "RECHARGING" /\ Respond(h, FALSE) /\ NoFault
             \/ Respond(h, FALSE) /\ Fault("db")
          /\ UNCHANGED lease
    /\ UNCHANGED <<status, subscription, paidAt, tradeNo, old, owner, grants, creating, provider>>

-----------------------------------------------------------------------------
(* doBalance, doSub: the grant and the rebate *)

\* The step fails, having taken effect or not, and the order is marked FAILED.
Fails(h, k) ==
    /\ Go(h, "fail")
    /\ Fault(k)

Grant ==
    /\ code' = "used"
    /\ credits' = credits + 1
    /\ UNCHANGED <<rebated, rebates>>

\* A lookup that fails counts as "not found".
LookupCode(h) ==
    /\ pc[h] = "lookup"
    /\ \/ /\ Go(h, CASE code = "none" -> "create" [] code = "unused" -> "redeem" [] OTHER -> "rebate")
          /\ NoFault
       \/ Go(h, "create") /\ Fault("db")
    /\ OnlyHandler

\* RedeemService.CreateCode: codes are unique.
CreateCode(h) ==
    /\ pc[h] = "create"
    /\ \/ /\ code = "none"
          /\ code' = "unused"
          /\ (Go(h, "redeem") /\ NoFault) \/ Fails(h, "commit")
       \/ /\ (code # "none" /\ Go(h, "fail") /\ NoFault) \/ Fails(h, "db")
          /\ UNCHANGED code
    /\ UNCHANGED <<row, rebated, credits, rebates, creating, provider>>

\* Mutant: Use() without "WHERE status = 'unused'".
RedeemAgain(h) ==
    /\ pc[h] = "redeem"
    /\ Grant
    /\ Go(h, "rebate")
    /\ NoFault
    /\ UNCHANGED <<row, creating, provider>>

\* RedeemService.Redeem: the code is used and its value granted in one
\* transaction; "db" is also the limit on a user's failed attempts and a lock
\* of somebody who crashed.
Redeem(h) ==
    /\ pc[h] = "redeem"
    /\ \/ /\ code = "unused"
          /\ Grant
          /\ (Go(h, "rebate") /\ NoFault) \/ Fails(h, "commit")
       \/ /\ \/ code = "used" /\ Go(h, "fail") /\ NoFault
             \/ (\E g \in Handlers \ {h} : pc[g] = "redeem") /\ Go(h, "fail") /\ NoFault
             \/ Fails(h, "db")
          /\ UNCHANGED grants
    /\ UNCHANGED <<row, creating, provider>>

\* ensurePaymentSubscriptionAssigned: "used" is the SUBSCRIPTION_ASSIGNED audit
\* row, written with the assignment; "db" is also a group that is not active.
AssignSubscription(h) ==
    /\ pc[h] = "assign"
    /\ \/ /\ code # "used"
          /\ Grant
          /\ (Go(h, "rebate") /\ NoFault) \/ Fails(h, "commit")
       \/ /\ (code = "used" /\ Go(h, "rebate") /\ NoFault) \/ Fails(h, "db")
          /\ UNCHANGED grants
    /\ UNCHANGED <<row, creating, provider>>

\* applyAffiliateRebateForOrder: claim and accrual in one transaction.
ApplyRebate(h) ==
    /\ pc[h] = "rebate"
    /\ \/ /\ ~ rebated
          /\ rebated' = TRUE
          /\ rebates' = rebates + 1
          /\ (Go(h, "complete") /\ NoFault) \/ Fails(h, "commit")
       \/ /\ (rebated /\ Go(h, "complete") /\ NoFault) \/ Fails(h, "db")
          /\ UNCHANGED <<rebated, rebates>>
    /\ UNCHANGED <<row, code, credits, creating, provider>>

-----------------------------------------------------------------------------
(* The end of a fulfilment *)

\* Mutant: the version is not compared.
OwnsAny(h) == status = "RECHARGING"

\* "WHERE status = 'RECHARGING' AND updated_at = <version>"
Owns(h) == status = "RECHARGING" /\ h \in lease

MarkCompleted(h) ==
    /\ pc[h] = "complete"
    /\ \/ /\ Owns(h)
          /\ SetStatus("COMPLETED")
          /\ (Respond(h, TRUE) /\ NoFault) \/ Fails(h, "commit")
       \/ /\ (~ Owns(h) /\ Go(h, "completionMissed") /\ NoFault) \/ Fails(h, "db")
          /\ UNCHANGED <<status, old, lease>>
    /\ UNCHANGED <<subscription, paidAt, tradeNo, owner, grants, creating, provider>>

CompletionMissed(h) ==
    /\ pc[h] = "completionMissed"
    /\ \/ status = "COMPLETED" /\ Respond(h, TRUE) /\ NoFault
       \/ status # "COMPLETED" /\ Go(h, "fail") /\ NoFault
       \/ Fails(h, "db")
    /\ OnlyHandler

MarkFailed(h) ==
    /\ pc[h] = "fail"
    /\ \/ Owns(h) /\ SetStatus("FAILED") /\ NoFault
       \/ ~ Owns(h) /\ UNCHANGED <<status, old, lease>> /\ NoFault
       \/ UNCHANGED <<status, old, lease>> /\ Fault("db")
    /\ Respond(h, FALSE)
    /\ UNCHANGED <<subscription, paidAt, tradeNo, owner, grants, creating, provider>>

Crash(h) ==
    /\ pc[h] # "idle"
    /\ Fault("crash")
    /\ Respond(h, FALSE)
    /\ OnlyHandler

\* Every way into a refund starts at COMPLETED, and a refund that is undone
\* goes back to it.
Refund ==
    /\ \/ status = "COMPLETED" /\ SetStatus("REFUNDING")
       \/ status = "REFUNDING" /\ SetStatus("COMPLETED")
    /\ UNCHANGED <<subscription, paidAt, tradeNo, owner, grants, creating, provider, replies,
                   procs, past>>

-----------------------------------------------------------------------------
Init ==
    /\ status = "none"
    /\ subscription = FALSE
    /\ paidAt = FALSE
    /\ tradeNo = FALSE
    /\ old = FALSE
    /\ lease = {}
    /\ owner = None
    /\ code = "none"
    /\ rebated = FALSE
    /\ credits = 0
    /\ rebates = 0
    /\ creating = "idle"
    /\ provider = "none"
    /\ acked = FALSE
    /\ late = FALSE
    /\ unread = FALSE
    /\ pc = [h \in Handlers |-> "idle"]
    /\ kind = [h \in Handlers |-> "none"]
    /\ known = [h \in Handlers |-> FALSE]
    /\ faults = 0
    /\ slow = FALSE

Creation == CreateOrder \/ CreatePayment \/ StorePayment \/ CreationFailed \/ CreationCrash

Request(h) ==
    \/ Webhook(h) \/ Verify(h) \/ CancelOrder(h) \/ ExpireOrder(h) \/ RetryFulfillment(h)

Settling(h) ==
    \/ QueryOrder(h) \/ StoreTradeNo(h) \/ CancelPayment(h) \/ CloseOrder(h)
    \/ GetWebhookProviders(h) \/ Confirm(h) \/ ToPaid(h) \/ AlreadyProcessed(h) \/ ExecuteFulfillment(h)

Fulfilment(h) ==
    \/ AcquireLease(h) \/ LeaseMissed(h) \/ ReloadLease(h)
    \/ LookupCode(h) \/ CreateCode(h) \/ Redeem(h) \/ AssignSubscription(h)
    \/ ApplyRebate(h) \/ MarkCompleted(h) \/ CompletionMissed(h) \/ MarkFailed(h)

HandlerStep(h) == Settling(h) \/ Fulfilment(h)

Next ==
    \/ Creation \/ Pay \/ Age \/ Refund
    \/ \E h \in Handlers : Request(h) \/ HandlerStep(h) \/ Crash(h)

Spec == Init /\ [][Next]_vars

\* Handlers run on; a provider repeats its notification until it is answered
\* with success; time passes when nobody works on the order.
Fairness ==
    /\ \A h \in Handlers : WF_vars(HandlerStep(h))
    /\ SF_vars(~ acked /\ \E h \in Handlers : Webhook(h))
    /\ WF_vars(Age /\ NoFault)

FairSpec == Spec /\ Fairness

-----------------------------------------------------------------------------
(* Properties *)

\* Types, and the convention behind "lease": only a RECHARGING row is leased.
TypeOK ==
    /\ status \in Status
    /\ subscription \in BOOLEAN /\ paidAt \in BOOLEAN /\ tradeNo \in BOOLEAN
    /\ old \in BOOLEAN
    /\ lease \subseteq Handlers
    /\ lease # {} => status = "RECHARGING"
    /\ owner \in Handlers \union {None}
    /\ code \in {"none", "unused", "used"}
    /\ rebated \in BOOLEAN
    /\ credits \in Nat /\ rebates \in Nat
    /\ creating \in {"idle", "invoke", "store", "fail", "failed", "done"}
    /\ provider \in {"none", "open", "closed", "paid"}
    /\ acked \in BOOLEAN /\ late \in BOOLEAN /\ unread \in BOOLEAN
    /\ pc \in [Handlers -> PC]
    /\ kind \in [Handlers -> Kinds]
    /\ known \in [Handlers -> BOOLEAN]
    /\ faults \in Nat
    /\ slow \in BOOLEAN

\* A notification is answered with success, which ends its repetition, only
\* when the order is settled or its payment came too late for it; or a lookup on
\* the way failed, which is the one thing the code takes for success
\* (handleNotify, HandlePaymentNotification and all it calls).
AcknowledgedIsSettled == acked => status \in Settled \/ late \/ unread

\* No failure of the database is swallowed as an acknowledgement, as
\* payment_webhook_handler_test.go:124-125 puts it (handleNotify).
NoFailureAcknowledged == acked => status \in Settled \/ late

\* Only the handler that took the lease last ends the fulfilment, in COMPLETED
\* or FAILED (markCompleted, markFailed: the lease version), unless one has
\* stood between taking the lease and reading its version.
OnlyOwnerFinishes ==
    [][\A h \in Handlers :
          (status = "RECHARGING" /\ status' \in {"COMPLETED", "FAILED"} /\ pc'[h] # pc[h])
             => owner = h \/ slow]_vars

\* The order is credited once, for a payment, the rebate is accrued once, after
\* the credit, and COMPLETED comes after both and is never taken back but by a
\* refund, whatever webhooks, verification, cancel, expiry, retries and crashes
\* do at the same time.
P == INSTANCE Purchase WITH paid <- provider = "paid", done <- status \in Settled
ImplementsPurchase == P!Spec

\* A payment settles its order, unless it came after the grace period, or its
\* notification ended in a lookup that failed (the lease of a handler that died
\* is taken over).
PaidIsSettled == provider = "paid" ~> status \in Settled \/ late \/ unread

=============================================================================
