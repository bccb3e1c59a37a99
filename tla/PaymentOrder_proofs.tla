------------------------- MODULE PaymentOrder_proofs -------------------------
(***************************************************************************)
(* Proofs about one payment order, for any set of handlers and any number  *)
(* of faults.  The step lemmas go variable by variable, or conjunct by     *)
(* conjunct of the invariant: each names what may become of it, and the    *)
(* actions that matter differ from one to the next.                        *)
(***************************************************************************)
EXTENDS PaymentOrder, TLAPS

\* Past these points a handler acts for a payment the provider has.
PaidPC == PC \ {"idle", "query", "cancelPayment", "close"}

\* Where a paid order comes from: its creation is over, and whoever takes it for
\* paid acts for the provider's payment.
Origin ==
    /\ status = "none" => creating = "idle"
    /\ creating \in {"idle", "invoke"} => provider = "none"
    /\ provider = "paid" => creating = "done"
    /\ paidAt => provider = "paid"
    /\ status \in {"PAID", "RECHARGING", "COMPLETED", "REFUNDING"} => provider = "paid"
    /\ \A h \in Handlers : pc[h] \in PaidPC => provider = "paid"

\* What makes the grants happen once: each is counted by the record that guards
\* it, the rebate follows the credit, and the end follows the rebate.
Once ==
    /\ credits = IF code = "used" THEN 1 ELSE 0
    /\ rebates = IF rebated THEN 1 ELSE 0
    /\ rebated => code = "used"
    /\ status \in Settled => rebated
    /\ \A h \in Handlers : pc[h] = "rebate" => code = "used"
    /\ \A h \in Handlers : pc[h] \in {"complete", "completionMissed"} => rebated

IInv == TypeOK /\ Origin /\ Once

\* What ends the provider's repetition, and what the answer relies on: an order
\* found not payable does not become payable again.
Answered ==
    /\ AcknowledgedIsSettled
    /\ \A h \in Handlers :
          /\ pc[h] = "already" => status \notin {"none", "PENDING", "CANCELLED"}
          /\ pc[h] \in {"query", "cancelPayment", "close"} => kind[h] # "webhook"

\* A step that answers a webhook with success finds the order settled or late,
\* or has failed to look at it.
Replies ==
    /\ late = TRUE => late' = TRUE
    /\ unread = TRUE => unread' = TRUE
    /\ (acked' = TRUE /\ acked = FALSE /\ status' \notin Settled) => late' = TRUE \/ unread' = TRUE

\* The lease is with the handler that took it last, or with nobody while that
\* one reads it back, as long as nobody takes five minutes for that.
Leased ==
    slow = FALSE =>
        /\ lease \subseteq {owner}
        /\ \A h \in Handlers :
              pc[h] = "reload" => owner = h /\ lease = {} /\ status = "RECHARGING" /\ old = FALSE

\* OnlyOwnerFinishes, for one step.
OwnerFinishes ==
    \A h \in Handlers :
        (status = "RECHARGING" /\ status' \in {"COMPLETED", "FAILED"} /\ pc'[h] # pc[h])
           => owner = h \/ slow

-----------------------------------------------------------------------------
\* Whatever step answers a webhook with success, the order is settled then, or
\* its payment is late, or the step is a lookup that failed.
LEMMA RepliesStep == IInv /\ Answered /\ Next => Replies
<1> SUFFICES ASSUME IInv, Answered, Next PROVE Replies
  OBVIOUS
<1> USE DEF IInv, TypeOK, Origin, Answered, Answer, Respond, Go, Fails, Fault, NoFault, past, Settled,
        Fulfillable, PaidPC, PC, OnlyHandler, row, replies, Kinds, Status, Replies, SetStatus
<1>1. ASSUME NEW h \in Handlers, QueryOrder(h) PROVE Replies
  BY <1>1 DEF QueryOrder
<1>2. ASSUME NEW h \in Handlers, CloseOrder(h) PROVE Replies
  BY <1>2 DEF CloseOrder
<1>3. ASSUME NEW h \in Handlers, GetWebhookProviders(h) \/ Confirm(h) PROVE Replies
  BY <1>3 DEF GetWebhookProviders, Confirm, LostRead
<1>4. ASSUME NEW h \in Handlers, ToPaid(h) PROVE Replies
  BY <1>4 DEF ToPaid, Payable
<1>5. ASSUME NEW h \in Handlers, AlreadyProcessed(h) PROVE Replies
  BY <1>5 DEF AlreadyProcessed, LostRead
<1>6. ASSUME NEW h \in Handlers, ExecuteFulfillment(h) PROVE Replies
  BY <1>6 DEF ExecuteFulfillment
<1>7. ASSUME NEW h \in Handlers, AcquireLease(h) PROVE Replies
  BY <1>7 DEF AcquireLease, LeaseFree
<1>8. ASSUME NEW h \in Handlers, LeaseMissed(h) PROVE Replies
  BY <1>8 DEF LeaseMissed
<1>9. ASSUME NEW h \in Handlers, ReloadLease(h) PROVE Replies
  BY <1>9 DEF ReloadLease
<1>10. ASSUME NEW h \in Handlers, MarkCompleted(h) PROVE Replies
  BY <1>10 DEF MarkCompleted, Owns
<1>11. ASSUME NEW h \in Handlers, CompletionMissed(h) PROVE Replies
  BY <1>11 DEF CompletionMissed
<1>12. ASSUME NEW h \in Handlers, MarkFailed(h) PROVE Replies
  BY <1>12 DEF MarkFailed, Owns
<1>13. ASSUME NEW h \in Handlers, Crash(h) PROVE Replies
  BY <1>13 DEF Crash
<1>14. CASE Creation \/ Pay \/ Age \/ Refund
  BY <1>14 DEF Creation, CreateOrder, CreatePayment, StorePayment, CreationFailed, CreationCrash,
              Pay, Age, Refund
<1>15. ASSUME NEW h \in Handlers, Request(h) PROVE Replies
  BY <1>15 DEF Request, Webhook, Verify, CancelOrder, ExpireOrder, RetryFulfillment, Begin
<1>16. ASSUME NEW h \in Handlers, StoreTradeNo(h) \/ CancelPayment(h) PROVE Replies
  BY <1>16 DEF StoreTradeNo, CancelPayment
<1>17. ASSUME NEW h \in Handlers,
              \/ LookupCode(h) \/ CreateCode(h) \/ Redeem(h)
              \/ AssignSubscription(h) \/ ApplyRebate(h)
       PROVE  Replies
  BY <1>17 DEF LookupCode, CreateCode, Redeem, AssignSubscription, ApplyRebate
<1> QED
  BY ONLY Next, <1>1, <1>2, <1>3, <1>4, <1>5, <1>6, <1>7, <1>8, <1>9, <1>10, <1>11, <1>12, <1>13,
     <1>14, <1>15, <1>16, <1>17 DEF Next, HandlerStep, Settling, Fulfilment

-----------------------------------------------------------------------------
\* In the lemmas of this section every action is expanded.
USE DEF
    Next, Creation, Request, HandlerStep, Settling, Fulfilment, Crash,
    CreateOrder, CreatePayment, StorePayment, CreationFailed, CreationCrash, Pay, Age, Refund,
    Webhook, Verify, CancelOrder, ExpireOrder, RetryFulfillment, Begin,
    QueryOrder, StoreTradeNo, CancelPayment, CloseOrder, GetWebhookProviders, Confirm,
    LostRead, ToPaid, Payable,
    AlreadyProcessed, ExecuteFulfillment, AcquireLease, LeaseFree, LeaseMissed, ReloadLease,
    LookupCode, CreateCode, Redeem, AssignSubscription, Grant, ApplyRebate, Fails,
    MarkCompleted, Owns, CompletionMissed, MarkFailed,
    Touch, SetStatus, Go, Answer, Respond, OnlyHandler, Fault, NoFault, past,
    PC, FulfilPC, PaidPC, Fulfillable, Settled, Kinds, Status, row, grants, replies, procs, vars

\* Every step keeps every variable in its type, and a lease only on a RECHARGING
\* row.
LEMMA TypeStep == TypeOK /\ Next => TypeOK'
<1> SUFFICES ASSUME TypeOK, Next PROVE TypeOK'
  OBVIOUS
<1> USE FaultAssumption DEF TypeOK
<1>1. status' \in Status
  BY SMTT(60)
<1>2. subscription' \in BOOLEAN
  BY SMTT(60)
<1>3. paidAt' = TRUE \/ paidAt' = FALSE \/ paidAt' = paidAt
  BY SMTT(60)
<1>4. tradeNo' = TRUE \/ tradeNo' = FALSE \/ tradeNo' = tradeNo
  BY SMTT(60)
<1>5. old' = TRUE \/ old' = FALSE \/ old' = old
  BY SMTT(60)
<1>6. owner' \in Handlers \union {None}
  BY SMTT(60)
<1>7. code' \in {"none", "unused", "used"}
  BY SMTT(60)
<1>8. rebated' = TRUE \/ rebated' = FALSE \/ rebated' = rebated
  BY SMTT(60)
<1>9. credits' \in Nat
  BY SMTT(60)
<1>10. rebates' \in Nat
  BY SMTT(60)
<1>11. creating' \in {"idle", "invoke", "store", "fail", "failed", "done"}
  BY SMTT(60)
<1>12. provider' \in {"none", "open", "closed", "paid"}
  BY SMTT(60)
<1>13. acked' = TRUE \/ acked' = FALSE \/ acked' = acked
  BY SMTT(60)
<1>14. /\ late' = TRUE \/ late' = FALSE \/ late' = late
       /\ unread' = TRUE \/ unread' = FALSE \/ unread' = unread
  BY SMTT(60)
<1>15. faults' \in Nat /\ (slow' = TRUE \/ slow' = FALSE \/ slow' = slow)
  BY SMTT(60)
<1>16. lease' \subseteq Handlers
  BY SMTT(60)
<1>17. lease' # {} => status' = "RECHARGING"
  BY SMTT(60)
<1>18. pc' \in [Handlers -> PC]
  BY SMTT(60)
<1>19. kind' \in [Handlers -> Kinds]
  BY SMTT(60)
<1>20. \/ known' = known
       \/ \E h \in Handlers : \/ known' = [known EXCEPT ![h] = FALSE]
                             \/ known' = [known EXCEPT ![h] = tradeNo]
  BY SMTT(60)
<1>21. /\ paidAt' \in BOOLEAN /\ tradeNo' \in BOOLEAN /\ old' \in BOOLEAN
       /\ rebated' \in BOOLEAN /\ acked' \in BOOLEAN
  BY ONLY TypeOK, <1>3, <1>4, <1>5, <1>8, <1>13, Zenon DEF TypeOK
<1>22. late' \in BOOLEAN /\ unread' \in BOOLEAN /\ slow' \in BOOLEAN
  BY ONLY TypeOK, <1>14, <1>15, Zenon DEF TypeOK
<1>23. known' \in [Handlers -> BOOLEAN]
  BY ONLY TypeOK, <1>20 DEF TypeOK
<1> QED
  BY ONLY TypeOK, <1>1, <1>2, <1>3, <1>4, <1>5, <1>6, <1>7, <1>8, <1>9, <1>10, <1>11, <1>12, <1>13, <1>14, <1>15, <1>16, <1>17, <1>18, <1>19,
     <1>21, <1>22, <1>23 DEF TypeOK

\* No step takes an order for paid that is not.
LEMMA OriginStep == IInv /\ Next => Origin'
<1> SUFFICES ASSUME IInv, Next PROVE Origin'
  OBVIOUS
<1> USE FaultAssumption DEF IInv, TypeOK, Origin
<1>1. status' = "none" => creating' = "idle"
  BY SMTT(60)
<1>2. creating' \in {"idle", "invoke"} => provider' = "none"
  BY SMTT(60)
<1>3. provider' = "paid" => creating' = "done"
  BY SMTT(60)
<1>4. /\ paidAt' = paidAt \/ provider' = "paid"
      /\ provider = "paid" => provider' = "paid"
  BY SMTT(60)
<1>5. status' \in {"PAID", "RECHARGING", "COMPLETED", "REFUNDING"} => provider' = "paid"
  BY SMTT(60)
<1>6. ASSUME NEW h \in Handlers, pc'[h] \in PaidPC PROVE provider' = "paid"
  BY <1>6, SMTT(60)
<1> QED
  BY ONLY IInv, <1>1, <1>2, <1>3, <1>4, <1>5, <1>6 DEF Origin

\* Every step keeps the counts of grants and rebates in line with the code and
\* the audit row that guard them.
LEMMA OnceStep == IInv /\ Next => Once'
<1> SUFFICES ASSUME IInv, Next PROVE Once'
  OBVIOUS
<1> USE FaultAssumption DEF IInv, TypeOK, Origin, Once
<1>1. credits' = IF code' = "used" THEN 1 ELSE 0
  BY SMTT(60)
<1>2. rebates' = IF rebated' THEN 1 ELSE 0
  BY SMTT(60)
<1>3. /\ rebated' = rebated \/ code' = "used"
      /\ code = "used" => code' = "used"
  BY SMTT(60)
<1>4. status' \in Settled => rebated'
  BY SMTT(60)
<1>5. ASSUME NEW h \in Handlers, pc'[h] = "rebate" PROVE code' = "used"
  BY <1>5, SMTT(60)
<1>6. ASSUME NEW h \in Handlers, pc'[h] \in {"complete", "completionMissed"} PROVE rebated'
  BY <1>6, SMTT(60)
<1> QED
  BY ONLY IInv, <1>1, <1>2, <1>3, <1>4, <1>5, <1>6 DEF Once

\* Every step is a payment, a credit, a rebate or the end of the abstract
\* purchase, or changes nothing of it.
LEMMA AbstractStep == IInv /\ Next => [P!Next]_P!vars
<1> SUFFICES ASSUME IInv, Next PROVE P!Next \/ UNCHANGED P!vars
  OBVIOUS
<1> USE DEF IInv, TypeOK, Origin, Once, P!Next, P!Pay, P!Credit, P!Rebate, P!Finish, P!vars
<1>1. provider = "paid" => provider' = "paid"
  BY SMTT(60)
<1>2. status \in Settled => status' \in Settled
  BY SMTT(60)
<1>3. CASE UNCHANGED <<credits, rebates>> /\ (status' \in Settled => status \in Settled)
  BY ONLY <1>1, <1>2, <1>3 DEF P!Next, P!Pay, P!vars
<1>4. CASE credits' # credits
  <2>1. /\ provider = "paid" /\ credits = 0 /\ credits' = 1
        /\ UNCHANGED <<provider, rebates, status>>
    BY <1>4, SMTT(60)
  <2> QED
    BY ONLY <2>1 DEF P!Next, P!Credit
<1>5. CASE rebates' # rebates
  <2>1. /\ credits = 1 /\ rebates = 0 /\ rebates' = 1
        /\ UNCHANGED <<provider, credits, status>>
    BY <1>5, SMTT(60)
  <2> QED
    BY ONLY <2>1 DEF P!Next, P!Rebate
<1>6. CASE status' \in Settled /\ status \notin Settled
  <2>1. rebates = 1 /\ UNCHANGED <<provider, credits, rebates>>
    BY <1>6, SMTT(60)
  <2> QED
    BY ONLY <2>1, <1>6 DEF P!Next, P!Finish
<1> QED
  BY ONLY <1>3, <1>4, <1>5, <1>6

\* ... and remains so.
LEMMA AnsweredStep == IInv /\ Answered /\ Next => Answered'
<1> SUFFICES ASSUME IInv, Answered, Next PROVE Answered'
  OBVIOUS
<1> USE DEF IInv, TypeOK, Origin, Once, Answered, AcknowledgedIsSettled
<1>1. status \in Settled => status' \in Settled
  BY SMTT(60)
<1>2. Replies
  BY ONLY IInv, Answered, Next, RepliesStep
<1>3. AcknowledgedIsSettled'
  BY ONLY IInv, Answered, <1>1, <1>2, Zenon DEF IInv, TypeOK, Replies, Answered, AcknowledgedIsSettled
<1>4. ASSUME NEW h \in Handlers, pc'[h] = "already"
      PROVE  status' \notin {"none", "PENDING", "CANCELLED"}
  BY <1>4, SMTT(60)
<1>5. ASSUME NEW h \in Handlers, pc'[h] \in {"query", "cancelPayment", "close"}
      PROVE  kind'[h] # "webhook"
  BY <1>5, SMTT(60)
<1> QED
  BY ONLY <1>3, <1>4, <1>5 DEF Answered

\* A lease is never read back after another handler has taken it, as long as
\* reading it back takes less than a lease.
LEMMA LeasedStep == IInv /\ Leased /\ Next => Leased'
<1> SUFFICES ASSUME IInv, Leased, Next, slow' = FALSE
             PROVE  /\ lease' \subseteq {owner'}
                    /\ \A h \in Handlers :
                          pc'[h] = "reload" => /\ owner' = h /\ lease' = {}
                                               /\ status' = "RECHARGING" /\ old' = FALSE
  BY DEF Leased
<1> USE DEF IInv, TypeOK, Origin, Once, Leased
<1>0. slow = FALSE
  BY SMTT(60)
<1>1. lease' \subseteq {owner'}
  BY <1>0, SMTT(60)
<1>2. ASSUME NEW h \in Handlers, pc'[h] = "reload" PROVE owner' = h /\ lease' = {}
  BY <1>0, <1>2, SMTT(60)
<1>3. ASSUME NEW h \in Handlers, pc'[h] = "reload" PROVE status' = "RECHARGING"
  BY <1>0, <1>3, SMTT(60)
<1>4. ASSUME NEW h \in Handlers, pc'[h] = "reload" PROVE old' = FALSE
  BY <1>0, <1>4, SMTT(60)
<1> QED
  BY ONLY <1>1, <1>2, <1>3, <1>4

\* Ending a fulfilment takes the lease.
LEMMA OwnerStep == IInv /\ Leased /\ Next => OwnerFinishes
<1> SUFFICES ASSUME IInv, Leased, Next,
                    NEW h \in Handlers,
                    status = "RECHARGING", status' \in {"COMPLETED", "FAILED"}, pc'[h] # pc[h]
             PROVE  owner = h \/ slow
  BY DEF OwnerFinishes
<1> USE DEF IInv, TypeOK, Origin, Leased
<1>1. CASE slow = FALSE
  BY <1>1
<1>2. CASE slow = TRUE
  BY ONLY <1>2
<1> QED
  BY ONLY <1>1, <1>2, IInv, Zenon DEF IInv, TypeOK

HIDE DEF
    Next, Creation, Request, HandlerStep, Settling, Fulfilment, Crash,
    CreateOrder, CreatePayment, StorePayment, CreationFailed, CreationCrash, Pay, Age, Refund,
    Webhook, Verify, CancelOrder, ExpireOrder, RetryFulfillment, Begin,
    QueryOrder, StoreTradeNo, CancelPayment, CloseOrder, GetWebhookProviders, Confirm,
    LostRead, ToPaid, Payable,
    AlreadyProcessed, ExecuteFulfillment, AcquireLease, LeaseFree, LeaseMissed, ReloadLease,
    LookupCode, CreateCode, Redeem, AssignSubscription, Grant, ApplyRebate, Fails,
    MarkCompleted, Owns, CompletionMissed, MarkFailed,
    Touch, SetStatus, Go, Answer, Respond, OnlyHandler, Fault, NoFault, past,
    PC, FulfilPC, PaidPC, Fulfillable, Settled, Kinds, Status, row, grants, replies, procs, vars

-----------------------------------------------------------------------------
\* Before the order exists nothing is paid or granted.
LEMMA InvInit == Init => IInv
<1> SUFFICES ASSUME Init PROVE IInv
  OBVIOUS
<1> USE DEF Init, PaidPC, PC, Status, Kinds, Settled
<1>1. TypeOK
  BY DEF TypeOK
<1>2. Origin
  BY DEF Origin
<1>3. Once
  BY DEF Once
<1> QED
  BY <1>1, <1>2, <1>3 DEF IInv

\* The strengthened invariant is inductive.
LEMMA InvStep == IInv /\ [Next]_vars => IInv'
<1> SUFFICES ASSUME IInv, [Next]_vars PROVE IInv'
  OBVIOUS
<1>1. CASE Next
  BY <1>1, TypeStep, OriginStep, OnceStep DEF IInv
<1>2. CASE UNCHANGED vars
  BY <1>2 DEF IInv, TypeOK, Origin, Once, vars, row, grants, replies, procs, past
<1> QED
  BY <1>1, <1>2

\* The strengthened invariant holds in every behaviour of the code.
THEOREM Invariance == Spec => []IInv
  BY InvInit, InvStep, PTL DEF Spec

\* Every variable keeps its type, and only a RECHARGING order is leased.
THEOREM TypeCorrect == Spec => []TypeOK
  BY Invariance, PTL DEF IInv

\* The code implements the purchase, whatever fails: one credit per payment, one
\* rebate, and COMPLETED after both.
THEOREM Refinement == Spec => ImplementsPurchase
<1>1. Init => P!Init
  BY DEF Init, P!Init, Settled
<1>2. IInv /\ [Next]_vars => [P!Next]_P!vars
  <2>1. CASE Next
    BY <2>1, AbstractStep
  <2>2. UNCHANGED vars => UNCHANGED P!vars
    BY DEF vars, row, grants, P!vars
  <2> QED
    BY <2>1, <2>2
<1> QED
  BY <1>1, <1>2, Invariance, PTL DEF Spec, ImplementsPurchase, P!Spec

\* Whatever fails, a webhook is acknowledged only for a settled or late order, or
\* by one of the three lookups whose error handleNotify, confirmPayment and
\* alreadyProcessed answer with success.
THEOREM Acknowledged == Spec => []AcknowledgedIsSettled
<1>1. Init => Answered
  BY DEF Init, Answered, AcknowledgedIsSettled
<1>2. IInv /\ Answered /\ [Next]_vars => Answered'
  <2>1. IInv /\ Answered /\ Next => Answered'
    BY AnsweredStep
  <2>2. Answered /\ UNCHANGED vars => Answered'
    BY DEF Answered, AcknowledgedIsSettled, vars, row, replies, procs
  <2> QED
    BY <2>1, <2>2
<1>3. Answered => AcknowledgedIsSettled
  BY DEF Answered
<1> QED
  BY <1>1, <1>2, <1>3, Invariance, PTL DEF Spec

\* Until some handler has let the lease run out before it read it back,
\* markCompleted and markFailed act only for the handler that took it last.
THEOREM Ownership == Spec => OnlyOwnerFinishes
<1>1. Init => Leased
  BY DEF Init, Leased
<1>2. IInv /\ Leased /\ [Next]_vars => Leased'
  <2>1. IInv /\ Leased /\ Next => Leased'
    BY LeasedStep
  <2>2. Leased /\ UNCHANGED vars => Leased'
    BY DEF Leased, vars, row, procs, past
  <2> QED
    BY <2>1, <2>2
<1>3. IInv /\ Leased /\ [Next]_vars => [OwnerFinishes]_vars
  BY OwnerStep
<1> QED
  BY <1>1, <1>2, <1>3, Invariance, PTL DEF Spec, OnlyOwnerFinishes, OwnerFinishes

=============================================================================
