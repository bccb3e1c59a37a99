--------------------------- MODULE PaymentRefund ---------------------------
(***************************************************************************)
(* The refund of one completed order: the user's request, the              *)
(* administrator's PrepareRefund and ExecuteRefund, and the query that     *)
(* finalizes a refund the gateway answered with "pending".                 *)
(* (payment_refund.go.)                                                    *)
(*                                                                         *)
(* The gateway is asked once per amount: the keys that Stripe, WeChat Pay  *)
(* and Airwallex are given for a refund are made of the order and the      *)
(* amount, so a repeated call answers with the state of the first one.     *)
(* The days of a subscription are deducted, skipped and given back on the  *)
(* same paths as a balance; the balance stands for both.                   *)
(*                                                                         *)
(* Kinds of fault:                                                         *)
(*    db          a statement fails without effect                         *)
(*    deduct      the deduction fails without effect                       *)
(*    crash       the process of a handler dies                            *)
(*    gateway     a call to the gateway fails without effect               *)
(*    query       the gateway cannot be asked for a refund                 *)
(*    lost        the gateway makes the refund, its answer is lost         *)
(*    rollback    the deduction cannot be given back                       *)
(*    audit       an audit row of the refund cannot be read                *)
(*    staleQuery  a query that learns "failed" is overtaken by an          *)
(*                execution, or by a query that learnt more                *)
(***************************************************************************)
EXTENDS Integers

CONSTANTS
    Handlers,     \* goroutines that serve administrators
    Amounts,      \* the amounts that are refunded
    OrderAmount,  \* payment_orders.amount
    Deposit,      \* the user's balance when the order is completed
    FaultKinds,   \* the kinds of fault that may happen
    MaxFaults     \* bound on the number of faults

ASSUME AmountAssumption ==
    /\ OrderAmount \in Amounts
    /\ Amounts \subseteq 1 .. OrderAmount
    /\ Deposit \in Nat
    /\ MaxFaults \in Nat

VARIABLES
    status,       \* payment_orders.status
    refundAmount, \* payment_orders.refund_amount
    tradeNo,      \* payment_trade_no is not empty
    balance,      \* users.balance
    taken,        \* history: what the refund has taken from the balance
    audit,        \* the audit rows ROLLBACK_FAILED and SUCCESS of the order
    pendingRow,   \* the audit row REFUND_PENDING: which refund, rolled back?
    gateway,      \* the refund of each amount at the gateway
    pc,           \* program counter of each handler
    plan,         \* its RefundPlan; "restore" is the status of a rollback
    overtaken,    \* history: queries during which an execution began
    faults,       \* number of faults
    happened      \* history: the kinds that happened, but those any property bears

order    == <<status, refundAmount, tradeNo>>
money    == <<balance, taken>>
rows     == <<audit, pendingRow>>
procs    == <<pc, plan, overtaken>>
mishaps  == <<faults, happened>>
vars == <<order, money, rows, gateway, procs, mishaps>>

\* REFUNDED stands for PARTIALLY_REFUNDED as well.
Status == {"COMPLETED", "REFUND_REQUESTED", "REFUNDING", "REFUND_PENDING",
           "REFUND_FAILED", "REFUNDED"}

\* Mutant: a partially refunded order may be refunded further.
RefundableAgain == {"COMPLETED", "REFUND_REQUESTED", "REFUND_PENDING", "REFUND_FAILED", "REFUNDED"}

Refundable == {"COMPLETED", "REFUND_REQUESTED", "REFUND_PENDING", "REFUND_FAILED"}

GatewayStatus == {"none", "pending", "done", "failed"}

\* The execution of a plan, up to the audit row of a pending refund; a query.
ExecutePC == {"deduct", "gateway", "refunded", "refused", "pending",
              "restore", "fail", "markPending"}
QueryPC   == {"query", "finalize", "finalizeFailed"}
PC == ExecutePC \cup QueryPC \cup {"idle", "lock", "auditPending"}

\* What latestRefundPendingDetail answers when there is no row.
NoRow == [amount |-> 0, rollback |-> "ok"]

NoPlan == [amount |-> 0, toDeduct |-> 0, restore |-> "COMPLETED"]

Least(m, n) == IF m <= n THEN m ELSE n

-----------------------------------------------------------------------------
(* Handlers, money, faults *)

Go(h, to) ==
    /\ pc' = [pc EXCEPT ![h] = to]
    /\ UNCHANGED <<plan, overtaken>>

GoDeducting(h, to, amount) ==
    /\ pc' = [pc EXCEPT ![h] = to]
    /\ plan' = [plan EXCEPT ![h].toDeduct = amount]
    /\ UNCHANGED overtaken

End(h) ==
    /\ pc' = [pc EXCEPT ![h] = "idle"]
    /\ plan' = [plan EXCEPT ![h] = NoPlan]
    /\ overtaken' = overtaken \ {h}

Fault(k) ==
    /\ k \in FaultKinds
    /\ faults < MaxFaults
    /\ faults' = faults + 1
    /\ happened' = happened \cup ({k} \ {"db", "crash", "query"})

NoFault == UNCHANGED mishaps

SetStatus(s) ==
    /\ status' = s
    /\ UNCHANGED <<refundAmount, tradeNo>>

SetRefund(s, amount) ==
    /\ status' = s
    /\ refundAmount' = amount
    /\ UNCHANGED tradeNo

\* Mutant: deducts the amount of the plan, as DeductBalance does.
DeductFull(amount) == amount

\* DeductAvailableBalance never overdraws the balance.
Available(amount) == Least(amount, balance)

Deduct(amount) ==
    /\ balance' = balance - amount
    /\ taken' = taken + amount

GiveBack(amount) ==
    /\ balance' = balance + amount
    /\ taken' = taken - amount

-----------------------------------------------------------------------------
(* The user *)

\* The balance was sufficient when it was read; it may have been spent since.
RequestRefund ==
    /\ status = "COMPLETED"
    /\ SetRefund("REFUND_REQUESTED", OrderAmount)
    /\ UNCHANGED <<money, rows, gateway, procs, mishaps>>

Spend ==
    /\ balance > 0
    /\ balance' = balance - 1
    /\ UNCHANGED <<order, taken, rows, gateway, procs, mishaps>>

-----------------------------------------------------------------------------
(* PrepareRefund and ExecuteRefund *)

PrepareRefund(h) ==
    /\ pc[h] = "idle"
    /\ status \in Refundable
    /\ \E amount \in Amounts, force, deduct \in BOOLEAN :
          /\ deduct /\ ~force => balance >= amount
          /\ plan' = [plan EXCEPT ![h] =
                 [amount    |-> amount,
                  toDeduct  |-> IF deduct THEN Available(amount) ELSE 0,
                  restore   |-> IF status = "REFUND_REQUESTED" THEN status ELSE "COMPLETED"]]
    /\ pc' = [pc EXCEPT ![h] = "lock"]
    /\ UNCHANGED <<overtaken, order, money, rows, gateway, mishaps>>

\* The UPDATE that takes the order.
ExecuteRefund(h) ==
    /\ pc[h] = "lock"
    /\ \/ /\ status \in Refundable
          /\ SetStatus("REFUNDING")
          /\ pc' = [pc EXCEPT ![h] = "deduct"]
          /\ overtaken' = {x \in Handlers : pc[x] \in QueryPC}
          /\ UNCHANGED plan
          /\ NoFault
       \/ status \notin Refundable /\ UNCHANGED order /\ End(h) /\ NoFault
       \/ UNCHANGED order /\ End(h) /\ Fault("db")
    /\ UNCHANGED <<money, rows, gateway>>

\* A failed rollback has kept the deduction: a later execution skips it.
TakeDeduction(h) ==
    /\ pc[h] = "deduct"
    /\ LET amount == Available(plan[h].toDeduct) IN
       \/ /\ plan[h].toDeduct = 0
          /\ Go(h, "gateway")
          /\ UNCHANGED money
          /\ NoFault
       \/ /\ plan[h].toDeduct > 0
          /\ "ROLLBACK_FAILED" \in audit
          /\ GoDeducting(h, "gateway", 0)
          /\ UNCHANGED money
          /\ NoFault
       \/ /\ plan[h].toDeduct > 0
          /\ IF "ROLLBACK_FAILED" \in audit THEN Fault("audit") ELSE NoFault
          /\ Deduct(amount)
          /\ GoDeducting(h, "gateway", amount)
       \/ /\ plan[h].toDeduct > 0
          /\ "ROLLBACK_FAILED" \notin audit
          /\ Go(h, "restore")
          /\ UNCHANGED money
          /\ Fault("deduct")
    /\ UNCHANGED <<order, rows, gateway>>

\* Mutant: a pending refund is taken for a refund.
AnswerEarly(s) == IF s = "failed" THEN "refused" ELSE "refunded"

\* Mutant: "pending" is no success.
AnswerStrict(s) == IF s = "done" THEN "refunded" ELSE "refused"

Answer(s) ==
    CASE s = "done"    -> "refunded"
      [] s = "pending" -> "pending"
      [] OTHER         -> "refused"

GatewayRefund(h) ==
    /\ pc[h] = "gateway"
    /\ LET amount == plan[h].amount
           Call(s) == gateway' = [gateway EXCEPT ![amount] = s]
       IN
       \/ ~tradeNo /\ Go(h, "refunded") /\ UNCHANGED gateway /\ NoFault
       \/ /\ tradeNo
          /\ gateway[amount] \in {"none", "failed"}
          /\ \E s \in {"pending", "done", "failed"} : Call(s) /\ Go(h, Answer(s))
          /\ NoFault
       \/ /\ tradeNo
          /\ gateway[amount] \in {"pending", "done"}
          /\ Go(h, Answer(gateway[amount]))
          /\ UNCHANGED gateway
          /\ NoFault
       \/ /\ tradeNo
          /\ Go(h, "refused")
          /\ UNCHANGED gateway
          /\ Fault("gateway")
       \/ /\ tradeNo
          /\ gateway[amount] \in {"none", "failed"}
          /\ \E s \in {"pending", "done"} : Call(s)
          /\ Go(h, "refused")
          /\ Fault("lost")
    /\ UNCHANGED <<order, money, rows>>

\* An error leaves the order REFUNDING.
MarkRefunded(h) ==
    /\ pc[h] = "refunded"
    /\ \/ /\ SetRefund("REFUNDED", plan[h].amount)
          /\ audit' = audit \cup {"SUCCESS"}
          /\ NoFault
       \/ UNCHANGED <<order, audit>> /\ Fault("db")
    /\ End(h)
    /\ UNCHANGED <<money, pendingRow, gateway>>

\* Mutant: the deduction is kept while the gateway decides.
RollbackRefused(h) ==
    /\ pc[h] \in {"refused", "pending"}
    /\ GoDeducting(h, IF pc[h] = "refused" THEN "restore" ELSE "markPending", 0)
    /\ IF pc[h] = "refused" THEN GiveBack(plan[h].toDeduct) ELSE UNCHANGED money
    /\ NoFault
    /\ UNCHANGED <<order, rows, gateway>>

\* Whatever was deducted is given back, for a pending refund as well.
RollbackRefund(h) ==
    /\ pc[h] \in {"refused", "pending"}
    /\ \/ /\ GiveBack(plan[h].toDeduct)
          /\ GoDeducting(h, IF pc[h] = "refused" THEN "restore" ELSE "markPending", 0)
          /\ UNCHANGED rows
          /\ NoFault
       \/ /\ plan[h].toDeduct > 0
          /\ audit' = audit \cup {"ROLLBACK_FAILED"}
          /\ Go(h, IF pc[h] = "refused" THEN "fail" ELSE "markPending")
          /\ UNCHANGED <<money, pendingRow>>
          /\ Fault("rollback")
    /\ UNCHANGED <<order, gateway>>

\* The status is overwritten whatever it is; errors are ignored.
RestoreStatus(h) ==
    /\ pc[h] = "restore"
    /\ \/ /\ SetStatus(plan[h].restore)
          /\ NoFault
       \/ UNCHANGED order /\ Fault("db")
    /\ End(h)
    /\ UNCHANGED <<money, rows, gateway>>

MarkFailed(h) ==
    /\ pc[h] = "fail"
    /\ \/ SetStatus("REFUND_FAILED") /\ NoFault
       \/ UNCHANGED order /\ Fault("db")
    /\ End(h)
    /\ UNCHANGED <<money, rows, gateway>>

MarkRefundPending(h) ==
    /\ pc[h] = "markPending"
    /\ \/ SetRefund("REFUND_PENDING", plan[h].amount) /\ Go(h, "auditPending") /\ NoFault
       \/ UNCHANGED order /\ End(h) /\ Fault("db")
    /\ UNCHANGED <<money, rows, gateway>>

\* The rows of an order are unique by action: the first one stays.
AuditPending(h) ==
    /\ pc[h] = "auditPending"
    /\ \/ /\ pendingRow = NoRow
          /\ pendingRow' = [amount   |-> plan[h].amount,
                            rollback |-> IF plan[h].toDeduct = 0 THEN "ok" ELSE "failed"]
          /\ NoFault
       \/ pendingRow # NoRow /\ UNCHANGED pendingRow /\ NoFault
       \/ UNCHANGED pendingRow /\ Fault("db")
    /\ End(h)
    /\ UNCHANGED <<order, money, audit, gateway>>

-----------------------------------------------------------------------------
(* QueryAndFinalizeRefund *)

QueryRefund(h) ==
    /\ pc[h] = "idle"
    /\ status = "REFUND_PENDING"
    /\ pc' = [pc EXCEPT ![h] = "query"]
    /\ plan' = [plan EXCEPT ![h] = [amount |-> refundAmount, toDeduct |-> refundAmount,
                                    restore |-> "COMPLETED"]]
    /\ UNCHANGED <<overtaken, order, money, rows, gateway, mishaps>>

\* latestRefundPendingDetail: an error answers like a missing row.
ReadsRow(read) == IF read = pendingRow THEN NoFault ELSE Fault("audit")

\* The gateway is asked for the refund of the audit row.  A refund that it
\* does not know is an error, which ends the query like "pending" does.
AskGateway(h) ==
    /\ pc[h] = "query"
    /\ \/ \E read \in {pendingRow, NoRow} :
             LET asked == IF read = NoRow THEN plan[h].amount ELSE read.amount
                 amount == IF read.rollback = "ok" THEN plan[h].amount ELSE 0
             IN
             /\ \/ gateway[asked] = "done"   /\ GoDeducting(h, "finalize", amount)
                \/ gateway[asked] = "failed" /\ Go(h, "finalizeFailed")
                \/ gateway[asked] \in {"none", "pending"} /\ End(h)
             /\ ReadsRow(read)
       \/ End(h) /\ Fault("query")
    /\ UNCHANGED <<order, money, rows, gateway>>

\* One transaction: REFUND_PENDING -> REFUNDING, the deduction, the status and
\* the audit row, whose second insertion would fail.
FinalizeSuccess(h) ==
    /\ pc[h] = "finalize"
    /\ \/ /\ status = "REFUND_PENDING"
          /\ "SUCCESS" \notin audit
          /\ SetRefund("REFUNDED", plan[h].amount)
          /\ Deduct(Available(plan[h].toDeduct))
          /\ audit' = audit \cup {"SUCCESS"}
          /\ NoFault
       \/ /\ status # "REFUND_PENDING" \/ "SUCCESS" \in audit
          /\ UNCHANGED <<order, money, audit>>
          /\ NoFault
       \/ UNCHANGED <<order, money, audit>> /\ Fault("db")
    /\ End(h)
    /\ UNCHANGED <<pendingRow, gateway>>

\* The status is overwritten whatever it is.
FinalizeFailed(h) ==
    /\ pc[h] = "finalizeFailed"
    /\ IF h \in overtaken \/ status # "REFUND_PENDING" THEN Fault("staleQuery") ELSE NoFault
    /\ SetStatus("REFUND_FAILED")
    /\ End(h)
    /\ UNCHANGED <<money, rows, gateway>>

-----------------------------------------------------------------------------
(* The gateway and the processes *)

GatewayDecides ==
    /\ \E a \in Amounts, s \in {"done", "failed"} :
          /\ gateway[a] = "pending"
          /\ gateway' = [gateway EXCEPT ![a] = s]
    /\ UNCHANGED <<order, money, rows, procs, mishaps>>

Crash(h) ==
    /\ pc[h] # "idle"
    /\ Fault("crash")
    /\ End(h)
    /\ UNCHANGED <<order, money, rows, gateway>>

Init ==
    /\ status = "COMPLETED"
    /\ refundAmount = 0
    /\ tradeNo \in BOOLEAN
    /\ balance = Deposit
    /\ taken = 0
    /\ audit = {}
    /\ pendingRow = NoRow
    /\ gateway = [a \in Amounts |-> "none"]
    /\ pc = [h \in Handlers |-> "idle"]
    /\ plan = [h \in Handlers |-> NoPlan]
    /\ overtaken = {}
    /\ faults = 0
    /\ happened = {}

Handle(h) ==
    \/ PrepareRefund(h) \/ ExecuteRefund(h) \/ TakeDeduction(h) \/ GatewayRefund(h)
    \/ MarkRefunded(h) \/ RollbackRefund(h) \/ RestoreStatus(h) \/ MarkFailed(h)
    \/ MarkRefundPending(h) \/ AuditPending(h)
    \/ QueryRefund(h) \/ AskGateway(h) \/ FinalizeSuccess(h) \/ FinalizeFailed(h)
    \/ Crash(h)

Next == RequestRefund \/ Spend \/ GatewayDecides \/ \E h \in Handlers : Handle(h)

Spec == Init /\ [][Next]_vars

-----------------------------------------------------------------------------
(* Properties *)

\* Values of the order, the user's balance, the gateway and the plans: an
\* amount in a plan never exceeds the order's, and a refund never overdraws.
TypeOK ==
    /\ status \in Status /\ refundAmount \in 0 .. OrderAmount /\ tradeNo \in BOOLEAN
    /\ balance \in Nat /\ taken \in Int
    /\ audit \subseteq {"ROLLBACK_FAILED", "SUCCESS"}
    /\ pendingRow \in [amount : Amounts \cup {0}, rollback : {"ok", "failed"}]
    /\ gateway \in [Amounts -> GatewayStatus]
    /\ pc \in [Handlers -> PC]
    /\ plan \in [Handlers -> [amount : 0 .. OrderAmount, toDeduct : 0 .. OrderAmount,
                              restore : {"COMPLETED", "REFUND_REQUESTED"}]]
    /\ overtaken \subseteq Handlers
    /\ faults \in 0 .. MaxFaults /\ happened \subseteq FaultKinds

\* As long as the order is not refunded and nobody works on it, the user has
\* all of the balance, and a refund takes no more than it returns.  Two
\* administrators who execute and finalize the refund of one order at the same
\* time and crashes leave this true; a rollback that fails (it is remembered
\* for a retry) and a query overtaken by a new refund do not.
DeductedForRefund ==
    happened \cap {"rollback", "staleQuery"} = {} =>
        /\ status \notin {"REFUNDING", "REFUNDED"} => taken = 0
        /\ status = "REFUNDED" => taken <= refundAmount

\* The refund of an order never takes more than the order's amount.
DeductedOnce == taken <= OrderAmount

\* An order is marked as refunded only when the gateway made a refund of it,
\* or never had the payment.
RefundedMeansReturned ==
    status = "REFUNDED" /\ tradeNo => \E a \in Amounts : gateway[a] = "done"

\* Money that went back is not forgotten: when one amount was asked for and
\* no query was overtaken, an order whose refund is done cannot look completed,
\* requested or failed.  A failed call that is taken for a refusal, and a failed
\* deduction, restore "COMPLETED" even where a refund is under way.
ReturnedIsRemembered ==
    /\ \A a, b \in Amounts : gateway[a] # "none" /\ gateway[b] # "none" => a = b
    /\ \E a \in Amounts : gateway[a] = "done"
    /\ happened \cap {"gateway", "lost", "deduct", "staleQuery"} = {}
    => status \in {"REFUNDING", "REFUND_PENDING", "REFUNDED"}

\* A refunded order stays refunded, whoever still executes or queries, unless
\* a query that was overtaken learns that the earlier refund failed.
RefundedIsFinal ==
    [][status = "REFUNDED" /\ "staleQuery" \notin happened' => status' = "REFUNDED"]_vars

=============================================================================
