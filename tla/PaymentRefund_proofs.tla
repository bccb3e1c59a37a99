------------------------ MODULE PaymentRefund_proofs ------------------------
(***************************************************************************)
(* Proofs about the refund of an order, for any handlers, amounts and      *)
(* number of faults.  The step lemmas take the actions one by one.         *)
(***************************************************************************)
EXTENDS PaymentRefund, TLAPS

\* Whoever works on the order was asked for one of the amounts, and so was the
\* gateway.
Asked ==
    /\ \A h \in Handlers : pc[h] # "idle" => plan[h].amount \in Amounts
    /\ status = "REFUND_PENDING" => refundAmount \in Amounts
    /\ pendingRow = NoRow \/ pendingRow.amount \in Amounts

\* Who marks the order as refunded has the gateway's word.
Returned ==
    /\ RefundedMeansReturned
    /\ \A h \in Handlers :
          /\ pc[h] = "refunded" /\ tradeNo => gateway[plan[h].amount] = "done"
          /\ pc[h] = "finalize" => \E a \in Amounts : gateway[a] = "done"

IInv == TypeOK /\ Asked /\ Returned

\* No query was overtaken: one handler at most executes, on a REFUNDING order.
Alone ==
    /\ \A g, h \in Handlers : pc[g] \in ExecutePC /\ pc[h] \in ExecutePC => g = h
    /\ \A h \in Handlers : pc[h] \in ExecutePC => status = "REFUNDING"

\* What the executing handler has taken is what it would give back.
Accounted ==
    /\ DeductedForRefund
    /\ "rollback" \notin happened =>
         /\ "ROLLBACK_FAILED" \notin audit
         /\ taken \in 0 .. OrderAmount
         /\ \A h \in Handlers :
               /\ plan[h].toDeduct <= plan[h].amount
               /\ pc[h] \in {"gateway", "refunded", "refused", "pending"} => taken = plan[h].toDeduct
               /\ pc[h] \in {"deduct", "restore", "markPending"} => taken = 0
               /\ pc[h] # "fail"

Orderly == "staleQuery" \notin happened => Alone /\ Accounted

\* A query during which an execution began has been overtaken by it.
Attended ==
    \A g, h \in Handlers : pc[g] \in ExecutePC /\ pc[h] \in QueryPC => h \in overtaken

OneAsked == \A a, b \in Amounts : gateway[a] # "none" /\ gateway[b] # "none" => a = b

NotUnderWay == \A a \in Amounts : gateway[a] \in {"none", "failed"}

\* Who takes the order back has the gateway's refusal of the only amount it was
\* asked for, and no refund is under way.
Remembered ==
    OneAsked /\ happened \cap {"gateway", "lost", "deduct"} = {} =>
        /\ status \in {"REFUNDING", "REFUND_PENDING", "REFUNDED"} \/ NotUnderWay
        /\ \A h \in Handlers :
              \/ pc[h] \in {"refused", "restore", "fail"}
              \/ pc[h] = "finalizeFailed" /\ h \notin overtaken
              => NotUnderWay

Attentive == "staleQuery" \notin happened => Attended /\ Remembered

-----------------------------------------------------------------------------
\* The step lemmas, one step per action.
USE DEF
    Go, GoDeducting, End, Fault, NoFault, SetStatus, SetRefund, Deduct, GiveBack, NoRow, NoPlan,
    order, money, rows, procs, mishaps, Status, PC, ExecutePC, QueryPC, Refundable, GatewayStatus

\* What is deducted is at most what was asked for, and at most the balance.
LEMMA AvailableFacts ==
    ASSUME balance \in Nat, NEW a \in Nat
    PROVE  Available(a) \in 0 .. a /\ Available(a) <= balance
  BY DEF Available, Least

\* Every step keeps every variable in its type.
LEMMA TypeStep ==
    TypeOK /\ Asked /\ Next =>
        TypeOK'
<1> SUFFICES ASSUME TypeOK, Asked, Next
             PROVE  TypeOK'
  OBVIOUS
<1> USE AmountAssumption DEF TypeOK, Asked
<1>1. CASE RequestRefund
  BY <1>1 DEF RequestRefund
<1>2. CASE Spend
  BY <1>2 DEF Spend
<1>3. CASE GatewayDecides
  BY <1>3 DEF GatewayDecides
<1>4. ASSUME NEW h \in Handlers, PrepareRefund(h) PROVE TypeOK'
  <2>1. plan' \in [Handlers -> [amount : 0 .. OrderAmount, toDeduct : 0 .. OrderAmount,
                             restore : {"COMPLETED", "REFUND_REQUESTED"}]]
    <3>1. PICK amount \in Amounts, deduct \in BOOLEAN :
             plan' = [plan EXCEPT ![h] =
                 [amount   |-> amount,
                  toDeduct |-> IF deduct THEN Available(amount) ELSE 0,
                  restore  |-> IF status = "REFUND_REQUESTED" THEN status ELSE "COMPLETED"]]
      BY <1>4 DEF PrepareRefund
    <3>2. amount \in 1 .. OrderAmount /\ Available(amount) \in 0 .. amount
      BY AvailableFacts
    <3> QED
      BY <3>1, <3>2
  <2> QED
    BY <1>4, <2>1 DEF PrepareRefund
<1>5. ASSUME NEW h \in Handlers, ExecuteRefund(h) PROVE TypeOK'
  BY <1>5 DEF ExecuteRefund
<1>6. ASSUME NEW h \in Handlers, TakeDeduction(h) PROVE TypeOK'
  <2>1. /\ Available(plan[h].toDeduct) \in 0 .. OrderAmount
        /\ Available(plan[h].toDeduct) <= balance
    BY AvailableFacts
  <2>2. balance' \in Nat /\ taken' \in Int
    BY <1>6, <2>1 DEF TakeDeduction
  <2> QED
    BY <1>6, <2>1, <2>2 DEF TakeDeduction
<1>7. ASSUME NEW h \in Handlers, GatewayRefund(h) PROVE TypeOK'
  BY <1>7 DEF GatewayRefund, Answer
<1>8. ASSUME NEW h \in Handlers, MarkRefunded(h) PROVE TypeOK'
  <2>1. plan[h].amount \in 0 .. OrderAmount
    OBVIOUS
  <2>2. /\ balance' \in Nat /\ taken' \in Int /\ tradeNo' \in BOOLEAN
        /\ status' \in Status /\ refundAmount' \in 0 .. OrderAmount
    BY <1>8, <2>1 DEF MarkRefunded
  <2>3. /\ pc' \in [Handlers -> PC] /\ overtaken' \subseteq Handlers
        /\ plan' \in [Handlers -> [amount : 0 .. OrderAmount, toDeduct : 0 .. OrderAmount,
                                 restore : {"COMPLETED", "REFUND_REQUESTED"}]]
    <3>1. End(h)
      BY ONLY <1>8 DEF MarkRefunded
    <3> QED
      BY <3>1
  <2>4. audit' \subseteq {"ROLLBACK_FAILED", "SUCCESS"} /\ UNCHANGED <<pendingRow, gateway>>
    BY <1>8 DEF MarkRefunded
  <2>5. faults' \in 0 .. MaxFaults /\ happened' \subseteq FaultKinds
    <3>1. NoFault \/ Fault("db")
      BY ONLY <1>8 DEF MarkRefunded
    <3> QED
      BY <3>1
  <2> QED
    BY <2>2, <2>3, <2>4, <2>5
<1>9. ASSUME NEW h \in Handlers, RollbackRefund(h) PROVE TypeOK'
  BY <1>9 DEF RollbackRefund
<1>10. ASSUME NEW h \in Handlers, RestoreStatus(h) PROVE TypeOK'
  BY <1>10 DEF RestoreStatus
<1>11. ASSUME NEW h \in Handlers, MarkFailed(h) PROVE TypeOK'
  BY <1>11 DEF MarkFailed
<1>12. ASSUME NEW h \in Handlers, MarkRefundPending(h) PROVE TypeOK'
  BY <1>12 DEF MarkRefundPending
<1>13. ASSUME NEW h \in Handlers, AuditPending(h) PROVE TypeOK'
  BY <1>13 DEF AuditPending
<1>14. ASSUME NEW h \in Handlers, QueryRefund(h) PROVE TypeOK'
  BY <1>14 DEF QueryRefund
<1>15. ASSUME NEW h \in Handlers, AskGateway(h) PROVE TypeOK'
  <2>1. \/ \E amount \in {0, plan[h].amount} : GoDeducting(h, "finalize", amount)
        \/ Go(h, "finalizeFailed")
        \/ End(h)
    BY ONLY <1>15 DEF AskGateway
  <2>2. /\ pc' \in [Handlers -> PC] /\ overtaken' \subseteq Handlers
        /\ plan' \in [Handlers -> [amount : 0 .. OrderAmount, toDeduct : 0 .. OrderAmount,
                                 restore : {"COMPLETED", "REFUND_REQUESTED"}]]
    BY <2>1
  <2>3. faults' \in 0 .. MaxFaults /\ happened' \subseteq FaultKinds
    <3>1. NoFault \/ Fault("audit") \/ Fault("query")
      BY ONLY <1>15 DEF AskGateway, ReadsRow
    <3> QED
      BY <3>1
  <2> QED
    BY <2>2, <2>3, <1>15 DEF AskGateway
<1>16. ASSUME NEW h \in Handlers, FinalizeSuccess(h) PROVE TypeOK'
  <2>1. /\ Available(plan[h].toDeduct) \in 0 .. OrderAmount
        /\ Available(plan[h].toDeduct) <= balance
        /\ plan[h].amount \in 0 .. OrderAmount
    BY AvailableFacts
  <2>2. /\ balance' \in Nat /\ taken' \in Int /\ tradeNo' \in BOOLEAN
        /\ status' \in Status /\ refundAmount' \in 0 .. OrderAmount
    BY <1>16, <2>1 DEF FinalizeSuccess
  <2>3. /\ pc' \in [Handlers -> PC] /\ overtaken' \subseteq Handlers
        /\ plan' \in [Handlers -> [amount : 0 .. OrderAmount, toDeduct : 0 .. OrderAmount,
                                 restore : {"COMPLETED", "REFUND_REQUESTED"}]]
    <3>1. End(h)
      BY ONLY <1>16 DEF FinalizeSuccess
    <3> QED
      BY <3>1
  <2>4. audit' \subseteq {"ROLLBACK_FAILED", "SUCCESS"} /\ UNCHANGED <<pendingRow, gateway>>
    BY <1>16 DEF FinalizeSuccess
  <2>5. faults' \in 0 .. MaxFaults /\ happened' \subseteq FaultKinds
    <3>1. NoFault \/ Fault("db")
      BY ONLY <1>16 DEF FinalizeSuccess
    <3> QED
      BY <3>1
  <2> QED
    BY <2>2, <2>3, <2>4, <2>5
<1>17. ASSUME NEW h \in Handlers, FinalizeFailed(h) PROVE TypeOK'
  BY <1>17 DEF FinalizeFailed
<1>18. ASSUME NEW h \in Handlers, Crash(h) PROVE TypeOK'
  BY <1>18 DEF Crash
<1> QED
  BY ONLY Next, <1>1, <1>2, <1>3, <1>4, <1>5, <1>6, <1>7, <1>8, <1>9,
     <1>10, <1>11, <1>12, <1>13, <1>14, <1>15, <1>16, <1>17, <1>18
  DEF Next, Handle

\* Whoever works on the order asked for one of its amounts.
LEMMA AskedStep ==
    TypeOK /\ Asked /\ Next =>
        Asked'
<1> SUFFICES ASSUME TypeOK, Asked, Next
             PROVE  Asked'
  OBVIOUS
<1> USE AmountAssumption DEF TypeOK, Asked
<1>1. CASE RequestRefund
  BY <1>1 DEF RequestRefund
<1>2. CASE Spend
  BY <1>2 DEF Spend
<1>3. CASE GatewayDecides
  BY <1>3 DEF GatewayDecides
<1>4. ASSUME NEW h \in Handlers, PrepareRefund(h) PROVE Asked'
  BY <1>4 DEF PrepareRefund
<1>5. ASSUME NEW h \in Handlers, ExecuteRefund(h) PROVE Asked'
  BY <1>5 DEF ExecuteRefund
<1>6. ASSUME NEW h \in Handlers, TakeDeduction(h) PROVE Asked'
  BY <1>6 DEF TakeDeduction
<1>7. ASSUME NEW h \in Handlers, GatewayRefund(h) PROVE Asked'
  BY <1>7 DEF GatewayRefund, Answer
<1>8. ASSUME NEW h \in Handlers, MarkRefunded(h) PROVE Asked'
  BY <1>8 DEF MarkRefunded
<1>9. ASSUME NEW h \in Handlers, RollbackRefund(h) PROVE Asked'
  BY <1>9 DEF RollbackRefund
<1>10. ASSUME NEW h \in Handlers, RestoreStatus(h) PROVE Asked'
  BY <1>10 DEF RestoreStatus
<1>11. ASSUME NEW h \in Handlers, MarkFailed(h) PROVE Asked'
  BY <1>11 DEF MarkFailed
<1>12. ASSUME NEW h \in Handlers, MarkRefundPending(h) PROVE Asked'
  BY <1>12 DEF MarkRefundPending
<1>13. ASSUME NEW h \in Handlers, AuditPending(h) PROVE Asked'
  BY <1>13 DEF AuditPending
<1>14. ASSUME NEW h \in Handlers, QueryRefund(h) PROVE Asked'
  BY <1>14 DEF QueryRefund
<1>15. ASSUME NEW h \in Handlers, AskGateway(h) PROVE Asked'
  BY <1>15 DEF AskGateway, ReadsRow
<1>16. ASSUME NEW h \in Handlers, FinalizeSuccess(h) PROVE Asked'
  BY <1>16 DEF FinalizeSuccess
<1>17. ASSUME NEW h \in Handlers, FinalizeFailed(h) PROVE Asked'
  BY <1>17 DEF FinalizeFailed
<1>18. ASSUME NEW h \in Handlers, Crash(h) PROVE Asked'
  BY <1>18 DEF Crash
<1> QED
  BY ONLY Next, <1>1, <1>2, <1>3, <1>4, <1>5, <1>6, <1>7, <1>8, <1>9,
     <1>10, <1>11, <1>12, <1>13, <1>14, <1>15, <1>16, <1>17, <1>18
  DEF Next, Handle

\* A refund that was made stays made, and only its maker, or a query that was told
\* of it, marks the order.
LEMMA ReturnedStep ==
    TypeOK /\ Asked /\ Returned /\ Next =>
        Returned'
<1> SUFFICES ASSUME TypeOK, Asked, Returned, Next
             PROVE  Returned'
  OBVIOUS
<1> USE AmountAssumption DEF TypeOK, Asked, Returned, RefundedMeansReturned
<1>1. CASE RequestRefund
  BY <1>1 DEF RequestRefund
<1>2. CASE Spend
  BY <1>2 DEF Spend
<1>3. CASE GatewayDecides
  BY <1>3 DEF GatewayDecides
<1>4. ASSUME NEW h \in Handlers, PrepareRefund(h) PROVE Returned'
  BY <1>4 DEF PrepareRefund
<1>5. ASSUME NEW h \in Handlers, ExecuteRefund(h) PROVE Returned'
  BY <1>5 DEF ExecuteRefund
<1>6. ASSUME NEW h \in Handlers, TakeDeduction(h) PROVE Returned'
  BY <1>6 DEF TakeDeduction
<1>7. ASSUME NEW h \in Handlers, GatewayRefund(h) PROVE Returned'
  BY <1>7 DEF GatewayRefund, Answer
<1>8. ASSUME NEW h \in Handlers, MarkRefunded(h) PROVE Returned'
  BY <1>8 DEF MarkRefunded
<1>9. ASSUME NEW h \in Handlers, RollbackRefund(h) PROVE Returned'
  BY <1>9 DEF RollbackRefund
<1>10. ASSUME NEW h \in Handlers, RestoreStatus(h) PROVE Returned'
  BY <1>10 DEF RestoreStatus
<1>11. ASSUME NEW h \in Handlers, MarkFailed(h) PROVE Returned'
  BY <1>11 DEF MarkFailed
<1>12. ASSUME NEW h \in Handlers, MarkRefundPending(h) PROVE Returned'
  BY <1>12 DEF MarkRefundPending
<1>13. ASSUME NEW h \in Handlers, AuditPending(h) PROVE Returned'
  BY <1>13 DEF AuditPending
<1>14. ASSUME NEW h \in Handlers, QueryRefund(h) PROVE Returned'
  BY <1>14 DEF QueryRefund
<1>15. ASSUME NEW h \in Handlers, AskGateway(h) PROVE Returned'
  BY <1>15 DEF AskGateway, ReadsRow
<1>16. ASSUME NEW h \in Handlers, FinalizeSuccess(h) PROVE Returned'
  BY <1>16 DEF FinalizeSuccess
<1>17. ASSUME NEW h \in Handlers, FinalizeFailed(h) PROVE Returned'
  BY <1>17 DEF FinalizeFailed
<1>18. ASSUME NEW h \in Handlers, Crash(h) PROVE Returned'
  BY <1>18 DEF Crash
<1> QED
  BY ONLY Next, <1>1, <1>2, <1>3, <1>4, <1>5, <1>6, <1>7, <1>8, <1>9,
     <1>10, <1>11, <1>12, <1>13, <1>14, <1>15, <1>16, <1>17, <1>18
  DEF Next, Handle

\* A handler takes the order for itself, and the queries keep off an order that
\* is not REFUND_PENDING.
LEMMA AloneStep ==
    TypeOK /\ "staleQuery" \notin happened' /\ Alone /\ Next =>
        Alone' /\ (status = "REFUNDED" => status' = "REFUNDED")
<1> SUFFICES ASSUME TypeOK, "staleQuery" \notin happened', Alone, Next
             PROVE  Alone' /\ (status = "REFUNDED" => status' = "REFUNDED")
  OBVIOUS
<1> USE DEF TypeOK, Alone
<1>1. CASE RequestRefund
  BY <1>1 DEF RequestRefund
<1>2. CASE Spend
  BY <1>2 DEF Spend
<1>3. CASE GatewayDecides
  BY <1>3 DEF GatewayDecides
<1>4. ASSUME NEW h \in Handlers, PrepareRefund(h) PROVE Alone' /\ (status = "REFUNDED" => status' = "REFUNDED")
  BY <1>4 DEF PrepareRefund
<1>5. ASSUME NEW h \in Handlers, ExecuteRefund(h) PROVE Alone' /\ (status = "REFUNDED" => status' = "REFUNDED")
  BY <1>5 DEF ExecuteRefund
<1>6. ASSUME NEW h \in Handlers, TakeDeduction(h) PROVE Alone' /\ (status = "REFUNDED" => status' = "REFUNDED")
  BY <1>6 DEF TakeDeduction
<1>7. ASSUME NEW h \in Handlers, GatewayRefund(h) PROVE Alone' /\ (status = "REFUNDED" => status' = "REFUNDED")
  BY <1>7 DEF GatewayRefund, Answer
<1>8. ASSUME NEW h \in Handlers, MarkRefunded(h) PROVE Alone' /\ (status = "REFUNDED" => status' = "REFUNDED")
  BY <1>8 DEF MarkRefunded
<1>9. ASSUME NEW h \in Handlers, RollbackRefund(h) PROVE Alone' /\ (status = "REFUNDED" => status' = "REFUNDED")
  BY <1>9 DEF RollbackRefund
<1>10. ASSUME NEW h \in Handlers, RestoreStatus(h) PROVE Alone' /\ (status = "REFUNDED" => status' = "REFUNDED")
  BY <1>10 DEF RestoreStatus
<1>11. ASSUME NEW h \in Handlers, MarkFailed(h) PROVE Alone' /\ (status = "REFUNDED" => status' = "REFUNDED")
  BY <1>11 DEF MarkFailed
<1>12. ASSUME NEW h \in Handlers, MarkRefundPending(h) PROVE Alone' /\ (status = "REFUNDED" => status' = "REFUNDED")
  BY <1>12 DEF MarkRefundPending
<1>13. ASSUME NEW h \in Handlers, AuditPending(h) PROVE Alone' /\ (status = "REFUNDED" => status' = "REFUNDED")
  BY <1>13 DEF AuditPending
<1>14. ASSUME NEW h \in Handlers, QueryRefund(h) PROVE Alone' /\ (status = "REFUNDED" => status' = "REFUNDED")
  BY <1>14 DEF QueryRefund
<1>15. ASSUME NEW h \in Handlers, AskGateway(h) PROVE Alone' /\ (status = "REFUNDED" => status' = "REFUNDED")
  BY <1>15 DEF AskGateway, ReadsRow
<1>16. ASSUME NEW h \in Handlers, FinalizeSuccess(h) PROVE Alone' /\ (status = "REFUNDED" => status' = "REFUNDED")
  BY <1>16 DEF FinalizeSuccess
<1>17. ASSUME NEW h \in Handlers, FinalizeFailed(h) PROVE Alone' /\ (status = "REFUNDED" => status' = "REFUNDED")
  BY <1>17 DEF FinalizeFailed
<1>18. ASSUME NEW h \in Handlers, Crash(h) PROVE Alone' /\ (status = "REFUNDED" => status' = "REFUNDED")
  BY <1>18 DEF Crash
<1> QED
  BY ONLY Next, <1>1, <1>2, <1>3, <1>4, <1>5, <1>6, <1>7, <1>8, <1>9,
     <1>10, <1>11, <1>12, <1>13, <1>14, <1>15, <1>16, <1>17, <1>18
  DEF Next, Handle

\* As long as the rollbacks succeed, the one handler that executes accounts for
\* what was taken.
LEMMA AccountedStep ==
    TypeOK /\ Asked /\ "staleQuery" \notin happened' /\ Alone /\ Accounted /\ Next =>
        Accounted'
<1> SUFFICES ASSUME TypeOK, Asked, "staleQuery" \notin happened', Alone, Accounted, Next
             PROVE  Accounted'
  OBVIOUS
<1> USE AmountAssumption DEF TypeOK, Asked, Alone, Accounted, DeductedForRefund
<1>1. CASE RequestRefund
  BY <1>1 DEF RequestRefund
<1>2. CASE Spend
  BY <1>2 DEF Spend
<1>3. CASE GatewayDecides
  BY <1>3 DEF GatewayDecides
<1>4. ASSUME NEW h \in Handlers, PrepareRefund(h) PROVE Accounted'
  <2>1. PICK amount \in Amounts, deduct \in BOOLEAN :
           plan' = [plan EXCEPT ![h] =
               [amount   |-> amount,
                toDeduct |-> IF deduct THEN Available(amount) ELSE 0,
                restore  |-> IF status = "REFUND_REQUESTED" THEN status ELSE "COMPLETED"]]
    BY <1>4 DEF PrepareRefund
  <2>2. amount \in 1 .. OrderAmount /\ Available(amount) \in 0 .. amount
    BY AvailableFacts
  <2>3. /\ pc' = [pc EXCEPT ![h] = "lock"]
        /\ UNCHANGED <<order, money, rows, mishaps>>
    BY <1>4 DEF PrepareRefund
  <2>4. plan'[h].toDeduct <= plan'[h].amount
    BY <2>1, <2>2
  <2>5. \A x \in Handlers \ {h} : plan'[x] = plan[x]
    BY <2>1
  <2> QED
    BY <2>3, <2>4, <2>5
<1>5. ASSUME NEW h \in Handlers, ExecuteRefund(h) PROVE Accounted'
  BY <1>5 DEF ExecuteRefund
<1>6. ASSUME NEW h \in Handlers, TakeDeduction(h) PROVE Accounted'
  <2>1. Available(plan[h].toDeduct) \in 0 .. plan[h].toDeduct
    BY AvailableFacts
  <2>2. CASE "rollback" \in happened
    BY <1>6, <2>2 DEF TakeDeduction
  <2>3. CASE "rollback" \notin happened
    <3>1. taken = 0 /\ "ROLLBACK_FAILED" \notin audit /\ plan[h].toDeduct <= plan[h].amount
      BY <1>6, <2>3 DEF TakeDeduction
    <3>2. \/ pc'[h] = "gateway" /\ taken' = plan'[h].toDeduct /\ plan'[h].toDeduct <= plan'[h].amount
          \/ pc'[h] = "restore" /\ taken' = 0 /\ plan'[h].toDeduct <= plan'[h].amount
      BY <1>6, <2>1, <3>1 DEF TakeDeduction
    <3>3. \A x \in Handlers \ {h} : pc'[x] = pc[x] /\ plan'[x] = plan[x]
      BY <1>6 DEF TakeDeduction
    <3>4. UNCHANGED <<order, audit>> /\ happened \subseteq happened'
      BY <1>6 DEF TakeDeduction
    <3>5. taken' \in 0 .. OrderAmount
      <4>1. /\ plan[h].amount \in 0 .. OrderAmount /\ plan'[h].amount = plan[h].amount
            /\ plan[h].toDeduct >= 0
        BY <1>6 DEF TakeDeduction
      <4> QED
        BY <1>6, <2>1, <3>1, <4>1 DEF TakeDeduction
    <3> QED
      BY <1>6, <2>3, <3>1, <3>2, <3>3, <3>4, <3>5 DEF TakeDeduction
  <2> QED
    BY <2>2, <2>3
<1>7. ASSUME NEW h \in Handlers, GatewayRefund(h) PROVE Accounted'
  BY <1>7 DEF GatewayRefund, Answer
<1>8. ASSUME NEW h \in Handlers, MarkRefunded(h) PROVE Accounted'
  BY <1>8 DEF MarkRefunded
<1>9. ASSUME NEW h \in Handlers, RollbackRefund(h) PROVE Accounted'
  <2>1. CASE "rollback" \in happened'
    BY <1>9, <2>1 DEF RollbackRefund
  <2>2. CASE "rollback" \notin happened'
    <3>1. /\ GiveBack(plan[h].toDeduct)
          /\ GoDeducting(h, IF pc[h] = "refused" THEN "restore" ELSE "markPending", 0)
          /\ UNCHANGED <<order, rows, happened>>
      BY <1>9, <2>2 DEF RollbackRefund
    <3>2. taken' = 0 /\ pc'[h] \in {"restore", "markPending"} /\ plan'[h].toDeduct = 0
      BY <1>9, <2>2, <3>1 DEF RollbackRefund
    <3>3. \A x \in Handlers \ {h} : pc'[x] = pc[x] /\ plan'[x] = plan[x]
      BY <1>9, <3>1
    <3>4. plan'[h].amount = plan[h].amount /\ plan[h].amount >= 0
      BY <1>9, <3>1
    <3> QED
      BY <1>9, <2>2, <3>1, <3>2, <3>3, <3>4 DEF RollbackRefund
  <2> QED
    BY <2>1, <2>2
<1>10. ASSUME NEW h \in Handlers, RestoreStatus(h) PROVE Accounted'
  BY <1>10 DEF RestoreStatus
<1>11. ASSUME NEW h \in Handlers, MarkFailed(h) PROVE Accounted'
  BY <1>11 DEF MarkFailed
<1>12. ASSUME NEW h \in Handlers, MarkRefundPending(h) PROVE Accounted'
  BY <1>12 DEF MarkRefundPending
<1>13. ASSUME NEW h \in Handlers, AuditPending(h) PROVE Accounted'
  BY <1>13 DEF AuditPending
<1>14. ASSUME NEW h \in Handlers, QueryRefund(h) PROVE Accounted'
  BY <1>14 DEF QueryRefund
<1>15. ASSUME NEW h \in Handlers, AskGateway(h) PROVE Accounted'
  BY <1>15 DEF AskGateway, ReadsRow
<1>16. ASSUME NEW h \in Handlers, FinalizeSuccess(h) PROVE Accounted'
  <2>1. Available(plan[h].toDeduct) \in 0 .. plan[h].toDeduct
    BY AvailableFacts
  <2>2. taken' = 0 \/ UNCHANGED taken \/ status = "REFUND_PENDING"
    BY <1>16 DEF FinalizeSuccess
  <2> QED
    BY <1>16, <2>1, <2>2 DEF FinalizeSuccess
<1>17. ASSUME NEW h \in Handlers, FinalizeFailed(h) PROVE Accounted'
  BY <1>17 DEF FinalizeFailed
<1>18. ASSUME NEW h \in Handlers, Crash(h) PROVE Accounted'
  <2>1. End(h) /\ UNCHANGED <<order, money, rows>> /\ happened \subseteq happened'
    BY ONLY <1>18 DEF Crash
  <2> QED
    BY <2>1
<1> QED
  BY ONLY Next, <1>1, <1>2, <1>3, <1>4, <1>5, <1>6, <1>7, <1>8, <1>9,
     <1>10, <1>11, <1>12, <1>13, <1>14, <1>15, <1>16, <1>17, <1>18
  DEF Next, Handle

\* An execution begins with a note of the queries under way, and a query only on an
\* order that nobody executes on.
LEMMA AttendedStep ==
    TypeOK /\ "staleQuery" \notin happened' /\ Alone /\ Attended /\ Next =>
        Attended'
<1> SUFFICES ASSUME TypeOK, "staleQuery" \notin happened', Alone, Attended, Next
             PROVE  Attended'
  OBVIOUS
<1> USE DEF TypeOK, Alone, Attended
<1>1. CASE RequestRefund
  BY <1>1 DEF RequestRefund
<1>2. CASE Spend
  BY <1>2 DEF Spend
<1>3. CASE GatewayDecides
  BY <1>3 DEF GatewayDecides
<1>4. ASSUME NEW h \in Handlers, PrepareRefund(h) PROVE Attended'
  BY <1>4 DEF PrepareRefund
<1>5. ASSUME NEW h \in Handlers, ExecuteRefund(h) PROVE Attended'
  BY <1>5 DEF ExecuteRefund
<1>6. ASSUME NEW h \in Handlers, TakeDeduction(h) PROVE Attended'
  BY <1>6 DEF TakeDeduction
<1>7. ASSUME NEW h \in Handlers, GatewayRefund(h) PROVE Attended'
  BY <1>7 DEF GatewayRefund, Answer
<1>8. ASSUME NEW h \in Handlers, MarkRefunded(h) PROVE Attended'
  BY <1>8 DEF MarkRefunded
<1>9. ASSUME NEW h \in Handlers, RollbackRefund(h) PROVE Attended'
  BY <1>9 DEF RollbackRefund
<1>10. ASSUME NEW h \in Handlers, RestoreStatus(h) PROVE Attended'
  BY <1>10 DEF RestoreStatus
<1>11. ASSUME NEW h \in Handlers, MarkFailed(h) PROVE Attended'
  BY <1>11 DEF MarkFailed
<1>12. ASSUME NEW h \in Handlers, MarkRefundPending(h) PROVE Attended'
  BY <1>12 DEF MarkRefundPending
<1>13. ASSUME NEW h \in Handlers, AuditPending(h) PROVE Attended'
  BY <1>13 DEF AuditPending
<1>14. ASSUME NEW h \in Handlers, QueryRefund(h) PROVE Attended'
  BY <1>14 DEF QueryRefund
<1>15. ASSUME NEW h \in Handlers, AskGateway(h) PROVE Attended'
  BY <1>15 DEF AskGateway, ReadsRow
<1>16. ASSUME NEW h \in Handlers, FinalizeSuccess(h) PROVE Attended'
  BY <1>16 DEF FinalizeSuccess
<1>17. ASSUME NEW h \in Handlers, FinalizeFailed(h) PROVE Attended'
  BY <1>17 DEF FinalizeFailed
<1>18. ASSUME NEW h \in Handlers, Crash(h) PROVE Attended'
  BY <1>18 DEF Crash
<1> QED
  BY ONLY Next, <1>1, <1>2, <1>3, <1>4, <1>5, <1>6, <1>7, <1>8, <1>9,
     <1>10, <1>11, <1>12, <1>13, <1>14, <1>15, <1>16, <1>17, <1>18
  DEF Next, Handle

\* While one amount is asked for, the order is taken back only on the gateway's
\* refusal, and nobody asks again before it is.
LEMMA RememberedStep ==
    TypeOK /\ Asked /\ "staleQuery" \notin happened' /\ Alone /\ Attended /\ Remembered /\ Next =>
        Remembered'
<1> SUFFICES ASSUME TypeOK, Asked, "staleQuery" \notin happened', Alone, Attended, Remembered, Next
             PROVE  Remembered'
  OBVIOUS
<1> USE DEF TypeOK, Asked, Alone, Attended, Remembered, OneAsked, NotUnderWay
<1>1. CASE RequestRefund
  BY <1>1 DEF RequestRefund
<1>2. CASE Spend
  BY <1>2 DEF Spend
<1>3. CASE GatewayDecides
  BY <1>3 DEF GatewayDecides
<1>4. ASSUME NEW h \in Handlers, PrepareRefund(h) PROVE Remembered'
  BY <1>4 DEF PrepareRefund
<1>5. ASSUME NEW h \in Handlers, ExecuteRefund(h) PROVE Remembered'
  BY <1>5 DEF ExecuteRefund
<1>6. ASSUME NEW h \in Handlers, TakeDeduction(h) PROVE Remembered'
  <2>1. UNCHANGED <<order, gateway, overtaken>> /\ happened \subseteq happened'
    BY <1>6 DEF TakeDeduction
  <2>2. "deduct" \in happened' \/ pc' = [pc EXCEPT ![h] = "gateway"]
    BY <1>6 DEF TakeDeduction
  <2> QED
    BY <2>1, <2>2
<1>7. ASSUME NEW h \in Handlers, GatewayRefund(h) PROVE Remembered'
  <2> SUFFICES ASSUME OneAsked', happened' \cap {"gateway", "lost", "deduct"} = {}
               PROVE  /\ status' \in {"REFUNDING", "REFUND_PENDING", "REFUNDED"}
                      /\ \A x \in Handlers :
                            \/ pc'[x] \in {"refused", "restore", "fail"}
                            \/ pc'[x] = "finalizeFailed" /\ x \notin overtaken'
                            => NotUnderWay'
    OBVIOUS
  <2>1. /\ pc[h] = "gateway" /\ plan[h].amount \in Amounts
        /\ UNCHANGED <<order, plan, overtaken>>
    BY <1>7 DEF GatewayRefund
  <2>2. status' = "REFUNDING"
    BY <2>1
  <2>3. \A x \in Handlers \ {h} :
           /\ pc'[x] = pc[x]
           /\ pc[x] \notin {"refused", "restore", "fail"}
           /\ pc[x] = "finalizeFailed" => x \in overtaken
    BY <1>7, <2>1 DEF GatewayRefund
  <2>4. \/ pc'[h] \in {"refunded", "pending"}
        \/ pc'[h] = "refused" /\ gateway'[plan[h].amount] = "failed"
    <3>1. happened' # happened \cup {"gateway"} /\ happened' # happened \cup {"lost"}
      BY <2>1
    <3>2. /\ ~ Fault("gateway") /\ ~ Fault("lost")
      BY <3>1 DEF Fault
    <3>3. CASE ~ tradeNo
      BY <1>7, <3>2, <3>3 DEF GatewayRefund
    <3>4. CASE tradeNo /\ gateway[plan[h].amount] \in {"none", "failed"}
      <4>1. PICK s \in {"pending", "done", "failed"} :
               /\ gateway' = [gateway EXCEPT ![plan[h].amount] = s]
               /\ Go(h, Answer(s))
        BY <1>7, <3>2, <3>4 DEF GatewayRefund
      <4> QED
        BY <2>1, <4>1 DEF Answer
    <3>5. CASE tradeNo /\ gateway[plan[h].amount] \in {"pending", "done"}
      BY <1>7, <3>2, <3>5 DEF GatewayRefund, Answer
    <3>6. gateway[plan[h].amount] \in {"none", "failed", "pending", "done"}
      BY <2>1 DEF GatewayStatus
    <3> QED
      BY <3>3, <3>4, <3>5, <3>6
  <2>5. pc'[h] = "refused" => NotUnderWay'
    BY <2>1, <2>4
  <2> QED
    BY <2>1, <2>2, <2>3, <2>4, <2>5
<1>8. ASSUME NEW h \in Handlers, MarkRefunded(h) PROVE Remembered'
  BY <1>8 DEF MarkRefunded
<1>9. ASSUME NEW h \in Handlers, RollbackRefund(h) PROVE Remembered'
  BY <1>9 DEF RollbackRefund
<1>10. ASSUME NEW h \in Handlers, RestoreStatus(h) PROVE Remembered'
  BY <1>10 DEF RestoreStatus
<1>11. ASSUME NEW h \in Handlers, MarkFailed(h) PROVE Remembered'
  BY <1>11 DEF MarkFailed
<1>12. ASSUME NEW h \in Handlers, MarkRefundPending(h) PROVE Remembered'
  BY <1>12 DEF MarkRefundPending
<1>13. ASSUME NEW h \in Handlers, AuditPending(h) PROVE Remembered'
  BY <1>13 DEF AuditPending
<1>14. ASSUME NEW h \in Handlers, QueryRefund(h) PROVE Remembered'
  BY <1>14 DEF QueryRefund
<1>15. ASSUME NEW h \in Handlers, AskGateway(h) PROVE Remembered'
  BY <1>15 DEF AskGateway, ReadsRow
<1>16. ASSUME NEW h \in Handlers, FinalizeSuccess(h) PROVE Remembered'
  BY <1>16 DEF FinalizeSuccess
<1>17. ASSUME NEW h \in Handlers, FinalizeFailed(h) PROVE Remembered'
  BY <1>17 DEF FinalizeFailed
<1>18. ASSUME NEW h \in Handlers, Crash(h) PROVE Remembered'
  BY <1>18 DEF Crash
<1> QED
  BY ONLY Next, <1>1, <1>2, <1>3, <1>4, <1>5, <1>6, <1>7, <1>8, <1>9,
     <1>10, <1>11, <1>12, <1>13, <1>14, <1>15, <1>16, <1>17, <1>18
  DEF Next, Handle

\* No kind of fault is forgotten.
LEMMA HappenedGrows == Next => happened \subseteq happened'
  BY DEF Next, Handle, RequestRefund, Spend, GatewayDecides, PrepareRefund, ExecuteRefund,
     TakeDeduction, GatewayRefund, MarkRefunded, RollbackRefund, RestoreStatus, MarkFailed,
     MarkRefundPending, AuditPending, QueryRefund, ReadsRow, AskGateway, FinalizeSuccess,
     FinalizeFailed, Crash

\* The inductive invariant is kept by every step, and by stuttering.
LEMMA IInvStep == IInv /\ [Next]_vars => IInv'
<1>1. IInv /\ Next => IInv'
  BY ONLY TypeStep, AskedStep, ReturnedStep DEF IInv
<1>2. IInv /\ UNCHANGED vars => IInv'
  BY DEF IInv, TypeOK, Asked, Returned, RefundedMeansReturned, vars
<1> QED
  BY ONLY <1>1, <1>2

\* So is what holds as long as no query was overtaken.
LEMMA OrderlyStep ==
    IInv /\ Orderly /\ [Next]_vars =>
        Orderly' /\ ("staleQuery" \notin happened' /\ status = "REFUNDED" => status' = "REFUNDED")
<1>1. CASE "staleQuery" \in happened'
  BY ONLY <1>1 DEF Orderly
<1>2. ASSUME IInv, Orderly, Next, "staleQuery" \notin happened'
      PROVE  Orderly' /\ (status = "REFUNDED" => status' = "REFUNDED")
  <2>1. happened \subseteq happened'
    BY <1>2, HappenedGrows
  <2>2. Alone /\ Accounted
    BY ONLY <1>2, <2>1 DEF Orderly
  <2> QED
    BY ONLY <1>2, <2>2, AloneStep, AccountedStep DEF IInv, Orderly
<1>3. ASSUME IInv, Orderly, UNCHANGED vars
      PROVE  Orderly' /\ (status = "REFUNDED" => status' = "REFUNDED")
  BY <1>3 DEF Orderly, Alone, Accounted, DeductedForRefund, vars
<1> QED
  BY ONLY <1>1, <1>2, <1>3

\* And what the gateway was asked.
LEMMA AttentiveStep ==
    IInv /\ Orderly /\ Attentive /\ [Next]_vars => Attentive'
<1>1. CASE "staleQuery" \in happened'
  BY ONLY <1>1 DEF Attentive
<1>2. ASSUME IInv, Orderly, Attentive, Next, "staleQuery" \notin happened'
      PROVE  Attentive'
  <2>1. happened \subseteq happened'
    BY <1>2, HappenedGrows
  <2>2. Alone /\ Attended /\ Remembered
    BY ONLY <1>2, <2>1 DEF Orderly, Attentive
  <2> QED
    BY ONLY <1>2, <2>2, AttendedStep, RememberedStep DEF IInv, Attentive
<1>3. ASSUME Attentive, UNCHANGED vars PROVE Attentive'
  BY <1>3 DEF Attentive, Attended, Remembered, OneAsked, NotUnderWay, vars
<1> QED
  BY ONLY <1>1, <1>2, <1>3

\* A completed order that nobody asked to refund starts with all of them.
LEMMA InitInv == Init => IInv /\ Orderly /\ Attentive
  BY AmountAssumption DEF Init, IInv, TypeOK, Asked, Returned, RefundedMeansReturned,
     Orderly, Alone, Accounted, DeductedForRefund, Attentive, Attended, Remembered,
     NotUnderWay

-----------------------------------------------------------------------------
\* They hold in every reachable state of the refund.
LEMMA Invariance == Spec => [](IInv /\ Orderly /\ Attentive)
<1>1. IInv /\ Orderly /\ Attentive /\ [Next]_vars => (IInv /\ Orderly /\ Attentive)'
  BY ONLY IInvStep, OrderlyStep, AttentiveStep
<1> QED
  BY InitInv, <1>1, PTL DEF Spec

\* Types of the order, the balance, the gateway and the plans.
THEOREM TypeCorrect == Spec => []TypeOK
<1>1. IInv => TypeOK
  BY DEF IInv
<1> QED
  BY Invariance, <1>1, PTL

\* However many administrators refund and query one order, and wherever they
\* crash: unless a rollback failed or a query was overtaken, the user keeps the
\* whole balance of an order that is not refunded, and pays for a refund at
\* most what it returned.
THEOREM Deducted == Spec => []DeductedForRefund
<1>1. IInv /\ Orderly => DeductedForRefund
  BY DEF Orderly, Accounted, DeductedForRefund
<1> QED
  BY Invariance, <1>1, PTL

\* Nor does a refund ever take more than the order's amount, whoever retries it and
\* wherever its handlers crash: what breaks DeductedOnce is a rollback that failed,
\* or a query that was overtaken.
THEOREM TakenOnce ==
    Spec => [](happened \cap {"rollback", "staleQuery"} = {} => DeductedOnce)
<1>1. IInv /\ Orderly => (happened \cap {"rollback", "staleQuery"} = {} => DeductedOnce)
  BY DEF Orderly, Accounted, DeductedOnce
<1> QED
  BY Invariance, <1>1, PTL

\* No order is marked as refunded without a refund at the gateway.
THEOREM ReturnedFirst == Spec => []RefundedMeansReturned
<1>1. IInv => RefundedMeansReturned
  BY DEF IInv, Returned
<1> QED
  BY Invariance, <1>1, PTL

\* A refund that the gateway made is not forgotten, whoever crashes or executes beside:
\* unless a failed call was taken for a refusal, a deduction failed, a query was
\* overtaken, or two amounts were asked for, the order does not return to a status
\* that denies the refund.
THEOREM NotForgotten == Spec => []ReturnedIsRemembered
<1>1. IInv /\ Orderly /\ Attentive => ReturnedIsRemembered
  BY DEF Attentive, Remembered, OneAsked, NotUnderWay, ReturnedIsRemembered
<1> QED
  BY Invariance, <1>1, PTL

\* A refunded order stays refunded, unless a query is overtaken.
THEOREM Final == Spec => RefundedIsFinal
<1>1. IInv /\ Orderly /\ [Next]_vars =>
          [status = "REFUNDED" /\ "staleQuery" \notin happened' => status' = "REFUNDED"]_vars
  BY ONLY OrderlyStep
<1> QED
  BY Invariance, <1>1, PTL DEF Spec, RefundedIsFinal

=============================================================================
