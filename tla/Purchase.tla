------------------------------ MODULE Purchase ------------------------------
(***************************************************************************)
(* What a payment order promises: a payment is credited once, its invite   *)
(* rebate is accrued once, and only then the order is done, for good.      *)
(***************************************************************************)
EXTENDS Naturals

VARIABLES
    paid,      \* the provider has the user's money
    credits,   \* balance credits or subscription assignments so far
    rebates,   \* rebate decisions so far
    done       \* the order is completed

vars == <<paid, credits, rebates, done>>

Init ==
    /\ paid = FALSE
    /\ credits = 0
    /\ rebates = 0
    /\ done = FALSE

Pay ==
    /\ paid' = TRUE
    /\ UNCHANGED <<credits, rebates, done>>

Credit ==
    /\ paid
    /\ credits = 0
    /\ credits' = 1
    /\ UNCHANGED <<paid, rebates, done>>

Rebate ==
    /\ credits = 1
    /\ rebates = 0
    /\ rebates' = 1
    /\ UNCHANGED <<paid, credits, done>>

Finish ==
    /\ rebates = 1
    /\ done' = TRUE
    /\ UNCHANGED <<paid, credits, rebates>>

Next == Pay \/ Credit \/ Rebate \/ Finish

Spec == Init /\ [][Next]_vars

=============================================================================
