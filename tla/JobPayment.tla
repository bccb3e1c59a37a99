----------------------------- MODULE JobPayment -----------------------------
(***************************************************************************)
(* What the billing of batch image jobs promises to their owners.  A job   *)
(* freezes its hold once, if the balance covers it.  Then it is either     *)
(* charged, once, at most the hold, and the owner has the rest back, or    *)
(* the whole hold is returned; never both.                                 *)
(***************************************************************************)
EXTENDS Integers

CONSTANTS Jobs, Users, Owner, Hold, Balances

VARIABLES
    balance,   \* what the users may spend
    fate,      \* what became of the hold of each job
    charged    \* what each job has cost so far

vars == <<balance, fate, charged>>

Fates == {"none", "held", "charged", "returned"}

Init ==
    /\ balance \in Balances
    /\ fate = [b \in Jobs |-> "none"]
    /\ charged = [b \in Jobs |-> 0]

\* The hold of a job takes its next fate, and the owner gets the amount.
Turn(b, from, to, amount) ==
    /\ fate[b] = from
    /\ fate' = [fate EXCEPT ![b] = to]
    /\ balance' = [balance EXCEPT ![Owner[b]] = @ + amount]

Freeze(b) ==
    /\ balance[Owner[b]] >= Hold[b]
    /\ Turn(b, "none", "held", - Hold[b])
    /\ UNCHANGED charged

Charge(b) ==
    \E cost \in 0 .. Hold[b] :
        /\ Turn(b, "held", "charged", Hold[b] - cost)
        /\ charged' = [charged EXCEPT ![b] = cost]

Return(b) ==
    /\ Turn(b, "held", "returned", Hold[b])
    /\ UNCHANGED charged

Next == \E b \in Jobs : Freeze(b) \/ Charge(b) \/ Return(b)

Spec == Init /\ [][Next]_vars

=============================================================================
