------------------------------ MODULE JobQueue ------------------------------
(***************************************************************************)
(* What the batch image queue promises to the code around it, and what     *)
(* BatchImage assumes of its variable "queue": a set of pending jobs, with *)
(* one claim per job that keeps producers from adding it twice.  A job     *)
(* leaves the set only through an acknowledgement, so it is delivered at   *)
(* least once; a claimed job is always pending.                            *)
(***************************************************************************)
CONSTANT Jobs

VARIABLES
    pending,   \* jobs some worker will still get
    claimed    \* jobs that Enqueue refuses

vars == <<pending, claimed>>

Init ==
    /\ pending = {}
    /\ claimed = {}

\* Enqueue answers ErrBatchImageAlreadyQueued for a claimed job.
Enqueue(b) ==
    /\ b \notin claimed
    /\ pending' = pending \union {b}
    /\ claimed' = claimed \union {b}

\* A straggler puts back a job that was acknowledged.
PutBack(b) ==
    /\ pending' = pending \union {b}
    /\ UNCHANGED claimed

\* A second copy of the job may survive its acknowledgement.
Ack(b) ==
    /\ pending' \in {pending, pending \ {b}}
    /\ claimed' = claimed \ {b}

\* The claim has a time to live.
ClaimExpires(b) ==
    /\ claimed' = claimed \ {b}
    /\ UNCHANGED pending

Next == \E b \in Jobs : Enqueue(b) \/ PutBack(b) \/ Ack(b) \/ ClaimExpires(b)

Spec == Init /\ [][Next]_vars

=============================================================================
