------------------------- MODULE MCConcurrencySlots -------------------------
(* Two requests and two live calls of one user, in two processes.            *)
EXTENDS ConcurrencySlots, TLC

CONSTANTS r1, r2, c1, c2, p1, p2, u1, a1

MCProcessOf == r1 :> p1 @@ r2 :> p2 @@ c1 :> p2 @@ c2 :> p1
MCUserOf == [r \in Requests |-> u1]
MCLimit == u1 :> 3 @@ a1 :> 2
MCWaitLimits == u1 :> {1} @@ a1 :> {1}

=============================================================================
