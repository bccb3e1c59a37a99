-------------------------- MODULE ConcurrencySlots --------------------------
(***************************************************************************)
(* The limits on concurrent requests (concurrency_cache.go): slots of      *)
(* users and accounts, the counters of those who wait for one, and the     *)
(* leases of live calls; with the requests that take them (gateway_helper, *)
(* gateway_handler.go), the live calls (openai_live.go) and the sweep of   *)
(* a process that starts.  Several processes serve; what they share is in  *)
(* Redis, and every script is one step.                                    *)
(*                                                                         *)
(* A pool is a user or an account.  Its slots are one sorted set, members  *)
(* nobody will ever remove (ghosts) and leases nobody will refresh         *)
(* (strays) count like the others until their time is over.  A refresh of  *)
(* a lease changes nothing here: it only keeps its time from running out.  *)
(*                                                                         *)
(* Kinds of fault:                                                         *)
(*    redis      a command fails or its answer is lost                     *)
(*    failOpen   the counter of waiters cannot be incremented, and the     *)
(*               request waits uncounted                                   *)
(*    crash      a process dies and starts again, perhaps with a sweep that*)
(*               an error ends                                             *)
(*    outlive    a request outlives the time to live of its slot           *)
(*    stall      a lease is not refreshed in time                          *)
(* and, which is no fault,                                                 *)
(*    purge      a process that starts sweeps away the slots or the        *)
(*               counter of requests that others are serving               *)
(***************************************************************************)
EXTENDS Naturals, FiniteSets

CONSTANTS
    Requests,      \* requests, those for live calls included
    Calls,         \* the requests for live calls
    Processes,
    ProcessOf,     \* the process that serves each request
    Users,
    UserOf,        \* the user of each request
    Accounts,
    NoAccount,
    Limit,         \* concurrency of each user and account
    WaitLimits,    \* the queue limits in use for each: sticky and fallback
    FaultKinds,    \* the kinds of fault that may happen
    MaxFaults      \* bound on the number of faults

VARIABLES
    slots,      \* requests with a slot of each pool
    ghosts,     \* number of slots of each pool whose release is never called
    live,       \* calls with a lease on each pool
    strays,     \* number of leases on each pool that nobody refreshes
    waits,      \* counter of waiters of each pool
    pc,         \* where each request is
    on,         \* the account it is about
    excluded,   \* accounts that have failed it
    unswept,    \* the pools that a starting process has still to sweep
    faults,     \* number of faults
    happened    \* history: what happened of the kinds above

store    == <<slots, ghosts, live, strays, waits>>
requests == <<pc, on, excluded>>
mishaps  == <<faults, happened>>
vars == <<store, requests, unswept, mishaps>>

Pools == Users \cup Accounts

ASSUME PoolsAssumption ==
    /\ IsFiniteSet(Requests)
    /\ Calls \subseteq Requests
    /\ ProcessOf \in [Requests -> Processes]
    /\ UserOf \in [Requests -> Users]
    /\ Users \cap Accounts = {}
    /\ NoAccount \notin Pools

ASSUME LimitsAssumption ==
    /\ Limit \in [Pools -> Nat \ {0}]
    /\ WaitLimits \in [Pools -> (SUBSET Nat) \ {{}}]
    /\ MaxFaults \in Nat

Kinds == {"redis", "failOpen", "crash", "outlive", "stall"}

\* A request waits for a slot of its user until it has one, then of an account.
Queued == {"waiting", "admitted", "leaving"}
\* A live call on its way from the lease to its end.
Leased == {"creating", "created", "failed", "unsaved", "answering", "session", "ending"}
PCs == {"start", "selecting", "full", "working", "draining", "leasing", "refused",
        "closing", "ended"} \cup Queued \cup Leased

TypeOK ==
    /\ slots \in [Pools -> SUBSET Requests]
    /\ ghosts \in [Pools -> Nat]
    /\ live \in [Pools -> SUBSET Calls]
    /\ strays \in [Pools -> Nat]
    /\ waits \in [Pools -> Nat]
    /\ pc \in [Requests -> PCs]
    /\ on \in [Requests -> Accounts \cup {NoAccount}]
    /\ excluded \in [Requests -> SUBSET Accounts]
    /\ unswept \in [Processes -> SUBSET Pools]
    /\ faults \in 0 .. MaxFaults
    /\ happened \subseteq Kinds \cup {"purge"}

Init ==
    /\ slots = [s \in Pools |-> {}]
    /\ ghosts = [s \in Pools |-> 0]
    /\ live = [s \in Pools |-> {}]
    /\ strays = [s \in Pools |-> 0]
    /\ waits = [s \in Pools |-> 0]
    /\ pc = [r \in Requests |-> "start"]
    /\ on = [r \in Requests |-> NoAccount]
    /\ excluded = [r \in Requests |-> {}]
    /\ unswept = [p \in Processes |-> {}]
    /\ faults = 0
    /\ happened = {}

-----------------------------------------------------------------------------
NoFault == UNCHANGED mishaps

Fault(k) ==
    /\ k \in FaultKinds \cap Kinds
    /\ faults < MaxFaults
    /\ faults' = faults + 1
    /\ happened' = happened \cup {k}

Goto(r, l) == pc' = [pc EXCEPT ![r] = l]

\* The pool a request is about.
Pool(r) == IF on[r] = NoAccount THEN UserOf[r] ELSE on[r]

\* The pools a live call has its lease on.
CallPools(r) == {UserOf[r], on[r]}

\* Mutant: leases are forgotten.
LoadOfSlots(s) == Cardinality(slots[s]) + ghosts[s]

\* What the scripts count.
Load(s) == Cardinality(slots[s]) + ghosts[s] + Cardinality(live[s]) + strays[s]

\* acquireScript; a failed command may have been executed, and then its slot is
\* released by nobody.
Acquire(s, r) ==
    /\ Load(s) < Limit[s]
    /\ slots' = [slots EXCEPT ![s] = @ \cup {r}]
    /\ UNCHANGED ghosts
    /\ NoFault

Full(s) ==
    /\ Load(s) >= Limit[s]
    /\ UNCHANGED <<slots, ghosts>>
    /\ NoFault

AcquireFails(s) ==
    /\ \E done \in {0, 1} :
          /\ done = 1 => Load(s) < Limit[s]
          /\ ghosts' = [ghosts EXCEPT ![s] = @ + done]
    /\ UNCHANGED slots
    /\ Fault("redis")

\* The release function of a slot: its errors are logged, no more.
Release(s, r) ==
    /\ slots' = [slots EXCEPT ![s] = @ \ {r}]
    /\ \/ UNCHANGED ghosts /\ NoFault
       \/ /\ r \in slots[s]
          /\ ghosts' = [ghosts EXCEPT ![s] = @ + 1]
          /\ Fault("redis")

-----------------------------------------------------------------------------
(* The user's slot: acquireUserSlotWithWaitTimeout, the first try of Live.   *)

TryUser(r) ==
    /\ pc[r] = "start"
    /\ unswept[ProcessOf[r]] = {}
    /\ \/ Acquire(UserOf[r], r) /\ Goto(r, "selecting")
       \/ Full(UserOf[r]) /\ Goto(r, IF r \in Calls THEN "ended" ELSE "full")
       \/ AcquireFails(UserOf[r]) /\ Goto(r, "ended")
    /\ UNCHANGED <<live, strays, waits, on, excluded, unswept>>

\* Selection tries accounts that have not failed the request; an error makes it
\* try the next.
SelectAccount(r, a) ==
    /\ pc[r] = "selecting"
    /\ a \notin excluded[r]
    /\ \/ /\ Acquire(a, r)
          /\ Goto(r, IF r \in Calls THEN "leasing" ELSE "working")
          /\ on' = [on EXCEPT ![r] = a]
       \/ AcquireFails(a) /\ UNCHANGED <<pc, on>>
    /\ UNCHANGED <<live, strays, waits, excluded, unswept>>

\* By loads that may be old, none is free: the request shall wait for this one.
PlanWait(r, a) ==
    /\ pc[r] = "selecting"
    /\ r \notin Calls
    /\ a \notin excluded[r]
    /\ Goto(r, "full")
    /\ on' = [on EXCEPT ![r] = a]
    /\ UNCHANGED <<store, excluded, unswept, mishaps>>

\* It is over before that: no account, no balance, the client gone.
SelectFails(r) ==
    /\ pc[r] = "selecting"
    /\ Goto(r, "closing")
    /\ UNCHANGED <<store, on, excluded, unswept, mishaps>>

-----------------------------------------------------------------------------
(* The queue of a pool: increment, wait, decrement.                          *)

\* Mutant: one more than the limit may wait.
JoinsLate(s) ==
    \/ /\ \E max \in WaitLimits[s] : waits[s] <= max
       /\ waits' = [waits EXCEPT ![s] = @ + 1]
       /\ NoFault
    \/ UNCHANGED waits /\ Fault("failOpen")

\* incrementWaitScript; after an error the request waits all the same.
Joins(s) ==
    \/ /\ \E max \in WaitLimits[s] : waits[s] < max
       /\ waits' = [waits EXCEPT ![s] = @ + 1]
       /\ NoFault
    \/ UNCHANGED waits /\ Fault("failOpen")

Queue(r) ==
    /\ pc[r] = "full"
    /\ Joins(Pool(r))
    /\ Goto(r, "waiting")
    /\ UNCHANGED <<slots, ghosts, live, strays, on, excluded, unswept>>

\* A full queue of an account may only cost the request this account (a sticky
\* session, GitHub Copilot).
QueueFull(r) ==
    /\ pc[r] = "full"
    /\ \E max \in WaitLimits[Pool(r)] : waits[Pool(r)] >= max
    /\ \/ on[r] = NoAccount /\ Goto(r, "ended") /\ UNCHANGED <<on, excluded>>
       \/ /\ on[r] # NoAccount
          /\ on' = [on EXCEPT ![r] = NoAccount]
          /\ \/ Goto(r, "closing") /\ UNCHANGED excluded
             \/ /\ Goto(r, "selecting")
                /\ excluded' = [excluded EXCEPT ![r] = @ \cup {on[r]}]
    /\ UNCHANGED <<store, unswept, mishaps>>

Enter(r) ==
    /\ pc[r] = "waiting"
    /\ Acquire(Pool(r), r)
    /\ Goto(r, "admitted")
    /\ UNCHANGED <<live, strays, waits, on, excluded, unswept>>

\* The wait is over without a slot: its time, the client, an error.
Quit(r) ==
    /\ pc[r] = "waiting"
    /\ \/ UNCHANGED <<slots, ghosts>> /\ NoFault
       \/ AcquireFails(Pool(r))
    /\ Goto(r, "leaving")
    /\ UNCHANGED <<live, strays, waits, on, excluded, unswept>>

\* decrementWaitScript
Decrement(s) ==
    \/ waits' = [waits EXCEPT ![s] = IF @ > 0 THEN @ - 1 ELSE @] /\ NoFault
    \/ UNCHANGED waits /\ Fault("redis")

LeaveAdmitted(r) ==
    /\ pc[r] = "admitted"
    /\ Decrement(Pool(r))
    /\ Goto(r, IF on[r] = NoAccount THEN "selecting" ELSE "working")
    /\ UNCHANGED <<slots, ghosts, live, strays, on, excluded, unswept>>

LeaveWithout(r) ==
    /\ pc[r] = "leaving"
    /\ Decrement(Pool(r))
    /\ Goto(r, IF on[r] = NoAccount THEN "ended" ELSE "closing")
    /\ on' = [on EXCEPT ![r] = NoAccount]
    /\ UNCHANGED <<slots, ghosts, live, strays, excluded, unswept>>

-----------------------------------------------------------------------------
(* The attempt on an account, and the end of the request.                    *)

\* The upstream has answered or failed, or the admission after the slot refused:
\* the request is over, or tries again, perhaps without this account.
Finish(r) ==
    /\ pc[r] = "working"
    /\ Release(on[r], r)
    /\ on' = [on EXCEPT ![r] = NoAccount]
    /\ \/ Goto(r, "closing") /\ UNCHANGED excluded
       \/ /\ Goto(r, "selecting")
          /\ \/ UNCHANGED excluded
             \/ excluded' = [excluded EXCEPT ![r] = @ \cup {on[r]}]
    /\ UNCHANGED <<live, strays, waits, unswept>>

\* The client leaves a stream: both slots are released by the callbacks of
\* wrapReleaseOnDone, while the upstream is read to its end for the bill.
Disconnect(r) ==
    /\ pc[r] = "working"
    /\ Goto(r, "draining")
    /\ UNCHANGED <<store, on, excluded, unswept, mishaps>>

ReleaseOnDone(r, s) ==
    /\ pc[r] = "draining"
    /\ s \in CallPools(r) /\ r \in slots[s]
    /\ Release(s, r)
    /\ UNCHANGED <<live, strays, waits, requests, unswept>>

Drained(r) ==
    /\ pc[r] = "draining"
    /\ \A s \in CallPools(r) : r \notin slots[s]
    /\ Goto(r, "ended")
    /\ on' = [on EXCEPT ![r] = NoAccount]
    /\ excluded' = [excluded EXCEPT ![r] = {}]
    /\ UNCHANGED <<store, unswept, mishaps>>

\* The deferred release of the user's slot.
Close(r) ==
    /\ pc[r] = "closing"
    /\ Release(UserOf[r], r)
    /\ Goto(r, "ended")
    /\ excluded' = [excluded EXCEPT ![r] = {}]
    /\ UNCHANGED <<live, strays, waits, on, unswept>>

-----------------------------------------------------------------------------
(* Live calls: CreateLiveCall and the controllers of a session.              *)

\* The lease is to replace the regular slots, which are still held: with them
\* counted, one more than the limit is allowed.
LeaseFree(r) == \A s \in CallPools(r) : Load(s) < Limit[s] + 1

\* acquireLiveLeaseScript
AcquireLease(r) ==
    /\ pc[r] = "leasing"
    /\ \/ /\ LeaseFree(r)
          /\ live' = [s \in Pools |-> IF s \in CallPools(r) THEN live[s] \cup {r} ELSE live[s]]
          /\ UNCHANGED strays
          /\ Goto(r, "creating")
          /\ NoFault
       \/ ~LeaseFree(r) /\ UNCHANGED <<live, strays>> /\ Goto(r, "refused") /\ NoFault
       \/ /\ \E done \in {0, 1} :
                /\ done = 1 => LeaseFree(r)
                /\ strays' = [s \in Pools |->
                                 IF s \in CallPools(r) THEN strays[s] + done ELSE strays[s]]
          /\ UNCHANGED live
          /\ Goto(r, "refused")
          /\ Fault("redis")
    /\ UNCHANGED <<slots, ghosts, waits, on, excluded, unswept>>

LeaseRefused(r) ==
    /\ pc[r] = "refused"
    /\ Release(on[r], r)
    /\ Goto(r, "closing")
    /\ on' = [on EXCEPT ![r] = NoAccount]
    /\ UNCHANGED <<live, strays, waits, excluded, unswept>>

\* The upstream has answered: the account's regular slot goes first.
CreateUpstream(r) ==
    /\ pc[r] = "creating"
    /\ Release(on[r], r)
    /\ \E outcome \in {"created", "failed"} : Goto(r, outcome)
    /\ UNCHANGED <<live, strays, waits, on, excluded, unswept>>

\* SaveLiveCall
SaveCall(r) ==
    /\ pc[r] = "created"
    /\ \/ Goto(r, "answering") /\ NoFault
       \/ Goto(r, "unsaved") /\ Fault("redis")
    /\ UNCHANGED <<store, on, excluded, unswept>>

\* ReleaseLiveLease: one transaction over the keys; errors are dropped.
ReleaseLease(r) ==
    /\ live' = [s \in Pools |-> live[s] \ {r}]
    /\ \/ UNCHANGED strays /\ NoFault
       \/ /\ strays' = [s \in Pools |-> IF r \in live[s] THEN strays[s] + 1 ELSE strays[s]]
          /\ Fault("redis")

\* Mutant: the failover to another account forgets the lease.
DropLeaseAtEnd(r) ==
    /\ pc[r] \in {"failed", "unsaved"}
    /\ on' = [on EXCEPT ![r] = NoAccount]
    /\ \/ Goto(r, "closing") /\ ReleaseLease(r) /\ UNCHANGED excluded
       \/ /\ pc[r] = "failed"
          /\ Goto(r, "selecting")
          /\ excluded' = [excluded EXCEPT ![r] = @ \cup {on[r]}]
          /\ UNCHANGED <<live, strays, mishaps>>
    /\ UNCHANGED <<slots, ghosts, waits, unswept>>

DropLease(r) ==
    /\ pc[r] \in {"failed", "unsaved"}
    /\ ReleaseLease(r)
    /\ on' = [on EXCEPT ![r] = NoAccount]
    /\ \/ Goto(r, "closing") /\ UNCHANGED excluded
       \/ /\ pc[r] = "failed"
          /\ Goto(r, "selecting")
          /\ excluded' = [excluded EXCEPT ![r] = @ \cup {on[r]}]
    /\ UNCHANGED <<slots, ghosts, waits, unswept>>

\* The handler answers and releases the user's slot; the observer goes on.
AnswerCall(r) ==
    /\ pc[r] = "answering"
    /\ Release(UserOf[r], r)
    /\ Goto(r, "session")
    /\ UNCHANGED <<live, strays, waits, on, excluded, unswept>>

\* The call is over, or a refresh fails.
EndSession(r) ==
    /\ pc[r] = "session"
    /\ Goto(r, "ending")
    /\ UNCHANGED <<store, on, excluded, unswept, mishaps>>

\* Mutant: the loss is taken for a transient error, and the call goes on.
LoseSessionLater(r) ==
    /\ pc[r] = "session"
    /\ r \notin live[on[r]]
    /\ UNCHANGED vars

\* A refresh finds the lease gone, and does not take a new one.
LoseSession(r) ==
    /\ pc[r] = "session"
    /\ r \notin live[on[r]]
    /\ Goto(r, "ending")
    /\ UNCHANGED <<store, on, excluded, unswept, mishaps>>

\* finalizeLiveCall; an error while the call is marked as closed ends it too.
Finalize(r) ==
    /\ pc[r] = "ending"
    /\ ReleaseLease(r)
    /\ Goto(r, "ended")
    /\ on' = [on EXCEPT ![r] = NoAccount]
    /\ excluded' = [excluded EXCEPT ![r] = {}]
    /\ UNCHANGED <<slots, ghosts, waits, unswept>>

-----------------------------------------------------------------------------
(* Time.                                                                     *)

ExpireGhost(s) ==
    /\ ghosts[s] > 0
    /\ ghosts' = [ghosts EXCEPT ![s] = @ - 1]
    /\ UNCHANGED <<slots, live, strays, waits, requests, unswept, mishaps>>

ExpireStray(s) ==
    /\ strays[s] > 0
    /\ strays' = [strays EXCEPT ![s] = @ - 1]
    /\ UNCHANGED <<slots, ghosts, live, waits, requests, unswept, mishaps>>

\* The slot's time is over, its request is not.
ExpireSlot(r, s) ==
    /\ r \in slots[s]
    /\ slots' = [slots EXCEPT ![s] = @ \ {r}]
    /\ Fault("outlive")
    /\ UNCHANGED <<ghosts, live, strays, waits, requests, unswept>>

\* No refresh for a minute: the controller reconnects again and again, which
\* starts its ticker anew, or waits for the end of the call.
ExpireLease(r) ==
    /\ \E s \in Pools : r \in live[s]
    /\ live' = [s \in Pools |-> live[s] \ {r}]
    /\ Fault("stall")
    /\ UNCHANGED <<slots, ghosts, strays, waits, requests, unswept>>

Waiters(s) == {r \in Requests : pc[r] \in Queued /\ Pool(r) = s}

\* The counter lives as long as the longest wait after its last increment.
ExpireWaits(s) ==
    /\ waits[s] > 0
    /\ Waiters(s) = {}
    /\ waits' = [waits EXCEPT ![s] = 0]
    /\ UNCHANGED <<slots, ghosts, live, strays, requests, unswept, mishaps>>

-----------------------------------------------------------------------------
(* Restart.                                                                  *)

Running(p) == {r \in Requests : ProcessOf[r] = p /\ pc[r] # "start"}

\* What its requests hold stays, and their increments too.  The new process
\* finds some pools in the active index, which is kept by best effort.
Crash(p) ==
    /\ Fault("crash")
    /\ \E found \in SUBSET Pools : unswept' = [unswept EXCEPT ![p] = found]
    /\ slots' = [s \in Pools |-> slots[s] \ Running(p)]
    /\ ghosts' = [s \in Pools |-> ghosts[s] + Cardinality(slots[s] \cap Running(p))]
    /\ live' = [s \in Pools |-> live[s] \ Running(p)]
    /\ strays' = [s \in Pools |-> strays[s] + Cardinality(live[s] \cap Running(p))]
    /\ pc' = [r \in Requests |-> IF r \in Running(p) THEN "ended" ELSE pc[r]]
    /\ on' = [r \in Requests |-> IF r \in Running(p) THEN NoAccount ELSE on[r]]
    /\ excluded' = [r \in Requests |-> IF r \in Running(p) THEN {} ELSE excluded[r]]
    /\ UNCHANGED waits

\* startupCleanupSlotScript removes every slot that has not the prefix of the
\* new process, also those of the others that are alive.
SweepSlots(s) ==
    /\ slots' = [slots EXCEPT ![s] = {}]
    /\ ghosts' = [ghosts EXCEPT ![s] = 0]

Purges(s) == IF slots[s] # {} \/ Waiters(s) # {} THEN {"purge"} ELSE {}

Sweep(p, s) ==
    /\ s \in unswept[p]
    /\ SweepSlots(s)
    /\ waits' = [waits EXCEPT ![s] = 0]
    /\ happened' = happened \cup Purges(s)
    /\ unswept' = [unswept EXCEPT ![p] = @ \ {s}]
    /\ UNCHANGED <<live, strays, requests, faults>>

\* An error ends the sweep, between its two commands for a pool or before.
SweepFails(p, s) ==
    /\ s \in unswept[p]
    /\ \/ SweepSlots(s) /\ happened' = happened \cup Purges(s)
       \/ UNCHANGED <<slots, ghosts, happened>>
    /\ unswept' = [unswept EXCEPT ![p] = {}]
    /\ UNCHANGED <<live, strays, waits, requests, faults>>

-----------------------------------------------------------------------------
Handle(r) ==
    \/ TryUser(r) \/ SelectFails(r) \/ Queue(r) \/ QueueFull(r) \/ Enter(r) \/ Quit(r)
    \/ LeaveAdmitted(r) \/ LeaveWithout(r)
    \/ Finish(r) \/ Disconnect(r) \/ Drained(r) \/ Close(r)
    \/ \E a \in Accounts : SelectAccount(r, a) \/ PlanWait(r, a)
    \/ \E s \in Pools : ReleaseOnDone(r, s)

Call(r) ==
    \/ AcquireLease(r) \/ LeaseRefused(r) \/ CreateUpstream(r) \/ SaveCall(r)
    \/ DropLease(r) \/ AnswerCall(r) \/ EndSession(r) \/ LoseSession(r) \/ Finalize(r)

Time ==
    \/ \E s \in Pools : ExpireGhost(s) \/ ExpireStray(s) \/ ExpireWaits(s)
    \/ \E r \in Requests, s \in Pools : ExpireSlot(r, s)
    \/ \E r \in Calls : ExpireLease(r)

Restart ==
    \E p \in Processes : Crash(p) \/ \E s \in Pools : Sweep(p, s) \/ SweepFails(p, s)

Next ==
    \/ \E r \in Requests : Handle(r)
    \/ \E r \in Calls : Call(r)
    \/ Time
    \/ Restart

Spec == Init /\ [][Next]_vars

\* The controller's ticker fires, and what it has begun it ends.
FairSpec == Spec /\ \A r \in Calls : WF_vars(LoseSession(r)) /\ WF_vars(Finalize(r))

-----------------------------------------------------------------------------
(* Properties.                                                               *)

Without(kinds) == happened \cap kinds = {}

\* The requests with a slot of their user, as they believe.
HasUser(r) ==
    /\ pc[r] \notin {"start", "draining", "session", "ending", "ended"}
    /\ on[r] = NoAccount => pc[r] \notin {"full", "waiting", "leaving"}

\* Those with a slot of an account.
HasAccount(r) ==
    \/ pc[r] \in {"working", "leasing", "refused", "creating"}
    \/ pc[r] = "admitted" /\ on[r] # NoAccount

\* Who uses a pool: a stream without its client is read on without a slot, and
\* a call is counted by its lease.
Using(s) ==
    {r \in Requests : UserOf[r] = s /\ HasUser(r)}
    \cup {r \in Requests : on[r] = s /\ HasAccount(r)}
    \cup live[s]

\* No more requests of a user, or on an account, are served at a time than its
\* concurrency allows, calls and those that wait for an account included; unless
\* a slot was taken from a request that is alive.
LimitKept ==
    Without({"purge", "outlive"}) =>
        \A s \in Pools : Cardinality(Using(s)) <= Limit[s]

\* Never do more requests wait for a pool than its longest queue may have:
\* the counter is never too low, whatever fails or dies, but for those that wait
\* uncounted and for counters swept away.
WaitersBounded ==
    Without({"failOpen", "purge"}) =>
        \A s \in Pools : \E max \in WaitLimits[s] : Cardinality(Waiters(s)) <= max

\* Requests that may have a member in the sorted sets of a pool.
MayHold(s) ==
    Using(s) \cup {r \in Requests : pc[r] = "draining" /\ s \in CallPools(r)}

\* On every path out of a request, failover, disconnection and refusal included,
\* what it took is given back: a slot or lease belongs to a request that uses it,
\* others are left by a failed command or a crash only, and without those (and
\* without uncounted waiters and sweeps) the counters are exact.
NothingLeaks ==
    /\ \A s \in Pools : slots[s] \subseteq MayHold(s)
    /\ \A s \in Pools : \A r \in live[s] : pc[r] \in Leased /\ s \in CallPools(r)
    /\ Without({"redis", "crash"}) =>
          \A s \in Pools :
             /\ ghosts[s] = 0 /\ strays[s] = 0
             /\ Without({"failOpen"}) => waits[s] = Cardinality(Waiters(s))

\* A call whose lease is gone is not carried on without one.
UnmeteredEnds ==
    \A r \in Calls :
        pc[r] = "session" /\ r \notin live[on[r]] ~> pc[r] = "ended"

=============================================================================
