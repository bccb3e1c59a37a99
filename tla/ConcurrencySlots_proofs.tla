------------------------ MODULE ConcurrencySlots_proofs ------------------------
(***************************************************************************)
(* Theorems about ConcurrencySlots, for any number of requests, calls,     *)
(* processes, users, accounts and faults, and any limits.                  *)
(*                                                                         *)
(* The inductive invariant says where a request is when it has a slot or a *)
(* lease and the other way round, bounds the union of slots and leases of  *)
(* each pool, and relates the counter of waiters to those who wait.        *)
(***************************************************************************)
EXTENDS ConcurrencySlots, FiniteSetTheorems, TLAPS

USE DEF Kinds

\* Where a request has an account, and which requests take leases.
Places ==
    \A r \in Requests :
        /\ pc[r] \in {"start", "selecting", "closing", "ended"} => on[r] = NoAccount
        /\ pc[r] \in {"working", "draining", "leasing", "refused"} \cup Leased
              => on[r] \in Accounts
        /\ pc[r] \in {"leasing", "refused"} \cup Leased => r \in Calls

\* Slots and leases belong to requests that are where they are used.
MayHoldSlot(r, s) ==
    \/ s = UserOf[r] /\ (HasUser(r) \/ pc[r] = "draining")
    \/ s = on[r] /\ (HasAccount(r) \/ pc[r] = "draining")

SlotsUsed == \A s \in Pools : \A r \in slots[s] : MayHoldSlot(r, s)

MayHoldLease(r, s) == pc[r] \in Leased /\ s \in CallPools(r)

LeasesUsed == \A s \in Pools : \A r \in live[s] : MayHoldLease(r, s)

\* A request that believes it has a slot has it.
Holds(r) ==
    /\ HasUser(r) => r \in slots[UserOf[r]]
    /\ HasAccount(r) => r \in slots[on[r]]

SlotsHeld == Without({"purge", "outlive"}) => \A r \in Requests : Holds(r)

\* A call with a slot and a lease counts once here, twice for the scripts.
Bounded ==
    Without({"purge", "outlive"}) =>
        \A s \in Pools : Cardinality(slots[s] \cup live[s]) <= Limit[s]

\* The counter is bounded, and not lower than the number of those who wait.
QueueBounded ==
    Without({"failOpen", "purge"}) =>
        \A s \in Pools :
            /\ Cardinality(Waiters(s)) <= waits[s]
            /\ \E max \in WaitLimits[s] : waits[s] <= max

\* Without failed commands and crashes the counters are exact.
Exact ==
    Without({"redis", "crash"}) =>
        \A s \in Pools :
           /\ ghosts[s] = 0 /\ strays[s] = 0
           /\ Without({"failOpen"}) => waits[s] = Cardinality(Waiters(s))

\* There is a sweep after a crash only.
SweepAfterCrash ==
    (\E p \in Processes : unswept[p] # {}) \/ "purge" \in happened => "crash" \in happened

\* What a step does to the slots and leases of a pool: it takes none but those of
\* requests that have one already, or takes one slot below the limit.
Grows(t) ==
    \/ slots'[t] \cup live'[t] \subseteq slots[t] \cup live[t]
    \/ /\ Load(t) < Limit[t]
       /\ \E r \in Requests : slots'[t] = slots[t] \cup {r}
       /\ live'[t] = live[t]

\* What a step does to the queue of a pool: one request joins or leaves, and is
\* counted, or a process dies, or nobody waits.
Moves(t) ==
    \/ /\ Waiters(t)' \subseteq Waiters(t)
       /\ waits'[t] = waits[t]
       /\ Waiters(t)' = Waiters(t) \/ ~Without({"redis", "crash"})'
    \/ /\ \E r \in Requests \ Waiters(t) : Waiters(t)' = Waiters(t) \cup {r}
       /\ waits'[t] = waits[t] + 1
       /\ \E max \in WaitLimits[t] : waits[t] < max
    \/ /\ \E r \in Waiters(t) : Waiters(t)' = Waiters(t) \ {r}
       /\ waits'[t] = IF waits[t] > 0 THEN waits[t] - 1 ELSE waits[t]
    \/ /\ Waiters(t)' = {}
       /\ waits'[t] = 0


\* TypeOK without the requests.
StoreType ==
    /\ slots \in [Pools -> SUBSET Requests]
    /\ ghosts \in [Pools -> Nat]
    /\ live \in [Pools -> SUBSET Calls]
    /\ strays \in [Pools -> Nat]
    /\ waits \in [Pools -> Nat]

MishapType ==
    /\ faults \in 0 .. MaxFaults
    /\ happened \subseteq Kinds \cup {"purge"}

\* What a request holds is finite.
LEMMA Finite ==
    ASSUME NEW S \in SUBSET Requests
    PROVE  IsFiniteSet(S) /\ Cardinality(S) \in Nat
<1>1. IsFiniteSet(S)
    BY PoolsAssumption, FS_Subset
<1> QED
    BY <1>1, FS_CardinalityType

\* A request is always about a pool.
LEMMA PoolType ==
    ASSUME TypeOK, NEW r \in Requests
    PROVE  Pool(r) \in Pools /\ UserOf[r] \in Pools
BY PoolsAssumption DEF TypeOK, Pool, Pools

\* A fault is counted, and remembered.
LEMMA MishapsType ==
    ASSUME TypeOK, NoFault \/ \E k \in Kinds : Fault(k)
    PROVE  MishapType'
<1>1. CASE NoFault
    BY <1>1 DEF TypeOK, NoFault, mishaps, MishapType
<1>2. ASSUME NEW k \in Kinds, Fault(k) PROVE MishapType'
  <2>1. faults' \in 0 .. MaxFaults
    BY <1>2, LimitsAssumption DEF TypeOK, Fault
  <2> QED
    BY <1>2, <2>1 DEF TypeOK, Fault, MishapType
<1> QED
    BY <1>1, <1>2

\* A try to acquire a slot preserves the types.
LEMMA AcquireType ==
    ASSUME TypeOK, NEW s \in Pools, NEW r \in Requests,
           Acquire(s, r) \/ Full(s) \/ AcquireFails(s)
    PROVE  /\ slots' \in [Pools -> SUBSET Requests]
           /\ ghosts' \in [Pools -> Nat]
           /\ MishapType'
<1>1. NoFault \/ Fault("redis")
    BY DEF Acquire, Full, AcquireFails
<1>2. MishapType'
    BY <1>1, MishapsType
<1> QED
    BY <1>2 DEF Acquire, Full, AcquireFails, TypeOK

\* A release preserves the types.
LEMMA ReleaseType ==
    ASSUME TypeOK, NEW s \in Pools, NEW r \in Requests, Release(s, r)
    PROVE  /\ slots' \in [Pools -> SUBSET Requests]
           /\ ghosts' \in [Pools -> Nat]
           /\ MishapType'
<1>1. NoFault \/ Fault("redis")
    BY DEF Release
<1>2. MishapType'
    BY <1>1, MishapsType
<1> QED
    BY <1>2 DEF Release, TypeOK

\* Joining and leaving a queue preserve the types.
LEMMA QueueType ==
    ASSUME TypeOK, NEW s \in Pools, Joins(s) \/ Decrement(s)
    PROVE  waits' \in [Pools -> Nat] /\ MishapType'
<1>1. NoFault \/ Fault("failOpen") \/ Fault("redis")
    BY DEF Joins, Decrement
<1>2. MishapType'
    BY <1>1, MishapsType
<1> QED
    BY <1>2 DEF Joins, Decrement, TypeOK

\* The release of a lease preserves the types.
LEMMA LeaseType ==
    ASSUME TypeOK, NEW r \in Calls, ReleaseLease(r)
    PROVE  /\ live' \in [Pools -> SUBSET Calls]
           /\ strays' \in [Pools -> Nat]
           /\ MishapType'
<1>1. NoFault \/ Fault("redis")
    BY DEF ReleaseLease
<1>2. MishapType'
    BY <1>1, MishapsType
<1> QED
    BY <1>2 DEF ReleaseLease, TypeOK


\* Every step preserves the types; Crash counts finite sets.
LEMMA TypeStep ==
    TypeOK /\ Places /\ [Next]_vars => TypeOK'
<1> SUFFICES ASSUME TypeOK /\ Places, [Next]_vars PROVE TypeOK'
    OBVIOUS
<1> USE PoolsAssumption, LimitsAssumption
<1>0. CASE UNCHANGED vars
    BY <1>0 DEF vars, store, requests, mishaps, TypeOK
<1>1. ASSUME NEW r \in Requests, TryUser(r) PROVE TypeOK'
  <2>1. StoreType' /\ MishapType'
    BY <1>1, AcquireType, PoolType DEF TryUser, StoreType, TypeOK, Pools, store, requests,
       mishaps, MishapType
  <2> QED
    BY <1>1, <2>1 DEF TryUser, StoreType, MishapType, TypeOK, Goto, PCs, Queued, Leased,
       requests
<1>2. ASSUME NEW r \in Requests, SelectFails(r) PROVE TypeOK'
    BY <1>2 DEF SelectFails, Fault, NoFault, Goto, store, requests, mishaps, TypeOK, PCs,
       Queued, Leased
<1>3. ASSUME NEW r \in Requests, Queue(r) PROVE TypeOK'
  <2>1. StoreType' /\ MishapType'
    BY <1>3, QueueType, PoolType DEF Queue, StoreType, TypeOK, Pools, store, requests,
       mishaps, MishapType
  <2> QED
    BY <1>3, <2>1 DEF Queue, StoreType, MishapType, TypeOK, Goto, PCs, Queued, Leased,
       requests
<1>4. ASSUME NEW r \in Requests, QueueFull(r) PROVE TypeOK'
  <2>1. StoreType' /\ MishapType'
    BY <1>4 DEF QueueFull, StoreType, TypeOK, Pools, store, requests, mishaps, MishapType
  <2>2. on' \in [Requests -> Accounts \cup {NoAccount}] /\ excluded' \in [Requests -> SUBSET Accounts]
    BY <1>4 DEF QueueFull, TypeOK
  <2>3. pc' \in [Requests -> PCs]
    BY <1>4 DEF QueueFull, Goto, TypeOK, PCs
  <2> QED
    BY <1>4, <2>1, <2>2, <2>3 DEF QueueFull, StoreType, MishapType, TypeOK
<1>5. ASSUME NEW r \in Requests, Enter(r) PROVE TypeOK'
    BY <1>5 DEF Enter, Acquire, Pool, Fault, NoFault, Goto, store, requests, mishaps,
       TypeOK, PCs, Queued, Leased
<1>6. ASSUME NEW r \in Requests, Quit(r) PROVE TypeOK'
  <2>1. StoreType' /\ MishapType'
    BY <1>6, AcquireType, PoolType, MishapsType DEF Quit, StoreType, TypeOK, Pools, store,
       requests, mishaps, MishapType
  <2> QED
    BY <1>6, <2>1 DEF Quit, StoreType, MishapType, TypeOK, Goto, PCs, Queued, Leased,
       requests
<1>7. ASSUME NEW r \in Requests, LeaveAdmitted(r) PROVE TypeOK'
  <2>1. StoreType' /\ MishapType'
    BY <1>7, QueueType, PoolType DEF LeaveAdmitted, StoreType, TypeOK, Pools, store,
       requests, mishaps, MishapType
  <2> QED
    BY <1>7, <2>1 DEF LeaveAdmitted, StoreType, MishapType, TypeOK, Goto, PCs, Queued,
       Leased, requests
<1>8. ASSUME NEW r \in Requests, LeaveWithout(r) PROVE TypeOK'
  <2>1. StoreType' /\ MishapType'
    BY <1>8, QueueType, PoolType DEF LeaveWithout, StoreType, TypeOK, Pools, store,
       requests, mishaps, MishapType
  <2> QED
    BY <1>8, <2>1 DEF LeaveWithout, StoreType, MishapType, TypeOK, Goto, PCs, Queued,
       Leased, requests
<1>9. ASSUME NEW r \in Requests, Finish(r) PROVE TypeOK'
  <2>1. StoreType' /\ MishapType'
    BY <1>9, ReleaseType DEF Finish, StoreType, TypeOK, Pools, store, requests, mishaps,
       MishapType, Places, Leased
  <2>2. excluded' \in [Requests -> SUBSET Accounts]
    BY <1>9 DEF Finish, TypeOK, Places, Leased
  <2>3. pc' \in [Requests -> PCs] /\ on' \in [Requests -> Accounts \cup {NoAccount}]
    BY <1>9 DEF Finish, Goto, TypeOK, PCs, Queued, Leased
  <2> QED
    BY <1>9, <2>1, <2>2, <2>3 DEF Finish, StoreType, MishapType, TypeOK
<1>10. ASSUME NEW r \in Requests, Disconnect(r) PROVE TypeOK'
    BY <1>10 DEF Disconnect, Fault, NoFault, Goto, store, requests, mishaps, TypeOK, PCs,
       Queued, Leased
<1>11. ASSUME NEW r \in Requests, Drained(r) PROVE TypeOK'
    BY <1>11 DEF Drained, CallPools, Fault, NoFault, Goto, store, requests, mishaps,
       TypeOK, PCs, Queued, Leased
<1>12. ASSUME NEW r \in Requests, Close(r) PROVE TypeOK'
  <2>1. StoreType' /\ MishapType'
    BY <1>12, ReleaseType, PoolType DEF Close, StoreType, TypeOK, Pools, store, requests,
       mishaps, MishapType
  <2> QED
    BY <1>12, <2>1 DEF Close, StoreType, MishapType, TypeOK, Goto, PCs, Queued, Leased,
       requests
<1>13. ASSUME NEW r \in Requests, NEW a \in Accounts, SelectAccount(r, a) PROVE TypeOK'
  <2>1. StoreType' /\ MishapType'
    BY <1>13, AcquireType DEF SelectAccount, StoreType, TypeOK, Pools, store, requests,
       mishaps, MishapType
  <2>2. excluded' \in [Requests -> SUBSET Accounts]
    BY <1>13 DEF SelectAccount, TypeOK
  <2>3. pc' \in [Requests -> PCs] /\ on' \in [Requests -> Accounts \cup {NoAccount}]
    BY <1>13 DEF SelectAccount, Goto, TypeOK, PCs, Queued, Leased
  <2> QED
    BY <1>13, <2>1, <2>2, <2>3 DEF SelectAccount, StoreType, MishapType, TypeOK
<1>14. ASSUME NEW r \in Requests, NEW a \in Accounts, PlanWait(r, a) PROVE TypeOK'
    BY <1>14 DEF PlanWait, Fault, NoFault, Goto, store, requests, mishaps, TypeOK, PCs,
       Queued, Leased
<1>15. ASSUME NEW r \in Requests, NEW s \in Pools, ReleaseOnDone(r, s) PROVE TypeOK'
  <2>1. StoreType' /\ MishapType'
    BY <1>15, ReleaseType DEF ReleaseOnDone, CallPools, StoreType, TypeOK, Pools, store,
       requests, mishaps, MishapType
  <2> QED
    BY <1>15, <2>1 DEF ReleaseOnDone, StoreType, MishapType, TypeOK, Goto, PCs, Queued,
       Leased, requests
<1>16. ASSUME NEW r \in Calls, AcquireLease(r) PROVE TypeOK'
  <2>1. NoFault \/ Fault("redis")
    BY <1>16 DEF AcquireLease
  <2>2. MishapType'
    BY <2>1, MishapsType
  <2>3. live' \in [Pools -> SUBSET Calls] /\ strays' \in [Pools -> Nat]
    BY <1>16 DEF AcquireLease, TypeOK
  <2>4. pc' \in [Requests -> PCs]
    BY <1>16 DEF AcquireLease, Goto, TypeOK, PCs, Leased
  <2> QED
    BY <1>16, <2>2, <2>3, <2>4 DEF AcquireLease, MishapType, TypeOK
<1>17. ASSUME NEW r \in Calls, LeaseRefused(r) PROVE TypeOK'
  <2>1. StoreType' /\ MishapType'
    BY <1>17, ReleaseType DEF LeaseRefused, StoreType, TypeOK, Pools, store, requests,
       mishaps, MishapType, Places, Leased
  <2> QED
    BY <1>17, <2>1 DEF LeaseRefused, StoreType, MishapType, TypeOK, Goto, PCs, Queued,
       Leased, requests
<1>18. ASSUME NEW r \in Calls, CreateUpstream(r) PROVE TypeOK'
  <2>1. StoreType' /\ MishapType'
    BY <1>18, ReleaseType DEF CreateUpstream, StoreType, TypeOK, Pools, store, requests,
       mishaps, MishapType, Places, Leased
  <2> QED
    BY <1>18, <2>1 DEF CreateUpstream, StoreType, MishapType, TypeOK, Goto, PCs, Queued,
       Leased, requests
<1>19. ASSUME NEW r \in Calls, SaveCall(r) PROVE TypeOK'
  <2>1. StoreType' /\ MishapType'
    BY <1>19, MishapsType DEF SaveCall, StoreType, TypeOK, Pools, store, requests, mishaps,
       MishapType
  <2> QED
    BY <1>19, <2>1 DEF SaveCall, StoreType, MishapType, TypeOK, Goto, PCs, Queued, Leased,
       requests
<1>20. ASSUME NEW r \in Calls, DropLease(r) PROVE TypeOK'
  <2>1. StoreType' /\ MishapType'
    BY <1>20, LeaseType DEF DropLease, StoreType, TypeOK, Pools, store, requests, mishaps,
       MishapType
  <2>2. excluded' \in [Requests -> SUBSET Accounts]
    BY <1>20 DEF DropLease, TypeOK, Places, Leased
  <2>3. pc' \in [Requests -> PCs] /\ on' \in [Requests -> Accounts \cup {NoAccount}]
    BY <1>20 DEF DropLease, Goto, TypeOK, PCs, Queued, Leased
  <2> QED
    BY <1>20, <2>1, <2>2, <2>3 DEF DropLease, StoreType, MishapType, TypeOK
<1>21. ASSUME NEW r \in Calls, AnswerCall(r) PROVE TypeOK'
  <2>1. StoreType' /\ MishapType'
    BY <1>21, ReleaseType, PoolType DEF AnswerCall, StoreType, TypeOK, Pools, store,
       requests, mishaps, MishapType
  <2> QED
    BY <1>21, <2>1 DEF AnswerCall, StoreType, MishapType, TypeOK, Goto, PCs, Queued,
       Leased, requests
<1>22. ASSUME NEW r \in Calls, EndSession(r) PROVE TypeOK'
    BY <1>22 DEF EndSession, Fault, NoFault, Goto, store, requests, mishaps, TypeOK, PCs,
       Queued, Leased
<1>23. ASSUME NEW r \in Calls, LoseSession(r) PROVE TypeOK'
    BY <1>23 DEF LoseSession, Fault, NoFault, Goto, store, requests, mishaps, TypeOK, PCs,
       Queued, Leased
<1>24. ASSUME NEW r \in Calls, Finalize(r) PROVE TypeOK'
  <2>1. StoreType' /\ MishapType'
    BY <1>24, LeaseType DEF Finalize, StoreType, TypeOK, Pools, store, requests, mishaps,
       MishapType
  <2> QED
    BY <1>24, <2>1 DEF Finalize, StoreType, MishapType, TypeOK, Goto, PCs, Queued, Leased,
       requests
<1>25. ASSUME NEW s \in Pools, ExpireGhost(s) PROVE TypeOK'
    BY <1>25 DEF ExpireGhost, Fault, NoFault, Goto, store, requests, mishaps, TypeOK, PCs,
       Queued, Leased
<1>26. ASSUME NEW s \in Pools, ExpireStray(s) PROVE TypeOK'
    BY <1>26 DEF ExpireStray, Fault, NoFault, Goto, store, requests, mishaps, TypeOK, PCs,
       Queued, Leased
<1>27. ASSUME NEW s \in Pools, ExpireWaits(s) PROVE TypeOK'
    BY <1>27 DEF ExpireWaits, Waiters, Pool, Fault, NoFault, Goto, store, requests,
       mishaps, TypeOK, PCs, Queued, Leased
<1>28. ASSUME NEW r \in Requests, NEW s \in Pools, ExpireSlot(r, s) PROVE TypeOK'
    BY <1>28 DEF ExpireSlot, Fault, NoFault, Goto, store, requests, mishaps, TypeOK, PCs,
       Queued, Leased
<1>29. ASSUME NEW r \in Calls, ExpireLease(r) PROVE TypeOK'
    BY <1>29 DEF ExpireLease, Fault, NoFault, Goto, store, requests, mishaps, TypeOK, PCs,
       Queued, Leased
<1>30. ASSUME NEW p \in Processes, Crash(p) PROVE TypeOK'
  <2>1. MishapType'
    BY <1>30, MishapsType DEF Crash
  <2>2. \A s \in Pools : /\ Cardinality(slots[s] \cap Running(p)) \in Nat
                         /\ Cardinality(live[s] \cap Running(p)) \in Nat
    BY Finite, PoolsAssumption DEF TypeOK
  <2>3. StoreType'
    <3>1. slots' \in [Pools -> SUBSET Requests] /\ live' \in [Pools -> SUBSET Calls]
      BY <1>30 DEF Crash, TypeOK
    <3>2. ghosts' \in [Pools -> Nat]
      <4> DEFINE n(s) == Cardinality(slots[s] \cap Running(p))
      <4>1. ghosts' = [s \in Pools |-> ghosts[s] + n(s)]
        BY <1>30 DEF Crash
      <4>2. \A s \in Pools : n(s) \in Nat
        BY <2>2
      <4> HIDE DEF n
      <4> QED
        BY <4>1, <4>2 DEF TypeOK
    <3>3. strays' \in [Pools -> Nat]
      <4> DEFINE n(s) == Cardinality(live[s] \cap Running(p))
      <4>1. strays' = [s \in Pools |-> strays[s] + n(s)]
        BY <1>30 DEF Crash
      <4>2. \A s \in Pools : n(s) \in Nat
        BY <2>2
      <4> HIDE DEF n
      <4> QED
        BY <4>1, <4>2 DEF TypeOK
    <3> QED
      BY <1>30, <3>1, <3>2, <3>3 DEF Crash, StoreType, TypeOK
  <2>4. pc' \in [Requests -> PCs]
    BY <1>30 DEF Crash, TypeOK, PCs
  <2>5. on' \in [Requests -> Accounts \cup {NoAccount}] /\ excluded' \in [Requests -> SUBSET Accounts]
    BY <1>30 DEF Crash, TypeOK
  <2>6. unswept' \in [Processes -> SUBSET Pools]
    BY <1>30 DEF Crash, TypeOK
  <2> QED
    BY <2>1, <2>3, <2>4, <2>5, <2>6 DEF StoreType, MishapType, TypeOK
<1>31. ASSUME NEW p \in Processes, NEW s \in Pools, Sweep(p, s) PROVE TypeOK'
  <2>1. Purges(s) \subseteq {"purge"}
    BY DEF Purges
  <2>2. StoreType' /\ MishapType'
    <3>1. /\ slots' \in [Pools -> SUBSET Requests]
          /\ ghosts' \in [Pools -> Nat]
      <4>1. SweepSlots(s) \/ UNCHANGED <<slots, ghosts>>
        BY <1>31 DEF Sweep
      <4> QED
        BY <4>1 DEF SweepSlots, TypeOK
    <3>2. happened' \subseteq Kinds \cup {"purge"}
      BY <1>31, <2>1 DEF Sweep, TypeOK
    <3> QED
      BY <1>31, <3>1, <3>2 DEF Sweep, StoreType, MishapType, TypeOK
  <2> QED
    BY <1>31, <2>2 DEF Sweep, requests, StoreType, MishapType, TypeOK
<1>32. ASSUME NEW p \in Processes, NEW s \in Pools, SweepFails(p, s) PROVE TypeOK'
  <2>1. Purges(s) \subseteq {"purge"}
    BY DEF Purges
  <2>2. StoreType' /\ MishapType'
    <3>1. /\ slots' \in [Pools -> SUBSET Requests]
          /\ ghosts' \in [Pools -> Nat]
      <4>1. SweepSlots(s) \/ UNCHANGED <<slots, ghosts>>
        BY <1>32 DEF SweepFails
      <4> QED
        BY <4>1 DEF SweepSlots, TypeOK
    <3>2. happened' \subseteq Kinds \cup {"purge"}
      BY <1>32, <2>1 DEF SweepFails, TypeOK
    <3> QED
      BY <1>32, <3>1, <3>2 DEF SweepFails, StoreType, MishapType, TypeOK
  <2> QED
    BY <1>32, <2>2 DEF SweepFails, requests, StoreType, MishapType, TypeOK
<1> QED
    BY <1>0, <1>1, <1>2, <1>3, <1>4, <1>5, <1>6, <1>7, <1>8, <1>9, <1>10, <1>11, <1>12,
       <1>13, <1>14, <1>15, <1>16, <1>17, <1>18, <1>19, <1>20, <1>21, <1>22, <1>23, <1>24,
       <1>25, <1>26, <1>27, <1>28, <1>29, <1>30, <1>31, <1>32
    DEF Next, Handle, Call, Time, Restart

\* Every step preserves Places.
LEMMA PlacesStep ==
    TypeOK /\ Places /\ [Next]_vars => Places'
<1> SUFFICES ASSUME TypeOK /\ Places, [Next]_vars PROVE Places'
    OBVIOUS
<1> USE PoolsAssumption DEF TypeOK, Places, Leased, Queued
<1>0. CASE UNCHANGED vars
    BY <1>0 DEF vars, store, requests, mishaps, Pools
<1>1. ASSUME NEW r \in Requests, TryUser(r) PROVE Places'
    BY <1>1 DEF TryUser, Acquire, Full, AcquireFails, Fault, NoFault, Goto, store,
       requests, mishaps, Pools
<1>2. ASSUME NEW r \in Requests, SelectFails(r) PROVE Places'
    BY <1>2 DEF SelectFails, Fault, NoFault, Goto, store, requests, mishaps, Pools
<1>3. ASSUME NEW r \in Requests, Queue(r) PROVE Places'
    BY <1>3 DEF Queue, Joins, Pool, Fault, NoFault, Goto, store, requests, mishaps, Pools
<1>4. ASSUME NEW r \in Requests, QueueFull(r) PROVE Places'
    BY <1>4 DEF QueueFull, Pool, Fault, NoFault, Goto, store, requests, mishaps, Pools
<1>5. ASSUME NEW r \in Requests, Enter(r) PROVE Places'
    BY <1>5 DEF Enter, Acquire, Pool, Fault, NoFault, Goto, store, requests, mishaps, Pools
<1>6. ASSUME NEW r \in Requests, Quit(r) PROVE Places'
    BY <1>6 DEF Quit, AcquireFails, Pool, Fault, NoFault, Goto, store, requests, mishaps,
       Pools
<1>7. ASSUME NEW r \in Requests, LeaveAdmitted(r) PROVE Places'
    BY <1>7 DEF LeaveAdmitted, Decrement, Pool, Fault, NoFault, Goto, store, requests,
       mishaps, Pools
<1>8. ASSUME NEW r \in Requests, LeaveWithout(r) PROVE Places'
    BY <1>8 DEF LeaveWithout, Decrement, Pool, Fault, NoFault, Goto, store, requests,
       mishaps, Pools
<1>9. ASSUME NEW r \in Requests, Finish(r) PROVE Places'
    BY <1>9 DEF Finish, Release, Fault, NoFault, Goto, store, requests, mishaps, Pools
<1>10. ASSUME NEW r \in Requests, Disconnect(r) PROVE Places'
    BY <1>10 DEF Disconnect, Fault, NoFault, Goto, store, requests, mishaps, Pools
<1>11. ASSUME NEW r \in Requests, Drained(r) PROVE Places'
    BY <1>11 DEF Drained, CallPools, Fault, NoFault, Goto, store, requests, mishaps, Pools
<1>12. ASSUME NEW r \in Requests, Close(r) PROVE Places'
    BY <1>12 DEF Close, Release, Fault, NoFault, Goto, store, requests, mishaps, Pools
<1>13. ASSUME NEW r \in Requests, NEW a \in Accounts, SelectAccount(r, a) PROVE Places'
    BY <1>13 DEF SelectAccount, Acquire, AcquireFails, Fault, NoFault, Goto, store,
       requests, mishaps, Pools
<1>14. ASSUME NEW r \in Requests, NEW a \in Accounts, PlanWait(r, a) PROVE Places'
    BY <1>14 DEF PlanWait, Fault, NoFault, Goto, store, requests, mishaps, Pools
<1>15. ASSUME NEW r \in Requests, NEW s \in Pools, ReleaseOnDone(r, s) PROVE Places'
    BY <1>15 DEF ReleaseOnDone, Release, CallPools, Fault, NoFault, Goto, store, requests,
       mishaps, Pools
<1>16. ASSUME NEW r \in Calls, AcquireLease(r) PROVE Places'
    BY <1>16 DEF AcquireLease, CallPools, Fault, NoFault, Goto, store, requests, mishaps,
       Pools
<1>17. ASSUME NEW r \in Calls, LeaseRefused(r) PROVE Places'
    BY <1>17 DEF LeaseRefused, Release, Fault, NoFault, Goto, store, requests, mishaps,
       Pools
<1>18. ASSUME NEW r \in Calls, CreateUpstream(r) PROVE Places'
    BY <1>18 DEF CreateUpstream, Release, Fault, NoFault, Goto, store, requests, mishaps,
       Pools
<1>19. ASSUME NEW r \in Calls, SaveCall(r) PROVE Places'
    BY <1>19 DEF SaveCall, Fault, NoFault, Goto, store, requests, mishaps, Pools
<1>20. ASSUME NEW r \in Calls, DropLease(r) PROVE Places'
    BY <1>20 DEF DropLease, ReleaseLease, Fault, NoFault, Goto, store, requests, mishaps,
       Pools
<1>21. ASSUME NEW r \in Calls, AnswerCall(r) PROVE Places'
    BY <1>21 DEF AnswerCall, Release, Fault, NoFault, Goto, store, requests, mishaps, Pools
<1>22. ASSUME NEW r \in Calls, EndSession(r) PROVE Places'
    BY <1>22 DEF EndSession, Fault, NoFault, Goto, store, requests, mishaps, Pools
<1>23. ASSUME NEW r \in Calls, LoseSession(r) PROVE Places'
    BY <1>23 DEF LoseSession, Fault, NoFault, Goto, store, requests, mishaps, Pools
<1>24. ASSUME NEW r \in Calls, Finalize(r) PROVE Places'
    BY <1>24 DEF Finalize, ReleaseLease, Fault, NoFault, Goto, store, requests, mishaps,
       Pools
<1>25. ASSUME NEW s \in Pools, ExpireGhost(s) PROVE Places'
    BY <1>25 DEF ExpireGhost, Fault, NoFault, Goto, store, requests, mishaps, Pools
<1>26. ASSUME NEW s \in Pools, ExpireStray(s) PROVE Places'
    BY <1>26 DEF ExpireStray, Fault, NoFault, Goto, store, requests, mishaps, Pools
<1>27. ASSUME NEW s \in Pools, ExpireWaits(s) PROVE Places'
    BY <1>27 DEF ExpireWaits, Waiters, Pool, Fault, NoFault, Goto, store, requests,
       mishaps, Pools
<1>28. ASSUME NEW r \in Requests, NEW s \in Pools, ExpireSlot(r, s) PROVE Places'
    BY <1>28 DEF ExpireSlot, Fault, NoFault, Goto, store, requests, mishaps, Pools
<1>29. ASSUME NEW r \in Calls, ExpireLease(r) PROVE Places'
    BY <1>29 DEF ExpireLease, Fault, NoFault, Goto, store, requests, mishaps, Pools
<1>30. ASSUME NEW p \in Processes, Crash(p) PROVE Places'
    BY <1>30 DEF Crash, Running, Fault, NoFault, Goto, store, requests, mishaps, Pools
<1>31. ASSUME NEW p \in Processes, NEW s \in Pools, Sweep(p, s) PROVE Places'
    BY <1>31 DEF Sweep, SweepSlots, Purges, Fault, NoFault, Goto, store, requests, mishaps,
       Pools
<1>32. ASSUME NEW p \in Processes, NEW s \in Pools, SweepFails(p, s) PROVE Places'
    BY <1>32 DEF SweepFails, SweepSlots, Purges, Fault, NoFault, Goto, store, requests,
       mishaps, Pools
<1> QED
    BY <1>0, <1>1, <1>2, <1>3, <1>4, <1>5, <1>6, <1>7, <1>8, <1>9, <1>10, <1>11, <1>12,
       <1>13, <1>14, <1>15, <1>16, <1>17, <1>18, <1>19, <1>20, <1>21, <1>22, <1>23, <1>24,
       <1>25, <1>26, <1>27, <1>28, <1>29, <1>30, <1>31, <1>32
    DEF Next, Handle, Call, Time, Restart

\* Every step preserves SlotsUsed.
LEMMA SlotsUsedStep ==
    TypeOK /\ Places /\ SlotsUsed /\ [Next]_vars => SlotsUsed'
<1> SUFFICES ASSUME TypeOK, Places, SlotsUsed, [Next]_vars,
                   NEW t \in Pools, NEW q \in slots'[t] PROVE MayHoldSlot(q, t)'
    BY DEF SlotsUsed
<1> USE PoolsAssumption DEF TypeOK, Places, SlotsUsed, MayHoldSlot, HasUser, HasAccount, Leased
<1>0. CASE UNCHANGED vars
    BY <1>0 DEF vars, store, requests, mishaps, Pools
<1>1. ASSUME NEW r \in Requests, TryUser(r) PROVE MayHoldSlot(q, t)'
    BY <1>1 DEF TryUser, Acquire, Full, AcquireFails, Fault, NoFault, Goto, store,
       requests, mishaps, Pools
<1>2. ASSUME NEW r \in Requests, SelectFails(r) PROVE MayHoldSlot(q, t)'
    BY <1>2 DEF SelectFails, Fault, NoFault, Goto, store, requests, mishaps, Pools
<1>3. ASSUME NEW r \in Requests, Queue(r) PROVE MayHoldSlot(q, t)'
    BY <1>3 DEF Queue, Joins, Pool, Fault, NoFault, Goto, store, requests, mishaps, Pools
<1>4. ASSUME NEW r \in Requests, QueueFull(r) PROVE MayHoldSlot(q, t)'
    BY <1>4 DEF QueueFull, Pool, Fault, NoFault, Goto, store, requests, mishaps, Pools
<1>5. ASSUME NEW r \in Requests, Enter(r) PROVE MayHoldSlot(q, t)'
    BY <1>5 DEF Enter, Acquire, Pool, Fault, NoFault, Goto, store, requests, mishaps, Pools
<1>6. ASSUME NEW r \in Requests, Quit(r) PROVE MayHoldSlot(q, t)'
    BY <1>6 DEF Quit, AcquireFails, Pool, Fault, NoFault, Goto, store, requests, mishaps,
       Pools
<1>7. ASSUME NEW r \in Requests, LeaveAdmitted(r) PROVE MayHoldSlot(q, t)'
    BY <1>7 DEF LeaveAdmitted, Decrement, Pool, Fault, NoFault, Goto, store, requests,
       mishaps, Pools
<1>8. ASSUME NEW r \in Requests, LeaveWithout(r) PROVE MayHoldSlot(q, t)'
    BY <1>8 DEF LeaveWithout, Decrement, Pool, Fault, NoFault, Goto, store, requests,
       mishaps, Pools
<1>9. ASSUME NEW r \in Requests, Finish(r) PROVE MayHoldSlot(q, t)'
    BY <1>9 DEF Finish, Release, Fault, NoFault, Goto, store, requests, mishaps, Pools
<1>10. ASSUME NEW r \in Requests, Disconnect(r) PROVE MayHoldSlot(q, t)'
    BY <1>10 DEF Disconnect, Fault, NoFault, Goto, store, requests, mishaps, Pools
<1>11. ASSUME NEW r \in Requests, Drained(r) PROVE MayHoldSlot(q, t)'
    BY <1>11 DEF Drained, CallPools, Fault, NoFault, Goto, store, requests, mishaps, Pools
<1>12. ASSUME NEW r \in Requests, Close(r) PROVE MayHoldSlot(q, t)'
    BY <1>12 DEF Close, Release, Fault, NoFault, Goto, store, requests, mishaps, Pools
<1>13. ASSUME NEW r \in Requests, NEW a \in Accounts, SelectAccount(r, a)
       PROVE MayHoldSlot(q, t)'
    BY <1>13 DEF SelectAccount, Acquire, AcquireFails, Fault, NoFault, Goto, store,
       requests, mishaps, Pools
<1>14. ASSUME NEW r \in Requests, NEW a \in Accounts, PlanWait(r, a)
       PROVE MayHoldSlot(q, t)'
    BY <1>14 DEF PlanWait, Fault, NoFault, Goto, store, requests, mishaps, Pools
<1>15. ASSUME NEW r \in Requests, NEW s \in Pools, ReleaseOnDone(r, s)
       PROVE MayHoldSlot(q, t)'
    BY <1>15 DEF ReleaseOnDone, Release, CallPools, Fault, NoFault, Goto, store, requests,
       mishaps, Pools
<1>16. ASSUME NEW r \in Calls, AcquireLease(r) PROVE MayHoldSlot(q, t)'
    BY <1>16 DEF AcquireLease, CallPools, Fault, NoFault, Goto, store, requests, mishaps,
       Pools
<1>17. ASSUME NEW r \in Calls, LeaseRefused(r) PROVE MayHoldSlot(q, t)'
    BY <1>17 DEF LeaseRefused, Release, Fault, NoFault, Goto, store, requests, mishaps,
       Pools
<1>18. ASSUME NEW r \in Calls, CreateUpstream(r) PROVE MayHoldSlot(q, t)'
    BY <1>18 DEF CreateUpstream, Release, Fault, NoFault, Goto, store, requests, mishaps,
       Pools
<1>19. ASSUME NEW r \in Calls, SaveCall(r) PROVE MayHoldSlot(q, t)'
    BY <1>19 DEF SaveCall, Fault, NoFault, Goto, store, requests, mishaps, Pools
<1>20. ASSUME NEW r \in Calls, DropLease(r) PROVE MayHoldSlot(q, t)'
    BY <1>20 DEF DropLease, ReleaseLease, Fault, NoFault, Goto, store, requests, mishaps,
       Pools
<1>21. ASSUME NEW r \in Calls, AnswerCall(r) PROVE MayHoldSlot(q, t)'
    BY <1>21 DEF AnswerCall, Release, Fault, NoFault, Goto, store, requests, mishaps, Pools
<1>22. ASSUME NEW r \in Calls, EndSession(r) PROVE MayHoldSlot(q, t)'
    BY <1>22 DEF EndSession, Fault, NoFault, Goto, store, requests, mishaps, Pools
<1>23. ASSUME NEW r \in Calls, LoseSession(r) PROVE MayHoldSlot(q, t)'
    BY <1>23 DEF LoseSession, Fault, NoFault, Goto, store, requests, mishaps, Pools
<1>24. ASSUME NEW r \in Calls, Finalize(r) PROVE MayHoldSlot(q, t)'
    BY <1>24 DEF Finalize, ReleaseLease, Fault, NoFault, Goto, store, requests, mishaps,
       Pools
<1>25. ASSUME NEW s \in Pools, ExpireGhost(s) PROVE MayHoldSlot(q, t)'
    BY <1>25 DEF ExpireGhost, Fault, NoFault, Goto, store, requests, mishaps, Pools
<1>26. ASSUME NEW s \in Pools, ExpireStray(s) PROVE MayHoldSlot(q, t)'
    BY <1>26 DEF ExpireStray, Fault, NoFault, Goto, store, requests, mishaps, Pools
<1>27. ASSUME NEW s \in Pools, ExpireWaits(s) PROVE MayHoldSlot(q, t)'
    BY <1>27 DEF ExpireWaits, Waiters, Pool, Fault, NoFault, Goto, store, requests,
       mishaps, Pools
<1>28. ASSUME NEW r \in Requests, NEW s \in Pools, ExpireSlot(r, s) PROVE MayHoldSlot(q, t)'
    BY <1>28 DEF ExpireSlot, Fault, NoFault, Goto, store, requests, mishaps, Pools
<1>29. ASSUME NEW r \in Calls, ExpireLease(r) PROVE MayHoldSlot(q, t)'
    BY <1>29 DEF ExpireLease, Fault, NoFault, Goto, store, requests, mishaps, Pools
<1>30. ASSUME NEW p \in Processes, Crash(p) PROVE MayHoldSlot(q, t)'
    BY <1>30 DEF Crash, Running, Fault, NoFault, Goto, store, requests, mishaps, Pools
<1>31. ASSUME NEW p \in Processes, NEW s \in Pools, Sweep(p, s) PROVE MayHoldSlot(q, t)'
    BY <1>31 DEF Sweep, SweepSlots, Purges, Fault, NoFault, Goto, store, requests, mishaps,
       Pools
<1>32. ASSUME NEW p \in Processes, NEW s \in Pools, SweepFails(p, s)
       PROVE MayHoldSlot(q, t)'
    BY <1>32 DEF SweepFails, SweepSlots, Purges, Fault, NoFault, Goto, store, requests,
       mishaps, Pools
<1> QED
    BY <1>0, <1>1, <1>2, <1>3, <1>4, <1>5, <1>6, <1>7, <1>8, <1>9, <1>10, <1>11, <1>12,
       <1>13, <1>14, <1>15, <1>16, <1>17, <1>18, <1>19, <1>20, <1>21, <1>22, <1>23, <1>24,
       <1>25, <1>26, <1>27, <1>28, <1>29, <1>30, <1>31, <1>32
    DEF Next, Handle, Call, Time, Restart

\* Every step preserves LeasesUsed.
LEMMA LeasesUsedStep ==
    TypeOK /\ Places /\ LeasesUsed /\ [Next]_vars => LeasesUsed'
<1> SUFFICES ASSUME TypeOK, Places, LeasesUsed, [Next]_vars,
                   NEW t \in Pools, NEW q \in live'[t] PROVE MayHoldLease(q, t)'
    BY DEF LeasesUsed
<1> USE PoolsAssumption DEF TypeOK, Places, LeasesUsed, MayHoldLease, CallPools, Leased
<1>0. CASE UNCHANGED vars
    BY <1>0 DEF vars, store, requests, mishaps, Pools
<1>1. ASSUME NEW r \in Requests, TryUser(r) PROVE MayHoldLease(q, t)'
    BY <1>1 DEF TryUser, Acquire, Full, AcquireFails, Fault, NoFault, Goto, store,
       requests, mishaps, Pools
<1>2. ASSUME NEW r \in Requests, SelectFails(r) PROVE MayHoldLease(q, t)'
    BY <1>2 DEF SelectFails, Fault, NoFault, Goto, store, requests, mishaps, Pools
<1>3. ASSUME NEW r \in Requests, Queue(r) PROVE MayHoldLease(q, t)'
    BY <1>3 DEF Queue, Joins, Pool, Fault, NoFault, Goto, store, requests, mishaps, Pools
<1>4. ASSUME NEW r \in Requests, QueueFull(r) PROVE MayHoldLease(q, t)'
    BY <1>4 DEF QueueFull, Pool, Fault, NoFault, Goto, store, requests, mishaps, Pools
<1>5. ASSUME NEW r \in Requests, Enter(r) PROVE MayHoldLease(q, t)'
    BY <1>5 DEF Enter, Acquire, Pool, Fault, NoFault, Goto, store, requests, mishaps, Pools
<1>6. ASSUME NEW r \in Requests, Quit(r) PROVE MayHoldLease(q, t)'
    BY <1>6 DEF Quit, AcquireFails, Pool, Fault, NoFault, Goto, store, requests, mishaps,
       Pools
<1>7. ASSUME NEW r \in Requests, LeaveAdmitted(r) PROVE MayHoldLease(q, t)'
    BY <1>7 DEF LeaveAdmitted, Decrement, Pool, Fault, NoFault, Goto, store, requests,
       mishaps, Pools
<1>8. ASSUME NEW r \in Requests, LeaveWithout(r) PROVE MayHoldLease(q, t)'
    BY <1>8 DEF LeaveWithout, Decrement, Pool, Fault, NoFault, Goto, store, requests,
       mishaps, Pools
<1>9. ASSUME NEW r \in Requests, Finish(r) PROVE MayHoldLease(q, t)'
    BY <1>9 DEF Finish, Release, Fault, NoFault, Goto, store, requests, mishaps, Pools
<1>10. ASSUME NEW r \in Requests, Disconnect(r) PROVE MayHoldLease(q, t)'
    BY <1>10 DEF Disconnect, Fault, NoFault, Goto, store, requests, mishaps, Pools
<1>11. ASSUME NEW r \in Requests, Drained(r) PROVE MayHoldLease(q, t)'
    BY <1>11 DEF Drained, CallPools, Fault, NoFault, Goto, store, requests, mishaps, Pools
<1>12. ASSUME NEW r \in Requests, Close(r) PROVE MayHoldLease(q, t)'
    BY <1>12 DEF Close, Release, Fault, NoFault, Goto, store, requests, mishaps, Pools
<1>13. ASSUME NEW r \in Requests, NEW a \in Accounts, SelectAccount(r, a)
       PROVE MayHoldLease(q, t)'
    BY <1>13 DEF SelectAccount, Acquire, AcquireFails, Fault, NoFault, Goto, store,
       requests, mishaps, Pools
<1>14. ASSUME NEW r \in Requests, NEW a \in Accounts, PlanWait(r, a)
       PROVE MayHoldLease(q, t)'
    BY <1>14 DEF PlanWait, Fault, NoFault, Goto, store, requests, mishaps, Pools
<1>15. ASSUME NEW r \in Requests, NEW s \in Pools, ReleaseOnDone(r, s)
       PROVE MayHoldLease(q, t)'
    BY <1>15 DEF ReleaseOnDone, Release, CallPools, Fault, NoFault, Goto, store, requests,
       mishaps, Pools
<1>16. ASSUME NEW r \in Calls, AcquireLease(r) PROVE MayHoldLease(q, t)'
    BY <1>16 DEF AcquireLease, CallPools, Fault, NoFault, Goto, store, requests, mishaps,
       Pools
<1>17. ASSUME NEW r \in Calls, LeaseRefused(r) PROVE MayHoldLease(q, t)'
    BY <1>17 DEF LeaseRefused, Release, Fault, NoFault, Goto, store, requests, mishaps,
       Pools
<1>18. ASSUME NEW r \in Calls, CreateUpstream(r) PROVE MayHoldLease(q, t)'
    BY <1>18 DEF CreateUpstream, Release, Fault, NoFault, Goto, store, requests, mishaps,
       Pools
<1>19. ASSUME NEW r \in Calls, SaveCall(r) PROVE MayHoldLease(q, t)'
    BY <1>19 DEF SaveCall, Fault, NoFault, Goto, store, requests, mishaps, Pools
<1>20. ASSUME NEW r \in Calls, DropLease(r) PROVE MayHoldLease(q, t)'
    BY <1>20 DEF DropLease, ReleaseLease, Fault, NoFault, Goto, store, requests, mishaps,
       Pools
<1>21. ASSUME NEW r \in Calls, AnswerCall(r) PROVE MayHoldLease(q, t)'
    BY <1>21 DEF AnswerCall, Release, Fault, NoFault, Goto, store, requests, mishaps, Pools
<1>22. ASSUME NEW r \in Calls, EndSession(r) PROVE MayHoldLease(q, t)'
    BY <1>22 DEF EndSession, Fault, NoFault, Goto, store, requests, mishaps, Pools
<1>23. ASSUME NEW r \in Calls, LoseSession(r) PROVE MayHoldLease(q, t)'
    BY <1>23 DEF LoseSession, Fault, NoFault, Goto, store, requests, mishaps, Pools
<1>24. ASSUME NEW r \in Calls, Finalize(r) PROVE MayHoldLease(q, t)'
    BY <1>24 DEF Finalize, ReleaseLease, Fault, NoFault, Goto, store, requests, mishaps,
       Pools
<1>25. ASSUME NEW s \in Pools, ExpireGhost(s) PROVE MayHoldLease(q, t)'
    BY <1>25 DEF ExpireGhost, Fault, NoFault, Goto, store, requests, mishaps, Pools
<1>26. ASSUME NEW s \in Pools, ExpireStray(s) PROVE MayHoldLease(q, t)'
    BY <1>26 DEF ExpireStray, Fault, NoFault, Goto, store, requests, mishaps, Pools
<1>27. ASSUME NEW s \in Pools, ExpireWaits(s) PROVE MayHoldLease(q, t)'
    BY <1>27 DEF ExpireWaits, Waiters, Pool, Fault, NoFault, Goto, store, requests,
       mishaps, Pools
<1>28. ASSUME NEW r \in Requests, NEW s \in Pools, ExpireSlot(r, s)
       PROVE MayHoldLease(q, t)'
    BY <1>28 DEF ExpireSlot, Fault, NoFault, Goto, store, requests, mishaps, Pools
<1>29. ASSUME NEW r \in Calls, ExpireLease(r) PROVE MayHoldLease(q, t)'
    BY <1>29 DEF ExpireLease, Fault, NoFault, Goto, store, requests, mishaps, Pools
<1>30. ASSUME NEW p \in Processes, Crash(p) PROVE MayHoldLease(q, t)'
    BY <1>30 DEF Crash, Running, Fault, NoFault, Goto, store, requests, mishaps, Pools
<1>31. ASSUME NEW p \in Processes, NEW s \in Pools, Sweep(p, s) PROVE MayHoldLease(q, t)'
    BY <1>31 DEF Sweep, SweepSlots, Purges, Fault, NoFault, Goto, store, requests, mishaps,
       Pools
<1>32. ASSUME NEW p \in Processes, NEW s \in Pools, SweepFails(p, s)
       PROVE MayHoldLease(q, t)'
    BY <1>32 DEF SweepFails, SweepSlots, Purges, Fault, NoFault, Goto, store, requests,
       mishaps, Pools
<1> QED
    BY <1>0, <1>1, <1>2, <1>3, <1>4, <1>5, <1>6, <1>7, <1>8, <1>9, <1>10, <1>11, <1>12,
       <1>13, <1>14, <1>15, <1>16, <1>17, <1>18, <1>19, <1>20, <1>21, <1>22, <1>23, <1>24,
       <1>25, <1>26, <1>27, <1>28, <1>29, <1>30, <1>31, <1>32
    DEF Next, Handle, Call, Time, Restart

\* Every step preserves SlotsHeld.
LEMMA SlotsHeldStep ==
    TypeOK /\ Places /\ SlotsHeld /\ [Next]_vars => SlotsHeld'
<1> SUFFICES ASSUME TypeOK, Places, SlotsHeld, [Next]_vars,
                   Without({"purge", "outlive"})', NEW q \in Requests PROVE Holds(q)'
    BY DEF SlotsHeld
<1> USE PoolsAssumption DEF TypeOK, Places, SlotsHeld, Holds, Without, HasUser, HasAccount, Leased, Queued
<1>0. CASE UNCHANGED vars
    BY <1>0 DEF vars, store, requests, mishaps, Pools
<1>1. ASSUME NEW r \in Requests, TryUser(r) PROVE Holds(q)'
    BY <1>1 DEF TryUser, Acquire, Full, AcquireFails, Fault, NoFault, Goto, store,
       requests, mishaps, Pools
<1>2. ASSUME NEW r \in Requests, SelectFails(r) PROVE Holds(q)'
    BY <1>2 DEF SelectFails, Fault, NoFault, Goto, store, requests, mishaps, Pools
<1>3. ASSUME NEW r \in Requests, Queue(r) PROVE Holds(q)'
    BY <1>3 DEF Queue, Joins, Pool, Fault, NoFault, Goto, store, requests, mishaps, Pools
<1>4. ASSUME NEW r \in Requests, QueueFull(r) PROVE Holds(q)'
    BY <1>4 DEF QueueFull, Pool, Fault, NoFault, Goto, store, requests, mishaps, Pools
<1>5. ASSUME NEW r \in Requests, Enter(r) PROVE Holds(q)'
    BY <1>5 DEF Enter, Acquire, Pool, Fault, NoFault, Goto, store, requests, mishaps, Pools
<1>6. ASSUME NEW r \in Requests, Quit(r) PROVE Holds(q)'
    BY <1>6 DEF Quit, AcquireFails, Pool, Fault, NoFault, Goto, store, requests, mishaps,
       Pools
<1>7. ASSUME NEW r \in Requests, LeaveAdmitted(r) PROVE Holds(q)'
    BY <1>7 DEF LeaveAdmitted, Decrement, Pool, Fault, NoFault, Goto, store, requests,
       mishaps, Pools
<1>8. ASSUME NEW r \in Requests, LeaveWithout(r) PROVE Holds(q)'
    BY <1>8 DEF LeaveWithout, Decrement, Pool, Fault, NoFault, Goto, store, requests,
       mishaps, Pools
<1>9. ASSUME NEW r \in Requests, Finish(r) PROVE Holds(q)'
    BY <1>9 DEF Finish, Release, Fault, NoFault, Goto, store, requests, mishaps, Pools
<1>10. ASSUME NEW r \in Requests, Disconnect(r) PROVE Holds(q)'
    BY <1>10 DEF Disconnect, Fault, NoFault, Goto, store, requests, mishaps, Pools
<1>11. ASSUME NEW r \in Requests, Drained(r) PROVE Holds(q)'
    BY <1>11 DEF Drained, CallPools, Fault, NoFault, Goto, store, requests, mishaps, Pools
<1>12. ASSUME NEW r \in Requests, Close(r) PROVE Holds(q)'
    BY <1>12 DEF Close, Release, Fault, NoFault, Goto, store, requests, mishaps, Pools
<1>13. ASSUME NEW r \in Requests, NEW a \in Accounts, SelectAccount(r, a) PROVE Holds(q)'
    BY <1>13 DEF SelectAccount, Acquire, AcquireFails, Fault, NoFault, Goto, store,
       requests, mishaps, Pools
<1>14. ASSUME NEW r \in Requests, NEW a \in Accounts, PlanWait(r, a) PROVE Holds(q)'
    BY <1>14 DEF PlanWait, Fault, NoFault, Goto, store, requests, mishaps, Pools
<1>15. ASSUME NEW r \in Requests, NEW s \in Pools, ReleaseOnDone(r, s) PROVE Holds(q)'
    BY <1>15 DEF ReleaseOnDone, Release, CallPools, Fault, NoFault, Goto, store, requests,
       mishaps, Pools
<1>16. ASSUME NEW r \in Calls, AcquireLease(r) PROVE Holds(q)'
    BY <1>16 DEF AcquireLease, CallPools, Fault, NoFault, Goto, store, requests, mishaps,
       Pools
<1>17. ASSUME NEW r \in Calls, LeaseRefused(r) PROVE Holds(q)'
    BY <1>17 DEF LeaseRefused, Release, Fault, NoFault, Goto, store, requests, mishaps,
       Pools
<1>18. ASSUME NEW r \in Calls, CreateUpstream(r) PROVE Holds(q)'
    BY <1>18 DEF CreateUpstream, Release, Fault, NoFault, Goto, store, requests, mishaps,
       Pools
<1>19. ASSUME NEW r \in Calls, SaveCall(r) PROVE Holds(q)'
    BY <1>19 DEF SaveCall, Fault, NoFault, Goto, store, requests, mishaps, Pools
<1>20. ASSUME NEW r \in Calls, DropLease(r) PROVE Holds(q)'
    BY <1>20 DEF DropLease, ReleaseLease, Fault, NoFault, Goto, store, requests, mishaps,
       Pools
<1>21. ASSUME NEW r \in Calls, AnswerCall(r) PROVE Holds(q)'
    BY <1>21 DEF AnswerCall, Release, Fault, NoFault, Goto, store, requests, mishaps, Pools
<1>22. ASSUME NEW r \in Calls, EndSession(r) PROVE Holds(q)'
    BY <1>22 DEF EndSession, Fault, NoFault, Goto, store, requests, mishaps, Pools
<1>23. ASSUME NEW r \in Calls, LoseSession(r) PROVE Holds(q)'
    BY <1>23 DEF LoseSession, Fault, NoFault, Goto, store, requests, mishaps, Pools
<1>24. ASSUME NEW r \in Calls, Finalize(r) PROVE Holds(q)'
    BY <1>24 DEF Finalize, ReleaseLease, Fault, NoFault, Goto, store, requests, mishaps,
       Pools
<1>25. ASSUME NEW s \in Pools, ExpireGhost(s) PROVE Holds(q)'
    BY <1>25 DEF ExpireGhost, Fault, NoFault, Goto, store, requests, mishaps, Pools
<1>26. ASSUME NEW s \in Pools, ExpireStray(s) PROVE Holds(q)'
    BY <1>26 DEF ExpireStray, Fault, NoFault, Goto, store, requests, mishaps, Pools
<1>27. ASSUME NEW s \in Pools, ExpireWaits(s) PROVE Holds(q)'
    BY <1>27 DEF ExpireWaits, Waiters, Pool, Fault, NoFault, Goto, store, requests,
       mishaps, Pools
<1>28. ASSUME NEW r \in Requests, NEW s \in Pools, ExpireSlot(r, s) PROVE Holds(q)'
    BY <1>28 DEF ExpireSlot, Fault, NoFault, Goto, store, requests, mishaps, Pools
<1>29. ASSUME NEW r \in Calls, ExpireLease(r) PROVE Holds(q)'
    BY <1>29 DEF ExpireLease, Fault, NoFault, Goto, store, requests, mishaps, Pools
<1>30. ASSUME NEW p \in Processes, Crash(p) PROVE Holds(q)'
    BY <1>30 DEF Crash, Running, Fault, NoFault, Goto, store, requests, mishaps, Pools
<1>31. ASSUME NEW p \in Processes, NEW s \in Pools, Sweep(p, s) PROVE Holds(q)'
    BY <1>31 DEF Sweep, SweepSlots, Purges, Fault, NoFault, Goto, store, requests, mishaps,
       Pools
<1>32. ASSUME NEW p \in Processes, NEW s \in Pools, SweepFails(p, s) PROVE Holds(q)'
  <2>1. CASE SweepSlots(s) /\ happened' = happened \cup Purges(s)
    <3>1. slots[s] = {}
      BY <2>1 DEF Purges
    <3> QED
      BY <1>32, <2>1, <3>1 DEF SweepFails, SweepSlots, requests, Pools
  <2>2. CASE UNCHANGED <<slots, ghosts, happened>>
    BY <1>32, <2>2 DEF SweepFails, requests, Pools
  <2> QED
    BY <1>32, <2>1, <2>2 DEF SweepFails
<1> QED
    BY <1>0, <1>1, <1>2, <1>3, <1>4, <1>5, <1>6, <1>7, <1>8, <1>9, <1>10, <1>11, <1>12,
       <1>13, <1>14, <1>15, <1>16, <1>17, <1>18, <1>19, <1>20, <1>21, <1>22, <1>23, <1>24,
       <1>25, <1>26, <1>27, <1>28, <1>29, <1>30, <1>31, <1>32
    DEF Next, Handle, Call, Time, Restart

\* What has happened is never forgotten.
LEMMA Remembered ==
    TypeOK /\ [Next]_vars => happened \subseteq happened'
<1> SUFFICES ASSUME TypeOK, [Next]_vars PROVE happened \subseteq happened'
    OBVIOUS
<1>0. CASE UNCHANGED vars
    BY <1>0 DEF vars, store, requests, mishaps, Pools
<1>1. ASSUME NEW r \in Requests, TryUser(r) PROVE happened \subseteq happened'
    BY <1>1 DEF TryUser, Acquire, Full, AcquireFails, Fault, NoFault, Goto, store,
       requests, mishaps, Pools
<1>2. ASSUME NEW r \in Requests, SelectFails(r) PROVE happened \subseteq happened'
    BY <1>2 DEF SelectFails, Fault, NoFault, Goto, store, requests, mishaps, Pools
<1>3. ASSUME NEW r \in Requests, Queue(r) PROVE happened \subseteq happened'
    BY <1>3 DEF Queue, Joins, Pool, Fault, NoFault, Goto, store, requests, mishaps, Pools
<1>4. ASSUME NEW r \in Requests, QueueFull(r) PROVE happened \subseteq happened'
    BY <1>4 DEF QueueFull, Pool, Fault, NoFault, Goto, store, requests, mishaps, Pools
<1>5. ASSUME NEW r \in Requests, Enter(r) PROVE happened \subseteq happened'
    BY <1>5 DEF Enter, Acquire, Pool, Fault, NoFault, Goto, store, requests, mishaps, Pools
<1>6. ASSUME NEW r \in Requests, Quit(r) PROVE happened \subseteq happened'
    BY <1>6 DEF Quit, AcquireFails, Pool, Fault, NoFault, Goto, store, requests, mishaps,
       Pools
<1>7. ASSUME NEW r \in Requests, LeaveAdmitted(r) PROVE happened \subseteq happened'
    BY <1>7 DEF LeaveAdmitted, Decrement, Pool, Fault, NoFault, Goto, store, requests,
       mishaps, Pools
<1>8. ASSUME NEW r \in Requests, LeaveWithout(r) PROVE happened \subseteq happened'
    BY <1>8 DEF LeaveWithout, Decrement, Pool, Fault, NoFault, Goto, store, requests,
       mishaps, Pools
<1>9. ASSUME NEW r \in Requests, Finish(r) PROVE happened \subseteq happened'
    BY <1>9 DEF Finish, Release, Fault, NoFault, Goto, store, requests, mishaps, Pools
<1>10. ASSUME NEW r \in Requests, Disconnect(r) PROVE happened \subseteq happened'
    BY <1>10 DEF Disconnect, Fault, NoFault, Goto, store, requests, mishaps, Pools
<1>11. ASSUME NEW r \in Requests, Drained(r) PROVE happened \subseteq happened'
    BY <1>11 DEF Drained, CallPools, Fault, NoFault, Goto, store, requests, mishaps, Pools
<1>12. ASSUME NEW r \in Requests, Close(r) PROVE happened \subseteq happened'
    BY <1>12 DEF Close, Release, Fault, NoFault, Goto, store, requests, mishaps, Pools
<1>13. ASSUME NEW r \in Requests, NEW a \in Accounts, SelectAccount(r, a)
       PROVE happened \subseteq happened'
    BY <1>13 DEF SelectAccount, Acquire, AcquireFails, Fault, NoFault, Goto, store,
       requests, mishaps, Pools
<1>14. ASSUME NEW r \in Requests, NEW a \in Accounts, PlanWait(r, a)
       PROVE happened \subseteq happened'
    BY <1>14 DEF PlanWait, Fault, NoFault, Goto, store, requests, mishaps, Pools
<1>15. ASSUME NEW r \in Requests, NEW s \in Pools, ReleaseOnDone(r, s)
       PROVE happened \subseteq happened'
    BY <1>15 DEF ReleaseOnDone, Release, CallPools, Fault, NoFault, Goto, store, requests,
       mishaps, Pools
<1>16. ASSUME NEW r \in Calls, AcquireLease(r) PROVE happened \subseteq happened'
    BY <1>16 DEF AcquireLease, CallPools, Fault, NoFault, Goto, store, requests, mishaps,
       Pools
<1>17. ASSUME NEW r \in Calls, LeaseRefused(r) PROVE happened \subseteq happened'
    BY <1>17 DEF LeaseRefused, Release, Fault, NoFault, Goto, store, requests, mishaps,
       Pools
<1>18. ASSUME NEW r \in Calls, CreateUpstream(r) PROVE happened \subseteq happened'
    BY <1>18 DEF CreateUpstream, Release, Fault, NoFault, Goto, store, requests, mishaps,
       Pools
<1>19. ASSUME NEW r \in Calls, SaveCall(r) PROVE happened \subseteq happened'
    BY <1>19 DEF SaveCall, Fault, NoFault, Goto, store, requests, mishaps, Pools
<1>20. ASSUME NEW r \in Calls, DropLease(r) PROVE happened \subseteq happened'
    BY <1>20 DEF DropLease, ReleaseLease, Fault, NoFault, Goto, store, requests, mishaps,
       Pools
<1>21. ASSUME NEW r \in Calls, AnswerCall(r) PROVE happened \subseteq happened'
    BY <1>21 DEF AnswerCall, Release, Fault, NoFault, Goto, store, requests, mishaps, Pools
<1>22. ASSUME NEW r \in Calls, EndSession(r) PROVE happened \subseteq happened'
    BY <1>22 DEF EndSession, Fault, NoFault, Goto, store, requests, mishaps, Pools
<1>23. ASSUME NEW r \in Calls, LoseSession(r) PROVE happened \subseteq happened'
    BY <1>23 DEF LoseSession, Fault, NoFault, Goto, store, requests, mishaps, Pools
<1>24. ASSUME NEW r \in Calls, Finalize(r) PROVE happened \subseteq happened'
    BY <1>24 DEF Finalize, ReleaseLease, Fault, NoFault, Goto, store, requests, mishaps,
       Pools
<1>25. ASSUME NEW s \in Pools, ExpireGhost(s) PROVE happened \subseteq happened'
    BY <1>25 DEF ExpireGhost, Fault, NoFault, Goto, store, requests, mishaps, Pools
<1>26. ASSUME NEW s \in Pools, ExpireStray(s) PROVE happened \subseteq happened'
    BY <1>26 DEF ExpireStray, Fault, NoFault, Goto, store, requests, mishaps, Pools
<1>27. ASSUME NEW s \in Pools, ExpireWaits(s) PROVE happened \subseteq happened'
    BY <1>27 DEF ExpireWaits, Waiters, Pool, Fault, NoFault, Goto, store, requests,
       mishaps, Pools
<1>28. ASSUME NEW r \in Requests, NEW s \in Pools, ExpireSlot(r, s)
       PROVE happened \subseteq happened'
    BY <1>28 DEF ExpireSlot, Fault, NoFault, Goto, store, requests, mishaps, Pools
<1>29. ASSUME NEW r \in Calls, ExpireLease(r) PROVE happened \subseteq happened'
    BY <1>29 DEF ExpireLease, Fault, NoFault, Goto, store, requests, mishaps, Pools
<1>30. ASSUME NEW p \in Processes, Crash(p) PROVE happened \subseteq happened'
    BY <1>30 DEF Crash, Running, Fault, NoFault, Goto, store, requests, mishaps, Pools
<1>31. ASSUME NEW p \in Processes, NEW s \in Pools, Sweep(p, s)
       PROVE happened \subseteq happened'
    BY <1>31 DEF Sweep, SweepSlots, Purges, Fault, NoFault, Goto, store, requests, mishaps,
       Pools
<1>32. ASSUME NEW p \in Processes, NEW s \in Pools, SweepFails(p, s)
       PROVE happened \subseteq happened'
    BY <1>32 DEF SweepFails, SweepSlots, Purges, Fault, NoFault, Goto, store, requests,
       mishaps, Pools
<1> QED
    BY <1>0, <1>1, <1>2, <1>3, <1>4, <1>5, <1>6, <1>7, <1>8, <1>9, <1>10, <1>11, <1>12,
       <1>13, <1>14, <1>15, <1>16, <1>17, <1>18, <1>19, <1>20, <1>21, <1>22, <1>23, <1>24,
       <1>25, <1>26, <1>27, <1>28, <1>29, <1>30, <1>31, <1>32
    DEF Next, Handle, Call, Time, Restart

\* Every step preserves SweepAfterCrash.
LEMMA SweepStep ==
    TypeOK /\ SweepAfterCrash /\ [Next]_vars => SweepAfterCrash'
<1> SUFFICES ASSUME TypeOK, SweepAfterCrash, [Next]_vars PROVE SweepAfterCrash'
    OBVIOUS
<1> USE PoolsAssumption DEF TypeOK, SweepAfterCrash
<1>0. CASE UNCHANGED vars
    BY <1>0 DEF vars, store, requests, mishaps, Pools
<1>1. ASSUME NEW r \in Requests, TryUser(r) PROVE SweepAfterCrash'
    BY <1>1 DEF TryUser, Acquire, Full, AcquireFails, Fault, NoFault, Goto, store,
       requests, mishaps, Pools
<1>2. ASSUME NEW r \in Requests, SelectFails(r) PROVE SweepAfterCrash'
    BY <1>2 DEF SelectFails, Fault, NoFault, Goto, store, requests, mishaps, Pools
<1>3. ASSUME NEW r \in Requests, Queue(r) PROVE SweepAfterCrash'
    BY <1>3 DEF Queue, Joins, Pool, Fault, NoFault, Goto, store, requests, mishaps, Pools
<1>4. ASSUME NEW r \in Requests, QueueFull(r) PROVE SweepAfterCrash'
    BY <1>4 DEF QueueFull, Pool, Fault, NoFault, Goto, store, requests, mishaps, Pools
<1>5. ASSUME NEW r \in Requests, Enter(r) PROVE SweepAfterCrash'
    BY <1>5 DEF Enter, Acquire, Pool, Fault, NoFault, Goto, store, requests, mishaps, Pools
<1>6. ASSUME NEW r \in Requests, Quit(r) PROVE SweepAfterCrash'
    BY <1>6 DEF Quit, AcquireFails, Pool, Fault, NoFault, Goto, store, requests, mishaps,
       Pools
<1>7. ASSUME NEW r \in Requests, LeaveAdmitted(r) PROVE SweepAfterCrash'
    BY <1>7 DEF LeaveAdmitted, Decrement, Pool, Fault, NoFault, Goto, store, requests,
       mishaps, Pools
<1>8. ASSUME NEW r \in Requests, LeaveWithout(r) PROVE SweepAfterCrash'
    BY <1>8 DEF LeaveWithout, Decrement, Pool, Fault, NoFault, Goto, store, requests,
       mishaps, Pools
<1>9. ASSUME NEW r \in Requests, Finish(r) PROVE SweepAfterCrash'
    BY <1>9 DEF Finish, Release, Fault, NoFault, Goto, store, requests, mishaps, Pools
<1>10. ASSUME NEW r \in Requests, Disconnect(r) PROVE SweepAfterCrash'
    BY <1>10 DEF Disconnect, Fault, NoFault, Goto, store, requests, mishaps, Pools
<1>11. ASSUME NEW r \in Requests, Drained(r) PROVE SweepAfterCrash'
    BY <1>11 DEF Drained, CallPools, Fault, NoFault, Goto, store, requests, mishaps, Pools
<1>12. ASSUME NEW r \in Requests, Close(r) PROVE SweepAfterCrash'
    BY <1>12 DEF Close, Release, Fault, NoFault, Goto, store, requests, mishaps, Pools
<1>13. ASSUME NEW r \in Requests, NEW a \in Accounts, SelectAccount(r, a)
       PROVE SweepAfterCrash'
    BY <1>13 DEF SelectAccount, Acquire, AcquireFails, Fault, NoFault, Goto, store,
       requests, mishaps, Pools
<1>14. ASSUME NEW r \in Requests, NEW a \in Accounts, PlanWait(r, a) PROVE SweepAfterCrash'
    BY <1>14 DEF PlanWait, Fault, NoFault, Goto, store, requests, mishaps, Pools
<1>15. ASSUME NEW r \in Requests, NEW s \in Pools, ReleaseOnDone(r, s)
       PROVE SweepAfterCrash'
    BY <1>15 DEF ReleaseOnDone, Release, CallPools, Fault, NoFault, Goto, store, requests,
       mishaps, Pools
<1>16. ASSUME NEW r \in Calls, AcquireLease(r) PROVE SweepAfterCrash'
    BY <1>16 DEF AcquireLease, CallPools, Fault, NoFault, Goto, store, requests, mishaps,
       Pools
<1>17. ASSUME NEW r \in Calls, LeaseRefused(r) PROVE SweepAfterCrash'
    BY <1>17 DEF LeaseRefused, Release, Fault, NoFault, Goto, store, requests, mishaps,
       Pools
<1>18. ASSUME NEW r \in Calls, CreateUpstream(r) PROVE SweepAfterCrash'
    BY <1>18 DEF CreateUpstream, Release, Fault, NoFault, Goto, store, requests, mishaps,
       Pools
<1>19. ASSUME NEW r \in Calls, SaveCall(r) PROVE SweepAfterCrash'
    BY <1>19 DEF SaveCall, Fault, NoFault, Goto, store, requests, mishaps, Pools
<1>20. ASSUME NEW r \in Calls, DropLease(r) PROVE SweepAfterCrash'
    BY <1>20 DEF DropLease, ReleaseLease, Fault, NoFault, Goto, store, requests, mishaps,
       Pools
<1>21. ASSUME NEW r \in Calls, AnswerCall(r) PROVE SweepAfterCrash'
    BY <1>21 DEF AnswerCall, Release, Fault, NoFault, Goto, store, requests, mishaps, Pools
<1>22. ASSUME NEW r \in Calls, EndSession(r) PROVE SweepAfterCrash'
    BY <1>22 DEF EndSession, Fault, NoFault, Goto, store, requests, mishaps, Pools
<1>23. ASSUME NEW r \in Calls, LoseSession(r) PROVE SweepAfterCrash'
    BY <1>23 DEF LoseSession, Fault, NoFault, Goto, store, requests, mishaps, Pools
<1>24. ASSUME NEW r \in Calls, Finalize(r) PROVE SweepAfterCrash'
    BY <1>24 DEF Finalize, ReleaseLease, Fault, NoFault, Goto, store, requests, mishaps,
       Pools
<1>25. ASSUME NEW s \in Pools, ExpireGhost(s) PROVE SweepAfterCrash'
    BY <1>25 DEF ExpireGhost, Fault, NoFault, Goto, store, requests, mishaps, Pools
<1>26. ASSUME NEW s \in Pools, ExpireStray(s) PROVE SweepAfterCrash'
    BY <1>26 DEF ExpireStray, Fault, NoFault, Goto, store, requests, mishaps, Pools
<1>27. ASSUME NEW s \in Pools, ExpireWaits(s) PROVE SweepAfterCrash'
    BY <1>27 DEF ExpireWaits, Waiters, Pool, Fault, NoFault, Goto, store, requests,
       mishaps, Pools
<1>28. ASSUME NEW r \in Requests, NEW s \in Pools, ExpireSlot(r, s) PROVE SweepAfterCrash'
    BY <1>28 DEF ExpireSlot, Fault, NoFault, Goto, store, requests, mishaps, Pools
<1>29. ASSUME NEW r \in Calls, ExpireLease(r) PROVE SweepAfterCrash'
    BY <1>29 DEF ExpireLease, Fault, NoFault, Goto, store, requests, mishaps, Pools
<1>30. ASSUME NEW p \in Processes, Crash(p) PROVE SweepAfterCrash'
    BY <1>30 DEF Crash, Running, Fault, NoFault, Goto, store, requests, mishaps, Pools
<1>31. ASSUME NEW p \in Processes, NEW s \in Pools, Sweep(p, s) PROVE SweepAfterCrash'
    BY <1>31 DEF Sweep, SweepSlots, Purges, Fault, NoFault, Goto, store, requests, mishaps,
       Pools
<1>32. ASSUME NEW p \in Processes, NEW s \in Pools, SweepFails(p, s) PROVE SweepAfterCrash'
    BY <1>32 DEF SweepFails, SweepSlots, Purges, Fault, NoFault, Goto, store, requests,
       mishaps, Pools
<1> QED
    BY <1>0, <1>1, <1>2, <1>3, <1>4, <1>5, <1>6, <1>7, <1>8, <1>9, <1>10, <1>11, <1>12,
       <1>13, <1>14, <1>15, <1>16, <1>17, <1>18, <1>19, <1>20, <1>21, <1>22, <1>23, <1>24,
       <1>25, <1>26, <1>27, <1>28, <1>29, <1>30, <1>31, <1>32
    DEF Next, Handle, Call, Time, Restart

\* A request more than a load below the limit.
LEMMA OneMore ==
    ASSUME TypeOK, NEW t \in Pools, NEW r \in Requests, Load(t) < Limit[t]
    PROVE  Cardinality((slots[t] \cup {r}) \cup live[t]) <= Limit[t]
<1> DEFINE A == slots[t]
           B == live[t]
<1>1. /\ IsFiniteSet(A) /\ IsFiniteSet(B)
      /\ Cardinality(A) \in Nat /\ Cardinality(B) \in Nat
    BY Finite, PoolsAssumption DEF TypeOK
<1>2. /\ IsFiniteSet(A \cup B)
      /\ Cardinality(A \cup B) \in Nat
      /\ Cardinality(A \cap B) \in Nat
      /\ Cardinality(A \cup B) = Cardinality(A) + Cardinality(B) - Cardinality(A \cap B)
    BY <1>1, FS_Union, FS_Intersection, FS_CardinalityType
<1>3. /\ Cardinality((A \cup B) \cup {r}) \in Nat
      /\ Cardinality((A \cup B) \cup {r}) <= Cardinality(A \cup B) + 1
  <2>1. CASE r \in A \cup B
    <3>1. (A \cup B) \cup {r} = A \cup B
      BY <2>1
    <3> HIDE DEF A, B
    <3> QED
      BY <3>1, <1>2
  <2>2. CASE r \notin A \cup B
    <3>1. Cardinality((A \cup B) \cup {r}) = Cardinality(A \cup B) + 1
      BY <1>2, <2>2, FS_AddElement
    <3> HIDE DEF A, B
    <3> QED
      BY <3>1, <1>2
  <2> QED
    BY <2>1, <2>2
<1>4. (A \cup {r}) \cup B = (A \cup B) \cup {r}
    OBVIOUS
<1>5. Load(t) = Cardinality(A) + ghosts[t] + Cardinality(B) + strays[t]
    BY DEF Load
<1>6. ghosts[t] \in Nat /\ strays[t] \in Nat /\ Limit[t] \in Nat
    BY LimitsAssumption DEF TypeOK
<1>7. Cardinality((A \cup B) \cup {r}) <= Limit[t]
  <2> DEFINE a == Cardinality(A)
             b == Cardinality(B)
             both == Cardinality(A \cap B)
             either == Cardinality(A \cup B)
             more == Cardinality((A \cup B) \cup {r})
  <2>1. /\ a \in Nat /\ b \in Nat /\ both \in Nat /\ either \in Nat /\ more \in Nat
        /\ either = a + b - both
        /\ more <= either + 1
        /\ a + ghosts[t] + b + strays[t] < Limit[t]
    BY <1>1, <1>2, <1>3, <1>5
  <2> HIDE DEF a, b, both, either, more
  <2>2. more <= Limit[t]
    BY <2>1, <1>6
  <2> QED
    BY <2>2 DEF more
<1> QED
    BY <1>4, <1>7 DEF A, B

\* What a step does to the slots and leases of a pool.
LEMMA GrowsStep ==
    TypeOK /\ Places /\ SlotsHeld /\ Without({"purge", "outlive"}) /\ [Next]_vars
        => \A t \in Pools : Grows(t)
<1> SUFFICES ASSUME TypeOK, Places, SlotsHeld, Without({"purge", "outlive"}), [Next]_vars,
                   NEW t \in Pools PROVE Grows(t)
    OBVIOUS
<1> USE PoolsAssumption DEF TypeOK, Places, Grows, Leased
<1>0. CASE UNCHANGED vars
    BY <1>0 DEF vars, store, requests, mishaps, Pools
<1>1. ASSUME NEW r \in Requests, TryUser(r) PROVE Grows(t)
    BY <1>1 DEF TryUser, Acquire, Full, AcquireFails, Fault, NoFault, Goto, store,
       requests, mishaps, Pools
<1>2. ASSUME NEW r \in Requests, SelectFails(r) PROVE Grows(t)
    BY <1>2 DEF SelectFails, Fault, NoFault, Goto, store, requests, mishaps, Pools
<1>3. ASSUME NEW r \in Requests, Queue(r) PROVE Grows(t)
    BY <1>3 DEF Queue, Joins, Pool, Fault, NoFault, Goto, store, requests, mishaps, Pools
<1>4. ASSUME NEW r \in Requests, QueueFull(r) PROVE Grows(t)
    BY <1>4 DEF QueueFull, Pool, Fault, NoFault, Goto, store, requests, mishaps, Pools
<1>5. ASSUME NEW r \in Requests, Enter(r) PROVE Grows(t)
    BY <1>5 DEF Enter, Acquire, Pool, Fault, NoFault, Goto, store, requests, mishaps, Pools
<1>6. ASSUME NEW r \in Requests, Quit(r) PROVE Grows(t)
    BY <1>6 DEF Quit, AcquireFails, Pool, Fault, NoFault, Goto, store, requests, mishaps,
       Pools
<1>7. ASSUME NEW r \in Requests, LeaveAdmitted(r) PROVE Grows(t)
    BY <1>7 DEF LeaveAdmitted, Decrement, Pool, Fault, NoFault, Goto, store, requests,
       mishaps, Pools
<1>8. ASSUME NEW r \in Requests, LeaveWithout(r) PROVE Grows(t)
    BY <1>8 DEF LeaveWithout, Decrement, Pool, Fault, NoFault, Goto, store, requests,
       mishaps, Pools
<1>9. ASSUME NEW r \in Requests, Finish(r) PROVE Grows(t)
    BY <1>9 DEF Finish, Release, Fault, NoFault, Goto, store, requests, mishaps, Pools
<1>10. ASSUME NEW r \in Requests, Disconnect(r) PROVE Grows(t)
    BY <1>10 DEF Disconnect, Fault, NoFault, Goto, store, requests, mishaps, Pools
<1>11. ASSUME NEW r \in Requests, Drained(r) PROVE Grows(t)
    BY <1>11 DEF Drained, CallPools, Fault, NoFault, Goto, store, requests, mishaps, Pools
<1>12. ASSUME NEW r \in Requests, Close(r) PROVE Grows(t)
    BY <1>12 DEF Close, Release, Fault, NoFault, Goto, store, requests, mishaps, Pools
<1>13. ASSUME NEW r \in Requests, NEW a \in Accounts, SelectAccount(r, a) PROVE Grows(t)
    BY <1>13 DEF SelectAccount, Acquire, AcquireFails, Fault, NoFault, Goto, store,
       requests, mishaps, Pools
<1>14. ASSUME NEW r \in Requests, NEW a \in Accounts, PlanWait(r, a) PROVE Grows(t)
    BY <1>14 DEF PlanWait, Fault, NoFault, Goto, store, requests, mishaps, Pools
<1>15. ASSUME NEW r \in Requests, NEW s \in Pools, ReleaseOnDone(r, s) PROVE Grows(t)
    BY <1>15 DEF ReleaseOnDone, Release, CallPools, Fault, NoFault, Goto, store, requests,
       mishaps, Pools
<1>16. ASSUME NEW r \in Calls, AcquireLease(r) PROVE Grows(t)
  <2>1. \A s \in CallPools(r) : r \in slots[s]
    BY <1>16 DEF AcquireLease, SlotsHeld, Holds, HasUser, HasAccount, CallPools
  <2>2. slots' = slots
    BY <1>16 DEF AcquireLease
  <2>3. live'[t] \subseteq live[t] \cup (IF t \in CallPools(r) THEN {r} ELSE {})
    BY <1>16 DEF AcquireLease
  <2> QED
    BY <2>1, <2>2, <2>3
<1>17. ASSUME NEW r \in Calls, LeaseRefused(r) PROVE Grows(t)
    BY <1>17 DEF LeaseRefused, Release, Fault, NoFault, Goto, store, requests, mishaps,
       Pools
<1>18. ASSUME NEW r \in Calls, CreateUpstream(r) PROVE Grows(t)
    BY <1>18 DEF CreateUpstream, Release, Fault, NoFault, Goto, store, requests, mishaps,
       Pools
<1>19. ASSUME NEW r \in Calls, SaveCall(r) PROVE Grows(t)
    BY <1>19 DEF SaveCall, Fault, NoFault, Goto, store, requests, mishaps, Pools
<1>20. ASSUME NEW r \in Calls, DropLease(r) PROVE Grows(t)
    BY <1>20 DEF DropLease, ReleaseLease, Fault, NoFault, Goto, store, requests, mishaps,
       Pools
<1>21. ASSUME NEW r \in Calls, AnswerCall(r) PROVE Grows(t)
    BY <1>21 DEF AnswerCall, Release, Fault, NoFault, Goto, store, requests, mishaps, Pools
<1>22. ASSUME NEW r \in Calls, EndSession(r) PROVE Grows(t)
    BY <1>22 DEF EndSession, Fault, NoFault, Goto, store, requests, mishaps, Pools
<1>23. ASSUME NEW r \in Calls, LoseSession(r) PROVE Grows(t)
    BY <1>23 DEF LoseSession, Fault, NoFault, Goto, store, requests, mishaps, Pools
<1>24. ASSUME NEW r \in Calls, Finalize(r) PROVE Grows(t)
    BY <1>24 DEF Finalize, ReleaseLease, Fault, NoFault, Goto, store, requests, mishaps,
       Pools
<1>25. ASSUME NEW s \in Pools, ExpireGhost(s) PROVE Grows(t)
    BY <1>25 DEF ExpireGhost, Fault, NoFault, Goto, store, requests, mishaps, Pools
<1>26. ASSUME NEW s \in Pools, ExpireStray(s) PROVE Grows(t)
    BY <1>26 DEF ExpireStray, Fault, NoFault, Goto, store, requests, mishaps, Pools
<1>27. ASSUME NEW s \in Pools, ExpireWaits(s) PROVE Grows(t)
    BY <1>27 DEF ExpireWaits, Waiters, Pool, Fault, NoFault, Goto, store, requests,
       mishaps, Pools
<1>28. ASSUME NEW r \in Requests, NEW s \in Pools, ExpireSlot(r, s) PROVE Grows(t)
    BY <1>28 DEF ExpireSlot, Fault, NoFault, Goto, store, requests, mishaps, Pools
<1>29. ASSUME NEW r \in Calls, ExpireLease(r) PROVE Grows(t)
    BY <1>29 DEF ExpireLease, Fault, NoFault, Goto, store, requests, mishaps, Pools
<1>30. ASSUME NEW p \in Processes, Crash(p) PROVE Grows(t)
    BY <1>30 DEF Crash, Running, Fault, NoFault, Goto, store, requests, mishaps, Pools
<1>31. ASSUME NEW p \in Processes, NEW s \in Pools, Sweep(p, s) PROVE Grows(t)
    BY <1>31 DEF Sweep, SweepSlots, Purges, Fault, NoFault, Goto, store, requests, mishaps,
       Pools
<1>32. ASSUME NEW p \in Processes, NEW s \in Pools, SweepFails(p, s) PROVE Grows(t)
    BY <1>32 DEF SweepFails, SweepSlots, Purges, Fault, NoFault, Goto, store, requests,
       mishaps, Pools
<1> QED
    BY <1>0, <1>1, <1>2, <1>3, <1>4, <1>5, <1>6, <1>7, <1>8, <1>9, <1>10, <1>11, <1>12,
       <1>13, <1>14, <1>15, <1>16, <1>17, <1>18, <1>19, <1>20, <1>21, <1>22, <1>23, <1>24,
       <1>25, <1>26, <1>27, <1>28, <1>29, <1>30, <1>31, <1>32
    DEF Next, Handle, Call, Time, Restart

\* Every step preserves Bounded.
LEMMA BoundedStep ==
    TypeOK /\ TypeOK' /\ Places /\ SlotsHeld /\ Bounded /\ [Next]_vars => Bounded'
<1> SUFFICES ASSUME TypeOK, TypeOK', Places, SlotsHeld, Bounded, [Next]_vars,
                   Without({"purge", "outlive"})', NEW t \in Pools
             PROVE  Cardinality(slots'[t] \cup live'[t]) <= Limit[t]
    BY DEF Bounded
<1>1. Without({"purge", "outlive"})
    BY Remembered DEF Without
<1>2. Cardinality(slots[t] \cup live[t]) <= Limit[t]
    BY <1>1 DEF Bounded
<1>3. /\ slots[t] \cup live[t] \in SUBSET Requests
      /\ slots'[t] \cup live'[t] \in SUBSET Requests
    BY PoolsAssumption DEF TypeOK
<1>4. /\ IsFiniteSet(slots[t] \cup live[t])
      /\ Cardinality(slots[t] \cup live[t]) \in Nat
      /\ Cardinality(slots'[t] \cup live'[t]) \in Nat
      /\ Limit[t] \in Nat
    BY <1>3, Finite, LimitsAssumption
<1>5. CASE slots'[t] \cup live'[t] \subseteq slots[t] \cup live[t]
  <2>1. Cardinality(slots'[t] \cup live'[t]) <= Cardinality(slots[t] \cup live[t])
    BY <1>4, <1>5, FS_Subset
  <2> QED
    BY <2>1, <1>2, <1>4
<1>6. ASSUME Load(t) < Limit[t], NEW r \in Requests,
             slots'[t] = slots[t] \cup {r}, live'[t] = live[t]
      PROVE  Cardinality(slots'[t] \cup live'[t]) <= Limit[t]
    BY <1>6, OneMore
<1>7. Grows(t)
    BY <1>1, GrowsStep
<1> QED
    BY <1>5, <1>6, <1>7 DEF Grows

\* What a step does to the queue of a pool.
LEMMA MovesStep ==
    TypeOK /\ Places /\ Without({"failOpen",
          "purge"})' /\ [Next]_vars => \A t \in Pools : Moves(t)
<1> SUFFICES ASSUME TypeOK, Places, Without({"failOpen", "purge"})', [Next]_vars,
                   NEW t \in Pools PROVE Moves(t)
    OBVIOUS
<1> USE PoolsAssumption DEF TypeOK, Places, Moves, Without, Leased
<1>0. CASE UNCHANGED vars
    BY <1>0 DEF vars, store, requests, mishaps, Pools, Waiters, Pool, Queued
<1>1. ASSUME NEW r \in Requests, TryUser(r) PROVE Moves(t)
    BY <1>1 DEF TryUser, Acquire, Full, AcquireFails, Fault, NoFault, Goto, store,
       requests, mishaps, Pools, Waiters, Pool, Queued
<1>2. ASSUME NEW r \in Requests, SelectFails(r) PROVE Moves(t)
    BY <1>2 DEF SelectFails, Fault, NoFault, Goto, store, requests, mishaps, Pools,
       Waiters, Pool, Queued
<1>3. ASSUME NEW r \in Requests, Queue(r) PROVE Moves(t)
  <2>1. CASE Fault("failOpen")
    BY <2>1 DEF Fault
  <2>2. CASE /\ \E max \in WaitLimits[Pool(r)] : waits[Pool(r)] < max
            /\ waits' = [waits EXCEPT ![Pool(r)] = @ + 1]
    <3>1. CASE t = Pool(r)
      <4>1. r \notin Waiters(t) /\ Waiters(t)' = Waiters(t) \cup {r}
        BY <1>3, <3>1 DEF Queue, Goto, Waiters, Pool, Queued
      <4> QED
        BY <2>2, <3>1, <4>1
    <3>2. CASE t # Pool(r)
      <4>1. Waiters(t)' = Waiters(t)
        BY <1>3, <3>2 DEF Queue, Goto, Waiters, Pool, Queued
      <4> QED
        BY <2>2, <3>2, <4>1
    <3> QED
      BY <3>1, <3>2
  <2> QED
    BY <1>3, <2>1, <2>2 DEF Queue, Joins
<1>4. ASSUME NEW r \in Requests, QueueFull(r) PROVE Moves(t)
    BY <1>4 DEF QueueFull, Pool, Fault, NoFault, Goto, store, requests, mishaps, Pools,
       Waiters, Pool, Queued
<1>5. ASSUME NEW r \in Requests, Enter(r) PROVE Moves(t)
    BY <1>5 DEF Enter, Acquire, Pool, Fault, NoFault, Goto, store, requests, mishaps,
       Pools, Waiters, Pool, Queued
<1>6. ASSUME NEW r \in Requests, Quit(r) PROVE Moves(t)
    BY <1>6 DEF Quit, AcquireFails, Pool, Fault, NoFault, Goto, store, requests, mishaps,
       Pools, Waiters, Pool, Queued
<1>7. ASSUME NEW r \in Requests, LeaveAdmitted(r) PROVE Moves(t)
  <2>1. CASE t # Pool(r)
    <3>1. Waiters(t)' = Waiters(t) /\ waits'[t] = waits[t]
      BY <1>7, <2>1 DEF LeaveAdmitted, Decrement, Goto, Waiters, Pool, Queued
    <3> QED
      BY <3>1
  <2>2. CASE t = Pool(r)
    <3>1. r \in Waiters(t) /\ Waiters(t)' = Waiters(t) \ {r}
      BY <1>7, <2>2 DEF LeaveAdmitted, Goto, Waiters, Pool, Queued
    <3>2. CASE Fault("redis") /\ waits' = waits
      BY <3>1, <3>2 DEF Fault
    <3>3. CASE waits' = [waits EXCEPT ![t] = IF @ > 0 THEN @ - 1 ELSE @]
      BY <3>1, <3>3
    <3> QED
      BY <1>7, <2>2, <3>2, <3>3 DEF LeaveAdmitted, Decrement
  <2> QED
    BY <2>1, <2>2
<1>8. ASSUME NEW r \in Requests, LeaveWithout(r) PROVE Moves(t)
  <2>1. CASE t # Pool(r)
    <3>1. Waiters(t)' = Waiters(t) /\ waits'[t] = waits[t]
      BY <1>8, <2>1 DEF LeaveWithout, Decrement, Goto, Waiters, Pool, Queued
    <3> QED
      BY <3>1
  <2>2. CASE t = Pool(r)
    <3>1. r \in Waiters(t) /\ Waiters(t)' = Waiters(t) \ {r}
      BY <1>8, <2>2 DEF LeaveWithout, Goto, Waiters, Pool, Queued
    <3>2. CASE Fault("redis") /\ waits' = waits
      BY <3>1, <3>2 DEF Fault
    <3>3. CASE waits' = [waits EXCEPT ![t] = IF @ > 0 THEN @ - 1 ELSE @]
      BY <3>1, <3>3
    <3> QED
      BY <1>8, <2>2, <3>2, <3>3 DEF LeaveWithout, Decrement
  <2> QED
    BY <2>1, <2>2
<1>9. ASSUME NEW r \in Requests, Finish(r) PROVE Moves(t)
    BY <1>9 DEF Finish, Release, Fault, NoFault, Goto, store, requests, mishaps, Pools,
       Waiters, Pool, Queued
<1>10. ASSUME NEW r \in Requests, Disconnect(r) PROVE Moves(t)
    BY <1>10 DEF Disconnect, Fault, NoFault, Goto, store, requests, mishaps, Pools,
       Waiters, Pool, Queued
<1>11. ASSUME NEW r \in Requests, Drained(r) PROVE Moves(t)
    BY <1>11 DEF Drained, CallPools, Fault, NoFault, Goto, store, requests, mishaps, Pools,
       Waiters, Pool, Queued
<1>12. ASSUME NEW r \in Requests, Close(r) PROVE Moves(t)
    BY <1>12 DEF Close, Release, Fault, NoFault, Goto, store, requests, mishaps, Pools,
       Waiters, Pool, Queued
<1>13. ASSUME NEW r \in Requests, NEW a \in Accounts, SelectAccount(r, a) PROVE Moves(t)
    BY <1>13 DEF SelectAccount, Acquire, AcquireFails, Fault, NoFault, Goto, store,
       requests, mishaps, Pools, Waiters, Pool, Queued
<1>14. ASSUME NEW r \in Requests, NEW a \in Accounts, PlanWait(r, a) PROVE Moves(t)
    BY <1>14 DEF PlanWait, Fault, NoFault, Goto, store, requests, mishaps, Pools, Waiters,
       Pool, Queued
<1>15. ASSUME NEW r \in Requests, NEW s \in Pools, ReleaseOnDone(r, s) PROVE Moves(t)
    BY <1>15 DEF ReleaseOnDone, Release, CallPools, Fault, NoFault, Goto, store, requests,
       mishaps, Pools, Waiters, Pool, Queued
<1>16. ASSUME NEW r \in Calls, AcquireLease(r) PROVE Moves(t)
    BY <1>16 DEF AcquireLease, CallPools, Fault, NoFault, Goto, store, requests, mishaps,
       Pools, Waiters, Pool, Queued
<1>17. ASSUME NEW r \in Calls, LeaseRefused(r) PROVE Moves(t)
    BY <1>17 DEF LeaseRefused, Release, Fault, NoFault, Goto, store, requests, mishaps,
       Pools, Waiters, Pool, Queued
<1>18. ASSUME NEW r \in Calls, CreateUpstream(r) PROVE Moves(t)
    BY <1>18 DEF CreateUpstream, Release, Fault, NoFault, Goto, store, requests, mishaps,
       Pools, Waiters, Pool, Queued
<1>19. ASSUME NEW r \in Calls, SaveCall(r) PROVE Moves(t)
    BY <1>19 DEF SaveCall, Fault, NoFault, Goto, store, requests, mishaps, Pools, Waiters,
       Pool, Queued
<1>20. ASSUME NEW r \in Calls, DropLease(r) PROVE Moves(t)
    BY <1>20 DEF DropLease, ReleaseLease, Fault, NoFault, Goto, store, requests, mishaps,
       Pools, Waiters, Pool, Queued
<1>21. ASSUME NEW r \in Calls, AnswerCall(r) PROVE Moves(t)
    BY <1>21 DEF AnswerCall, Release, Fault, NoFault, Goto, store, requests, mishaps,
       Pools, Waiters, Pool, Queued
<1>22. ASSUME NEW r \in Calls, EndSession(r) PROVE Moves(t)
    BY <1>22 DEF EndSession, Fault, NoFault, Goto, store, requests, mishaps, Pools,
       Waiters, Pool, Queued
<1>23. ASSUME NEW r \in Calls, LoseSession(r) PROVE Moves(t)
    BY <1>23 DEF LoseSession, Fault, NoFault, Goto, store, requests, mishaps, Pools,
       Waiters, Pool, Queued
<1>24. ASSUME NEW r \in Calls, Finalize(r) PROVE Moves(t)
    BY <1>24 DEF Finalize, ReleaseLease, Fault, NoFault, Goto, store, requests, mishaps,
       Pools, Waiters, Pool, Queued
<1>25. ASSUME NEW s \in Pools, ExpireGhost(s) PROVE Moves(t)
    BY <1>25 DEF ExpireGhost, Fault, NoFault, Goto, store, requests, mishaps, Pools,
       Waiters, Pool, Queued
<1>26. ASSUME NEW s \in Pools, ExpireStray(s) PROVE Moves(t)
    BY <1>26 DEF ExpireStray, Fault, NoFault, Goto, store, requests, mishaps, Pools,
       Waiters, Pool, Queued
<1>27. ASSUME NEW s \in Pools, ExpireWaits(s) PROVE Moves(t)
    BY <1>27 DEF ExpireWaits, Waiters, Pool, Fault, NoFault, Goto, store, requests,
       mishaps, Pools, Waiters, Pool, Queued
<1>28. ASSUME NEW r \in Requests, NEW s \in Pools, ExpireSlot(r, s) PROVE Moves(t)
    BY <1>28 DEF ExpireSlot, Fault, NoFault, Goto, store, requests, mishaps, Pools,
       Waiters, Pool, Queued
<1>29. ASSUME NEW r \in Calls, ExpireLease(r) PROVE Moves(t)
    BY <1>29 DEF ExpireLease, Fault, NoFault, Goto, store, requests, mishaps, Pools,
       Waiters, Pool, Queued
<1>30. ASSUME NEW p \in Processes, Crash(p) PROVE Moves(t)
    BY <1>30 DEF Crash, Running, Fault, NoFault, Goto, store, requests, mishaps, Pools,
       Waiters, Pool, Queued
<1>31. ASSUME NEW p \in Processes, NEW s \in Pools, Sweep(p, s) PROVE Moves(t)
  <2>1. Waiters(t)' = Waiters(t)
    BY <1>31 DEF Sweep, requests, Waiters, Pool
  <2>2. s = t => Waiters(t) = {}
    BY <1>31 DEF Sweep, Purges
  <2>3. waits' = [waits EXCEPT ![s] = 0]
    BY <1>31 DEF Sweep
  <2> QED
    BY <2>1, <2>2, <2>3
<1>32. ASSUME NEW p \in Processes, NEW s \in Pools, SweepFails(p, s) PROVE Moves(t)
    BY <1>32 DEF SweepFails, SweepSlots, Purges, Fault, NoFault, Goto, store, requests,
       mishaps, Pools, Waiters, Pool, Queued
<1> QED
    BY <1>0, <1>1, <1>2, <1>3, <1>4, <1>5, <1>6, <1>7, <1>8, <1>9, <1>10, <1>11, <1>12,
       <1>13, <1>14, <1>15, <1>16, <1>17, <1>18, <1>19, <1>20, <1>21, <1>22, <1>23, <1>24,
       <1>25, <1>26, <1>27, <1>28, <1>29, <1>30, <1>31, <1>32
    DEF Next, Handle, Call, Time, Restart

\* Only failed commands and crashes leave ghosts and strays.
LEMMA StoreStep ==
    TypeOK /\ [Next]_vars /\ Without({"redis", "crash"})' =>
        \A t \in Pools : ghosts[t] = 0 /\ strays[t] = 0 => ghosts'[t] = 0 /\ strays'[t] = 0
<1> SUFFICES ASSUME TypeOK, [Next]_vars, Without({"redis", "crash"})', NEW t \in Pools,
                   ghosts[t] = 0, strays[t] = 0 PROVE ghosts'[t] = 0 /\ strays'[t] = 0
    OBVIOUS
<1> USE PoolsAssumption DEF TypeOK, Without
<1>0. CASE UNCHANGED vars
    BY <1>0 DEF vars, store, requests, mishaps, Pools
<1>1. ASSUME NEW r \in Requests, TryUser(r) PROVE ghosts'[t] = 0 /\ strays'[t] = 0
    BY <1>1 DEF TryUser, Acquire, Full, AcquireFails, Fault, NoFault, Goto, store,
       requests, mishaps, Pools
<1>2. ASSUME NEW r \in Requests, SelectFails(r) PROVE ghosts'[t] = 0 /\ strays'[t] = 0
    BY <1>2 DEF SelectFails, Fault, NoFault, Goto, store, requests, mishaps, Pools
<1>3. ASSUME NEW r \in Requests, Queue(r) PROVE ghosts'[t] = 0 /\ strays'[t] = 0
    BY <1>3 DEF Queue, Joins, Pool, Fault, NoFault, Goto, store, requests, mishaps, Pools
<1>4. ASSUME NEW r \in Requests, QueueFull(r) PROVE ghosts'[t] = 0 /\ strays'[t] = 0
    BY <1>4 DEF QueueFull, Pool, Fault, NoFault, Goto, store, requests, mishaps, Pools
<1>5. ASSUME NEW r \in Requests, Enter(r) PROVE ghosts'[t] = 0 /\ strays'[t] = 0
    BY <1>5 DEF Enter, Acquire, Pool, Fault, NoFault, Goto, store, requests, mishaps, Pools
<1>6. ASSUME NEW r \in Requests, Quit(r) PROVE ghosts'[t] = 0 /\ strays'[t] = 0
    BY <1>6 DEF Quit, AcquireFails, Pool, Fault, NoFault, Goto, store, requests, mishaps,
       Pools
<1>7. ASSUME NEW r \in Requests, LeaveAdmitted(r) PROVE ghosts'[t] = 0 /\ strays'[t] = 0
    BY <1>7 DEF LeaveAdmitted, Decrement, Pool, Fault, NoFault, Goto, store, requests,
       mishaps, Pools
<1>8. ASSUME NEW r \in Requests, LeaveWithout(r) PROVE ghosts'[t] = 0 /\ strays'[t] = 0
    BY <1>8 DEF LeaveWithout, Decrement, Pool, Fault, NoFault, Goto, store, requests,
       mishaps, Pools
<1>9. ASSUME NEW r \in Requests, Finish(r) PROVE ghosts'[t] = 0 /\ strays'[t] = 0
    BY <1>9 DEF Finish, Release, Fault, NoFault, Goto, store, requests, mishaps, Pools
<1>10. ASSUME NEW r \in Requests, Disconnect(r) PROVE ghosts'[t] = 0 /\ strays'[t] = 0
    BY <1>10 DEF Disconnect, Fault, NoFault, Goto, store, requests, mishaps, Pools
<1>11. ASSUME NEW r \in Requests, Drained(r) PROVE ghosts'[t] = 0 /\ strays'[t] = 0
    BY <1>11 DEF Drained, CallPools, Fault, NoFault, Goto, store, requests, mishaps, Pools
<1>12. ASSUME NEW r \in Requests, Close(r) PROVE ghosts'[t] = 0 /\ strays'[t] = 0
    BY <1>12 DEF Close, Release, Fault, NoFault, Goto, store, requests, mishaps, Pools
<1>13. ASSUME NEW r \in Requests, NEW a \in Accounts, SelectAccount(r, a)
       PROVE ghosts'[t] = 0 /\ strays'[t] = 0
    BY <1>13 DEF SelectAccount, Acquire, AcquireFails, Fault, NoFault, Goto, store,
       requests, mishaps, Pools
<1>14. ASSUME NEW r \in Requests, NEW a \in Accounts, PlanWait(r, a)
       PROVE ghosts'[t] = 0 /\ strays'[t] = 0
    BY <1>14 DEF PlanWait, Fault, NoFault, Goto, store, requests, mishaps, Pools
<1>15. ASSUME NEW r \in Requests, NEW s \in Pools, ReleaseOnDone(r, s)
       PROVE ghosts'[t] = 0 /\ strays'[t] = 0
    BY <1>15 DEF ReleaseOnDone, Release, CallPools, Fault, NoFault, Goto, store, requests,
       mishaps, Pools
<1>16. ASSUME NEW r \in Calls, AcquireLease(r) PROVE ghosts'[t] = 0 /\ strays'[t] = 0
    BY <1>16 DEF AcquireLease, CallPools, Fault, NoFault, Goto, store, requests, mishaps,
       Pools
<1>17. ASSUME NEW r \in Calls, LeaseRefused(r) PROVE ghosts'[t] = 0 /\ strays'[t] = 0
    BY <1>17 DEF LeaseRefused, Release, Fault, NoFault, Goto, store, requests, mishaps,
       Pools
<1>18. ASSUME NEW r \in Calls, CreateUpstream(r) PROVE ghosts'[t] = 0 /\ strays'[t] = 0
    BY <1>18 DEF CreateUpstream, Release, Fault, NoFault, Goto, store, requests, mishaps,
       Pools
<1>19. ASSUME NEW r \in Calls, SaveCall(r) PROVE ghosts'[t] = 0 /\ strays'[t] = 0
    BY <1>19 DEF SaveCall, Fault, NoFault, Goto, store, requests, mishaps, Pools
<1>20. ASSUME NEW r \in Calls, DropLease(r) PROVE ghosts'[t] = 0 /\ strays'[t] = 0
    BY <1>20 DEF DropLease, ReleaseLease, Fault, NoFault, Goto, store, requests, mishaps,
       Pools
<1>21. ASSUME NEW r \in Calls, AnswerCall(r) PROVE ghosts'[t] = 0 /\ strays'[t] = 0
    BY <1>21 DEF AnswerCall, Release, Fault, NoFault, Goto, store, requests, mishaps, Pools
<1>22. ASSUME NEW r \in Calls, EndSession(r) PROVE ghosts'[t] = 0 /\ strays'[t] = 0
    BY <1>22 DEF EndSession, Fault, NoFault, Goto, store, requests, mishaps, Pools
<1>23. ASSUME NEW r \in Calls, LoseSession(r) PROVE ghosts'[t] = 0 /\ strays'[t] = 0
    BY <1>23 DEF LoseSession, Fault, NoFault, Goto, store, requests, mishaps, Pools
<1>24. ASSUME NEW r \in Calls, Finalize(r) PROVE ghosts'[t] = 0 /\ strays'[t] = 0
    BY <1>24 DEF Finalize, ReleaseLease, Fault, NoFault, Goto, store, requests, mishaps,
       Pools
<1>25. ASSUME NEW s \in Pools, ExpireGhost(s) PROVE ghosts'[t] = 0 /\ strays'[t] = 0
    BY <1>25 DEF ExpireGhost, Fault, NoFault, Goto, store, requests, mishaps, Pools
<1>26. ASSUME NEW s \in Pools, ExpireStray(s) PROVE ghosts'[t] = 0 /\ strays'[t] = 0
    BY <1>26 DEF ExpireStray, Fault, NoFault, Goto, store, requests, mishaps, Pools
<1>27. ASSUME NEW s \in Pools, ExpireWaits(s) PROVE ghosts'[t] = 0 /\ strays'[t] = 0
    BY <1>27 DEF ExpireWaits, Waiters, Pool, Fault, NoFault, Goto, store, requests,
       mishaps, Pools
<1>28. ASSUME NEW r \in Requests, NEW s \in Pools, ExpireSlot(r, s)
       PROVE ghosts'[t] = 0 /\ strays'[t] = 0
    BY <1>28 DEF ExpireSlot, Fault, NoFault, Goto, store, requests, mishaps, Pools
<1>29. ASSUME NEW r \in Calls, ExpireLease(r) PROVE ghosts'[t] = 0 /\ strays'[t] = 0
    BY <1>29 DEF ExpireLease, Fault, NoFault, Goto, store, requests, mishaps, Pools
<1>30. ASSUME NEW p \in Processes, Crash(p) PROVE ghosts'[t] = 0 /\ strays'[t] = 0
    BY <1>30 DEF Crash, Running, Fault, NoFault, Goto, store, requests, mishaps, Pools
<1>31. ASSUME NEW p \in Processes, NEW s \in Pools, Sweep(p, s)
       PROVE ghosts'[t] = 0 /\ strays'[t] = 0
    BY <1>31 DEF Sweep, SweepSlots, Purges, Fault, NoFault, Goto, store, requests, mishaps,
       Pools
<1>32. ASSUME NEW p \in Processes, NEW s \in Pools, SweepFails(p, s)
       PROVE ghosts'[t] = 0 /\ strays'[t] = 0
    BY <1>32 DEF SweepFails, SweepSlots, Purges, Fault, NoFault, Goto, store, requests,
       mishaps, Pools
<1> QED
    BY <1>0, <1>1, <1>2, <1>3, <1>4, <1>5, <1>6, <1>7, <1>8, <1>9, <1>10, <1>11, <1>12,
       <1>13, <1>14, <1>15, <1>16, <1>17, <1>18, <1>19, <1>20, <1>21, <1>22, <1>23, <1>24,
       <1>25, <1>26, <1>27, <1>28, <1>29, <1>30, <1>31, <1>32
    DEF Next, Handle, Call, Time, Restart

\* A pool has a queue limit.
LEMMA SomeLimit ==
    ASSUME NEW s \in Pools
    PROVE  WaitLimits[s] # {} /\ WaitLimits[s] \subseteq Nat
<1>1. WaitLimits[s] \in (SUBSET Nat) \ {{}}
    BY LimitsAssumption
<1> QED
    BY <1>1

\* Every step preserves QueueBounded.
LEMMA QueueBoundedStep ==
    TypeOK /\ TypeOK' /\ Places /\ QueueBounded /\ [Next]_vars => QueueBounded'
<1> SUFFICES ASSUME TypeOK, TypeOK', Places, QueueBounded, [Next]_vars,
                   Without({"failOpen", "purge"})', NEW t \in Pools
             PROVE  /\ Cardinality(Waiters(t)') <= waits'[t]
                    /\ \E max \in WaitLimits[t] : waits'[t] <= max
    BY DEF QueueBounded
<1>1. Waiters(t) \in SUBSET Requests /\ Waiters(t)' \in SUBSET Requests
    BY DEF Waiters
<1>2. /\ IsFiniteSet(Waiters(t)) /\ Cardinality(Waiters(t)) \in Nat
      /\ IsFiniteSet(Waiters(t)') /\ Cardinality(Waiters(t)') \in Nat
    BY <1>1, Finite
<1>3. waits[t] \in Nat /\ waits'[t] \in Nat
    BY DEF TypeOK
<1>4. WaitLimits[t] # {} /\ WaitLimits[t] \subseteq Nat
    BY SomeLimit
<1>5. /\ Cardinality(Waiters(t)) <= waits[t]
      /\ \E max \in WaitLimits[t] : waits[t] <= max
    BY Remembered DEF QueueBounded, Without
<1>6. CASE Waiters(t)' \subseteq Waiters(t) /\ waits'[t] = waits[t]
  <2>1. Cardinality(Waiters(t)') <= Cardinality(Waiters(t))
    BY <1>2, <1>6, FS_Subset
  <2> QED
    BY <1>2, <1>3, <1>5, <1>6, <2>1
<1>7. ASSUME NEW r \in Requests \ Waiters(t), Waiters(t)' = Waiters(t) \cup {r},
             waits'[t] = waits[t] + 1, \E max \in WaitLimits[t] : waits[t] < max
      PROVE  /\ Cardinality(Waiters(t)') <= waits'[t]
             /\ \E max \in WaitLimits[t] : waits'[t] <= max
  <2>1. Cardinality(Waiters(t)') = Cardinality(Waiters(t)) + 1
    BY <1>2, <1>7, FS_AddElement
  <2> QED
    BY <1>2, <1>3, <1>4, <1>5, <1>7, <2>1
<1>8. ASSUME NEW r \in Waiters(t), Waiters(t)' = Waiters(t) \ {r},
             waits'[t] = IF waits[t] > 0 THEN waits[t] - 1 ELSE waits[t]
      PROVE  /\ Cardinality(Waiters(t)') <= waits'[t]
             /\ \E max \in WaitLimits[t] : waits'[t] <= max
  <2>1. Cardinality(Waiters(t)') = Cardinality(Waiters(t)) - 1
    BY <1>2, <1>8, FS_RemoveElement
  <2> QED
    BY <1>2, <1>3, <1>4, <1>5, <1>8, <2>1
<1>9. CASE Waiters(t)' = {} /\ waits'[t] = 0
  <2>1. Cardinality(Waiters(t)') = 0
    BY <1>9, FS_EmptySet
  <2> QED
    BY <1>3, <1>4, <1>9, <2>1
<1>10. Moves(t)
    BY MovesStep
<1> QED
    BY <1>6, <1>7, <1>8, <1>9, <1>10 DEF Moves

\* Every step preserves Exact.
LEMMA ExactStep ==
    TypeOK /\ TypeOK' /\ Places /\ SweepAfterCrash' /\ Exact /\ [Next]_vars => Exact'
<1> SUFFICES ASSUME TypeOK, TypeOK', Places, SweepAfterCrash', Exact, [Next]_vars,
                   Without({"redis", "crash"})', NEW t \in Pools
             PROVE  /\ ghosts'[t] = 0 /\ strays'[t] = 0
                    /\ Without({"failOpen"})' => waits'[t] = Cardinality(Waiters(t)')
    BY DEF Exact
<1>1. Without({"redis", "crash"})
    BY Remembered DEF Without
<1>2. ghosts'[t] = 0 /\ strays'[t] = 0
    BY <1>1, StoreStep DEF Exact
<1>3. ASSUME Without({"failOpen"})' PROVE waits'[t] = Cardinality(Waiters(t)')
  <2>1. Without({"failOpen", "purge"})'
    BY <1>3 DEF Without, SweepAfterCrash
  <2>2. waits[t] = Cardinality(Waiters(t))
    BY <1>1, <1>3, Remembered DEF Exact, Without
  <2>3. Waiters(t) \in SUBSET Requests
    BY DEF Waiters
  <2>4. IsFiniteSet(Waiters(t)) /\ Cardinality(Waiters(t)) \in Nat
    BY <2>3, Finite
  <2>5. CASE Waiters(t)' = Waiters(t) /\ waits'[t] = waits[t]
    BY <2>2, <2>5
  <2>6. ASSUME NEW r \in Requests \ Waiters(t), Waiters(t)' = Waiters(t) \cup {r},
               waits'[t] = waits[t] + 1
        PROVE  waits'[t] = Cardinality(Waiters(t)')
    BY <2>2, <2>4, <2>6, FS_AddElement
  <2>7. ASSUME NEW r \in Waiters(t), Waiters(t)' = Waiters(t) \ {r},
               waits'[t] = IF waits[t] > 0 THEN waits[t] - 1 ELSE waits[t]
        PROVE  waits'[t] = Cardinality(Waiters(t)')
    <3>1. Cardinality(Waiters(t)') = Cardinality(Waiters(t)) - 1
      BY <2>4, <2>7, FS_RemoveElement
    <3>2. Cardinality(Waiters(t)) # 0
      BY <2>4, <2>7, FS_EmptySet
    <3> QED
      BY <2>2, <2>4, <2>7, <3>1, <3>2
  <2>8. CASE Waiters(t)' = {} /\ waits'[t] = 0
    BY <2>8, FS_EmptySet
  <2>9. Moves(t)
    BY <2>1, MovesStep
  <2> QED
    BY <2>5, <2>6, <2>7, <2>8, <2>9 DEF Moves
<1> QED
    BY <1>2, <1>3

-----------------------------------------------------------------------------
IInv ==
    /\ TypeOK /\ Places
    /\ SlotsUsed /\ LeasesUsed /\ SlotsHeld /\ Bounded
    /\ SweepAfterCrash /\ QueueBounded /\ Exact

\* Initially nobody has anything or waits.
LEMMA InitIInv == Init => IInv
<1> SUFFICES ASSUME Init PROVE IInv
    OBVIOUS
<1> USE PoolsAssumption, LimitsAssumption DEF Init, Kinds, Pools
<1>1. TypeOK
    BY DEF TypeOK, PCs
<1>2. Places
    BY DEF Places, Leased
<1>3. SlotsUsed /\ LeasesUsed
    BY DEF SlotsUsed, LeasesUsed
<1>4. SlotsHeld
    BY DEF SlotsHeld, Holds, HasUser, HasAccount
<1>5. Bounded
  <2>1. \A s \in Pools : slots[s] \cup live[s] = {}
    OBVIOUS
  <2> QED
    BY <2>1, FS_EmptySet DEF Bounded
<1>6. \A s \in Pools : Cardinality(Waiters(s)) = 0
  <2>1. \A s \in Pools : Waiters(s) = {}
    BY DEF Waiters, Queued
  <2> QED
    BY <2>1, FS_EmptySet
<1>7. QueueBounded
  <2> SUFFICES ASSUME NEW s \in Pools PROVE \E max \in WaitLimits[s] : 0 <= max
    BY <1>6 DEF QueueBounded
  <2>1. WaitLimits[s] # {} /\ WaitLimits[s] \subseteq Nat
    BY SomeLimit
  <2> QED
    BY <2>1
<1>8. Exact /\ SweepAfterCrash
    BY <1>6 DEF Exact, SweepAfterCrash
<1> QED
    BY <1>1, <1>2, <1>3, <1>4, <1>5, <1>7, <1>8 DEF IInv

\* Every step preserves the invariant.
LEMMA StepIInv == IInv /\ [Next]_vars => IInv'
<1> SUFFICES ASSUME IInv, [Next]_vars PROVE IInv'
    OBVIOUS
<1> USE DEF IInv
<1>1. TypeOK' /\ Places' /\ SweepAfterCrash'
    BY TypeStep, PlacesStep, SweepStep
<1>2. SlotsUsed' /\ LeasesUsed' /\ SlotsHeld'
    BY SlotsUsedStep, LeasesUsedStep, SlotsHeldStep
<1>3. Bounded' /\ QueueBounded' /\ Exact'
    BY <1>1, BoundedStep, QueueBoundedStep, ExactStep
<1> QED
    BY <1>1, <1>2, <1>3

\* The invariant holds in every reachable state.
THEOREM Invariant == Spec => []IInv
BY InitIInv, StepIInv, PTL DEF Spec

\* Type correctness: counters never become negative, leases belong to calls.
THEOREM TypeCorrect == Spec => []TypeOK
<1>1. IInv => TypeOK
    BY DEF IInv
<1> QED
    BY <1>1, Invariant, PTL

\* LimitKept: every request that uses a pool has a member in its sorted sets.
THEOREM LimitTheorem == Spec => []LimitKept
<1>1. IInv => LimitKept
  <2> SUFFICES ASSUME IInv, Without({"purge", "outlive"}), NEW s \in Pools
               PROVE  Cardinality(Using(s)) <= Limit[s]
    BY DEF LimitKept
  <2>1. Using(s) \subseteq slots[s] \cup live[s]
    BY DEF IInv, SlotsHeld, Holds, Using
  <2>2. slots[s] \cup live[s] \in SUBSET Requests
    BY PoolsAssumption DEF IInv, TypeOK
  <2>3. Using(s) \in SUBSET Requests
    BY <2>1, <2>2
  <2>4. /\ IsFiniteSet(slots[s] \cup live[s])
        /\ Cardinality(slots[s] \cup live[s]) \in Nat
        /\ Cardinality(Using(s)) \in Nat
    BY <2>2, <2>3, Finite
  <2>5. Cardinality(Using(s)) <= Cardinality(slots[s] \cup live[s])
    BY <2>1, <2>4, FS_Subset
  <2>6. Cardinality(slots[s] \cup live[s]) <= Limit[s] /\ Limit[s] \in Nat
    BY LimitsAssumption DEF IInv, Bounded
  <2> QED
    BY <2>4, <2>5, <2>6
<1> QED
    BY <1>1, Invariant, PTL

\* WaitersBounded: those who wait are counted, and the counter is bounded.
THEOREM WaitersTheorem == Spec => []WaitersBounded
<1>1. IInv => WaitersBounded
  <2> SUFFICES ASSUME IInv, Without({"failOpen", "purge"}), NEW s \in Pools
               PROVE  \E max \in WaitLimits[s] : Cardinality(Waiters(s)) <= max
    BY DEF WaitersBounded
  <2>1. Cardinality(Waiters(s)) <= waits[s]
    BY DEF IInv, QueueBounded
  <2>2. PICK max \in WaitLimits[s] : waits[s] <= max
    BY DEF IInv, QueueBounded
  <2>3. Waiters(s) \in SUBSET Requests
    BY DEF Waiters
  <2>4. Cardinality(Waiters(s)) \in Nat /\ waits[s] \in Nat /\ max \in Nat
    BY <2>3, Finite, LimitsAssumption DEF IInv, TypeOK
  <2> QED
    BY <2>1, <2>2, <2>4
<1> QED
    BY <1>1, Invariant, PTL

\* NothingLeaks: slots and leases have an owner, and the counters are exact.
THEOREM LeakTheorem == Spec => []NothingLeaks
<1>1. IInv => NothingLeaks
  <2> SUFFICES ASSUME IInv PROVE NothingLeaks
    OBVIOUS
  <2>1. ASSUME NEW s \in Pools, NEW r \in slots[s] PROVE r \in MayHold(s)
    <3>1. r \in Requests /\ MayHoldSlot(r, s)
      BY DEF IInv, TypeOK, SlotsUsed
    <3> QED
      BY <3>1 DEF MayHoldSlot, MayHold, Using, CallPools
  <2>2. \A s \in Pools : slots[s] \subseteq MayHold(s)
    BY <2>1
  <2> QED
    BY <2>2 DEF IInv, LeasesUsed, MayHoldLease, Exact, NothingLeaks
<1> QED
    BY <1>1, Invariant, PTL


=============================================================================
