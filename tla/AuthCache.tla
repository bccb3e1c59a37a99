------------------------------ MODULE AuthCache ------------------------------
(***************************************************************************)
(* The authentication cache of one API key: a first level (L1) in every    *)
(* process, a second one (L2) in Redis, the database behind them, and the  *)
(* outbox of invalidations.  (api_key_auth_cache_impl.go,                  *)
(* auth_cache_invalidation_outbox.go and its repository, migration 184.)   *)
(*                                                                         *)
(* A trigger enqueues an invalidation in the transaction that changes the  *)
(* key.  A worker deletes the cached entry and tells every process, and    *)
(* does so again after a safety delay: a request that read the database    *)
(* before the change may fill the caches after the first deletion.         *)
(* An entry is "fresh" as long as it is what the database says.            *)
(*                                                                         *)
(* Kinds of fault:                                                         *)
(*    redis          a call to Redis fails without effect                  *)
(*    db             a statement of a worker fails without effect          *)
(*    crash          a process dies, with its L1, and starts again         *)
(*    slowWorker     a worker outlives the lease of its claim              *)
(*    lostMessage    a publication misses some subscribers                 *)
(*    lostSecond     the publication of a second pass does                 *)
(*    slowFill       a request that read before the first deletion outlives *)
(*                   the safety delay                                      *)
(*    slowPromotion  an entry read from L2 reaches L1 after the last       *)
(*                   invalidation did                                      *)
(***************************************************************************)
EXTENDS Naturals

CONSTANTS
    Instances,    \* processes, each with an L1, a subscriber and a worker
    Requests,     \* goroutines that authenticate or change the key
    Home,         \* the process of each request
    MaxChanges,   \* bound on the changes of the key
    FaultKinds,   \* the kinds of fault that may happen
    MaxFaults,    \* bound on the number of faults
    None          \* no process

ASSUME CacheAssumption ==
    /\ Home \in [Requests -> Instances]
    /\ None \notin Instances
    /\ MaxChanges \in Nat /\ MaxFaults \in Nat

VARIABLES
    l1,           \* what each process has cached: "none", "fresh" or "stale"
    l2,           \* what Redis has cached
    message,      \* processes with an undelivered invalidation
    pc,           \* program counter of each request
    held,         \* the entry it has read
    changes,      \* number of changes, and of outbox rows ever inserted
    stage,        \* the state of each row
    claim,        \* claimed_by
    waits,        \* requests that held an entry at the row's first deletion
    wpc,          \* program counter of each worker
    row,          \* the row it processes
    faults,       \* number of faults
    happened      \* history: the kinds that happened

caches   == <<l1, l2, message>>
requests == <<pc, held>>
outbox   == <<changes, stage, claim, waits>>
workers  == <<wpc, row>>
mishaps  == <<faults, happened>>
vars == <<caches, requests, outbox, workers, mishaps>>

Entry == {"none", "fresh", "stale"}
Rows  == 1 .. MaxChanges

PC  == {"idle", "promote", "load", "fillL1", "fillL2", "dropL1", "dropL2", "announce"}
WPC == {"idle", "local", "delete", "publish", "settle", "retry"}

\* delivery_stage 0; delivery_stage 1 before available_at; and after; deleted.
Stage == {"none", "first", "delayed", "second", "done"}

\* Rows that are not deleted yet.
Pending == {e \in Rows : stage[e] \in {"first", "delayed", "second"}}

\* Process i will be told to drop its entry, by a message that is under way or
\* by a pass whose publication is still to come.
Coming(i) ==
    \/ i \in message
    \/ \E e \in Pending :
          stage[e] = "second" /\ claim[e] # None =>
              ~ (row[claim[e]] = e /\ wpc[claim[e]] = "settle")

-----------------------------------------------------------------------------
(* Handlers, faults *)

Go(r, to, entry) ==
    /\ pc' = [pc EXCEPT ![r] = to]
    /\ held' = [held EXCEPT ![r] = entry]

\* Mutant: the row waits on for a request that is over.
FinishAwaited(r) == Go(r, "idle", held[r]) /\ UNCHANGED waits

\* The request is over: no row waits for it.
Finish(r) ==
    /\ Go(r, "idle", "none")
    /\ waits' = [e \in Rows |-> waits[e] \ {r}]

Fault(k) ==
    /\ k \in FaultKinds
    /\ faults < MaxFaults
    /\ faults' = faults + 1
    /\ happened' = happened \cup {k}

NoFault == UNCHANGED mishaps

DropL1(i) == l1' = [l1 EXCEPT ![i] = "none"]

\* Mutant: the other processes are not told.
PublishNothing(lost) == UNCHANGED message /\ NoFault

\* Every subscriber gets the message, or some miss it.
PublishInvalidation(lost) ==
    \/ message' = Instances /\ NoFault
    \/ \E some \in SUBSET Instances :
          /\ some # Instances
          /\ message' = message \cup some
          /\ Fault(lost)

-----------------------------------------------------------------------------
(* Requests *)

\* getAuthCacheEntry, up to the answer of Redis.
Lookup(r) ==
    /\ pc[r] = "idle"
    /\ l1[Home[r]] = "none"
    /\ \/ l2 # "none" /\ Go(r, "promote", l2) /\ NoFault
       \/ l2 = "none" /\ Go(r, "load", "none") /\ NoFault
       \/ l2 # "none" /\ Go(r, "load", "none") /\ Fault("redis")
    /\ UNCHANGED <<caches, outbox, workers>>

\* Nothing will clear a stale entry once the invalidations are through.
Promote(r) ==
    /\ pc[r] = "promote"
    /\ l1' = [l1 EXCEPT ![Home[r]] = held[r]]
    /\ IF held[r] = "stale" /\ ~Coming(Home[r])
       THEN Fault("slowPromotion") ELSE NoFault
    /\ Finish(r)
    /\ UNCHANGED <<l2, message, changes, stage, claim, workers>>

\* loadAuthCacheEntry: the database, then L1, then L2.
Load(r) ==
    /\ pc[r] = "load"
    /\ Go(r, "fillL1", "fresh")
    /\ UNCHANGED <<caches, outbox, workers, mishaps>>

FillL1(r) ==
    /\ pc[r] = "fillL1"
    /\ l1' = [l1 EXCEPT ![Home[r]] = held[r]]
    /\ Go(r, "fillL2", held[r])
    /\ UNCHANGED <<l2, message, outbox, workers, mishaps>>

FillL2(r) ==
    /\ pc[r] = "fillL2"
    /\ \/ l2' = held[r] /\ NoFault
       \/ UNCHANGED l2 /\ Fault("redis")
    /\ Finish(r)
    /\ UNCHANGED <<l1, message, changes, stage, claim, workers>>

\* TTLs and evictions.
Expire ==
    /\ \/ l2' = "none" /\ UNCHANGED l1
       \/ UNCHANGED l2 /\ \E i \in Instances : DropL1(i)
    /\ UNCHANGED <<message, requests, outbox, workers, mishaps>>

Aged(entry) == IF entry = "fresh" THEN "stale" ELSE entry

\* Mutant: the change does not enqueue an invalidation.
ChangeOnly(r) ==
    /\ pc[r] = "idle"
    /\ changes < MaxChanges
    /\ changes' = changes + 1
    /\ stage' = [stage EXCEPT ![changes + 1] = "done"]
    /\ l1' = [i \in Instances |-> Aged(l1[i])]
    /\ l2' = Aged(l2)
    /\ held' = [x \in Requests |-> Aged(held[x])]
    /\ pc' = [pc EXCEPT ![r] = "dropL1"]
    /\ UNCHANGED <<message, claim, waits, workers, mishaps>>

\* A change of the key, of its user or of its group commits, with the row that
\* the trigger inserts.
Change(r) ==
    /\ pc[r] = "idle"
    /\ changes < MaxChanges
    /\ changes' = changes + 1
    /\ stage' = [stage EXCEPT ![changes + 1] = "first"]
    /\ l1' = [i \in Instances |-> Aged(l1[i])]
    /\ l2' = Aged(l2)
    /\ held' = [x \in Requests |-> Aged(held[x])]
    /\ pc' = [pc EXCEPT ![r] = "dropL1"]
    /\ UNCHANGED <<message, claim, waits, workers, mishaps>>

\* deleteAuthCache, which the service calls after a change: errors are ignored.
DeleteAuthCacheL1(r) ==
    /\ pc[r] = "dropL1"
    /\ DropL1(Home[r])
    /\ Go(r, "dropL2", "none")
    /\ UNCHANGED <<l2, message, outbox, workers, mishaps>>

DeleteAuthCacheL2(r) ==
    /\ pc[r] = "dropL2"
    /\ \/ l2' = "none" /\ NoFault
       \/ UNCHANGED l2 /\ Fault("redis")
    /\ Go(r, "announce", "none")
    /\ UNCHANGED <<l1, message, outbox, workers>>

Announce(r) ==
    /\ pc[r] = "announce"
    /\ PublishInvalidation("lostMessage")
    /\ Finish(r)
    /\ UNCHANGED <<l1, l2, changes, stage, claim, workers>>

\* invalidateLocalAuthCache, on a message.
Deliver(i) ==
    /\ i \in message
    /\ message' = message \ {i}
    /\ DropL1(i)
    /\ UNCHANGED <<l2, requests, outbox, workers, mishaps>>

-----------------------------------------------------------------------------
(* The workers *)

WorkerGo(i, to) ==
    /\ wpc' = [wpc EXCEPT ![i] = to]
    /\ row' = [row EXCEPT ![i] = IF to = "idle" THEN 0 ELSE @]

Claim(i) ==
    /\ wpc[i] = "idle"
    /\ \E e \in Rows :
          /\ stage[e] \in {"first", "second"}
          /\ claim[e] = None
          /\ claim' = [claim EXCEPT ![e] = i]
          /\ row' = [row EXCEPT ![i] = e]
    /\ wpc' = [wpc EXCEPT ![i] = "local"]
    /\ UNCHANGED <<caches, requests, changes, stage, waits, mishaps>>

InvalidateLocal(i) ==
    /\ wpc[i] = "local"
    /\ DropL1(i)
    /\ WorkerGo(i, "delete")
    /\ UNCHANGED <<l2, message, requests, outbox, mishaps>>

DeleteAuthCache(i) ==
    /\ wpc[i] = "delete"
    /\ \/ l2' = "none" /\ WorkerGo(i, "publish") /\ NoFault
       \/ UNCHANGED l2 /\ WorkerGo(i, "retry") /\ Fault("redis")
    /\ UNCHANGED <<l1, message, requests, outbox>>

Publish(i) ==
    /\ wpc[i] = "publish"
    /\ \/ /\ PublishInvalidation(IF stage[row[i]] = "second" THEN "lostSecond" ELSE "lostMessage")
          /\ WorkerGo(i, "settle")
       \/ UNCHANGED message /\ WorkerGo(i, "retry") /\ Fault("redis")
    /\ UNCHANGED <<l1, l2, requests, outbox>>

\* The row of worker i, as long as its claim is there.
Owned(i) == claim[row[i]] = i

Unclaim(e) == claim' = [claim EXCEPT ![e] = None]

\* Mutant: one pass is enough.
OnePass(i) ==
    /\ wpc[i] = "settle"
    /\ IF Owned(i) THEN stage' = [stage EXCEPT ![row[i]] = "done"] /\ Unclaim(row[i])
                   ELSE UNCHANGED <<stage, claim>>
    /\ NoFault
    /\ WorkerGo(i, "idle")
    /\ UNCHANGED <<caches, requests, changes, waits>>

\* After the first pass, the second one is scheduled; after that, the row goes.
Settle(i) ==
    /\ wpc[i] = "settle"
    /\ \/ /\ Owned(i)
          /\ stage' = [stage EXCEPT ![row[i]] = IF @ = "first" THEN "delayed" ELSE "done"]
          /\ waits' = IF stage[row[i]] = "first"
                      THEN [waits EXCEPT ![row[i]] = {r \in Requests : held[r] # "none"}]
                      ELSE waits
          /\ Unclaim(row[i])
          /\ NoFault
       \/ ~Owned(i) /\ UNCHANGED <<stage, claim, waits>> /\ NoFault
       \/ UNCHANGED <<stage, claim, waits>> /\ Fault("db")
    /\ WorkerGo(i, "idle")
    /\ UNCHANGED <<caches, requests, changes>>

\* Mutant: a row whose deletion failed is dropped.
GiveUp(i) ==
    /\ wpc[i] = "retry"
    /\ IF Owned(i) THEN stage' = [stage EXCEPT ![row[i]] = "done"] /\ Unclaim(row[i])
                   ELSE UNCHANGED <<stage, claim>>
    /\ NoFault
    /\ WorkerGo(i, "idle")
    /\ UNCHANGED <<caches, requests, changes, waits>>

RetryClaimed(i) ==
    /\ wpc[i] = "retry"
    /\ \/ Owned(i) /\ Unclaim(row[i]) /\ NoFault
       \/ ~Owned(i) /\ UNCHANGED claim /\ NoFault
       \/ UNCHANGED claim /\ Fault("db")
    /\ WorkerGo(i, "idle")
    /\ UNCHANGED <<caches, requests, changes, stage, waits>>

\* The safety delay is longer than a request takes.
DelayPasses(e) ==
    /\ stage[e] = "delayed"
    /\ IF waits[e] = {} THEN NoFault ELSE Fault("slowFill")
    /\ stage' = [stage EXCEPT ![e] = "second"]
    /\ UNCHANGED <<caches, requests, changes, claim, waits, workers>>

\* Mutant: a claim ends with its worker's answer only.
LeaseHeld(e) == FALSE /\ Unclaim(e) /\ UNCHANGED vars

\* A claim runs out when its worker has given up the row, or is slow.
LeasePasses(e) ==
    /\ claim[e] # None
    /\ IF row[claim[e]] = e THEN Fault("slowWorker") ELSE NoFault
    /\ Unclaim(e)
    /\ UNCHANGED <<caches, requests, changes, stage, waits, workers>>

Crash(i) ==
    /\ Fault("crash")
    /\ DropL1(i)
    /\ message' = message \ {i}
    /\ pc' = [r \in Requests |-> IF Home[r] = i THEN "idle" ELSE pc[r]]
    /\ held' = [r \in Requests |-> IF Home[r] = i THEN "none" ELSE held[r]]
    /\ waits' = [e \in Rows |-> {r \in waits[e] : Home[r] # i}]
    /\ WorkerGo(i, "idle")
    /\ UNCHANGED <<l2, changes, stage, claim>>

-----------------------------------------------------------------------------
Init ==
    /\ l1 \in [Instances -> {"none", "fresh"}]
    /\ l2 \in {"none", "fresh"}
    /\ message = {}
    /\ pc = [r \in Requests |-> "idle"]
    /\ held = [r \in Requests |-> "none"]
    /\ changes = 0
    /\ stage = [e \in Rows |-> "none"]
    /\ claim = [e \in Rows |-> None]
    /\ waits = [e \in Rows |-> {}]
    /\ wpc = [i \in Instances |-> "idle"]
    /\ row = [i \in Instances |-> 0]
    /\ faults = 0
    /\ happened = {}

\* The steps of a request that has begun.
Proceed(r) ==
    \/ Promote(r) \/ Load(r) \/ FillL1(r) \/ FillL2(r)
    \/ DeleteAuthCacheL1(r) \/ DeleteAuthCacheL2(r) \/ Announce(r)

Work(i) ==
    \/ Claim(i) \/ InvalidateLocal(i) \/ DeleteAuthCache(i) \/ Publish(i)
    \/ Settle(i) \/ RetryClaimed(i)

Next ==
    \/ \E r \in Requests : Lookup(r) \/ Change(r) \/ Proceed(r)
    \/ \E i \in Instances : Work(i) \/ Deliver(i) \/ Crash(i)
    \/ \E e \in Rows : DelayPasses(e) \/ LeasePasses(e)
    \/ Expire

Spec == Init /\ [][Next]_vars

\* Begun requests end, workers poll every half second, messages arrive, delays
\* and leases pass.  Nobody has to authenticate and no entry has to expire.
Fairness ==
    /\ \A r \in Requests : WF_vars(Proceed(r))
    /\ \A i \in Instances : WF_vars(Work(i)) /\ WF_vars(Deliver(i))
    /\ \A e \in Rows : WF_vars(DelayPasses(e)) /\ WF_vars(LeasePasses(e))

FairSpec == Spec /\ Fairness

-----------------------------------------------------------------------------
(* Properties *)

\* Types; a request holds an entry exactly while it is on the way to a cache,
\* and a worker has a row exactly while it works.
TypeOK ==
    /\ l1 \in [Instances -> Entry] /\ l2 \in Entry /\ message \subseteq Instances
    /\ pc \in [Requests -> PC] /\ held \in [Requests -> Entry]
    /\ \A r \in Requests : held[r] # "none" <=> pc[r] \in {"promote", "fillL1", "fillL2"}
    /\ changes \in 0 .. MaxChanges
    /\ stage \in [Rows -> Stage] /\ \A e \in Rows : stage[e] = "none" <=> e > changes
    /\ claim \in [Rows -> Instances \cup {None}] /\ waits \in [Rows -> SUBSET Requests]
    /\ wpc \in [Instances -> WPC] /\ row \in [Instances -> 0 .. MaxChanges]
    /\ \A i \in Instances : row[i] = 0 <=> wpc[i] = "idle"
    /\ faults \in 0 .. MaxFaults /\ happened \subseteq FaultKinds

\* As long as requests end within the safety delay, a stale entry in Redis has
\* an invalidation under way, whatever fails and whoever fills the cache late.
StaleL2IsPending == l2 = "stale" => Pending # {} \/ "slowFill" \in happened

\* The same for the entries in the processes, whatever messages are lost on the
\* first pass, as far as every subscriber gets the message of the second one and
\* no promotion from L2 is overtaken by it.
StaleL1IsPending ==
    \A i \in Instances :
        l1[i] = "stale" =>
            \/ Coming(i)
            \/ happened \cap {"slowFill", "lostSecond", "slowPromotion"} # {}

\* After the last change the caches become and stay fresh without any help of
\* a TTL, although calls fail and processes die.
EventuallyFresh ==
    <>[](/\ "slowFill" \notin happened => l2 # "stale"
         /\ happened \cap {"slowFill", "lostSecond", "slowPromotion"} = {}
               => \A i \in Instances : l1[i] # "stale")

=============================================================================
