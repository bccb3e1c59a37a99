---------------------------- MODULE OAuthRefresh ----------------------------
(***************************************************************************)
(* The refresh of one account's OAuth credentials by several processes:    *)
(* RefreshIfNeeded (oauth_refresh_api.go) under its lock in Redis and its  *)
(* mutex in the process, called by the background cycle                    *)
(* (token_refresh_service.go) and by requests (claude_token_provider.go;   *)
(* for Grok the manual test of grok_token_provider.go), and what an        *)
(* administrator does beside it, without the lock (account_handler.go).    *)
(*                                                                         *)
(* Credentials are numbered in the order the provider issues them.  It     *)
(* rotates refresh tokens: that of the newest is good for one refresh, all *)
(* others are refused as invalid_grant.                                    *)
(*                                                                         *)
(* Kinds of fault:                                                         *)
(*    error       a call fails: a read, a mark, the cache, the release of  *)
(*                the lock, a refresh the provider turns down, a write of  *)
(*                credentials that is made all the same                    *)
(*    unlocked    Redis cannot be asked for the lock, or the lock expires  *)
(*                under its holder                                         *)
(*    rotated     new credentials are lost: the provider's answer, or the  *)
(*                write of them, or the process that has them              *)
(*    crash       a process dies without new credentials in hand           *)
(*    unread      the read that follows an invalid_grant fails             *)
(*    denied      the provider turns the account down while the refresh    *)
(*                token lives (access_denied, no subscription, ...)        *)
(*    edit, manual, reauth   the administrator edits the account, refreshes*)
(*                it by hand, or authorizes it anew                        *)
(* and, which is no fault,                                                 *)
(*    overtaken   an invalid_grant is looked into when others have got new *)
(*                credentials and not stored them yet                      *)
(***************************************************************************)
EXTENDS Naturals

CONSTANTS
    Requests,         \* goroutines that serve requests
    Background,       \* goroutines of the refresh cycles
    Administrators,   \* goroutines that serve an administrator
    Processes,
    ProcessOf,        \* the process of each goroutine
    None,
    Platforms,        \* "anthropic", "grok" or both
    MaxTokens,        \* bound on the number of credentials issued
    FaultKinds,       \* the kinds of fault that may happen
    MaxFaults         \* bound on the number of faults

VARIABLES
    platform,    \* the platform of the account
    stored,      \* the credentials in the account's row
    status,      \* its status
    issued,      \* the newest credentials the provider has issued
    due,         \* those up to this one are about to expire
    cached,      \* the access token in Redis; 0 if there is none
    locked,      \* who set the lock in Redis, which does not say so itself
    mutex,       \* who has the mutex of each process
    pc,          \* the next call of each goroutine
    given,       \* the credentials of the account it was given, or returns
    copy,        \* the credentials it has read under the lock
    new,         \* credentials it has got and not stored; 0 if none
    then,        \* where it goes on when RefreshIfNeeded returns
    was,         \* the status an administrator's operation has read
    holding,     \* goroutines that release the lock when they are done
    faults,      \* number of faults
    happened     \* history: what happened of the kinds above

account == <<platform, stored, status>>
locks   == <<locked, mutex, holding>>
local   == <<given, copy, new, then, was>>
mishaps == <<faults, happened>>
vars == <<account, issued, due, cached, locks, pc, local, mishaps>>

Handlers == Requests \cup Background \cup Administrators

ASSUME HandlersAssumption ==
    /\ ProcessOf \in [Handlers -> Processes]
    /\ None \notin Handlers
    /\ Requests \cap Background = {}
    /\ Administrators \cap (Requests \cup Background) = {}

ASSUME BoundsAssumption ==
    /\ Platforms \subseteq {"anthropic", "grok"}
    /\ MaxTokens \in Nat \ {0}
    /\ MaxFaults \in Nat

Tokens == 1 .. MaxTokens

Inside == {"lock", "reread", "refresh", "persist", "durable", "recover", "release"}

PCs == Inside \cup
    {"idle", "mutex", "wait", "version", "fill", "mark", "sync",
     "ask", "load", "save", "clear"}

\* Types; the fault kinds are those of the header.
TypeOK ==
    /\ platform \in Platforms
    /\ stored \in Tokens
    /\ status \in {"active", "error"}
    /\ issued \in stored .. MaxTokens
    /\ due \in 0 .. MaxTokens
    /\ cached \in {0} \cup Tokens
    /\ locked \in Handlers \cup {None}
    /\ mutex \in [Processes -> Handlers \cup {None}]
    /\ pc \in [Handlers -> PCs]
    /\ given \in [Handlers -> {0} \cup Tokens]
    /\ copy \in [Handlers -> {0} \cup Tokens]
    /\ new \in [Handlers -> {0} \cup Tokens]
    /\ then \in [Handlers -> {"idle", "version", "wait", "mark", "sync"}]
    /\ was \in [Handlers -> {"active", "error"}]
    /\ holding \subseteq {h \in Handlers : pc[h] \in Inside}
    /\ faults \in 0 .. MaxFaults
    /\ happened \subseteq FaultKinds \cup {"overtaken"}

Init ==
    /\ platform \in Platforms
    /\ stored = 1 /\ issued = 1 /\ due = 0 /\ cached = 0
    /\ status = "active"
    /\ locked = None
    /\ mutex = [p \in Processes |-> None]
    /\ pc = [h \in Handlers |-> "idle"]
    /\ given = [h \in Handlers |-> 0]
    /\ copy = [h \in Handlers |-> 0]
    /\ new = [h \in Handlers |-> 0]
    /\ then = [h \in Handlers |-> "idle"]
    /\ was = [h \in Handlers |-> "active"]
    /\ holding = {}
    /\ faults = 0
    /\ happened = {}

-----------------------------------------------------------------------------
Fault(f) ==
    /\ f \in FaultKinds
    /\ faults < MaxFaults
    /\ faults' = faults + 1
    /\ happened' = happened \cup {f}

NoFault == UNCHANGED mishaps

\* An unlucky order of steps is remembered, and is no fault.
Note(f) ==
    /\ happened' = happened \cup {f}
    /\ UNCHANGED faults

Grok == platform = "grok"

NeedsRefresh(token) == token <= due

Go(h, to) == pc' = [pc EXCEPT ![h] = to]

\* The goroutine is done.
End(h) ==
    /\ Go(h, "idle")
    /\ given' = [given EXCEPT ![h] = 0]
    /\ copy' = [copy EXCEPT ![h] = 0]
    /\ new' = [new EXCEPT ![h] = 0]
    /\ then' = [then EXCEPT ![h] = "idle"]
    /\ was' = [was EXCEPT ![h] = "active"]

\* Mutant: the version of the credentials is not checked.
ServeUnchecked(h) == IF h \in Requests /\ ~ Grok THEN "fill" ELSE "idle"

\* What a request does with the account it has then: of a Grok account it is
\* the manual test, which does not write the cache.
Serve(h) == IF h \in Requests /\ ~ Grok THEN "version" ELSE "idle"

\* RefreshIfNeeded returns, with the account it has found.
Return(h, to, token) ==
    /\ Go(h, "release")
    /\ then' = [then EXCEPT ![h] = to]
    /\ given' = [given EXCEPT ![h] = token]
    /\ copy' = [copy EXCEPT ![h] = 0]
    /\ new' = [new EXCEPT ![h] = 0]
    /\ UNCHANGED was

\* It fails: the request goes on with the account it was given.
Failed(h) == Return(h, Serve(h), given[h])

-----------------------------------------------------------------------------
(* The callers *)

\* A cycle finds the account among its candidates.
Cycle(h) ==
    /\ pc[h] = "idle"
    /\ status = "active"
    /\ NeedsRefresh(stored)
    /\ Go(h, "mutex")
    /\ given' = [given EXCEPT ![h] = stored]
    /\ UNCHANGED <<account, issued, due, cached, locks, copy, new, then, was, mishaps>>

\* A request comes with an account that the scheduler has cached, and does not
\* find the access token in Redis.
Request(h) ==
    /\ pc[h] = "idle"
    /\ ~ Grok => cached = 0
    /\ \E token \in 1 .. stored :
          /\ Go(h, IF NeedsRefresh(token) THEN "mutex" ELSE Serve(h))
          /\ given' = [given EXCEPT ![h] = token]
    /\ UNCHANGED <<account, issued, due, cached, locks, copy, new, then, was, mishaps>>

\* The lock was held: after a short wait the token may be in Redis.
Wait(h) ==
    /\ pc[h] = "wait"
    /\ IF cached # 0
       THEN End(h)
       ELSE Go(h, "version") /\ UNCHANGED local
    /\ UNCHANGED <<account, issued, due, cached, locks, mishaps>>

\* CheckTokenVersion: newer credentials are used and not cached.
CheckTokenVersion(h) ==
    /\ pc[h] = "version"
    /\ \/ stored > given[h] /\ End(h) /\ NoFault
       \/ stored <= given[h] /\ Go(h, "fill") /\ UNCHANGED local /\ NoFault
       \/ Go(h, "fill") /\ UNCHANGED local /\ Fault("error")
    /\ UNCHANGED <<account, issued, due, cached, locks>>

SetAccessToken(h) ==
    /\ pc[h] = "fill"
    /\ \/ cached' = given[h] /\ NoFault
       \/ UNCHANGED cached /\ Fault("error")
    /\ End(h)
    /\ UNCHANGED <<account, issued, due, locks>>

\* The mark of a Grok account compares the credentials of the attempt.
Markable(h) == Grok => status = "active" /\ stored = given[h]

\* The provider has refused the refresh token, or the account, for good.
MarkError(h) ==
    /\ pc[h] = "mark"
    /\ \/ /\ Markable(h)
          /\ status' = "error"
          /\ Go(h, "sync") /\ UNCHANGED local
          /\ NoFault
       \/ /\ ~ Markable(h)
          /\ UNCHANGED status
          /\ End(h)
          /\ NoFault
       \/ /\ UNCHANGED status
          /\ IF Grok THEN End(h) ELSE Go(h, "sync") /\ UNCHANGED local
          /\ Fault("error")
    /\ UNCHANGED <<platform, stored, issued, due, cached, locks>>

\* postRefreshStateSync: the access token in Redis is deleted.
InvalidateToken(h) ==
    /\ pc[h] = "sync"
    /\ \/ cached' = 0 /\ NoFault
       \/ UNCHANGED cached /\ Fault("error")
    /\ End(h)
    /\ UNCHANGED <<account, issued, due, locks>>

-----------------------------------------------------------------------------
(* RefreshIfNeeded *)

LockMutex(h) ==
    LET p == ProcessOf[h] IN
    /\ pc[h] = "mutex"
    /\ \/ /\ mutex[p] = None
          /\ mutex' = [mutex EXCEPT ![p] = h]
          /\ Go(h, "lock") /\ UNCHANGED local
          /\ NoFault
       \/ /\ UNCHANGED mutex
          /\ IF Serve(h) = "version" THEN Go(h, "version") /\ UNCHANGED local ELSE End(h)
          /\ Fault("error")
    /\ UNCHANGED <<account, issued, due, cached, locked, holding>>

\* SET NX; without an answer the refresh goes on, under the mutex alone.
AcquireRefreshLock(h) ==
    /\ pc[h] = "lock"
    /\ \/ /\ locked = None
          /\ locked' = h
          /\ holding' = holding \cup {h}
          /\ Go(h, "reread") /\ UNCHANGED local
          /\ NoFault
       \/ /\ locked # None
          /\ Return(h, IF Serve(h) = "version" THEN "wait" ELSE "idle", given[h])
          /\ UNCHANGED <<locked, holding>>
          /\ NoFault
       \/ /\ UNCHANGED locked \/ (locked = None /\ locked' = h)
          /\ Go(h, "reread") /\ UNCHANGED local
          /\ UNCHANGED holding
          /\ Fault("unlocked")
    /\ UNCHANGED <<account, issued, due, cached, mutex>>

\* Mutant: the account is not looked at again.
Unneeded(h) == FALSE

\* Somebody else has refreshed the account, or it is not active.
RefreshedAlready(h) == status # "active" \/ ~ NeedsRefresh(stored)

\* Mutant: the credentials the caller came with are refreshed.
FoundByCaller(h) == given[h]

\* The credentials to refresh.
Found(h) == stored

Reread(h) ==
    /\ pc[h] = "reread"
    /\ \/ /\ RefreshedAlready(h)
          /\ Return(h, Serve(h), stored)
          /\ NoFault
       \/ /\ ~ RefreshedAlready(h)
          /\ Go(h, "refresh")
          /\ copy' = [copy EXCEPT ![h] = Found(h)]
          /\ UNCHANGED <<given, new, then, was>>
          /\ NoFault
       \/ Failed(h) /\ Fault("error")
    /\ UNCHANGED <<account, issued, due, cached, locks>>

\* The provider issues new credentials for the newest refresh token.
Issue(token) ==
    /\ token = issued
    /\ issued < MaxTokens
    /\ issued' = issued + 1

\* A cycle's attempt that is not to be repeated ends with a mark, after the
\* release.
Refused(h) == Return(h, IF h \in Background THEN "mark" ELSE Serve(h),
                        IF h \in Background THEN copy[h] ELSE given[h])

\* Only an invalid_grant is looked into.
Refresh(h) ==
    /\ pc[h] = "refresh"
    /\ \/ /\ Issue(copy[h])
          /\ Go(h, "persist")
          /\ new' = [new EXCEPT ![h] = issued']
          /\ UNCHANGED <<given, copy, then, was>>
          /\ NoFault
       \/ /\ copy[h] # issued
          /\ Go(h, "recover")
          /\ UNCHANGED <<issued, local>>
          /\ NoFault
       \/ UNCHANGED issued /\ Failed(h) /\ Fault("error")
       \/ UNCHANGED issued /\ Refused(h) /\ Fault("denied")
       \/ Issue(copy[h]) /\ Failed(h) /\ Fault("rotated")
    /\ UNCHANGED <<account, due, cached, locks>>

\* Where the caller goes on after a refresh.
Refreshed(h) == IF h \in Background THEN "sync" ELSE Serve(h)

\* Mutant: the credentials are written whatever the row holds.
PersistableAlways(h) == TRUE

\* The credentials of a Grok account are compared and swapped.
Persistable(h) == Grok => stored = copy[h]

Persist(h) ==
    /\ pc[h] = "persist"
    /\ \/ /\ Persistable(h)
          /\ stored' = new[h]
          /\ IF Grok
             THEN /\ Go(h, "durable")
                  /\ new' = [new EXCEPT ![h] = 0]
                  /\ UNCHANGED <<given, copy, then, was>>
             ELSE Return(h, Refreshed(h), new[h])
          /\ NoFault
       \/ /\ ~ Persistable(h)
          /\ UNCHANGED stored
          /\ Return(h, Serve(h), stored)
          /\ NoFault
       \/ /\ Persistable(h)
          /\ stored' = new[h]
          /\ Failed(h)
          /\ Fault("error")
       \/ UNCHANGED stored /\ Failed(h) /\ Fault("rotated")
    /\ UNCHANGED <<platform, status, issued, due, cached, locks>>

\* loadGrokDurableAccountAfterPersist deletes the access token in Redis and
\* reads the account.
LoadDurable(h) ==
    /\ pc[h] = "durable"
    /\ \/ cached' = 0 /\ NoFault
       \/ UNCHANGED cached /\ Fault("error")
    /\ Return(h, Refreshed(h), stored) \/ Failed(h)
    /\ UNCHANGED <<account, issued, due, locks>>

\* Others have new credentials in hand.
Overtaken(h) == \E x \in Handlers \ {h} : new[x] = issued

\* Mutant: the account is not read again.
RecoveredNever(h) == FALSE

Recovered(h) == stored # copy[h]

TryRecoverFromRefreshRace(h) ==
    /\ pc[h] = "recover"
    /\ \/ Recovered(h) /\ Return(h, Serve(h), stored) /\ NoFault
       \/ /\ ~ Recovered(h)
          /\ Refused(h)
          /\ IF Overtaken(h) THEN Note("overtaken") ELSE NoFault
       \/ Refused(h) /\ Fault("unread")
    /\ UNCHANGED <<account, issued, due, cached, locks>>

\* DEL of the lock, whoever set it, then the unlock of the mutex.
Release(h) ==
    /\ pc[h] = "release"
    /\ IF h \in holding
       THEN \/ locked' = None /\ NoFault
            \/ UNCHANGED locked /\ Fault("error")
       ELSE UNCHANGED locked /\ NoFault
    /\ holding' = holding \ {h}
    /\ mutex' = [mutex EXCEPT ![ProcessOf[h]] = None]
    /\ IF then[h] = "idle"
       THEN End(h)
       ELSE /\ Go(h, then[h])
            /\ then' = [then EXCEPT ![h] = "idle"]
            /\ UNCHANGED <<given, copy, new, was>>
    /\ UNCHANGED <<account, issued, due, cached>>

-----------------------------------------------------------------------------
(* The administrator: each operation ends with UpdateAccount, which reads *)
(* the row and writes it back, credentials and status included.           *)

Edit(h) ==
    /\ pc[h] = "idle"
    /\ Go(h, "load")
    /\ Fault("edit")
    /\ UNCHANGED <<account, issued, due, cached, locks, local>>

\* refreshSingleAccount
ManualRefresh(h) ==
    /\ pc[h] = "idle"
    /\ Go(h, "ask")
    /\ given' = [given EXCEPT ![h] = stored]
    /\ Fault("manual")
    /\ UNCHANGED <<account, issued, due, cached, locks, copy, new, then, was>>

Ask(h) ==
    /\ pc[h] = "ask"
    /\ \/ /\ Issue(given[h])
          /\ Go(h, "load")
          /\ new' = [new EXCEPT ![h] = issued']
          /\ UNCHANGED <<given, copy, then, was>>
       \/ /\ given[h] # issued \/ issued = MaxTokens
          /\ UNCHANGED issued
          /\ End(h)
    /\ UNCHANGED <<account, due, cached, locks, mishaps>>

\* ApplyOAuthCredentials, of credentials the administrator has just obtained.
ApplyOAuthCredentials(h) ==
    /\ pc[h] = "idle"
    /\ Issue(issued)
    /\ Go(h, "load")
    /\ new' = [new EXCEPT ![h] = issued']
    /\ Fault("reauth")
    /\ UNCHANGED <<account, due, cached, locks, given, copy, then, was>>

LoadAccount(h) ==
    /\ pc[h] = "load"
    /\ Go(h, "save")
    /\ copy' = [copy EXCEPT ![h] = stored]
    /\ was' = [was EXCEPT ![h] = status]
    /\ UNCHANGED <<account, issued, due, cached, locks, given, new, then, mishaps>>

\* Credentials that were authorized anew clear the error, too.
SaveAccount(h) ==
    /\ pc[h] = "save"
    /\ stored' = IF new[h] # 0 THEN new[h] ELSE copy[h]
    /\ status' = was[h]
    /\ IF new[h] # 0
       THEN /\ Go(h, IF given[h] = 0 THEN "clear" ELSE "sync")
            /\ new' = [new EXCEPT ![h] = 0]
            /\ UNCHANGED <<given, copy, then, was>>
       ELSE End(h)
    /\ UNCHANGED <<platform, issued, due, cached, locks, mishaps>>

ClearError(h) ==
    /\ pc[h] = "clear"
    /\ status' = "active"
    /\ Go(h, "sync")
    /\ UNCHANGED <<platform, stored, issued, due, cached, locks, local, mishaps>>

-----------------------------------------------------------------------------
(* Time and crashes *)

\* The access token in use comes near its end.  (The bound is on tokens.)
Age ==
    /\ due < stored
    /\ stored < MaxTokens
    /\ due' = stored
    /\ UNCHANGED <<account, issued, cached, locks, pc, local, mishaps>>

TokenExpires ==
    /\ cached # 0
    /\ cached' = 0
    /\ UNCHANGED <<account, issued, due, locks, pc, local, mishaps>>

\* Mutant: the lock is set without a TTL.
NeverExpires == FALSE

\* The TTL of the lock passes.
LockExpires ==
    /\ locked # None
    /\ locked' = None
    /\ IF locked \in holding THEN Fault("unlocked") ELSE NoFault
    /\ UNCHANGED <<account, issued, due, cached, mutex, holding, pc, local>>

Crash(p) ==
    LET dead == {h \in Handlers : ProcessOf[h] = p}
        Reset(f, v) == [h \in Handlers |-> IF h \in dead THEN v ELSE f[h]]
    IN  /\ \E h \in dead : pc[h] # "idle"
        /\ IF \E h \in dead : new[h] = issued THEN Fault("rotated") ELSE Fault("crash")
        /\ pc' = Reset(pc, "idle")
        /\ given' = Reset(given, 0)
        /\ copy' = Reset(copy, 0)
        /\ new' = Reset(new, 0)
        /\ then' = Reset(then, "idle")
        /\ was' = Reset(was, "active")
        /\ mutex' = [mutex EXCEPT ![p] = None]
        /\ holding' = holding \ dead
        /\ UNCHANGED <<account, issued, due, cached, locked>>

RefreshIfNeeded(h) ==
    \/ LockMutex(h) \/ AcquireRefreshLock(h) \/ Reread(h) \/ Refresh(h)
    \/ Persist(h) \/ LoadDurable(h) \/ TryRecoverFromRefreshRace(h) \/ Release(h)

GoOn(h) ==
    \/ RefreshIfNeeded(h)
    \/ Wait(h) \/ CheckTokenVersion(h) \/ SetAccessToken(h)
    \/ MarkError(h) \/ InvalidateToken(h)
    \/ Ask(h) \/ LoadAccount(h) \/ SaveAccount(h) \/ ClearError(h)

Next ==
    \/ \E h \in Handlers : GoOn(h)
    \/ \E h \in Background : Cycle(h)
    \/ \E h \in Requests : Request(h)
    \/ \E h \in Administrators : Edit(h) \/ ManualRefresh(h) \/ ApplyOAuthCredentials(h)
    \/ Age \/ TokenExpires \/ LockExpires
    \/ \E p \in Processes : Crash(p)

Spec == Init /\ [][Next]_vars

\* Goroutines run on, the cycle comes around every few minutes, and a lock whose
\* holder is gone expires.
Fairness ==
    /\ \A h \in Handlers : WF_vars(GoOn(h) /\ UNCHANGED faults)
    /\ \A h \in Background : WF_vars(Cycle(h))
    /\ WF_vars(LockExpires /\ UNCHANGED faults)

FairSpec == Spec /\ Fairness

-----------------------------------------------------------------------------
(* Properties *)

Unless(kinds) == happened \cap kinds = {}

\* The provider sees a refresh token a second time only after new credentials
\* were lost, the lock did not hold, or an administrator stepped in: neither a
\* crash nor a failing call is enough (RefreshIfNeeded: lock, re-read, refresh
\* and write are separate calls, the release a blind DEL).
NoReuse ==
    Unless({"rotated", "unlocked", "edit", "manual", "reauth"}) =>
        \A h \in Handlers : pc[h] = "refresh" => copy[h] = issued

\* An account is in error only if its refresh token is dead or the provider has
\* denied the account, whatever fails as long as the lock holds, and even when it
\* does not hold: the loser of the race sees the winner's credentials
\* (tryRecoverFromRefreshRace), unless it looks too early or not at all.  (An
\* administrator who authorizes anew clears the error by a call of its own.)
ErrorMeansDead ==
    /\ Unless({"edit", "reauth"})
    /\ Unless({"unlocked", "manual"}) \/ Unless({"overtaken", "unread"})
    => (status = "error" => stored # issued \/ "denied" \in happened)

\* A refresh that was under way when an administrator authorized the account
\* anew does not bring older credentials back: for Grok, which compares and
\* swaps, and else if there was no such administrator.
StoredNeverRegresses ==
    [][\/ stored' >= stored
       \/ \E h \in Administrators : pc[h] = "save" /\ pc'[h] # "save"
       \/ ~ Unless({"edit", "manual"} \cup (IF Grok THEN {} ELSE {"reauth"}))]_vars

\* An access token in Redis that is not the account's is about to expire: what
\* is not due is not rotated, whatever callers were told before they waited.
StaleTokenIsDue ==
    Unless({"edit", "manual", "reauth"}) =>
        (cached # 0 /\ cached < stored => NeedsRefresh(cached))

\* An account whose token is about to expire gets a new one, or is put into
\* error: no lock is left behind for ever.  (Requests only try: while some of
\* them find the lock free over and over, a cycle may always find it held.)
DueIsServed ==
    <>[](\A h \in Requests : pc[h] \notin Inside) =>
        (status = "active" /\ NeedsRefresh(stored) ~> status = "error" \/ ~ NeedsRefresh(stored))

=============================================================================
