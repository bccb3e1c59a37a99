--------------------------- MODULE SystemOperation ---------------------------
(***************************************************************************)
(* Update, rollback and restart (system_handler.go): each is a request     *)
(* with an idempotency key whose execution takes the global lock           *)
(* (system_operation_lock_service.go), works, and releases it.  The lock   *)
(* is one more row of idempotency_records, which a goroutine of the holder *)
(* renews until the release or until it finds the row not its own.         *)
(*                                                                         *)
(* One more kind of fault:                                                 *)
(*    stall       the acquisition, a renewal or the release is late by a   *)
(*                whole lease                                              *)
(***************************************************************************)
EXTENDS Idempotency

CONSTANT GlobalLock    \* the scope of the lock

VARIABLES
    lockAge,       \* how long ago the acquisition of each handler began
    succeeded,     \* handlers whose operation has succeeded
    renewing,      \* handlers whose lock is being renewed
    rounds,        \* renewals under way when their operation ended: <<handler, operation>>
    lease,         \* history: locked_until as each handler wrote it last
    lapsed         \* history: a lease ran out before the release

locks == <<lockAge, succeeded, renewing, rounds, lease>>
vars == <<table, victims, requests, history, mishaps, locks, lapsed>>

ASSUME LockAssumption == GlobalLock \in Scopes \ Keys

PCs == ExecutePC \cup {"lockRead", "lockReclaim", "work", "release"}

Working == {h \in Handlers : pc[h] = "work"}
Holders == {h \in Handlers : pc[h] \in {"work", "release"}}

\* Types; the fault kinds are those of the two headers.
TypeOK ==
    /\ ExecuteTypeOK(PCs)
    /\ lockAge \in [Handlers -> 0 .. Horizon]
    /\ succeeded \subseteq Handlers
    /\ renewing \subseteq Working
    /\ rounds \subseteq Handlers \X Operations
    /\ lease \in [Handlers -> 0 .. Timeout]
    /\ lapsed \in BOOLEAN

Init ==
    /\ ExecuteInit
    /\ lockAge = [h \in Handlers |-> 0]
    /\ succeeded = {}
    /\ renewing = {}
    /\ rounds = {}
    /\ lease = [h \in Handlers |-> 0]
    /\ lapsed = FALSE

-----------------------------------------------------------------------------
(* Acquire *)

\* The lock is the handler's; the renewal begins.
Locked(h, until) ==
    /\ pc' = [pc EXCEPT ![h] = "work"]
    /\ seen' = [seen EXCEPT ![h] = "none"]
    /\ ids' = [ids EXCEPT ![GlobalLock] = @ \cup {h}]
    /\ lockAge' = [lockAge EXCEPT ![h] = 0]
    /\ lease' = [lease EXCEPT ![h] = IF until > 0 THEN until ELSE 0]
    /\ renewing' = renewing \cup {h}
    /\ UNCHANGED <<asked, age, succeeded, rounds>>

\* The handler is done with the lock, or did not get it.
Unlocked(h, to) ==
    /\ pc' = [pc EXCEPT ![h] = to]
    /\ seen' = [seen EXCEPT ![h] = "none"]
    /\ ids' = [ids EXCEPT ![GlobalLock] = @ \ {h}]
    /\ lockAge' = [lockAge EXCEPT ![h] = 0]
    /\ lease' = [lease EXCEPT ![h] = 0]
    /\ succeeded' = succeeded \ {h}
    /\ UNCHANGED <<asked, age, renewing, rounds>>

\* Busy, or the store is unavailable: the execution fails.
NotLocked(h) == Unlocked(h, Outcome(FALSE))

LockStoreFails(h, Applied) ==
    /\ \/ UNCHANGED rows /\ Fault("db")
       \/ Applied /\ Fault("lost")
    /\ NotLocked(h)

LockCreate(h) ==
    LET Insert == CreateProcessing(GlobalLock, asked[h], Timeout, Ttl) IN
    /\ pc[h] = "execute"
    /\ \/ Insert /\ Locked(h, Timeout) /\ NoFault
       \/ /\ Exists(GlobalLock)
          /\ Go(h, "lockRead")
          /\ UNCHANGED <<rows, seen, locks, mishaps>>
       \/ LockStoreFails(h, Insert)
    /\ UNCHANGED history

Busy(h) ==
    /\ rows[GlobalLock].status = "processing"
    /\ rows[GlobalLock].lockedUntil > -lockAge[h]

LockRead(h) ==
    /\ pc[h] = "lockRead"
    /\ \/ Exists(GlobalLock) /\ ~ Busy(h) /\ GoSeen(h, "lockReclaim", GlobalLock)
          /\ NoFault /\ UNCHANGED locks
       \/ (~ Exists(GlobalLock) \/ Busy(h)) /\ NotLocked(h) /\ NoFault
       \/ NotLocked(h) /\ Fault("db")
    /\ UNCHANGED <<rows, history>>

LockReclaim(h) ==
    LET can == Reclaimable(h, GlobalLock, seen[h], -lockAge[h])
        Take == can /\ Reclaim(GlobalLock, Timeout - lockAge[h], Ttl - lockAge[h])
    IN  /\ pc[h] = "lockReclaim"
        /\ \/ Take /\ Locked(h, Timeout - lockAge[h]) /\ NoFault
           \/ ~ can /\ NotLocked(h) /\ UNCHANGED rows /\ NoFault
           \/ LockStoreFails(h, Take)
        /\ UNCHANGED history

-----------------------------------------------------------------------------
(* The operation, the renewal, the release *)

\* Mutant: the release does not stop the renewal.
WorkOn(h) ==
    /\ pc[h] = "work"
    /\ Go(h, "release")
    /\ \/ succeeded' = succeeded \cup {h}
       \/ UNCHANGED succeeded
    /\ UNCHANGED <<rows, seen, history, mishaps, renewing, rounds, lockAge, lease>>

\* A round of the renewal that found the row by its id.
RoundDue(h) == h \in renewing /\ h \in ids[GlobalLock] /\ lease[h] < Timeout

\* The operation ends, well or not; Release first stops the renewal, all but the
\* round that is under way.
Work(h) ==
    /\ pc[h] = "work"
    /\ Go(h, "release")
    /\ \/ succeeded' = succeeded \cup {h}
       \/ UNCHANGED succeeded
    /\ renewing' = renewing \ {h}
    /\ \/ RoundDue(h) /\ rounds' = rounds \cup {<<h, asked[h]>>}
       \/ UNCHANGED rounds
    /\ UNCHANGED <<rows, seen, history, mishaps, lockAge, lease>>

\* renewLoop: a round that fails is repeated, one that finds no row is the last.
Renew(h) ==
    LET can == h \in ids[GlobalLock] /\ Extendable(GlobalLock, asked[h]) IN
    /\ h \in renewing
    /\ lease[h] < Timeout
    /\ \/ /\ can
          /\ ExtendProcessingLock(GlobalLock, Timeout, Ttl)
          /\ lease' = [lease EXCEPT ![h] = Timeout]
          /\ UNCHANGED renewing
       \/ /\ ~ can
          /\ renewing' = renewing \ {h}
          /\ UNCHANGED <<rows, lease>>
    /\ UNCHANGED <<ids, requests, history, mishaps, rounds, lockAge, succeeded>>

\* The statement of a round that outlived its operation: the row may be in
\* another's hands by now.
FinishRound(h, o) ==
    /\ <<h, o>> \in rounds
    /\ rounds' = rounds \ {<<h, o>>}
    /\ \/ /\ Extendable(GlobalLock, o)
          /\ ExtendProcessingLock(GlobalLock, Timeout, Ttl)
          /\ lease' = IF pc[h] = "release" /\ asked[h] = o
                      THEN [lease EXCEPT ![h] = Timeout] ELSE lease
       \/ ~ Extendable(GlobalLock, o) /\ UNCHANGED <<rows, lease>>
    /\ UNCHANGED <<ids, requests, history, mishaps, lockAge, succeeded, renewing>>

\* Its error is ignored: the lease ends the lock.
Release(h) ==
    LET ReleaseMark == IF h \in succeeded
                       THEN MarkSucceeded(h, GlobalLock, Ttl)
                       ELSE MarkFailedRetryable(h, GlobalLock, 0, Ttl)
    IN  /\ pc[h] = "release"
        /\ \/ ReleaseMark /\ (NoFault \/ Fault("lost"))
           \/ UNCHANGED rows /\ Fault("db")
        /\ Unlocked(h, Outcome(h \in succeeded))
        /\ UNCHANGED history

-----------------------------------------------------------------------------
(* Crashes and time *)

Crash(h) ==
    /\ pc[h] # "idle"
    /\ Fault("crash")
    /\ Answer(h)
    /\ lockAge' = [lockAge EXCEPT ![h] = 0]
    /\ lease' = [lease EXCEPT ![h] = 0]
    /\ succeeded' = succeeded \ {h}
    /\ renewing' = renewing \ {h}
    /\ UNCHANGED <<rows, history, rounds>>

Acquiring(h) == pc[h] \in {"lockRead", "lockReclaim"}

\* The tick ends a lease that is renewed every third of it, or is about to be
\* taken, or to be released, which is given two seconds, like every round.
Stalled ==
    \/ \E h \in Handlers : Acquiring(h) /\ lockAge[h] + 1 >= Timeout
    \/ \E h \in Handlers : (h \in renewing \/ pc[h] = "release") /\ lease[h] = 1

Tick ==
    /\ RequestsAge
    /\ IF Stalled THEN Fault("stall") ELSE NoFault
    /\ lockAge' = [h \in Handlers |-> IF Acquiring(h) THEN lockAge[h] + 1 ELSE 0]
    /\ lease' = [h \in Handlers |-> IF lease[h] > 0 THEN lease[h] - 1 ELSE 0]
    /\ rounds' = {}
    /\ UNCHANGED <<succeeded, renewing>>

\* The clean-up; a round whose row is deleted finds it no more.
Sweep ==
    /\ CleanUp
    /\ rounds' = IF Exists(GlobalLock)' THEN rounds ELSE {}
    /\ UNCHANGED <<lockAge, succeeded, renewing, lease>>

Handle(h) ==
    \/ Execute(h) /\ UNCHANGED locks
    \/ LockCreate(h) \/ LockRead(h) \/ LockReclaim(h)
    \/ Work(h) \/ Renew(h) \/ Release(h) \/ Crash(h)
    \/ \E o \in Operations : FinishRound(h, o)

Next ==
    /\ \/ Tick /\ UNCHANGED victims
       \/ Sweep
       \/ \E h \in Handlers : Handle(h) /\ UNCHANGED victims
    /\ lapsed' = (lapsed \/ \E h \in Holders' : lease'[h] = 0)

Spec == Init /\ [][Next]_vars

-----------------------------------------------------------------------------
(* Properties *)

\* Two operations work at the same time only if a lease has lapsed before
\* (Acquire: the insert, the read and the reclaim are separate statements, any of
\* which may fail, be overtaken, or meet a row whose holder died), or if the row
\* of the lock was swept away just when it was taken.
OneUnlessLapsed == ~ lapsed /\ "swept" \notin happened => \A g, h \in Working : g = h

\* ErrSystemOperationBusy, "another system operation is in progress": as long as
\* one works, no other begins.
OneOperation == \A g, h \in Working : g = h

=============================================================================
