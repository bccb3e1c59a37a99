----------------------------- MODULE Idempotency -----------------------------
(***************************************************************************)
(* IdempotencyCoordinator.Execute: a request with an idempotency key       *)
(* claims the row of its key, executes its operation, and records the      *)
(* outcome for those that come after it.  One action is one statement.     *)
(* What the operation does is left to the module that extends this one: it *)
(* begins at "execute" and ends with Outcome.                              *)
(*                                                                         *)
(* Kinds of fault:                                                         *)
(*    db          a statement fails without effect                         *)
(*    lost        a statement takes effect and reports an error            *)
(*    crash       the process of a request dies                            *)
(*    overtaken   an expired row that a request has read is reclaimed by   *)
(*                another, and looks as before when the request reclaims   *)
(*                it: TryReclaim does not compare expires_at               *)
(*    swept       a row that the clean-up has selected is reclaimed, and   *)
(*                deleted: DeleteExpired does not compare expires_at again *)
(***************************************************************************)
EXTENDS IdempotencyRecords

CONSTANTS
    Operations,    \* what is asked for: an operation and its payload
    KeyOf,         \* the idempotency key a client sends with it, or None, which
                   \* "observe only" lets pass
    Ttl,           \* TTL of a row
    Timeout,       \* ProcessingTimeout
    Backoff,       \* FailedRetryBackoff
    FaultKinds,    \* the kinds of fault that may happen
    MaxFaults      \* bound on the number of faults

VARIABLES
    pc,            \* the next statement of each handler
    asked,         \* the operation its request asks for
    age,           \* how long ago its request began ("now" is read once)
    seen,          \* the status it read last
    spent,         \* history: until when the last claim of a key excludes another
    claimant,      \* history: who claimed it
    faults,        \* number of faults
    happened       \* history: which of "overtaken" and "swept" happened

table    == <<rows, ids>>
requests == <<pc, asked, age, seen>>
history  == <<spent, claimant>>
mishaps  == <<faults, happened>>

Keys == {KeyOf[o] : o \in Operations} \ {None}

\* No request lasts as long as the row that it claims: a TTL is an hour at least.
ASSUME ExecuteAssumption ==
    /\ Fingerprints = Operations
    /\ None \notin Scopes \cup Operations \cup Handlers
    /\ KeyOf \in [Operations -> Scopes \cup {None}]
    /\ Ttl \in Nat /\ Timeout \in 1 .. Ttl /\ Backoff \in Nat
    /\ Horizon \in Nat /\ Horizon < Ttl
    /\ MaxFaults \in Nat

ExecutePC ==
    {"idle", "create", "read", "reclaimExpired", "reread", "reclaim", "execute",
     "markSucceeded", "markFailed"}

Key(h) == KeyOf[asked[h]]

Keyless(h) == Key(h) = None

ExecuteTypeOK(PCs) ==
    /\ TableTypeOK
    /\ pc \in [Handlers -> PCs]
    /\ asked \in [Handlers -> Operations \cup {None}]
    /\ age \in [Handlers -> 0 .. Horizon]
    /\ seen \in [Handlers -> Statuses]
    /\ spent \in [Keys -> 0 .. Ttl]
    /\ claimant \in [Keys -> Handlers \cup {None}]
    /\ faults \in 0 .. MaxFaults
    /\ happened \subseteq {"overtaken", "swept"}

ExecuteInit ==
    /\ TableInit
    /\ pc = [h \in Handlers |-> "idle"]
    /\ asked = [h \in Handlers |-> None]
    /\ age = [h \in Handlers |-> 0]
    /\ seen = [h \in Handlers |-> "none"]
    /\ spent = [k \in Keys |-> 0]
    /\ claimant = [k \in Keys |-> None]
    /\ faults = 0
    /\ happened = {}

-----------------------------------------------------------------------------
Fault(f) ==
    /\ f \in FaultKinds
    /\ faults < MaxFaults
    /\ faults' = faults + 1
    /\ happened' = happened \cup ({f} \cap {"overtaken", "swept"})

NoFault == UNCHANGED mishaps

\* The handler goes on and knows the ids it knew.
Go(h, to) ==
    /\ pc' = [pc EXCEPT ![h] = to]
    /\ UNCHANGED <<ids, asked, age>>

\* The row of s was read.
GoSeen(h, to, s) ==
    /\ pc' = [pc EXCEPT ![h] = to]
    /\ seen' = [seen EXCEPT ![h] = rows[s].status]
    /\ ids' = [ids EXCEPT ![s] = @ \cup {h}]
    /\ UNCHANGED <<asked, age>>

\* The request is answered.
Answer(h) ==
    /\ pc' = [pc EXCEPT ![h] = "idle"]
    /\ asked' = [asked EXCEPT ![h] = None]
    /\ age' = [age EXCEPT ![h] = 0]
    /\ seen' = [seen EXCEPT ![h] = "none"]
    /\ ids' = [s \in Scopes |-> ids[s] \ {h}]

\* An operation without a key gets an id of its own.
Fresh(o) ==
    /\ \A h \in Handlers : asked[h] # o
    /\ \A s \in Scopes : rows[s].fingerprint # o

\* A request arrives.
Request(h, o) ==
    /\ pc[h] = "idle"
    /\ KeyOf[o] = None => Fresh(o)
    /\ pc' = [pc EXCEPT ![h] = IF KeyOf[o] = None THEN "execute" ELSE "create"]
    /\ asked' = [asked EXCEPT ![h] = o]
    /\ UNCHANGED <<age, table, seen, history, mishaps>>

\* The row is the request's own; from here it executes.
Claim(h) ==
    /\ pc' = [pc EXCEPT ![h] = "execute"]
    /\ seen' = [seen EXCEPT ![h] = "none"]
    /\ ids' = [ids EXCEPT ![Key(h)] = @ \cup {h}]
    /\ spent' = [spent EXCEPT ![Key(h)] = Ttl - age[h]]
    /\ claimant' = [claimant EXCEPT ![Key(h)] = h]
    /\ UNCHANGED <<asked, age>>

\* A statement fails and the request ends: the store is unavailable.
StoreFails(h, Applied) ==
    /\ \/ UNCHANGED rows /\ Fault("db")
       \/ Applied /\ Fault("lost")
    /\ Answer(h)
    /\ UNCHANGED history

Create(h) ==
    LET Insert == CreateProcessing(Key(h), asked[h], Timeout - age[h], Ttl - age[h]) IN
    /\ pc[h] = "create"
    /\ \/ Insert /\ Claim(h) /\ NoFault
       \/ /\ Exists(Key(h))
          /\ Go(h, "read")
          /\ UNCHANGED <<rows, seen, history, mishaps>>
       \/ StoreFails(h, Insert)

\* Replay, conflict, back-off or another try, by the status of the row.
ByStatus(h) ==
    LET row == rows[Key(h)] IN
    IF row.status = "failed_retryable" /\ row.lockedUntil <= -age[h]
    THEN GoSeen(h, "reclaim", Key(h))
    ELSE Answer(h)

\* A row that is gone, or is another payload's, ends the request.
Usable(h) == Exists(Key(h)) /\ rows[Key(h)].fingerprint = asked[h]

Expired(h) == rows[Key(h)].expiresAt <= -age[h]

Read(h) ==
    /\ pc[h] = "read"
    /\ \/ Usable(h) /\ Expired(h) /\ GoSeen(h, "reclaimExpired", Key(h)) /\ NoFault
       \/ Usable(h) /\ ~ Expired(h) /\ ByStatus(h) /\ NoFault
       \/ ~ Usable(h) /\ Answer(h) /\ NoFault
       \/ Answer(h) /\ Fault("db")
    /\ UNCHANGED <<rows, history>>

\* TryReclaim with the status that was read; a row that is expired no more was
\* reclaimed by somebody else meanwhile.
ReclaimExpired(h) ==
    LET can == Reclaimable(h, Key(h), seen[h], -age[h])
        Take == can /\ Reclaim(Key(h), Timeout - age[h], Ttl - age[h])
    IN  /\ pc[h] = "reclaimExpired"
        /\ \/ /\ Take
              /\ Claim(h)
              /\ IF Expired(h) THEN NoFault ELSE Fault("overtaken")
           \/ /\ ~ can
              /\ Go(h, "reread")
              /\ UNCHANGED <<rows, seen, history, mishaps>>
           \/ StoreFails(h, Take /\ Expired(h))

Reread(h) ==
    /\ pc[h] = "reread"
    /\ \/ Usable(h) /\ ByStatus(h) /\ NoFault
       \/ ~ Usable(h) /\ Answer(h) /\ NoFault
       \/ Answer(h) /\ Fault("db")
    /\ UNCHANGED <<rows, history>>

ReclaimFailed(h) ==
    LET can == Reclaimable(h, Key(h), "failed_retryable", -age[h])
        Take == can /\ Reclaim(Key(h), Timeout - age[h], Ttl - age[h])
    IN  /\ pc[h] = "reclaim"
        /\ \/ Take /\ Claim(h) /\ NoFault
           \/ ~ can /\ Answer(h) /\ UNCHANGED <<rows, history>> /\ NoFault
           \/ StoreFails(h, Take)

\* The operation has ended.
Outcome(succeeded) == IF succeeded THEN "markSucceeded" ELSE "markFailed"

RecordSuccess(h) ==
    /\ pc[h] = "markSucceeded" /\ ~ Keyless(h)
    /\ \/ MarkSucceeded(h, Key(h), Ttl - age[h]) /\ Answer(h) /\ NoFault /\ UNCHANGED history
       \/ StoreFails(h, MarkSucceeded(h, Key(h), Ttl - age[h]))

\* The last claim of the key has failed: the operation may be tried again.
Excuse(h) ==
    IF claimant[Key(h)] = h
    THEN /\ spent' = [spent EXCEPT ![Key(h)] = 0]
         /\ claimant' = [claimant EXCEPT ![Key(h)] = None]
    ELSE UNCHANGED history

RecordFailure(h) ==
    /\ pc[h] = "markFailed" /\ ~ Keyless(h)
    /\ Answer(h)
    /\ \/ /\ MarkFailedRetryable(h, Key(h), Backoff, Ttl - age[h])
          /\ Excuse(h)
          /\ NoFault \/ Fault("lost")
       \/ UNCHANGED <<rows, history>> /\ Fault("db")

RecordNothing(h) ==
    /\ pc[h] \in {"markSucceeded", "markFailed"} /\ Keyless(h)
    /\ Answer(h)
    /\ NoFault
    /\ UNCHANGED <<rows, history>>

\* IdempotencyCleanupService, of one instance at a time; its statement may fail.
CleanUp ==
    /\ \/ SelectExpired /\ NoFault
       \/ DeleteVictims /\ IF victims \subseteq ExpiredRows THEN NoFault ELSE Fault("swept")
       \/ victims' = {} /\ UNCHANGED <<rows, ids>> /\ NoFault
    /\ UNCHANGED <<requests, history>>

\* A tick, for the rows and the requests; the clean-up is a single statement
\* and takes less.
RequestsAge ==
    /\ \A h \in Handlers : age[h] < Horizon
    /\ victims = {}
    /\ TimePasses
    /\ age' = [h \in Handlers |-> IF pc[h] = "idle" THEN 0 ELSE age[h] + 1]
    /\ spent' = [k \in Keys |-> IF spent[k] > 0 THEN spent[k] - 1 ELSE 0]
    /\ claimant' = [k \in Keys |-> IF spent[k] > 1 THEN claimant[k] ELSE None]
    /\ UNCHANGED <<ids, pc, asked, seen>>

Execute(h) ==
    \/ \E o \in Operations : Request(h, o)
    \/ Create(h) \/ Read(h) \/ ReclaimExpired(h) \/ Reread(h) \/ ReclaimFailed(h)
    \/ RecordSuccess(h) \/ RecordFailure(h) \/ RecordNothing(h)

-----------------------------------------------------------------------------
(* Properties *)

\* A request with a key begins to execute.
Begins(h) == pc[h] \in {"create", "reclaimExpired", "reclaim"} /\ pc'[h] = "execute"

\* While an execution of a key may still be running, or has succeeded, and its
\* TTL has not passed, no request with that key executes again, whatever fails
\* (Execute: insert, read, compare and reclaim are separate statements), unless
\* an expired row was reclaimed twice, or reclaimed and swept away.
NoRepeat ==
    [][\A h \in Handlers : Begins(h) => spent[Key(h)] = 0 \/ happened' # {}]_<<pc, spent>>

\* A recorded success stays, for its replay, until its TTL has passed
\* (TryReclaim and the two marks do not ask for the owner of the row).
SuccessStays ==
    [][\A k \in Keys :
          rows[k].status = "succeeded" /\ rows[k].expiresAt > 0
             => rows'[k].status = "succeeded" \/ happened' # {}]_<<rows, happened>>

=============================================================================
