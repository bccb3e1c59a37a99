------------------------ MODULE SystemOperation_proofs ------------------------
(***************************************************************************)
(* Proofs about the system operations and the idempotency of requests, for *)
(* any handlers, keys, operations, deadlines and number of faults: one     *)
(* operation works at a time unless a lease has lapsed, an operation       *)
(* executes once in the TTL of its key, and a recorded success stays.      *)
(***************************************************************************)
EXTENDS SystemOperation, TLAPS

Executing(h) ==
    pc[h] \in {"execute", "lockRead", "lockReclaim", "work", "release", "markSucceeded",
               "markFailed"}

\* A request has its operation, and a key where it needs one; the clock of an
\* acquisition runs only during it.
Asked ==
    \A h \in Handlers :
        /\ pc[h] # "idle" => asked[h] \in Operations
        /\ pc[h] \in {"create", "read", "reclaimExpired", "reread", "reclaim"} => ~ Keyless(h)
        /\ lockAge[h] <= age[h]
        /\ ~ Acquiring(h) => lockAge[h] = 0

\* The only holder has a lease, and the row of the lock lasts as long.
Held ==
    \A h \in Holders :
        /\ lease[h] > 0
        /\ rows[GlobalLock].status = "processing"
        /\ rows[GlobalLock].lockedUntil >= lease[h]
        /\ rows[GlobalLock].expiresAt >= lease[h]
        /\ \A g \in Holders : g = h

\* Who executes for a key has claimed it last, and the row still says so.
Owned ==
    \A h \in Handlers : Executing(h) /\ ~ Keyless(h) =>
        /\ claimant[Key(h)] = h
        /\ spent[Key(h)] = Ttl - age[h]
        /\ rows[Key(h)].status = "processing"

\* The row of a key that excludes others lasts as long as it does.
Guarded ==
    \A k \in Keys : spent[k] > 0 =>
        /\ rows[k].status \in {"processing", "succeeded"}
        /\ rows[k].expiresAt >= spent[k]

IInv ==
    /\ TypeOK /\ Asked
    /\ ~ lapsed /\ "swept" \notin happened => Held
    /\ happened = {} => Owned /\ Guarded

-----------------------------------------------------------------------------
LEMMA KeysAreScopes ==
    /\ Keys \subseteq Scopes /\ GlobalLock \in Scopes /\ GlobalLock \notin Keys
    /\ \A o \in Operations : KeyOf[o] # None => KeyOf[o] \in Keys
BY ExecuteAssumption, LockAssumption DEF Keys

RowType == [status : Statuses, fingerprint : Fingerprints \cup {None},
            lockedUntil : Int, expiresAt : Int]

\* A statement has written one row.
Wrote(s, status, lockedUntil, expiresAt) ==
    /\ rows' \in [Scopes -> RowType]
    /\ rows'[s].status = status
    /\ rows'[s].lockedUntil = lockedUntil
    /\ rows'[s].expiresAt = expiresAt
    /\ \A x \in Scopes : x # s => rows'[x] = rows[x]

LEMMA Statements ==
    ASSUME rows \in [Scopes -> RowType],
           NEW s \in Scopes, NEW until \in Int, NEW end \in Int
    PROVE  /\ \A f \in Fingerprints :
                 CreateProcessing(s, f, until, end) => Wrote(s, "processing", until, end)
           /\ Reclaim(s, until, end) => Wrote(s, "processing", until, end)
           /\ ExtendProcessingLock(s, until, end) => Wrote(s, rows[s].status, until, end)
           /\ \A h, status : status \in Statuses /\ Mark(h, s, status, until, end) =>
                 UNCHANGED rows \/ Wrote(s, status, until, end)
<1> USE DEF Wrote, RowType, Update, Statuses
<1>1. ASSUME NEW f \in Fingerprints, CreateProcessing(s, f, until, end)
      PROVE  Wrote(s, "processing", until, end)
  BY <1>1 DEF CreateProcessing, Row
<1>2. ASSUME Reclaim(s, until, end) PROVE Wrote(s, "processing", until, end)
  BY <1>2 DEF Reclaim
<1>3. ASSUME ExtendProcessingLock(s, until, end) PROVE Wrote(s, rows[s].status, until, end)
  BY <1>3 DEF ExtendProcessingLock
<1>4. ASSUME NEW h, NEW status \in Statuses, Mark(h, s, status, until, end)
      PROVE  UNCHANGED rows \/ Wrote(s, status, until, end)
  BY <1>4 DEF Mark, Row
<1> QED
  BY ONLY <1>1, <1>2, <1>3, <1>4

\* The clean-up deletes the rows it has selected; they are still expired, or
\* "swept" has happened.
LEMMA Deletion ==
    ASSUME rows \in [Scopes -> RowType], ids \in [Scopes -> SUBSET Handlers],
           victims \subseteq Scopes, Past \in Int, Sweep
    PROVE  /\ rows' \in [Scopes -> RowType]
           /\ ids' \in [Scopes -> SUBSET Handlers]
           /\ victims' \subseteq Scopes
           /\ \A s \in Scopes :
                 \/ rows'[s] = rows[s]
                 \/ rows'[s] = NoRow /\ (rows[s].expiresAt <= 0 \/ "swept" \in happened')
           /\ rounds' \subseteq rounds
           /\ UNCHANGED <<requests, history, lockAge, succeeded, renewing, lease>>
<1>0. /\ rounds' \subseteq rounds
      /\ UNCHANGED <<requests, history, lockAge, succeeded, renewing, lease>>
  BY DEF Sweep, CleanUp
<1>1. CASE SelectExpired
  BY <1>0, <1>1 DEF SelectExpired, ExpiredRows
<1>2. CASE DeleteVictims /\ (victims \subseteq ExpiredRows \/ Fault("swept"))
  <2>1. NoRow \in RowType
    BY ExecuteAssumption DEF NoRow, Row, RowType, Statuses
  <2>2. /\ rows' = [s \in Scopes |-> IF s \in victims THEN NoRow ELSE rows[s]]
        /\ ids' = [s \in Scopes |-> IF s \in victims THEN {} ELSE ids[s]]
        /\ victims' = {}
    BY <1>2 DEF DeleteVictims
  <2>3. \A s \in victims : rows[s].expiresAt <= 0 \/ "swept" \in happened'
    BY <1>2 DEF ExpiredRows, Fault
  <2>4. rows' \in [Scopes -> RowType] /\ ids' \in [Scopes -> SUBSET Handlers]
    BY <2>1, <2>2
  <2> QED
    BY ONLY <1>0, <2>2, <2>3, <2>4
<1>3. CASE victims' = {} /\ UNCHANGED <<rows, ids>>
  BY <1>0, <1>3
<1> QED
  BY <1>1, <1>2, <1>3 DEF Sweep, CleanUp

LEMMA Clock ==
    ASSUME rows \in [Scopes -> RowType], Past \in Int, TimePasses
    PROVE  /\ rows' \in [Scopes -> RowType]
           /\ \A s \in Scopes :
                 /\ rows'[s].status = rows[s].status
                 /\ rows'[s].lockedUntil = Sooner(rows[s].lockedUntil)
                 /\ rows'[s].expiresAt = Sooner(rows[s].expiresAt)
<1> DEFINE After(s) == [rows[s] EXCEPT !.lockedUntil = Sooner(@), !.expiresAt = Sooner(@)]
<1>1. \A d \in Int : Sooner(d) \in Int
  BY DEF Sooner
<1>2. rows' = [s \in Scopes |-> After(s)]
  BY DEF TimePasses
<1>3. ASSUME NEW s \in Scopes
      PROVE  /\ After(s) \in RowType
             /\ After(s).status = rows[s].status
             /\ After(s).lockedUntil = Sooner(rows[s].lockedUntil)
             /\ After(s).expiresAt = Sooner(rows[s].expiresAt)
  <2>1. rows[s] \in RowType
    OBVIOUS
  <2>2. Sooner(rows[s].lockedUntil) \in Int /\ Sooner(rows[s].expiresAt) \in Int
    BY <1>1, <2>1 DEF RowType
  <2> QED
    BY ONLY <2>1, <2>2 DEF RowType
<1> HIDE DEF After
<1> QED
  BY ONLY <1>2, <1>3

\* The statements of a request on the row of its key, and on that of the lock.
LEMMA KeyWrites ==
    ASSUME TypeOK, NEW h \in Handlers, asked[h] \in Operations, ~ Keyless(h)
    PROVE  /\ CreateProcessing(Key(h), asked[h], Timeout - age[h], Ttl - age[h]) =>
                 Wrote(Key(h), "processing", Timeout - age[h], Ttl - age[h])
           /\ Reclaim(Key(h), Timeout - age[h], Ttl - age[h]) =>
                 Wrote(Key(h), "processing", Timeout - age[h], Ttl - age[h])
           /\ MarkSucceeded(h, Key(h), Ttl - age[h]) =>
                 UNCHANGED rows \/ Wrote(Key(h), "succeeded", Past, Ttl - age[h])
           /\ MarkFailedRetryable(h, Key(h), Backoff, Ttl - age[h]) =>
                 UNCHANGED rows \/ Wrote(Key(h), "failed_retryable", Backoff, Ttl - age[h])
<1>1. /\ rows \in [Scopes -> RowType] /\ Key(h) \in Scopes /\ asked[h] \in Fingerprints
      /\ Timeout - age[h] \in Int /\ Ttl - age[h] \in Int /\ Past \in Int /\ Backoff \in Int
      /\ "succeeded" \in Statuses /\ "failed_retryable" \in Statuses
  BY ExecuteAssumption, KeysAreScopes
  DEF TypeOK, ExecuteTypeOK, TableTypeOK, RowType, Key, Keyless, Past, Statuses
<1> QED
  BY ONLY <1>1, Statements DEF MarkSucceeded, MarkFailedRetryable

LEMMA LockWrites ==
    ASSUME TypeOK, NEW h \in Handlers, asked[h] \in Operations
    PROVE  /\ CreateProcessing(GlobalLock, asked[h], Timeout, Ttl) =>
                 Wrote(GlobalLock, "processing", Timeout, Ttl)
           /\ Reclaim(GlobalLock, Timeout - lockAge[h], Ttl - lockAge[h]) =>
                 Wrote(GlobalLock, "processing", Timeout - lockAge[h], Ttl - lockAge[h])
           /\ ExtendProcessingLock(GlobalLock, Timeout, Ttl) =>
                 Wrote(GlobalLock, rows[GlobalLock].status, Timeout, Ttl)
           /\ MarkSucceeded(h, GlobalLock, Ttl) =>
                 UNCHANGED rows \/ Wrote(GlobalLock, "succeeded", Past, Ttl)
           /\ MarkFailedRetryable(h, GlobalLock, 0, Ttl) =>
                 UNCHANGED rows \/ Wrote(GlobalLock, "failed_retryable", 0, Ttl)
<1>1. /\ rows \in [Scopes -> RowType] /\ GlobalLock \in Scopes /\ asked[h] \in Fingerprints
      /\ Timeout - lockAge[h] \in Int /\ Ttl - lockAge[h] \in Int /\ Past \in Int
      /\ Timeout \in Int /\ Ttl \in Int /\ 0 \in Int
      /\ "succeeded" \in Statuses /\ "failed_retryable" \in Statuses
  BY ExecuteAssumption, KeysAreScopes
  DEF TypeOK, ExecuteTypeOK, TableTypeOK, RowType, Past, Statuses
<1> QED
  BY ONLY <1>1, Statements DEF MarkSucceeded, MarkFailedRetryable

\* A late round of the renewal writes the row of the lock or none.
LEMMA RoundWrites ==
    ASSUME TypeOK, NEW h \in Handlers, NEW o \in Operations, FinishRound(h, o)
    PROVE  /\ \/ UNCHANGED <<rows, lease>>
              \/ /\ Wrote(GlobalLock, rows[GlobalLock].status, Timeout, Ttl)
                 /\ lease' = [lease EXCEPT ![h] = Timeout] \/ lease' = lease
           /\ rows' \in [Scopes -> RowType]
           /\ \A k \in Keys : rows'[k] = rows[k]
           /\ rounds' \subseteq rounds
           /\ UNCHANGED <<ids, requests, history, lockAge, succeeded, renewing>>
<1>1. rows \in [Scopes -> RowType] /\ GlobalLock \in Scopes /\ Timeout \in Int /\ Ttl \in Int
      /\ Keys \subseteq Scopes /\ GlobalLock \notin Keys
  BY ExecuteAssumption, KeysAreScopes DEF TypeOK, ExecuteTypeOK, TableTypeOK, RowType
<1>2. ExtendProcessingLock(GlobalLock, Timeout, Ttl) =>
          Wrote(GlobalLock, rows[GlobalLock].status, Timeout, Ttl)
  BY ONLY <1>1, Statements
<1>3. /\ rounds' \subseteq rounds
      /\ UNCHANGED <<ids, requests, history, lockAge, succeeded, renewing>>
      /\ \/ UNCHANGED <<rows, lease>>
         \/ /\ ExtendProcessingLock(GlobalLock, Timeout, Ttl)
            /\ lease' = [lease EXCEPT ![h] = Timeout] \/ lease' = lease
  BY DEF FinishRound
<1> QED
  BY ONLY <1>1, <1>2, <1>3 DEF Wrote

-----------------------------------------------------------------------------
(* What one step does to the rows and to the history. *)

\* The key of a request excludes nobody.
Free(h) ==
    \/ rows[Key(h)].status = "none"
    \/ rows[Key(h)].status = "failed_retryable"
    \/ rows[Key(h)].expiresAt <= 0

\* A request is answered, or goes on to its next statement.
Proceeds(h) ==
    /\ UNCHANGED <<rows, history>>
    /\ \/ Answer(h)
       \/ \E to \in {"read", "reread"} : Go(h, to) /\ UNCHANGED seen /\ ~ Keyless(h)
       \/ \E to \in {"reclaimExpired", "reclaim"} : GoSeen(h, to, Key(h)) /\ ~ Keyless(h)

\* It claims its key, and does not learn so if the statement is lost.
Claims(h) ==
    /\ ~ Keyless(h)
    /\ Wrote(Key(h), "processing", Timeout - age[h], Ttl - age[h])
    /\ \/ Claim(h) /\ (Free(h) \/ happened' # {})
       \/ Answer(h) /\ UNCHANGED history /\ Free(h)

\* It records its outcome.
Records(h) ==
    /\ ~ Keyless(h)
    /\ Answer(h)
    /\ \/ /\ pc[h] = "markSucceeded"
          /\ Wrote(Key(h), "succeeded", Past, Ttl - age[h])
          /\ UNCHANGED history
       \/ /\ pc[h] = "markFailed"
          /\ UNCHANGED rows \/ Wrote(Key(h), "failed_retryable", Backoff, Ttl - age[h])
          /\ Excuse(h)

Statement(h) ==
    \/ Create(h) \/ Read(h) \/ ReclaimExpired(h) \/ Reread(h) \/ ReclaimFailed(h)
    \/ RecordSuccess(h) \/ RecordFailure(h) \/ RecordNothing(h)

LEMMA StatementEffect ==
    ASSUME TypeOK, Asked, NEW h \in Handlers, Statement(h)
    PROVE  /\ Proceeds(h) \/ Claims(h) \/ Records(h)
           /\ pc[h] \in ExecutePC \ {"idle", "execute"} /\ asked[h] \in Operations
<1>a. pc[h] # "idle" => asked[h] \in Operations
  BY DEF Asked
<1>b. pc[h] \in {"create", "read", "reclaimExpired", "reread", "reclaim"} => ~ Keyless(h)
  BY DEF Asked
<1>c. age[h] \in Nat
  BY ExecuteAssumption DEF TypeOK, ExecuteTypeOK
<1>1. CASE Create(h)
  <2>1. pc[h] = "create" /\ asked[h] \in Operations /\ ~ Keyless(h)
    BY <1>1, <1>a, <1>b DEF Create
  <2> QED
    BY <1>1, <2>1, KeyWrites
    DEF Create, Proceeds, Claims, StoreFails, Free, ExecutePC, CreateProcessing, Exists
<1>2. CASE Read(h)
  BY <1>2, <1>a, <1>b DEF Read, ByStatus, Proceeds, ExecutePC
<1>3. CASE ReclaimExpired(h)
  <2>1. pc[h] = "reclaimExpired" /\ asked[h] \in Operations /\ ~ Keyless(h)
    BY <1>3, <1>a, <1>b DEF ReclaimExpired
  <2>2. Expired(h) => Free(h)
    BY <1>c, KeysAreScopes, <2>1 DEF Expired, Free, TypeOK, ExecuteTypeOK, TableTypeOK, Key, Keyless
  <2>3. Fault("overtaken") => happened' # {}
    BY DEF Fault
  <2> QED
    BY <1>3, <2>1, <2>2, <2>3, KeyWrites DEF ReclaimExpired, Proceeds, Claims, StoreFails, ExecutePC
<1>4. CASE Reread(h)
  BY <1>4, <1>a, <1>b DEF Reread, ByStatus, Proceeds, ExecutePC
<1>5. CASE ReclaimFailed(h)
  <2>1. pc[h] = "reclaim" /\ asked[h] \in Operations /\ ~ Keyless(h)
    BY <1>5, <1>a, <1>b DEF ReclaimFailed
  <2> QED
    BY <1>5, <2>1, KeyWrites
    DEF ReclaimFailed, Reclaimable, Proceeds, Claims, StoreFails, Free, ExecutePC
<1>6. CASE RecordSuccess(h)
  BY <1>6, <1>a, KeyWrites DEF RecordSuccess, Proceeds, Records, StoreFails, ExecutePC
<1>7. CASE RecordFailure(h)
  BY <1>7, <1>a, KeyWrites DEF RecordFailure, Proceeds, Records, ExecutePC
<1>8. CASE RecordNothing(h)
  BY <1>8, <1>a DEF RecordNothing, Proceeds, ExecutePC
<1> QED
  BY ONLY Statement(h), <1>1, <1>2, <1>3, <1>4, <1>5, <1>6, <1>7, <1>8 DEF Statement

\* Nobody holds the lock.
Unheld ==
    rows[GlobalLock].status # "processing" \/ rows[GlobalLock].lockedUntil <= 0

\* The lock is looked at, taken (which a lost statement does not tell), or not.
Looks(h) ==
    /\ UNCHANGED rows
    /\ \/ Go(h, "lockRead") /\ UNCHANGED <<seen, locks>>
       \/ GoSeen(h, "lockReclaim", GlobalLock) /\ UNCHANGED locks
       \/ NotLocked(h)

Takes(h) ==
    /\ Unheld
    /\ \E late \in {0, lockAge[h]} :
          /\ Wrote(GlobalLock, "processing", Timeout - late, Ttl - late)
          /\ Locked(h, Timeout - late) \/ NotLocked(h)

LockStatement(h) == LockCreate(h) \/ LockRead(h) \/ LockReclaim(h)

LEMMA LockStatementEffect ==
    ASSUME TypeOK, Asked, NEW h \in Handlers, LockStatement(h)
    PROVE  /\ Looks(h) \/ Takes(h)
           /\ pc[h] \in {"execute", "lockRead", "lockReclaim"} /\ asked[h] \in Operations
           /\ UNCHANGED history
<1>1. pc[h] \in {"execute", "lockRead", "lockReclaim"} /\ asked[h] \in Operations
      /\ UNCHANGED history /\ lockAge[h] \in Nat /\ rows[GlobalLock].lockedUntil \in Int
      /\ Timeout \in Nat /\ Ttl \in Nat
  BY ExecuteAssumption, KeysAreScopes
  DEF Asked, LockStatement, LockCreate, LockRead, LockReclaim, TypeOK, ExecuteTypeOK, TableTypeOK
<1>2. CASE LockCreate(h)
  <2>1. CreateProcessing(GlobalLock, asked[h], Timeout, Ttl) =>
            Wrote(GlobalLock, "processing", Timeout - 0, Ttl - 0) /\ Unheld
    BY <1>1, LockWrites DEF CreateProcessing, Exists, Unheld
  <2> QED
    BY <1>1, <1>2, <2>1 DEF LockCreate, LockStoreFails, Looks, Takes
<1>3. CASE LockRead(h)
  BY <1>1, <1>3 DEF LockRead, Looks
<1>4. CASE LockReclaim(h)
  <2>1. Reclaimable(h, GlobalLock, seen[h], -lockAge[h]) => Unheld
    BY <1>1 DEF Reclaimable, Unheld
  <2> QED
    BY <1>1, <1>4, <2>1, LockWrites DEF LockReclaim, LockStoreFails, Looks, Takes
<1> QED
  BY ONLY <1>1, <1>2, <1>3, <1>4, LockStatement(h) DEF LockStatement


-----------------------------------------------------------------------------
(* Types *)

RequestsOK ==
    /\ ids \in [Scopes -> SUBSET Handlers]
    /\ pc \in [Handlers -> PCs]
    /\ asked \in [Handlers -> Operations \cup {None}]
    /\ age \in [Handlers -> 0 .. Horizon]
    /\ seen \in [Handlers -> Statuses]

HistoryOK == spent \in [Keys -> 0 .. Ttl] /\ claimant \in [Keys -> Handlers \cup {None}]

LocksOK ==
    /\ lockAge \in [Handlers -> 0 .. Horizon]
    /\ succeeded \subseteq Handlers
    /\ renewing \subseteq Working
    /\ rounds \subseteq Handlers \X Operations
    /\ lease \in [Handlers -> 0 .. Timeout]

MishapsOK == faults \in 0 .. MaxFaults /\ happened \subseteq {"overtaken", "swept"}

LEMMA TypeParts ==
    TypeOK <=> /\ rows \in [Scopes -> RowType] /\ lapsed \in BOOLEAN /\ victims \subseteq Scopes
               /\ RequestsOK /\ HistoryOK /\ LocksOK /\ MishapsOK
BY DEF TypeOK, ExecuteTypeOK, TableTypeOK, RowType, RequestsOK, HistoryOK, LocksOK, MishapsOK

\* A fault of any kind is counted; nothing else changes what has happened.
LEMMA MishapStep == Next => NoFault \/ \E f \in FaultKinds : Fault(f)
<1> SUFFICES ASSUME Next PROVE NoFault \/ \E f \in FaultKinds : Fault(f)
  OBVIOUS
<1> DEFINE Any == NoFault \/ \E f \in FaultKinds : Fault(f)
<1>a. \A f : Fault(f) => f \in FaultKinds
  BY DEF Fault
<1>b. UNCHANGED mishaps => NoFault
  BY DEF NoFault
<1> USE <1>a, <1>b
<1>1. ASSUME NEW h \in Handlers, NEW o \in Operations, Request(h, o), UNCHANGED locks PROVE Any
  BY <1>1 DEF Request
<1>2. ASSUME NEW h \in Handlers, Create(h), UNCHANGED locks PROVE Any
  BY <1>2 DEF Create, StoreFails
<1>3. ASSUME NEW h \in Handlers, Read(h), UNCHANGED locks PROVE Any
  BY <1>3 DEF Read
<1>4. ASSUME NEW h \in Handlers, ReclaimExpired(h), UNCHANGED locks PROVE Any
  BY <1>4 DEF ReclaimExpired, StoreFails
<1>5. ASSUME NEW h \in Handlers, Reread(h), UNCHANGED locks PROVE Any
  BY <1>5 DEF Reread
<1>6. ASSUME NEW h \in Handlers, ReclaimFailed(h), UNCHANGED locks PROVE Any
  BY <1>6 DEF ReclaimFailed, StoreFails
<1>7. ASSUME NEW h \in Handlers, RecordSuccess(h), UNCHANGED locks PROVE Any
  BY <1>7 DEF RecordSuccess, StoreFails
<1>8. ASSUME NEW h \in Handlers, RecordFailure(h), UNCHANGED locks PROVE Any
  BY <1>8 DEF RecordFailure
<1>9. ASSUME NEW h \in Handlers, RecordNothing(h), UNCHANGED locks PROVE Any
  BY <1>9 DEF RecordNothing
<1>10. ASSUME NEW h \in Handlers, LockCreate(h) PROVE Any
  BY <1>10 DEF LockCreate, LockStoreFails
<1>11. ASSUME NEW h \in Handlers, LockRead(h) PROVE Any
  BY <1>11 DEF LockRead
<1>12. ASSUME NEW h \in Handlers, LockReclaim(h) PROVE Any
  BY <1>12 DEF LockReclaim, LockStoreFails
<1>13. ASSUME NEW h \in Handlers, Work(h) PROVE Any
  BY <1>13 DEF Work
<1>14. ASSUME NEW h \in Handlers, Renew(h) PROVE Any
  BY <1>14 DEF Renew
<1>15. ASSUME NEW h \in Handlers, Release(h) PROVE Any
  BY <1>15 DEF Release
<1>16. ASSUME NEW h \in Handlers, Crash(h) PROVE Any
  BY <1>16 DEF Crash
<1>17. CASE Sweep
  BY <1>17 DEF Sweep, CleanUp
<1>18. CASE Tick
  BY <1>18 DEF Tick
<1>19. ASSUME NEW h \in Handlers, NEW o \in Operations, FinishRound(h, o) PROVE Any
  BY <1>19 DEF FinishRound
<1> QED
  BY ONLY Next, <1>1, <1>2, <1>3, <1>4, <1>5, <1>6, <1>7, <1>8, <1>9, <1>10, <1>11,
     <1>12, <1>13, <1>14, <1>15, <1>16, <1>17, <1>18, <1>19
  DEF Next, Handle, Execute

LEMMA MishapTypes == MishapsOK /\ Next => MishapsOK'
<1> SUFFICES ASSUME MishapsOK, Next PROVE MishapsOK'
  OBVIOUS
<1>1. CASE NoFault
  BY <1>1 DEF NoFault, mishaps, MishapsOK
<1>2. ASSUME NEW f \in FaultKinds, Fault(f) PROVE MishapsOK'
  BY <1>2, ExecuteAssumption DEF Fault, MishapsOK
<1> QED
  BY <1>1, <1>2, MishapStep

LEMMA NothingForgotten == Next => happened \subseteq happened' /\ (lapsed => lapsed')
<1> SUFFICES ASSUME Next PROVE happened \subseteq happened'
  BY DEF Next
<1>1. CASE NoFault
  BY <1>1 DEF NoFault, mishaps
<1>2. ASSUME NEW f \in FaultKinds, Fault(f) PROVE happened \subseteq happened'
  BY <1>2 DEF Fault
<1> QED
  BY <1>1, <1>2, MishapStep

\* The steps of a request.
LEMMA RequestTypes ==
    ASSUME rows \in [Scopes -> RowType], RequestsOK, NEW h \in Handlers
    PROVE  /\ Answer(h) => RequestsOK'
           /\ \A to \in PCs : Go(h, to) /\ UNCHANGED seen => RequestsOK'
           /\ \A to \in PCs, s \in Scopes : GoSeen(h, to, s) => RequestsOK'
<1> USE DEF RequestsOK
<1>1. ASSUME Answer(h) PROVE RequestsOK'
  BY <1>1, ExecuteAssumption DEF Answer, PCs, ExecutePC, Statuses
<1>2. ASSUME NEW to \in PCs, Go(h, to), UNCHANGED seen PROVE RequestsOK'
  BY <1>2 DEF Go
<1>3. ASSUME NEW to \in PCs, NEW s \in Scopes, GoSeen(h, to, s) PROVE RequestsOK'
  <2>1. rows[s].status \in Statuses
    BY DEF RowType
  <2>2. ids[s] \cup {h} \in SUBSET Handlers
    OBVIOUS
  <2> QED
    BY <1>3, <2>1, <2>2 DEF GoSeen
<1> QED
  BY ONLY <1>1, <1>2, <1>3

LEMMA ClaimTypes ==
    ASSUME RequestsOK, HistoryOK, NEW h \in Handlers, Key(h) \in Keys, Claim(h)
    PROVE  RequestsOK' /\ HistoryOK'
<1>1. Key(h) \in Scopes /\ Ttl - age[h] \in 0 .. Ttl
  BY KeysAreScopes, ExecuteAssumption DEF RequestsOK
<1>2. ids[Key(h)] \cup {h} \in SUBSET Handlers
  BY <1>1 DEF RequestsOK
<1>3. HistoryOK'
  BY <1>1 DEF Claim, HistoryOK
<1>4. RequestsOK'
  BY <1>1, <1>2 DEF Claim, RequestsOK, PCs, ExecutePC, Statuses
<1> QED
  BY <1>3, <1>4

\* One handler moves.
Local(h) ==
    \A x \in Handlers : x # h =>
        pc'[x] = pc[x] /\ asked'[x] = asked[x] /\ age'[x] = age[x]

LEMMA Locality ==
    ASSUME RequestsOK, NEW h \in Handlers
    PROVE  /\ Answer(h) => Local(h) /\ pc'[h] = "idle" /\ asked'[h] = None /\ age'[h] = 0
           /\ \A to : Go(h, to) => Local(h) /\ pc'[h] = to /\ asked'[h] = asked[h] /\ age'[h] = age[h]
           /\ \A to, s : GoSeen(h, to, s) =>
                 Local(h) /\ pc'[h] = to /\ asked'[h] = asked[h] /\ age'[h] = age[h]
           /\ Claim(h) =>
                 Local(h) /\ pc'[h] = "execute" /\ asked'[h] = asked[h] /\ age'[h] = age[h]
           /\ \A until : Locked(h, until) =>
                 Local(h) /\ pc'[h] = "work" /\ asked'[h] = asked[h] /\ age'[h] = age[h]
           /\ \A to : Unlocked(h, to) =>
                 Local(h) /\ pc'[h] = to /\ asked'[h] = asked[h] /\ age'[h] = age[h]
<1> USE DEF RequestsOK, Local
<1>1. Answer(h) => Local(h) /\ pc'[h] = "idle" /\ asked'[h] = None /\ age'[h] = 0
  BY DEF Answer
<1>2. ASSUME NEW to, Go(h, to)
      PROVE  Local(h) /\ pc'[h] = to /\ asked'[h] = asked[h] /\ age'[h] = age[h]
  BY <1>2 DEF Go
<1>3. ASSUME NEW to, NEW s, GoSeen(h, to, s)
      PROVE  Local(h) /\ pc'[h] = to /\ asked'[h] = asked[h] /\ age'[h] = age[h]
  BY <1>3 DEF GoSeen
<1>4. Claim(h) => Local(h) /\ pc'[h] = "execute" /\ asked'[h] = asked[h] /\ age'[h] = age[h]
  BY DEF Claim
<1>5. ASSUME NEW until, Locked(h, until)
      PROVE  Local(h) /\ pc'[h] = "work" /\ asked'[h] = asked[h] /\ age'[h] = age[h]
  BY <1>5 DEF Locked
<1>6. ASSUME NEW to, Unlocked(h, to)
      PROVE  Local(h) /\ pc'[h] = to /\ asked'[h] = asked[h] /\ age'[h] = age[h]
  BY <1>6 DEF Unlocked
<1> QED
  BY ONLY <1>1, <1>2, <1>3, <1>4, <1>5, <1>6

LEMMA LockTypes ==
    ASSUME RequestsOK, LocksOK, NEW h \in Handlers
    PROVE  /\ \A until \in Int : until <= Timeout /\ Locked(h, until) => RequestsOK' /\ LocksOK'
           /\ \A to \in PCs : Unlocked(h, to) /\ pc[h] # "work" => RequestsOK' /\ LocksOK'
<1>a. Timeout \in Nat /\ Horizon \in Nat /\ GlobalLock \in Scopes
  BY ExecuteAssumption, LockAssumption
<1>1. ASSUME NEW until \in Int, until <= Timeout, Locked(h, until) PROVE RequestsOK' /\ LocksOK'
  <2>1. ids[GlobalLock] \cup {h} \in SUBSET Handlers
    BY <1>a DEF RequestsOK
  <2>2. RequestsOK'
    BY <1>a, <1>1, <2>1 DEF Locked, RequestsOK, PCs, Statuses
  <2>3. renewing' \subseteq Working'
    BY <1>1 DEF Locked, LocksOK, RequestsOK, Working
  <2>4. (IF until > 0 THEN until ELSE 0) \in 0 .. Timeout
    BY <1>1, <1>a
  <2> QED
    BY <1>a, <1>1, <2>2, <2>3, <2>4 DEF Locked, LocksOK
<1>2. ASSUME NEW to \in PCs, Unlocked(h, to), pc[h] # "work" PROVE RequestsOK' /\ LocksOK'
  <2>1. ids[GlobalLock] \ {h} \in SUBSET Handlers
    BY <1>a DEF RequestsOK
  <2>2. RequestsOK'
    BY <1>a, <1>2, <2>1 DEF Unlocked, RequestsOK, Statuses
  <2>3. renewing' \subseteq Working'
    BY <1>2 DEF Unlocked, LocksOK, RequestsOK, Working
  <2> QED
    BY <1>a, <1>2, <2>2, <2>3 DEF Unlocked, LocksOK
<1> QED
  BY ONLY <1>1, <1>2

\* Types are kept by every step, and what a request needs at its place.
LEMMA TypeStep == TypeOK /\ Asked /\ Next => TypeOK' /\ Asked'
<1> SUFFICES ASSUME TypeOK, Asked, Next PROVE TypeOK' /\ Asked'
  OBVIOUS
<1> DEFINE Core == /\ rows' \in [Scopes -> RowType]
                   /\ RequestsOK' /\ HistoryOK' /\ LocksOK' /\ Asked'
<1>a. /\ rows \in [Scopes -> RowType] /\ RequestsOK /\ HistoryOK /\ LocksOK /\ MishapsOK
      /\ Past \in Int /\ victims \subseteq Scopes
  BY TypeParts, ExecuteAssumption DEF Past
<1>b. lapsed' \in BOOLEAN /\ victims' \subseteq Scopes
  BY <1>a, Deletion DEF Next, RequestsOK
<1>c. MishapsOK'
  BY <1>a, MishapTypes
<1>d. ASSUME UNCHANGED history PROVE HistoryOK'
  BY <1>a, <1>d DEF history, HistoryOK
<1>e. ASSUME NEW h \in Handlers, UNCHANGED locks, Local(h), pc[h] # "work" PROVE LocksOK'
  BY <1>a, <1>e DEF Local, locks, LocksOK, Working, RequestsOK
<1>1. ASSUME NEW h \in Handlers, NEW to \in Operations, Request(h, to), UNCHANGED locks PROVE Core
  <2>1. RequestsOK' /\ Local(h) /\ pc[h] = "idle" /\ asked'[h] = to /\ age' = age
    BY <1>1, <1>a DEF Request, RequestsOK, Local, PCs, ExecutePC, table
  <2>2. pc'[h] = "execute" \/ (pc'[h] = "create" /\ KeyOf[to] # None)
    BY <1>1, <1>a DEF Request, RequestsOK
  <2>3. rows' \in [Scopes -> RowType] /\ HistoryOK' /\ LocksOK'
    BY <1>1, <1>a, <1>d, <1>e, <2>1 DEF Request, table
  <2>4. Asked'
    BY <1>1, <2>1, <2>2 DEF Asked, Local, Acquiring, Key, Keyless, locks
  <2> QED
    BY ONLY <2>1, <2>3, <2>4
<1>2. ASSUME NEW h \in Handlers, Statement(h), UNCHANGED locks PROVE Core
  <2>0. /\ Proceeds(h) \/ Claims(h) \/ Records(h)
        /\ pc[h] \in ExecutePC \ {"idle", "execute"} /\ asked[h] \in Operations
    BY <1>2, StatementEffect
  <2>1. pc[h] \notin {"work", "lockRead", "lockReclaim"}
    BY <2>0 DEF ExecutePC
  <2>2. rows' \in [Scopes -> RowType]
    BY <1>a, <2>0 DEF Proceeds, Claims, Records, Wrote
  <2>3. ~ Keyless(h) => Key(h) \in Keys /\ Key(h) \in Scopes
    BY <2>0, KeysAreScopes DEF Key, Keyless
  <2>4. RequestsOK' /\ Local(h)
    BY <1>a, <2>0, <2>3, RequestTypes, ClaimTypes, Locality
    DEF Proceeds, Claims, Records, PCs, ExecutePC
  <2>5. HistoryOK'
    <3>1. ASSUME Excuse(h), ~ Keyless(h) PROVE HistoryOK'
      BY <1>a, <1>d, <2>3, <3>1, ExecuteAssumption DEF Excuse, HistoryOK
    <3> QED
      BY <1>a, <1>d, <2>0, <2>3, <3>1, ClaimTypes DEF Proceeds, Claims, Records
  <2>6. LocksOK'
    BY <1>e, <1>2, <2>1, <2>4
  <2>7. Asked'
    <3>1. lockAge[h] = 0 /\ lockAge' = lockAge
      BY <1>2, <2>1 DEF Asked, Acquiring, locks
    <3>2. \/ pc'[h] = "idle" /\ age'[h] = 0
          \/ /\ pc'[h] \in {"read", "reread", "reclaimExpired", "reclaim"} /\ ~ Keyless(h)
             /\ asked'[h] = asked[h] /\ age'[h] = age[h]
          \/ pc'[h] = "execute" /\ asked'[h] = asked[h] /\ age'[h] = age[h]
      BY <1>a, <2>0, Locality DEF Proceeds, Claims, Records
    <3>3. age[h] \in Nat
      BY <1>a, ExecuteAssumption DEF RequestsOK
    <3> QED
      BY <2>0, <2>4, <3>1, <3>2, <3>3 DEF Asked, Local, Acquiring, Key, Keyless
  <2> QED
    BY ONLY <2>2, <2>4, <2>5, <2>6, <2>7
<1>3. ASSUME NEW h \in Handlers, LockStatement(h) PROVE Core
  <2>0. /\ Looks(h) \/ Takes(h)
        /\ pc[h] \in {"execute", "lockRead", "lockReclaim"} /\ asked[h] \in Operations
        /\ UNCHANGED history
    BY <1>3, LockStatementEffect
  <2>1. rows' \in [Scopes -> RowType]
    BY <1>a, <2>0 DEF Looks, Takes, Wrote
  <2>2. /\ Timeout \in Nat /\ lockAge[h] \in Nat /\ GlobalLock \in Scopes
        /\ "lockRead" \in PCs /\ "lockReclaim" \in PCs /\ "markFailed" \in PCs
    BY <1>a, ExecuteAssumption, LockAssumption DEF LocksOK, PCs, ExecutePC
  <2>3. ASSUME NotLocked(h)
        PROVE  /\ RequestsOK' /\ LocksOK' /\ Local(h) /\ pc'[h] = "markFailed"
               /\ asked'[h] = asked[h] /\ age'[h] = age[h] /\ lockAge' = [lockAge EXCEPT ![h] = 0]
    BY <1>a, <2>0, <2>2, <2>3, LockTypes, Locality DEF NotLocked, Outcome, Unlocked
  <2>4. ASSUME NEW late \in {0, lockAge[h]}, Locked(h, Timeout - late)
        PROVE  /\ RequestsOK' /\ LocksOK' /\ Local(h) /\ pc'[h] = "work"
               /\ asked'[h] = asked[h] /\ age'[h] = age[h] /\ lockAge' = [lockAge EXCEPT ![h] = 0]
    <3>1. Timeout - late \in Int /\ Timeout - late <= Timeout
      BY <2>2
    <3> QED
      BY <1>a, <2>0, <2>4, <3>1, LockTypes, Locality DEF Locked
  <2>5. ASSUME \/ Go(h, "lockRead") /\ UNCHANGED <<seen, locks>>
               \/ GoSeen(h, "lockReclaim", GlobalLock) /\ UNCHANGED locks
        PROVE  /\ RequestsOK' /\ LocksOK' /\ Local(h) /\ pc'[h] \in {"lockRead", "lockReclaim"}
               /\ asked'[h] = asked[h] /\ age'[h] = age[h] /\ lockAge' = lockAge
    <3>1. RequestsOK' /\ Local(h) /\ UNCHANGED locks
      BY <1>a, <2>2, <2>5, RequestTypes, Locality
    <3> QED
      BY <1>a, <1>e, <2>0, <2>5, <3>1, Locality DEF locks
  <2>6. /\ RequestsOK' /\ LocksOK' /\ Local(h) /\ asked'[h] = asked[h] /\ age'[h] = age[h]
        /\ pc'[h] \in {"work", "markFailed", "lockRead", "lockReclaim"}
        /\ \/ lockAge' = [lockAge EXCEPT ![h] = 0]
           \/ lockAge' = lockAge /\ pc'[h] \in {"lockRead", "lockReclaim"}
    BY <2>0, <2>3, <2>4, <2>5 DEF Looks, Takes
  <2>7. Asked'
    <3>1. age[h] \in Nat /\ lockAge \in [Handlers -> 0 .. Horizon]
      BY <1>a, ExecuteAssumption DEF RequestsOK, LocksOK
    <3> QED
      BY <2>0, <2>6, <3>1 DEF Asked, Local, Acquiring, Key, Keyless
  <2> QED
    BY ONLY <1>d, <2>0, <2>1, <2>6, <2>7
<1>4. ASSUME NEW h \in Handlers, Work(h) PROVE Core
  <2>1. RequestsOK' /\ Local(h) /\ pc'[h] = "release" /\ asked'[h] = asked[h] /\ age'[h] = age[h]
    BY <1>a, <1>4, RequestTypes, Locality DEF Work, PCs
  <2>2. LocksOK'
    <3>1. asked[h] \in Operations
      BY <1>4 DEF Work, Asked
    <3>2. rounds' \subseteq Handlers \X Operations
      BY <1>a, <1>4, <3>1 DEF Work, LocksOK
    <3> QED
      BY <1>a, <1>4, <2>1, <3>2 DEF Work, LocksOK, Working, Local, RequestsOK
  <2>3. Asked'
    BY <1>4, <2>1 DEF Work, Asked, Local, Acquiring, Key, Keyless
  <2> QED
    BY <1>a, <1>d, <1>4, <2>1, <2>2, <2>3 DEF Work
<1>5. ASSUME NEW h \in Handlers, Renew(h) PROVE Core
  <2>1. RequestsOK' /\ HistoryOK' /\ Asked'
    BY <1>a, <1>d, <1>5 DEF Renew, requests, RequestsOK, Asked, Acquiring, Key, Keyless
  <2>2. LocksOK'
    BY <1>a, <1>5, ExecuteAssumption DEF Renew, requests, LocksOK, Working
  <2>3. rows' \in [Scopes -> RowType]
    <3>1. pc[h] = "work" /\ asked[h] \in Operations
      BY <1>5, <1>a DEF Renew, LocksOK, Working, Asked
    <3> QED
      BY <1>a, <1>5, <3>1, LockWrites DEF Renew, Wrote
  <2> QED
    BY ONLY <2>1, <2>2, <2>3
<1>6. ASSUME NEW h \in Handlers, Release(h) PROVE Core
  <2>1. pc[h] = "release" /\ asked[h] \in Operations /\ UNCHANGED history
    BY <1>6 DEF Release, Asked
  <2>2. rows' \in [Scopes -> RowType]
    BY <1>a, <1>6, <2>1, LockWrites DEF Release, Wrote
  <2>3. \E to \in {"markSucceeded", "markFailed"} : Unlocked(h, to)
    BY <1>6 DEF Release, Outcome
  <2>4. PICK to \in {"markSucceeded", "markFailed"} : Unlocked(h, to)
    BY <2>3
  <2>5. RequestsOK' /\ LocksOK' /\ Local(h) /\ pc'[h] = to /\ asked'[h] = asked[h] /\ age'[h] = age[h]
    BY <1>a, <2>1, <2>4, LockTypes, Locality DEF PCs, ExecutePC
  <2>6. Asked'
    <3>1. age[h] \in Nat /\ lockAge' = [lockAge EXCEPT ![h] = 0]
          /\ lockAge \in [Handlers -> 0 .. Horizon]
      BY <1>a, <2>4, ExecuteAssumption DEF RequestsOK, Unlocked, LocksOK
    <3> QED
      BY <2>1, <2>5, <3>1 DEF Asked, Local, Acquiring, Key, Keyless
  <2> QED
    BY ONLY <1>d, <2>1, <2>2, <2>5, <2>6
<1>7. ASSUME NEW h \in Handlers, Crash(h) PROVE Core
  <2>1. RequestsOK' /\ Local(h) /\ pc'[h] = "idle" /\ age'[h] = 0
    BY <1>a, <1>7, RequestTypes, Locality DEF Crash
  <2>2. LocksOK'
    BY <1>a, <1>7, <2>1, ExecuteAssumption DEF Crash, LocksOK, Working, Local, RequestsOK
  <2>3. Asked'
    BY <1>a, <1>7, <2>1 DEF Crash, Asked, Local, Acquiring, Key, Keyless, LocksOK
  <2> QED
    BY <1>a, <1>d, <1>7, <2>1, <2>2, <2>3 DEF Crash
<1>8. ASSUME Sweep PROVE Core
  <2>1. /\ rows' \in [Scopes -> RowType] /\ ids' \in [Scopes -> SUBSET Handlers]
        /\ rounds' \subseteq rounds
        /\ UNCHANGED <<requests, history, lockAge, succeeded, renewing, lease>>
    BY <1>a, <1>8, Deletion DEF RequestsOK
  <2> QED
    BY <1>a, <1>d, <2>1
    DEF RequestsOK, LocksOK, Working, Asked, Acquiring, Key, Keyless, requests
<1>12. ASSUME NEW h \in Handlers, NEW o \in Operations, FinishRound(h, o) PROVE Core
  <2>1. /\ rows' \in [Scopes -> RowType] /\ rounds' \subseteq rounds
        /\ lease' = [lease EXCEPT ![h] = Timeout] \/ lease' = lease
        /\ UNCHANGED <<ids, requests, history, lockAge, succeeded, renewing>>
    BY <1>12, RoundWrites
  <2>2. RequestsOK' /\ HistoryOK' /\ Asked'
    BY <1>a, <1>d, <2>1 DEF requests, RequestsOK, Asked, Acquiring, Key, Keyless
  <2>3. LocksOK'
    BY <1>a, <2>1, ExecuteAssumption DEF requests, LocksOK, Working
  <2> QED
    BY ONLY <2>1, <2>2, <2>3
<1>9. ASSUME Tick PROVE Core
  <2>1. rows' \in [Scopes -> RowType]
    BY <1>a, <1>9, Clock DEF Tick, RequestsAge
  <2>2. UNCHANGED <<ids, pc, asked, seen>>
        /\ age' = [h \in Handlers |-> IF pc[h] = "idle" THEN 0 ELSE age[h] + 1]
        /\ \A h \in Handlers : age[h] < Horizon
    BY <1>9 DEF Tick, RequestsAge
  <2>3. RequestsOK'
    BY <1>a, <2>2, ExecuteAssumption DEF RequestsOK
  <2>4. HistoryOK'
    BY <1>a, <1>9, ExecuteAssumption DEF Tick, RequestsAge, HistoryOK
  <2>5. lockAge' = [h \in Handlers |-> IF Acquiring(h) THEN lockAge[h] + 1 ELSE 0]
        /\ lease' = [h \in Handlers |-> IF lease[h] > 0 THEN lease[h] - 1 ELSE 0]
        /\ rounds' = {} /\ UNCHANGED <<succeeded, renewing>>
    BY <1>9 DEF Tick
  <2>6. \A h \in Handlers : lockAge[h] \in Nat /\ age[h] \in Nat /\ lockAge[h] <= age[h]
                            /\ (Acquiring(h) => pc[h] # "idle")
    <3>1. \A h \in Handlers : lockAge[h] \in Nat /\ age[h] \in Nat
      BY <1>a, ExecuteAssumption DEF RequestsOK, LocksOK
    <3>2. \A h \in Handlers : lockAge[h] <= age[h] /\ (Acquiring(h) => pc[h] # "idle")
      BY DEF Asked, Acquiring
    <3> QED
      BY ONLY <3>1, <3>2
  <2>7. LocksOK'
    BY <1>a, <2>2, <2>5, <2>6, ExecuteAssumption DEF LocksOK, Working
  <2>8. Asked'
    BY <2>2, <2>5, <2>6 DEF Asked, Acquiring, Key, Keyless
  <2> QED
    BY ONLY <2>1, <2>3, <2>4, <2>7, <2>8
<1> HIDE DEF Core
<1>10. Core
  BY ONLY Next, <1>1, <1>2, <1>3, <1>4, <1>5, <1>6, <1>7, <1>8, <1>9, <1>12
  DEF Next, Handle, Execute, Statement, LockStatement
<1>11. TypeOK'
  BY ONLY <1>10, <1>b, <1>c
  DEF Core, TypeOK, ExecuteTypeOK, TableTypeOK, RowType, RequestsOK, HistoryOK, LocksOK,
      MishapsOK, Working
<1> QED
  BY ONLY <1>10, <1>11 DEF Core

-----------------------------------------------------------------------------
(* The lock *)

\* Nobody takes a lock that is held, and nobody ends it but its holder.
LEMMA HeldStep ==
    TypeOK /\ Asked /\ Held /\ Next /\ ~ lapsed' /\ "swept" \notin happened' => Held'
<1> SUFFICES ASSUME TypeOK, Asked, Held, Next, ~ lapsed', "swept" \notin happened' PROVE Held'
  OBVIOUS
<1>a. /\ rows \in [Scopes -> RowType] /\ RequestsOK /\ HistoryOK /\ LocksOK
      /\ GlobalLock \in Scopes /\ GlobalLock \notin Keys /\ Past \in Int
      /\ Timeout \in Nat /\ Ttl \in Nat /\ Timeout <= Ttl /\ Timeout > 0
      /\ victims \subseteq Scopes
  BY TypeParts, KeysAreScopes, ExecuteAssumption DEF Past
<1>b. \A h \in Holders' : lease'[h] > 0
  <2>1. \A h \in Holders' : lease'[h] # 0
    BY DEF Next
  <2>2. LocksOK'
    BY TypeStep DEF TypeOK, LocksOK
  <2> QED
    BY <1>a, <2>1, <2>2 DEF LocksOK, Holders
\* Who is no holder before is none after, and the row of the lock stays.
<1>c. ASSUME Holders' \subseteq Holders, rows'[GlobalLock] = rows[GlobalLock],
             \A h \in Holders' : lease'[h] = lease[h]
      PROVE  Held'
  BY <1>b, <1>c DEF Held
<1>1. ASSUME NEW h \in Handlers, NEW to \in Operations, Request(h, to), UNCHANGED locks PROVE Held'
  BY <1>a, <1>c, <1>1 DEF Request, table, locks, Holders, RequestsOK
<1>2. ASSUME NEW h \in Handlers, Statement(h), UNCHANGED locks PROVE Held'
  <2>0. /\ Proceeds(h) \/ Claims(h) \/ Records(h)
        /\ pc[h] \in ExecutePC \ {"idle", "execute"} /\ asked[h] \in Operations
    BY <1>2, StatementEffect
  <2>1. rows'[GlobalLock] = rows[GlobalLock]
    <3>1. ~ Keyless(h) => Key(h) # GlobalLock
      BY <1>a, <2>0, KeysAreScopes DEF Key, Keyless
    <3> QED
      BY <1>a, <2>0, <3>1 DEF Proceeds, Claims, Records, Wrote
  <2>2. Local(h) /\ pc'[h] \notin {"work", "release"}
    BY <1>a, <2>0, Locality DEF Proceeds, Claims, Records
  <2> QED
    BY <1>c, <1>2, <2>1, <2>2 DEF Local, Holders, locks
<1>3. ASSUME NEW h \in Handlers, LockStatement(h) PROVE Held'
  <2>0. /\ Looks(h) \/ Takes(h)
        /\ pc[h] \in {"execute", "lockRead", "lockReclaim"} /\ asked[h] \in Operations
    BY <1>3, LockStatementEffect
  <2>1. CASE Looks(h)
    <3>1. Local(h) /\ pc'[h] \notin {"work", "release"}
      BY <1>a, <2>1, Locality DEF Looks, NotLocked, Outcome
    <3>2. \A x \in Handlers : x # h => lease'[x] = lease[x]
      BY <1>a, <2>1 DEF Looks, NotLocked, Unlocked, locks, LocksOK
    <3> QED
      BY <1>c, <2>1, <3>1, <3>2 DEF Looks, Local, Holders
  <2>2. CASE Takes(h)
    <3>1. Holders = {}
      BY <1>a, <2>2 DEF Takes, Unheld, Held, Holders, LocksOK, RowType
    <3>2. PICK late \in {0, lockAge[h]} :
              /\ Wrote(GlobalLock, "processing", Timeout - late, Ttl - late)
              /\ Locked(h, Timeout - late) \/ NotLocked(h)
      BY <2>2 DEF Takes
    <3>3. CASE NotLocked(h)
      <4>1. Holders' = {}
        BY <1>a, <3>1, <3>3, Locality DEF NotLocked, Outcome, Local, Holders
      <4> QED
        BY <4>1 DEF Held
    <3>4. CASE Locked(h, Timeout - late)
      <4>1. Holders' = {h}
        BY <1>a, <3>1, <3>4, Locality DEF Local, Holders
      <4>2. lease'[h] = IF Timeout - late > 0 THEN Timeout - late ELSE 0
        BY <1>a, <3>4 DEF Locked, LocksOK
      <4>3. lease'[h] > 0 /\ late \in Nat
        BY <1>a, <1>b, <4>1, ExecuteAssumption DEF LocksOK
      <4>4. lease'[h] = Timeout - late
        BY ONLY <4>2, <4>3
      <4> QED
        BY <1>a, <3>2, <4>1, <4>3, <4>4 DEF Held, Wrote
    <3> QED
      BY ONLY <3>2, <3>3, <3>4
  <2> QED
    BY ONLY <2>0, <2>1, <2>2
<1>4. ASSUME NEW h \in Handlers, Work(h) PROVE Held'
  BY <1>a, <1>c, <1>4 DEF Work, Go, Holders, RequestsOK
<1>5. ASSUME NEW h \in Handlers, Renew(h) PROVE Held'
  <2>1. h \in Holders /\ asked[h] \in Operations /\ Holders' = Holders
    BY <1>a, <1>5 DEF Renew, LocksOK, Working, Holders, Asked, requests
  <2>2. CASE ExtendProcessingLock(GlobalLock, Timeout, Ttl) /\ lease' = [lease EXCEPT ![h] = Timeout]
    <3>1. Wrote(GlobalLock, "processing", Timeout, Ttl) /\ Holders = {h}
      BY <2>1, <2>2, LockWrites DEF Held
    <3> QED
      BY <1>a, <2>1, <2>2, <3>1 DEF Held, Wrote, LocksOK
  <2>3. CASE UNCHANGED <<rows, lease>>
    BY <1>c, <2>1, <2>3
  <2> QED
    BY <1>5, <2>2, <2>3 DEF Renew
<1>6. ASSUME NEW h \in Handlers, Release(h) PROVE Held'
  <2>1. Holders = {h}
    BY <1>6 DEF Release, Holders, Held
  <2>2. Holders' = {}
    BY <1>a, <1>6, <2>1, Locality DEF Release, Outcome, Local, Holders
  <2> QED
    BY <2>2 DEF Held
<1>7. ASSUME NEW h \in Handlers, Crash(h) PROVE Held'
  <2>1. Local(h) /\ pc'[h] = "idle" /\ rows' = rows
        /\ \A x \in Handlers : x # h => lease'[x] = lease[x]
    BY <1>a, <1>7, Locality DEF Crash, LocksOK
  <2> QED
    BY <1>c, <2>1 DEF Local, Holders
<1>8. CASE Sweep
  <2>1. /\ rows'[GlobalLock] = rows[GlobalLock] \/ rows[GlobalLock].expiresAt <= 0
        /\ Holders' = Holders /\ lease' = lease
    BY <1>a, <1>8, Deletion DEF RequestsOK, requests, Holders
  <2>2. CASE rows'[GlobalLock] = rows[GlobalLock]
    BY <1>c, <2>1, <2>2
  <2>3. CASE rows[GlobalLock].expiresAt <= 0
    <3>1. Holders = {}
      BY <1>a, <2>3 DEF Held, Holders, LocksOK, RowType
    <3> QED
      BY <2>1, <3>1 DEF Held
  <2> QED
    BY <2>1, <2>2, <2>3
<1>10. ASSUME NEW h \in Handlers, NEW o \in Operations, FinishRound(h, o) PROVE Held'
  <2>1. Holders' = Holders
    BY <1>10, RoundWrites DEF requests, Holders
  <2>2. CASE UNCHANGED <<rows, lease>>
    BY <1>c, <2>1, <2>2
  <2>3. CASE /\ Wrote(GlobalLock, rows[GlobalLock].status, Timeout, Ttl)
             /\ lease' = [lease EXCEPT ![h] = Timeout] \/ lease' = lease
    <3>1. \A x \in Holders : lease'[x] <= Timeout
      BY <1>a, <2>3 DEF LocksOK, Holders
    <3>2. \A x \in Holders : rows'[GlobalLock].status = "processing" /\ (\A g \in Holders : g = x)
      BY <2>3 DEF Held, Wrote
    <3>3. rows'[GlobalLock].lockedUntil = Timeout /\ rows'[GlobalLock].expiresAt = Ttl
      BY <2>3 DEF Wrote
    <3>4. \A x \in Holders : lease'[x] \in Int
      BY <1>a, <2>3 DEF LocksOK, Holders
    <3>5. \A x \in Holders : Timeout >= lease'[x] /\ Ttl >= lease'[x]
      BY ONLY <1>a, <3>1, <3>4
    <3> QED
      BY ONLY <1>b, <2>1, <3>2, <3>3, <3>5 DEF Held
  <2> QED
    BY <1>10, <2>2, <2>3, RoundWrites
<1>9. CASE Tick
  <2>1. Holders' = Holders
    BY <1>9 DEF Tick, RequestsAge, Holders
  <2>2. /\ rows'[GlobalLock].status = rows[GlobalLock].status
        /\ rows'[GlobalLock].lockedUntil = Sooner(rows[GlobalLock].lockedUntil)
        /\ rows'[GlobalLock].expiresAt = Sooner(rows[GlobalLock].expiresAt)
        /\ rows[GlobalLock].lockedUntil \in Int /\ rows[GlobalLock].expiresAt \in Int
    BY <1>a, <1>9, Clock DEF Tick, RequestsAge, RowType
  <2>3. \A h \in Holders : lease'[h] = lease[h] - 1 /\ lease[h] \in Nat
    BY <1>a, <1>9 DEF Tick, Held, LocksOK, Holders
  <2>4. \A d \in Int, l \in Nat : l > 0 /\ d >= l => Sooner(d) >= l - 1
    BY <1>a DEF Sooner
  <2> QED
    BY <1>b, <2>1, <2>2, <2>3, <2>4 DEF Held
<1> QED
  BY ONLY Next, <1>1, <1>2, <1>3, <1>4, <1>5, <1>6, <1>7, <1>8, <1>9, <1>10
  DEF Next, Handle, Execute, Statement, LockStatement

-----------------------------------------------------------------------------
(* The keys *)

\* Work under the lock does not touch the rows of keys.
LEMMA LockKeepsKeys ==
    ASSUME TypeOK, Asked, NEW h \in Handlers,
           LockStatement(h) \/ Work(h) \/ Renew(h) \/ Release(h) \/ Crash(h)
    PROVE  /\ \A k \in Keys : rows'[k] = rows[k]
           /\ UNCHANGED history
           /\ Local(h)
           /\ \/ pc'[h] = "idle"
              \/ /\ Executing(h) /\ asked'[h] = asked[h] /\ age'[h] = age[h]
<1>a. rows \in [Scopes -> RowType] /\ RequestsOK /\ LocksOK /\ Keys \subseteq Scopes
      /\ GlobalLock \notin Keys
  BY TypeParts, KeysAreScopes
<1>1. CASE LockStatement(h)
  <2>0. /\ Looks(h) \/ Takes(h)
        /\ pc[h] \in {"execute", "lockRead", "lockReclaim"} /\ UNCHANGED history
    BY <1>1, LockStatementEffect
  <2>1. Local(h) /\ asked'[h] = asked[h] /\ age'[h] = age[h]
    BY <1>a, <2>0, Locality DEF Looks, Takes, NotLocked
  <2> QED
    BY <1>a, <2>0, <2>1 DEF Looks, Takes, Wrote, Executing
<1>2. CASE Work(h)
  BY <1>a, <1>2, Locality DEF Work, Executing
<1>3. CASE Renew(h)
  <2>1. pc[h] = "work" /\ asked[h] \in Operations
    BY <1>a, <1>3 DEF Renew, LocksOK, Working, Asked
  <2>2. \A k \in Keys : rows'[k] = rows[k]
    BY <1>a, <1>3, <2>1, LockWrites DEF Renew, Wrote
  <2> QED
    BY <1>3, <2>1, <2>2 DEF Renew, requests, Local, Executing
<1>4. CASE Release(h)
  <2>1. pc[h] = "release" /\ asked[h] \in Operations /\ UNCHANGED history
    BY <1>4 DEF Release, Asked
  <2>2. \A k \in Keys : rows'[k] = rows[k]
    BY <1>a, <1>4, <2>1, LockWrites DEF Release, Wrote
  <2>3. Local(h) /\ asked'[h] = asked[h] /\ age'[h] = age[h]
    BY <1>a, <1>4, Locality DEF Release
  <2> QED
    BY <2>1, <2>2, <2>3 DEF Executing
<1>5. CASE Crash(h)
  BY <1>a, <1>5, Locality DEF Crash
<1> QED
  BY ONLY <1>1, <1>2, <1>3, <1>4, <1>5,
          LockStatement(h) \/ Work(h) \/ Renew(h) \/ Release(h) \/ Crash(h)

LEMMA FreeIsUnspent ==
    ASSUME TypeOK, Guarded, NEW h \in Handlers, Key(h) \in Keys, Free(h)
    PROVE  spent[Key(h)] = 0
<1>1. spent[Key(h)] \in Nat /\ rows[Key(h)].expiresAt \in Int
  BY TypeParts, KeysAreScopes, ExecuteAssumption DEF HistoryOK, RowType
<1>2. spent[Key(h)] > 0 =>
          /\ rows[Key(h)].status \in {"processing", "succeeded"}
          /\ rows[Key(h)].expiresAt >= spent[Key(h)]
  BY DEF Guarded
<1> QED
  BY ONLY <1>1, <1>2, Free(h) DEF Free

\* Nobody executes for a key that excludes others.
LEMMA OwnedStep ==
    TypeOK /\ Asked /\ Owned /\ Guarded /\ Next /\ happened' = {} => Owned' /\ Guarded'
<1> SUFFICES ASSUME TypeOK, Asked, Owned, Guarded, Next, happened' = {}
             PROVE Owned' /\ Guarded'
  OBVIOUS
<1>a. /\ rows \in [Scopes -> RowType] /\ RequestsOK /\ HistoryOK
      /\ Keys \subseteq Scopes /\ Past \in Int /\ victims \subseteq Scopes
      /\ Ttl \in Nat /\ Horizon \in Nat /\ Horizon < Ttl
  BY TypeParts, KeysAreScopes, ExecuteAssumption DEF Past
<1>b. ASSUME NEW x \in Handlers, Executing(x), ~ Keyless(x)
      PROVE  /\ Key(x) \in Keys /\ spent[Key(x)] = Ttl - age[x] /\ spent[Key(x)] > 0
             /\ claimant[Key(x)] = x /\ rows[Key(x)].status = "processing"
  <2>1. asked[x] \in Operations
    BY <1>b DEF Asked, Executing
  <2>2. age[x] \in 0 .. Horizon
    BY <1>a DEF RequestsOK
  <2> QED
    BY <1>a, <1>b, <2>1, <2>2, KeysAreScopes DEF Owned, Key, Keyless
\* Rows and history stay, and nobody begins.
<1>c. ASSUME UNCHANGED history, \A k \in Keys : rows'[k] = rows[k],
             \A x \in Handlers : Executing(x)' =>
                 Executing(x) /\ asked'[x] = asked[x] /\ age'[x] = age[x]
      PROVE  Owned' /\ Guarded'
  <2>1. Guarded'
    BY <1>c DEF Guarded, history
  <2>2. ASSUME NEW x \in Handlers, Executing(x)', ~ Keyless(x)'
        PROVE  /\ claimant'[Key(x)'] = x /\ spent'[Key(x)'] = Ttl - age'[x]
               /\ rows'[Key(x)'].status = "processing"
    <3>1. Executing(x) /\ ~ Keyless(x) /\ Key(x)' = Key(x) /\ age'[x] = age[x]
      BY <1>c, <2>2 DEF Key, Keyless
    <3> QED
      BY <1>b, <1>c, <3>1 DEF history
  <2> QED
    BY ONLY <2>1, <2>2 DEF Owned
<1>1. ASSUME NEW h \in Handlers, NEW to \in Operations, Request(h, to), UNCHANGED locks
      PROVE  Owned' /\ Guarded'
  <2>1. CASE KeyOf[to] # None
    <3>1. Local(h) /\ pc'[h] = "create" /\ UNCHANGED <<rows, history>>
      BY <1>a, <1>1, <2>1 DEF Request, RequestsOK, Local, table
    <3> QED
      BY <1>c, <3>1 DEF Local, Executing
  <2>2. CASE KeyOf[to] = None
    <3>1. Local(h) /\ asked'[h] = to /\ UNCHANGED <<rows, history>>
      BY <1>a, <1>1 DEF Request, RequestsOK, Local, table
    <3>2. Guarded'
      BY <3>1 DEF Guarded, history
    <3>3. ASSUME NEW x \in Handlers, Executing(x)', ~ Keyless(x)'
          PROVE  /\ claimant'[Key(x)'] = x /\ spent'[Key(x)'] = Ttl - age'[x]
                 /\ rows'[Key(x)'].status = "processing"
      <4>1. x # h
        BY <2>2, <3>1, <3>3 DEF Key, Keyless
      <4>2. Executing(x) /\ ~ Keyless(x) /\ Key(x)' = Key(x) /\ age'[x] = age[x]
        BY <3>1, <3>3, <4>1 DEF Local, Executing, Key, Keyless
      <4> QED
        BY <1>b, <3>1, <4>2 DEF history
    <3> QED
      BY ONLY <3>2, <3>3 DEF Owned
  <2> QED
    BY <2>1, <2>2
<1>2. ASSUME NEW h \in Handlers, Statement(h), UNCHANGED locks PROVE Owned' /\ Guarded'
  <2>0. /\ Proceeds(h) \/ Claims(h) \/ Records(h)
        /\ pc[h] \in ExecutePC \ {"idle", "execute"} /\ asked[h] \in Operations
    BY <1>2, StatementEffect
  <2>1. CASE Proceeds(h)
    <3>1. Local(h) /\ pc'[h] \in {"idle", "read", "reread", "reclaimExpired", "reclaim"}
          /\ UNCHANGED <<rows, history>>
      BY <1>a, <2>1, Locality DEF Proceeds
    <3> QED
      BY <1>c, <3>1 DEF Local, Executing
  <2>k. ~ Keyless(h) => Key(h) \in Keys /\ Key(h) \in Scopes
    BY <1>a, <2>0, KeysAreScopes DEF Key, Keyless
  <2>2. CASE Claims(h)
    <3>1. Free(h) /\ ~ Keyless(h) /\ spent[Key(h)] = 0
          /\ Wrote(Key(h), "processing", Timeout - age[h], Ttl - age[h])
      BY <2>2, <2>k, FreeIsUnspent DEF Claims
    <3>2. ASSUME NEW x \in Handlers, x # h, Executing(x)', ~ Keyless(x)', Local(h)
          PROVE  /\ Executing(x) /\ ~ Keyless(x) /\ Key(x)' = Key(x) /\ age'[x] = age[x]
                 /\ Key(x) # Key(h)
      <4>1. Executing(x) /\ ~ Keyless(x) /\ Key(x)' = Key(x) /\ age'[x] = age[x]
        BY <3>2 DEF Local, Executing, Key, Keyless
      <4> QED
        BY <1>b, <3>1, <4>1
    <3>3. CASE Claim(h)
      <4>1. Local(h) /\ Key(h)' = Key(h) /\ age'[h] = age[h]
        BY <1>a, <3>3, Locality DEF Key
      <4>2. spent' = [spent EXCEPT ![Key(h)] = Ttl - age[h]]
            /\ claimant' = [claimant EXCEPT ![Key(h)] = h]
        BY <3>3 DEF Claim
      <4>3. ASSUME NEW x \in Handlers, Executing(x)', ~ Keyless(x)'
            PROVE  /\ claimant'[Key(x)'] = x /\ spent'[Key(x)'] = Ttl - age'[x]
                   /\ rows'[Key(x)'].status = "processing"
        <5>1. CASE x = h
          BY <1>a, <2>k, <3>1, <4>1, <4>2, <5>1 DEF Wrote, HistoryOK
        <5>2. CASE x # h
          BY <1>a, <1>b, <3>1, <3>2, <4>1, <4>2, <4>3, <5>2 DEF Wrote, HistoryOK
        <5> QED
          BY ONLY <5>1, <5>2
      <4>4. Guarded'
        <5> SUFFICES ASSUME NEW k \in Keys, spent'[k] > 0
                     PROVE  /\ rows'[k].status \in {"processing", "succeeded"}
                            /\ rows'[k].expiresAt >= spent'[k]
          BY DEF Guarded
        <5>1. CASE k = Key(h)
          <6>1. spent'[k] = Ttl - age[h] /\ Ttl - age[h] \in Int
            BY <1>a, <2>k, <3>1, <4>2, <5>1 DEF HistoryOK, RequestsOK
          <6>2. rows'[k].status = "processing" /\ rows'[k].expiresAt = Ttl - age[h]
            BY <3>1, <5>1 DEF Wrote
          <6> QED
            BY ONLY <6>1, <6>2
        <5>2. CASE k # Key(h)
          BY <1>a, <2>k, <3>1, <4>2, <5>2 DEF Guarded, Wrote, HistoryOK
        <5> QED
          BY ONLY <5>1, <5>2
      <4> QED
        BY ONLY <4>3, <4>4 DEF Owned
    <3>4. CASE Answer(h) /\ UNCHANGED history
      <4>1. Local(h) /\ pc'[h] = "idle"
        BY <1>a, <3>4, Locality
      <4>2. ASSUME NEW x \in Handlers, Executing(x)', ~ Keyless(x)'
            PROVE  /\ claimant'[Key(x)'] = x /\ spent'[Key(x)'] = Ttl - age'[x]
                   /\ rows'[Key(x)'].status = "processing"
        <5>1. x # h
          BY <4>1, <4>2 DEF Executing
        <5> QED
          BY <1>a, <1>b, <3>1, <3>2, <3>4, <4>1, <4>2, <5>1 DEF Wrote, history
      <4>3. Guarded'
        BY <1>a, <3>1, <3>4 DEF Guarded, Wrote, history
      <4> QED
        BY ONLY <4>2, <4>3 DEF Owned
    <3> QED
      BY <2>2, <3>3, <3>4 DEF Claims
  <2>3. CASE Records(h)
    <3>1. Local(h) /\ pc'[h] = "idle" /\ Executing(h) /\ ~ Keyless(h)
      BY <1>a, <2>3, Locality DEF Records, Executing
    <3>2. ASSUME NEW x \in Handlers, Executing(x)', ~ Keyless(x)'
          PROVE  /\ Executing(x) /\ ~ Keyless(x) /\ Key(x)' = Key(x) /\ age'[x] = age[x]
                 /\ Key(x) # Key(h)
      <4>1. x # h
        BY <3>1, <3>2 DEF Executing
      <4>2. Executing(x) /\ ~ Keyless(x) /\ Key(x)' = Key(x) /\ age'[x] = age[x]
        BY <3>1, <3>2, <4>1 DEF Local, Executing, Key, Keyless
      <4>3. claimant[Key(x)] = x /\ claimant[Key(h)] = h
        BY <1>b, <3>1, <4>2
      <4> QED
        BY ONLY <4>1, <4>2, <4>3
    <3>3. CASE Wrote(Key(h), "succeeded", Past, Ttl - age[h]) /\ UNCHANGED history
      <4>1. Owned'
        BY <1>a, <1>b, <3>2, <3>3 DEF Owned, Wrote, history
      <4>2. spent[Key(h)] = Ttl - age[h]
        BY <1>b, <3>1
      <4>3. Guarded'
        BY <1>a, <2>k, <3>1, <3>3, <4>2 DEF Guarded, Wrote, history, HistoryOK
      <4> QED
        BY <4>1, <4>3
    <3>4. CASE /\ UNCHANGED rows \/ Wrote(Key(h), "failed_retryable", Backoff, Ttl - age[h])
               /\ Excuse(h)
      <4>1. spent' = [spent EXCEPT ![Key(h)] = 0] /\ claimant' = [claimant EXCEPT ![Key(h)] = None]
        BY <1>b, <3>1, <3>4 DEF Excuse
      <4>2. \A k \in Keys : k # Key(h) => rows'[k] = rows[k]
        BY <1>a, <3>4 DEF Wrote
      <4>3. Owned'
        BY <1>a, <1>b, <3>2, <4>1, <4>2 DEF Owned, HistoryOK
      <4>4. Guarded'
        BY <1>a, <4>1, <4>2 DEF Guarded, HistoryOK
      <4> QED
        BY <4>3, <4>4
    <3> QED
      BY <2>3, <3>3, <3>4 DEF Records
  <2> QED
    BY ONLY <2>0, <2>1, <2>2, <2>3
<1>3. ASSUME NEW h \in Handlers,
             LockStatement(h) \/ Work(h) \/ Renew(h) \/ Release(h) \/ Crash(h)
      PROVE  Owned' /\ Guarded'
  BY <1>c, <1>3, LockKeepsKeys DEF Local, Executing
<1>4. CASE Sweep
  <2>1. /\ \A k \in Keys : rows'[k] = rows[k] \/ rows[k].expiresAt <= 0
        /\ UNCHANGED <<requests, history>>
    BY <1>a, <1>4, Deletion DEF RequestsOK
  <2>2. \A k \in Keys : rows'[k] = rows[k] \/ spent[k] = 0
    BY <1>a, <2>1 DEF Guarded, HistoryOK, RowType
  <2>3. Guarded'
    BY <1>a, <2>1, <2>2 DEF Guarded, history
  <2>4. ASSUME NEW x \in Handlers, Executing(x)', ~ Keyless(x)'
        PROVE  /\ claimant'[Key(x)'] = x /\ spent'[Key(x)'] = Ttl - age'[x]
               /\ rows'[Key(x)'].status = "processing"
    <3>1. Executing(x) /\ ~ Keyless(x) /\ Key(x)' = Key(x) /\ age'[x] = age[x]
      BY <2>1, <2>4 DEF requests, Executing, Key, Keyless
    <3> QED
      BY <1>b, <2>1, <2>2, <3>1 DEF history
  <2> QED
    BY ONLY <2>3, <2>4 DEF Owned
<1>6. ASSUME NEW h \in Handlers, NEW o \in Operations, FinishRound(h, o)
      PROVE  Owned' /\ Guarded'
  BY <1>c, <1>6, RoundWrites DEF requests, Executing
<1>5. CASE Tick
  <2>1. /\ UNCHANGED <<pc, asked>>
        /\ age' = [h \in Handlers |-> IF pc[h] = "idle" THEN 0 ELSE age[h] + 1]
        /\ spent' = [k \in Keys |-> IF spent[k] > 0 THEN spent[k] - 1 ELSE 0]
        /\ claimant' = [k \in Keys |-> IF spent[k] > 1 THEN claimant[k] ELSE None]
        /\ \A h \in Handlers : age[h] < Horizon
    BY <1>5 DEF Tick, RequestsAge
  <2>2. \A k \in Keys : /\ rows'[k].status = rows[k].status
                        /\ rows'[k].expiresAt = Sooner(rows[k].expiresAt)
                        /\ rows[k].expiresAt \in Int /\ spent[k] \in Nat
    BY <1>a, <1>5, Clock DEF Tick, RequestsAge, RowType, HistoryOK
  <2>3. \A d \in Int, l \in Nat : l > 0 /\ d >= l => Sooner(d) >= l - 1
    BY <1>a, ExecuteAssumption DEF Sooner, Past
  <2>4. Guarded'
    BY <2>1, <2>2, <2>3 DEF Guarded
  <2>5. ASSUME NEW x \in Handlers, Executing(x)', ~ Keyless(x)'
        PROVE  /\ claimant'[Key(x)'] = x /\ spent'[Key(x)'] = Ttl - age'[x]
               /\ rows'[Key(x)'].status = "processing"
    <3>1. Executing(x) /\ ~ Keyless(x) /\ Key(x)' = Key(x) /\ pc[x] # "idle"
      BY <2>1, <2>5 DEF Executing, Key, Keyless
    <3>2. age'[x] = age[x] + 1 /\ age[x] \in Nat /\ age[x] < Horizon
      BY <1>a, <2>1, <3>1 DEF RequestsOK
    <3>3. spent[Key(x)] = Ttl - age[x] /\ Key(x) \in Keys /\ claimant[Key(x)] = x
          /\ rows[Key(x)].status = "processing"
      BY <1>b, <3>1
    <3>4. spent[Key(x)] > 1
      BY ONLY <1>a, <3>2, <3>3
    <3> QED
      BY <1>a, <2>1, <2>2, <3>1, <3>2, <3>3, <3>4
  <2> QED
    BY ONLY <2>4, <2>5 DEF Owned
<1> QED
  BY ONLY Next, <1>1, <1>2, <1>3, <1>4, <1>5, <1>6
  DEF Next, Handle, Execute, Statement, LockStatement

-----------------------------------------------------------------------------
LEMMA InitInv == Init => IInv
<1> SUFFICES ASSUME Init PROVE IInv
  OBVIOUS
<1>1. /\ rows = [s \in Scopes |-> NoRow] /\ ids = [s \in Scopes |-> {}]
      /\ victims = {}
      /\ pc = [h \in Handlers |-> "idle"] /\ asked = [h \in Handlers |-> None]
      /\ age = [h \in Handlers |-> 0] /\ seen = [h \in Handlers |-> "none"]
      /\ spent = [k \in Keys |-> 0] /\ claimant = [k \in Keys |-> None]
      /\ faults = 0 /\ happened = {}
  BY DEF Init, ExecuteInit, TableInit
<1>2. /\ lockAge = [h \in Handlers |-> 0] /\ succeeded = {} /\ renewing = {}
      /\ rounds = {} /\ lease = [h \in Handlers |-> 0] /\ lapsed = FALSE
  BY DEF Init
<1>3. TypeOK
  <2>1. rows \in [Scopes -> RowType]
    <3>1. NoRow \in RowType
      BY ExecuteAssumption DEF NoRow, Row, RowType, Past, Statuses
    <3> QED
      BY ONLY <1>1, <3>1
  <2>2. RequestsOK /\ HistoryOK
    BY ONLY <1>1, ExecuteAssumption DEF RequestsOK, HistoryOK, PCs, ExecutePC, Statuses
  <2>3. LocksOK
    <3>1. 0 \in 0 .. Horizon /\ 0 \in 0 .. Timeout
      BY ONLY ExecuteAssumption
    <3> QED
      BY ONLY <1>2, <3>1 DEF LocksOK
  <2>4. MishapsOK
    BY ONLY <1>1, ExecuteAssumption DEF MishapsOK
  <2>5. lapsed \in BOOLEAN /\ victims \subseteq Scopes
    BY ONLY <1>1, <1>2
  <2> QED
    BY ONLY <2>1, <2>2, <2>3, <2>4, <2>5, TypeParts
<1>4. \A h \in Handlers : pc[h] = "idle" /\ lockAge[h] = 0 /\ age[h] = 0
  BY ONLY <1>1, <1>2
<1>5. Asked /\ Held /\ Owned
  BY ONLY <1>4 DEF Asked, Held, Holders, Owned, Executing
<1>6. Guarded
  BY ONLY <1>1 DEF Guarded
<1> QED
  BY ONLY <1>3, <1>5, <1>6 DEF IInv

LEMMA NextInv == IInv /\ [Next]_vars => IInv'
<1> SUFFICES ASSUME IInv, [Next]_vars PROVE IInv'
  OBVIOUS
<1>1. CASE Next
  <2>1. TypeOK' /\ Asked'
    BY ONLY IInv, <1>1, TypeStep DEF IInv
  <2>2. ~ lapsed' /\ "swept" \notin happened' => Held'
    BY ONLY IInv, <1>1, HeldStep, NothingForgotten DEF IInv
  <2>3. happened' = {} => Owned' /\ Guarded'
    <3>1. happened' = {} => happened = {}
      BY <1>1, NothingForgotten
    <3> QED
      BY ONLY IInv, <1>1, <3>1, OwnedStep DEF IInv
  <2> QED
    BY ONLY <2>1, <2>2, <2>3 DEF IInv
<1>2. CASE UNCHANGED vars
  BY <1>2 DEF vars, table, requests, history, mishaps, locks, IInv, TypeOK, ExecuteTypeOK,
              TableTypeOK, Asked, Held, Holders, Working, Owned, Guarded, Executing, Acquiring,
              Key, Keyless
<1> QED
  BY <1>1, <1>2

LEMMA Invariance == Spec => []IInv
<1>1. IInv /\ [Next]_vars => IInv'
  BY NextInv
<1> QED
  BY <1>1, InitInv, PTL DEF Spec

\* Every variable keeps its type: in particular a lock is renewed only for one
\* that works, and no deadline of a request is overrun.
THEOREM TypeCorrect == Spec => []TypeOK
<1>1. IInv => TypeOK
  BY DEF IInv
<1> QED
  BY <1>1, Invariance, PTL

\* Update, rollback and restart exclude each other as long as no lease lapses:
\* the row of the lock outlasts the lease of its holder, so that the insert, the
\* reclaim and the cleaner of the others do not touch it.
THEOREM Exclusion == Spec => []OneUnlessLapsed
<1>1. IInv => OneUnlessLapsed
  BY DEF IInv, Held, Holders, Working, OneUnlessLapsed
<1> QED
  BY <1>1, Invariance, PTL

\* A request executes only for a key that excludes nobody any more.
THEOREM Once == Spec => NoRepeat
<1> DEFINE Respects ==
      \A h \in Handlers : Begins(h) => spent[Key(h)] = 0 \/ happened' # {}
<1>1. IInv /\ [Next]_vars => Respects \/ UNCHANGED <<pc, spent>>
  <2> SUFFICES ASSUME IInv, [Next]_vars, ~ UNCHANGED <<pc, spent>>, happened' = {},
                      NEW h \in Handlers, Begins(h)
               PROVE spent[Key(h)] = 0
    BY DEF Respects
  <2>1. Next
    BY DEF vars, requests, history
  <2>a. RequestsOK /\ TypeOK /\ Asked /\ Guarded /\ pc[h] \in {"create", "reclaimExpired", "reclaim"}
        /\ pc'[h] = "execute" /\ ~ Keyless(h) /\ Key(h) \in Keys
    <3>1. happened = {}
      BY <2>1, NothingForgotten
    <3>2. TypeOK /\ Asked /\ Guarded /\ pc[h] \in {"create", "reclaimExpired", "reclaim"}
          /\ pc'[h] = "execute"
      BY <3>1 DEF IInv, Begins
    <3>3. asked[h] \in Operations /\ ~ Keyless(h)
      BY <3>2 DEF Asked
    <3> QED
      BY <3>2, <3>3, TypeParts, KeysAreScopes DEF Key, Keyless
  <2>2. ASSUME NEW x \in Handlers, Statement(x) PROVE spent[Key(h)] = 0
    <3>1. Proceeds(x) \/ Claims(x) \/ Records(x)
      BY <2>a, <2>2, StatementEffect
    <3>2. x = h /\ Claims(h) /\ ~ Answer(h)
      BY <2>a, <3>1, Locality DEF Proceeds, Claims, Records, Local
    <3> QED
      BY <2>a, <3>2, FreeIsUnspent DEF Claims
  <2>3. ASSUME NEW x \in Handlers, \E o \in Operations : Request(x, o) PROVE FALSE
    BY <2>a, <2>3 DEF Request, RequestsOK
  <2>4. ASSUME NEW x \in Handlers,
               LockStatement(x) \/ Work(x) \/ Renew(x) \/ Release(x) \/ Crash(x)
        PROVE  FALSE
    BY <2>a, <2>4, LockKeepsKeys DEF Local, Executing
  <2>5. CASE Tick \/ Sweep
    BY <2>a, <2>5 DEF Tick, RequestsAge, Sweep, CleanUp, requests
  <2>6. ASSUME NEW x \in Handlers, NEW o \in Operations, FinishRound(x, o) PROVE FALSE
    BY <2>a, <2>6 DEF FinishRound, requests
  <2> QED
    BY ONLY <2>1, <2>2, <2>3, <2>4, <2>5, <2>6 DEF Next, Handle, Execute, Statement, LockStatement
<1> QED
  BY <1>1, Invariance, PTL DEF Spec, NoRepeat, Respects

\* The success of an operation is not overwritten: who could has claimed the key
\* after it, or has been answered.
THEOREM Recorded == Spec => SuccessStays
<1> DEFINE Stays ==
      \A k \in Keys :
          rows[k].status = "succeeded" /\ rows[k].expiresAt > 0
             => rows'[k].status = "succeeded" \/ happened' # {}
<1>1. IInv /\ [Next]_vars => Stays \/ UNCHANGED <<rows, happened>>
  <2> SUFFICES ASSUME IInv, [Next]_vars, ~ UNCHANGED <<rows, happened>>, happened' = {},
                      NEW k \in Keys, rows[k].status = "succeeded", rows[k].expiresAt > 0
               PROVE rows'[k].status = "succeeded"
    BY DEF Stays
  <2>1. Next
    BY DEF vars, table, mishaps
  <2>a. /\ TypeOK /\ Asked /\ Owned /\ RequestsOK /\ rows \in [Scopes -> RowType]
        /\ k \in Scopes /\ k # GlobalLock /\ Past \in Int /\ victims \subseteq Scopes
    <3>1. happened = {}
      BY <2>1, NothingForgotten
    <3> QED
      BY <3>1, TypeParts, KeysAreScopes, ExecuteAssumption DEF IInv, Past
  <2>2. ASSUME NEW h \in Handlers, Statement(h) PROVE rows'[k].status = "succeeded"
    <3>1. /\ Proceeds(h) \/ Claims(h) \/ Records(h)
          /\ pc[h] \in ExecutePC \ {"idle", "execute"} /\ asked[h] \in Operations
      BY <2>a, <2>2, StatementEffect
    <3>2. CASE Claims(h)
      <4>1. Free(h)
        BY <3>2 DEF Claims
      <4>2. rows[k].expiresAt \in Int
        BY <2>a DEF RowType
      <4>3. Key(h) # k
        BY ONLY <4>1, <4>2, rows[k].status = "succeeded", rows[k].expiresAt > 0 DEF Free
      <4> QED
        BY <2>a, <3>2, <4>3 DEF Claims, Wrote
    <3>3. CASE Records(h)
      <4>1. Key(h) # k
        BY <2>a, <3>3 DEF Records, Owned, Executing
      <4> QED
        BY <2>a, <3>3, <4>1 DEF Records, Wrote
    <3> QED
      BY <3>1, <3>2, <3>3 DEF Proceeds
  <2>3. ASSUME NEW h \in Handlers, \E o \in Operations : Request(h, o)
        PROVE  rows'[k].status = "succeeded"
    BY <2>3 DEF Request, table
  <2>4. ASSUME NEW h \in Handlers,
               LockStatement(h) \/ Work(h) \/ Renew(h) \/ Release(h) \/ Crash(h)
        PROVE  rows'[k].status = "succeeded"
    BY <2>a, <2>4, LockKeepsKeys
  <2>5. CASE Sweep
    <3>1. rows[k].expiresAt \in Int
      BY <2>a DEF RowType
    <3> QED
      BY <2>a, <2>5, <3>1, Deletion DEF RequestsOK
  <2>7. ASSUME NEW h \in Handlers, NEW o \in Operations, FinishRound(h, o)
        PROVE  rows'[k].status = "succeeded"
    BY <2>a, <2>7, RoundWrites
  <2>6. CASE Tick
    BY <2>a, <2>6, Clock DEF Tick, RequestsAge
  <2> QED
    BY ONLY <2>1, <2>2, <2>3, <2>4, <2>5, <2>6, <2>7
    DEF Next, Handle, Execute, Statement, LockStatement
<1> QED
  BY <1>1, Invariance, PTL DEF Spec, SuccessStays, Stays

=============================================================================
