------------------------- MODULE IdempotencyRecords -------------------------
(***************************************************************************)
(* The table idempotency_records and the statements of                     *)
(* idempotency_repo.go on it.  A row is found by its scope and key, here   *)
(* one member of Scopes, and written by its id: "ids" says whose id is     *)
(* that of the present row, and not that of a row deleted since.           *)
(*                                                                         *)
(* Times are relative to the present: a deadline d is d ticks ahead, or -d *)
(* ticks ago, and Past is before any moment that a request remembers.      *)
(***************************************************************************)
EXTENDS Integers

CONSTANTS
    Handlers,        \* goroutines that serve requests, on any instance
    Scopes,          \* scope and idempotency key
    Fingerprints,    \* fingerprints of requests
    None,
    Horizon          \* how long a request may last

VARIABLES
    rows,            \* the row of each scope, with status "none" if there is none
    ids,             \* handlers that know the id of the row
    victims          \* rows the clean-up under way has selected, by id

Past == -Horizon

Statuses == {"none", "processing", "succeeded", "failed_retryable"}

Row(status, fingerprint, lockedUntil, expiresAt) ==
    [status |-> status, fingerprint |-> fingerprint,
     lockedUntil |-> lockedUntil, expiresAt |-> expiresAt]

NoRow == Row("none", None, Past, Past)

TableTypeOK ==
    /\ rows \in [Scopes -> [status : Statuses, fingerprint : Fingerprints \cup {None},
                            lockedUntil : Int, expiresAt : Int]]
    /\ ids \in [Scopes -> SUBSET Handlers]
    /\ victims \subseteq Scopes

-----------------------------------------------------------------------------
(* The statements.  Each is one action on the rows. *)

Update(s, row) == rows' = [rows EXCEPT ![s] = row]

Exists(s) == rows[s].status # "none"

\* INSERT ... ON CONFLICT DO NOTHING, when nothing conflicts.
CreateProcessing(s, fingerprint, lockedUntil, expiresAt) ==
    /\ ~ Exists(s)
    /\ Update(s, Row("processing", fingerprint, lockedUntil, expiresAt))

\* Mutant: the status is not compared.
ReclaimableUnlocked(h, s, from, began) ==
    h \in ids[s] /\ rows[s].lockedUntil <= began

\* Mutant: the lock is not compared.
ReclaimableByStatus(h, s, from, began) ==
    h \in ids[s] /\ rows[s].status = from

\* The condition of TryReclaim: a comparison with the row as it was read.
Reclaimable(h, s, from, began) ==
    /\ h \in ids[s]
    /\ rows[s].status = from
    /\ rows[s].lockedUntil <= began

\* The fingerprint of the row stays.
Reclaim(s, lockedUntil, expiresAt) ==
    Update(s, [rows[s] EXCEPT !.status = "processing", !.lockedUntil = lockedUntil,
                              !.expiresAt = expiresAt])

\* The condition of ExtendProcessingLock, but for the id.
Extendable(s, fingerprint) ==
    /\ rows[s].status = "processing"
    /\ rows[s].fingerprint = fingerprint

ExtendProcessingLock(s, lockedUntil, expiresAt) ==
    Update(s, [rows[s] EXCEPT !.lockedUntil = lockedUntil, !.expiresAt = expiresAt])

\* The two marks look for the id only, whatever the status and whoever set it.
Mark(h, s, status, lockedUntil, expiresAt) ==
    IF h \in ids[s]
    THEN Update(s, Row(status, rows[s].fingerprint, lockedUntil, expiresAt))
    ELSE UNCHANGED rows

MarkSucceeded(h, s, expiresAt) == Mark(h, s, "succeeded", Past, expiresAt)

MarkFailedRetryable(h, s, lockedUntil, expiresAt) ==
    Mark(h, s, "failed_retryable", lockedUntil, expiresAt)

ExpiredRows == {s \in Scopes : Exists(s) /\ rows[s].expiresAt <= 0}

\* The first half of DeleteExpired: the ids of the expired rows, of which there
\* are less than its limit, as its snapshot has them.
SelectExpired ==
    /\ victims = {} /\ ExpiredRows # {}
    /\ victims' = ExpiredRows
    /\ UNCHANGED <<rows, ids>>

\* The second half: they are deleted by id, whatever has become of them.
DeleteVictims ==
    /\ rows' = [s \in Scopes |-> IF s \in victims THEN NoRow ELSE rows[s]]
    /\ ids' = [s \in Scopes |-> IF s \in victims THEN {} ELSE ids[s]]
    /\ victims' = {}

\* A tick of the clock.
Sooner(deadline) == IF deadline > Past THEN deadline - 1 ELSE deadline

TimePasses ==
    rows' = [s \in Scopes |-> [rows[s] EXCEPT !.lockedUntil = Sooner(@), !.expiresAt = Sooner(@)]]

TableInit ==
    /\ rows = [s \in Scopes |-> NoRow]
    /\ ids = [s \in Scopes |-> {}]
    /\ victims = {}

=============================================================================
