------------------------- MODULE OAuthRefresh_proofs -------------------------
(***************************************************************************)
(* Proofs about the refresh of OAuth credentials, for any goroutines,      *)
(* processes, numbers of credentials and faults: types, that a refresh     *)
(* token is not used twice while the lock holds, that what is marked as    *)
(* broken is, that tokens outlived by a refresh are due, and that the row  *)
(* does not return to older credentials.                                   *)
(***************************************************************************)
EXTENDS OAuthRefresh, TLAPS

\* Credentials in hand have been issued, and are there when they are written.
Known ==
    \A h \in Handlers :
        /\ given[h] <= issued /\ copy[h] <= issued /\ new[h] <= issued
        /\ pc[h] = "persist" => new[h] # 0
        /\ pc[h] = "save" => copy[h] # 0

\* What NoReuse needs: credentials are not lost, the lock holds, and the
\* administrator does nothing.
Calm == Unless({"rotated", "unlocked", "edit", "manual", "reauth"})

UnderLock == {"reread", "refresh", "persist", "durable", "recover"}

\* The lock holds.
Firm == Unless({"unlocked"})

\* Who refreshes has set the lock.
Exclusive ==
    \A h \in Handlers :
        /\ pc[h] \in UnderLock => h \in holding
        /\ h \in holding => locked = h

\* The credentials the holder works with are those of the row, and the newest,
\* or newer ones are in its hand.
Current ==
    /\ \A h \in Handlers :
          /\ pc[h] \in {"refresh", "persist"} => copy[h] = stored
          /\ pc[h] = "persist" => new[h] = issued
          /\ pc[h] \notin {"ask", "load", "save", "clear"}
    /\ issued # stored => \E h \in Handlers : pc[h] = "persist"

\* Unless the administrator steps in, only one goroutine has credentials in
\* hand, those issued last; copies are not newer than the row.
Single ==
    Unless({"edit", "manual", "reauth"}) =>
        \A h \in Handlers :
            /\ new[h] # 0 => new[h] = issued /\ stored < issued
            /\ copy[h] <= stored
            /\ \A x \in Handlers : new[h] # 0 /\ new[x] # 0 => x = h
            /\ pc[h] \notin {"ask", "load", "save", "clear"}

\* A refresh leads to newer credentials, and only an administrator writes the
\* row back.
Ahead ==
    \A h \in Handlers :
        /\ pc[h] = "persist" => copy[h] < new[h]
        /\ pc[h] \in {"ask", "load", "save", "clear"} => h \in Administrators

\* Unless the administrator steps in, what is not the newest of the row is
\* due, since what is not due is not refreshed.
Prompt ==
    Unless({"edit", "manual", "reauth"}) =>
        /\ stored <= due + 1
        /\ \A h \in Handlers :
              /\ pc[h] = "refresh" => copy[h] <= due
              /\ new[h] <= due + 1

\* The newest credentials are lost: nobody has them to store them.
Lost == stored # issued /\ \A h \in Handlers : new[h] # issued

\* What ErrorMeansDead needs, either of the two.  The administrator may refresh
\* by hand, or the lock holds.
Told == Unless({"denied", "overtaken", "unread", "edit", "reauth"})

Watched == Unless({"denied", "unlocked", "edit", "manual", "reauth"})

\* Credentials in hand are the newest and nobody else's; others are not newer
\* than those of the row.
Handed ==
    \A h \in Handlers :
        /\ new[h] # 0 => new[h] = issued /\ stored < issued
        /\ \A x \in Handlers : new[h] # 0 /\ new[x] # 0 => x = h
        /\ copy[h] <= stored /\ given[h] <= stored
        /\ pc[h] \in {"ask", "load", "save"} => given[h] # 0
        /\ pc[h] \in {"load", "save"} => new[h] # 0
        /\ pc[h] # "clear"

\* Who has been refused presented a token that was not the newest; it is marked
\* only when the newest is lost, and what is saved meanwhile is not an error.
Hopeless ==
    /\ status = "error" => Lost
    /\ \A h \in Handlers :
          /\ pc[h] = "recover" => copy[h] # issued
          /\ pc[h] = "mark" \/ then[h] = "mark" => Lost
          /\ pc[h] = "save" => was[h] = "active"

\* The row stays as the holder of the lock has read it.
Settled ==
    \A h \in Handlers :
        /\ pc[h] \in {"refresh", "recover"} => copy[h] = stored
        /\ new[h] # 0 => pc[h] = "persist"

Verdict ==
    /\ Told => Handed /\ Hopeless
    /\ Watched => Settled /\ Hopeless

IInv == TypeOK /\ Known /\ (Firm => Exclusive) /\ (Calm => Current)

-----------------------------------------------------------------------------
LEMMA HandlersAreSubsets ==
    /\ Requests \subseteq Handlers /\ Background \subseteq Handlers
    /\ Administrators \subseteq Handlers
BY DEF Handlers

\* Types are kept by every step.
LEMMA TypeStep == TypeOK /\ Known /\ Next => TypeOK' /\ Known'
<1> SUFFICES ASSUME TypeOK, Known, Next PROVE TypeOK' /\ Known'
  OBVIOUS
<1> USE HandlersAssumption, BoundsAssumption, HandlersAreSubsets
    DEF TypeOK, Known, Tokens, PCs, Inside, Fault, NoFault, account, locks, local, mishaps
<1>1. ASSUME NEW h \in Handlers, LockMutex(h) PROVE TypeOK' /\ Known'
  BY <1>1 DEF LockMutex, Go, End, Serve
<1>2. ASSUME NEW h \in Handlers, AcquireRefreshLock(h) PROVE TypeOK' /\ Known'
  BY <1>2 DEF AcquireRefreshLock, Go, Return, Serve
<1>3. ASSUME NEW h \in Handlers, Reread(h) PROVE TypeOK' /\ Known'
  BY <1>3 DEF Reread, Go, Return, Failed, Serve, Found
<1>4. ASSUME NEW h \in Handlers, Refresh(h) PROVE TypeOK' /\ Known'
  BY <1>4 DEF Refresh, Go, Return, Failed, Refused, Serve, Issue
<1>5. ASSUME NEW h \in Handlers, Persist(h) PROVE TypeOK' /\ Known'
  BY <1>5 DEF Persist, Go, Return, Failed, Serve, Refreshed
<1>6. ASSUME NEW h \in Handlers, LoadDurable(h) PROVE TypeOK' /\ Known'
  BY <1>6 DEF LoadDurable, Go, Return, Failed, Serve, Refreshed
<1>7. ASSUME NEW h \in Handlers, TryRecoverFromRefreshRace(h) PROVE TypeOK' /\ Known'
  <2>1. Go(h, "release") /\ copy' = [copy EXCEPT ![h] = 0] /\ new' = [new EXCEPT ![h] = 0]
        /\ UNCHANGED <<account, issued, due, cached, locks, was>>
    BY <1>7 DEF TryRecoverFromRefreshRace, Return, Refused
  <2>2. /\ \E to \in {"idle", "version", "mark"} : then' = [then EXCEPT ![h] = to]
        /\ \E token \in {stored, copy[h], given[h]} : given' = [given EXCEPT ![h] = token]
    BY <1>7 DEF TryRecoverFromRefreshRace, Return, Refused, Serve
  <2>3. faults' \in 0 .. MaxFaults /\ happened' \subseteq FaultKinds \cup {"overtaken"}
    BY <1>7 DEF TryRecoverFromRefreshRace, Note
  <2> QED
    BY <2>1, <2>2, <2>3 DEF Go
<1>8. ASSUME NEW h \in Handlers, Release(h) PROVE TypeOK' /\ Known'
  BY <1>8 DEF Release, Go, End
<1>9. ASSUME NEW h \in Handlers, Wait(h) PROVE TypeOK' /\ Known'
  BY <1>9 DEF Wait, Go, End
<1>10. ASSUME NEW h \in Handlers, CheckTokenVersion(h) PROVE TypeOK' /\ Known'
  BY <1>10 DEF CheckTokenVersion, Go, End
<1>11. ASSUME NEW h \in Handlers, SetAccessToken(h) PROVE TypeOK' /\ Known'
  BY <1>11 DEF SetAccessToken, Go, End
<1>12. ASSUME NEW h \in Handlers, MarkError(h) PROVE TypeOK' /\ Known'
  BY <1>12 DEF MarkError, Go, End
<1>13. ASSUME NEW h \in Handlers, InvalidateToken(h) PROVE TypeOK' /\ Known'
  BY <1>13 DEF InvalidateToken, Go, End
<1>14. ASSUME NEW h \in Handlers, Ask(h) PROVE TypeOK' /\ Known'
  BY <1>14 DEF Ask, Go, End, Issue
<1>15. ASSUME NEW h \in Handlers, LoadAccount(h) PROVE TypeOK' /\ Known'
  BY <1>15 DEF LoadAccount, Go
<1>16. ASSUME NEW h \in Handlers, SaveAccount(h) PROVE TypeOK' /\ Known'
  BY <1>16 DEF SaveAccount, Go, End
<1>17. ASSUME NEW h \in Handlers, ClearError(h) PROVE TypeOK' /\ Known'
  BY <1>17 DEF ClearError, Go
<1>18. ASSUME NEW h \in Background, Cycle(h) PROVE TypeOK' /\ Known'
  BY <1>18 DEF Cycle, Go
<1>19. ASSUME NEW h \in Requests, Request(h) PROVE TypeOK' /\ Known'
  BY <1>19 DEF Request, Go, Serve
<1>20. ASSUME NEW h \in Administrators, Edit(h) PROVE TypeOK' /\ Known'
  BY <1>20 DEF Edit, Go
<1>21. ASSUME NEW h \in Administrators, ManualRefresh(h) PROVE TypeOK' /\ Known'
  BY <1>21 DEF ManualRefresh, Go
<1>22. ASSUME NEW h \in Administrators, ApplyOAuthCredentials(h) PROVE TypeOK' /\ Known'
  BY <1>22 DEF ApplyOAuthCredentials, Go, Issue
<1>23. CASE Age
  BY <1>23 DEF Age
<1>24. CASE TokenExpires
  BY <1>24 DEF TokenExpires
<1>25. CASE LockExpires
  BY <1>25 DEF LockExpires
<1>26. ASSUME NEW p \in Processes, Crash(p) PROVE TypeOK' /\ Known'
  BY <1>26 DEF Crash
<1> QED
  BY ONLY Next, <1>1, <1>2, <1>3, <1>4, <1>5, <1>6, <1>7, <1>8, <1>9, <1>10, <1>11, <1>12, <1>13,
     <1>14, <1>15, <1>16, <1>17, <1>18, <1>19, <1>20, <1>21, <1>22, <1>23, <1>24, <1>25, <1>26
  DEF Next, GoOn, RefreshIfNeeded

-----------------------------------------------------------------------------
\* What has happened is not forgotten.
LEMMA NothingForgotten == Next => happened \subseteq happened'
<1> SUFFICES ASSUME Next PROVE happened \subseteq happened'
  OBVIOUS
<1> USE DEF Fault, NoFault, mishaps
<1>1. ASSUME NEW h \in Handlers, LockMutex(h) PROVE happened \subseteq happened'
  BY <1>1 DEF LockMutex, Go, End, Serve
<1>2. ASSUME NEW h \in Handlers, AcquireRefreshLock(h) PROVE happened \subseteq happened'
  BY <1>2 DEF AcquireRefreshLock, Go, Return, Serve
<1>3. ASSUME NEW h \in Handlers, Reread(h) PROVE happened \subseteq happened'
  BY <1>3 DEF Reread, Go, Return, Failed, Serve, Found
<1>4. ASSUME NEW h \in Handlers, Refresh(h) PROVE happened \subseteq happened'
  BY <1>4 DEF Refresh, Go, Return, Failed, Refused, Serve, Issue
<1>5. ASSUME NEW h \in Handlers, Persist(h) PROVE happened \subseteq happened'
  BY <1>5 DEF Persist, Go, Return, Failed, Serve, Refreshed
<1>6. ASSUME NEW h \in Handlers, LoadDurable(h) PROVE happened \subseteq happened'
  BY <1>6 DEF LoadDurable, Go, Return, Failed, Serve, Refreshed
<1>7. ASSUME NEW h \in Handlers, TryRecoverFromRefreshRace(h) PROVE happened \subseteq happened'
  BY <1>7 DEF TryRecoverFromRefreshRace, Go, Return, Refused, Serve, Note
<1>8. ASSUME NEW h \in Handlers, Release(h) PROVE happened \subseteq happened'
  BY <1>8 DEF Release, Go, End
<1>9. ASSUME NEW h \in Handlers, Wait(h) PROVE happened \subseteq happened'
  BY <1>9 DEF Wait, Go, End
<1>10. ASSUME NEW h \in Handlers, CheckTokenVersion(h) PROVE happened \subseteq happened'
  BY <1>10 DEF CheckTokenVersion, Go, End
<1>11. ASSUME NEW h \in Handlers, SetAccessToken(h) PROVE happened \subseteq happened'
  BY <1>11 DEF SetAccessToken, Go, End
<1>12. ASSUME NEW h \in Handlers, MarkError(h) PROVE happened \subseteq happened'
  BY <1>12 DEF MarkError, Go, End
<1>13. ASSUME NEW h \in Handlers, InvalidateToken(h) PROVE happened \subseteq happened'
  BY <1>13 DEF InvalidateToken, Go, End
<1>14. ASSUME NEW h \in Handlers, Ask(h) PROVE happened \subseteq happened'
  BY <1>14 DEF Ask, Go, End, Issue
<1>15. ASSUME NEW h \in Handlers, LoadAccount(h) PROVE happened \subseteq happened'
  BY <1>15 DEF LoadAccount, Go
<1>16. ASSUME NEW h \in Handlers, SaveAccount(h) PROVE happened \subseteq happened'
  BY <1>16 DEF SaveAccount, Go, End
<1>17. ASSUME NEW h \in Handlers, ClearError(h) PROVE happened \subseteq happened'
  BY <1>17 DEF ClearError, Go
<1>18. ASSUME NEW h \in Background, Cycle(h) PROVE happened \subseteq happened'
  BY <1>18 DEF Cycle, Go
<1>19. ASSUME NEW h \in Requests, Request(h) PROVE happened \subseteq happened'
  BY <1>19 DEF Request, Go, Serve
<1>20. ASSUME NEW h \in Administrators, Edit(h) PROVE happened \subseteq happened'
  BY <1>20 DEF Edit, Go
<1>21. ASSUME NEW h \in Administrators, ManualRefresh(h) PROVE happened \subseteq happened'
  BY <1>21 DEF ManualRefresh, Go
<1>22. ASSUME NEW h \in Administrators, ApplyOAuthCredentials(h) PROVE happened \subseteq happened'
  BY <1>22 DEF ApplyOAuthCredentials, Go, Issue
<1>23. CASE Age
  BY <1>23 DEF Age
<1>24. CASE TokenExpires
  BY <1>24 DEF TokenExpires
<1>25. CASE LockExpires
  BY <1>25 DEF LockExpires
<1>26. ASSUME NEW p \in Processes, Crash(p) PROVE happened \subseteq happened'
  BY <1>26 DEF Crash
<1> QED
  BY ONLY Next, <1>1, <1>2, <1>3, <1>4, <1>5, <1>6, <1>7, <1>8, <1>9, <1>10, <1>11, <1>12, <1>13,
     <1>14, <1>15, <1>16, <1>17, <1>18, <1>19, <1>20, <1>21, <1>22, <1>23, <1>24, <1>25, <1>26
  DEF Next, GoOn, RefreshIfNeeded

\* The refresh succeeds, is refused for its token, or ends the attempt.
LEMMA RefreshEffect ==
    ASSUME TypeOK, NEW h \in Handlers, Refresh(h)
    PROVE  /\ pc[h] = "refresh"
           /\ UNCHANGED <<stored, status, due, locks, was, platform, cached>>
           /\ \/ /\ Issue(copy[h])
                 /\ pc' = [pc EXCEPT ![h] = "persist"]
                 /\ new' = [new EXCEPT ![h] = issued']
                 /\ UNCHANGED <<given, copy, then, happened>>
              \/ /\ copy[h] # issued
                 /\ pc' = [pc EXCEPT ![h] = "recover"]
                 /\ UNCHANGED <<issued, given, copy, new, then, happened>>
              \/ /\ pc' = [pc EXCEPT ![h] = "release"]
                 /\ copy' = [copy EXCEPT ![h] = 0]
                 /\ new' = [new EXCEPT ![h] = 0]
                 /\ \E to \in {"idle", "version", "mark"} :
                       /\ then' = [then EXCEPT ![h] = to]
                       /\ to = "mark" => "denied" \in happened'
                 /\ UNCHANGED issued \/ (Issue(copy[h]) /\ "rotated" \in happened')
<1> USE DEF Refresh, account, local, NoFault, Fault, mishaps
<1>1. pc[h] = "refresh" /\ UNCHANGED <<stored, status, due, locks, was, platform, cached>>
  BY DEF Return, Failed, Refused
<1>2. Serve(h) \in {"idle", "version"}
  BY DEF Serve
<1>3. CASE UNCHANGED issued /\ Failed(h) /\ Fault("error")
  BY <1>1, <1>2, <1>3 DEF Failed, Return, Go
<1>4. CASE UNCHANGED issued /\ Refused(h) /\ Fault("denied")
  BY <1>1, <1>2, <1>4 DEF Refused, Return, Go
<1>5. CASE Issue(copy[h]) /\ Failed(h) /\ Fault("rotated")
  BY <1>1, <1>2, <1>5 DEF Failed, Return, Go
<1>6. CASE /\ Issue(copy[h]) /\ Go(h, "persist") /\ new' = [new EXCEPT ![h] = issued']
           /\ UNCHANGED <<given, copy, then, was>> /\ NoFault
  BY <1>1, <1>6 DEF Go
<1>7. CASE copy[h] # issued /\ Go(h, "recover") /\ UNCHANGED <<issued, local>> /\ NoFault
  BY <1>1, <1>7 DEF Go
<1> QED
  BY <1>3, <1>4, <1>5, <1>6, <1>7

\* The lock excludes, as long as it holds.
LEMMA ExclusiveStep ==
    TypeOK /\ Known /\ Firm /\ Firm' /\ Exclusive /\ Next => Exclusive'
<1> SUFFICES ASSUME TypeOK, Known, Firm, Firm', Exclusive, Next PROVE Exclusive'
  OBVIOUS
<1> USE HandlersAssumption, HandlersAreSubsets
    DEF TypeOK, Known, Firm, Unless, Exclusive, UnderLock, Inside, Fault, NoFault,
        account, locks, local, mishaps
<1>1. ASSUME NEW h \in Handlers, LockMutex(h) PROVE Exclusive'
  BY <1>1 DEF LockMutex, Go, End, Serve
<1>2. ASSUME NEW h \in Handlers, AcquireRefreshLock(h) PROVE Exclusive'
  BY <1>2 DEF AcquireRefreshLock, Go, Return, Serve
<1>3. ASSUME NEW h \in Handlers, Reread(h) PROVE Exclusive'
  BY <1>3 DEF Reread, Go, Return, Failed, Serve, Found
<1>4. ASSUME NEW h \in Handlers, Refresh(h) PROVE Exclusive'
  BY <1>4 DEF Refresh, Go, Return, Failed, Refused, Serve, Issue
<1>5. ASSUME NEW h \in Handlers, Persist(h) PROVE Exclusive'
  BY <1>5 DEF Persist, Go, Return, Failed, Serve, Refreshed
<1>6. ASSUME NEW h \in Handlers, LoadDurable(h) PROVE Exclusive'
  BY <1>6 DEF LoadDurable, Go, Return, Failed, Serve, Refreshed
<1>7. ASSUME NEW h \in Handlers, TryRecoverFromRefreshRace(h) PROVE Exclusive'
  BY <1>7 DEF TryRecoverFromRefreshRace, Go, Return, Refused, Serve, Note
<1>8. ASSUME NEW h \in Handlers, Release(h) PROVE Exclusive'
  BY <1>8 DEF Release, Go, End
<1>9. ASSUME NEW h \in Handlers, Wait(h) PROVE Exclusive'
  BY <1>9 DEF Wait, Go, End
<1>10. ASSUME NEW h \in Handlers, CheckTokenVersion(h) PROVE Exclusive'
  BY <1>10 DEF CheckTokenVersion, Go, End
<1>11. ASSUME NEW h \in Handlers, SetAccessToken(h) PROVE Exclusive'
  BY <1>11 DEF SetAccessToken, Go, End
<1>12. ASSUME NEW h \in Handlers, MarkError(h) PROVE Exclusive'
  BY <1>12 DEF MarkError, Go, End
<1>13. ASSUME NEW h \in Handlers, InvalidateToken(h) PROVE Exclusive'
  BY <1>13 DEF InvalidateToken, Go, End
<1>14. ASSUME NEW h \in Handlers, Ask(h) PROVE Exclusive'
  BY <1>14 DEF Ask, Go, End, Issue
<1>15. ASSUME NEW h \in Handlers, LoadAccount(h) PROVE Exclusive'
  BY <1>15 DEF LoadAccount, Go
<1>16. ASSUME NEW h \in Handlers, SaveAccount(h) PROVE Exclusive'
  BY <1>16 DEF SaveAccount, Go, End
<1>17. ASSUME NEW h \in Handlers, ClearError(h) PROVE Exclusive'
  BY <1>17 DEF ClearError, Go
<1>18. ASSUME NEW h \in Background, Cycle(h) PROVE Exclusive'
  BY <1>18 DEF Cycle, Go
<1>19. ASSUME NEW h \in Requests, Request(h) PROVE Exclusive'
  BY <1>19 DEF Request, Go, Serve
<1>20. ASSUME NEW h \in Administrators, Edit(h) PROVE Exclusive'
  BY <1>20 DEF Edit, Go
<1>21. ASSUME NEW h \in Administrators, ManualRefresh(h) PROVE Exclusive'
  BY <1>21 DEF ManualRefresh, Go
<1>22. ASSUME NEW h \in Administrators, ApplyOAuthCredentials(h) PROVE Exclusive'
  BY <1>22 DEF ApplyOAuthCredentials, Go, Issue
<1>23. CASE Age
  BY <1>23 DEF Age
<1>24. CASE TokenExpires
  BY <1>24 DEF TokenExpires
<1>25. CASE LockExpires
  BY <1>25 DEF LockExpires
<1>26. ASSUME NEW p \in Processes, Crash(p) PROVE Exclusive'
  BY <1>26 DEF Crash
<1> QED
  BY ONLY Next, <1>1, <1>2, <1>3, <1>4, <1>5, <1>6, <1>7, <1>8, <1>9, <1>10, <1>11, <1>12, <1>13,
     <1>14, <1>15, <1>16, <1>17, <1>18, <1>19, <1>20, <1>21, <1>22, <1>23, <1>24, <1>25, <1>26
  DEF Next, GoOn, RefreshIfNeeded

\* The holder works with the newest credentials.
LEMMA CurrentStep ==
    TypeOK /\ Known /\ Calm /\ Calm' /\ Exclusive /\ Current /\ Next => Current'
<1> SUFFICES ASSUME TypeOK, Known, Calm, Calm', Exclusive, Current, Next PROVE Current'
  OBVIOUS
<1> USE HandlersAssumption, HandlersAreSubsets
    DEF TypeOK, Known, Calm, Unless, Exclusive, Current, UnderLock, Inside, Fault, NoFault,
        account, locks, local, mishaps
<1>1. ASSUME NEW h \in Handlers, LockMutex(h) PROVE Current'
  BY <1>1 DEF LockMutex, Go, End, Serve
<1>2. ASSUME NEW h \in Handlers, AcquireRefreshLock(h) PROVE Current'
  BY <1>2 DEF AcquireRefreshLock, Go, Return, Serve
<1>3. ASSUME NEW h \in Handlers, Reread(h) PROVE Current'
  BY <1>3 DEF Reread, Go, Return, Failed, Serve, Found
<1>4. ASSUME NEW h \in Handlers, Refresh(h) PROVE Current'
  BY <1>4, RefreshEffect DEF Issue
<1>5. ASSUME NEW h \in Handlers, Persist(h) PROVE Current'
  <2>1. pc[h] = "persist" /\ copy[h] = stored /\ new[h] = issued
        /\ \A x \in Handlers : x # h => pc[x] \notin UnderLock
    BY <1>5 DEF Persist
  <2>2. stored' = new[h] /\ issued' = issued
    BY <1>5, <2>1 DEF Persist, Persistable
  <2>3. \E to \in {"durable", "release"} : pc' = [pc EXCEPT ![h] = to]
    BY <1>5 DEF Persist, Go, Return, Failed
  <2>4. copy' = copy \/ copy' = [copy EXCEPT ![h] = 0]
    BY <1>5 DEF Persist, Return, Failed
  <2> QED
    BY <2>1, <2>2, <2>3, <2>4
<1>6. ASSUME NEW h \in Handlers, LoadDurable(h) PROVE Current'
  BY <1>6 DEF LoadDurable, Go, Return, Failed, Serve, Refreshed
<1>7. ASSUME NEW h \in Handlers, TryRecoverFromRefreshRace(h) PROVE Current'
  BY <1>7 DEF TryRecoverFromRefreshRace, Go, Return, Refused, Serve, Note
<1>8. ASSUME NEW h \in Handlers, Release(h) PROVE Current'
  BY <1>8 DEF Release, Go, End
<1>9. ASSUME NEW h \in Handlers, Wait(h) PROVE Current'
  BY <1>9 DEF Wait, Go, End
<1>10. ASSUME NEW h \in Handlers, CheckTokenVersion(h) PROVE Current'
  BY <1>10 DEF CheckTokenVersion, Go, End
<1>11. ASSUME NEW h \in Handlers, SetAccessToken(h) PROVE Current'
  BY <1>11 DEF SetAccessToken, Go, End
<1>12. ASSUME NEW h \in Handlers, MarkError(h) PROVE Current'
  BY <1>12 DEF MarkError, Go, End
<1>13. ASSUME NEW h \in Handlers, InvalidateToken(h) PROVE Current'
  BY <1>13 DEF InvalidateToken, Go, End
<1>14. ASSUME NEW h \in Handlers, Ask(h) PROVE Current'
  BY <1>14 DEF Ask, Go, End, Issue
<1>15. ASSUME NEW h \in Handlers, LoadAccount(h) PROVE Current'
  BY <1>15 DEF LoadAccount, Go
<1>16. ASSUME NEW h \in Handlers, SaveAccount(h) PROVE Current'
  BY <1>16 DEF SaveAccount, Go, End
<1>17. ASSUME NEW h \in Handlers, ClearError(h) PROVE Current'
  BY <1>17 DEF ClearError, Go
<1>18. ASSUME NEW h \in Background, Cycle(h) PROVE Current'
  BY <1>18 DEF Cycle, Go
<1>19. ASSUME NEW h \in Requests, Request(h) PROVE Current'
  BY <1>19 DEF Request, Go, Serve
<1>20. ASSUME NEW h \in Administrators, Edit(h) PROVE Current'
  BY <1>20 DEF Edit, Go
<1>21. ASSUME NEW h \in Administrators, ManualRefresh(h) PROVE Current'
  BY <1>21 DEF ManualRefresh, Go
<1>22. ASSUME NEW h \in Administrators, ApplyOAuthCredentials(h) PROVE Current'
  BY <1>22 DEF ApplyOAuthCredentials, Go, Issue
<1>23. CASE Age
  BY <1>23 DEF Age
<1>24. CASE TokenExpires
  BY <1>24 DEF TokenExpires
<1>25. CASE LockExpires
  BY <1>25 DEF LockExpires
<1>26. ASSUME NEW p \in Processes, Crash(p) PROVE Current'
  BY <1>26 DEF Crash
<1> QED
  BY ONLY Next, <1>1, <1>2, <1>3, <1>4, <1>5, <1>6, <1>7, <1>8, <1>9, <1>10, <1>11, <1>12, <1>13,
     <1>14, <1>15, <1>16, <1>17, <1>18, <1>19, <1>20, <1>21, <1>22, <1>23, <1>24, <1>25, <1>26
  DEF Next, GoOn, RefreshIfNeeded

\* The goroutine that refreshes gets credentials newer than those it has read.
LEMMA AheadStep == TypeOK /\ Known /\ Ahead /\ Next => Ahead'
<1> SUFFICES ASSUME TypeOK, Known, Ahead, Next PROVE Ahead'
  OBVIOUS
<1> USE HandlersAssumption, HandlersAreSubsets
    DEF TypeOK, Known, Ahead, Inside, account, locks, local, mishaps
<1>1. ASSUME NEW h \in Handlers, LockMutex(h) PROVE Ahead'
  BY <1>1 DEF LockMutex, Go, End, Serve
<1>2. ASSUME NEW h \in Handlers, AcquireRefreshLock(h) PROVE Ahead'
  BY <1>2 DEF AcquireRefreshLock, Go, Return, Serve
<1>3. ASSUME NEW h \in Handlers, Reread(h) PROVE Ahead'
  BY <1>3 DEF Reread, Go, Return, Failed, Serve, Found
<1>4. ASSUME NEW h \in Handlers, Refresh(h) PROVE Ahead'
  BY <1>4 DEF Refresh, Go, Return, Failed, Refused, Serve, Issue
<1>5. ASSUME NEW h \in Handlers, Persist(h) PROVE Ahead'
  BY <1>5 DEF Persist, Go, Return, Failed, Serve, Refreshed
<1>6. ASSUME NEW h \in Handlers, LoadDurable(h) PROVE Ahead'
  BY <1>6 DEF LoadDurable, Go, Return, Failed, Serve, Refreshed
<1>7. ASSUME NEW h \in Handlers, TryRecoverFromRefreshRace(h) PROVE Ahead'
  BY <1>7 DEF TryRecoverFromRefreshRace, Go, Return, Refused, Serve, Note
<1>8. ASSUME NEW h \in Handlers, Release(h) PROVE Ahead'
  BY <1>8 DEF Release, Go, End
<1>9. ASSUME NEW h \in Handlers, Wait(h) PROVE Ahead'
  BY <1>9 DEF Wait, Go, End
<1>10. ASSUME NEW h \in Handlers, CheckTokenVersion(h) PROVE Ahead'
  BY <1>10 DEF CheckTokenVersion, Go, End
<1>11. ASSUME NEW h \in Handlers, SetAccessToken(h) PROVE Ahead'
  BY <1>11 DEF SetAccessToken, Go, End
<1>12. ASSUME NEW h \in Handlers, MarkError(h) PROVE Ahead'
  BY <1>12 DEF MarkError, Go, End
<1>13. ASSUME NEW h \in Handlers, InvalidateToken(h) PROVE Ahead'
  BY <1>13 DEF InvalidateToken, Go, End
<1>14. ASSUME NEW h \in Handlers, Ask(h) PROVE Ahead'
  BY <1>14 DEF Ask, Go, End, Issue
<1>15. ASSUME NEW h \in Handlers, LoadAccount(h) PROVE Ahead'
  BY <1>15 DEF LoadAccount, Go
<1>16. ASSUME NEW h \in Handlers, SaveAccount(h) PROVE Ahead'
  BY <1>16 DEF SaveAccount, Go, End
<1>17. ASSUME NEW h \in Handlers, ClearError(h) PROVE Ahead'
  BY <1>17 DEF ClearError, Go
<1>18. ASSUME NEW h \in Background, Cycle(h) PROVE Ahead'
  BY <1>18 DEF Cycle, Go
<1>19. ASSUME NEW h \in Requests, Request(h) PROVE Ahead'
  BY <1>19 DEF Request, Go, Serve
<1>20. ASSUME NEW h \in Administrators, Edit(h) PROVE Ahead'
  BY <1>20 DEF Edit, Go
<1>21. ASSUME NEW h \in Administrators, ManualRefresh(h) PROVE Ahead'
  BY <1>21 DEF ManualRefresh, Go
<1>22. ASSUME NEW h \in Administrators, ApplyOAuthCredentials(h) PROVE Ahead'
  BY <1>22 DEF ApplyOAuthCredentials, Go, Issue
<1>23. CASE Age
  BY <1>23 DEF Age
<1>24. CASE TokenExpires
  BY <1>24 DEF TokenExpires
<1>25. CASE LockExpires
  BY <1>25 DEF LockExpires
<1>26. ASSUME NEW p \in Processes, Crash(p) PROVE Ahead'
  BY <1>26 DEF Crash
<1> QED
  BY ONLY Next, <1>1, <1>2, <1>3, <1>4, <1>5, <1>6, <1>7, <1>8, <1>9, <1>10, <1>11, <1>12, <1>13,
     <1>14, <1>15, <1>16, <1>17, <1>18, <1>19, <1>20, <1>21, <1>22, <1>23, <1>24, <1>25, <1>26
  DEF Next, GoOn, RefreshIfNeeded

\* Nobody refreshes while another has new credentials: his copy is not the
\* newest.
LEMMA SingleStep == TypeOK /\ Known /\ Single /\ Next => Single'
<1> SUFFICES ASSUME TypeOK, Known, Single, Next, Unless({"edit", "manual", "reauth"})'
             PROVE Single'
  BY DEF Single
<1> DEFINE Shown == \A x \in Handlers :
              /\ new[x] # 0 => new[x] = issued /\ stored < issued
              /\ copy[x] <= stored
              /\ \A y \in Handlers : new[x] # 0 /\ new[y] # 0 => y = x
              /\ pc[x] \notin {"ask", "load", "save", "clear"}
           Kept == /\ stored' = stored /\ issued' = issued
                   /\ \A x \in Handlers :
                         /\ new'[x] = 0 \/ new'[x] = new[x]
                         /\ copy'[x] <= stored
                         /\ pc'[x] \notin {"ask", "load", "save", "clear"}
<1>a. Shown
  BY NothingForgotten DEF Single, Unless
<1>b. ASSUME Kept PROVE Single'
  BY <1>a, <1>b DEF Single
<1> HIDE DEF Single
<1> USE <1>a, HandlersAssumption, HandlersAreSubsets
    DEF TypeOK, Unless, Inside, Tokens, Fault, NoFault, account, locks, local, mishaps
<1>1. ASSUME NEW h \in Handlers, LockMutex(h) PROVE Kept
  BY <1>1 DEF LockMutex, Go, End, Serve
<1>2. ASSUME NEW h \in Handlers, AcquireRefreshLock(h) PROVE Kept
  BY <1>2 DEF AcquireRefreshLock, Go, Return, Serve
<1>3. ASSUME NEW h \in Handlers, Reread(h) PROVE Kept
  BY <1>3 DEF Reread, Go, Return, Failed, Serve, Found
<1>4. ASSUME NEW h \in Handlers, Refresh(h) PROVE Single'
  BY <1>4 DEF Single, Refresh, Go, Return, Failed, Refused, Issue
<1>5. ASSUME NEW h \in Handlers, Persist(h) PROVE Single'
  <2>1. pc[h] = "persist" /\ new' = [new EXCEPT ![h] = 0]
    BY <1>5 DEF Persist, Return, Failed
  <2>2. copy' = copy \/ copy' = [copy EXCEPT ![h] = 0]
    BY <1>5 DEF Persist, Return, Failed
  <2>3. /\ \E to \in {"durable", "release"} : pc' = [pc EXCEPT ![h] = to]
        /\ issued' = issued
    BY <1>5 DEF Persist, Go, Return, Failed
  <2>4. stored' = stored \/ stored' = new[h]
    BY <1>5 DEF Persist
  <2>5. new[h] # 0
    BY <2>1, Known DEF Known
  <2>6. stored' >= stored /\ (\A x \in Handlers : new'[x] = 0)
    BY <2>1, <2>4, <2>5
  <2>7. \A x \in Handlers : copy'[x] <= stored' /\ pc'[x] \notin {"ask", "load", "save", "clear"}
    <3> SUFFICES ASSUME NEW x \in Handlers
                 PROVE copy'[x] <= stored' /\ pc'[x] \notin {"ask", "load", "save", "clear"}
      OBVIOUS
    <3>1. copy[x] <= stored /\ pc[x] \notin {"ask", "load", "save", "clear"}
      BY <1>a
    <3>2. copy'[x] \in {0, copy[x]} /\ copy[x] \in Nat /\ stored' \in Nat /\ stored \in Nat
      BY <2>2, <2>4
    <3>3. pc'[x] \in {pc[x], "durable", "release"}
      BY <2>3
    <3> QED
      BY ONLY <3>1, <3>2, <3>3, <2>6
  <2> QED
    BY ONLY <2>6, <2>7 DEF Single
<1>6. ASSUME NEW h \in Handlers, LoadDurable(h) PROVE Kept
  BY <1>6 DEF LoadDurable, Go, Return, Failed, Serve, Refreshed
<1>7. ASSUME NEW h \in Handlers, TryRecoverFromRefreshRace(h) PROVE Kept
  BY <1>7 DEF TryRecoverFromRefreshRace, Go, Return, Refused, Serve, Note
<1>8. ASSUME NEW h \in Handlers, Release(h) PROVE Kept
  BY <1>8 DEF Release, Go, End
<1>9. ASSUME NEW h \in Handlers, Wait(h) PROVE Kept
  BY <1>9 DEF Wait, Go, End
<1>10. ASSUME NEW h \in Handlers, CheckTokenVersion(h) PROVE Kept
  BY <1>10 DEF CheckTokenVersion, Go, End
<1>11. ASSUME NEW h \in Handlers, SetAccessToken(h) PROVE Kept
  BY <1>11 DEF SetAccessToken, Go, End
<1>12. ASSUME NEW h \in Handlers, MarkError(h) PROVE Kept
  BY <1>12 DEF MarkError, Go, End
<1>13. ASSUME NEW h \in Handlers, InvalidateToken(h) PROVE Kept
  BY <1>13 DEF InvalidateToken, Go, End
<1>14. ASSUME NEW h \in Handlers, Ask(h) PROVE Kept
  BY <1>14 DEF Ask, Go, End, Issue
<1>15. ASSUME NEW h \in Handlers, LoadAccount(h) PROVE Kept
  BY <1>15 DEF LoadAccount, Go
<1>16. ASSUME NEW h \in Handlers, SaveAccount(h) PROVE Kept
  BY <1>16 DEF SaveAccount, Go, End
<1>17. ASSUME NEW h \in Handlers, ClearError(h) PROVE Kept
  BY <1>17 DEF ClearError, Go
<1>18. ASSUME NEW h \in Background, Cycle(h) PROVE Kept
  BY <1>18 DEF Cycle, Go
<1>19. ASSUME NEW h \in Requests, Request(h) PROVE Kept
  BY <1>19 DEF Request, Go, Serve
<1>20. ASSUME NEW h \in Administrators, Edit(h) PROVE Kept
  BY <1>20 DEF Edit, Go
<1>21. ASSUME NEW h \in Administrators, ManualRefresh(h) PROVE Kept
  BY <1>21 DEF ManualRefresh, Go
<1>22. ASSUME NEW h \in Administrators, ApplyOAuthCredentials(h) PROVE Kept
  BY <1>22 DEF ApplyOAuthCredentials, Go, Issue
<1>23. ASSUME Age PROVE Kept
  BY <1>23 DEF Age
<1>24. ASSUME TokenExpires PROVE Kept
  BY <1>24 DEF TokenExpires
<1>25. ASSUME LockExpires PROVE Kept
  BY <1>25 DEF LockExpires
<1>26. ASSUME NEW p \in Processes, Crash(p) PROVE Kept
  BY <1>26 DEF Crash
<1> HIDE DEF Kept
<1> QED
  BY ONLY Next, <1>b, <1>1, <1>2, <1>3, <1>4, <1>5, <1>6, <1>7, <1>8, <1>9, <1>10, <1>11, <1>12, <1>13,
     <1>14, <1>15, <1>16, <1>17, <1>18, <1>19, <1>20, <1>21, <1>22, <1>23, <1>24, <1>25, <1>26
  DEF Next, GoOn, RefreshIfNeeded

\* What is refreshed is due.
LEMMA PromptStep == TypeOK /\ Known /\ Single /\ Prompt /\ Next => Prompt'
<1> SUFFICES ASSUME TypeOK, Known, Single, Prompt, Next, Unless({"edit", "manual", "reauth"})'
             PROVE Prompt'
  BY DEF Prompt
<1> DEFINE Shown == /\ stored <= due + 1
                    /\ \A x \in Handlers :
                          /\ pc[x] = "refresh" => copy[x] <= due
                          /\ new[x] <= due + 1
                          /\ pc[x] \notin {"ask", "load", "save", "clear"}
<1>a. Shown
  BY NothingForgotten DEF Single, Prompt, Unless
<1> USE <1>a, HandlersAssumption, HandlersAreSubsets
    DEF Prompt, TypeOK, Unless, Inside, Tokens, Fault, NoFault, account, locks, local, mishaps
<1>1. ASSUME NEW h \in Handlers, LockMutex(h) PROVE Prompt'
  BY <1>1 DEF LockMutex, Go, End, Serve
<1>2. ASSUME NEW h \in Handlers, AcquireRefreshLock(h) PROVE Prompt'
  BY <1>2 DEF AcquireRefreshLock, Go, Return, Serve
<1>3. ASSUME NEW h \in Handlers, Reread(h) PROVE Prompt'
  <2>1. UNCHANGED <<stored, due>> /\ new' \in {new, [new EXCEPT ![h] = 0]}
    BY <1>3 DEF Reread, Return, Failed
  <2>2. ASSUME NEW x \in Handlers, pc'[x] = "refresh" PROVE copy'[x] <= due
    <3>1. x # h => pc'[x] = pc[x] /\ copy'[x] = copy[x]
      BY <1>3 DEF Reread, Go, Return, Failed
    <3>2. x = h => stored <= due /\ copy'[x] = stored
      BY <1>3, <2>2 DEF Reread, Go, Return, Failed, RefreshedAlready, NeedsRefresh, Found
    <3> QED
      BY <2>2, <3>1, <3>2
  <2>3. \A x \in Handlers : new'[x] <= due + 1
    BY <2>1
  <2> QED
    BY <2>1, <2>2, <2>3
<1>4. ASSUME NEW h \in Handlers, Refresh(h) PROVE Prompt'
  BY <1>4 DEF Refresh, Go, Return, Failed, Refused, Serve, Issue
<1>5. ASSUME NEW h \in Handlers, Persist(h) PROVE Prompt'
  BY <1>5 DEF Persist, Go, Return, Failed, Serve, Refreshed
<1>6. ASSUME NEW h \in Handlers, LoadDurable(h) PROVE Prompt'
  BY <1>6 DEF LoadDurable, Go, Return, Failed, Serve, Refreshed
<1>7. ASSUME NEW h \in Handlers, TryRecoverFromRefreshRace(h) PROVE Prompt'
  BY <1>7 DEF TryRecoverFromRefreshRace, Go, Return, Refused, Serve, Note
<1>8. ASSUME NEW h \in Handlers, Release(h) PROVE Prompt'
  BY <1>8 DEF Release, Go, End
<1>9. ASSUME NEW h \in Handlers, Wait(h) PROVE Prompt'
  BY <1>9 DEF Wait, Go, End
<1>10. ASSUME NEW h \in Handlers, CheckTokenVersion(h) PROVE Prompt'
  BY <1>10 DEF CheckTokenVersion, Go, End
<1>11. ASSUME NEW h \in Handlers, SetAccessToken(h) PROVE Prompt'
  BY <1>11 DEF SetAccessToken, Go, End
<1>12. ASSUME NEW h \in Handlers, MarkError(h) PROVE Prompt'
  BY <1>12 DEF MarkError, Go, End
<1>13. ASSUME NEW h \in Handlers, InvalidateToken(h) PROVE Prompt'
  BY <1>13 DEF InvalidateToken, Go, End
<1>14. ASSUME NEW h \in Handlers, Ask(h) PROVE Prompt'
  BY <1>14 DEF Ask, Go, End, Issue
<1>15. ASSUME NEW h \in Handlers, LoadAccount(h) PROVE Prompt'
  BY <1>15 DEF LoadAccount, Go
<1>16. ASSUME NEW h \in Handlers, SaveAccount(h) PROVE Prompt'
  BY <1>16 DEF SaveAccount, Go, End
<1>17. ASSUME NEW h \in Handlers, ClearError(h) PROVE Prompt'
  BY <1>17 DEF ClearError, Go
<1>18. ASSUME NEW h \in Background, Cycle(h) PROVE Prompt'
  BY <1>18 DEF Cycle, Go
<1>19. ASSUME NEW h \in Requests, Request(h) PROVE Prompt'
  BY <1>19 DEF Request, Go, Serve
<1>20. ASSUME NEW h \in Administrators, Edit(h) PROVE Prompt'
  BY <1>20 DEF Edit, Go
<1>21. ASSUME NEW h \in Administrators, ManualRefresh(h) PROVE Prompt'
  BY <1>21 DEF ManualRefresh, Go
<1>22. ASSUME NEW h \in Administrators, ApplyOAuthCredentials(h) PROVE Prompt'
  BY <1>22 DEF ApplyOAuthCredentials, Go, Issue
<1>23. CASE Age
  BY <1>23 DEF Age
<1>24. CASE TokenExpires
  BY <1>24 DEF TokenExpires
<1>25. CASE LockExpires
  BY <1>25 DEF LockExpires
<1>26. ASSUME NEW p \in Processes, Crash(p) PROVE Prompt'
  BY <1>26 DEF Crash
<1> QED
  BY ONLY Next, <1>1, <1>2, <1>3, <1>4, <1>5, <1>6, <1>7, <1>8, <1>9, <1>10, <1>11, <1>12, <1>13,
     <1>14, <1>15, <1>16, <1>17, <1>18, <1>19, <1>20, <1>21, <1>22, <1>23, <1>24, <1>25, <1>26
  DEF Next, GoOn, RefreshIfNeeded

\* Credentials go from hand to row, and to nobody else.
LEMMA HandedStep == TypeOK /\ Known /\ Told /\ Told' /\ Handed /\ Next => Handed'
<1> SUFFICES ASSUME TypeOK, Known, Told, Told', Handed, Next PROVE Handed'
  OBVIOUS
<1> USE HandlersAssumption, HandlersAreSubsets
    DEF Handed, TypeOK, Told, Unless, Inside, Tokens, Fault, NoFault, account, locks, local,
        mishaps
<1>1. ASSUME NEW h \in Handlers, LockMutex(h) PROVE Handed'
  BY <1>1 DEF LockMutex, Go, End, Serve
<1>2. ASSUME NEW h \in Handlers, AcquireRefreshLock(h) PROVE Handed'
  BY <1>2 DEF AcquireRefreshLock, Go, Return, Serve
<1>3. ASSUME NEW h \in Handlers, Reread(h) PROVE Handed'
  BY <1>3 DEF Reread, Go, Return, Failed, Serve, Found
<1>4. ASSUME NEW h \in Handlers, Refresh(h) PROVE Handed'
  BY <1>4 DEF Refresh, Go, Return, Failed, Refused, Serve, Issue
<1>5. ASSUME NEW h \in Handlers, Persist(h) PROVE Handed'
  <2>1. pc[h] = "persist" /\ new[h] = issued /\ stored < issued
    BY <1>5, Known DEF Persist, Known
  <2>2. /\ new' = [new EXCEPT ![h] = 0]
        /\ copy' \in {copy, [copy EXCEPT ![h] = 0]}
        /\ \E to \in {"durable", "release"} : pc' = [pc EXCEPT ![h] = to]
        /\ issued' = issued
    BY <1>5 DEF Persist, Go, Return, Failed
  <2>3. /\ stored' \in {stored, issued}
        /\ \/ given' = given
           \/ given' = [given EXCEPT ![h] = stored']
           \/ given' = [given EXCEPT ![h] = given[h]]
    BY <1>5, <2>1 DEF Persist, Return, Failed
  <2>4. stored <= stored' /\ \A x \in Handlers : new'[x] = 0
    BY <2>1, <2>2, <2>3
  <2>5. ASSUME NEW x \in Handlers PROVE copy'[x] <= stored' /\ given'[x] <= stored'
    <3>1. copy'[x] \in {0, copy[x]} /\ given'[x] \in {given[x], stored'}
      BY <2>2, <2>3
    <3>2. copy[x] <= stored /\ given[x] <= stored /\ copy[x] \in Nat /\ given[x] \in Nat
          /\ stored \in Nat /\ stored' \in Nat
      BY <2>3
    <3> QED
      BY ONLY <3>1, <3>2, <2>4
  <2>6. ASSUME NEW x \in Handlers
        PROVE /\ pc'[x] \in {"ask", "load", "save"} => given'[x] # 0
              /\ pc'[x] \notin {"load", "save", "clear"}
    <3>1. x # h => given'[x] = given[x] /\ pc'[x] = pc[x]
      BY <2>2, <2>3
    <3>2. x # h => new[x] = 0
      BY <2>1
    <3>3. x = h => pc'[x] \in {"durable", "release"}
      BY <2>2
    <3> QED
      BY <3>1, <3>2, <3>3
  <2> QED
    BY ONLY <2>4, <2>5, <2>6 DEF Handed
<1>6. ASSUME NEW h \in Handlers, LoadDurable(h) PROVE Handed'
  BY <1>6 DEF LoadDurable, Go, Return, Failed, Serve, Refreshed
<1>7. ASSUME NEW h \in Handlers, TryRecoverFromRefreshRace(h) PROVE Handed'
  BY <1>7 DEF TryRecoverFromRefreshRace, Go, Return, Refused, Serve, Note
<1>8. ASSUME NEW h \in Handlers, Release(h) PROVE Handed'
  BY <1>8 DEF Release, Go, End
<1>9. ASSUME NEW h \in Handlers, Wait(h) PROVE Handed'
  BY <1>9 DEF Wait, Go, End
<1>10. ASSUME NEW h \in Handlers, CheckTokenVersion(h) PROVE Handed'
  BY <1>10 DEF CheckTokenVersion, Go, End
<1>11. ASSUME NEW h \in Handlers, SetAccessToken(h) PROVE Handed'
  BY <1>11 DEF SetAccessToken, Go, End
<1>12. ASSUME NEW h \in Handlers, MarkError(h) PROVE Handed'
  BY <1>12 DEF MarkError, Go, End
<1>13. ASSUME NEW h \in Handlers, InvalidateToken(h) PROVE Handed'
  BY <1>13 DEF InvalidateToken, Go, End
<1>14. ASSUME NEW h \in Handlers, Ask(h) PROVE Handed'
  BY <1>14 DEF Ask, Go, End, Issue
<1>15. ASSUME NEW h \in Handlers, LoadAccount(h) PROVE Handed'
  BY <1>15 DEF LoadAccount, Go
<1>16. ASSUME NEW h \in Handlers, SaveAccount(h) PROVE Handed'
  BY <1>16 DEF SaveAccount, Go, End
<1>17. ASSUME NEW h \in Handlers, ClearError(h) PROVE Handed'
  BY <1>17 DEF ClearError, Go
<1>18. ASSUME NEW h \in Background, Cycle(h) PROVE Handed'
  BY <1>18 DEF Cycle, Go
<1>19. ASSUME NEW h \in Requests, Request(h) PROVE Handed'
  BY <1>19 DEF Request, Go, Serve
<1>20. ASSUME NEW h \in Administrators, Edit(h) PROVE Handed'
  BY <1>20 DEF Edit, Go
<1>21. ASSUME NEW h \in Administrators, ManualRefresh(h) PROVE Handed'
  BY <1>21 DEF ManualRefresh, Go
<1>22. ASSUME NEW h \in Administrators, ApplyOAuthCredentials(h) PROVE Handed'
  BY <1>22 DEF ApplyOAuthCredentials, Go, Issue
<1>23. CASE Age
  BY <1>23 DEF Age
<1>24. CASE TokenExpires
  BY <1>24 DEF TokenExpires
<1>25. CASE LockExpires
  BY <1>25 DEF LockExpires
<1>26. ASSUME NEW p \in Processes, Crash(p) PROVE Handed'
  BY <1>26 DEF Crash
<1> QED
  BY ONLY Next, <1>1, <1>2, <1>3, <1>4, <1>5, <1>6, <1>7, <1>8, <1>9, <1>10, <1>11, <1>12, <1>13,
     <1>14, <1>15, <1>16, <1>17, <1>18, <1>19, <1>20, <1>21, <1>22, <1>23, <1>24, <1>25, <1>26
  DEF Next, GoOn, RefreshIfNeeded

\* Who looks after a refusal finds the winner's credentials in the row, or
\* nobody has any.
LEMMA HopelessStep ==
    TypeOK /\ Known /\ Told /\ Told' /\ Handed /\ Hopeless /\ Next => Hopeless'
<1> SUFFICES ASSUME TypeOK, Known, Told, Told', Handed, Hopeless, Next PROVE Hopeless'
  OBVIOUS
<1> USE HandlersAssumption, HandlersAreSubsets
    DEF Hopeless, Lost, Handed, TypeOK, Told, Unless, Inside, Tokens, Fault, NoFault, account,
        locks, local, mishaps
<1>1. ASSUME NEW h \in Handlers, LockMutex(h) PROVE Hopeless'
  BY <1>1 DEF LockMutex, Go, End, Serve
<1>2. ASSUME NEW h \in Handlers, AcquireRefreshLock(h) PROVE Hopeless'
  BY <1>2 DEF AcquireRefreshLock, Go, Return, Serve
<1>3. ASSUME NEW h \in Handlers, Reread(h) PROVE Hopeless'
  BY <1>3 DEF Reread, Go, Return, Failed, Serve, Found
<1>4. ASSUME NEW h \in Handlers, Refresh(h) PROVE Hopeless'
  BY <1>4, RefreshEffect DEF Issue
<1>5. ASSUME NEW h \in Handlers, Persist(h) PROVE Hopeless'
  BY <1>5 DEF Persist, Go, Return, Failed, Serve, Refreshed
<1>6. ASSUME NEW h \in Handlers, LoadDurable(h) PROVE Hopeless'
  BY <1>6 DEF LoadDurable, Go, Return, Failed, Serve, Refreshed
<1>7. ASSUME NEW h \in Handlers, TryRecoverFromRefreshRace(h) PROVE Hopeless'
  <2>1. /\ pc[h] = "recover" /\ UNCHANGED <<status, stored, issued>>
        /\ copy' = [copy EXCEPT ![h] = 0] /\ new' = [new EXCEPT ![h] = 0]
        /\ pc' = [pc EXCEPT ![h] = "release"] /\ was' = was
    BY <1>7 DEF TryRecoverFromRefreshRace, Go, Return, Refused
  <2>2. Lost => Lost'
    BY <2>1
  <2>3. /\ \A x \in Handlers : x # h => then'[x] = then[x]
        /\ then'[h] = "mark" => stored = copy[h] /\ ~ Overtaken(h)
    <3>1. CASE Recovered(h) /\ Return(h, Serve(h), stored)
      BY <3>1 DEF Return, Serve
    <3>2. CASE /\ ~ Recovered(h) /\ Refused(h)
               /\ IF Overtaken(h) THEN Note("overtaken") ELSE NoFault
      BY <3>2 DEF Recovered, Refused, Return, Note
    <3>3. CASE Fault("unread")
      BY <3>3
    <3> QED
      BY <1>7, <3>1, <3>2, <3>3 DEF TryRecoverFromRefreshRace
  <2>4. then'[h] = "mark" => Lost'
    BY <2>1, <2>3 DEF Overtaken
  <2>5. ASSUME NEW x \in Handlers
        PROVE /\ pc'[x] = "recover" => copy'[x] # issued'
              /\ pc'[x] = "mark" \/ then'[x] = "mark" => Lost'
              /\ pc'[x] = "save" => was'[x] = "active"
    BY <2>1, <2>2, <2>3, <2>4
  <2>6. status' = "error" => Lost'
    BY <2>1, <2>2
  <2> QED
    BY ONLY <2>5, <2>6 DEF Hopeless
<1>8. ASSUME NEW h \in Handlers, Release(h) PROVE Hopeless'
  BY <1>8 DEF Release, Go, End
<1>9. ASSUME NEW h \in Handlers, Wait(h) PROVE Hopeless'
  BY <1>9 DEF Wait, Go, End
<1>10. ASSUME NEW h \in Handlers, CheckTokenVersion(h) PROVE Hopeless'
  BY <1>10 DEF CheckTokenVersion, Go, End
<1>11. ASSUME NEW h \in Handlers, SetAccessToken(h) PROVE Hopeless'
  BY <1>11 DEF SetAccessToken, Go, End
<1>12. ASSUME NEW h \in Handlers, MarkError(h) PROVE Hopeless'
  BY <1>12 DEF MarkError, Go, End
<1>13. ASSUME NEW h \in Handlers, InvalidateToken(h) PROVE Hopeless'
  BY <1>13 DEF InvalidateToken, Go, End
<1>14. ASSUME NEW h \in Handlers, Ask(h) PROVE Hopeless'
  BY <1>14 DEF Ask, Go, End, Issue
<1>15. ASSUME NEW h \in Handlers, LoadAccount(h) PROVE Hopeless'
  BY <1>15 DEF LoadAccount, Go
<1>16. ASSUME NEW h \in Handlers, SaveAccount(h) PROVE Hopeless'
  BY <1>16 DEF SaveAccount, Go, End
<1>17. ASSUME NEW h \in Handlers, ClearError(h) PROVE Hopeless'
  BY <1>17 DEF ClearError, Go
<1>18. ASSUME NEW h \in Background, Cycle(h) PROVE Hopeless'
  BY <1>18 DEF Cycle, Go
<1>19. ASSUME NEW h \in Requests, Request(h) PROVE Hopeless'
  BY <1>19 DEF Request, Go, Serve
<1>20. ASSUME NEW h \in Administrators, Edit(h) PROVE Hopeless'
  BY <1>20 DEF Edit, Go
<1>21. ASSUME NEW h \in Administrators, ManualRefresh(h) PROVE Hopeless'
  BY <1>21 DEF ManualRefresh, Go
<1>22. ASSUME NEW h \in Administrators, ApplyOAuthCredentials(h) PROVE Hopeless'
  BY <1>22 DEF ApplyOAuthCredentials, Go, Issue
<1>23. CASE Age
  BY <1>23 DEF Age
<1>24. CASE TokenExpires
  BY <1>24 DEF TokenExpires
<1>25. CASE LockExpires
  BY <1>25 DEF LockExpires
<1>26. ASSUME NEW p \in Processes, Crash(p) PROVE Hopeless'
  BY <1>26 DEF Crash
<1> QED
  BY ONLY Next, <1>1, <1>2, <1>3, <1>4, <1>5, <1>6, <1>7, <1>8, <1>9, <1>10, <1>11, <1>12, <1>13,
     <1>14, <1>15, <1>16, <1>17, <1>18, <1>19, <1>20, <1>21, <1>22, <1>23, <1>24, <1>25, <1>26
  DEF Next, GoOn, RefreshIfNeeded

\* Under the lock nobody but the holder writes the row.
LEMMA SettledStep ==
    TypeOK /\ Known /\ Watched /\ Watched' /\ Exclusive /\ Single /\ Settled /\ Next => Settled'
<1> SUFFICES ASSUME TypeOK, Known, Watched, Watched', Exclusive, Single, Settled, Next
             PROVE Settled'
  OBVIOUS
<1> USE HandlersAssumption, HandlersAreSubsets
    DEF Settled, Single, Exclusive, UnderLock, TypeOK, Known, Watched, Unless, Inside, Tokens, Fault, NoFault, account,
        locks, local, mishaps
<1>1. ASSUME NEW h \in Handlers, LockMutex(h) PROVE Settled'
  BY <1>1 DEF LockMutex, Go, End, Serve
<1>2. ASSUME NEW h \in Handlers, AcquireRefreshLock(h) PROVE Settled'
  BY <1>2 DEF AcquireRefreshLock, Go, Return, Serve
<1>3. ASSUME NEW h \in Handlers, Reread(h) PROVE Settled'
  BY <1>3 DEF Reread, Go, Return, Failed, Serve, Found
<1>4. ASSUME NEW h \in Handlers, Refresh(h) PROVE Settled'
  BY <1>4 DEF Refresh, Go, Return, Failed, Refused, Serve, Issue
<1>5. ASSUME NEW h \in Handlers, Persist(h) PROVE Settled'
  BY <1>5 DEF Persist, Go, Return, Failed, Serve, Refreshed
<1>6. ASSUME NEW h \in Handlers, LoadDurable(h) PROVE Settled'
  BY <1>6 DEF LoadDurable, Go, Return, Failed, Serve, Refreshed
<1>7. ASSUME NEW h \in Handlers, TryRecoverFromRefreshRace(h) PROVE Settled'
  BY <1>7 DEF TryRecoverFromRefreshRace, Go, Return, Refused, Serve, Note
<1>8. ASSUME NEW h \in Handlers, Release(h) PROVE Settled'
  BY <1>8 DEF Release, Go, End
<1>9. ASSUME NEW h \in Handlers, Wait(h) PROVE Settled'
  BY <1>9 DEF Wait, Go, End
<1>10. ASSUME NEW h \in Handlers, CheckTokenVersion(h) PROVE Settled'
  BY <1>10 DEF CheckTokenVersion, Go, End
<1>11. ASSUME NEW h \in Handlers, SetAccessToken(h) PROVE Settled'
  BY <1>11 DEF SetAccessToken, Go, End
<1>12. ASSUME NEW h \in Handlers, MarkError(h) PROVE Settled'
  BY <1>12 DEF MarkError, Go, End
<1>13. ASSUME NEW h \in Handlers, InvalidateToken(h) PROVE Settled'
  BY <1>13 DEF InvalidateToken, Go, End
<1>14. ASSUME NEW h \in Handlers, Ask(h) PROVE Settled'
  BY <1>14 DEF Ask, Go, End, Issue
<1>15. ASSUME NEW h \in Handlers, LoadAccount(h) PROVE Settled'
  BY <1>15 DEF LoadAccount, Go
<1>16. ASSUME NEW h \in Handlers, SaveAccount(h) PROVE Settled'
  BY <1>16 DEF SaveAccount, Go, End
<1>17. ASSUME NEW h \in Handlers, ClearError(h) PROVE Settled'
  BY <1>17 DEF ClearError, Go
<1>18. ASSUME NEW h \in Background, Cycle(h) PROVE Settled'
  BY <1>18 DEF Cycle, Go
<1>19. ASSUME NEW h \in Requests, Request(h) PROVE Settled'
  BY <1>19 DEF Request, Go, Serve
<1>20. ASSUME NEW h \in Administrators, Edit(h) PROVE Settled'
  BY <1>20 DEF Edit, Go
<1>21. ASSUME NEW h \in Administrators, ManualRefresh(h) PROVE Settled'
  BY <1>21 DEF ManualRefresh, Go
<1>22. ASSUME NEW h \in Administrators, ApplyOAuthCredentials(h) PROVE Settled'
  BY <1>22 DEF ApplyOAuthCredentials, Go, Issue
<1>23. CASE Age
  BY <1>23 DEF Age
<1>24. CASE TokenExpires
  BY <1>24 DEF TokenExpires
<1>25. CASE LockExpires
  BY <1>25 DEF LockExpires
<1>26. ASSUME NEW p \in Processes, Crash(p) PROVE Settled'
  BY <1>26 DEF Crash
<1> QED
  BY ONLY Next, <1>1, <1>2, <1>3, <1>4, <1>5, <1>6, <1>7, <1>8, <1>9, <1>10, <1>11, <1>12, <1>13,
     <1>14, <1>15, <1>16, <1>17, <1>18, <1>19, <1>20, <1>21, <1>22, <1>23, <1>24, <1>25, <1>26
  DEF Next, GoOn, RefreshIfNeeded

\* Under the lock nobody has newer credentials than the row when it is refused.
LEMMA WatchedStep ==
    TypeOK /\ Known /\ Watched /\ Watched' /\ Exclusive /\ Single /\ Settled /\ Hopeless /\ Next
        => Hopeless'
<1> SUFFICES ASSUME TypeOK, Known, Watched, Watched', Exclusive, Single, Settled, Hopeless, Next
             PROVE Hopeless'
  OBVIOUS
<1> USE HandlersAssumption, HandlersAreSubsets
    DEF Hopeless, Lost, Single, Settled, Exclusive, UnderLock, TypeOK, Known, Watched, Unless, Inside, Tokens, Fault, NoFault, account,
        locks, local, mishaps
<1>1. ASSUME NEW h \in Handlers, LockMutex(h) PROVE Hopeless'
  BY <1>1 DEF LockMutex, Go, End, Serve
<1>2. ASSUME NEW h \in Handlers, AcquireRefreshLock(h) PROVE Hopeless'
  BY <1>2 DEF AcquireRefreshLock, Go, Return, Serve
<1>3. ASSUME NEW h \in Handlers, Reread(h) PROVE Hopeless'
  BY <1>3 DEF Reread, Go, Return, Failed, Serve, Found
<1>4. ASSUME NEW h \in Handlers, Refresh(h) PROVE Hopeless'
  BY <1>4 DEF Refresh, Go, Return, Failed, Refused, Serve, Issue
<1>5. ASSUME NEW h \in Handlers, Persist(h) PROVE Hopeless'
  BY <1>5 DEF Persist, Go, Return, Failed, Serve, Refreshed
<1>6. ASSUME NEW h \in Handlers, LoadDurable(h) PROVE Hopeless'
  BY <1>6 DEF LoadDurable, Go, Return, Failed, Serve, Refreshed
<1>7. ASSUME NEW h \in Handlers, TryRecoverFromRefreshRace(h) PROVE Hopeless'
  <2>1. /\ pc[h] = "recover" /\ UNCHANGED <<status, stored, issued>>
        /\ copy' = [copy EXCEPT ![h] = 0] /\ new' = [new EXCEPT ![h] = 0]
        /\ pc' = [pc EXCEPT ![h] = "release"] /\ was' = was
    BY <1>7 DEF TryRecoverFromRefreshRace, Go, Return, Refused
  <2>2. Lost => Lost'
    BY <2>1
  <2>3. \A x \in Handlers : x # h => then'[x] = then[x]
    BY <1>7 DEF TryRecoverFromRefreshRace, Return, Refused
  <2>4. then'[h] = "mark" => Lost'
    BY <2>1
  <2>5. ASSUME NEW x \in Handlers
        PROVE /\ pc'[x] = "recover" => copy'[x] # issued'
              /\ pc'[x] = "mark" \/ then'[x] = "mark" => Lost'
              /\ pc'[x] = "save" => was'[x] = "active"
    BY <2>1, <2>2, <2>3, <2>4
  <2>6. status' = "error" => Lost'
    BY <2>1, <2>2
  <2> QED
    BY ONLY <2>5, <2>6 DEF Hopeless
<1>8. ASSUME NEW h \in Handlers, Release(h) PROVE Hopeless'
  BY <1>8 DEF Release, Go, End
<1>9. ASSUME NEW h \in Handlers, Wait(h) PROVE Hopeless'
  BY <1>9 DEF Wait, Go, End
<1>10. ASSUME NEW h \in Handlers, CheckTokenVersion(h) PROVE Hopeless'
  BY <1>10 DEF CheckTokenVersion, Go, End
<1>11. ASSUME NEW h \in Handlers, SetAccessToken(h) PROVE Hopeless'
  BY <1>11 DEF SetAccessToken, Go, End
<1>12. ASSUME NEW h \in Handlers, MarkError(h) PROVE Hopeless'
  BY <1>12 DEF MarkError, Go, End
<1>13. ASSUME NEW h \in Handlers, InvalidateToken(h) PROVE Hopeless'
  BY <1>13 DEF InvalidateToken, Go, End
<1>14. ASSUME NEW h \in Handlers, Ask(h) PROVE Hopeless'
  BY <1>14 DEF Ask, Go, End, Issue
<1>15. ASSUME NEW h \in Handlers, LoadAccount(h) PROVE Hopeless'
  BY <1>15 DEF LoadAccount, Go
<1>16. ASSUME NEW h \in Handlers, SaveAccount(h) PROVE Hopeless'
  BY <1>16 DEF SaveAccount, Go, End
<1>17. ASSUME NEW h \in Handlers, ClearError(h) PROVE Hopeless'
  BY <1>17 DEF ClearError, Go
<1>18. ASSUME NEW h \in Background, Cycle(h) PROVE Hopeless'
  BY <1>18 DEF Cycle, Go
<1>19. ASSUME NEW h \in Requests, Request(h) PROVE Hopeless'
  BY <1>19 DEF Request, Go, Serve
<1>20. ASSUME NEW h \in Administrators, Edit(h) PROVE Hopeless'
  BY <1>20 DEF Edit, Go
<1>21. ASSUME NEW h \in Administrators, ManualRefresh(h) PROVE Hopeless'
  BY <1>21 DEF ManualRefresh, Go
<1>22. ASSUME NEW h \in Administrators, ApplyOAuthCredentials(h) PROVE Hopeless'
  BY <1>22 DEF ApplyOAuthCredentials, Go, Issue
<1>23. CASE Age
  BY <1>23 DEF Age
<1>24. CASE TokenExpires
  BY <1>24 DEF TokenExpires
<1>25. CASE LockExpires
  BY <1>25 DEF LockExpires
<1>26. ASSUME NEW p \in Processes, Crash(p) PROVE Hopeless'
  BY <1>26 DEF Crash
<1> QED
  BY ONLY Next, <1>1, <1>2, <1>3, <1>4, <1>5, <1>6, <1>7, <1>8, <1>9, <1>10, <1>11, <1>12, <1>13,
     <1>14, <1>15, <1>16, <1>17, <1>18, <1>19, <1>20, <1>21, <1>22, <1>23, <1>24, <1>25, <1>26
  DEF Next, GoOn, RefreshIfNeeded

-----------------------------------------------------------------------------
LEMMA InitInv == Init => IInv
BY HandlersAssumption, BoundsAssumption
   DEF Init, IInv, TypeOK, Known, Firm, Calm, Exclusive, Current, UnderLock, Tokens, PCs, Inside

LEMMA NextInv == IInv /\ [Next]_vars => IInv'
<1> SUFFICES ASSUME IInv, [Next]_vars PROVE IInv'
  OBVIOUS
<1>1. CASE Next
  <2>1. TypeOK' /\ Known'
    BY ONLY IInv, <1>1, TypeStep DEF IInv
  <2>2. ASSUME Firm' PROVE Exclusive'
    <3>1. Firm
      BY <1>1, <2>2, NothingForgotten DEF Firm, Unless
    <3> QED
      BY ONLY IInv, <1>1, <2>2, <3>1, ExclusiveStep DEF IInv
  <2>3. ASSUME Calm' PROVE Current'
    <3>1. Calm /\ Firm
      BY <1>1, <2>3, NothingForgotten DEF Calm, Firm, Unless
    <3> QED
      BY ONLY IInv, <1>1, <2>3, <3>1, CurrentStep DEF IInv
  <2> QED
    BY ONLY <2>1, <2>2, <2>3 DEF IInv
<1>2. CASE UNCHANGED vars
  BY <1>2 DEF vars, account, locks, local, mishaps, IInv, TypeOK, Known, Calm, Firm, Unless,
              Exclusive, Current
<1> QED
  BY <1>1, <1>2

LEMMA Invariance == Spec => []IInv
<1>1. IInv /\ [Next]_vars => IInv'
  BY NextInv
<1> QED
  BY <1>1, InitInv, PTL DEF Spec

LEMMA SingleAhead == Spec => [](Single /\ Ahead)
<1>1. Init => Single /\ Ahead
  BY DEF Init, Single, Ahead
<1>2. IInv /\ Single /\ Ahead /\ [Next]_vars => (Single /\ Ahead)'
  <2>1. CASE Next
    BY <2>1, SingleStep, AheadStep DEF IInv
  <2>2. CASE UNCHANGED vars
    BY <2>2 DEF vars, account, locks, local, mishaps, Single, Ahead, Unless
  <2> QED
    BY <2>1, <2>2
<1> QED
  BY <1>1, <1>2, Invariance, PTL DEF Spec

LEMMA PromptVerdict == Spec => [](Prompt /\ Verdict)
<1>1. Init => Prompt /\ Verdict
  BY DEF Init, Prompt, Verdict, Handed, Settled, Hopeless, Lost
<1>2. IInv /\ Single /\ Prompt /\ Verdict /\ [Next]_vars => (Prompt /\ Verdict)'
  <2> SUFFICES ASSUME IInv, Single, Prompt, Verdict, [Next]_vars PROVE (Prompt /\ Verdict)'
    OBVIOUS
  <2>1. CASE Next
    <3>1. (Told' => Told) /\ (Watched' => Watched) /\ (Watched => Firm)
      BY <2>1, NothingForgotten DEF Told, Watched, Firm, Unless
    <3>2. TypeOK /\ Known /\ (Firm => Exclusive)
      BY DEF IInv
    <3>3. Prompt'
      BY ONLY <2>1, <3>2, Single, Prompt, PromptStep
    <3>4. Told' => Handed' /\ Hopeless'
      BY ONLY <2>1, <3>1, <3>2, Verdict, HandedStep, HopelessStep DEF Verdict
    <3>5. Watched' => Settled' /\ Hopeless'
      BY ONLY <2>1, <3>1, <3>2, Single, Verdict, SettledStep, WatchedStep DEF Verdict
    <3> QED
      BY ONLY <3>3, <3>4, <3>5 DEF Verdict
  <2>2. CASE UNCHANGED vars
    BY <2>2 DEF vars, account, locks, local, mishaps, Prompt, Verdict, Told, Watched,
                Handed, Settled, Hopeless, Lost, Unless
  <2> QED
    BY <2>1, <2>2
<1>3. Spec => [](Single)
  BY SingleAhead, PTL
<1> QED
  BY <1>1, <1>2, <1>3, Invariance, PTL DEF Spec

\* Every variable keeps its type: in particular the credentials in the row have
\* been issued, and a goroutine that releases the lock is still inside
\* RefreshIfNeeded.
THEOREM TypeCorrect == Spec => []TypeOK
<1>1. IInv => TypeOK
  BY DEF IInv
<1> QED
  BY <1>1, Invariance, PTL

\* RefreshIfNeeded presents no refresh token a second time unless new
\* credentials were lost, the lock did not hold or an administrator stepped in:
\* the holder's copy is that of the row, and no one else has newer credentials
\* in hand, since that would be under the lock, too.
THEOREM NoReuseTheorem == Spec => []NoReuse
<1>1. IInv => NoReuse
  BY DEF IInv, NoReuse, Calm, Firm, Unless, Exclusive, Current, UnderLock
<1> QED
  BY <1>1, Invariance, PTL

\* An account is put into error only if its refresh token is dead or the
\* provider has denied the account.  When the lock holds, whatever else fails:
\* who is refused has the credentials of the row, and nobody has newer ones.
\* When locks expire and refreshes are made by hand: who finds the row as it was
\* when the provider refused it, and nobody with newer credentials, stands before
\* credentials that are lost for good.
THEOREM ErrorMeansDeadTheorem == Spec => []ErrorMeansDead
<1>1. Verdict => ErrorMeansDead
  BY DEF Verdict, Told, Watched, Unless, Hopeless, Lost, ErrorMeansDead
<1> QED
  BY <1>1, PromptVerdict, PTL

\* No access token in Redis outlives its rotation: credentials are refreshed
\* only when they are due, so that all but the newest of the row are.
THEOREM StaleTokenTheorem == Spec => []StaleTokenIsDue
<1>1. TypeOK /\ Prompt => StaleTokenIsDue
  BY DEF TypeOK, Tokens, Prompt, StaleTokenIsDue, NeedsRefresh
<1>2. IInv => TypeOK
  BY DEF IInv
<1> QED
  BY <1>1, <1>2, Invariance, PromptVerdict, PTL

\* Only an administrator's step brings older credentials back: for Grok a
\* refresh writes only over the credentials it started from, and else, unless
\* the administrator stepped in before, there is one refresh at a time that
\* succeeds, even when the lock does not hold.
THEOREM StoredNeverRegressesTheorem == Spec => StoredNeverRegresses
<1> DEFINE Forward == \/ stored' >= stored
                      \/ \E h \in Administrators : pc[h] = "save" /\ pc'[h] # "save"
                      \/ ~ Unless({"edit", "manual"} \cup (IF Grok THEN {} ELSE {"reauth"}))
<1>1. TypeOK /\ Known /\ Single /\ Ahead /\ Next => Forward
  <2> SUFFICES ASSUME TypeOK, Known, Single, Ahead, Next PROVE Forward
    OBVIOUS
  <2>1. ASSUME NEW h \in Handlers, Persist(h) PROVE Forward
    BY <2>1 DEF Persist, Persistable, TypeOK, Single, Ahead, Tokens, Unless, Grok, Inside
  <2>2. ASSUME NEW h \in Handlers, SaveAccount(h) PROVE Forward
    <3>1. h \in Administrators /\ pc[h] = "save"
      BY <2>2 DEF SaveAccount, Ahead
    <3>2. pc'[h] # "save"
      BY <2>2 DEF SaveAccount, Go, End, TypeOK
    <3> QED
      BY ONLY <3>1, <3>2
  <2>3. stored' = stored => Forward
    BY DEF TypeOK, Tokens
  <2>4. ASSUME NEW h \in Handlers,
               \/ LockMutex(h) \/ AcquireRefreshLock(h) \/ Reread(h) \/ Refresh(h)
               \/ LoadDurable(h) \/ TryRecoverFromRefreshRace(h) \/ Release(h)
        PROVE stored' = stored
    BY <2>4 DEF LockMutex, AcquireRefreshLock, Reread, Refresh, LoadDurable,
                TryRecoverFromRefreshRace, Release, account
  <2>5. ASSUME NEW h \in Handlers,
               \/ Wait(h) \/ CheckTokenVersion(h) \/ SetAccessToken(h) \/ MarkError(h)
               \/ InvalidateToken(h) \/ Ask(h) \/ LoadAccount(h) \/ ClearError(h)
        PROVE stored' = stored
    BY <2>5 DEF Wait, CheckTokenVersion, SetAccessToken, MarkError, InvalidateToken, Ask,
                LoadAccount, ClearError, account
  <2>6. ASSUME NEW h \in Handlers,
               \/ Cycle(h) \/ Request(h) \/ Edit(h) \/ ManualRefresh(h)
               \/ ApplyOAuthCredentials(h)
        PROVE stored' = stored
    BY <2>6 DEF Cycle, Request, Edit, ManualRefresh, ApplyOAuthCredentials, account
  <2>7. CASE Age \/ TokenExpires \/ LockExpires \/ \E p \in Processes : Crash(p)
    <3>1. stored' = stored
      BY <2>7 DEF Age, TokenExpires, LockExpires, Crash, account
    <3> QED
      BY ONLY <3>1, <2>3
  <2> HIDE DEF Forward
  <2> QED
    BY ONLY Next, HandlersAreSubsets, <2>1, <2>2, <2>3, <2>4, <2>5, <2>6, <2>7
    DEF Next, GoOn, RefreshIfNeeded
<1>2. TypeOK /\ UNCHANGED vars => Forward
  <2> SUFFICES ASSUME TypeOK, UNCHANGED vars PROVE stored' >= stored
    OBVIOUS
  <2> QED
    BY DEF vars, account, TypeOK, Tokens
<1>3. IInv => TypeOK /\ Known
  BY DEF IInv
<1> QED
  BY <1>1, <1>2, <1>3, Invariance, SingleAhead, PTL DEF Spec, StoredNeverRegresses

=============================================================================
