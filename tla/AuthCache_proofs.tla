-------------------------- MODULE AuthCache_proofs --------------------------
(***************************************************************************)
(* Proofs about the authentication cache, for any processes, requests,     *)
(* changes and faults: a stale entry always has an invalidation under way. *)
(***************************************************************************)
EXTENDS AuthCache, TLAPS

\* Only rows that are due are claimed.
ClaimsAreDue == \A e \in Rows : claim[e] # None => stage[e] \in {"first", "second"}

\* A stale entry that is on its way to the caches was read before the first
\* pass of some row ended, and the second pass waits for it.
LateFill(r) ==
    \E e \in Rows : stage[e] = "first" \/ (stage[e] = "delayed" /\ r \in waits[e])

FillsAreAwaited ==
    "slowFill" \notin happened =>
        \A r \in Requests :
            held[r] = "stale" /\ pc[r] \in {"fillL1", "fillL2"} => LateFill(r)

\* Row e still has a deletion in Redis before it.
WillDelete(e) ==
    \/ stage[e] \in {"first", "delayed"}
    \/ /\ stage[e] = "second"
       /\ claim[e] # None =>
            ~ (row[claim[e]] = e /\ wpc[claim[e]] \in {"publish", "settle"})

L2IsDeleted ==
    "slowFill" \notin happened => (l2 = "stale" => \E e \in Rows : WillDelete(e))

IInv == TypeOK /\ ClaimsAreDue /\ FillsAreAwaited

-----------------------------------------------------------------------------
\* What a worker does to the requests a row waits for.
LEMMA WorkWaits ==
    ASSUME NEW i \in Instances, Work(i)
    PROVE  \/ waits' = waits
           \/ waits' = [waits EXCEPT ![row[i]] = {r \in Requests : held[r] # "none"}]
<1>1. CASE Settle(i)
  BY ONLY <1>1 DEF Settle
<1>2. CASE Claim(i) \/ InvalidateLocal(i) \/ DeleteAuthCache(i) \/ Publish(i) \/ RetryClaimed(i)
  BY ONLY <1>2 DEF Claim, InvalidateLocal, DeleteAuthCache, Publish, RetryClaimed, outbox
<1> QED
  BY ONLY Work(i), <1>1, <1>2 DEF Work

\* What a worker does to its row.
LEMMA WorkRow ==
    ASSUME NEW i \in Instances, Work(i), row \in [Instances -> 0 .. MaxChanges]
    PROVE  row' = row \/ \E v \in 0 .. MaxChanges : row' = [row EXCEPT ![i] = v]
<1>1. CASE Claim(i)
  <2>1. PICK e \in Rows : row' = [row EXCEPT ![i] = e]
    BY ONLY <1>1 DEF Claim
  <2>2. e \in 0 .. MaxChanges
    BY ONLY CacheAssumption DEF CacheAssumption, Rows
  <2> QED
    BY ONLY <2>1, <2>2
<1>2. CASE InvalidateLocal(i) \/ DeleteAuthCache(i) \/ Publish(i)
  <2>1. row' = [row EXCEPT ![i] = row[i]]
    BY ONLY <1>2 DEF InvalidateLocal, DeleteAuthCache, Publish, WorkerGo
  <2> QED
    BY ONLY <2>1, row \in [Instances -> 0 .. MaxChanges]
<1>3. CASE Settle(i) \/ RetryClaimed(i)
  <2>1. row' = [row EXCEPT ![i] = 0]
    BY ONLY <1>3 DEF Settle, RetryClaimed, WorkerGo
  <2>2. 0 \in 0 .. MaxChanges
    BY ONLY CacheAssumption DEF CacheAssumption
  <2> QED
    BY ONLY <2>1, <2>2
<1> QED
  BY ONLY Work(i), <1>1, <1>2, <1>3 DEF Work

-----------------------------------------------------------------------------
\* In the lemmas of this section every action is expanded.
USE CacheAssumption DEF
    Next, Proceed, Work, Lookup, Promote, Load, FillL1, FillL2, Expire, Change, Aged,
    DeleteAuthCacheL1, DeleteAuthCacheL2, Announce, Deliver, PublishInvalidation, Claim,
    InvalidateLocal, DeleteAuthCache, Publish, Settle, RetryClaimed, DelayPasses, LeasePasses,
    Crash, Go, Finish, Fault, NoFault, DropL1, WorkerGo, Owned, Unclaim, Rows, Entry, PC, WPC,
    Stage, caches, requests, outbox, workers, mishaps, vars

\* Every step keeps every variable in its type.
LEMMA TypeStep == TypeOK /\ ClaimsAreDue /\ Next => TypeOK'
<1> SUFFICES ASSUME TypeOK, ClaimsAreDue, Next PROVE TypeOK'
  OBVIOUS
<1> USE DEF TypeOK, ClaimsAreDue
<1>1. l1' \in [Instances -> Entry]
  <2>1. ASSUME NEW r \in Requests, Lookup(r) \/ Proceed(r) PROVE l1' \in [Instances -> Entry]
    <3>1. l1' = l1 \/ \E x \in Instances, v \in Entry : l1' = [l1 EXCEPT ![x] = v]
      BY <2>1
    <3>2. l1 \in [Instances -> Entry]
      BY ONLY TypeOK DEF TypeOK
    <3> QED
      BY ONLY <3>1, <3>2
  <2>2. ASSUME NEW r \in Requests, Change(r) PROVE l1' \in [Instances -> Entry]
    BY <2>2
  <2>3. ASSUME NEW i \in Instances, Work(i) PROVE l1' \in [Instances -> Entry]
    <3>1. l1' = l1 \/ \E x \in Instances, v \in Entry : l1' = [l1 EXCEPT ![x] = v]
      BY <2>3
    <3>2. l1 \in [Instances -> Entry]
      BY ONLY TypeOK DEF TypeOK
    <3> QED
      BY ONLY <3>1, <3>2
  <2>4. ASSUME NEW i \in Instances, Deliver(i) \/ Crash(i) PROVE l1' \in [Instances -> Entry]
    BY <2>4
  <2>5. CASE Expire \/ \E e \in Rows : DelayPasses(e) \/ LeasePasses(e)
    BY <2>5
  <2> HIDE DEF Next, Lookup, Change, Proceed, Promote, FillL1, Work, Publish, Deliver, Crash,
               Expire, DelayPasses, LeasePasses
  <2> QED
    BY ONLY Next, <2>1, <2>2, <2>3, <2>4, <2>5 DEF Next
<1>2. l2' \in Entry
  OBVIOUS
<1>3. message' \subseteq Instances
  OBVIOUS
<1>4. pc' \in [Requests -> PC]
  <2>1. ASSUME NEW r \in Requests, Lookup(r) \/ Proceed(r) PROVE pc' \in [Requests -> PC]
    BY <2>1
  <2>2. ASSUME NEW r \in Requests, Change(r) PROVE pc' \in [Requests -> PC]
    BY <2>2
  <2>3. ASSUME NEW i \in Instances, Work(i) PROVE pc' \in [Requests -> PC]
    BY <2>3
  <2>4. ASSUME NEW i \in Instances, Deliver(i) \/ Crash(i) PROVE pc' \in [Requests -> PC]
    BY <2>4
  <2>5. CASE Expire \/ \E e \in Rows : DelayPasses(e) \/ LeasePasses(e)
    BY <2>5
  <2> HIDE DEF Next, Lookup, Change, Proceed, Promote, FillL1, Work, Publish, Deliver, Crash,
               Expire, DelayPasses, LeasePasses
  <2> QED
    BY ONLY Next, <2>1, <2>2, <2>3, <2>4, <2>5 DEF Next
<1>5. held' \in [Requests -> Entry]
  <2>1. ASSUME NEW r \in Requests, Lookup(r) \/ Proceed(r) PROVE held' \in [Requests -> Entry]
    BY <2>1
  <2>2. ASSUME NEW r \in Requests, Change(r) PROVE held' \in [Requests -> Entry]
    BY <2>2
  <2>3. ASSUME NEW i \in Instances, Work(i) PROVE held' \in [Requests -> Entry]
    BY <2>3
  <2>4. ASSUME NEW i \in Instances, Deliver(i) \/ Crash(i) PROVE held' \in [Requests -> Entry]
    BY <2>4
  <2>5. CASE Expire \/ \E e \in Rows : DelayPasses(e) \/ LeasePasses(e)
    BY <2>5
  <2> HIDE DEF Next, Lookup, Change, Proceed, Promote, FillL1, Work, Publish, Deliver, Crash,
               Expire, DelayPasses, LeasePasses
  <2> QED
    BY ONLY Next, <2>1, <2>2, <2>3, <2>4, <2>5 DEF Next
<1>6. \A r \in Requests : held'[r] # "none" <=> pc'[r] \in {"promote", "fillL1", "fillL2"}
  OBVIOUS
<1>7. changes' \in 0 .. MaxChanges
  OBVIOUS
<1>8. stage' \in [Rows -> Stage]
  OBVIOUS
<1>9. \A e \in Rows : stage'[e] = "none" <=> e > changes'
  OBVIOUS
<1>10. claim' \in [Rows -> Instances \cup {None}]
  OBVIOUS
<1>11. waits' \in [Rows -> SUBSET Requests]
  <2>0. waits \in [Rows -> SUBSET Requests]
    BY ONLY TypeOK DEF TypeOK
  <2>1. ASSUME NEW r \in Requests, Lookup(r) \/ Change(r) \/ Proceed(r)
        PROVE  waits' \in [Rows -> SUBSET Requests]
    <3>1. waits' = waits \/ waits' = [e \in Rows |-> waits[e] \ {r}]
      BY <2>1
    <3> QED
      BY ONLY <2>0, <3>1
  <2>2. ASSUME NEW i \in Instances, Work(i) PROVE waits' \in [Rows -> SUBSET Requests]
    BY ONLY <2>0, <2>2, WorkWaits
  <2>3. ASSUME NEW i \in Instances, Deliver(i) \/ Crash(i)
        PROVE  waits' \in [Rows -> SUBSET Requests]
    <3>1. waits' = waits \/ waits' = [e \in Rows |-> {r \in waits[e] : Home[r] # i}]
      BY <2>3
    <3> QED
      BY ONLY <2>0, <3>1
  <2>4. CASE Expire \/ \E e \in Rows : DelayPasses(e) \/ LeasePasses(e)
    BY <2>4
  <2> HIDE DEF Next, Lookup, Change, Proceed, Promote, FillL1, Work, Publish, Deliver, Crash,
               Expire, DelayPasses, LeasePasses
  <2> QED
    BY ONLY Next, <2>1, <2>2, <2>3, <2>4 DEF Next
<1>12. wpc' \in [Instances -> WPC]
  <2>1. ASSUME NEW r \in Requests, Lookup(r) \/ Proceed(r) PROVE wpc' \in [Instances -> WPC]
    BY <2>1
  <2>2. ASSUME NEW r \in Requests, Change(r) PROVE wpc' \in [Instances -> WPC]
    BY <2>2
  <2>3. ASSUME NEW i \in Instances, Work(i) PROVE wpc' \in [Instances -> WPC]
    <3>1. wpc' = wpc \/ \E x \in Instances, v \in WPC : wpc' = [wpc EXCEPT ![x] = v]
      BY <2>3
    <3>2. wpc \in [Instances -> WPC]
      BY ONLY TypeOK DEF TypeOK
    <3> QED
      BY ONLY <3>1, <3>2
  <2>4. ASSUME NEW i \in Instances, Deliver(i) \/ Crash(i) PROVE wpc' \in [Instances -> WPC]
    <3>1. wpc' = wpc \/ \E x \in Instances, v \in WPC : wpc' = [wpc EXCEPT ![x] = v]
      BY <2>4
    <3>2. wpc \in [Instances -> WPC]
      BY ONLY TypeOK DEF TypeOK
    <3> QED
      BY ONLY <3>1, <3>2
  <2>5. CASE Expire \/ \E e \in Rows : DelayPasses(e) \/ LeasePasses(e)
    BY <2>5
  <2> HIDE DEF Next, Lookup, Change, Proceed, Promote, FillL1, Work, Publish, Deliver, Crash,
               Expire, DelayPasses, LeasePasses
  <2> QED
    BY ONLY Next, <2>1, <2>2, <2>3, <2>4, <2>5 DEF Next
<1>13. row' \in [Instances -> 0 .. MaxChanges]
  <2>0. row \in [Instances -> 0 .. MaxChanges]
    BY ONLY TypeOK DEF TypeOK
  <2>1. ASSUME NEW r \in Requests, Lookup(r) \/ Change(r) \/ Proceed(r) PROVE row' = row
    BY <2>1
  <2>2. ASSUME NEW i \in Instances, Work(i) \/ Deliver(i) \/ Crash(i)
        PROVE  row' \in [Instances -> 0 .. MaxChanges]
    <3>1. CASE Work(i)
      BY ONLY <2>0, <3>1, WorkRow
    <3>2. CASE Deliver(i) \/ Crash(i)
      <4>1. row' = row \/ row' = [row EXCEPT ![i] = 0]
        BY <3>2
      <4> QED
        BY ONLY <2>0, <4>1, CacheAssumption
    <3> QED
      BY ONLY <2>2, <3>1, <3>2
  <2>3. CASE Expire \/ \E e \in Rows : DelayPasses(e) \/ LeasePasses(e)
    BY <2>3
  <2> HIDE DEF Next, Lookup, Change, Proceed, Promote, FillL1, Work, Publish, Deliver, Crash,
               Expire, DelayPasses, LeasePasses
  <2> QED
    BY ONLY Next, <2>0, <2>1, <2>2, <2>3 DEF Next
<1>14. \A i \in Instances : row'[i] = 0 <=> wpc'[i] = "idle"
  OBVIOUS
<1>15. faults' \in 0 .. MaxFaults
  OBVIOUS
<1>16. happened' \subseteq FaultKinds
  OBVIOUS
<1> QED
  BY ONLY <1>1, <1>2, <1>3, <1>4, <1>5, <1>6, <1>7, <1>8, <1>9, <1>10, <1>11, <1>12, <1>13,
     <1>14, <1>15, <1>16 DEF TypeOK, Rows, Entry

\* A worker claims only rows that are due, and a row leaves its claim when its
\* stage changes.
LEMMA ClaimsStep == TypeOK /\ ClaimsAreDue /\ Next => ClaimsAreDue'
<1> SUFFICES ASSUME TypeOK, ClaimsAreDue, Next,
                    NEW e \in Rows, claim'[e] # None
             PROVE  stage'[e] \in {"first", "second"}
  BY DEF ClaimsAreDue
<1> QED
  BY DEF TypeOK, ClaimsAreDue

\* A row waits for whoever held an entry when its first pass ended, and only
\* the end of the request makes it wait no more.
LEMMA FillsStep ==
    ASSUME TypeOK, FillsAreAwaited, ClaimsAreDue, Next, "slowFill" \notin happened',
           NEW r \in Requests, held'[r] = "stale", pc'[r] \in {"fillL1", "fillL2"}
    PROVE  LateFill(r)'
<1> USE DEF TypeOK
<1>1. "slowFill" \notin happened
  OBVIOUS
<1>2. CASE ~(held[r] = "stale" /\ pc[r] \in {"fillL1", "fillL2"})
  <2>1. ASSUME NEW x \in Requests, Change(x) PROVE LateFill(r)'
    <3>1. stage'[changes + 1] = "first" /\ changes + 1 \in Rows
      BY <2>1
    <3> QED
      BY ONLY <3>1 DEF LateFill
  <2>2. ASSUME NEW x \in Requests, Lookup(x) \/ Proceed(x) PROVE FALSE
    BY <1>2, <2>2
  <2>3. ASSUME NEW i \in Instances, Work(i) \/ Deliver(i) \/ Crash(i) PROVE FALSE
    BY <1>2, <2>3
  <2>4. CASE Expire \/ \E e \in Rows : DelayPasses(e) \/ LeasePasses(e)
    BY <1>2, <2>4
  <2> HIDE DEF Next, Lookup, Change, Proceed, Promote, FillL1, Work, Publish, Deliver, Crash,
               Expire, DelayPasses, LeasePasses
  <2> QED
    BY ONLY Next, <2>1, <2>2, <2>3, <2>4 DEF Next
<1>3. CASE held[r] = "stale" /\ pc[r] \in {"fillL1", "fillL2"}
  <2>1. PICK e \in Rows : stage[e] = "first" \/ (stage[e] = "delayed" /\ r \in waits[e])
    BY ONLY <1>1, <1>3, FillsAreAwaited DEF FillsAreAwaited, LateFill
  <2>2. ASSUME r \in waits[e] PROVE r \in waits'[e]
    <3>1. ASSUME NEW x \in Requests, Lookup(x) \/ Change(x) \/ Proceed(x) PROVE r \in waits'[e]
      BY <1>3, <2>2, <3>1
    <3>2. ASSUME NEW i \in Instances, Work(i) PROVE r \in waits'[e]
      <4>1. \/ waits' = waits
            \/ waits' = [waits EXCEPT ![row[i]] = {x \in Requests : held[x] # "none"}]
        BY ONLY <3>2, WorkWaits
      <4>2. waits \in [Rows -> SUBSET Requests]
        OBVIOUS
      <4> QED
        BY ONLY <1>3, <2>2, <4>1, <4>2
    <3>3. ASSUME NEW i \in Instances, Deliver(i) \/ Crash(i) PROVE r \in waits'[e]
      BY <1>3, <2>2, <3>3
    <3>4. CASE Expire \/ \E x \in Rows : DelayPasses(x) \/ LeasePasses(x)
      BY <2>2, <3>4
    <3> HIDE DEF Next, Lookup, Change, Proceed, Promote, FillL1, Work, Publish, Deliver, Crash,
                 Expire, DelayPasses, LeasePasses
    <3> QED
      BY ONLY Next, <3>1, <3>2, <3>3, <3>4 DEF Next
  <2>3. stage[e] = "delayed" /\ r \in waits[e] => stage'[e] = "delayed"
    BY DEF ClaimsAreDue
  <2>4. stage[e] = "first" => stage'[e] = "first" \/ (stage'[e] = "delayed" /\ r \in waits'[e])
    BY <1>3
  <2> QED
    BY ONLY <2>1, <2>2, <2>3, <2>4 DEF LateFill
<1> QED
  BY ONLY <1>2, <1>3

\* Only the deletion itself ends a row's promise to delete, and a late fill finds
\* another one.
LEMMA L2Step ==
    ASSUME IInv, L2IsDeleted, Next, "slowFill" \notin happened', l2' = "stale"
    PROVE  (\E e \in Rows : WillDelete(e))'
<1> USE DEF IInv, TypeOK
<1>1. "slowFill" \notin happened
  OBVIOUS
<1>2. CASE l2 # "stale"
  <2>1. \/ \E x \in Requests : Change(x)
        \/ \E x \in Requests : FillL2(x) /\ held[x] = "stale"
    BY <1>2
  <2>2. ASSUME NEW x \in Requests, Change(x) PROVE (\E e \in Rows : WillDelete(e))'
    <3>1. stage'[changes + 1] = "first" /\ changes + 1 \in Rows
      BY <2>2
    <3> QED
      BY ONLY <3>1 DEF WillDelete
  <2>3. ASSUME NEW x \in Requests, FillL2(x), held[x] = "stale"
        PROVE  (\E e \in Rows : WillDelete(e))'
    <3>1. LateFill(x) /\ stage' = stage
      BY <1>1, <2>3 DEF FillsAreAwaited
    <3> QED
      BY ONLY <3>1 DEF LateFill, WillDelete
  <2> QED
    BY ONLY <2>1, <2>2, <2>3
<1>3. CASE l2 = "stale"
  <2>1. PICK e \in Rows : WillDelete(e)
    BY ONLY <1>1, <1>3, L2IsDeleted DEF L2IsDeleted
  <2>2. stage[e] \in {"first", "delayed"} => stage'[e] \in {"first", "delayed"} \/ WillDelete(e)'
    BY DEF WillDelete, ClaimsAreDue
  <2>3. stage[e] = "second" => WillDelete(e)'
    BY <2>1 DEF WillDelete
  <2> QED
    BY ONLY <2>1, <2>2, <2>3 DEF WillDelete
<1> QED
  BY ONLY <1>2, <1>3

\* Only a message that is delivered, or the pass that sends it, ends the promise
\* to tell process i, and by then the message is under way or the entry gone.
LEMMA L1Step ==
    ASSUME IInv, StaleL1IsPending, Next,
           happened' \cap {"slowFill", "lostSecond", "slowPromotion"} = {},
           NEW i \in Instances, l1'[i] = "stale"
    PROVE  Coming(i)'
<1> USE DEF IInv, TypeOK, Pending
<1>1. happened \cap {"slowFill", "lostSecond", "slowPromotion"} = {}
  OBVIOUS
<1>2. CASE l1[i] # "stale"
  <2>1. ASSUME NEW x \in Requests, Change(x) PROVE Coming(i)'
    <3>1. stage'[changes + 1] = "first" /\ changes + 1 \in Rows
      BY <2>1
    <3> QED
      BY ONLY <3>1 DEF Coming, Pending
  <2>2. ASSUME NEW x \in Requests, Promote(x) PROVE Coming(i)'
    <3>1. "slowPromotion" \notin happened'
      OBVIOUS
    <3>2. Coming(i) /\ UNCHANGED <<message, stage, claim, row, wpc>>
      BY <1>2, <2>2, <3>1
    <3> QED
      BY ONLY <3>2 DEF Coming, Pending
  <2>3. ASSUME NEW x \in Requests, FillL1(x) PROVE Coming(i)'
    <3>1. LateFill(x) /\ stage' = stage
      BY <1>1, <1>2, <2>3 DEF FillsAreAwaited
    <3> QED
      BY ONLY <3>1 DEF LateFill, Coming, Pending
  <2>4. ASSUME NEW x \in Requests, Lookup(x) \/ Proceed(x), ~Promote(x), ~FillL1(x) PROVE FALSE
    BY <1>2, <2>4
  <2>5. ASSUME NEW j \in Instances, Work(j) \/ Deliver(j) \/ Crash(j) PROVE FALSE
    BY <1>2, <2>5
  <2>6. CASE Expire \/ \E e \in Rows : DelayPasses(e) \/ LeasePasses(e)
    BY <1>2, <2>6
  <2> HIDE DEF Next, Lookup, Change, Proceed, Promote, FillL1, Work, Publish, Deliver, Crash,
               Expire, DelayPasses, LeasePasses
  <2> QED
    BY ONLY Next, <2>1, <2>2, <2>3, <2>4, <2>5, <2>6 DEF Next
<1>3. CASE l1[i] = "stale"
  <2>1. Coming(i)
    BY ONLY <1>1, <1>3, StaleL1IsPending DEF StaleL1IsPending
  <2>2. i \in message => i \in message'
    BY <1>3
  <2>3. ASSUME NEW e \in Rows, stage[e] \in {"first", "delayed"} PROVE Coming(i)'
    <3>1. stage'[e] \in {"first", "delayed"} \/ (stage'[e] = "second" /\ claim'[e] = None)
      BY <2>3 DEF ClaimsAreDue
    <3> QED
      BY ONLY <3>1, <2>3 DEF Coming, Pending
  <2>4. ASSUME NEW e \in Rows, stage[e] = "second",
               claim[e] # None => ~ (row[claim[e]] = e /\ wpc[claim[e]] = "settle")
        PROVE  Coming(i)'
    <3>1. stage'[e] = "second"
      BY <2>4
    <3>2. \/ i \in message'
          \/ claim'[e] # None => ~ (row'[claim'[e]] = e /\ wpc'[claim'[e]] = "settle")
      <4>1. "lostSecond" \notin happened'
        OBVIOUS
      <4>2. ASSUME NEW j \in Instances, Publish(j), row[j] = e
            PROVE  i \in message' \/ wpc'[j] = "retry"
        BY <2>4, <4>1, <4>2
      <4>3. ASSUME NEW j \in Instances, Publish(j), row[j] # e \/ wpc'[j] = "retry"
            PROVE  claim'[e] # None => ~ (row'[claim'[e]] = e /\ wpc'[claim'[e]] = "settle")
        BY <2>4, <4>3
      <4>4. ASSUME NEW j \in Instances, Work(j), ~Publish(j)
            PROVE  claim'[e] # None => ~ (row'[claim'[e]] = e /\ wpc'[claim'[e]] = "settle")
        <5>1. CASE Claim(j)
          <6>1. PICK d \in Rows : /\ claim' = [claim EXCEPT ![d] = j]
                                  /\ row' = [row EXCEPT ![j] = d]
            BY <5>1
          <6>2. wpc' = [wpc EXCEPT ![j] = "local"]
            BY <5>1
          <6> QED
            BY ONLY <2>4, <6>1, <6>2, TypeOK DEF TypeOK
        <5>2. CASE InvalidateLocal(j) \/ DeleteAuthCache(j)
          BY <2>4, <5>2
        <5>3. CASE Settle(j) \/ RetryClaimed(j)
          <6>1. \/ claim' = claim
                \/ claim' = [claim EXCEPT ![row[j]] = None] /\ row[j] \in Rows
            BY <5>3
          <6>2. claim'[e] # None => claim'[e] = claim[e]
            BY ONLY <6>1, TypeOK DEF TypeOK
          <6>3. row' = [row EXCEPT ![j] = 0] /\ wpc' = [wpc EXCEPT ![j] = "idle"]
            BY <5>3
          <6> QED
            BY ONLY <2>4, <6>2, <6>3, TypeOK DEF TypeOK, Rows
        <5> QED
          BY ONLY <4>4, <5>1, <5>2, <5>3 DEF Work
      <4>5. ASSUME NEW j \in Instances, Deliver(j) \/ Crash(j)
            PROVE  claim'[e] # None => ~ (row'[claim'[e]] = e /\ wpc'[claim'[e]] = "settle")
        BY <2>4, <4>5
      <4>6. ASSUME NEW x \in Requests, Lookup(x) \/ Change(x) \/ Proceed(x)
            PROVE  claim'[e] # None => ~ (row'[claim'[e]] = e /\ wpc'[claim'[e]] = "settle")
        BY <2>4, <4>6
      <4>7. CASE Expire \/ \E x \in Rows : DelayPasses(x) \/ LeasePasses(x)
        BY <2>4, <4>7
      <4> HIDE DEF Next, Lookup, Change, Proceed, Promote, FillL1, Work, Publish, Deliver, Crash,
                   Expire, DelayPasses, LeasePasses
      <4> QED
        BY ONLY Next, <4>2, <4>3, <4>4, <4>5, <4>6, <4>7 DEF Next
    <3> QED
      BY ONLY <3>1, <3>2, <2>4 DEF Coming, Pending
  <2> QED
    BY ONLY <2>1, <2>2, <2>3, <2>4 DEF Coming, Pending
<1> QED
  BY ONLY <1>2, <1>3

-----------------------------------------------------------------------------
\* From here on the actions are opaque again.
HIDE DEF
    Next, Proceed, Work, Lookup, Promote, Load, FillL1, FillL2, Expire, Change, Aged,
    DeleteAuthCacheL1, DeleteAuthCacheL2, Announce, Deliver, PublishInvalidation, Claim,
    InvalidateLocal, DeleteAuthCache, Publish, Settle, RetryClaimed, DelayPasses, LeasePasses,
    Crash, Go, Finish, Fault, NoFault, DropL1, WorkerGo, Owned, Unclaim, Rows, Entry, PC, WPC,
    Stage, caches, requests, outbox, workers, mishaps, vars

\* The history only grows: what a step has to assume, it could assume before.
LEMMA InvStep == IInv /\ L2IsDeleted /\ StaleL1IsPending /\ Next =>
                     IInv' /\ L2IsDeleted' /\ StaleL1IsPending'
<1> SUFFICES ASSUME IInv, L2IsDeleted, StaleL1IsPending, Next
             PROVE  IInv' /\ L2IsDeleted' /\ StaleL1IsPending'
  OBVIOUS
<1>1. TypeOK' /\ ClaimsAreDue'
  BY TypeStep, ClaimsStep DEF IInv
<1>2. FillsAreAwaited'
  BY FillsStep DEF IInv, FillsAreAwaited
<1>3. L2IsDeleted'
  BY L2Step DEF L2IsDeleted
<1>4. StaleL1IsPending'
  BY L1Step DEF StaleL1IsPending
<1> QED
  BY <1>1, <1>2, <1>3, <1>4 DEF IInv

\* Empty caches and an empty outbox satisfy all of them.
LEMMA InitInv == Init => IInv /\ L2IsDeleted /\ StaleL1IsPending
  BY CacheAssumption DEF Init, IInv, TypeOK, ClaimsAreDue, FillsAreAwaited, L2IsDeleted,
     StaleL1IsPending, Rows, Entry, PC, WPC, Stage

\* They hold in every reachable state of the caches and the outbox.
LEMMA Invariance == Spec => [](IInv /\ L2IsDeleted /\ StaleL1IsPending)
<1>1. IInv /\ L2IsDeleted /\ StaleL1IsPending /\ UNCHANGED vars =>
          (IInv /\ L2IsDeleted /\ StaleL1IsPending)'
  BY DEF vars, caches, requests, outbox, workers, mishaps, IInv, TypeOK, ClaimsAreDue,
     FillsAreAwaited, LateFill, L2IsDeleted, WillDelete, StaleL1IsPending, Coming, Pending
<1> QED
  BY InitInv, InvStep, <1>1, PTL DEF Spec

-----------------------------------------------------------------------------
\* Type correctness: a request holds an entry exactly while it is on the way to
\* a cache, and a worker has a row exactly while it works.
THEOREM TypeCorrect == Spec => []TypeOK
<1>1. IInv => TypeOK
  BY DEF IInv
<1> QED
  BY Invariance, <1>1, PTL

\* A stale entry in Redis always has an invalidation under way, unless a request
\* outlives the safety delay.
THEOREM StaleL2 == Spec => []StaleL2IsPending
<1>1. L2IsDeleted => StaleL2IsPending
  BY DEF L2IsDeleted, WillDelete, StaleL2IsPending, Pending
<1> QED
  BY Invariance, <1>1, PTL

\* A stale entry in a process is about to be dropped, unless a request outlives
\* the delay, a second pass's message is lost or a promotion is overtaken.
THEOREM StaleL1 == Spec => []StaleL1IsPending
  BY Invariance, PTL

=============================================================================
