--------------------------- MODULE OpsClaimProofs ---------------------------
(***************************************************************************)
(* The claim is a lock for any number of workers and requests, if          *)
(* acquisitions are serialised: by the advisory lock, or because there is  *)
(* one worker and hence one gate.                                          *)
(***************************************************************************)
EXTENDS OpsClaim, TLAPS

Serialized == AdvisoryLock \/ \A q, r \in Requests : Home[q] = Home[r]

Deciding(r) == pc[r] \in {"insert", "steal"}

-----------------------------------------------------------------------------
(* The inductive invariant.                                                *)

\* Who is in try_acquire holds the gate of its worker.
Gated ==
    \A r \in Requests : pc[r] = "read" \/ Deciding(r) => gate[Home[r]] = r

\* On PostgreSQL who has read the row holds the advisory lock.
Locked == AdvisoryLock => \A r \in Requests : Deciding(r) => advisory = r

\* While a request decides about what it has read the row is not revived.
RowDead == \A r \in Requests : Deciding(r) => ~live

\* A lease that is not over is the one the row records.
LeaseRow == \A r \in lease : owner = r /\ live /\ pc[r] = "held"

ClaimInv == TypeOK /\ Gated /\ Locked /\ RowDead /\ LeaseRow

LEMMA ClaimInit == Init => ClaimInv
<1> SUFFICES ASSUME Init PROVE ClaimInv
  OBVIOUS
<1>1. TypeOK
  <2>1. pc \in [Requests -> Pcs] /\ gate \in [Workers -> Requests \cup {NoOwner}]
    BY DEF Init, Pcs
  <2>2. 0 \in 0..MaxEvictions
    BY ClaimAssumption DEF ClaimAssumption
  <2> QED
    BY <2>1, <2>2 DEF Init, TypeOK
<1>2. \A r \in Requests : pc[r] = "wait" /\ ~Deciding(r)
  BY DEF Init, Deciding
<1>3. LeaseRow
  BY DEF Init, LeaseRow
<1> QED
  BY <1>1, <1>2, <1>3 DEF ClaimInv, Gated, Locked, RowDead

\* Only one request decides at a time.
LEMMA OneDecides ==
    ASSUME Serialized, ClaimInv, NEW q \in Requests, NEW r \in Requests,
           Deciding(q), Deciding(r)
    PROVE  q = r
BY DEF Serialized, ClaimInv, Gated, Locked

\* Nobody has a lease when the row is taken, and nobody else decides about it.
LEMMA Granting ==
    ASSUME Serialized, ClaimInv, NEW r \in Requests, Deciding(r)
    PROVE  lease = {} /\ \A q \in Requests \ {r} : ~Deciding(q)
BY OneDecides DEF ClaimInv, RowDead, LeaseRow

\* A request that takes the row keeps the invariant,
LEMMA InvOwn ==
    ASSUME Serialized, ClaimInv, NEW r \in Requests, Deciding(r), Own(r), Leave(r),
           UNCHANGED evictVars
    PROVE  ClaimInv'
<1>1. lease = {} /\ \A q \in Requests \ {r} : ~Deciding(q)
  BY Granting
<1>2. TypeOK'
  BY ClaimAssumption
  DEF ClaimInv, TypeOK, Own, Leave, Goto, Pcs, evictVars, ClaimAssumption
<1>3. Gated'
  BY ClaimAssumption
  DEF ClaimInv, TypeOK, Gated, Own, Leave, Goto, Deciding, ClaimAssumption
<1>4. Locked' /\ RowDead'
  BY <1>1 DEF ClaimInv, TypeOK, Locked, RowDead, Own, Goto, Deciding
<1>5. LeaseRow'
  BY <1>1 DEF ClaimInv, TypeOK, LeaseRow, Own, Goto
<1> QED
  BY <1>2, <1>3, <1>4, <1>5 DEF ClaimInv

\* and so does one that is refused.
LEMMA InvRefuse ==
    ASSUME ClaimInv, NEW r \in Requests, pc[r] = "read" \/ Deciding(r),
           Refuse(r), Leave(r), UNCHANGED evictVars
    PROVE  ClaimInv'
<1>1. TypeOK'
  BY ClaimAssumption
  DEF ClaimInv, TypeOK, Refuse, Leave, Goto, Pcs, rowVars, evictVars, ClaimAssumption
<1>2. Gated'
  BY ClaimAssumption
  DEF ClaimInv, TypeOK, Gated, Refuse, Leave, Goto, Deciding, ClaimAssumption
<1>3. Locked' /\ RowDead' /\ LeaseRow'
  BY ClaimAssumption
  DEF ClaimInv, TypeOK, Locked, RowDead, LeaseRow, Refuse, Leave, Goto, Deciding,
      rowVars, ClaimAssumption
<1> QED
  BY <1>1, <1>2, <1>3 DEF ClaimInv

LEMMA ClaimStep == Serialized /\ ClaimInv /\ [Next]_vars => ClaimInv'
<1> SUFFICES ASSUME Serialized, ClaimInv, [Next]_vars PROVE ClaimInv'
  OBVIOUS
<1>1. ASSUME NEW r \in Requests, Enter(r) PROVE ClaimInv'
  BY <1>1, ClaimAssumption
  DEF Enter, Goto, ClaimInv, TypeOK, Gated, Locked, RowDead, LeaseRow, Deciding, Pcs,
      rowVars, evictVars, ClaimAssumption
<1>2. ASSUME NEW r \in Requests, Read(r) PROVE ClaimInv'
  <2>1. CASE live
    BY <1>2, <2>1, InvRefuse DEF Read
  <2>2. CASE ~live
    <3>1. Deciding(r)' /\ \A q \in Requests \ {r} : pc'[q] = pc[q]
      BY <1>2, <2>2 DEF Read, Goto, ClaimInv, TypeOK, Deciding
    <3>2. TypeOK' /\ Gated' /\ RowDead' /\ LeaseRow'
      BY <1>2, <2>2, <3>1
      DEF Read, Goto, ClaimInv, TypeOK, Gated, RowDead, LeaseRow, Deciding, Pcs,
          rowVars, evictVars
    <3>3. Locked'
      BY <1>2, <2>2, <3>1, ClaimAssumption
      DEF Read, ClaimInv, Locked, Deciding, ClaimAssumption
    <3> QED
      BY <3>2, <3>3 DEF ClaimInv
  <2> QED
    BY <2>1, <2>2
<1>3. ASSUME NEW r \in Requests, Insert(r) \/ Steal(r) PROVE ClaimInv'
  BY <1>3, InvOwn, InvRefuse DEF Insert, Steal, Deciding
<1>4. ASSUME NEW r \in Requests, AcquireFails(r) PROVE ClaimInv'
  BY <1>4, InvRefuse DEF AcquireFails, Deciding
<1>5. ASSUME NEW r \in Requests, Release(r) PROVE ClaimInv'
  <2>1. TypeOK'
    BY <1>5 DEF Release, Goto, ClaimInv, TypeOK, Pcs, evictVars
  <2>2. Gated' /\ Locked' /\ RowDead'
    BY <1>5
    DEF Release, Goto, ClaimInv, TypeOK, Gated, Locked, RowDead, Deciding
  <2>3. LeaseRow'
    BY <1>5 DEF Release, Goto, ClaimInv, TypeOK, LeaseRow
  <2> QED
    BY <2>1, <2>2, <2>3 DEF ClaimInv
<1>6. ASSUME NEW w \in Workers, EvictReads(w) PROVE ClaimInv'
  BY <1>6, ClaimAssumption
  DEF EvictReads, ClaimInv, TypeOK, Gated, Locked, RowDead, LeaseRow, Deciding,
      rowVars, ClaimAssumption
<1>7. ASSUME NEW w \in Workers, EvictDeletes(w) PROVE ClaimInv'
  BY <1>7
  DEF EvictDeletes, ClaimInv, TypeOK, Gated, Locked, RowDead, LeaseRow, Deciding
<1>8. ASSUME NEW r \in Requests, Expire(r) PROVE ClaimInv'
  BY <1>8
  DEF Expire, ClaimInv, TypeOK, Gated, Locked, RowDead, LeaseRow, Deciding, evictVars
<1>9. ASSUME NEW w \in Workers, Crash(w) PROVE ClaimInv'
  <2> DEFINE lost == {r \in Requests : Home[r] = w}
  <2>1. \A r \in Requests : pc'[r] = IF r \in lost THEN "dead" ELSE pc[r]
    BY <1>9 DEF Crash
  <2>2. TypeOK'
    BY <1>9 DEF Crash, ClaimInv, TypeOK, Pcs
  <2>3. Gated' /\ RowDead' /\ LeaseRow'
    BY <1>9, <2>1, ClaimAssumption
    DEF Crash, ClaimInv, TypeOK, Gated, RowDead, LeaseRow, Deciding, ClaimAssumption
  <2>4. Locked'
    BY <1>9, <2>1 DEF Crash, ClaimInv, Locked, Deciding
  <2> QED
    BY <2>2, <2>3, <2>4 DEF ClaimInv
<1>10. CASE UNCHANGED vars
  BY <1>10
  DEF vars, ClaimInv, TypeOK, Gated, Locked, RowDead, LeaseRow, Deciding
<1> QED
  BY <1>1, <1>2, <1>3, <1>4, <1>5, <1>6, <1>7, <1>8, <1>9, <1>10
  DEF Next, RequestStep

\* The invariant holds of every reachable state of a serialised claim.
THEOREM ClaimCorrect == ASSUME Serialized PROVE Spec => []ClaimInv
  BY ClaimInit, ClaimStep, PTL DEF Spec

\* Requests, gates, advisory lock, row and lease stay within their vocabulary, and the
\* evictions within their bound.
THEOREM ClaimTypeCorrect == ASSUME Serialized PROVE Spec => []TypeOK
<1>1. ClaimInv => TypeOK
  BY DEF ClaimInv
<1> QED
  BY <1>1, ClaimCorrect, PTL

\* Two requests never both have the claim of a paper (try_acquire, release,
\* the watchdog's force_release_sync, worker crashes), for every number of
\* workers on PostgreSQL and for one worker on SQLite.
THEOREM ClaimExclusive == ASSUME Serialized PROVE Spec => []OneLease
<1>1. ClaimInv => OneLease
  BY DEF ClaimInv, LeaseRow, OneLease
<1> QED
  BY <1>1, ClaimCorrect, PTL

\* No release takes the living claim of another request.
THEOREM ClaimKept == ASSUME Serialized PROVE Spec => LivingClaimKept
<1>1. ASSUME ClaimInv, [Next]_vars, NEW r \in Requests, live, owner = r, owner' # r
      PROVE  pc'[r] = "done" \/ evict' # evict
  <2>1. \A q \in Requests : ~Deciding(q)
    BY <1>1 DEF ClaimInv, RowDead
  <2>2. ASSUME NEW q \in Requests, Release(q) PROVE pc'[r] = "done"
    BY <1>1, <2>2 DEF Release, Goto, ClaimInv, TypeOK
  <2> QED
    BY <1>1, <2>1, <2>2
    DEF Next, RequestStep, Enter, Read, Insert, Steal, AcquireFails, Refuse,
        EvictReads, EvictDeletes, Expire, Crash, Deciding, vars, rowVars
<1>2. ClaimInv /\ [Next]_vars =>
        [\A r \in Requests :
           live /\ owner = r /\ owner' # r => pc'[r] = "done" \/ evict' # evict]_vars
  BY <1>1
<1> QED
  BY <1>2, ClaimCorrect, PTL DEF Spec, LivingClaimKept

-----------------------------------------------------------------------------
(* Refinement.                                                             *)

\* Every step grants a lease while there is none, ends the one there is, or
\* leaves it alone.
LEMMA LockStep ==
    ASSUME Serialized, ClaimInv, [Next]_vars
    PROVE  [Lock!Next]_lease
<1> DEFINE Steps == UNCHANGED lease \/ \E r \in Requests : Lock!Grant(r) \/ Lock!End(r)
<1>1. ASSUME NEW r \in Requests, lease' = lease \ {r} PROVE Steps
  <2>1. CASE r \in lease
    BY <1>1, <2>1 DEF ClaimInv, LeaseRow, Lock!End
  <2>2. CASE r \notin lease
    BY <1>1, <2>2
  <2> QED
    BY <2>1, <2>2
<1>2. ASSUME NEW r \in Requests, Insert(r) \/ Steal(r) PROVE Steps
  BY <1>2, Granting
  DEF Insert, Steal, Own, Refuse, rowVars, Deciding, Lock!Grant
<1>3. ASSUME NEW w \in Workers, EvictDeletes(w) PROVE Steps
  <2>1. CASE lease = {}
    BY <1>3, <2>1 DEF EvictDeletes
  <2>2. CASE owner \in Requests
    BY <1>1, <1>3, <2>2 DEF EvictDeletes
  <2> QED
    BY <2>1, <2>2 DEF ClaimInv, TypeOK, LeaseRow
<1>4. ASSUME NEW w \in Workers, Crash(w) PROVE Steps
  <2>1. CASE \E r \in lease : Home[r] = w
    <3>1. PICK r \in lease : Home[r] = w
      BY <2>1
    <3>2. lease' = lease \ {r}
      BY <1>4, <3>1 DEF Crash, ClaimInv, TypeOK, LeaseRow
    <3> QED
      BY <1>1, <3>1, <3>2 DEF ClaimInv, TypeOK
  <2>2. CASE ~\E r \in lease : Home[r] = w
    BY <1>4, <2>2 DEF Crash, ClaimInv, TypeOK
  <2> QED
    BY <2>1, <2>2
<1>5. Steps
  BY <1>1, <1>2, <1>3, <1>4
  DEF Next, RequestStep, Enter, Read, AcquireFails, Release, Refuse, EvictReads,
      Expire, vars, rowVars
<1> QED
  BY <1>5 DEF Lock!Next

\* The claim of OpsClaim implements LeaseLock.
THEOREM ClaimIsLock == ASSUME Serialized PROVE Spec => ImplementsLock
<1>1. Init => Lock!Init
  BY DEF Init, Lock!Init
<1> QED
  BY <1>1, LockStep, ClaimCorrect, PTL DEF Spec, ImplementsLock, Lock!Spec
=============================================================================
