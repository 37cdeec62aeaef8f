------------------------- MODULE RagIndexingProofs -------------------------
(***************************************************************************)
(* What holds of the vector index of a paper for any number of index runs, *)
(* crashes, reextracts and faults.                                         *)
(*                                                                         *)
(* Why: a run id nobody has drawn is unknown to everybody (FreshUnknown),  *)
(* so a run begins without anybody who will delete its evidence, and gets  *)
(* one only after it was revoked; the index a paper shows is whole, unless *)
(* its run began behind the back of a wipe.  A run under way, or the last  *)
(* one revoked, is always found by a delete that looks (Findable).         *)
(***************************************************************************)
EXTENDS RagIndexing, SequenceTheorems, WellFoundedInduction, TLAPS

-----------------------------------------------------------------------------
\* ---- Sequences ---------------------------------------------------------
\* A set of positions that is not empty has a last one.
LEMMA LastExists ==
    ASSUME NEW n \in Nat, NEW S \in SUBSET (1..n), S # {}
    PROVE  \E i \in S : \A j \in S : j <= i
<1> DEFINE T == {n - i : i \in S}
<1>1. T \subseteq Nat
  OBVIOUS
<1>2. T # {}
  OBVIOUS
<1>3. PICK x \in T : \A y \in T : ~(<<y, x>> \in OpToRel(<, Nat))
  <2> HIDE DEF T
  <2> QED BY <1>1, <1>2, NatLessThanWellFounded, WFMin
<1>4. \A y \in T : ~(y < x)
  BY <1>1, <1>3 DEF OpToRel
<1>5. PICK i \in S : x = n - i
  OBVIOUS
<1>6. \A j \in S : ~(n - j < n - i)
  BY <1>4, <1>5
<1> QED BY <1>5, <1>6

\* The entries behind the removed one move up.
LEMMA RemoveAtEntries ==
    ASSUME NEW S, NEW s \in Seq(S), NEW i \in 1..Len(s)
    PROVE  /\ RemoveAt(s, i) \in Seq(S) /\ Len(RemoveAt(s, i)) = Len(s) - 1
           /\ \A k \in 1..(Len(s) - 1) :
                 RemoveAt(s, i)[k] = IF k < i THEN s[k] ELSE s[k + 1]
<1> DEFINE a == SubSeq(s, 1, i - 1)
           b == SubSeq(s, i + 1, Len(s))
<1>0. Len(s) \in Nat /\ i \in Nat /\ i <= Len(s) /\ i >= 1
  OBVIOUS
<1>1. a \in Seq(S) /\ Len(a) = i - 1 /\ \A k \in 1..(i - 1) : a[k] = s[k]
  OBVIOUS
<1>2. b \in Seq(S) /\ Len(b) = Len(s) - i /\ \A k \in 1..(Len(s) - i) : b[k] = s[i + k]
  OBVIOUS
<1>3. RemoveAt(s, i) = a \o b
  BY DEF RemoveAt
<1> HIDE DEF a, b
<1>4. a \o b \in Seq(S) /\ Len(a \o b) = Len(s) - 1
  <2>1. a \o b \in Seq(S) /\ Len(a \o b) = Len(a) + Len(b)
    BY <1>1, <1>2, ConcatProperties
  <2>2. Len(a) + Len(b) = Len(s) - 1
    <3>1. (i - 1) + (Len(s) - i) = Len(s) - 1
      BY <1>0
    <3> QED BY <1>1, <1>2, <3>1
  <2> QED BY <2>1, <2>2
<1>5. ASSUME NEW k \in 1..(Len(s) - 1)
      PROVE  (a \o b)[k] = IF k < i THEN s[k] ELSE s[k + 1]
  <2>1. CASE k <= i - 1
    BY <2>1, <1>1, <1>2
  <2>2. CASE k > i - 1
    <3>1. (a \o b)[k] = b[k - (i - 1)]
      BY <2>2, <1>1, <1>2
    <3>2. b[k - (i - 1)] = s[k + 1]
      BY <2>2, <1>2
    <3> QED BY <2>2, <3>1, <3>2
  <2>3. k <= i - 1 \/ k > i - 1
    BY <1>0
  <2> QED BY <2>1, <2>2, <2>3, Zenon
<1> QED BY <1>3, <1>4, <1>5

\* Removing an entry brings no new one.
LEMMA RemoveAtRange ==
    ASSUME NEW S, NEW s \in Seq(S), NEW i \in 1..Len(s)
    PROVE  /\ RemoveAt(s, i) \in Seq(S)
           /\ \A k \in 1..Len(RemoveAt(s, i)) :
                 \E j \in 1..Len(s) : RemoveAt(s, i)[k] = s[j]
<1> DEFINE t == RemoveAt(s, i)
<1>1. /\ t \in Seq(S) /\ Len(t) = Len(s) - 1
      /\ \A k \in 1..(Len(s) - 1) : t[k] = IF k < i THEN s[k] ELSE s[k + 1]
  BY RemoveAtEntries
<1> HIDE DEF t
<1>2. \A k \in 1..Len(t) : \E j \in 1..Len(s) : t[k] = s[j]
  <2> TAKE k \in 1..Len(t)
  <2>1. Len(s) \in Nat /\ k \in 1..(Len(s) - 1) /\ k \in 1..Len(s) /\ k + 1 \in 1..Len(s)
    BY <1>1
  <2> QED BY <1>1, <2>1
<1> QED BY <1>1, <1>2 DEF t

-----------------------------------------------------------------------------
\* ---- The registry ------------------------------------------------------
Entries == Seq(Runs \cup Others)
Named == {revoked[i] : i \in 1..Len(revoked)}

LEMMA DroppedRange ==
    ASSUME TypeOK, NEW r
    PROVE  /\ Dropped(r) \in Entries
           /\ {Dropped(r)[i] : i \in 1..Len(Dropped(r))} \subseteq Named
<1>1. CASE ~IsRevoked(r)
  BY <1>1 DEF Dropped, Named, TypeOK, Entries
<1>2. CASE IsRevoked(r)
  <2> DEFINE p == CHOOSE i \in 1..Len(revoked) : revoked[i] = r
  <2>1. p \in 1..Len(revoked)
    BY <1>2 DEF IsRevoked
  <2>2. Dropped(r) = RemoveAt(revoked, p)
    BY <1>2 DEF Dropped
  <2> HIDE DEF p
  <2>3. revoked \in Entries
    BY DEF TypeOK, Entries
  <2> QED BY <2>1, <2>2, <2>3, RemoveAtRange DEF Named, Entries
<1> QED BY <1>1, <1>2

LEMMA TrimmedRange ==
    ASSUME NEW s \in Entries
    PROVE  /\ Trimmed(s) \in Entries
           /\ {Trimmed(s)[i] : i \in 1..Len(Trimmed(s))} \subseteq {s[i] : i \in 1..Len(s)}
<1> USE RagAssumption
<1>1. CASE Len(s) <= MaxRevoked
  BY <1>1 DEF Trimmed
<1>2. CASE ~(Len(s) <= MaxRevoked)
  <2> DEFINE m == Len(s) - (MaxRevoked \div 2) + 1
  <2>1. m \in 1..(Len(s) + 1)
    <3>1. Len(s) \in Nat /\ MaxRevoked \in Nat /\ Len(s) > MaxRevoked
      BY <1>2 DEF Entries
    <3>2. (MaxRevoked \div 2) \in 0..MaxRevoked
      BY <3>1
    <3> QED BY <3>1, <3>2
  <2>2. Trimmed(s) = SubSeq(s, m, Len(s))
    BY <1>2 DEF Trimmed
  <2> HIDE DEF m
  <2> QED BY <2>1, <2>2 DEF Entries
<1> QED BY <1>1, <1>2

\* The entries named so far stay or go, those of new may come, the run under way
\* stays or goes, and nobody forgets that a run was forgotten.
Registers(new) ==
    /\ revoked' \in Entries /\ Named' \subseteq Named \cup new
    /\ inflight' \in {inflight, NoRun}
    /\ lost \subseteq lost' /\ lost' \subseteq Runs

LEMMA RegistryKept ==
    ASSUME TypeOK, UNCHANGED registry
    PROVE  Registers({})
BY DEF Registers, registry, TypeOK, Entries, Named

LEMMA RevokeRange ==
    ASSUME TypeOK, NEW r \in Runs, Revoke(r)
    PROVE  Registers({r}) /\ (inflight = r => inflight' = NoRun)
<1> DEFINE s == Append(Dropped(r), r)
<1>1. s \in Entries /\ {s[i] : i \in 1..Len(s)} \subseteq Named \cup {r}
  BY DroppedRange DEF Entries
<1>2. revoked' = Trimmed(s)
  BY DEF Revoke
<1> HIDE DEF s
<1> QED BY <1>1, <1>2, TrimmedRange DEF Revoke, Named, Registers, Forgotten, TypeOK

LEMMA ClearRange ==
    ASSUME TypeOK, NEW r, Clear(r)
    PROVE  Registers({}) /\ (inflight = r => inflight' = NoRun)
<1>1. lost' = lost /\ lost \subseteq Runs
  BY DEF Clear, TypeOK
<1> QED BY <1>1, DroppedRange DEF Clear, Named, Registers

\* What revoke without a run id does.
LEMMA RevokeCurrentRange ==
    ASSUME TypeOK, RevokeCurrent
    PROVE  Registers({inflight} \ {NoRun}) /\ inflight' = NoRun
<1>1. CASE inflight = NoRun
  BY <1>1, RegistryKept DEF RevokeCurrent, Registers
<1>2. CASE inflight # NoRun
  <2>1. inflight \in Runs /\ Revoke(inflight)
    BY <1>2 DEF RevokeCurrent, TypeOK
  <2> QED BY <2>1, <1>2, RevokeRange
<1> QED BY <1>1, <1>2

\* Whoever is found again was revoked.
LEMMA StickyRange ==
    ASSUME TypeOK
    PROVE  Sticky = NoRun \/ (Sticky \in Runs /\ Sticky \in Named)
<1> DEFINE mine == {i \in 1..Len(revoked) : revoked[i] \in Runs}
           last == CHOOSE i \in mine : \A j \in mine : j <= i
<1>1. CASE mine = {}
  BY <1>1 DEF Sticky
<1>2. CASE mine # {}
  <2>1. Len(revoked) \in Nat /\ mine \in SUBSET (1..Len(revoked))
    BY DEF TypeOK
  <2>2. \E i \in mine : \A j \in mine : j <= i
    <3> HIDE DEF mine
    <3> QED BY <1>2, <2>1, LastExists
  <2>3. last \in mine
    <3> HIDE DEF mine
    <3> QED BY <2>2
  <2>4. Sticky = revoked[last]
    BY <1>2 DEF Sticky
  <2> HIDE DEF last
  <2> QED BY <2>3, <2>4 DEF Named
<1> QED BY <1>1, <1>2

-----------------------------------------------------------------------------
\* ---- Who knows a run ---------------------------------------------------
HandlerHasRun == handler.run = NoRun <=> handler.pc \in {"idle", "taken"}

\* Nobody will delete the evidence of r.
Unclaimed(r) == r \notin previous \cup outbox /\ \A k \in Tasks : left[r][k] = 0

\* A run id that nobody has drawn is nowhere.
FreshUnknown ==
    \A r \in fresh :
       /\ Unclaimed(r) /\ r \notin {active, inflight, handler.run, handler.prev}
       /\ r \notin Named \cup wipe.targets

Known == TypeOK /\ HandlerHasRun /\ FreshUnknown

HandlerStates ==
    [pc : HandlerPcs, run : Runs \cup {NoRun}, prev : Runs \cup {NoRun}, epoch : Nat]

LEMMA KnownAtStart == Init => Known
<1> SUFFICES ASSUME Init PROVE Known
  OBVIOUS
<1> USE RagAssumption DEF Init, Idle, NoWipe
<1>1. TypeOK
  <2>1. left \in [Runs -> [Tasks -> 0..(Attempts + 1)]]
    OBVIOUS
  <2>2. revoked \in Seq(Runs \cup Others) /\ queue \in Seq(Nat)
    OBVIOUS
  <2>3. /\ handler \in HandlerStates
        /\ wipe \in [pc : WipePcs, kind : {"none", "delete", "reextract"}, targets : SUBSET Runs]
    BY DEF HandlerPcs, WipePcs, HandlerStates
  <2> QED BY <2>1, <2>2, <2>3 DEF TypeOK, HandlerStates
<1>2. Named = {}
  BY DEF Named
<1> QED BY <1>1, <1>2 DEF Known, HandlerHasRun, FreshUnknown, Unclaimed

LEMMA TargetRange ==
    ASSUME Known
    PROVE  RevokeTarget \in (Runs \ fresh) \cup {NoRun}
<1>1. Sticky \in (Runs \ fresh) \cup {NoRun}
  BY StickyRange DEF Known, FreshUnknown
<1> QED BY <1>1 DEF RevokeTarget, Known, TypeOK, FreshUnknown

\* The index run.
LEMMA KnownToHandler ==
    ASSUME Known, Indexing
    PROVE  Known'
<1> USE RagAssumption DEF drawn, HandlerHasRun, store, intake, compensation, sweeps, counts, HandlerPcs, Idle, At, Step
<1>0. TypeOK /\ HandlerHasRun /\ FreshUnknown
  BY DEF Known
<1>1. CASE TakeEvent
  <2>1. Registers({})
    BY <1>0, <1>1, RegistryKept DEF TakeEvent
  <2>2. handler' \in HandlerStates /\ queue' \in Seq(Nat) /\ HandlerHasRun'
    <3>1. Head(queue) \in Nat /\ Tail(queue) \in Seq(Nat)
      <4>1. queue \in Seq(Nat) /\ queue # <<>>
        BY <1>0, <1>1 DEF TakeEvent, TypeOK
      <4> QED BY <4>1
    <3>2. handler' = Idle \/ handler' = [Idle EXCEPT !.pc = "taken", !.epoch = Head(queue)]
      BY <1>1 DEF TakeEvent
    <3>3. handler' \in HandlerStates /\ HandlerHasRun'
      <4>1. CASE handler' = Idle
        BY <4>1 DEF HandlerStates
      <4>2. CASE handler' = [Idle EXCEPT !.pc = "taken", !.epoch = Head(queue)]
        <5>1. handler' = [pc |-> "taken", run |-> NoRun, prev |-> NoRun, epoch |-> Head(queue)]
          BY <4>2
        <5> QED BY <3>1, <5>1 DEF HandlerStates
      <4> QED BY <3>2, <4>1, <4>2
    <3> QED BY <1>1, <3>1, <3>3 DEF TakeEvent
  <2>3. TypeOK'
    BY <1>0, <1>1, <2>1, <2>2 DEF TakeEvent, TypeOK, Registers, Entries, HandlerStates
  <2>4. FreshUnknown'
    BY <1>0, <1>1, <2>1 DEF TakeEvent, TypeOK, Registers, FreshUnknown, Unclaimed
  <2> QED BY <2>2, <2>3, <2>4 DEF Known
<1>2. CASE BeginRun
  <2>1. PICK r \in fresh :
           /\ fresh' = fresh \ {r}
           /\ inflight' = r /\ revoked' = Dropped(r)
           /\ handler' = [handler EXCEPT !.pc = "chunks", !.run = r, !.prev = active]
    BY <1>2 DEF BeginRun
  <2>2. revoked' \in Entries /\ Named' \subseteq Named
    BY <1>0, <2>1, DroppedRange DEF Named
  <2>3. TypeOK' /\ HandlerHasRun'
    <3>1. handler' \in HandlerStates /\ HandlerHasRun'
      BY <1>0, <2>1 DEF TypeOK, HandlerStates
    <3>2. fresh' \subseteq Runs /\ late' \subseteq Runs /\ inflight' \in Runs
      BY <1>0, <1>2, <2>1 DEF BeginRun, TypeOK
    <3> QED BY <1>0, <1>2, <2>2, <3>1, <3>2 DEF BeginRun, TypeOK, Entries, HandlerStates
  <2>4. FreshUnknown'
    BY <1>0, <1>2, <2>1, <2>2 DEF BeginRun, TypeOK, FreshUnknown, Unclaimed
  <2> QED BY <2>3, <2>4 DEF Known
<1>3. CASE Gate
  <2>1. Registers({handler.run}) /\ handler.run \in Runs
    BY <1>0, <1>3, RegistryKept, RevokeRange DEF Gate, TypeOK, Registers
  <2>2. TypeOK' /\ HandlerHasRun'
    <3>1. handler' \in HandlerStates /\ HandlerHasRun'
      BY <1>0, <1>3 DEF Gate, TypeOK, HandlerStates
    <3> QED BY <1>0, <1>3, <2>1, <3>1 DEF Gate, TypeOK, Registers, Entries, HandlerStates
  <2>3. FreshUnknown'
    BY <1>0, <1>3, <2>1 DEF Gate, TypeOK, Registers, FreshUnknown, Unclaimed
  <2> QED BY <2>2, <2>3 DEF Known
<1>4. CASE Activate
  <2>1. Registers({handler.run}) /\ handler.run \in Runs
    BY <1>0, <1>4, RegistryKept, RevokeRange DEF Activate, TypeOK, Registers
  <2>2. TypeOK' /\ HandlerHasRun'
    <3>1. handler' \in HandlerStates /\ HandlerHasRun'
      <4>1. \/ handler' = [handler EXCEPT !.pc = "clear"]
            \/ handler' = [handler EXCEPT !.pc = "failed"]
        BY <1>4 DEF Activate
      <4>2. handler \in HandlerStates /\ handler.pc = "activate"
        BY <1>0, <1>4 DEF Activate, TypeOK, HandlerStates
      <4> QED BY <1>0, <4>1, <4>2 DEF HandlerStates
    <3>2. active' \in Runs \cup {NoRun} /\ torn' \in BOOLEAN
      BY <1>0, <1>4, <2>1 DEF Activate, TypeOK
    <3> QED BY <1>0, <1>4, <2>1, <3>1, <3>2 DEF Activate, TypeOK, Registers, Entries, HandlerStates
  <2>3. FreshUnknown'
    BY <1>0, <1>4, <2>1 DEF Activate, TypeOK, Registers, FreshUnknown, Unclaimed
  <2> QED BY <2>2, <2>3 DEF Known
<1>5. CASE EndActivation
  <2>1. Registers({})
    BY <1>0, <1>5, ClearRange DEF EndActivation
  <2>2. TypeOK' /\ HandlerHasRun'
    BY <1>0, <1>5, <2>1 DEF EndActivation, TypeOK, Registers, Entries
  <2>3. FreshUnknown'
    BY <1>0, <1>5, <2>1 DEF EndActivation, TypeOK, Registers, FreshUnknown, Unclaimed
  <2> QED BY <2>2, <2>3 DEF Known
<1>6. CASE HelperRevokes \/ HandlerRevokes
  <2>1. /\ RevokeCurrent
        /\ \E k \in Tasks : left' = IF RevokeTarget = NoRun THEN left
                                    ELSE [left EXCEPT ![RevokeTarget][k] = Attempts + 1]
    BY <1>6 DEF HelperRevokes, HandlerRevokes, ScheduleOrphan, Tasks
  <2>2. Registers({inflight} \ {NoRun})
    BY <1>0, <2>1, RevokeCurrentRange
  <2>3. RevokeTarget \in (Runs \ fresh) \cup {NoRun}
    BY TargetRange
  <2>4. /\ left' \in [Runs -> [Tasks -> 0..(Attempts + 1)]]
        /\ \A r \in fresh : left'[r] = left[r]
    <3>1. left \in [Runs -> [Tasks -> 0..(Attempts + 1)]] /\ Attempts + 1 \in 0..(Attempts + 1)
      BY <1>0 DEF TypeOK
    <3>2. fresh \subseteq Runs
      BY <1>0 DEF TypeOK
    <3> QED BY <2>1, <2>3, <3>1, <3>2
  <2>5. handler' \in HandlerStates /\ HandlerHasRun'
    <3>1. CASE HelperRevokes
      BY <1>0, <3>1 DEF HelperRevokes, TypeOK, HandlerStates
    <3>2. CASE HandlerRevokes
      BY <3>2 DEF HandlerRevokes, HandlerStates
    <3> QED BY <1>6, <3>1, <3>2
  <2>7. TypeOK'
    BY <1>0, <1>6, <2>2, <2>4, <2>5 DEF HelperRevokes, HandlerRevokes, TypeOK, Registers, Entries, HandlerStates
  <2>6. FreshUnknown'
    BY <1>0, <1>6, <2>2, <2>4 DEF HelperRevokes, HandlerRevokes, TypeOK, Registers, FreshUnknown, Unclaimed
  <2> QED BY <2>5, <2>6, <2>7 DEF Known
<1>7. ASSUME NEW c \in Collections, Upsert(c)
      PROVE  Known'
  <2>1. NextUpsert[c] \in HandlerPcs \ {"idle", "taken"} /\ handler.pc \notin {"idle", "taken"}
    BY <1>7 DEF Upsert, NextUpsert, Collections
  <2>2. Registers({})
    BY <1>0, <1>7, RegistryKept DEF Upsert
  <2>3. TypeOK' /\ HandlerHasRun'
    <3>1. handler' \in HandlerStates /\ HandlerHasRun'
      BY <1>0, <1>7, <2>1 DEF Upsert, TypeOK, HandlerStates
    <3>2. evidence' \subseteq Runs \X Collections
      BY <1>0, <1>7, <2>1 DEF Upsert, TypeOK
    <3> QED BY <1>0, <1>7, <2>2, <3>1, <3>2 DEF Upsert, TypeOK, Registers, Entries, HandlerStates
  <2>4. FreshUnknown'
    BY <1>0, <1>7, <2>2 DEF Upsert, TypeOK, Registers, FreshUnknown, Unclaimed
  <2> QED BY <2>3, <2>4 DEF Known
<1>8. ASSUME NEW done \in SUBSET Collections, CleanUpOwn(done)
      PROVE  Known'
  <2>1. Registers({})
    BY <1>0, <1>8, ClearRange, RegistryKept DEF CleanUpOwn
  <2>2. faults' \in Nat
    BY <1>0, <1>8 DEF CleanUpOwn, Deleted, Fails, TypeOK
  <2>3. TypeOK' /\ HandlerHasRun'
    <3>1. handler' \in HandlerStates /\ HandlerHasRun'
      BY <1>0, <1>8 DEF CleanUpOwn, TypeOK, HandlerStates
    <3>2. evidence' \subseteq Runs \X Collections
      BY <1>0, <1>8 DEF CleanUpOwn, TypeOK
    <3> QED BY <1>0, <1>8, <2>1, <2>2, <3>1, <3>2 DEF CleanUpOwn, TypeOK, Registers, Entries, HandlerStates
  <2>4. FreshUnknown'
    BY <1>0, <1>8, <2>1 DEF CleanUpOwn, TypeOK, Registers, FreshUnknown, Unclaimed
  <2> QED BY <2>3, <2>4 DEF Known
<1> QED BY <1>1, <1>2, <1>3, <1>4, <1>5, <1>6, <1>7, <1>8 DEF Indexing

\* Other steps around the handler.
LEMMA KnownToOthers ==
    ASSUME Known,
           \/ Publish \/ WatchdogRevokes \/ RevokeElsewhere
           \/ \E c \in Collections : UpsertFails(c) \/ IndexTimesOut(c)
           \/ \E w \in straggler : StragglerLands(w)
           \/ \E r \in Runs, done \in SUBSET Collections : CleanUpPrevious(r, done)
    PROVE  Known'
<1> USE RagAssumption DEF drawn, HandlerHasRun, store, intake, compensation, sweeps, counts, At, Step
<1>0. TypeOK /\ HandlerHasRun /\ FreshUnknown
  BY DEF Known
<1>1. CASE Publish
  <2>1. Registers({})
    BY <1>0, <1>1, RegistryKept DEF Publish
  <2>2. queue' \in Seq(Nat)
    BY <1>0, <1>1 DEF Publish, TypeOK
  <2>3. TypeOK' /\ HandlerHasRun'
    <3>1. handler' \in HandlerStates /\ HandlerHasRun' /\ pipeline' \in BOOLEAN
      BY <1>0, <1>1 DEF Publish, TypeOK, HandlerStates
    <3> QED BY <1>0, <1>1, <2>1, <2>2, <3>1 DEF Publish, TypeOK, Registers, Entries, HandlerStates
  <2>4. FreshUnknown'
    BY <1>0, <1>1, <2>1 DEF Publish, TypeOK, Registers, FreshUnknown, Unclaimed
  <2> QED BY <2>3, <2>4 DEF Known
<1>2. CASE WatchdogRevokes
  <2>1. Registers({inflight} \ {NoRun})
    BY <1>0, <1>2, RevokeCurrentRange DEF WatchdogRevokes
  <2>2. TypeOK' /\ HandlerHasRun'
    BY <1>0, <1>2, <2>1 DEF WatchdogRevokes, TypeOK, Registers, Entries
  <2>3. FreshUnknown'
    BY <1>0, <1>2, <2>1 DEF WatchdogRevokes, TypeOK, Registers, FreshUnknown, Unclaimed
  <2> QED BY <2>2, <2>3 DEF Known
<1>3. CASE RevokeElsewhere
  <2>x. PICK x \in Others : revoked' = Trimmed(Append(revoked, x))
    BY <1>3 DEF RevokeElsewhere
  <2> DEFINE s == Append(revoked, x)
  <2>1. s \in Entries /\ {s[i] : i \in 1..Len(s)} \subseteq Named \cup {x}
    BY <1>0 DEF TypeOK, Entries, Named
  <2>2. /\ revoked' = Trimmed(s) /\ inflight' = inflight
        /\ lost \subseteq lost' /\ lost' \subseteq Runs
    BY <1>0, <1>3, <2>x DEF RevokeElsewhere, Forgotten, TypeOK
  <2> HIDE DEF s
  <2>3. Registers({x})
    BY <2>1, <2>2, TrimmedRange DEF Registers, Named
  <2>5. TypeOK' /\ HandlerHasRun'
    BY <1>0, <1>3, <2>3 DEF RevokeElsewhere, TypeOK, Registers, Entries
  <2>6. FreshUnknown'
    BY <1>0, <1>3, <2>3 DEF RevokeElsewhere, TypeOK, Registers, FreshUnknown, Unclaimed
  <2> QED BY <2>5, <2>6 DEF Known
<1>4. ASSUME NEW c \in Collections, UpsertFails(c) \/ IndexTimesOut(c)
      PROVE  Known'
  <2>1. /\ handler.pc = c /\ Revoke(handler.run)
        /\ \E pc \in {"failed", "cancelled"} : handler' = [handler EXCEPT !.pc = pc]
    BY <1>4 DEF UpsertFails, IndexTimesOut
  <2>2. handler.run \in Runs
    BY <1>0, <2>1 DEF TypeOK, Collections
  <2>3. Registers({handler.run})
    BY <1>0, <2>1, <2>2, RevokeRange
  <2>4. handler' \in HandlerStates /\ HandlerHasRun' /\ handler'.run = handler.run /\ handler'.prev = handler.prev
    BY <1>0, <2>1, <2>2 DEF TypeOK, HandlerStates, HandlerPcs
  <2>5. faults' \in Nat /\ straggler' \subseteq Runs \X Collections
    BY <1>0, <1>4, <2>2 DEF UpsertFails, IndexTimesOut, Fails, TypeOK
  <2>6. TypeOK'
    BY <1>0, <1>4, <2>3, <2>4, <2>5 DEF UpsertFails, IndexTimesOut, TypeOK, Registers, Entries, HandlerStates
  <2>7. FreshUnknown'
    BY <1>0, <1>4, <2>2, <2>3, <2>4 DEF UpsertFails, IndexTimesOut, TypeOK, Registers, FreshUnknown, Unclaimed
  <2> QED BY <2>4, <2>6, <2>7 DEF Known
<1>5. ASSUME NEW w \in straggler, StragglerLands(w)
      PROVE  Known'
  <2>1. Registers({})
    BY <1>0, <1>5, RegistryKept DEF StragglerLands
  <2>2. straggler' \subseteq Runs \X Collections /\ evidence' \subseteq Runs \X Collections
    BY <1>0, <1>5 DEF StragglerLands, TypeOK
  <2>3. TypeOK' /\ HandlerHasRun'
    BY <1>0, <1>5, <2>1, <2>2 DEF StragglerLands, TypeOK, Registers, Entries
  <2>4. FreshUnknown'
    BY <1>0, <1>5, <2>1 DEF StragglerLands, TypeOK, Registers, FreshUnknown, Unclaimed
  <2> QED BY <2>3, <2>4 DEF Known
<1>6. ASSUME NEW r \in Runs, NEW done \in SUBSET Collections, CleanUpPrevious(r, done)
      PROVE  Known'
  <2>1. Registers({})
    BY <1>0, <1>6, RegistryKept DEF CleanUpPrevious
  <2>2. faults' \in Nat
    BY <1>0, <1>6 DEF CleanUpPrevious, Deleted, Fails, TypeOK
  <2>3. TypeOK' /\ HandlerHasRun'
    BY <1>0, <1>6, <2>1, <2>2 DEF CleanUpPrevious, TypeOK, Registers, Entries
  <2>4. FreshUnknown'
    BY <1>0, <1>6, <2>1 DEF CleanUpPrevious, TypeOK, Registers, FreshUnknown, Unclaimed
  <2> QED BY <2>3, <2>4 DEF Known
<1> QED BY <1>1, <1>2, <1>3, <1>4, <1>5, <1>6

\* Compensations and the outbox.
LEMMA KnownToCompensations ==
    ASSUME Known, NEW r \in Runs, Compensating(r) \/ PollDue(r)
    PROVE  Known'
<1> USE RagAssumption DEF drawn, HandlerHasRun, store, intake, sweeps, counts
<1>0. TypeOK /\ HandlerHasRun /\ FreshUnknown
  BY DEF Known
<1>1. left \in [Runs -> [Tasks -> 0..(Attempts + 1)]]
  BY <1>0 DEF TypeOK
<1>2. CASE SweepLooks(r)
  <2>1. Registers({})
    BY <1>0, <1>2, RegistryKept DEF SweepLooks
  <2>2. TypeOK' /\ HandlerHasRun'
    BY <1>0, <1>2, <2>1 DEF SweepLooks, TypeOK, Registers, Entries
  <2>3. FreshUnknown'
    BY <1>0, <1>2, <2>1 DEF SweepLooks, TypeOK, Registers, FreshUnknown, Unclaimed
  <2> QED BY <2>2, <2>3 DEF Known
<1>3. ASSUME NEW k \in Tasks, NEW done \in SUBSET Collections, CompensateDeletes(r, k, done)
      PROVE  Known'
  <2>1. Registers({})
    BY <1>0, <1>3, RegistryKept DEF CompensateDeletes
  <2>2. /\ left[r][k] > 1 /\ left' = [left EXCEPT ![r][k] = @ - 1]
        /\ active' \in {active, NoRun} /\ unset' \subseteq unset /\ faults' \in Nat
        /\ missed' \subseteq Runs
    BY <1>0, <1>3 DEF CompensateDeletes, Deleted, Fails, TypeOK
  <2>3. left' \in [Runs -> [Tasks -> 0..(Attempts + 1)]]
    <3>1. left[r][k] \in 0..(Attempts + 1) /\ left[r][k] - 1 \in 0..(Attempts + 1)
      BY <1>1, <2>2
    <3> QED BY <1>1, <2>2, <3>1
  <2>4. r \notin fresh
    BY <1>0, <2>2 DEF FreshUnknown, Unclaimed
  <2>5. \A q \in fresh : left'[q] = left[q]
    BY <1>0, <1>1, <2>2, <2>4 DEF TypeOK
  <2>6. TypeOK' /\ HandlerHasRun'
    BY <1>0, <1>3, <2>1, <2>2, <2>3, SMTT(30) DEF CompensateDeletes, DeleteRun, TypeOK, Registers, Entries
  <2>7. FreshUnknown'
    BY <1>0, <1>3, <2>1, <2>2, <2>5 DEF CompensateDeletes, TypeOK, Registers, FreshUnknown, Unclaimed
  <2> QED BY <2>6, <2>7 DEF Known
<1>4. ASSUME NEW k \in Tasks, CompensateEnds(r, k)
      PROVE  Known'
  <2>1. Registers({})
    BY <1>0, <1>4, ClearRange DEF CompensateEnds
  <2>2. left[r][k] = 1 /\ left' = [left EXCEPT ![r][k] = 0]
    BY <1>4 DEF CompensateEnds
  <2>3. left' \in [Runs -> [Tasks -> 0..(Attempts + 1)]]
    BY <1>1, <2>2
  <2>4. \A q \in fresh : left'[q] = left[q]
    BY <1>0, <1>1, <2>2 DEF FreshUnknown, Unclaimed, TypeOK
  <2>5. TypeOK' /\ HandlerHasRun'
    BY <1>0, <1>4, <2>1, <2>3, SMTT(30) DEF CompensateEnds, TypeOK, Registers, Entries
  <2>6. FreshUnknown'
    BY <1>0, <1>4, <2>1, <2>4 DEF CompensateEnds, TypeOK, Registers, FreshUnknown, Unclaimed
  <2> QED BY <2>5, <2>6 DEF Known
<1>5. CASE SweepEnds(r)
  <2>1. Registers({})
    BY <1>0, <1>5, ClearRange DEF SweepEnds
  <2>2. /\ left[r]["sweep"] = 1 /\ left' = [left EXCEPT ![r]["sweep"] = 0]
        /\ keys' \subseteq keys /\ outbox' \subseteq outbox /\ faults' \in Nat
    BY <1>0, <1>5 DEF SweepEnds, EndJob, Fails, TypeOK
  <2>3. left' \in [Runs -> [Tasks -> 0..(Attempts + 1)]]
    <3>1. 0 \in 0..(Attempts + 1)
      OBVIOUS
    <3> QED BY <1>1, <2>2, <3>1 DEF Tasks
  <2>4. \A q \in fresh : left'[q] = left[q]
    BY <1>0, <1>1, <2>2 DEF FreshUnknown, Unclaimed, TypeOK, Tasks
  <2>5. TypeOK' /\ HandlerHasRun'
    BY <1>0, <1>5, <2>1, <2>2, <2>3, SMTT(30) DEF SweepEnds, TypeOK, Registers, Entries
  <2>6. FreshUnknown'
    BY <1>0, <1>5, <2>1, <2>2, <2>4 DEF SweepEnds, TypeOK, Registers, FreshUnknown, Unclaimed
  <2> QED BY <2>5, <2>6 DEF Known
<1>6. CASE PollDue(r)
  <2>1. Registers({})
    BY <1>0, <1>6, RegistryKept DEF PollDue
  <2>2. /\ r \in outbox /\ keys' = keys \cup {r}
        /\ left' = IF r \in keys THEN left ELSE [left EXCEPT ![r]["sweep"] = 2]
    BY <1>6 DEF PollDue, Polled, Spawn
  <2>3. left' \in [Runs -> [Tasks -> 0..(Attempts + 1)]]
    <3>1. 2 \in 0..(Attempts + 1)
      OBVIOUS
    <3> QED BY <1>1, <2>2, <3>1
  <2>4. \A q \in fresh : left'[q] = left[q]
    BY <1>0, <1>1, <2>2 DEF FreshUnknown, Unclaimed, TypeOK
  <2>5. TypeOK' /\ HandlerHasRun'
    BY <1>0, <1>6, <2>1, <2>2, <2>3, SMTT(30) DEF PollDue, TypeOK, Registers, Entries
  <2>6. FreshUnknown'
    BY <1>0, <1>6, <2>1, <2>4 DEF PollDue, TypeOK, Registers, FreshUnknown, Unclaimed
  <2> QED BY <2>5, <2>6 DEF Known
<1> QED BY <1>2, <1>3, <1>4, <1>5, <1>6 DEF Compensating

\* The requests and the restart.
LEMMA KnownToRequests ==
    ASSUME Known,
           \/ WipeStepTaken \/ CrashRestart
           \/ \E kind \in {"delete", "reextract"} : BeginWipe(kind)
    PROVE  Known'
<1> USE RagAssumption DEF drawn, HandlerHasRun, store, intake, compensation, sweeps, counts, Wiping, WipeStep, NoWipe
<1>0. TypeOK /\ HandlerHasRun /\ FreshUnknown
  BY DEF Known
<1> DEFINE WipeStates == [pc : WipePcs, kind : {"none", "delete", "reextract"}, targets : SUBSET Runs]
<1>t. wipe \in WipeStates /\ NoWipe \in WipeStates
  BY <1>0 DEF TypeOK, WipePcs
<1>1. ASSUME NEW kind \in {"delete", "reextract"}, BeginWipe(kind)
      PROVE  Known'
  <2>1. Registers({})
    BY <1>0, <1>1, RegistryKept DEF BeginWipe
  <2>2. wipe' \in WipeStates /\ wipe'.targets \subseteq {active} \ {NoRun}
    BY <1>0, <1>1 DEF BeginWipe, TypeOK, WipePcs
  <2>3. TypeOK' /\ HandlerHasRun'
    BY <1>0, <1>1, <2>1, <2>2 DEF BeginWipe, TypeOK, Registers, Entries
  <2>4. FreshUnknown'
    BY <1>0, <1>1, <2>1, <2>2 DEF BeginWipe, TypeOK, Registers, FreshUnknown, Unclaimed
  <2> QED BY <2>3, <2>4 DEF Known
<1>2. CASE PeekInflight
  <2>1. Registers({})
    BY <1>0, <1>2, RegistryKept DEF PeekInflight
  <2>2. wipe' \in WipeStates /\ wipe'.targets \subseteq wipe.targets \cup ({inflight} \ {NoRun})
    BY <1>0, <1>2, <1>t DEF PeekInflight, TypeOK, WipePcs
  <2>3. TypeOK' /\ HandlerHasRun'
    BY <1>0, <1>2, <2>1, <2>2 DEF PeekInflight, TypeOK, Registers, Entries
  <2>4. FreshUnknown'
    BY <1>0, <1>2, <2>1, <2>2 DEF PeekInflight, TypeOK, Registers, FreshUnknown, Unclaimed
  <2> QED BY <2>3, <2>4 DEF Known
<1>3. CASE Abort
  <2>1. Registers({inflight} \ {NoRun})
    BY <1>0, <1>3, RevokeCurrentRange DEF Abort
  <2>2. wipe' \in WipeStates /\ wipe'.targets = wipe.targets
    BY <1>3, <1>t DEF Abort, WipePcs
  <2>3. TypeOK' /\ HandlerHasRun'
    <3>1. handler' \in HandlerStates /\ HandlerHasRun' /\ pipeline' \in BOOLEAN
      BY <1>0, <1>3 DEF Abort, TypeOK, HandlerStates
    <3> QED BY <1>0, <1>3, <2>1, <2>2, <3>1 DEF Abort, TypeOK, Registers, Entries, HandlerStates
  <2>4. FreshUnknown'
    BY <1>0, <1>3, <2>1, <2>2 DEF Abort, TypeOK, Registers, FreshUnknown, Unclaimed
  <2> QED BY <2>3, <2>4 DEF Known
<1>4. CASE ExtendTargets
  <2>1. Registers({inflight} \ {NoRun})
    BY <1>0, <1>4, RevokeCurrentRange DEF ExtendTargets
  <2>2. RevokeTarget \in (Runs \ fresh) \cup {NoRun}
    BY TargetRange
  <2>3. wipe' \in WipeStates /\ wipe'.targets \subseteq wipe.targets \cup (Runs \ fresh)
    BY <1>4, <1>t, <2>2 DEF ExtendTargets, Extended, WipePcs
  <2>4. TypeOK' /\ HandlerHasRun'
    BY <1>0, <1>4, <2>1, <2>3 DEF ExtendTargets, TypeOK, Registers, Entries
  <2>5. FreshUnknown'
    BY <1>0, <1>4, <2>1, <2>3 DEF ExtendTargets, TypeOK, Registers, FreshUnknown, Unclaimed
  <2> QED BY <2>4, <2>5 DEF Known
<1>5. ASSUME NEW done \in SUBSET Collections, Purge(done)
      PROVE  Known'
  <2>1. Registers({})
    BY <1>0, <1>5, RegistryKept DEF Purge
  <2>2. wipe' \in WipeStates /\ wipe'.targets \subseteq wipe.targets
    BY <1>5, <1>t DEF Purge, WipePcs
  <2>3. faults' \in Nat
    BY <1>0, <1>5 DEF Purge, Deleted, Fails, TypeOK
  <2>4. TypeOK' /\ HandlerHasRun'
    BY <1>0, <1>5, <2>1, <2>2, <2>3 DEF Purge, TypeOK, Registers, Entries
  <2>5. FreshUnknown'
    BY <1>0, <1>5, <2>1, <2>2 DEF Purge, TypeOK, Registers, FreshUnknown, Unclaimed
  <2> QED BY <2>4, <2>5 DEF Known
<1>6. CASE UnsetActive \/ Cascade \/ FinishReextract \/ FinishDelete
  <2>1. Registers({})
    BY <1>0, <1>6, RegistryKept DEF UnsetActive, Cascade, FinishReextract, FinishDelete
  <2>2. wipe' \in WipeStates /\ wipe'.targets \subseteq wipe.targets
    BY <1>6, <1>t DEF UnsetActive, Cascade, FinishReextract, FinishDelete, WipePcs
  <2>3. faults' \in Nat /\ epoch' \in Nat /\ active' \in {active, NoRun} /\ exists' \in BOOLEAN /\ pipeline' \in BOOLEAN
    <3>1. CASE UnsetActive \/ Cascade
      BY <1>0, <3>1 DEF UnsetActive, Cascade, Fails, TypeOK
    <3>2. CASE FinishReextract
      BY <1>0, <3>2 DEF FinishReextract, TypeOK
    <3>3. CASE FinishDelete
      BY <1>0, <3>3 DEF FinishDelete, TypeOK
    <3> QED BY <1>6, <3>1, <3>2, <3>3
  <2>4. UNCHANGED <<fresh, late, handler, previous, left, outbox, queue, evidence, straggler, unset, keys, torn, missed, crashes>>
    BY <1>6 DEF UnsetActive, Cascade, FinishReextract, FinishDelete
  <2>5. TypeOK' /\ HandlerHasRun'
    BY <1>0, <2>1, <2>2, <2>3, <2>4 DEF TypeOK, Registers, Entries
  <2>6. FreshUnknown'
    BY <1>0, <2>1, <2>2, <2>3, <2>4 DEF TypeOK, Registers, FreshUnknown, Unclaimed
  <2> QED BY <2>5, <2>6 DEF Known
<1>7. CASE ScheduleSweep
  <2>1. Registers({})
    BY <1>0, <1>7, RegistryKept DEF ScheduleSweep
  <2>2. CASE wipe.targets = {}
    <3>1. wipe' \in WipeStates /\ wipe'.targets = {}
      BY <1>7, <1>t, <2>2 DEF ScheduleSweep, WipePcs
    <3>2. UNCHANGED <<left, outbox, keys>>
      BY <1>7, <2>2 DEF ScheduleSweep
    <3>3. TypeOK' /\ HandlerHasRun'
      BY <1>0, <1>7, <2>1, <3>1, <3>2 DEF ScheduleSweep, TypeOK, Registers, Entries
    <3>4. FreshUnknown'
      BY <1>0, <1>7, <2>1, <3>1, <3>2 DEF ScheduleSweep, TypeOK, Registers, FreshUnknown, Unclaimed
    <3> QED BY <3>3, <3>4 DEF Known
  <2>3. CASE wipe.targets # {}
    <3>1. PICK r \in wipe.targets : Enqueue(r) /\ wipe' = [wipe EXCEPT !.targets = @ \ {r}]
      BY <1>7, <2>3 DEF ScheduleSweep
    <3>2. r \in Runs \ fresh
      BY <1>0 DEF TypeOK, FreshUnknown
    <3>3. wipe' \in WipeStates /\ wipe'.targets \subseteq wipe.targets
      BY <1>t, <3>1
    <3>4. /\ outbox' = outbox \cup {r} /\ keys' \subseteq keys \cup {r}
          /\ left' \in {left, [left EXCEPT ![r]["sweep"] = Attempts + 1]}
      BY <3>1 DEF Enqueue, Spawn
    <3>5. /\ left' \in [Runs -> [Tasks -> 0..(Attempts + 1)]]
          /\ \A q \in fresh : left'[q] = left[q]
      <4>1. /\ left \in [Runs -> [Tasks -> 0..(Attempts + 1)]]
            /\ Attempts + 1 \in 0..(Attempts + 1) /\ fresh \subseteq Runs
        BY <1>0 DEF TypeOK
      <4>2. CASE left' = left
        BY <4>1, <4>2
      <4>3. CASE left' = [left EXCEPT ![r]["sweep"] = Attempts + 1]
        BY <3>2, <4>1, <4>3
      <4> QED BY <3>4, <4>2, <4>3
    <3>6. TypeOK' /\ HandlerHasRun'
      BY <1>0, <1>7, <2>1, <3>2, <3>3, <3>4, <3>5 DEF ScheduleSweep, TypeOK, Registers, Entries
    <3>7. FreshUnknown'
      BY <1>0, <1>7, <2>1, <3>2, <3>3, <3>4, <3>5 DEF ScheduleSweep, TypeOK, Registers, FreshUnknown, Unclaimed
    <3> QED BY <3>6, <3>7 DEF Known
  <2> QED BY <2>2, <2>3
<1>8. CASE CrashRestart
  <2>1. Named' = {} /\ revoked' \in Entries
    BY <1>8 DEF CrashRestart, Named, Entries
  <2>2. PICK n \in {1, Attempts} :
           left' = [r \in Runs |-> [k \in Tasks |-> IF k = "sweep" /\ r \in outbox THEN n + 1 ELSE 0]]
    BY <1>8 DEF CrashRestart
  <2>3. /\ left' \in [Runs -> [Tasks -> 0..(Attempts + 1)]]
        /\ \A r \in Runs \ outbox : \A k \in Tasks : left'[r][k] = 0
    <3>1. n + 1 \in 0..(Attempts + 1)
      OBVIOUS
    <3> QED BY <2>2, <3>1
  <2>4. handler' \in HandlerStates /\ HandlerHasRun' /\ handler'.run = NoRun /\ handler'.prev = NoRun
    BY <1>8 DEF CrashRestart, Idle, HandlerStates, HandlerPcs
  <2>5. lost' \subseteq Runs /\ torn' \in BOOLEAN /\ queue' \in Seq(Nat)
    BY <1>0, <1>8 DEF CrashRestart, TypeOK
  <2>8. /\ wipe' \in WipeStates /\ inflight' = NoRun /\ straggler' = {} /\ previous' = {}
        /\ unset' = {} /\ keys' = outbox /\ pipeline' = FALSE /\ crashes' = crashes + 1
        /\ UNCHANGED <<exists, active, evidence, fresh, late, outbox, epoch, missed, faults>>
    BY <1>8, <1>t DEF CrashRestart
  <2>6. TypeOK'
    <3>1. /\ exists' \in BOOLEAN /\ active' \in Runs \cup {NoRun} /\ evidence' \subseteq Runs \X Collections
          /\ fresh' \subseteq Runs /\ late' \subseteq Runs /\ outbox' \subseteq Runs /\ keys' \subseteq Runs
          /\ epoch' \in Nat /\ faults' \in Nat /\ crashes' \in Nat /\ missed' \subseteq Runs
      BY <1>0, <2>8 DEF TypeOK
    <3>2. wipe' \in WipeStates /\ handler' \in HandlerStates /\ revoked' \in Entries
      BY <2>1, <2>4, <2>8
    <3> QED BY <2>3, <2>5, <2>8, <3>1, <3>2 DEF TypeOK, Entries, HandlerStates
  <2>7. FreshUnknown'
    BY <1>0, <1>8, <2>1, <2>3, <2>4 DEF CrashRestart, TypeOK, FreshUnknown, Unclaimed
  <2> QED BY <2>4, <2>6, <2>7 DEF Known
<1> QED BY <1>1, <1>2, <1>3, <1>4, <1>5, <1>6, <1>7, <1>8 DEF WipeStepTaken

LEMMA KnownStutters ==
    ASSUME Known, UNCHANGED vars
    PROVE  Known'
BY DEF Known, TypeOK, HandlerHasRun, FreshUnknown, Unclaimed, Named, vars

LEMMA KnownStep ==
    ASSUME Known, [Next]_vars
    PROVE  Known'
<1>1. CASE UNCHANGED vars
  BY <1>1, KnownStutters
<1>2. CASE Next
  BY <1>2, KnownToHandler, KnownToOthers, KnownToCompensations, KnownToRequests DEF Next
<1> QED BY <1>1, <1>2

\* Handler, requests, compensations and watchdog keep to their vocabulary, and the id
\* that vector_store_replace draws for the next run is known to none of them.
THEOREM IndexTypeCorrect == Spec => [](TypeOK /\ FreshUnknown)
<1>1. Init => Known
  BY KnownAtStart
<1>2. Known /\ [Next]_vars => Known'
  BY KnownStep
<1>3. Known => TypeOK /\ FreshUnknown
  BY DEF Known
<1> QED BY <1>1, <1>2, <1>3, PTL DEF Spec

-----------------------------------------------------------------------------
\* ---- The outbox --------------------------------------------------------
Gone(r) == evidence \cap EvidenceOf(r) = {}

\* A sweep that has made its last attempt has left nothing, unless the store failed
\* it, and nothing comes after it.
SweptClean ==
    \A r \in Runs : left[r]["sweep"] = 1 => Settled(r) /\ (Gone(r) \/ r \in missed)

\* A run that somebody knows and from which nothing can arrive stays so, and gets no
\* new evidence: the steps that write are those of a run that is not settled.
Rests(r) == Settled(r)' /\ (Gone(r) => Gone(r)')

LEMMA RestsByIndexing ==
    ASSUME Known, NEW r \in Runs \ fresh, Settled(r), Indexing
    PROVE  Rests(r)
<1> USE DEF drawn, Rests, Gone, Settled, EvidenceOf, store, At, Step
<1>0. TypeOK /\ HandlerHasRun
  BY DEF Known
<1>1. CASE TakeEvent \/ Gate \/ Activate \/ EndActivation
  <2>1. evidence' = evidence /\ straggler' = straggler
    BY <1>1 DEF TakeEvent, Gate, Activate, EndActivation
  <2>2. CASE TakeEvent \/ EndActivation
    <3>1. CASE handler' = Idle
      BY <2>1, <3>1 DEF Collections, Idle
    <3>2. CASE handler' = [Idle EXCEPT !.pc = "taken", !.epoch = Head(queue)]
      BY <2>1, <3>2 DEF Collections, Idle
    <3> QED BY <2>2, <3>1, <3>2 DEF TakeEvent, EndActivation
  <2>3. CASE Gate \/ Activate
    <3>1. handler'.run = handler.run /\ handler.pc \in {"gate", "activate"}
      BY <1>0, <2>3 DEF Gate, Activate, TypeOK
    <3>2. handler.run # r
      BY <3>1
    <3> QED BY <2>1, <3>1, <3>2
  <2> QED BY <1>1, <2>2, <2>3
<1>2. CASE BeginRun
  <2>1. evidence' = evidence /\ straggler' = straggler /\ handler'.run \in fresh
    BY <1>0, <1>2 DEF BeginRun, TypeOK
  <2> QED BY <2>1
<1>3. CASE HelperRevokes \/ HandlerRevokes
  <2>1. /\ evidence' = evidence /\ straggler' = straggler
        /\ handler'.pc \in {"timeout2", "idle"}
    BY <1>0, <1>3 DEF HelperRevokes, HandlerRevokes, Idle, TypeOK
  <2> QED BY <2>1 DEF Collections
<1>4. ASSUME NEW c \in Collections, Upsert(c)
      PROVE  Rests(r)
  <2>1. /\ straggler' = straggler /\ handler.pc = c
        /\ evidence' = evidence \cup {<<handler.run, c>>} /\ handler'.run = handler.run
    BY <1>0, <1>4 DEF Upsert, TypeOK
  <2>2. handler.run # r
    BY <2>1
  <2> QED BY <2>1, <2>2
<1>5. ASSUME NEW done \in SUBSET Collections, CleanUpOwn(done)
      PROVE  Rests(r)
  <2>1. /\ straggler' = straggler /\ evidence' \subseteq evidence
        /\ handler'.pc \in {"timeout", "idle"}
    BY <1>0, <1>5 DEF CleanUpOwn, Idle, TypeOK
  <2> QED BY <2>1 DEF Collections
<1> QED BY <1>1, <1>2, <1>3, <1>4, <1>5 DEF Indexing

LEMMA RestsByOthers ==
    ASSUME Known, NEW r \in Runs, Settled(r),
           \/ Publish \/ WatchdogRevokes \/ RevokeElsewhere
           \/ \E c \in Collections : UpsertFails(c) \/ IndexTimesOut(c)
           \/ \E w \in straggler : StragglerLands(w)
           \/ \E q \in Runs, done \in SUBSET Collections : CleanUpPrevious(q, done)
    PROVE  Rests(r)
<1> USE DEF drawn, Rests, Gone, Settled, EvidenceOf, store, At, Step
<1>0. TypeOK
  BY DEF Known
<1>1. CASE \/ Publish \/ WatchdogRevokes \/ RevokeElsewhere
           \/ \E q \in Runs, done \in SUBSET Collections : CleanUpPrevious(q, done)
  <2>1. UNCHANGED <<straggler, handler>> /\ evidence' \subseteq evidence
    BY <1>1 DEF Publish, WatchdogRevokes, RevokeElsewhere, CleanUpPrevious
  <2> QED BY <2>1
<1>2. ASSUME NEW c \in Collections, UpsertFails(c) \/ IndexTimesOut(c)
      PROVE  Rests(r)
  <2>1. /\ evidence' = evidence /\ handler.pc = c
        /\ straggler' \subseteq straggler \cup {<<handler.run, c>>}
        /\ handler'.pc \in {"failed", "cancelled"}
    BY <1>0, <1>2 DEF UpsertFails, IndexTimesOut, TypeOK
  <2>2. handler.run # r
    BY <2>1
  <2> QED BY <2>1, <2>2 DEF Collections
<1>3. ASSUME NEW w \in straggler, StragglerLands(w)
      PROVE  Rests(r)
  BY <1>3 DEF StragglerLands
<1> QED BY <1>1, <1>2, <1>3

LEMMA RestsByTheRest ==
    ASSUME Known, NEW r \in Runs, Settled(r),
           \/ WipeStepTaken \/ CrashRestart
           \/ \E kind \in {"delete", "reextract"} : BeginWipe(kind)
           \/ \E q \in Runs : Compensating(q) \/ PollDue(q)
    PROVE  Rests(r)
<1> USE DEF drawn, Rests, Gone, Settled, EvidenceOf, store
<1>1. CASE CrashRestart
  BY <1>1 DEF CrashRestart, Idle, Collections
<1>2. CASE \/ PeekInflight \/ Abort \/ ExtendTargets \/ UnsetActive \/ ScheduleSweep
           \/ Cascade \/ FinishReextract \/ FinishDelete
           \/ \E kind \in {"delete", "reextract"} : BeginWipe(kind)
           \/ \E done \in SUBSET Collections : Purge(done)
  <2>1. UNCHANGED <<straggler, handler>> /\ evidence' \subseteq evidence
    BY <1>2 DEF PeekInflight, Abort, ExtendTargets, UnsetActive, ScheduleSweep, Cascade,
                FinishReextract, FinishDelete, BeginWipe, Purge
  <2> QED BY <2>1
<1>3. ASSUME NEW q \in Runs, Compensating(q) \/ PollDue(q)
      PROVE  Rests(r)
  <2>1. UNCHANGED <<straggler, handler>> /\ evidence' \subseteq evidence
    BY <1>3 DEF Compensating, SweepLooks, CompensateEnds, CompensateDeletes, DeleteRun,
                SweepEnds, PollDue
  <2> QED BY <2>1
<1> QED BY <1>1, <1>2, <1>3 DEF WipeStepTaken

LEMMA SettledRests ==
    ASSUME Known, NEW r \in Runs \ fresh, Settled(r), Next
    PROVE  Rests(r)
BY RestsByIndexing, RestsByOthers, RestsByTheRest DEF Next

\* What a step that is not one of the compensations leaves to them: each goes on or
\* starts anew, and a miss is not forgotten.
LEMMA TasksElsewhere ==
    ASSUME Known,
           \/ Indexing \/ WipeStepTaken \/ CrashRestart
           \/ Publish \/ WatchdogRevokes \/ RevokeElsewhere
           \/ \E c \in Collections : UpsertFails(c) \/ IndexTimesOut(c)
           \/ \E w \in straggler : StragglerLands(w)
           \/ \E q \in Runs, done \in SUBSET Collections : CleanUpPrevious(q, done)
           \/ \E kind \in {"delete", "reextract"} : BeginWipe(kind)
    PROVE  /\ missed' = missed
           /\ \A r \in Runs, k \in Tasks : left'[r][k] = 1 => left[r][k] = 1
<1> USE RagAssumption DEF counts
<1>l. left \in [Runs -> [Tasks -> 0..(Attempts + 1)]] /\ Attempts + 1 # 1
  BY DEF Known, TypeOK
<1>1. CASE CrashRestart
  <2>1. PICK n \in {1, Attempts} :
           left' = [q \in Runs |-> [k \in Tasks |-> IF k = "sweep" /\ q \in outbox THEN n + 1 ELSE 0]]
    BY <1>1 DEF CrashRestart
  <2>2. \A r \in Runs, k \in Tasks : left'[r][k] \in {0, n + 1}
    BY <2>1
  <2>3. n + 1 # 1
    OBVIOUS
  <2> QED BY <1>1, <2>2, <2>3 DEF CrashRestart
<1>2. CASE HelperRevokes \/ HandlerRevokes
  <2>1. PICK k \in Tasks : ScheduleOrphan(k)
    BY <1>2 DEF HelperRevokes, HandlerRevokes, Tasks
  <2>2. left' = left \/ \E q \in Runs : left' = [left EXCEPT ![q][k] = Attempts + 1]
    BY <2>1, TargetRange DEF ScheduleOrphan
  <2> QED BY <1>2, <1>l, <2>2 DEF HelperRevokes, HandlerRevokes
<1>3. CASE ScheduleSweep
  <2>1. left' = left \/ \E q \in Runs : left' = [left EXCEPT ![q]["sweep"] = Attempts + 1]
    BY <1>3 DEF ScheduleSweep, Enqueue, Spawn, Known, TypeOK
  <2> QED BY <1>3, <1>l, <2>1 DEF ScheduleSweep, Tasks
<1>4. CASE Indexing /\ ~(HelperRevokes \/ HandlerRevokes)
  BY <1>4 DEF Indexing, TakeEvent, BeginRun, Gate, Activate, EndActivation, Upsert, CleanUpOwn,
              compensation
<1>5. CASE WipeStepTaken /\ ~ScheduleSweep
  BY <1>5 DEF WipeStepTaken, PeekInflight, Abort, ExtendTargets, Purge, UnsetActive, Cascade,
              FinishReextract, FinishDelete, compensation
<1>6. CASE \/ Publish \/ WatchdogRevokes \/ RevokeElsewhere
           \/ \E c \in Collections : UpsertFails(c) \/ IndexTimesOut(c)
           \/ \E w \in straggler : StragglerLands(w)
           \/ \E q \in Runs, done \in SUBSET Collections : CleanUpPrevious(q, done)
           \/ \E kind \in {"delete", "reextract"} : BeginWipe(kind)
  BY <1>6 DEF Publish, WatchdogRevokes, RevokeElsewhere, UpsertFails, IndexTimesOut,
              StragglerLands, CleanUpPrevious, BeginWipe, compensation
<1> QED BY <1>1, <1>2, <1>3, <1>4, <1>5, <1>6

\* A compensation makes its last attempt itself.
LEMMA TasksThere ==
    ASSUME Known, NEW q \in Runs, Compensating(q) \/ PollDue(q),
           NEW r \in Runs, NEW k \in Tasks, left'[r][k] = 1
    PROVE  \/ left[r][k] = 1
           \/ left[r][k] = 2 /\ \E done \in SUBSET Collections : CompensateDeletes(r, k, done)
<1>l. left \in [Runs -> [Tasks -> 0..(Attempts + 1)]] /\ Attempts \in Nat
  BY RagAssumption DEF Known, TypeOK
<1>1. ASSUME NEW t \in Tasks, NEW done \in SUBSET Collections, CompensateDeletes(q, t, done)
      PROVE  left[r][k] = 1 \/ (left[r][k] = 2 /\ r = q /\ k = t)
  <2>1. left' = [left EXCEPT ![q][t] = @ - 1]
    BY <1>1 DEF CompensateDeletes
  <2>2. CASE r = q /\ k = t
    <3>1. left'[r][k] = left[r][k] - 1 /\ left[r][k] \in Int
      BY <1>l, <2>1, <2>2
    <3> QED BY <2>2, <3>1
  <2>3. CASE ~(r = q /\ k = t)
    BY <1>l, <2>1, <2>3
  <2> QED BY <2>2, <2>3
<1>2. CASE SweepLooks(q) \/ PollDue(q) \/ SweepEnds(q) \/ \E t \in Tasks : CompensateEnds(q, t)
  <2>1. \/ left' = left
        \/ \E t \in Tasks, n \in {0, 2} : left' = [left EXCEPT ![q][t] = n]
    <3>1. CASE \E t \in Tasks : CompensateEnds(q, t)
      BY <3>1 DEF CompensateEnds
    <3>2. CASE PollDue(q)
      <4>1. left' = left \/ left' = [left EXCEPT ![q]["sweep"] = 2]
        BY <3>2 DEF PollDue, Spawn
      <4> QED BY <4>1 DEF Tasks
    <3>3. CASE SweepEnds(q)
      <4>1. left' = [left EXCEPT ![q]["sweep"] = 0]
        BY <3>3 DEF SweepEnds
      <4> QED BY <4>1 DEF Tasks
    <3>4. CASE SweepLooks(q)
      BY <3>4 DEF SweepLooks
    <3> QED BY <1>2, <3>1, <3>2, <3>3, <3>4
  <2> QED BY <1>l, <2>1
<1> QED BY <1>1, <1>2 DEF Compensating

LEMMA MissedStays ==
    ASSUME Known, Next
    PROVE  missed \subseteq missed'
<1>1. ASSUME NEW q \in Runs, Compensating(q) \/ PollDue(q)
      PROVE  missed \subseteq missed'
  BY <1>1 DEF Compensating, SweepLooks, CompensateEnds, CompensateDeletes, SweepEnds, PollDue, counts
<1> QED BY <1>1, TasksElsewhere DEF Next

LEMMA LastAttempt ==
    ASSUME Known, Next, NEW r \in Runs, NEW k \in Tasks, left'[r][k] = 1
    PROVE  \/ left[r][k] = 1
           \/ left[r][k] = 2 /\ \E done \in SUBSET Collections : CompensateDeletes(r, k, done)
BY TasksElsewhere, TasksThere DEF Next

LEMMA SweptStep ==
    ASSUME Known, SweptClean, Next
    PROVE  SweptClean'
<1> SUFFICES ASSUME NEW r \in Runs, left'[r]["sweep"] = 1
             PROVE  Settled(r)' /\ (Gone(r)' \/ r \in missed')
  BY DEF SweptClean
<1>1. "sweep" \in Tasks /\ missed \subseteq missed'
  BY MissedStays DEF Tasks
<1>2. left[r]["sweep"] # 0 => r \in Runs \ fresh
  BY <1>1 DEF Known, FreshUnknown, Unclaimed
<1>3. CASE left[r]["sweep"] = 1
  <2>1. Settled(r) /\ (Gone(r) \/ r \in missed) /\ r \in Runs \ fresh
    BY <1>2, <1>3 DEF SweptClean
  <2>2. Rests(r)
    BY <2>1, SettledRests
  <2> QED BY <1>1, <2>1, <2>2 DEF Rests
<1>4. ASSUME NEW done \in SUBSET Collections, left[r]["sweep"] = 2, CompensateDeletes(r, "sweep", done)
      PROVE  Settled(r)' /\ (Gone(r)' \/ r \in missed')
  <2>1. Settled(r) /\ r \in Runs \ fresh
    BY <1>2, <1>4 DEF CompensateDeletes, Due
  <2>2. Rests(r)
    BY <2>1, SettledRests
  <2>3. CASE done = Collections
    BY <1>4, <2>2, <2>3 DEF CompensateDeletes, DeleteRun, Rests, Gone, EvidenceOf
  <2>4. CASE done # Collections
    BY <1>4, <2>2, <2>4 DEF CompensateDeletes, Misses, Rests
  <2> QED BY <2>3, <2>4
<1> QED BY <1>1, <1>3, <1>4, LastAttempt

\* Only the end of a sweep takes a row out of the outbox.
LEMMA OutboxShrinks ==
    ASSUME Next, NEW r \in outbox, r \notin outbox'
    PROVE  SweepEnds(r)
<1>1. ASSUME NEW q \in Runs, Compensating(q) \/ PollDue(q)
      PROVE  SweepEnds(r)
  <2>1. CASE SweepEnds(q)
    BY <2>1 DEF SweepEnds
  <2>2. CASE PollDue(q) \/ SweepLooks(q)
    BY <2>2 DEF PollDue, SweepLooks, sweeps
  <2>3. CASE \E k \in Tasks : CompensateEnds(q, k) \/ \E done \in SUBSET Collections : CompensateDeletes(q, k, done)
    BY <2>3 DEF CompensateEnds, CompensateDeletes, sweeps
  <2> QED BY <1>1, <2>1, <2>2, <2>3 DEF Compensating
<1>2. CASE WipeStepTaken \/ CrashRestart \/ \E kind \in {"delete", "reextract"} : BeginWipe(kind)
  <2>1. CASE ScheduleSweep
    BY <2>1 DEF ScheduleSweep, Enqueue, sweeps
  <2>2. CASE ~ScheduleSweep
    BY <1>2, <2>2 DEF WipeStepTaken, CrashRestart, BeginWipe, PeekInflight, Abort, ExtendTargets,
                      Purge, UnsetActive, Cascade, FinishReextract, FinishDelete, sweeps
  <2> QED BY <2>1, <2>2
<1>3. CASE Indexing
  BY <1>3 DEF Indexing, TakeEvent, BeginRun, Gate, Activate, EndActivation, HelperRevokes,
              HandlerRevokes, Upsert, CleanUpOwn, sweeps
<1>4. CASE \/ Publish \/ WatchdogRevokes \/ RevokeElsewhere
           \/ \E c \in Collections : UpsertFails(c) \/ IndexTimesOut(c)
           \/ \E w \in straggler : StragglerLands(w)
           \/ \E q \in Runs, done \in SUBSET Collections : CleanUpPrevious(q, done)
  BY <1>4 DEF Publish, WatchdogRevokes, RevokeElsewhere, UpsertFails, IndexTimesOut,
              StragglerLands, CleanUpPrevious, sweeps
<1> QED BY <1>1, <1>2, <1>3, <1>4 DEF Next

\* A row of the outbox is acknowledged only when its run has left the store, or when
\* the last attempt of its sweep has failed there, whatever else fails, crashes, is
\* revoked or arrives late.
THEOREM AckMeansGoneOrMissed == Spec => AckedUnlessMissed
<1>1. Init => Known /\ SweptClean
  <2>1. Init => SweptClean
    BY DEF Init, SweptClean, Tasks
  <2> QED BY <2>1, KnownAtStart
<1>2. Known /\ SweptClean /\ [Next]_vars => (Known /\ SweptClean)'
  <2> SUFFICES ASSUME Known, SweptClean, [Next]_vars
               PROVE  Known' /\ SweptClean'
    OBVIOUS
  <2>1. CASE UNCHANGED vars
    BY <2>1, KnownStep DEF SweptClean, Gone, Settled, EvidenceOf, vars
  <2>2. CASE Next
    BY <2>2, KnownStep, SweptStep
  <2> QED BY <2>1, <2>2
<1>3. Known /\ SweptClean /\ [Next]_vars
         => [\A r \in outbox \ outbox' :
                evidence \cap EvidenceOf(r) = {} \/ r \in missed]_vars
  <2> SUFFICES ASSUME Known, SweptClean, Next, NEW r \in outbox \ outbox'
               PROVE  evidence \cap EvidenceOf(r) = {} \/ r \in missed
    OBVIOUS
  <2>1. SweepEnds(r) /\ r \in Runs
    BY OutboxShrinks DEF Known, TypeOK
  <2> QED BY <2>1 DEF SweepEnds, SweptClean, Gone
<1> QED BY <1>1, <1>2, <1>3, PTL DEF Spec, AckedUnlessMissed

-----------------------------------------------------------------------------
\* ---- The index a paper shows is whole ------------------------------------
\* A run that may still pass the gate has lost nothing of what it wrote, because
\* whoever deletes evidence of a run has revoked it first (RunIntact); a wipe
\* revokes the run under way before it purges, and what begins after that is
\* late (WipeStopsRuns, NoneAdmittedInWipe); and the run the pointer names is
\* neither one being cleaned up nor a replaced one (Pointer).

\* The run of the handler will pass the gate or has passed it.
Building ==
    \/ handler.pc \in Collections \cup {"gate"} /\ inflight = handler.run
    \/ handler.pc = "activate"

\* What a run has written when the handler stands at pc.
WrittenBefore(pc) ==
    CASE pc = "chunks" -> {}
      [] pc = "entities" -> {"chunks"}
      [] pc = "relations" -> {"chunks", "entities"}
      [] OTHER -> Collections

RunIntact ==
    Building /\ handler.run \notin late =>
       /\ \A k \in Tasks : left[handler.run][k] = 0
       /\ {handler.run} \X WrittenBefore(handler.pc) \subseteq evidence

InflightIsHandlers ==
    inflight # NoRun =>
       inflight = handler.run /\ handler.pc \in Collections \cup {"gate", "activate", "clear"}

WipeStopsRuns ==
    wipe.pc \in {"purge", "unset", "enqueue", "cascade", "finish"} => inflight \in late \cup {NoRun}

NoneAdmittedInWipe ==
    wipe.pc \in {"unset", "enqueue", "cascade", "finish"} /\ handler.pc = "activate" =>
       handler.run \in late

Pointer ==
    /\ handler.run # NoRun /\ handler.pc # "clear" => active # handler.run
    /\ handler.pc = "clear" => active \in {handler.run, NoRun}
    /\ handler.prev # NoRun => handler.prev # handler.run
    /\ \A r \in previous : r # active /\ r # handler.run

IndexInv ==
    /\ RunIntact /\ InflightIsHandlers /\ WipeStopsRuns /\ NoneAdmittedInWipe
    /\ Pointer /\ ActiveComplete

LEMMA IndexAtStart == Init => IndexInv
BY RagAssumption DEF Init, IndexInv, RunIntact, Building, InflightIsHandlers, WipeStopsRuns,
   NoneAdmittedInWipe, Pointer, ActiveComplete, Idle, NoWipe, Collections

-----------------------------------------------------------------------------
\* ---- Steps of the handler ----------------------------------------------
LEMMA IndexToHandler ==
    ASSUME Known, IndexInv, Indexing
    PROVE  IndexInv'
<1> USE RagAssumption DEF drawn, HandlerHasRun, store, intake, compensation, sweeps, counts, registry, At, Step
<1>0. TypeOK /\ HandlerHasRun /\ FreshUnknown
  BY DEF Known
<1>t. /\ RunIntact /\ InflightIsHandlers /\ WipeStopsRuns /\ NoneAdmittedInWipe
      /\ Pointer /\ ActiveComplete
  BY DEF IndexInv
<1>1. CASE TakeEvent
  <2>1. /\ handler.pc = "idle" /\ handler'.pc \in {"idle", "taken"} /\ handler'.run = NoRun /\ handler'.prev = NoRun
        /\ UNCHANGED <<active, evidence, torn, late, inflight, left, previous, wipe>>
    <3>1. handler' = Idle \/ handler' = [Idle EXCEPT !.pc = "taken", !.epoch = Head(queue)]
      BY <1>1 DEF TakeEvent
    <3>2. CASE handler' = Idle
      BY <1>1, <3>2 DEF TakeEvent, Idle
    <3>3. CASE handler' = [Idle EXCEPT !.pc = "taken", !.epoch = Head(queue)]
      BY <1>1, <3>3 DEF TakeEvent, Idle
    <3> QED BY <3>1, <3>2, <3>3
  <2>2. inflight' = NoRun
    BY <1>t, <2>1 DEF InflightIsHandlers, Collections
  <2>3. Pointer'
    BY <1>0, <1>t, <2>1 DEF Pointer, TypeOK
  <2>4. RunIntact' /\ InflightIsHandlers' /\ WipeStopsRuns' /\ NoneAdmittedInWipe'
    BY <1>t, <2>1, <2>2 DEF RunIntact, Building, InflightIsHandlers, WipeStopsRuns, NoneAdmittedInWipe, Collections
  <2>5. ActiveComplete'
    BY <1>t, <2>1 DEF ActiveComplete, EvidenceOf
  <2> QED BY <2>3, <2>4, <2>5 DEF IndexInv
<1>2. CASE BeginRun
  <2>1. PICK r \in fresh :
           /\ inflight' = r
           /\ late' = IF LookedAway THEN late \cup {r} ELSE late
           /\ handler' = [handler EXCEPT !.pc = "chunks", !.run = r, !.prev = active]
    BY <1>2 DEF BeginRun
  <2>2. /\ UNCHANGED <<active, evidence, torn, left, previous, wipe>> /\ late \subseteq late'
        /\ handler'.pc = "chunks" /\ handler'.run = r /\ handler'.prev = active
    BY <1>0, <1>2, <2>1 DEF BeginRun, TypeOK
  <2>3. r # NoRun /\ r # active /\ r \notin previous /\ \A k \in Tasks : left[r][k] = 0
    BY <1>0, <2>1 DEF FreshUnknown, Unclaimed, TypeOK
  <2>4. Pointer'
    BY <1>0, <1>t, <2>2, <2>3 DEF Pointer, TypeOK
  <2>5. RunIntact'
    BY <2>2, <2>3 DEF RunIntact, Building, WrittenBefore, Collections
  <2>6. InflightIsHandlers' /\ WipeStopsRuns' /\ NoneAdmittedInWipe'
    BY <2>1, <2>2 DEF InflightIsHandlers, WipeStopsRuns, NoneAdmittedInWipe, LookedAway, Collections
  <2>7. ActiveComplete'
    BY <1>t, <2>2 DEF ActiveComplete, EvidenceOf
  <2> QED BY <2>4, <2>5, <2>6, <2>7 DEF IndexInv
<1>3. CASE Gate
  <2>1. /\ handler.pc = "gate" /\ handler'.run = handler.run /\ handler'.prev = handler.prev
        /\ UNCHANGED <<active, evidence, torn, late, left, previous, wipe>>
    BY <1>0, <1>3 DEF Gate, TypeOK
  <2>2. handler.run \in Runs
    BY <1>0, <2>1 DEF TypeOK
  <2>3. \/ handler'.pc = "activate" /\ inflight' = inflight /\ inflight = handler.run
        \/ handler'.pc = "refused" /\ inflight' = NoRun
    <3>1. CASE MayActivate(handler.run)
      BY <1>0, <1>3, <3>1 DEF Gate, MayActivate, TypeOK
    <3>2. CASE ~MayActivate(handler.run)
      BY <1>0, <1>3, <1>t, <2>1, <3>2 DEF Gate, Revoke, TypeOK, InflightIsHandlers
    <3> QED BY <3>1, <3>2
  <2>4. Pointer' /\ ActiveComplete'
    BY <1>0, <1>t, <2>1, <2>3 DEF Pointer, ActiveComplete, EvidenceOf
  <2>5. RunIntact'
    BY <1>t, <2>1, <2>2, <2>3 DEF RunIntact, Building, WrittenBefore, Collections
  <2>6. InflightIsHandlers' /\ WipeStopsRuns' /\ NoneAdmittedInWipe'
    BY <1>t, <2>1, <2>2, <2>3 DEF InflightIsHandlers, WipeStopsRuns, NoneAdmittedInWipe, Collections
  <2> QED BY <2>4, <2>5, <2>6 DEF IndexInv
<1>4. CASE Activate
  <2>1. /\ handler.pc = "activate" /\ handler'.run = handler.run /\ handler'.prev = handler.prev
        /\ UNCHANGED <<evidence, late, left, previous, wipe>>
    BY <1>0, <1>4 DEF Activate, TypeOK
  <2>2. handler.run \in Runs
    BY <1>0, <2>1 DEF TypeOK
  <2>3. \/ handler'.pc = "clear" /\ inflight' = inflight /\ active' = handler.run
        \/ handler'.pc = "failed" /\ inflight' = NoRun /\ active' = active /\ torn' = torn
    <3>1. CASE exists
      BY <1>0, <1>4, <3>1 DEF Activate, TypeOK
    <3>2. CASE ~exists
      BY <1>0, <1>4, <1>t, <2>1, <3>2 DEF Activate, Revoke, TypeOK, InflightIsHandlers
    <3> QED BY <3>1, <3>2
  <2>4. handler.run \notin late => EvidenceOf(handler.run) \subseteq evidence
    BY <1>t, <2>1 DEF RunIntact, Building, WrittenBefore, EvidenceOf
  <2>5. Pointer' /\ ActiveComplete'
    BY <1>0, <1>t, <2>1, <2>2, <2>3, <2>4 DEF Pointer, ActiveComplete, EvidenceOf
  <2>6. RunIntact'
    BY <2>3 DEF RunIntact, Building, Collections
  <2>7. InflightIsHandlers' /\ WipeStopsRuns' /\ NoneAdmittedInWipe'
    BY <1>t, <2>1, <2>2, <2>3 DEF InflightIsHandlers, WipeStopsRuns, NoneAdmittedInWipe, Collections
  <2> QED BY <2>5, <2>6, <2>7 DEF IndexInv
<1>5. CASE EndActivation
  <2>1. /\ handler.pc = "clear" /\ handler' = Idle
        /\ UNCHANGED <<active, evidence, torn, late, left, wipe>>
        /\ previous' = IF handler.prev = NoRun THEN previous ELSE previous \cup {handler.prev}
    BY <1>5 DEF EndActivation
  <2>2. inflight' = NoRun
    BY <1>0, <1>5, <1>t, <2>1 DEF EndActivation, Clear, InflightIsHandlers, TypeOK
  <2>3. Pointer'
    <3>1. \A r \in previous' : r # active /\ r # NoRun
      BY <1>0, <1>t, <2>1 DEF Pointer, TypeOK
    <3> QED BY <2>1, <3>1 DEF Pointer, Idle
  <2>4. RunIntact' /\ InflightIsHandlers' /\ WipeStopsRuns' /\ NoneAdmittedInWipe'
    BY <1>t, <2>1, <2>2 DEF RunIntact, Building, InflightIsHandlers, WipeStopsRuns, NoneAdmittedInWipe, Idle, Collections
  <2>5. ActiveComplete'
    BY <1>t, <2>1 DEF ActiveComplete, EvidenceOf
  <2> QED BY <2>3, <2>4, <2>5 DEF IndexInv
<1>6. CASE HelperRevokes \/ HandlerRevokes
  <2>1. inflight = NoRun
    BY <1>6, <1>t DEF HelperRevokes, HandlerRevokes, InflightIsHandlers, Collections
  <2>2. inflight' = NoRun /\ UNCHANGED <<active, evidence, torn, late, previous, wipe>>
    BY <1>6, <2>1 DEF HelperRevokes, HandlerRevokes, ScheduleOrphan, RevokeCurrent
  <2>3. /\ handler'.pc \in {"timeout2", "idle"} /\ handler.pc # "clear"
        /\ \/ handler'.run = NoRun /\ handler'.prev = NoRun
           \/ handler'.run = handler.run /\ handler'.prev = handler.prev
    BY <1>0, <1>6 DEF HelperRevokes, HandlerRevokes, Idle, TypeOK
  <2>4. Pointer'
    BY <1>0, <1>t, <2>2, <2>3 DEF Pointer, TypeOK
  <2>5. RunIntact' /\ InflightIsHandlers' /\ WipeStopsRuns' /\ NoneAdmittedInWipe'
    BY <2>2, <2>3 DEF RunIntact, Building, InflightIsHandlers, WipeStopsRuns, NoneAdmittedInWipe, Collections
  <2>6. ActiveComplete'
    BY <1>t, <2>2 DEF ActiveComplete, EvidenceOf
  <2> QED BY <2>4, <2>5, <2>6 DEF IndexInv
<1>7. ASSUME NEW c \in Collections, Upsert(c)
      PROVE  IndexInv'
  <2>1. /\ handler.pc = c /\ handler'.pc = NextUpsert[c]
        /\ handler'.run = handler.run /\ handler'.prev = handler.prev
        /\ evidence' = evidence \cup {<<handler.run, c>>}
        /\ UNCHANGED <<active, torn, late, inflight, left, previous, wipe>>
    BY <1>0, <1>7 DEF Upsert, TypeOK
  <2>2. handler'.pc \in {"entities", "relations", "gate"}
    BY <2>1 DEF NextUpsert, Collections
  <2>3. Pointer' /\ ActiveComplete'
    BY <1>t, <2>1, <2>2 DEF Pointer, ActiveComplete, EvidenceOf, Collections
  <2>4. RunIntact'
    <3> SUFFICES ASSUME Building', handler.run \notin late
                 PROVE  /\ \A k \in Tasks : left[handler.run][k] = 0
                        /\ {handler.run} \X WrittenBefore(handler'.pc) \subseteq evidence'
      BY <2>1 DEF RunIntact
    <3>1. Building
      BY <2>1, <2>2 DEF Building, Collections
    <3>2. WrittenBefore(handler'.pc) \subseteq WrittenBefore(c) \cup {c}
      BY <2>1 DEF WrittenBefore, NextUpsert, Collections
    <3> QED BY <1>t, <2>1, <3>1, <3>2 DEF RunIntact
  <2>5. InflightIsHandlers' /\ WipeStopsRuns' /\ NoneAdmittedInWipe'
    BY <1>t, <2>1, <2>2 DEF InflightIsHandlers, WipeStopsRuns, NoneAdmittedInWipe, Collections
  <2> QED BY <2>3, <2>4, <2>5 DEF IndexInv
<1>8. ASSUME NEW done \in SUBSET Collections, CleanUpOwn(done)
      PROVE  IndexInv'
  <2>1. /\ handler.pc \in {"refused", "failed", "cancelled"}
        /\ handler'.pc \in {"timeout", "idle"}
        /\ \/ handler'.run = NoRun /\ handler'.prev = NoRun
           \/ handler'.run = handler.run /\ handler'.prev = handler.prev
        /\ evidence' = evidence \ ({handler.run} \X done)
        /\ UNCHANGED <<active, torn, late, left, previous, wipe>>
    BY <1>0, <1>8 DEF CleanUpOwn, Idle, TypeOK
  <2>2. inflight' = NoRun
    BY <1>8, <1>t, <2>1 DEF CleanUpOwn, Clear, InflightIsHandlers, Collections
  <2>3. active # NoRun => active # handler.run
    BY <1>0, <1>t, <2>1 DEF Pointer
  <2>4. Pointer' /\ ActiveComplete'
    BY <1>0, <1>t, <2>1, <2>3 DEF Pointer, ActiveComplete, EvidenceOf, TypeOK
  <2>5. RunIntact' /\ InflightIsHandlers' /\ WipeStopsRuns' /\ NoneAdmittedInWipe'
    BY <2>1, <2>2 DEF RunIntact, Building, InflightIsHandlers, WipeStopsRuns, NoneAdmittedInWipe, Collections
  <2> QED BY <2>4, <2>5 DEF IndexInv
<1> QED BY <1>1, <1>2, <1>3, <1>4, <1>5, <1>6, <1>7, <1>8 DEF Indexing
-----------------------------------------------------------------------------
\* ---- Steps around the handler ------------------------------------------
\* Steps that leave the handler alone, forget the pointer or keep it, and spare the
\* run that is being built and the run the pointer still names.
Spares ==
    /\ handler' = handler /\ late' = late /\ inflight' \in {inflight, NoRun}
    /\ active' \in {active, NoRun} /\ previous' \subseteq previous
    /\ torn => torn'
    /\ Building /\ handler.run \notin late =>
          /\ left'[handler.run] = left[handler.run]
          /\ evidence \cap EvidenceOf(handler.run) \subseteq evidence'
    /\ active' # NoRun /\ ~torn' => evidence \cap EvidenceOf(active) \subseteq evidence'

LEMMA IndexSpared ==
    ASSUME Known, IndexInv, Spares, WipeStopsRuns', NoneAdmittedInWipe'
    PROVE  IndexInv'
<1>0. TypeOK /\ HandlerHasRun
  BY DEF Known
<1>t. RunIntact /\ InflightIsHandlers /\ Pointer /\ ActiveComplete
  BY DEF IndexInv
<1>1. RunIntact'
  <2> SUFFICES ASSUME Building', handler.run \notin late
               PROVE  /\ \A k \in Tasks : left'[handler.run][k] = 0
                      /\ {handler.run} \X WrittenBefore(handler.pc) \subseteq evidence'
    BY DEF RunIntact, Spares
  <2>1. Building
    <3>1. CASE handler.pc = "activate"
      BY <3>1 DEF Building
    <3>2. CASE handler.pc \in Collections \cup {"gate"} /\ inflight' = handler.run
      <4>1. handler.run \in Runs
        BY <1>0, <3>2 DEF HandlerHasRun, TypeOK, Collections
      <4>2. inflight = handler.run
        BY <3>2, <4>1, RagAssumption DEF Spares
      <4> QED BY <3>2, <4>2 DEF Building
    <3> QED BY <3>1, <3>2 DEF Building, Spares
  <2>2. WrittenBefore(handler.pc) \subseteq Collections
    BY DEF WrittenBefore, Collections
  <2> QED BY <1>t, <2>1, <2>2 DEF RunIntact, Spares, EvidenceOf
<1>2. InflightIsHandlers'
  BY <1>t DEF InflightIsHandlers, Spares
<1>3. Pointer'
  BY <1>0, <1>t, RagAssumption DEF Pointer, Spares, TypeOK
<1>4. ActiveComplete'
  BY <1>0, <1>t DEF ActiveComplete, Spares, EvidenceOf, TypeOK
<1> QED BY <1>1, <1>2, <1>3, <1>4 DEF IndexInv

LEMMA IndexToOthers ==
    ASSUME Known, IndexInv,
           \/ Publish \/ WatchdogRevokes \/ RevokeElsewhere
           \/ \E c \in Collections : UpsertFails(c) \/ IndexTimesOut(c)
           \/ \E w \in straggler : StragglerLands(w)
           \/ \E r \in Runs, done \in SUBSET Collections : CleanUpPrevious(r, done)
    PROVE  IndexInv'
<1> USE RagAssumption DEF drawn, store, intake, compensation, sweeps, counts, registry, At, Step
<1>0. TypeOK /\ HandlerHasRun
  BY DEF Known
<1>t. /\ RunIntact /\ InflightIsHandlers /\ WipeStopsRuns /\ NoneAdmittedInWipe
      /\ Pointer /\ ActiveComplete
  BY DEF IndexInv
<1>1. CASE Publish \/ WatchdogRevokes \/ RevokeElsewhere \/ \E w \in straggler : StragglerLands(w)
  <2>1. /\ UNCHANGED <<handler, late, active, previous, torn, left, wipe>>
        /\ inflight' \in {inflight, NoRun} /\ evidence \subseteq evidence'
    BY <1>1 DEF Publish, WatchdogRevokes, RevokeElsewhere, StragglerLands, RevokeCurrent, Revoke
  <2>2. Spares /\ WipeStopsRuns' /\ NoneAdmittedInWipe'
    BY <1>t, <2>1 DEF Spares, WipeStopsRuns, NoneAdmittedInWipe
  <2> QED BY <2>2, IndexSpared
<1>2. ASSUME NEW r \in Runs, NEW done \in SUBSET Collections, CleanUpPrevious(r, done)
      PROVE  IndexInv'
  <2>1. /\ UNCHANGED <<handler, late, active, torn, left, wipe, inflight>>
        /\ previous' = previous \ {r} /\ r # active /\ r # handler.run
        /\ evidence' = evidence \ ({r} \X done)
    BY <1>2, <1>t DEF CleanUpPrevious, Pointer
  <2>2. Spares /\ WipeStopsRuns' /\ NoneAdmittedInWipe'
    BY <1>t, <2>1 DEF Spares, WipeStopsRuns, NoneAdmittedInWipe, EvidenceOf
  <2> QED BY <2>2, IndexSpared
<1>3. ASSUME NEW c \in Collections, UpsertFails(c) \/ IndexTimesOut(c)
      PROVE  IndexInv'
  <2>1. /\ handler.pc = c /\ Revoke(handler.run)
        /\ handler'.pc \in {"failed", "cancelled"}
        /\ handler'.run = handler.run /\ handler'.prev = handler.prev
        /\ UNCHANGED <<active, evidence, torn, late, left, previous, wipe>>
    BY <1>0, <1>3 DEF UpsertFails, IndexTimesOut, TypeOK
  <2>2. inflight' = NoRun
    BY <1>t, <2>1 DEF Revoke, InflightIsHandlers
  <2>3. Pointer' /\ ActiveComplete'
    BY <1>t, <2>1 DEF Pointer, ActiveComplete, EvidenceOf, Collections
  <2>4. RunIntact' /\ InflightIsHandlers' /\ WipeStopsRuns' /\ NoneAdmittedInWipe'
    BY <2>1, <2>2 DEF RunIntact, Building, InflightIsHandlers, WipeStopsRuns, NoneAdmittedInWipe, Collections
  <2> QED BY <2>3, <2>4 DEF IndexInv
<1> QED BY <1>1, <1>2, <1>3

-----------------------------------------------------------------------------
\* ---- Compensation and poller -------------------------------------------
LEMMA IndexToCompensations ==
    ASSUME Known, IndexInv, NEW r \in Runs, Compensating(r) \/ PollDue(r)
    PROVE  IndexInv'
<1> USE RagAssumption DEF drawn, store, intake, sweeps, counts, registry
<1>0. TypeOK /\ HandlerHasRun
  BY DEF Known
<1>t. /\ RunIntact /\ InflightIsHandlers /\ WipeStopsRuns /\ NoneAdmittedInWipe
      /\ Pointer /\ ActiveComplete
  BY DEF IndexInv
<1>l. left \in [Runs -> [Tasks -> 0..(Attempts + 1)]] /\ "sweep" \in Tasks
  BY <1>0 DEF TypeOK, Tasks
<1>1. CASE SweepLooks(r)
  <2>1. UNCHANGED <<handler, late, active, evidence, previous, torn, left, wipe, inflight>>
    BY <1>1 DEF SweepLooks
  <2>2. Spares /\ WipeStopsRuns' /\ NoneAdmittedInWipe'
    BY <1>t, <2>1 DEF Spares, WipeStopsRuns, NoneAdmittedInWipe
  <2> QED BY <2>2, IndexSpared
<1>2. ASSUME NEW k \in Tasks, NEW done \in SUBSET Collections, CompensateDeletes(r, k, done)
      PROVE  IndexInv'
  <2>1. /\ UNCHANGED <<handler, late, previous, torn, wipe, inflight>> /\ left[r][k] > 1
        /\ evidence' = evidence \ ({r} \X done)
        /\ left' = [left EXCEPT ![r][k] = @ - 1]
        /\ active' = NoRun \/ (active' = active /\ active # r)
    <3>1. /\ UNCHANGED <<handler, late, previous, torn, wipe, inflight>> /\ left[r][k] > 1
          /\ evidence' = evidence \ ({r} \X done)
          /\ left' = [left EXCEPT ![r][k] = @ - 1]
      BY <1>2 DEF CompensateDeletes, DeleteRun
    <3>2. active' = NoRun \/ (active' = active /\ active # r)
      <4>1. CASE k = "sweep"
        BY <1>2, <4>1 DEF CompensateDeletes, ClearsPointer
      <4>2. CASE k # "sweep"
        BY <1>2, <4>2 DEF CompensateDeletes, ClearsPointer
      <4> QED BY <4>1, <4>2
    <3> QED BY <3>1, <3>2
  <2>2. Building /\ handler.run \notin late => handler.run # r
    BY <1>t, <2>1 DEF RunIntact
  <2>3. Building /\ handler.run \notin late => left'[handler.run] = left[handler.run]
    BY <1>l, <2>1, <2>2
  <2>4. Spares /\ WipeStopsRuns' /\ NoneAdmittedInWipe'
    BY <1>t, <2>1, <2>2, <2>3 DEF Spares, WipeStopsRuns, NoneAdmittedInWipe, EvidenceOf
  <2> QED BY <2>4, IndexSpared
<1>3. ASSUME NEW k \in Tasks, left[r][k] = 1, left' = [left EXCEPT ![r][k] = 0], Clear(r),
             UNCHANGED <<store, handler, late, previous, torn, wipe>>
      PROVE  IndexInv'
  <2>1. Building /\ handler.run \notin late => handler.run # r
    BY <1>3, <1>t DEF RunIntact
  <2>2. Building /\ handler.run \notin late => left'[handler.run] = left[handler.run]
    BY <1>l, <1>3, <2>1
  <2>3. inflight' \in {inflight, NoRun}
    BY <1>3 DEF Clear
  <2>4. Spares /\ WipeStopsRuns' /\ NoneAdmittedInWipe'
    BY <1>3, <1>t, <2>2, <2>3 DEF Spares, WipeStopsRuns, NoneAdmittedInWipe
  <2> QED BY <2>4, IndexSpared
<1>4. ASSUME NEW k \in Tasks, CompensateEnds(r, k)
      PROVE  IndexInv'
  BY <1>3, <1>4 DEF CompensateEnds
<1>5. CASE SweepEnds(r)
  BY <1>3, <1>5, <1>l DEF SweepEnds
<1>6. CASE PollDue(r)
  <2>1. /\ UNCHANGED <<handler, late, active, evidence, previous, torn, wipe, inflight>>
        /\ Settled(r) /\ (left' = left \/ left' = [left EXCEPT ![r]["sweep"] = 2])
    BY <1>6 DEF PollDue, Polled, Spawn
  <2>2. Building /\ handler.run \notin late => handler.run # r
    BY <2>1 DEF Building, Settled
  <2>3. Building /\ handler.run \notin late => left'[handler.run] = left[handler.run]
    <3>1. CASE left' = left
      BY <3>1
    <3>2. CASE left' = [left EXCEPT ![r]["sweep"] = 2]
      BY <1>l, <2>2, <3>2
    <3> QED BY <2>1, <3>1, <3>2
  <2>4. Spares /\ WipeStopsRuns' /\ NoneAdmittedInWipe'
    BY <1>t, <2>1, <2>3 DEF Spares, WipeStopsRuns, NoneAdmittedInWipe
  <2> QED BY <2>4, IndexSpared
<1> QED BY <1>1, <1>2, <1>4, <1>5, <1>6 DEF Compensating

-----------------------------------------------------------------------------
\* ---- Requests and restart ----------------------------------------------
LEMMA IndexToRequests ==
    ASSUME Known, IndexInv,
           \/ WipeStepTaken \/ CrashRestart
           \/ \E kind \in {"delete", "reextract"} : BeginWipe(kind)
    PROVE  IndexInv'
<1> USE RagAssumption DEF drawn, store, intake, compensation, sweeps, counts, registry, Wiping, WipeStep, At
<1>0. TypeOK /\ HandlerHasRun
  BY DEF Known
<1>t. /\ RunIntact /\ InflightIsHandlers /\ WipeStopsRuns /\ NoneAdmittedInWipe
      /\ Pointer /\ ActiveComplete
  BY DEF IndexInv
<1>1. CASE PeekInflight \/ \E kind \in {"delete", "reextract"} : BeginWipe(kind)
  <2>1. /\ UNCHANGED <<handler, late, active, evidence, previous, torn, left, inflight>>
        /\ wipe'.pc \in {"peek", "abort"}
    <3>1. CASE PeekInflight
      BY <1>0, <3>1 DEF PeekInflight, TypeOK
    <3>2. ASSUME NEW kind \in {"delete", "reextract"}, BeginWipe(kind)
          PROVE  /\ UNCHANGED <<handler, late, active, evidence, previous, torn, left, inflight>>
                 /\ wipe'.pc \in {"peek", "abort"}
      BY <3>2 DEF BeginWipe
    <3> QED BY <1>1, <3>1, <3>2
  <2>2. Spares /\ WipeStopsRuns' /\ NoneAdmittedInWipe'
    BY <2>1 DEF Spares, WipeStopsRuns, NoneAdmittedInWipe
  <2> QED BY <2>2, IndexSpared
<1>2. CASE Abort \/ ExtendTargets
  <2>1. /\ UNCHANGED <<handler, late, active, evidence, previous, torn, left>> /\ RevokeCurrent
        /\ wipe'.pc \in {"extend", "purge"}
    BY <1>0, <1>2 DEF Abort, ExtendTargets, TypeOK
  <2>2. inflight' = NoRun
    BY <2>1 DEF RevokeCurrent, Revoke
  <2>3. Spares /\ WipeStopsRuns' /\ NoneAdmittedInWipe'
    BY <2>1, <2>2 DEF Spares, WipeStopsRuns, NoneAdmittedInWipe
  <2> QED BY <2>3, IndexSpared
<1>b. ASSUME inflight \in late \cup {NoRun}, handler.pc # "activate" \/ handler.run \in late
      PROVE  Building => handler.run \in late
  BY <1>0, <1>b DEF Building, HandlerHasRun, TypeOK, Collections
<1>3. ASSUME NEW done \in SUBSET Collections, Purge(done)
      PROVE  IndexInv'
  <2>1. /\ UNCHANGED <<handler, late, active, previous, left, inflight>> /\ torn' = TRUE
        /\ inflight \in late \cup {NoRun} /\ handler.pc # "activate"
    BY <1>3, <1>t DEF Purge, WipeStopsRuns
  <2>2. Spares
    BY <1>b, <2>1 DEF Spares
  <2>3. WipeStopsRuns' /\ NoneAdmittedInWipe'
    BY <2>1 DEF WipeStopsRuns, NoneAdmittedInWipe
  <2> QED BY <2>2, <2>3, IndexSpared
<1>4. CASE UnsetActive \/ ScheduleSweep \/ Cascade \/ FinishReextract \/ FinishDelete
  <2>1. /\ UNCHANGED <<handler, late, evidence, previous, torn, inflight>>
        /\ active' \in {active, NoRun}
        /\ inflight \in late \cup {NoRun} /\ (handler.pc # "activate" \/ handler.run \in late)
    <3>1. wipe.pc \in {"unset", "enqueue", "cascade", "finish"}
      BY <1>4 DEF UnsetActive, ScheduleSweep, Cascade, FinishReextract, FinishDelete
    <3>2. /\ UNCHANGED <<handler, late, evidence, previous, torn, inflight>>
          /\ active' \in {active, NoRun}
      BY <1>4 DEF UnsetActive, ScheduleSweep, Cascade, FinishReextract, FinishDelete
    <3> QED BY <1>t, <3>1, <3>2 DEF WipeStopsRuns, NoneAdmittedInWipe
  <2>2. Spares
    BY <1>b, <2>1 DEF Spares
  <2>3. WipeStopsRuns' /\ NoneAdmittedInWipe'
    BY <2>1 DEF WipeStopsRuns, NoneAdmittedInWipe
  <2> QED BY <2>2, <2>3, IndexSpared
<1>5. CASE CrashRestart
  <2>1. /\ handler' = Idle /\ wipe' = NoWipe /\ inflight' = NoRun /\ previous' = {}
        /\ UNCHANGED <<active, evidence, late>>
        /\ torn => torn'
    BY <1>5 DEF CrashRestart
  <2>2. RunIntact' /\ InflightIsHandlers' /\ WipeStopsRuns' /\ NoneAdmittedInWipe' /\ Pointer'
    BY <2>1 DEF RunIntact, Building, InflightIsHandlers, WipeStopsRuns, NoneAdmittedInWipe, Pointer,
                Idle, NoWipe, Collections
  <2>3. ActiveComplete'
    BY <1>t, <2>1 DEF ActiveComplete, EvidenceOf
  <2> QED BY <2>2, <2>3 DEF IndexInv
<1> QED BY <1>1, <1>2, <1>3, <1>4, <1>5 DEF WipeStepTaken

LEMMA IndexStutters ==
    ASSUME IndexInv, UNCHANGED vars
    PROVE  IndexInv'
BY DEF IndexInv, RunIntact, Building, InflightIsHandlers, WipeStopsRuns, NoneAdmittedInWipe,
       Pointer, ActiveComplete, EvidenceOf, vars

LEMMA IndexStep ==
    ASSUME Known, IndexInv, [Next]_vars
    PROVE  IndexInv'
<1>1. CASE UNCHANGED vars
  BY <1>1, IndexStutters
<1>2. CASE Next
  BY <1>2, IndexToHandler, IndexToOthers, IndexToCompensations, IndexToRequests DEF Next
<1> QED BY <1>1, <1>2

\* The run the pointer names has all its evidence, unless a purge has stopped half way
\* since the pointer was set or the run began when a wipe had already looked.
THEOREM ActiveIndexWhole == Spec => []ActiveComplete
<1>1. Init => Known /\ IndexInv
  BY KnownAtStart, IndexAtStart
<1>2. Known /\ IndexInv /\ [Next]_vars => (Known /\ IndexInv)'
  BY KnownStep, IndexStep
<1>3. IndexInv => ActiveComplete
  BY DEF IndexInv
<1> QED BY <1>1, <1>2, <1>3, PTL DEF Spec

-----------------------------------------------------------------------------
\* ---- Which revoked run a wipe finds again --------------------------------
\* r is revoked, and only runs of other papers were revoked after it.
LastMine(r) ==
    \E i \in 1..Len(revoked) :
       revoked[i] = r /\ \A j \in 1..Len(revoked) : j > i => revoked[j] \in Others

LEMMA LastMineIsFound ==
    ASSUME TypeOK, NEW r \in Runs, LastMine(r)
    PROVE  Sticky = r
<1> DEFINE mine == {i \in 1..Len(revoked) : revoked[i] \in Runs}
           last == CHOOSE i \in mine : \A j \in mine : j <= i
<1>0. Runs \cap Others = {} /\ Len(revoked) \in Nat
  BY RagAssumption DEF TypeOK
<1>1. PICK p \in 1..Len(revoked) :
         revoked[p] = r /\ \A j \in 1..Len(revoked) : j > p => revoked[j] \in Others
  BY DEF LastMine
<1>2. p \in mine /\ \A j \in mine : j <= p
  BY <1>0, <1>1
<1>3. last \in mine /\ \A j \in mine : j <= last
  <2> HIDE DEF mine
  <2> QED BY <1>2
<1>4. last = p
  BY <1>0, <1>2, <1>3
<1>5. Sticky = revoked[last]
  BY <1>2 DEF Sticky
<1> QED BY <1>1, <1>4, <1>5

\* What the bound keeps is the end of the sequence, and never nothing.
LEMMA TrimmedSuffix ==
    ASSUME NEW s \in Entries, Len(s) > 0
    PROVE  \E d \in 0..(Len(s) - 1) :
              /\ Len(Trimmed(s)) = Len(s) - d
              /\ \A k \in 1..(Len(s) - d) : Trimmed(s)[k] = s[k + d]
<1>0. Len(s) \in Nat /\ MaxRevoked \in Nat /\ MaxRevoked >= 2
  BY RagAssumption DEF Entries
<1>1. CASE Len(s) <= MaxRevoked
  <2>1. Trimmed(s) = s /\ Len(s) = Len(s) - 0 /\ 0 \in 0..(Len(s) - 1)
    BY <1>0, <1>1 DEF Trimmed
  <2>2. \A k \in 1..(Len(s) - 0) : Trimmed(s)[k] = s[k + 0]
    BY <1>0, <2>1
  <2> QED BY <2>1, <2>2
<1>2. CASE ~(Len(s) <= MaxRevoked)
  <2> DEFINE h == MaxRevoked \div 2
             d == Len(s) - h
  <2>1. h \in 1..MaxRevoked
    BY <1>0
  <2> HIDE DEF h
  <2>2. d \in 0..(Len(s) - 1) /\ d + 1 \in 1..Len(s) /\ Len(s) - d = h /\ d + 1 = Len(s) - h + 1
    BY <1>0, <1>2, <2>1
  <2>3. Trimmed(s) = SubSeq(s, d + 1, Len(s))
    BY <1>2, <2>2 DEF Trimmed, h
  <2> HIDE DEF d
  <2>4. Len(SubSeq(s, d + 1, Len(s))) = Len(s) - d
    BY <1>0, <2>2 DEF Entries
  <2>5. \A k \in 1..(Len(s) - d) : SubSeq(s, d + 1, Len(s))[k] = s[k + d]
    BY <1>0, <2>2 DEF Entries
  <2> QED BY <2>2, <2>3, <2>4, <2>5
<1> QED BY <1>1, <1>2

\* A run that is revoked is the last one.
LEMMA RevokedIsLast ==
    ASSUME TypeOK, NEW r \in Runs, Revoke(r)
    PROVE  LastMine(r)'
<1> DEFINE s == Append(Dropped(r), r)
<1>1. s \in Entries /\ Len(s) \in Nat /\ Len(s) > 0 /\ s[Len(s)] = r
  BY DroppedRange DEF Entries
<1>2. revoked' = Trimmed(s)
  BY DEF Revoke
<1> HIDE DEF s
<1>3. PICK d \in 0..(Len(s) - 1) :
         Len(revoked') = Len(s) - d /\ \A k \in 1..(Len(s) - d) : revoked'[k] = s[k + d]
  BY <1>1, <1>2, TrimmedSuffix
<1>4. Len(revoked') \in 1..Len(revoked') /\ revoked'[Len(revoked')] = r
  BY <1>1, <1>3
<1>5. \A j \in 1..Len(revoked') : ~(j > Len(revoked'))
  BY <1>1, <1>3
<1> QED BY <1>4, <1>5 DEF LastMine

\* Forgetting another run changes nothing for it.
LEMMA LastMineKept ==
    ASSUME TypeOK, NEW r \in Runs, NEW q, q # r, LastMine(r), revoked' = Dropped(q)
    PROVE  LastMine(r)'
<1>1. CASE ~IsRevoked(q)
  BY <1>1 DEF Dropped, LastMine
<1>2. CASE IsRevoked(q)
  <2> DEFINE p == CHOOSE i \in 1..Len(revoked) : revoked[i] = q
             n == Len(revoked)
  <2>1. p \in 1..n /\ revoked[p] = q /\ revoked' = RemoveAt(revoked, p)
    BY <1>2 DEF IsRevoked, Dropped
  <2> HIDE DEF p
  <2>2. /\ Len(revoked') = n - 1 /\ n \in Nat
        /\ \A k \in 1..(n - 1) : revoked'[k] = IF k < p THEN revoked[k] ELSE revoked[k + 1]
    <3>1. revoked \in Entries
      BY DEF TypeOK, Entries
    <3>2. /\ Len(RemoveAt(revoked, p)) = Len(revoked) - 1
          /\ \A k \in 1..(Len(revoked) - 1) :
                RemoveAt(revoked, p)[k] = IF k < p THEN revoked[k] ELSE revoked[k + 1]
      BY <2>1, <3>1, RemoveAtEntries DEF Entries
    <3> QED BY <2>1, <3>1, <3>2 DEF Entries
  <2>3. PICK i \in 1..n : revoked[i] = r /\ \A j \in 1..n : j > i => revoked[j] \in Others
    BY DEF LastMine
  <2> HIDE DEF n
  <2>4. CASE i < p
    <3>1. i \in 1..(n - 1) /\ revoked'[i] = r
      BY <2>1, <2>2, <2>3, <2>4
    <3>2. ASSUME NEW j \in 1..(n - 1), j > i PROVE revoked'[j] \in Others
      BY <2>1, <2>2, <2>3, <3>2
    <3> QED BY <2>2, <3>1, <3>2 DEF LastMine
  <2>5. CASE i > p
    <3>1. i - 1 \in 1..(n - 1) /\ revoked'[i - 1] = r
      BY <2>1, <2>2, <2>3, <2>5
    <3>2. ASSUME NEW j \in 1..(n - 1), j > i - 1 PROVE revoked'[j] \in Others
      <4>1. j + 1 \in 1..n /\ j + 1 > i
        BY <2>2, <3>2
      <4>2. revoked[j + 1] \in Others
        BY <2>3, <4>1
      <4>3. ~(j < p)
        BY <2>1, <2>2, <2>5, <3>2
      <4> QED BY <2>2, <4>2, <4>3
    <3> QED BY <2>2, <3>1, <3>2 DEF LastMine
  <2>6. i # p
    BY <2>1, <2>3
  <2> QED BY <2>1, <2>3, <2>4, <2>5, <2>6
<1> QED BY <1>1, <1>2

\* A run of another paper leaves it the last one, or pushes it out.
LEMMA LastMineElsewhere ==
    ASSUME TypeOK, NEW r \in Runs, LastMine(r), RevokeElsewhere
    PROVE  LastMine(r)' \/ r \in lost'
<1>x. PICK x \in Others : revoked' = Trimmed(Append(revoked, x))
  BY DEF RevokeElsewhere
<1> DEFINE s == Append(revoked, x)
           n == Len(revoked)
<1>0. r \notin Others
  BY RagAssumption
<1>1. /\ s \in Entries /\ Len(s) = n + 1 /\ n \in Nat /\ s[n + 1] \in Others
      /\ \A k \in 1..n : s[k] = revoked[k]
  BY DEF TypeOK, Entries
<1>e. revoked' = Trimmed(s)
  BY <1>x
<1>2. lost' = lost \cup {q \in Runs : IsRevoked(q) /\ ~IsRevoked(q)'}
  BY DEF RevokeElsewhere, Forgotten
<1>3. PICK i \in 1..n : revoked[i] = r /\ \A j \in 1..n : j > i => revoked[j] \in Others
  BY DEF LastMine
<1>i. IsRevoked(r)
  BY <1>3 DEF IsRevoked
<1> HIDE DEF s, n
<1>4. PICK d \in 0..n :
         Len(revoked') = n + 1 - d /\ \A k \in 1..(n + 1 - d) : revoked'[k] = s[k + d]
  <2>1. Len(s) > 0 /\ Len(s) - 1 = n
    BY <1>1
  <2>2. PICK d \in 0..(Len(s) - 1) :
           /\ Len(Trimmed(s)) = Len(s) - d
           /\ \A k \in 1..(Len(s) - d) : Trimmed(s)[k] = s[k + d]
    BY <1>1, <2>1, TrimmedSuffix
  <2> QED BY <1>1, <1>e, <2>1, <2>2
<1>5. \A k \in 1..(n + 1) : k > i => s[k] \in Others
  BY <1>1, <1>3
<1>6. CASE i > d
  <2>1. i - d \in 1..(n + 1 - d) /\ revoked'[i - d] = r
    <3>1. i - d \in 1..(n + 1 - d) /\ (i - d) + d = i
      BY <1>1, <1>6
    <3>2. s[i] = r
      BY <1>1, <1>3
    <3> QED BY <1>4, <3>1, <3>2
  <2>2. ASSUME NEW j \in 1..(n + 1 - d), j > i - d PROVE revoked'[j] \in Others
    <3>1. j + d \in 1..(n + 1) /\ j + d > i
      BY <1>1, <1>4, <2>2
    <3> QED BY <1>1, <1>4, <1>5, <3>1
  <2> QED BY <1>1, <1>4, <2>1, <2>2 DEF LastMine
<1>7. CASE ~(i > d)
  <2>1. ASSUME NEW k \in 1..Len(revoked') PROVE revoked'[k] # r
    <3>1. k + d \in 1..(n + 1) /\ k + d > i /\ k \in 1..(n + 1 - d)
      BY <1>1, <1>3, <1>4, <1>7
    <3> QED BY <1>0, <1>4, <1>5, <3>1
  <2>2. ~IsRevoked(r)'
    BY <2>1 DEF IsRevoked
  <2> QED BY <1>2, <1>i, <2>2
<1> QED BY <1>6, <1>7

-----------------------------------------------------------------------------
\* ---- Nothing is forgotten ------------------------------------------------
\* A run under way is in the registry, and one whose thread may still write is the
\* last one revoked (Findable), so a wipe that looks finds it: it is a target, or it
\* began later (WipeKnows).  Once a delete has purged, every piece of evidence that
\* comes back belongs to a run that is swept or compensated (EvidenceOwned).  A
\* compensation of the handler that has made its last attempt has left nothing,
\* has missed, or is not the only one (OrphanDone): no build starts with one
\* (Unassigned).
Ending == {"cancelled", "timeout", "timeout2"}
Destroying == {"unset", "enqueue", "cascade", "finish"}

Clean(r) == Gone(r) /\ straggler \cap EvidenceOf(r) = {}

\* One of the tasks that a time-out starts will still delete evidence of r.
Compensated(r) == left[r]["helper"] > 1 \/ left[r]["handler"] > 1

\* A wipe sweeps r, or cannot know it, or has missed it.
Swept(r) == r \in lost \cup late \cup missed \cup outbox \cup wipe.targets

\* What r leaves behind the handler is somebody's, or excepted.
Held(r) == r \in lost \cup missed \cup outbox \/ Compensated(r)

\* A purge of a delete has emptied the store.
Doomed == ~exists \/ (wipe.kind = "delete" /\ wipe.pc \in Destroying)

SweepsHaveRow == \A r \in Runs : left[r]["sweep"] > 0 => r \in outbox

Stragglers ==
    \A e \in straggler :
       Held(e[1]) \/ (handler.run = e[1] /\ handler.pc \in Ending)

Findable ==
    /\ handler.pc \in Collections =>
          inflight = handler.run \/ LastMine(handler.run) \/ handler.run \in lost
    /\ handler.pc \in Ending =>
          LastMine(handler.run) \/ Held(handler.run) \/ Clean(handler.run)

WipeKnows ==
    LookedAway =>
       /\ handler.pc \in Collections => Swept(handler.run)
       /\ handler.pc \in Ending =>
             Swept(handler.run) \/ Compensated(handler.run) \/ Clean(handler.run)

Scheduled ==
    /\ wipe.pc \in {"idle", "cascade", "finish"} => wipe.targets = {}
    /\ ~exists => wipe.pc = "idle"

EvidenceOwned == Doomed => \A e \in evidence : Swept(e[1]) \/ Compensated(e[1])

Unassigned ==
    handler.pc \in Collections \cup {"gate", "activate", "clear"} =>
       \A k \in {"helper", "handler"} : left[handler.run][k] = 0

Finished(r) == Compensated(r) \/ r \in missed \cup outbox \/ (Settled(r) /\ Gone(r))

OrphanDone == \A r \in Runs, k \in {"helper", "handler"} : left[r][k] = 1 => Finished(r)

ForgetInv ==
    SweepsHaveRow /\ Stragglers /\ Findable /\ WipeKnows /\ Scheduled /\ EvidenceOwned

LEMMA ForgetAtStart == Init => ForgetInv /\ Unassigned /\ OrphanDone
BY RagAssumption DEF Init, ForgetInv, SweepsHaveRow, Stragglers, Findable, WipeKnows, Scheduled,
   Unassigned, OrphanDone, EvidenceOwned, Doomed, LookedAway, Destroying, Ending, Idle, NoWipe, Collections, Tasks

\* The invariant is what the property asks for.
LEMMA ForgetSuffices ==
    ASSUME Known, ForgetInv
    PROVE  NothingForgotten
<1> SUFFICES ASSUME ~exists, NEW e \in evidence \cup straggler
             PROVE  Owned(e[1]) \/ e[1] \in lost \cup late \cup missed
  BY DEF NothingForgotten
<1>1. wipe.targets = {}
  BY DEF ForgetInv, Scheduled
<1>2. Compensated(e[1]) => Owned(e[1])
  BY DEF Compensated, Owned, Tasks
<1>3. e[1] \in outbox \/ handler.run = e[1] => Owned(e[1])
  BY DEF Owned
<1>4. CASE e \in evidence
  BY <1>1, <1>2, <1>3, <1>4 DEF ForgetInv, EvidenceOwned, Doomed, Swept
<1>5. CASE e \in straggler
  BY <1>2, <1>3, <1>5 DEF ForgetInv, Stragglers, Held
<1> QED BY <1>4, <1>5

-----------------------------------------------------------------------------
\* ---- The compensations of the handler ------------------------------------
\* Their tasks are touched by the handler when its run has timed out, and by
\* themselves.
LEMMA OrphanTasks ==
    ASSUME Known, Next, NEW r \in Runs, NEW k \in {"helper", "handler"}
    PROVE  \/ left'[r][k] = left[r][k] \/ CrashRestart
           \/ left'[r][k] > 1 /\ handler.pc \in {"timeout", "timeout2"}
           \/ \E done \in SUBSET Collections : CompensateDeletes(r, k, done)
           \/ CompensateEnds(r, k)
<1> USE RagAssumption DEF compensation
<1>l. left \in [Runs -> [Tasks -> 0..(Attempts + 1)]] /\ k \in Tasks /\ k # "sweep"
  BY DEF Known, TypeOK, Tasks
<1>1. CASE HelperRevokes \/ HandlerRevokes
  <2>1. handler.pc \in {"timeout", "timeout2"}
    BY <1>1 DEF HelperRevokes, HandlerRevokes, At
  <2>2. PICK t \in Tasks : ScheduleOrphan(t)
    BY <1>1 DEF HelperRevokes, HandlerRevokes, Tasks
  <2>3. left' = left \/ \E q \in Runs : left' = [left EXCEPT ![q][t] = Attempts + 1]
    BY <2>2, TargetRange DEF ScheduleOrphan
  <2>4. left'[r][k] = left[r][k] \/ left'[r][k] = Attempts + 1
    BY <1>l, <2>3
  <2> QED BY <2>1, <2>4
<1>2. ASSUME NEW q \in Runs, NEW t \in Tasks, ~(q = r /\ t = k),
             \/ CompensateEnds(q, t)
             \/ \E done \in SUBSET Collections : CompensateDeletes(q, t, done)
      PROVE  left'[r][k] = left[r][k]
  <2>1. \E n : left' = [left EXCEPT ![q][t] = n]
    BY <1>2 DEF CompensateEnds, CompensateDeletes
  <2> QED BY <1>l, <1>2, <2>1
<1>3. ASSUME NEW q \in Runs, SweepLooks(q) \/ SweepEnds(q) \/ PollDue(q)
      PROVE  left'[r][k] = left[r][k]
  <2>1. left' = left \/ \E n : left' = [left EXCEPT ![q]["sweep"] = n]
    BY <1>3 DEF SweepLooks, SweepEnds, PollDue, Spawn
  <2> QED BY <1>l, <2>1
<1>4. CASE ScheduleSweep
  <2>1. left' = left \/ \E q \in Runs : left' = [left EXCEPT ![q]["sweep"] = Attempts + 1]
    BY <1>4 DEF ScheduleSweep, Enqueue, Spawn, Known, TypeOK
  <2> QED BY <1>l, <2>1
<1>5. CASE Indexing /\ ~(HelperRevokes \/ HandlerRevokes)
  BY <1>5 DEF Indexing, TakeEvent, BeginRun, Gate, Activate, EndActivation, Upsert, CleanUpOwn
<1>6. CASE WipeStepTaken /\ ~ScheduleSweep
  BY <1>6 DEF WipeStepTaken, PeekInflight, Abort, ExtendTargets, Purge, UnsetActive, Cascade,
              FinishReextract, FinishDelete
<1>7. CASE \/ Publish \/ WatchdogRevokes \/ RevokeElsewhere
           \/ \E c \in Collections : UpsertFails(c) \/ IndexTimesOut(c)
           \/ \E w \in straggler : StragglerLands(w)
           \/ \E q \in Runs, done \in SUBSET Collections : CleanUpPrevious(q, done)
           \/ \E kind \in {"delete", "reextract"} : BeginWipe(kind)
  BY <1>7 DEF Publish, WatchdogRevokes, RevokeElsewhere, UpsertFails, IndexTimesOut,
              StragglerLands, CleanUpPrevious, BeginWipe
<1>8. ASSUME NEW q \in Runs, Compensating(q)
      PROVE  \/ left'[r][k] = left[r][k]
             \/ \E done \in SUBSET Collections : CompensateDeletes(r, k, done)
             \/ CompensateEnds(r, k)
  BY <1>2, <1>3, <1>8 DEF Compensating
<1> QED BY <1>1, <1>3, <1>4, <1>5, <1>6, <1>7, <1>8 DEF Next

\* A build goes on, or begins with a fresh run.
LEMMA BuildsOn ==
    ASSUME Known, Next, handler'.pc \in Collections \cup {"gate", "activate", "clear"}
    PROVE  /\ ~CrashRestart
           /\ \/ handler'.run \in fresh /\ left' = left
              \/ /\ handler'.run = handler.run
                 /\ handler.pc \in Collections \cup {"gate", "activate", "clear"}
<1> USE DEF At, Step, Idle
<1>0. TypeOK
  BY DEF Known
<1>c. ~CrashRestart
  BY DEF CrashRestart, Collections
<1>1. CASE handler' = handler
  BY <1>1, <1>c
<1>2. CASE BeginRun
  <2>1. handler'.run \in fresh /\ left' = left
    BY <1>0, <1>2 DEF BeginRun, compensation, TypeOK
  <2> QED BY <2>1, <1>c
<1>3. CASE Gate \/ Activate \/ \E c \in Collections : Upsert(c)
  <2>1. /\ handler'.run = handler.run
        /\ handler.pc \in Collections \cup {"gate", "activate", "clear"}
    BY <1>0, <1>3 DEF Gate, Activate, Upsert, TypeOK
  <2> QED BY <2>1, <1>c
<1>4. CASE \/ EndActivation \/ HelperRevokes \/ HandlerRevokes \/ TakeEvent
           \/ \E c \in Collections : UpsertFails(c) \/ IndexTimesOut(c)
           \/ \E done \in SUBSET Collections : CleanUpOwn(done)
  <2>1. handler'.pc \notin Collections \cup {"gate", "activate", "clear"}
    <3>1. CASE TakeEvent
      <4>1. handler'.pc \in {"idle", "taken"}
        BY <3>1 DEF TakeEvent
      <4> QED BY <4>1 DEF Collections
    <3>2. CASE EndActivation \/ HelperRevokes \/ HandlerRevokes
      BY <1>0, <3>2 DEF EndActivation, HelperRevokes, HandlerRevokes, TypeOK, Collections
    <3>3. CASE \E c \in Collections : UpsertFails(c) \/ IndexTimesOut(c)
      BY <1>0, <3>3 DEF UpsertFails, IndexTimesOut, TypeOK, Collections
    <3>4. CASE \E done \in SUBSET Collections : CleanUpOwn(done)
      BY <1>0, <3>4 DEF CleanUpOwn, TypeOK, Collections
    <3> QED BY <1>4, <3>1, <3>2, <3>3, <3>4
  <2> QED BY <2>1
<1>5. CASE \/ Publish \/ WatchdogRevokes \/ RevokeElsewhere \/ WipeStepTaken
           \/ \E w \in straggler : StragglerLands(w)
           \/ \E q \in Runs, done \in SUBSET Collections : CleanUpPrevious(q, done)
           \/ \E q \in Runs : Compensating(q) \/ PollDue(q)
           \/ \E kind \in {"delete", "reextract"} : BeginWipe(kind)
  BY <1>1, <1>5 DEF Publish, WatchdogRevokes, RevokeElsewhere, StragglerLands, CleanUpPrevious,
              Compensating, SweepLooks, CompensateEnds, CompensateDeletes, SweepEnds, PollDue,
              BeginWipe, WipeStepTaken, PeekInflight, Abort, ExtendTargets, Purge, UnsetActive,
              ScheduleSweep, Cascade, FinishReextract, FinishDelete
<1> QED BY <1>c, <1>2, <1>3, <1>4, <1>5 DEF Next, Indexing

LEMMA UnassignedStep ==
    ASSUME Known, Unassigned, Next
    PROVE  Unassigned'
<1> SUFFICES ASSUME handler'.pc \in Collections \cup {"gate", "activate", "clear"},
                    NEW k \in {"helper", "handler"}
             PROVE  left'[handler'.run][k] = 0
  BY DEF Unassigned
<1>1. CASE handler'.run \in fresh /\ left' = left
  BY <1>1 DEF Known, FreshUnknown, Unclaimed, Tasks
<1>2. CASE /\ handler'.run = handler.run
           /\ handler.pc \in Collections \cup {"gate", "activate", "clear"}
  <2>1. left[handler.run][k] = 0 /\ handler.pc \notin {"timeout", "timeout2"}
    BY <1>2 DEF Unassigned, Collections
  <2>2. handler.run \in Runs
    BY <1>2 DEF Known, HandlerHasRun, TypeOK, Collections
  <2>3. /\ ~CompensateEnds(handler.run, k)
        /\ \A done \in SUBSET Collections : ~CompensateDeletes(handler.run, k, done)
    BY <2>1 DEF CompensateEnds, CompensateDeletes
  <2> QED BY <1>2, <2>1, <2>2, <2>3, BuildsOn, OrphanTasks
<1> QED BY <1>1, <1>2, BuildsOn

\* The attempt that may have been the last one.
LEMMA AfterDelete ==
    ASSUME Known, Unassigned, SweepsHaveRow,
           NEW r \in Runs, NEW k \in {"helper", "handler"}, NEW done \in SUBSET Collections,
           CompensateDeletes(r, k, done)
    PROVE  Finished(r)'
<1> USE DEF Finished
<1>t. left \in [Runs -> [Tasks -> 0..(Attempts + 1)]] /\ 0..(Attempts + 1) \subseteq Nat
  BY RagAssumption DEF Known, TypeOK
<1>l. /\ left \in [Runs -> [Tasks -> 0..(Attempts + 1)]] /\ k \in Tasks
      /\ \A t \in Tasks : left[r][t] \in Nat
  BY <1>t DEF Tasks
<1>1. /\ left[r][k] > 1 /\ left' = [left EXCEPT ![r][k] = @ - 1]
      /\ UNCHANGED <<outbox, straggler, handler>>
      /\ evidence' = evidence \ ({r} \X done)
      /\ missed' = IF Misses(r, k, done) THEN missed \cup {r} ELSE missed
  BY DEF CompensateDeletes, DeleteRun, sweeps
<1>2. \A t \in Tasks : left'[r][t] = IF t = k THEN left[r][k] - 1 ELSE left[r][t]
  BY <1>l, <1>1
<1>3. CASE left[r][k] # 2
  <2>1. left'[r][k] > 1
    BY <1>l, <1>1, <1>2, <1>3
  <2> QED BY <2>1 DEF Compensated
<1>4. CASE left[r][k] = 2 /\ Misses(r, k, done)
  BY <1>1, <1>4
<1>5. CASE left[r][k] = 2 /\ OthersDelete(r, k)
  <2>1. CASE r \in outbox
    BY <1>1, <2>1
  <2>2. ASSUME NEW j \in Tasks \ {k}, left[r][j] > 1 PROVE Finished(r)'
    <3>1. CASE j = "sweep"
      BY <1>1, <1>l, <2>2, <3>1 DEF SweepsHaveRow
    <3>2. CASE j # "sweep"
      BY <1>2, <2>2, <3>2 DEF Compensated, Tasks
    <3> QED BY <3>1, <3>2
  <2> QED BY <1>5, <2>1, <2>2 DEF OthersDelete
<1>6. CASE /\ left[r][k] = 2 /\ done = Collections /\ straggler \cap EvidenceOf(r) = {}
  <2>1. Settled(r)'
    BY <1>1, <1>6 DEF Settled, Unassigned, EvidenceOf
  <2>2. Gone(r)'
    BY <1>1, <1>6 DEF Gone, EvidenceOf
  <2> QED BY <2>1, <2>2
<1> QED BY <1>3, <1>4, <1>5, <1>6 DEF Misses

LEMMA OrphanStep ==
    ASSUME Known, SweptClean, SweepsHaveRow, Unassigned, OrphanDone, Next
    PROVE  OrphanDone'
<1> SUFFICES ASSUME NEW r \in Runs, NEW k \in {"helper", "handler"}, left'[r][k] = 1
             PROVE  Finished(r)'
  BY DEF OrphanDone
<1>0. k \in Tasks /\ ~CrashRestart
  BY DEF Tasks, CrashRestart
<1>1. CASE \E t \in {"helper", "handler"}, done \in SUBSET Collections : CompensateDeletes(r, t, done)
  BY <1>1, AfterDelete
<1>2. CASE /\ left[r][k] = 1
           /\ ~\E t \in {"helper", "handler"}, done \in SUBSET Collections : CompensateDeletes(r, t, done)
  <2>0. r \in Runs \ fresh /\ Finished(r)
    BY <1>0, <1>2 DEF OrphanDone, Known, FreshUnknown, Unclaimed
  <2>1. CASE Settled(r) /\ Gone(r)
    BY <2>0, <2>1, SettledRests DEF Rests, Finished
  <2>2. CASE r \in missed
    BY <2>2, MissedStays DEF Finished
  <2>3. CASE r \in outbox
    <3>1. CASE r \in outbox'
      BY <3>1 DEF Finished
    <3>2. CASE r \notin outbox'
      <4>1. SweepEnds(r)
        BY <2>3, <3>2, OutboxShrinks
      <4>2. Settled(r) /\ (Gone(r) \/ r \in missed)
        BY <4>1 DEF SweepEnds, SweptClean
      <4> QED BY <2>0, <2>2, <4>2, SettledRests DEF Rests, Finished
    <3> QED BY <3>1, <3>2
  <2>4. ASSUME NEW t \in {"helper", "handler"}, left[r][t] > 1 PROVE Finished(r)'
    <3>1. ~CompensateEnds(r, t)
      BY <2>4 DEF CompensateEnds
    <3>2. left'[r][t] > 1
      BY <1>0, <1>2, <2>4, <3>1, OrphanTasks
    <3> QED BY <3>2 DEF Finished, Compensated
  <2> QED BY <2>0, <2>1, <2>2, <2>3, <2>4 DEF Finished, Compensated
<1> QED BY <1>0, <1>1, <1>2, LastAttempt

-----------------------------------------------------------------------------
\* ---- What the steps leave ------------------------------------------------

\* The handler stands still, evidence and threads only vanish, and whoever was swept
\* or compensated still is, or has left nothing.
Unharmed ==
    /\ handler' = handler /\ evidence' \subseteq evidence /\ straggler' \subseteq straggler
    /\ lost \subseteq lost' /\ missed \subseteq missed'
    /\ LookedAway' => LookedAway
    /\ Doomed' => Doomed
    /\ LookedAway' => \A r \in Runs : Swept(r) => Swept(r)' \/ (Settled(r) /\ Clean(r))
    /\ \A r \in Runs : r \in outbox => r \in outbox' \cup missed' \/ Clean(r)'
    /\ \A r \in Runs :
          Compensated(r) => Compensated(r)' \/ r \in outbox' \cup missed' \/ Clean(r)'

LEMMA ForgetUnharmed ==
    ASSUME Known, ForgetInv, Unharmed, SweepsHaveRow', Findable', Scheduled'
    PROVE  ForgetInv'
<1> USE DEF Unharmed
<1>0. TypeOK /\ HandlerHasRun
  BY DEF Known
<1>t. SweepsHaveRow /\ Stragglers /\ Findable /\ WipeKnows /\ Scheduled /\ EvidenceOwned
  BY DEF ForgetInv
<1>o. \A e \in Runs \X Collections : e[1] \in Runs /\ e \in EvidenceOf(e[1])
  BY DEF EvidenceOf
<1>1. Stragglers'
  <2> SUFFICES ASSUME NEW e \in straggler'
               PROVE  Held(e[1])' \/ (handler'.run = e[1] /\ handler'.pc \in Ending)
    BY DEF Stragglers
  <2>1. e \in straggler /\ e[1] \in Runs /\ e \in EvidenceOf(e[1])
    BY <1>0, <1>o DEF TypeOK
  <2>2. ~Clean(e[1])'
    BY <2>1 DEF Clean, EvidenceOf
  <2>3. Held(e[1]) => Held(e[1])'
    BY <2>1, <2>2 DEF Held
  <2> QED BY <1>t, <2>1, <2>3 DEF Stragglers
<1>2. WipeKnows'
  <2> SUFFICES ASSUME LookedAway'
               PROVE  /\ handler.pc \in Collections => Swept(handler.run)'
                      /\ handler.pc \in Ending =>
                            Swept(handler.run)' \/ Compensated(handler.run)' \/ Clean(handler.run)'
    BY DEF WipeKnows
  <2>1. handler.pc \in Collections \cup Ending => handler.run \in Runs
    BY <1>0 DEF HandlerHasRun, TypeOK, Collections, Ending
  <2>2. Clean(handler.run) => Clean(handler.run)'
    BY DEF Clean, Gone, EvidenceOf
  <2>3. handler.pc \in Collections => ~Settled(handler.run)
    BY DEF Settled
  <2>4. handler.run \in outbox' \cup missed' => Swept(handler.run)'
    BY DEF Swept
  <2> QED BY <1>t, <2>1, <2>2, <2>3, <2>4 DEF WipeKnows
<1>3. EvidenceOwned'
  <2> SUFFICES ASSUME Doomed', NEW e \in evidence'
               PROVE  Swept(e[1])' \/ Compensated(e[1])'
    BY DEF EvidenceOwned
  <2>1. e \in evidence /\ e[1] \in Runs /\ e \in EvidenceOf(e[1])
    BY <1>0, <1>o DEF TypeOK
  <2>2. ~Clean(e[1]) /\ ~Clean(e[1])'
    BY <2>1 DEF Clean, Gone, EvidenceOf
  <2>3. LookedAway'
    BY DEF Doomed, LookedAway, Destroying
  <2>4. e[1] \in outbox' \cup missed' => Swept(e[1])'
    BY DEF Swept
  <2> QED BY <1>t, <2>1, <2>2, <2>3, <2>4 DEF EvidenceOwned
<1> QED BY <1>1, <1>2, <1>3 DEF ForgetInv


LEMMA ForgetToHandler ==
    ASSUME Known, InflightIsHandlers, ForgetInv, Indexing
    PROVE  ForgetInv'
<1> USE RagAssumption DEF drawn, store, intake, compensation, sweeps, counts, registry, At, Step
<1>0. TypeOK /\ HandlerHasRun
  BY DEF Known
<1>t. SweepsHaveRow /\ Stragglers /\ Findable /\ WipeKnows /\ Scheduled /\ EvidenceOwned
  BY DEF ForgetInv
\* What most of these steps have in common: the run is not one that ends.
<1>s. ASSUME UNCHANGED <<exists, left, outbox, wipe, straggler, missed>>, lost \subseteq lost',
             handler.pc \notin Ending \/ handler' = handler, SweepsHaveRow, Scheduled
      PROVE  SweepsHaveRow' /\ Scheduled' /\ Stragglers'
  BY <1>t, <1>s DEF SweepsHaveRow, Scheduled, Stragglers, Held, Compensated
<1>e. ASSUME UNCHANGED <<exists, left, outbox, wipe, missed>>, lost \subseteq lost',
             late \subseteq late', evidence' \subseteq evidence
      PROVE  EvidenceOwned'
  BY <1>t, <1>e DEF EvidenceOwned, Doomed, Swept, Compensated
<1>1. CASE TakeEvent \/ Gate \/ Activate \/ EndActivation
  <2>1. /\ UNCHANGED <<exists, evidence, left, outbox, wipe, straggler, missed, late>>
        /\ lost \subseteq lost'
        /\ handler.pc \notin Ending /\ handler'.pc \notin Ending \cup Collections
    <3>1. /\ UNCHANGED <<exists, evidence, left, outbox, wipe, straggler, missed, late>>
          /\ lost \subseteq lost'
      BY <1>1 DEF TakeEvent, Gate, Activate, EndActivation, Revoke, Clear
    <3>2. handler.pc \in {"idle", "gate", "activate", "clear"}
      BY <1>1 DEF TakeEvent, Gate, Activate, EndActivation
    <3>3. CASE TakeEvent
      <4>1. handler'.pc \in {"idle", "taken"}
        BY <3>3 DEF TakeEvent, Idle
      <4> QED BY <3>1, <3>2, <4>1 DEF Ending, Collections
    <3>4. CASE Gate \/ Activate
      <4>1. handler'.pc \in {"activate", "refused", "clear", "failed"}
        BY <1>0, <3>4 DEF Gate, Activate, TypeOK
      <4> QED BY <3>1, <3>2, <4>1 DEF Ending, Collections
    <3>5. CASE EndActivation
      BY <3>1, <3>2, <3>5 DEF EndActivation, Idle, Ending, Collections
    <3> QED BY <1>1, <3>3, <3>4, <3>5
  <2>2. Findable' /\ WipeKnows'
    BY <2>1 DEF Findable, WipeKnows
  <2> QED BY <1>s, <1>e, <1>t, <2>1, <2>2 DEF ForgetInv
<1>2. CASE BeginRun
  <2>1. PICK r \in fresh :
           /\ late' = IF LookedAway THEN late \cup {r} ELSE late
           /\ inflight' = r /\ handler' = [handler EXCEPT !.pc = "chunks", !.run = r, !.prev = active]
    BY <1>2 DEF BeginRun
  <2>2. /\ UNCHANGED <<exists, evidence, left, outbox, wipe, straggler, lost, missed>> /\ late \subseteq late'
        /\ handler.pc = "taken" /\ handler'.pc = "chunks" /\ handler'.run = r
    BY <1>0, <1>2, <2>1 DEF BeginRun, TypeOK
  <2>3. Findable'
    BY <2>1, <2>2 DEF Findable, Ending
  <2>4. WipeKnows'
    BY <2>1, <2>2 DEF WipeKnows, LookedAway, Swept, Ending
  <2> QED BY <1>s, <1>e, <1>t, <2>2, <2>3, <2>4 DEF ForgetInv, Ending
<1>3. ASSUME NEW c \in Collections, Upsert(c)
      PROVE  ForgetInv'
  <2>1. /\ handler.pc = c /\ handler'.pc \in {"entities", "relations", "gate"} /\ handler'.run = handler.run
        /\ evidence' = evidence \cup {<<handler.run, c>>}
        /\ UNCHANGED <<exists, left, outbox, wipe, straggler, lost, missed, late, inflight, revoked>>
    BY <1>0, <1>3 DEF Upsert, NextUpsert, TypeOK, Collections
  <2>2. handler.pc \notin Ending /\ handler'.pc \notin Ending
    BY <2>1 DEF Collections, Ending
  <2>3. Findable' /\ WipeKnows'
    BY <1>t, <2>1, <2>2 DEF Findable, WipeKnows, LastMine, LookedAway, Swept
  <2>4. EvidenceOwned'
    <3> SUFFICES ASSUME Doomed, NEW e \in evidence'
                 PROVE  Swept(e[1]) \/ Compensated(e[1])
      BY <2>1 DEF EvidenceOwned, Doomed, Swept, Compensated
    <3>1. CASE e \in evidence
      BY <1>t, <3>1 DEF EvidenceOwned
    <3>2. CASE e[1] = handler.run
      <4>1. LookedAway
        BY DEF Doomed, LookedAway, Destroying
      <4> QED BY <1>t, <2>1, <3>2, <4>1 DEF WipeKnows
    <3> QED BY <2>1, <3>1, <3>2
  <2> QED BY <1>s, <1>t, <2>1, <2>2, <2>3, <2>4 DEF ForgetInv
<1>4. ASSUME NEW done \in SUBSET Collections, CleanUpOwn(done)
      PROVE  ForgetInv'
  <2>1. /\ UNCHANGED <<exists, left, outbox, wipe, straggler, lost, missed, late>>
        /\ evidence' \subseteq evidence
        /\ \/ handler.pc \notin Ending /\ handler'.pc = "idle"
           \/ handler.pc = "cancelled" /\ handler'.pc = "timeout" /\ handler'.run = handler.run
              /\ UNCHANGED <<inflight, revoked>>
    BY <1>0, <1>4 DEF CleanUpOwn, Clear, Idle, TypeOK, Ending
  <2>2. SweepsHaveRow' /\ Scheduled' /\ Stragglers'
    BY <1>t, <2>1 DEF SweepsHaveRow, Scheduled, Stragglers, Held, Compensated, Ending
  <2>3. ASSUME handler'.pc = "idle" PROVE Findable' /\ WipeKnows'
    BY <2>3 DEF Findable, WipeKnows, Ending, Collections
  <2>4. ASSUME handler'.pc = "timeout", handler.pc = "cancelled" PROVE Findable' /\ WipeKnows'
    <3>1. /\ handler'.run = handler.run /\ UNCHANGED <<inflight, revoked>>
          /\ handler.pc \in Ending /\ handler'.pc \notin Collections
      BY <2>1, <2>4 DEF Ending, Collections
    <3>2. Findable'
      BY <1>t, <2>1, <3>1 DEF Findable, LastMine, Held, Compensated, Clean, Gone, EvidenceOf
    <3>3. WipeKnows'
      BY <1>t, <2>1, <3>1 DEF WipeKnows, LookedAway, Swept, Compensated, Clean, Gone, EvidenceOf
    <3> QED BY <3>2, <3>3
  <2>5. Findable' /\ WipeKnows'
    BY <2>1, <2>3, <2>4
  <2> QED BY <1>e, <1>t, <2>1, <2>2, <2>5 DEF ForgetInv
<1>5. CASE HelperRevokes \/ HandlerRevokes
  <2>1. inflight = NoRun
    BY <1>5 DEF HelperRevokes, HandlerRevokes, InflightIsHandlers, Collections
  <2>2. PICK k \in {"helper", "handler"} : ScheduleOrphan(k)
    BY <1>5 DEF HelperRevokes, HandlerRevokes
  <2>3. /\ UNCHANGED <<exists, evidence, outbox, wipe, straggler, lost, missed, late, inflight, revoked>>
        /\ handler.pc \in {"timeout", "timeout2"}
    BY <1>5, <2>1 DEF HelperRevokes, HandlerRevokes, ScheduleOrphan, RevokeCurrent
  <2>l. left \in [Runs -> [Tasks -> 0..(Attempts + 1)]] /\ Attempts + 1 > 1
    BY <1>0 DEF TypeOK
  <2>r. handler.run \in Runs
    BY <1>0, <2>3 DEF HandlerHasRun, TypeOK
  <2>4. RevokeTarget = Sticky /\ Sticky \in Runs \cup {NoRun}
    BY <1>0, <2>1, StickyRange DEF RevokeTarget
  <2>5. \A q \in Runs : left'[q]["sweep"] = left[q]["sweep"] /\ (Compensated(q) => Compensated(q)')
    <3>1. CASE Sticky = NoRun
      BY <2>2, <2>4, <3>1 DEF ScheduleOrphan, Compensated
    <3>2. CASE Sticky \in Runs
      <4>1. left' = [left EXCEPT ![Sticky][k] = Attempts + 1]
        BY <2>2, <2>4, <3>2 DEF ScheduleOrphan
      <4> QED BY <2>l, <4>1, <3>2 DEF Compensated, Tasks
    <3> QED BY <2>4, <3>1, <3>2
  <2>6. SweepsHaveRow' /\ Scheduled'
    BY <1>t, <2>3, <2>5 DEF SweepsHaveRow, Scheduled
  <2>7. EvidenceOwned'
    <3>1. \A e \in evidence : e[1] \in Runs
      BY <1>0 DEF TypeOK
    <3> QED BY <1>t, <2>3, <2>5, <3>1 DEF EvidenceOwned, Doomed, Swept
  <2>8. \A e \in straggler : e[1] \in Runs
    BY <1>0 DEF TypeOK
  <2>h. \A q \in Runs : Held(q) => Held(q)'
    BY <2>3, <2>5 DEF Held
  <2>9. CASE HelperRevokes
    <3>1. handler'.pc = "timeout2" /\ handler'.run = handler.run /\ handler.pc \in Ending
      BY <1>0, <2>9 DEF HelperRevokes, TypeOK, Ending
    <3>2. Stragglers'
      BY <1>t, <2>3, <2>h, <2>8, <3>1 DEF Stragglers, Ending
    <3>3. Findable' /\ WipeKnows'
      <4>1. Held(handler.run) => Held(handler.run)'
        BY <2>r, <2>h, <3>1
      <4>2. Compensated(handler.run) => Compensated(handler.run)'
        BY <2>r, <2>5, <3>1
      <4> QED BY <1>t, <2>3, <3>1, <4>1, <4>2 DEF Findable, WipeKnows, LastMine, LookedAway, Swept,
                                                  Clean, Gone, EvidenceOf, Ending, Collections
    <3> QED BY <2>6, <2>7, <3>2, <3>3 DEF ForgetInv
  <2>10. CASE HandlerRevokes
    <3>1. handler' = Idle /\ handler.pc \in Ending
      BY <2>10 DEF HandlerRevokes, Ending
    <3>2. ASSUME NEW q \in Runs, q = handler.run, LastMine(q)
          PROVE  Compensated(q)'
      <4>1. Sticky = q
        BY <1>0, <3>2, LastMineIsFound
      <4>2. ScheduleOrphan("handler") /\ q # NoRun
        BY <2>10 DEF HandlerRevokes
      <4>3. left' = [left EXCEPT ![q]["handler"] = Attempts + 1]
        BY <2>4, <4>1, <4>2 DEF ScheduleOrphan
      <4>4. left'[q]["handler"] = Attempts + 1
        BY <2>l, <4>3 DEF Tasks
      <4> QED BY <2>l, <4>4 DEF Compensated
    <3>3. Stragglers'
      <4> SUFFICES ASSUME NEW e \in straggler PROVE Held(e[1])'
        BY <2>3 DEF Stragglers
      <4>1. e \in EvidenceOf(e[1]) /\ e[1] \in Runs
        BY <1>0 DEF TypeOK, EvidenceOf
      <4>2. CASE handler.run = e[1]
        <5>1. ~Clean(e[1])
          BY <4>1 DEF Clean
        <5>2. LastMine(e[1]) \/ Held(e[1])
          BY <1>t, <3>1, <4>2, <5>1 DEF Findable
        <5>3. LastMine(e[1]) => Held(e[1])'
          BY <3>2, <4>1, <4>2 DEF Held
        <5> QED BY <2>h, <4>1, <5>2, <5>3
      <4> QED BY <1>t, <2>h, <4>1, <4>2 DEF Stragglers
    <3>4. Findable' /\ WipeKnows'
      BY <3>1 DEF Findable, WipeKnows, Idle, Ending, Collections
    <3> QED BY <2>6, <2>7, <3>3, <3>4 DEF ForgetInv
  <2> QED BY <1>5, <2>9, <2>10
<1> QED BY <1>1, <1>2, <1>3, <1>4, <1>5 DEF Indexing


LEMMA ForgetToOthers ==
    ASSUME Known, InflightIsHandlers, ForgetInv,
           \/ Publish \/ WatchdogRevokes \/ RevokeElsewhere
           \/ \E c \in Collections : UpsertFails(c) \/ IndexTimesOut(c)
           \/ \E w \in straggler : StragglerLands(w)
           \/ \E r \in Runs, done \in SUBSET Collections : CleanUpPrevious(r, done)
    PROVE  ForgetInv'
<1> USE RagAssumption DEF drawn, store, intake, compensation, sweeps, counts, registry, At, Step
<1>0. TypeOK /\ HandlerHasRun
  BY DEF Known
<1>t. SweepsHaveRow /\ Stragglers /\ Findable /\ WipeKnows /\ Scheduled /\ EvidenceOwned
  BY DEF ForgetInv
<1>r. handler.pc \in Collections \cup Ending => handler.run \in Runs
  BY <1>0 DEF HandlerHasRun, TypeOK, Collections, Ending
<1>u. ASSUME UNCHANGED <<exists, handler, late, left, outbox, wipe, missed>>, evidence' \subseteq evidence,
             straggler' \subseteq straggler, lost \subseteq lost', Findable'
      PROVE  ForgetInv'
  <2>1. SweepsHaveRow' /\ Scheduled'
    BY <1>t, <1>u DEF SweepsHaveRow, Scheduled
  <2>2. Unharmed
    BY <1>u DEF Unharmed, LookedAway, Doomed, Swept, Compensated
  <2> QED BY <1>u, <2>1, <2>2, ForgetUnharmed
<1>1. CASE Publish \/ \E r \in Runs, done \in SUBSET Collections : CleanUpPrevious(r, done)
  <2>1. /\ UNCHANGED <<exists, handler, late, left, outbox, wipe, straggler, lost, missed, inflight, revoked>>
        /\ evidence' \subseteq evidence
    BY <1>1 DEF Publish, CleanUpPrevious
  <2>2. Findable'
    BY <1>t, <2>1 DEF Findable, LastMine, Held, Compensated, Clean, Gone, EvidenceOf
  <2> QED BY <1>u, <2>1, <2>2
<1>2. CASE WatchdogRevokes
  <2>1. /\ UNCHANGED <<exists, handler, evidence, late, left, outbox, wipe, straggler, missed>>
        /\ lost \subseteq lost'
        /\ inflight = handler.run /\ handler.pc \notin Ending /\ Revoke(handler.run) /\ handler.run \in Runs
    BY <1>0, <1>2 DEF WatchdogRevokes, RevokeCurrent, Revoke, InflightIsHandlers, TypeOK, Ending, Collections
  <2>2. Findable'
    BY <1>0, <2>1, RevokedIsLast DEF Findable
  <2> QED BY <1>u, <2>1, <2>2
<1>3. CASE RevokeElsewhere
  <2>1. /\ UNCHANGED <<exists, handler, evidence, late, left, outbox, wipe, straggler, missed, inflight>>
        /\ lost \subseteq lost'
    BY <1>3 DEF RevokeElsewhere
  <2>2. \A q \in Runs : LastMine(q) => LastMine(q)' \/ q \in lost'
    BY <1>0, <1>3, LastMineElsewhere
  <2>3. /\ Clean(handler.run) => Clean(handler.run)'
        /\ Held(handler.run) => Held(handler.run)'
    BY <2>1 DEF Clean, Gone, EvidenceOf, Held, Compensated
  <2>5. \A q \in Runs : q \in lost' => Held(q)'
    BY DEF Held
  <2>4. Findable'
    BY <1>r, <1>t, <2>1, <2>2, <2>3, <2>5 DEF Findable
  <2> QED BY <1>u, <2>1, <2>4
<1>4. ASSUME NEW c \in Collections, UpsertFails(c) \/ IndexTimesOut(c)
      PROVE  ForgetInv'
  <2>1. /\ UNCHANGED <<exists, evidence, late, left, outbox, wipe, missed>> /\ lost \subseteq lost'
        /\ handler.pc = c /\ handler'.run = handler.run /\ Revoke(handler.run)
        /\ \/ handler'.pc = "failed" /\ straggler' = straggler
           \/ handler'.pc = "cancelled" /\ straggler' \subseteq straggler \cup {<<handler.run, c>>}
    BY <1>0, <1>4 DEF UpsertFails, IndexTimesOut, Revoke, TypeOK
  <2>2. handler.run \in Runs /\ handler.pc \notin Ending /\ handler'.pc \notin Collections
    BY <1>0, <2>1 DEF HandlerHasRun, TypeOK, Collections, Ending
  <2>3. SweepsHaveRow' /\ Scheduled' /\ EvidenceOwned'
    BY <1>t, <2>1 DEF SweepsHaveRow, Scheduled, EvidenceOwned, Doomed, Swept, Compensated
  <2>4. Stragglers'
    BY <1>t, <2>1, <2>2 DEF Stragglers, Held, Compensated, Ending
  <2>5. LastMine(handler.run)'
    <3>1. \A q \in Runs : Revoke(q) => LastMine(q)'
      BY <1>0, RevokedIsLast
    <3> QED BY <2>1, <2>2, <3>1
  <2>6. Findable'
    BY <2>2, <2>5 DEF Findable
  <2>7. WipeKnows'
    BY <1>t, <2>1, <2>2 DEF WipeKnows, LookedAway, Swept
  <2> QED BY <2>3, <2>4, <2>6, <2>7 DEF ForgetInv
<1>5. ASSUME NEW w \in straggler, StragglerLands(w)
      PROVE  ForgetInv'
  <2>1. /\ UNCHANGED <<exists, handler, late, left, outbox, wipe, lost, missed, inflight, revoked>>
        /\ straggler' = straggler \ {w} /\ evidence' = evidence \cup {w}
    BY <1>5 DEF StragglerLands
  <2>2. w[1] \in Runs /\ w \in EvidenceOf(w[1])
    BY <1>0 DEF TypeOK, EvidenceOf
  <2>3. Clean(handler.run) => Clean(handler.run)'
    BY <2>1 DEF Clean, Gone, EvidenceOf
  <2>4. SweepsHaveRow' /\ Scheduled' /\ Stragglers'
    BY <1>t, <2>1 DEF SweepsHaveRow, Scheduled, Stragglers, Held, Compensated
  <2>5. Findable' /\ WipeKnows'
    BY <1>t, <2>1, <2>3 DEF Findable, WipeKnows, LastMine, LookedAway, Swept, Held, Compensated
  <2>6. EvidenceOwned'
    <3> SUFFICES ASSUME Doomed, NEW e \in evidence \cup {w}
                 PROVE  Swept(e[1]) \/ Compensated(e[1])
      BY <2>1 DEF EvidenceOwned, Doomed, Swept, Compensated
    <3>1. CASE e \in evidence
      BY <1>t, <3>1 DEF EvidenceOwned
    <3>2. CASE e = w
      <4>1. ~Clean(w[1]) /\ LookedAway
        BY <2>2 DEF Clean, Doomed, LookedAway, Destroying
      <4>2. Held(w[1]) => Swept(w[1]) \/ Compensated(w[1])
        BY DEF Swept, Held
      <4> QED BY <1>t, <3>2, <4>1, <4>2 DEF Stragglers, WipeKnows
    <3> QED BY <3>1, <3>2
  <2> QED BY <2>4, <2>5, <2>6 DEF ForgetInv
<1> QED BY <1>1, <1>2, <1>3, <1>4, <1>5

\* The end of a compensation finds nothing of its run, or has missed.
LEMMA ForgetToCompensations ==
    ASSUME Known, SweptClean, Unassigned, OrphanDone, ForgetInv,
           NEW r \in Runs, Compensating(r) \/ PollDue(r)
    PROVE  ForgetInv'
<1> USE RagAssumption DEF drawn, store, intake, sweeps, counts, registry
<1>0. TypeOK /\ HandlerHasRun
  BY DEF Known
<1>t. SweepsHaveRow /\ Stragglers /\ Findable /\ WipeKnows /\ Scheduled /\ EvidenceOwned
  BY DEF ForgetInv
<1>l. left \in [Runs -> [Tasks -> 0..(Attempts + 1)]]
  BY <1>0 DEF TypeOK
<1>r. handler.pc \in Collections \cup Ending => handler.run \in Runs
  BY <1>0 DEF HandlerHasRun, TypeOK, Collections, Ending
<1>1. CASE SweepLooks(r) \/ PollDue(r)
  <2>1. /\ UNCHANGED <<exists, handler, evidence, late, outbox, wipe, straggler, lost, missed, inflight, revoked>>
        /\ left' = left \/ (r \in outbox /\ left' = [left EXCEPT ![r]["sweep"] = 2])
    BY <1>1 DEF SweepLooks, PollDue, Polled, Spawn
  <2>2. \A q \in Runs : /\ left'[q]["sweep"] > 0 => left[q]["sweep"] > 0 \/ q \in outbox
                        /\ Compensated(q) => Compensated(q)'
    <3>1. CASE left' = left
      BY <3>1 DEF Compensated
    <3>2. CASE r \in outbox /\ left' = [left EXCEPT ![r]["sweep"] = 2]
      BY <1>l, <3>2 DEF Compensated, Tasks
    <3> QED BY <2>1, <3>1, <3>2
  <2>3. SweepsHaveRow' /\ Scheduled'
    BY <1>t, <2>1, <2>2 DEF SweepsHaveRow, Scheduled
  <2>5. Findable'
    <3>1. handler.run \in Runs => (Held(handler.run) => Held(handler.run)')
      BY <2>1, <2>2 DEF Held
    <3> QED BY <1>r, <1>t, <2>1, <3>1 DEF Findable, LastMine, Clean, Gone, EvidenceOf
  <2>4. Unharmed
    BY <2>1, <2>2 DEF Unharmed, LookedAway, Doomed, Swept
  <2> QED BY <2>3, <2>4, <2>5, ForgetUnharmed
<1>2. ASSUME NEW k \in Tasks, NEW done \in SUBSET Collections, CompensateDeletes(r, k, done)
      PROVE  ForgetInv'
  <2>1. /\ UNCHANGED <<exists, handler, late, outbox, wipe, straggler, lost, inflight, revoked>>
        /\ left[r][k] > 1 /\ left' = [left EXCEPT ![r][k] = @ - 1]
        /\ evidence' \subseteq evidence /\ missed \subseteq missed'
    BY <1>2 DEF CompensateDeletes, DeleteRun
  <2>2. \A q \in Runs, t \in Tasks :
           left'[q][t] = IF q = r /\ t = k THEN left[r][k] - 1 ELSE left[q][t]
    BY <1>l, <2>1
  <2>3. SweepsHaveRow'
    <3> SUFFICES ASSUME NEW q \in Runs, left'[q]["sweep"] > 0 PROVE q \in outbox
      BY <2>1 DEF SweepsHaveRow
    <3>1. "sweep" \in Tasks /\ left[r][k] \in Nat
      BY <1>l DEF Tasks
    <3>2. left[q]["sweep"] > 0
      BY <2>1, <2>2, <3>1
    <3> QED BY <1>t, <3>2 DEF SweepsHaveRow
  <2>4. Scheduled'
    BY <1>t, <2>1 DEF Scheduled
  <2>f. Finished(r)' \/ k = "sweep"
    BY <1>2, <1>t, AfterDelete DEF Tasks
  <2>5. ASSUME NEW q \in Runs, Compensated(q)
        PROVE  Compensated(q)' \/ q \in outbox' \cup missed' \/ Clean(q)'
    <3>1. CASE q = r /\ k # "sweep"
      BY <2>f, <3>1 DEF Finished, Settled, Clean
    <3>2. CASE ~(q = r /\ k # "sweep")
      <4>1. left'[q]["helper"] = left[q]["helper"] /\ left'[q]["handler"] = left[q]["handler"]
        BY <2>2, <3>2 DEF Tasks
      <4> QED BY <2>5, <4>1 DEF Compensated
    <3> QED BY <3>1, <3>2
  <2>7. Findable'
    <3>1. Clean(handler.run) => Clean(handler.run)'
      BY <2>1 DEF Clean, Gone, EvidenceOf
    <3>2. handler.run \in Runs =>
             (Held(handler.run) => Held(handler.run)' \/ Clean(handler.run)')
      BY <2>1, <2>5 DEF Held
    <3> QED BY <1>r, <1>t, <2>1, <3>1, <3>2 DEF Findable, LastMine
  <2>6. Unharmed
    BY <2>1, <2>5 DEF Unharmed, LookedAway, Doomed, Swept
  <2> QED BY <2>3, <2>4, <2>6, <2>7, ForgetUnharmed
\* The entry leaves the registry and, after a sweep, the row the outbox.
<1>3. ASSUME NEW k \in Tasks, left[r][k] = 1, left' = [left EXCEPT ![r][k] = 0], Clear(r),
             outbox' = outbox \/ (k = "sweep" /\ outbox' = outbox \ {r}),
             UNCHANGED <<store, straggler, handler, late, wipe, lost, missed>>
      PROVE  ForgetInv'
\* The last attempt has left nothing, or the run is still held.
  <2>1. (Settled(r) /\ Clean(r)) \/ r \in missed \/ (outbox' = outbox /\ Held(r))
    <3>1. CASE k = "sweep"
      BY <1>3, <3>1 DEF SweptClean, Settled, Clean
    <3>2. CASE k # "sweep"
      BY <1>3, <3>2 DEF OrphanDone, Finished, Settled, Clean, Held, Tasks
    <3> QED BY <3>1, <3>2
  <2>s. handler.pc \in Collections => handler.run # r
    <3>1. CASE k = "sweep"
      BY <1>3, <3>1 DEF SweptClean, Settled
    <3>2. CASE k # "sweep"
      BY <1>3, <3>2 DEF Unassigned, Tasks
    <3> QED BY <3>1, <3>2
  <2>2. \A q \in Runs, t \in Tasks : left'[q][t] = IF q = r /\ t = k THEN 0 ELSE left[q][t]
    BY <1>l, <1>3
  <2>3. SweepsHaveRow' /\ Scheduled'
    <3>1. ASSUME NEW q \in Runs, left'[q]["sweep"] > 0 PROVE q \in outbox'
      <4>1. left[q]["sweep"] > 0 /\ ~(q = r /\ k = "sweep")
        BY <2>2, <3>1 DEF Tasks
      <4> QED BY <1>t, <1>3, <4>1 DEF SweepsHaveRow
    <3> QED BY <1>t, <1>3, <3>1 DEF SweepsHaveRow, Scheduled
  <2>4. \A q \in Runs : Compensated(q) => Compensated(q)'
    <3> TAKE q \in Runs
    <3>1. \A t \in {"helper", "handler"} : left[q][t] > 1 => left'[q][t] > 1
      BY <1>3, <2>2 DEF Tasks
    <3> QED BY <3>1 DEF Compensated
  <2>5. Findable'
    <3>h. \A q \in Runs : Held(q) /\ ~(q = r /\ outbox' # outbox) => Held(q)'
      BY <1>3, <2>4 DEF Held
    <3>c. UNCHANGED <<evidence, straggler, handler>>
      BY <1>3
    <3>1. CASE handler.run = r
      <4>1. handler.pc \notin Collections
        BY <2>s, <3>1
      <4>2. Clean(handler.run)' \/ Held(handler.run)'
        <5>1. r \in missed => Held(r)'
          BY <1>3 DEF Held
        <5>2. Clean(r) => Clean(r)'
          BY <3>c DEF Clean, Gone, EvidenceOf
        <5>3. Clean(r)' \/ Held(r)'
          BY <2>1, <3>h, <5>1, <5>2
        <5> QED BY <3>1, <3>c, <5>3
      <4> QED BY <3>c, <4>1, <4>2 DEF Findable
    <3>2. CASE handler.run # r
      <4>1. inflight = handler.run => inflight' = handler.run
        BY <1>3, <3>2 DEF Clear
      <4>2. handler.run \in Runs /\ LastMine(handler.run) => LastMine(handler.run)'
        BY <1>0, <1>3, <3>2, LastMineKept DEF Clear
      <4>3. handler.run \in Runs /\ Held(handler.run) => Held(handler.run)'
        BY <3>h, <3>2, <3>c
      <4>4. Clean(handler.run) => Clean(handler.run)'
        BY <3>c DEF Clean, Gone, EvidenceOf
      <4> QED BY <1>3, <1>r, <1>t, <3>c, <4>1, <4>2, <4>3, <4>4 DEF Findable
    <3> QED BY <3>1, <3>2
  <2>6. Unharmed
    <3>1. Clean(r) => Clean(r)'
      BY <1>3 DEF Clean, Gone, EvidenceOf
    <3>2. \A q \in Runs : q \in outbox => q \in outbox' \cup missed' \/ Clean(q)'
      BY <1>3, <2>1, <3>1
    <3>3. LookedAway' => \A q \in Runs : Swept(q) => Swept(q)' \/ (Settled(q) /\ Clean(q))
      BY <1>3, <2>1 DEF Swept
    <3> QED BY <1>3, <2>4, <3>2, <3>3 DEF Unharmed, LookedAway, Doomed
  <2> QED BY <2>3, <2>5, <2>6, ForgetUnharmed
<1>4. ASSUME NEW k \in Tasks, CompensateEnds(r, k)
      PROVE  ForgetInv'
  BY <1>3, <1>4 DEF CompensateEnds, Clear
<1>5. CASE SweepEnds(r)
  <2>1. outbox' = outbox \ {r} \/ outbox' = outbox
    BY <1>5 DEF SweepEnds
  <2>2. /\ left[r]["sweep"] = 1 /\ left' = [left EXCEPT ![r]["sweep"] = 0] /\ Clear(r)
        /\ UNCHANGED <<store, straggler, handler, late, wipe, lost, missed>> /\ "sweep" \in Tasks
    BY <1>5 DEF SweepEnds, Clear, Tasks
  <2> QED BY <1>3, <2>1, <2>2
<1> QED BY <1>1, <1>2, <1>4, <1>5 DEF Compensating

LEMMA ForgetToRequests ==
    ASSUME Known, InflightIsHandlers, ForgetInv,
           \/ WipeStepTaken \/ CrashRestart
           \/ \E kind \in {"delete", "reextract"} : BeginWipe(kind)
    PROVE  ForgetInv'
<1> USE RagAssumption DEF drawn, store, intake, compensation, sweeps, counts, registry, Wiping, WipeStep, At
<1>0. TypeOK /\ HandlerHasRun
  BY DEF Known
<1>t. SweepsHaveRow /\ Stragglers /\ Findable /\ WipeKnows /\ Scheduled /\ EvidenceOwned
  BY DEF ForgetInv
<1>w. wipe \in [pc : WipePcs, kind : {"none", "delete", "reextract"}, targets : SUBSET Runs]
  BY <1>0 DEF TypeOK
\* The steps that leave the registry alone.
<1>u. ASSUME UNCHANGED <<handler, straggler, late, left, lost, missed, outbox, inflight, revoked>>,
             evidence' \subseteq evidence, Scheduled',
             LookedAway' => LookedAway /\ wipe'.targets = wipe.targets, Doomed' => Doomed
      PROVE  ForgetInv'
  <2>1. SweepsHaveRow' /\ Findable'
    BY <1>t, <1>u DEF SweepsHaveRow, Findable, LastMine, Held, Compensated, Clean, Gone, EvidenceOf
  <2>2. Unharmed
    BY <1>u DEF Unharmed, Swept, Compensated
  <2> QED BY <1>u, <2>1, <2>2, ForgetUnharmed
<1>1. CASE PeekInflight \/ \E kind \in {"delete", "reextract"} : BeginWipe(kind)
  <2>1. /\ UNCHANGED <<exists, handler, evidence, straggler, late, left, lost, missed, outbox, inflight, revoked>>
        /\ exists /\ wipe'.pc \in {"peek", "abort"}
    <3>1. CASE PeekInflight
      BY <1>t, <1>w, <3>1 DEF PeekInflight, Scheduled
    <3>2. CASE \E kind \in {"delete", "reextract"} : BeginWipe(kind)
      BY <3>2 DEF BeginWipe
    <3> QED BY <1>1, <3>1, <3>2
  <2>2. Scheduled' /\ ~LookedAway' /\ ~Doomed'
    BY <2>1 DEF Scheduled, LookedAway, Doomed, Destroying
  <2> QED BY <1>u, <2>1, <2>2
<1>2. CASE Abort \/ ExtendTargets
  <2>1. /\ UNCHANGED <<exists, handler, evidence, straggler, late, left, missed, outbox>>
        /\ lost \subseteq lost'
        /\ RevokeCurrent /\ exists /\ wipe'.pc \in {"extend", "purge"}
    BY <1>2, <1>t, <1>w DEF Abort, ExtendTargets, RevokeCurrent, Revoke, Scheduled
  <2>2. Findable'
    <3>1. CASE inflight = NoRun
      BY <1>t, <2>1, <3>1 DEF RevokeCurrent, Findable, LastMine, Held, Compensated, Clean, Gone, EvidenceOf
    <3>2. CASE inflight # NoRun
      <4>1. inflight = handler.run /\ Revoke(handler.run) /\ handler.run \in Runs /\ handler.pc \notin Ending
        BY <1>0, <2>1, <3>2 DEF RevokeCurrent, InflightIsHandlers, TypeOK, Ending, Collections
      <4>2. LastMine(handler.run)'
        <5>1. \A q \in Runs : Revoke(q) => LastMine(q)'
          BY <1>0, RevokedIsLast
        <5> QED BY <2>1, <4>1, <5>1
      <4> QED BY <2>1, <4>1, <4>2 DEF Findable
    <3> QED BY <3>1, <3>2
  <2>3. Scheduled' /\ SweepsHaveRow' /\ Stragglers' /\ EvidenceOwned'
    BY <1>t, <2>1 DEF Scheduled, SweepsHaveRow, Stragglers, EvidenceOwned, Doomed, Destroying, Held, Compensated
  <2>4. WipeKnows'
    <3>1. CASE Abort
      <4>1. ~LookedAway'
        BY <1>w, <2>1, <3>1 DEF Abort, LookedAway
      <4> QED BY <4>1 DEF WipeKnows
    <3>2. CASE ExtendTargets
      <4>1. wipe'.targets = wipe.targets \cup ({RevokeTarget} \ {NoRun})
        BY <1>w, <3>2 DEF ExtendTargets, Extended
      <4>2. handler.pc \in Collections \cup Ending => handler.run \in Runs
        BY <1>0 DEF HandlerHasRun, TypeOK, Collections, Ending
      <4>3. handler.run \in Runs /\ (inflight = handler.run \/ LastMine(handler.run)) => RevokeTarget = handler.run
        BY <1>0, LastMineIsFound DEF InflightIsHandlers, RevokeTarget
      <4>4. /\ handler.pc \in Collections => RevokeTarget = handler.run \/ handler.run \in lost
            /\ handler.pc \in Ending =>
                  RevokeTarget = handler.run \/ Held(handler.run) \/ Clean(handler.run)
        BY <1>t, <4>2, <4>3 DEF Findable
      <4>5. handler.run \in lost => Swept(handler.run)'
        BY <2>1 DEF Swept
      <4>6. handler.run \in Runs /\ RevokeTarget = handler.run => Swept(handler.run)'
        BY <2>1, <4>1, RagAssumption DEF Swept
      <4>7. Held(handler.run) => Swept(handler.run)' \/ Compensated(handler.run)'
        BY <2>1 DEF Held, Swept, Compensated
      <4>8. Clean(handler.run) => Clean(handler.run)'
        BY <2>1 DEF Clean, Gone, EvidenceOf
      <4> QED BY <2>1, <4>2, <4>4, <4>5, <4>6, <4>7, <4>8 DEF WipeKnows
    <3> QED BY <1>2, <3>1, <3>2
  <2> QED BY <2>2, <2>3, <2>4 DEF ForgetInv
<1>3. ASSUME NEW done \in SUBSET Collections, Purge(done)
      PROVE  ForgetInv'
  <2>1. /\ UNCHANGED <<exists, handler, straggler, late, left, lost, missed, outbox, inflight, revoked>>
        /\ evidence' = {e \in evidence : e[2] \notin done} /\ wipe.pc = "purge" /\ exists
    BY <1>3, <1>t DEF Purge, Scheduled
  <2>2. CASE done = Collections
    <3>1. wipe' = [wipe EXCEPT !.pc = "unset"] /\ evidence' = {}
      BY <1>0, <1>3, <2>1, <2>2 DEF Purge, TypeOK
    <3>2. Scheduled' /\ SweepsHaveRow' /\ Stragglers' /\ EvidenceOwned'
      BY <1>t, <1>w, <2>1, <3>1 DEF Scheduled, SweepsHaveRow, Stragglers, Held, Compensated, EvidenceOwned
    <3>3. Findable' /\ WipeKnows'
      <4>1. (Clean(handler.run) => Clean(handler.run)') /\ (Held(handler.run) => Held(handler.run)')
        BY <2>1, <3>1 DEF Clean, Gone, EvidenceOf, Held, Compensated
      <4>2. LookedAway /\ wipe'.targets = wipe.targets
        BY <1>w, <2>1, <3>1 DEF LookedAway
      <4> QED BY <1>t, <2>1, <4>1, <4>2 DEF Findable, WipeKnows, LastMine, Swept, Compensated
    <3> QED BY <3>2, <3>3 DEF ForgetInv
  <2>3. CASE done # Collections
    <3>1. wipe' = NoWipe \/ (wipe.kind # "delete" /\ wipe' = [wipe EXCEPT !.pc = "enqueue"])
      BY <1>3, <2>3 DEF Purge
    <3>2. Scheduled' /\ ~Doomed' /\ (LookedAway' => LookedAway /\ wipe'.targets = wipe.targets)
      BY <1>w, <2>1, <3>1 DEF Scheduled, Doomed, LookedAway, Destroying, NoWipe
    <3> QED BY <1>u, <2>1, <3>2
  <2> QED BY <2>2, <2>3
<1>4. CASE UnsetActive \/ Cascade \/ FinishReextract \/ FinishDelete
  <2>1. /\ UNCHANGED <<handler, evidence, straggler, late, left, lost, missed, outbox, inflight, revoked>>
        /\ wipe.pc \in Destroying /\ exists
    BY <1>4, <1>t DEF UnsetActive, Cascade, FinishReextract, FinishDelete, Destroying, Scheduled
  <2>2. Scheduled' /\ (LookedAway' => LookedAway /\ wipe'.targets = wipe.targets) /\ (Doomed' => Doomed)
    <3>1. CASE UnsetActive
      BY <1>w, <2>1, <3>1 DEF UnsetActive, Scheduled, LookedAway, Doomed, Destroying
    <3>2. CASE Cascade
      BY <1>t, <1>w, <2>1, <3>2 DEF Cascade, Scheduled, LookedAway, Doomed, Destroying, NoWipe
    <3>3. CASE FinishReextract
      BY <2>1, <3>3 DEF FinishReextract, Scheduled, LookedAway, Doomed, Destroying, NoWipe
    <3>4. CASE FinishDelete
      BY <1>t, <1>w, <2>1, <3>4 DEF FinishDelete, Scheduled, LookedAway, Doomed, Destroying, NoWipe
    <3> QED BY <1>4, <3>1, <3>2, <3>3, <3>4
  <2> QED BY <1>u, <2>1, <2>2
<1>5. CASE ScheduleSweep
  <2>1. /\ UNCHANGED <<exists, handler, evidence, straggler, late, lost, missed, inflight, revoked>>
        /\ wipe.pc = "enqueue" /\ exists
    BY <1>5, <1>t DEF ScheduleSweep, Scheduled
  <2>2. CASE wipe.targets = {}
    <3>1. UNCHANGED <<left, outbox>> /\ wipe' = [wipe EXCEPT !.pc = "cascade"]
      BY <1>5, <2>2 DEF ScheduleSweep
    <3>2. Scheduled' /\ (LookedAway' => LookedAway /\ wipe'.targets = wipe.targets) /\ (Doomed' => Doomed)
      BY <1>w, <2>1, <2>2, <3>1 DEF Scheduled, LookedAway, Doomed, Destroying
    <3> QED BY <1>u, <2>1, <3>1, <3>2
  <2>3. CASE wipe.targets # {}
    <3>1. PICK r \in wipe.targets : Enqueue(r) /\ wipe' = [wipe EXCEPT !.targets = @ \ {r}]
      BY <1>5, <2>3 DEF ScheduleSweep
    <3>2. /\ outbox' = outbox \cup {r} /\ r \in Runs
          /\ left' = left \/ left' = [left EXCEPT ![r]["sweep"] = Attempts + 1]
      BY <1>w, <3>1 DEF Enqueue, Spawn
    <3>3. \A q \in Runs : /\ left'[q]["sweep"] > 0 => left[q]["sweep"] > 0 \/ q = r
                          /\ Compensated(q) => Compensated(q)'
      <4>1. left \in [Runs -> [Tasks -> 0..(Attempts + 1)]]
        BY <1>0 DEF TypeOK
      <4>2. CASE left' = left
        BY <4>2 DEF Compensated
      <4>3. CASE left' = [left EXCEPT ![r]["sweep"] = Attempts + 1]
        BY <4>1, <4>3, <3>2 DEF Compensated, Tasks
      <4> QED BY <3>2, <4>2, <4>3
    <3>4. SweepsHaveRow' /\ Scheduled'
      BY <1>t, <1>w, <2>1, <3>1, <3>2, <3>3 DEF SweepsHaveRow, Scheduled
    <3>6. Findable'
      <4>1. handler.pc \in Collections \cup Ending => handler.run \in Runs
        BY <1>0 DEF HandlerHasRun, TypeOK, Collections, Ending
      <4>2. handler.run \in Runs => (Held(handler.run) => Held(handler.run)')
        BY <2>1, <3>2, <3>3 DEF Held
      <4> QED BY <1>t, <2>1, <4>1, <4>2 DEF Findable, LastMine, Clean, Gone, EvidenceOf
    <3>5. Unharmed
      BY <1>w, <2>1, <3>1, <3>2, <3>3 DEF Unharmed, LookedAway, Doomed, Destroying, Swept
    <3> QED BY <3>4, <3>5, <3>6, ForgetUnharmed
  <2> QED BY <2>2, <2>3
<1>6. CASE CrashRestart
  <2>1. /\ straggler' = {} /\ handler' = Idle /\ wipe' = NoWipe
        /\ UNCHANGED <<exists, evidence, late, missed, outbox>> /\ lost \subseteq lost'
    BY <1>6 DEF CrashRestart
  <2>2. PICK n \in {1, Attempts} :
           left' = [r \in Runs |-> [k \in Tasks |-> IF k = "sweep" /\ r \in outbox THEN n + 1 ELSE 0]]
    BY <1>6 DEF CrashRestart
  <2>3. SweepsHaveRow'
    BY <2>1, <2>2 DEF SweepsHaveRow, Tasks
  <2>4. Stragglers' /\ Findable' /\ WipeKnows'
    BY <2>1 DEF Stragglers, Findable, WipeKnows, Idle, Collections, Ending
  <2>5. Scheduled'
    BY <2>1 DEF Scheduled, NoWipe
  <2>6. \A r \in Runs : Compensated(r) => r \in lost'
    <3>0. left \in [Runs -> [Tasks -> 0..(Attempts + 1)]] /\ 0..(Attempts + 1) \subseteq Nat
      BY <1>0 DEF TypeOK
    <3>1. \A r \in Runs : left[r]["helper"] \in Nat /\ left[r]["handler"] \in Nat
      BY <3>0 DEF Tasks
    <3>2. lost' = lost \cup {r \in Runs : left[r]["helper"] + left[r]["handler"] > 0
                                          \/ (handler.run = r /\ handler.pc \in {"cancelled", "timeout", "timeout2"})}
      BY <1>6 DEF CrashRestart
    <3> QED BY <3>1, <3>2 DEF Compensated
  <2>7. EvidenceOwned'
    <3> SUFFICES ASSUME ~exists, NEW e \in evidence PROVE Swept(e[1])'
      BY <2>1 DEF EvidenceOwned, Doomed, NoWipe, Destroying
    <3>1. e[1] \in Runs /\ Doomed /\ wipe.targets = {}
      BY <1>0, <1>t DEF TypeOK, Doomed, Scheduled
    <3> QED BY <1>t, <2>1, <2>6, <3>1 DEF EvidenceOwned, Swept
  <2> QED BY <2>3, <2>4, <2>5, <2>7 DEF ForgetInv
<1> QED BY <1>1, <1>2, <1>3, <1>4, <1>5, <1>6 DEF WipeStepTaken


LEMMA ForgetStutters ==
    ASSUME ForgetInv, SweptClean, Unassigned, OrphanDone, UNCHANGED vars
    PROVE  ForgetInv' /\ SweptClean' /\ Unassigned' /\ OrphanDone'
<1>1. ForgetInv'
  BY DEF ForgetInv, SweepsHaveRow, Stragglers, Findable, LastMine, WipeKnows, LookedAway, Scheduled,
         EvidenceOwned, Doomed, Swept, Held, Compensated, Clean, Gone, EvidenceOf, vars
<1>2. SweptClean' /\ Unassigned' /\ OrphanDone'
  BY DEF SweptClean, Unassigned, OrphanDone, Finished, Compensated, Settled, Gone, EvidenceOf, vars
<1> QED BY <1>1, <1>2

\* Whatever a deleted paper has in the store, or may still get from a thread that
\* goes on, has somebody who will delete it, also after a crash, and whatever fails.
\* Excepted are the runs whose last compensation failed or came too early, those whose
\* compensation died with the process, those the registry has forgotten, and those
\* that began when the delete had looked.
THEOREM NothingIsForgotten == Spec => []NothingForgotten
<1> DEFINE Inv == Known /\ IndexInv /\ SweptClean /\ Unassigned /\ OrphanDone /\ ForgetInv
<1>1. Init => Inv
  <2>1. Init => SweptClean
    BY DEF Init, SweptClean, Tasks
  <2> QED BY <2>1, KnownAtStart, IndexAtStart, ForgetAtStart
<1>2. Inv /\ [Next]_vars => Inv'
  <2> SUFFICES ASSUME Known, IndexInv, SweptClean, Unassigned, OrphanDone, ForgetInv, [Next]_vars
               PROVE  Inv'
    OBVIOUS
  <2>0. Known' /\ IndexInv'
    BY KnownStep, IndexStep
  <2>1. CASE UNCHANGED vars
    BY <2>0, <2>1, ForgetStutters
  <2>2. CASE Next
    <3>1. SweptClean' /\ Unassigned' /\ OrphanDone'
      BY <2>2, SweptStep, UnassignedStep, OrphanStep DEF ForgetInv
    <3>2. InflightIsHandlers
      BY DEF IndexInv
    <3>3. ForgetInv'
      BY <2>2, <3>2, ForgetToHandler, ForgetToOthers, ForgetToCompensations, ForgetToRequests DEF Next
    <3> QED BY <2>0, <3>1, <3>3
  <2> QED BY <2>1, <2>2
<1>3. Inv => NothingForgotten
  BY ForgetSuffices
<1> QED BY <1>1, <1>2, <1>3, PTL DEF Spec

-----------------------------------------------------------------------------
\* ---- The index a paper shows stays ---------------------------------------
\* What a step outside a wipe leaves to a paper that shows an index.
IndexStays ==
    /\ evidence \cap EvidenceOf(active) \subseteq evidence'
    /\ active' = active \/ active' # NoRun

IndexTaken ==
    \/ \E k \in Tasks : left[active][k] > left'[active][k]
    \/ /\ evidence \cap EvidenceOf(active) \subseteq evidence'
       /\ \E r \in unset : left[r]["sweep"] > left'[r]["sweep"]

\* Whoever deletes by run deletes a run that the pointer does not name.
LEMMA StaysOrTaken ==
    ASSUME Known, Pointer, Next, wipe.pc = "idle", wipe' = wipe, active # NoRun
    PROVE  IndexStays \/ IndexTaken
<1> USE DEF store, At
<1>0. TypeOK /\ HandlerHasRun
  BY DEF Known
<1>1. CASE Indexing
  <2>1. CASE TakeEvent \/ BeginRun \/ Gate \/ EndActivation \/ HelperRevokes \/ HandlerRevokes
    BY <2>1 DEF TakeEvent, BeginRun, Gate, EndActivation, HelperRevokes, HandlerRevokes, IndexStays
  <2>2. CASE Activate
    <3>1. handler.run # NoRun
      BY <1>0, <2>2 DEF Activate, HandlerHasRun
    <3> QED BY <2>2, <3>1 DEF Activate, IndexStays
  <2>3. ASSUME NEW c \in Collections, Upsert(c) PROVE IndexStays
    BY <2>3 DEF Upsert, IndexStays
  <2>4. ASSUME NEW done \in SUBSET Collections, CleanUpOwn(done) PROVE IndexStays
    <3>1. active # handler.run
      BY <1>0, <2>4 DEF CleanUpOwn, Pointer, HandlerHasRun
    <3> QED BY <2>4, <3>1 DEF CleanUpOwn, IndexStays, EvidenceOf
  <2> QED BY <1>1, <2>1, <2>2, <2>3, <2>4 DEF Indexing
<1>2. ASSUME NEW r \in Runs, Compensating(r) \/ PollDue(r)
      PROVE  IndexStays \/ IndexTaken
  <2>1. CASE SweepLooks(r) \/ SweepEnds(r) \/ PollDue(r) \/ \E k \in Tasks : CompensateEnds(r, k)
    BY <2>1 DEF SweepLooks, SweepEnds, PollDue, CompensateEnds, IndexStays
  <2>2. ASSUME NEW k \in Tasks, NEW done \in SUBSET Collections, CompensateDeletes(r, k, done)
        PROVE  IndexStays \/ IndexTaken
    <3>1. /\ evidence' = evidence \ ({r} \X done) /\ left[r][k] > left'[r][k]
          /\ active' = IF ClearsPointer(r, k) THEN NoRun ELSE active
      <4>1. left \in [Runs -> [Tasks -> 0..(Attempts + 1)]]
        BY <1>0 DEF TypeOK
      <4>2. left'[r][k] = left[r][k] - 1 /\ left[r][k] \in Int
        BY <2>2, <4>1, RagAssumption DEF CompensateDeletes
      <4> QED BY <2>2, <4>2 DEF CompensateDeletes, DeleteRun
    <3>2. CASE r = active
      BY <3>1, <3>2 DEF IndexTaken
    <3>3. CASE r # active
      <4>1. evidence \cap EvidenceOf(active) \subseteq evidence'
        BY <3>1, <3>3 DEF EvidenceOf
      <4>2. CASE k = "sweep" /\ r \in unset
        BY <3>1, <4>1, <4>2 DEF IndexTaken
      <4>3. CASE ~(k = "sweep" /\ r \in unset)
        BY <3>1, <3>3, <4>1, <4>3 DEF ClearsPointer, IndexStays
      <4> QED BY <4>2, <4>3
    <3> QED BY <3>2, <3>3
  <2> QED BY <1>2, <2>1, <2>2 DEF Compensating
<1>3. CASE WipeStepTaken
  BY <1>3 DEF WipeStepTaken, PeekInflight, Abort, ExtendTargets, UnsetActive, ScheduleSweep,
              Cascade, FinishReextract, FinishDelete, Purge, Wiping
<1>4. CASE \/ CrashRestart \/ Publish \/ WatchdogRevokes \/ RevokeElsewhere
           \/ \E kind \in {"delete", "reextract"} : BeginWipe(kind)
           \/ \E w \in straggler : StragglerLands(w)
           \/ \E c \in Collections : UpsertFails(c) \/ IndexTimesOut(c)
  BY <1>4 DEF CrashRestart, Publish, WatchdogRevokes, RevokeElsewhere, BeginWipe, StragglerLands,
              UpsertFails, IndexTimesOut, IndexStays
<1>5. ASSUME NEW r \in Runs, NEW done \in SUBSET Collections, CleanUpPrevious(r, done)
      PROVE  IndexStays
  BY <1>5 DEF CleanUpPrevious, Pointer, IndexStays, EvidenceOf
<1> HIDE DEF store, At
<1> QED BY <1>1, <1>2, <1>3, <1>4, <1>5 DEF Next

\* Outside a wipe, a paper that shows an index loses evidence of it only to the
\* compensation of that very run, and the pointer only to that or to a sweep that had
\* seen its own run there.
THEOREM LivingIndexStays == Spec => LivingIndexKept
<1>1. Init => Known /\ IndexInv
  BY KnownAtStart, IndexAtStart
<1>2. Known /\ IndexInv /\ [Next]_vars => (Known /\ IndexInv)'
  BY KnownStep, IndexStep
<1>3. Known /\ IndexInv /\ [Next]_vars
         => [wipe.pc = "idle" /\ wipe' = wipe /\ active # NoRun =>
                \/ \E k \in Tasks : left[active][k] > left'[active][k]
                \/ /\ evidence \cap EvidenceOf(active) \subseteq evidence'
                   /\ \/ active' = active \/ active' # NoRun
                      \/ \E r \in unset : left[r]["sweep"] > left'[r]["sweep"]]_vars
  BY StaysOrTaken DEF IndexInv, IndexStays, IndexTaken
<1> QED BY <1>1, <1>2, <1>3, PTL DEF Spec, LivingIndexKept
=============================================================================
