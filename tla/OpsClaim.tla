------------------------------ MODULE OpsClaim ------------------------------
(***************************************************************************)
(* The claim on one paper that a reextract or a delete takes before it     *)
(* wipes: a row of paper_ops_claims with a token and an expiry, shared by  *)
(* all worker processes.  A request is one call of try_acquire, with a     *)
(* token of its own, and the release that follows it.                      *)
(*                                                                         *)
(* Within a worker an asyncio.Lock (gate) serialises the calls.  Across    *)
(* workers the transaction of an acquisition is serialised by an advisory  *)
(* lock on PostgreSQL only.  On SQLite the driver begins the transaction   *)
(* at the first write, so the read is not part of it, and the UPDATE of a  *)
(* steal names the paper alone.                                            *)
(*                                                                         *)
(* Workers read the same clock.                                            *)
(***************************************************************************)
EXTENDS Naturals, FiniteSets

CONSTANTS
    Requests,
    Workers,
    Home,          \* the worker that serves a request
    AdvisoryLock,  \* the database is PostgreSQL
    MaxEvictions,  \* bound: how often a watchdog evicts the claim
    NoOwner

ASSUME ClaimAssumption ==
    /\ Home \in [Requests -> Workers]
    /\ AdvisoryLock \in BOOLEAN
    /\ MaxEvictions \in Nat
    /\ NoOwner \notin Requests

VARIABLES
    pc,        \* the control point of each request
    owner,     \* owner_token of the row, NoOwner without a row
    live,      \* expires_at of the row is in the future
    gate,      \* who holds the gate of each worker
    advisory,  \* who holds the advisory lock
    evict,     \* the workers whose watchdog has read the row to delete it
    evictions,
    lease      \* requests told "yes" whose time is not over (auxiliary)

vars == <<pc, owner, live, gate, advisory, evict, evictions, lease>>
rowVars == <<owner, live, lease>>
evictVars == <<evict, evictions>>

Pcs == {"wait", "read", "insert", "steal", "held", "refused", "done", "dead"}

Init ==
    /\ pc = [r \in Requests |-> "wait"]
    /\ owner = NoOwner /\ live = FALSE
    /\ gate = [w \in Workers |-> NoOwner] /\ advisory = NoOwner
    /\ evict = {} /\ evictions = 0
    /\ lease = {}

-----------------------------------------------------------------------------
Goto(r, next) == pc' = [pc EXCEPT ![r] = next]

\* Mutant: an advisory lock of the session, not of the transaction.
LeaveKeepsAdvisory(r) ==
    gate' = [gate EXCEPT ![Home[r]] = NoOwner] /\ UNCHANGED advisory

\* Gate and transaction end together.
Leave(r) ==
    /\ gate' = [gate EXCEPT ![Home[r]] = NoOwner]
    /\ advisory' = IF advisory = r THEN NoOwner ELSE advisory

Own(r) ==
    /\ owner' = r /\ live' = TRUE /\ lease' = lease \cup {r}
    /\ Goto(r, "held")

\* Mutant: a refused call has no proper end.
RefuseNowhere(r) == Goto(r, "conflict") /\ UNCHANGED rowVars

\* PaperOpsClaimConflictError, or an exception of the database.
Refuse(r) == Goto(r, "refused") /\ UNCHANGED rowVars

\* try_acquire waits for the gate of its worker.
Enter(r) ==
    /\ pc[r] = "wait" /\ gate[Home[r]] = NoOwner
    /\ gate' = [gate EXCEPT ![Home[r]] = r]
    /\ Goto(r, "read")
    /\ UNCHANGED <<rowVars, advisory, evictVars>>

\* Mutant: a row is taken for expired whatever its expiry says.
ReadIgnoresExpiry(r) ==
    /\ pc[r] = "read" /\ advisory = NoOwner
    /\ advisory' = IF AdvisoryLock THEN r ELSE advisory
    /\ Goto(r, IF owner = NoOwner THEN "insert" ELSE "steal")
    /\ UNCHANGED <<gate, rowVars, evictVars>>

\* The advisory lock is taken, then the row is read.
Read(r) ==
    /\ pc[r] = "read" /\ advisory = NoOwner
    /\ IF live
         THEN Refuse(r) /\ Leave(r)
         ELSE /\ Goto(r, IF owner = NoOwner THEN "insert" ELSE "steal")
              /\ advisory' = IF AdvisoryLock THEN r ELSE advisory
              /\ UNCHANGED <<gate, rowVars>>
    /\ UNCHANGED evictVars

\* INSERT: the primary key refuses it if a row has come in between.
Insert(r) ==
    /\ pc[r] = "insert"
    /\ IF owner = NoOwner THEN Own(r) ELSE Refuse(r)
    /\ Leave(r) /\ UNCHANGED evictVars

\* UPDATE by primary key: it overwrites whatever row is there, and raises
\* (no row matched) when there is none any more.
Steal(r) ==
    /\ pc[r] = "steal"
    /\ IF owner # NoOwner THEN Own(r) ELSE Refuse(r)
    /\ Leave(r) /\ UNCHANGED evictVars

\* An error of the database ends the call; nothing is committed.  Or the row is
\* refused though it has expired: the call read the clock before it waited for
\* the lock and the row.
AcquireFails(r) ==
    /\ pc[r] \in {"read", "insert", "steal"}
    /\ Refuse(r) /\ Leave(r) /\ UNCHANGED evictVars

\* Mutant: release deletes the row of the paper, whoever owns it.
ReleaseAny(r) ==
    /\ pc[r] = "held" /\ gate[Home[r]] = NoOwner
    /\ Goto(r, "done") /\ lease' = lease \ {r}
    /\ owner' = NoOwner /\ live' = FALSE
    /\ UNCHANGED <<gate, advisory, evictVars>>

\* release: one DELETE that names paper and token.  If it fails the row stays.
Release(r) ==
    /\ pc[r] = "held" /\ gate[Home[r]] = NoOwner
    /\ Goto(r, "done") /\ lease' = lease \ {r}
    /\ \/ UNCHANGED <<owner, live>>
       \/ /\ owner = r
          /\ owner' = NoOwner /\ live' = FALSE
    /\ UNCHANGED <<gate, advisory, evictVars>>

\* force_release_sync on the watchdog thread, without gate or advisory lock:
\* it reads the row,
EvictReads(w) ==
    /\ w \notin evict /\ owner # NoOwner /\ evictions < MaxEvictions
    /\ evict' = evict \cup {w} /\ evictions' = evictions + 1
    /\ UNCHANGED <<pc, rowVars, gate, advisory>>

\* and deletes the row of the paper that is there by then.
EvictDeletes(w) ==
    /\ w \in evict /\ evict' = evict \ {w}
    /\ owner' = NoOwner /\ live' = FALSE /\ lease' = lease \ {owner}
    /\ UNCHANGED <<pc, gate, advisory, evictions>>

\* The clock passes the expires_at that request r wrote.
Expire(r) ==
    /\ r \in lease \/ (owner = r /\ live)
    /\ lease' = lease \ {r}
    /\ live' = (live /\ owner # r)
    /\ UNCHANGED <<pc, owner, gate, advisory, evictVars>>

\* A worker dies: its transactions roll back, the rows it committed stay.
Crash(w) ==
    LET lost == {r \in Requests : Home[r] = w} IN
    /\ \E r \in lost : pc[r] \notin {"dead", "refused", "done"}
    /\ pc' = [r \in Requests |-> IF r \in lost THEN "dead" ELSE pc[r]]
    /\ lease' = lease \ lost
    /\ gate' = [gate EXCEPT ![w] = NoOwner]
    /\ advisory' = IF advisory \in lost THEN NoOwner ELSE advisory
    /\ evict' = evict \ {w}
    /\ UNCHANGED <<owner, live, evictions>>

-----------------------------------------------------------------------------
RequestStep(r) ==
    Enter(r) \/ Read(r) \/ Insert(r) \/ Steal(r) \/ Release(r)

Next ==
    \/ \E r \in Requests : RequestStep(r) \/ AcquireFails(r) \/ Expire(r)
    \/ \E w \in Workers : EvictReads(w) \/ EvictDeletes(w) \/ Crash(w)

Spec == Init /\ [][Next]_vars

FairSpec == Spec /\ \A r \in Requests : WF_vars(RequestStep(r))

-----------------------------------------------------------------------------
\* Every variable has its type.
TypeOK ==
    /\ pc \in [Requests -> Pcs]
    /\ owner \in Requests \cup {NoOwner} /\ live \in BOOLEAN
    /\ gate \in [Workers -> Requests \cup {NoOwner}]
    /\ advisory \in Requests \cup {NoOwner}
    /\ evict \subseteq Workers /\ evictions \in 0..MaxEvictions
    /\ lease \subseteq Requests

\* Two requests never both believe that the paper is theirs, whichever workers
\* they run on and whatever was evicted, stolen or left behind before
\* ("multi-worker force wipe cannot interleave").
OneLease == \A q, r \in lease : q = r

\* A claim that has not run out is taken from its owner by nobody but the owner
\* and a watchdog: not by the release of a request whose own claim was stolen.
LivingClaimKept ==
    [][\A r \in Requests :
         live /\ owner = r /\ owner' # r => pc'[r] = "done" \/ evict' # evict]_vars

\* The claim implements the lease.
Lock == INSTANCE LeaseLock WITH leases <- lease
ImplementsLock == Lock!Spec

\* Nobody waits for ever at the gate or for the advisory lock, though their
\* holders may die.
Answered ==
    \A r \in Requests :
        pc[r] = "wait" ~> pc[r] \in {"held", "refused", "dead"}
=============================================================================
