---------------------------- MODULE RagIndexing ----------------------------
(***************************************************************************)
(* The vector index of one paper: the handler of PipelineFinalized that    *)
(* builds index runs, the registry that revokes them, the requests that    *)
(* wipe the paper, and the compensation that removes what a revoked run    *)
(* left or may still write.                                                *)
(*                                                                         *)
(* A run writes its evidence into three collections under its own id and   *)
(* becomes visible when the pointer of the paper names it.  A cancelled    *)
(* coroutine does not stop the thread it waits for: that thread is a       *)
(* straggler whose upsert may land later.                                  *)
(*                                                                         *)
(* Handler, requests, compensation tasks and the watchdog thread share     *)
(* the registry, the pointer and the store, and take turns between any two *)
(* accesses.                                                               *)
(***************************************************************************)
EXTENDS Naturals, Sequences, FiniteSets, SequencesExt

CONSTANTS
    Runs,          \* index_run_ids
    NoRun,
    Others,        \* runs of other papers, which the registry may hold as well
    Attempts,      \* delete_run attempts of a compensation task
    MaxRevoked,    \* _MAX_REVOKED_ENTRIES; a slice [-0:] would keep everything
    MaxCrashes,    \* bound
    MaxReextracts, \* bound
    MaxFaults,     \* bound: how often an operation of Faults fails
    Faults         \* what may fail

\* A build that takes too long; an upsert, the delete of a run, the purge of the
\* paper, the acknowledgement of a sweep, the removal of the graph that fails.
FaultKinds == {"timeout", "upsert", "delete", "purge", "ack", "cascade"}

ASSUME RagAssumption ==
    /\ NoRun \notin Runs \cup Others /\ Runs \cap Others = {}
    /\ Attempts \in Nat \ {0} /\ MaxRevoked \in Nat \ {0, 1}
    /\ MaxCrashes \in Nat /\ MaxReextracts \in Nat /\ MaxFaults \in Nat
    /\ Faults \subseteq FaultKinds

Collections == {"chunks", "entities", "relations"}
Tasks == {"helper", "handler", "sweep"}   \* who scheduled a compensation

VARIABLES
    exists,     \* the paper and its pipeline run have their rows
    active,     \* active_rag_run_id
    evidence,   \* what the collections hold: pairs of run and collection
    straggler,  \* upserts that threads of cancelled coroutines may still do
    fresh,      \* run ids nobody has drawn yet
    late,       \* runs that began when a wipe had already looked (auxiliary)
    inflight,   \* IndexingRunRegistry._inflight
    revoked,    \* IndexingRunRegistry._revoked, oldest first
    pipeline,   \* a pipeline of the paper will finish and publish
    queue,      \* PipelineFinalized events, by the epoch of their pipeline
    handler,    \* where the handler stands, its run, the run it replaces
    previous,   \* replaced runs whose cleanup task is pending
    left,       \* attempts (and the end) a compensation task has left
    unset,      \* sweeps that found their run active
    outbox,     \* rows of vector_cleanup_queue
    keys,       \* _INFLIGHT_KEYS
    wipe,       \* the reextract or delete under way
    epoch,      \* how often the paper was reextracted
    torn,       \* a purge has failed or died half way since the last activation
    lost,       \* runs whose compensation a crash has ended, or which the
                \* bounded set of revoked runs has forgotten (auxiliary)
    missed,     \* runs whose last compensation failed at the store, or came
                \* before a thread of the run had landed (auxiliary)
    crashes, faults

store == <<exists, active, evidence>>
drawn == <<fresh, late>>
registry == <<inflight, revoked, lost>>
intake == <<pipeline, queue>>
compensation == <<previous, left, unset>>
sweeps == <<outbox, keys>>
counts == <<epoch, torn, missed, crashes, faults>>
vars == <<exists, active, evidence, straggler, fresh, late, inflight, revoked,
          pipeline, queue, handler, previous, left, unset, outbox, keys,
          wipe, epoch, torn, lost, missed, crashes, faults>>

Idle == [pc |-> "idle", run |-> NoRun, prev |-> NoRun, epoch |-> 0]
NoWipe == [pc |-> "idle", kind |-> "none", targets |-> {}]

HandlerPcs == {"idle", "taken", "chunks", "entities", "relations", "gate",
               "activate", "clear", "refused", "failed", "cancelled",
               "timeout", "timeout2"}
WipePcs == {"idle", "peek", "abort", "extend", "purge", "unset", "enqueue",
            "cascade", "finish"}

Init ==
    /\ exists = TRUE /\ active = NoRun /\ evidence = {} /\ straggler = {}
    /\ fresh = Runs /\ late = {} /\ inflight = NoRun /\ revoked = <<>>
    /\ pipeline = TRUE /\ queue = <<>>
    /\ handler = Idle /\ previous = {}
    /\ left = [r \in Runs |-> [k \in Tasks |-> 0]] /\ unset = {}
    /\ outbox = {} /\ keys = {}
    /\ wipe = NoWipe
    /\ epoch = 0 /\ torn = FALSE /\ lost = {} /\ missed = {}
    /\ crashes = 0 /\ faults = 0

-----------------------------------------------------------------------------
EvidenceOf(r) == {r} \X Collections

\* One failing operation of kind f.
Fails(f) == f \in Faults /\ faults < MaxFaults /\ faults' = faults + 1

\* Deletes reach every collection, or only those in done when the store fails.
Deleted(done, f) == IF done = Collections THEN UNCHANGED faults ELSE Fails(f)

\* ---- The registry ------------------------------------------------------
\* The bound keeps the newest half.
Trimmed(s) ==
    IF Len(s) <= MaxRevoked THEN s
    ELSE SubSeq(s, Len(s) - (MaxRevoked \div 2) + 1, Len(s))

IsRevoked(r) == \E i \in 1..Len(revoked) : revoked[i] = r

\* The entries are the keys of a dictionary: no run is there twice.
Dropped(r) ==
    IF IsRevoked(r)
    THEN RemoveAt(revoked, CHOOSE i \in 1..Len(revoked) : revoked[i] = r)
    ELSE revoked

\* The run most recently revoked for this paper.
Sticky ==
    LET mine == {i \in 1..Len(revoked) : revoked[i] \in Runs}
    IN IF mine = {} THEN NoRun
       ELSE revoked[CHOOSE i \in mine : \A j \in mine : j <= i]

\* revoke(paper) without a run id.
RevokeTarget == IF inflight # NoRun THEN inflight ELSE Sticky

\* Runs of this paper that a trimming forgets.
Forgotten == {r \in Runs : IsRevoked(r) /\ ~IsRevoked(r)'}

Revoke(r) ==
    /\ revoked' = Trimmed(Append(Dropped(r), r))
    /\ inflight' = IF inflight = r THEN NoRun ELSE inflight
    /\ lost' = lost \cup Forgotten

RevokeCurrent ==
    IF inflight # NoRun THEN Revoke(inflight) ELSE UNCHANGED registry

Clear(r) ==
    /\ inflight' = IF inflight = r THEN NoRun ELSE inflight
    /\ revoked' = Dropped(r) /\ UNCHANGED lost

\* Mutant: the gate refuses only while another run is under way.
MayActivateUnlessReplaced(r) == inflight \in {r, NoRun}

MayActivate(r) == ~IsRevoked(r) /\ inflight = r

-----------------------------------------------------------------------------
\* ---- Events ------------------------------------------------------------
\* The pipeline of the paper ends and publishes PipelineFinalized.
Publish ==
    /\ pipeline /\ pipeline' = FALSE
    /\ queue' = Append(queue, epoch)
    /\ UNCHANGED <<store, straggler, drawn, registry, handler, compensation,
                   sweeps, wipe, counts>>

\* The worker of the bus takes an event.  The payload of a paper without a
\* row is rejected by contract and nothing is indexed.
TakeEvent ==
    /\ handler.pc = "idle" /\ queue # <<>>
    /\ queue' = Tail(queue)
    /\ handler' = IF exists THEN [Idle EXCEPT !.pc = "taken", !.epoch = Head(queue)]
                  ELSE Idle
    /\ UNCHANGED <<store, straggler, drawn, registry, pipeline, compensation,
                   sweeps, wipe, counts>>

-----------------------------------------------------------------------------
\* ---- replace_paper_index -----------------------------------------------
At(pc) == handler.pc = pc
Step(pc) == handler' = [handler EXCEPT !.pc = pc]

\* A wipe has revoked what had begun and does not look again.
LookedAway == ~exists \/ wipe.pc \in {"purge", "unset", "enqueue", "cascade", "finish"}

BeginRun ==
    /\ At("taken")
    /\ \E r \in fresh :
          /\ fresh' = fresh \ {r}
          /\ late' = IF LookedAway THEN late \cup {r} ELSE late
          /\ inflight' = r /\ revoked' = Dropped(r) /\ UNCHANGED lost
          /\ handler' = [handler EXCEPT !.pc = "chunks", !.run = r, !.prev = active]
    /\ UNCHANGED <<store, straggler, intake, compensation, sweeps, wipe, counts>>

NextUpsert == [chunks |-> "entities", entities |-> "relations", relations |-> "gate"]

\* _index_chunks, _index_entities, _index_relations: one upsert each.
Upsert(c) ==
    /\ At(c)
    /\ evidence' = evidence \cup {<<handler.run, c>>}
    /\ Step(NextUpsert[c])
    /\ UNCHANGED <<exists, active, straggler, drawn, registry, intake,
                   compensation, sweeps, wipe, counts>>

\* The embedding service or the store raises.
UpsertFails(c) ==
    /\ At(c) /\ Fails("upsert")
    /\ Revoke(handler.run) /\ Step("failed")
    /\ UNCHANGED <<store, straggler, drawn, intake, compensation, sweeps, wipe,
                   epoch, torn, missed, crashes>>

\* wait_for cancels the coroutine inside an upsert; the thread may go on.
IndexTimesOut(c) ==
    /\ At(c) /\ Fails("timeout")
    /\ \/ straggler' = straggler \cup {<<handler.run, c>>}
       \/ UNCHANGED straggler
    /\ Revoke(handler.run) /\ Step("cancelled")
    /\ UNCHANGED <<store, drawn, intake, compensation, sweeps, wipe, epoch, torn,
                   missed, crashes>>

StragglerLands(w) ==
    /\ w \in straggler
    /\ straggler' = straggler \ {w}
    /\ evidence' = evidence \cup {w}
    /\ UNCHANGED <<exists, active, drawn, registry, intake, handler,
                   compensation, sweeps, wipe, counts>>

Gate ==
    /\ At("gate")
    /\ IF MayActivate(handler.run)
       THEN Step("activate") /\ UNCHANGED registry
       ELSE Step("refused") /\ Revoke(handler.run)
    /\ UNCHANGED <<store, straggler, drawn, intake, compensation, sweeps, wipe,
                   counts>>

\* set_active_run_id; without a row it raises.
Activate ==
    /\ At("activate")
    /\ IF exists
       THEN /\ active' = handler.run /\ torn' = FALSE
            /\ Step("clear") /\ UNCHANGED registry
       ELSE /\ Revoke(handler.run) /\ Step("failed")
            /\ UNCHANGED <<active, torn>>
    /\ UNCHANGED <<exists, evidence, straggler, drawn, intake, compensation,
                   sweeps, wipe, epoch, missed, crashes, faults>>

\* The run leaves the registry and the task that cleans the replaced run starts.
EndActivation ==
    /\ At("clear")
    /\ Clear(handler.run)
    /\ previous' = IF handler.prev = NoRun THEN previous
                   ELSE previous \cup {handler.prev}
    /\ handler' = Idle
    /\ UNCHANGED <<store, straggler, drawn, intake, left, unset, sweeps, wipe,
                   counts>>

\* _cleanup_run_safely of the run that did not make it.
CleanUpOwn(done) ==
    /\ handler.pc \in {"refused", "failed", "cancelled"}
    /\ Deleted(done, "delete")
    /\ evidence' = evidence \ ({handler.run} \X done)
    /\ IF At("failed") THEN Clear(handler.run) ELSE UNCHANGED registry
    /\ handler' = IF At("cancelled") THEN [handler EXCEPT !.pc = "timeout"] ELSE Idle
    /\ UNCHANGED <<exists, active, straggler, drawn, intake, compensation,
                   sweeps, wipe, epoch, torn, missed, crashes>>

CleanUpPrevious(r, done) ==
    /\ r \in previous /\ previous' = previous \ {r}
    /\ Deleted(done, "delete")
    /\ evidence' = evidence \ ({r} \X done)
    /\ UNCHANGED <<exists, active, straggler, drawn, registry, intake, handler,
                   left, unset, sweeps, wipe, epoch, torn, missed, crashes>>

\* _revoke_and_schedule_orphan_cleanup: the sticky run is found again.
ScheduleOrphan(k) ==
    /\ RevokeCurrent
    /\ left' = IF RevokeTarget = NoRun THEN left
               ELSE [left EXCEPT ![RevokeTarget][k] = Attempts + 1]

\* TimeoutError reaches the helper of wait_for, then the handler itself.
HelperRevokes ==
    /\ At("timeout") /\ ScheduleOrphan("helper") /\ Step("timeout2")
    /\ UNCHANGED <<store, straggler, drawn, intake, previous, unset, sweeps,
                   wipe, counts>>

HandlerRevokes ==
    /\ At("timeout2") /\ ScheduleOrphan("handler") /\ handler' = Idle
    /\ UNCHANGED <<store, straggler, drawn, intake, previous, unset, sweeps,
                   wipe, counts>>

\* The cascading kill of the processing watchdog revokes from its thread.
WatchdogRevokes ==
    /\ inflight # NoRun /\ RevokeCurrent
    /\ UNCHANGED <<store, straggler, drawn, intake, handler, compensation,
                   sweeps, wipe, counts>>

\* A run of another paper is revoked and stays in the bounded set, which may
\* forget runs of this paper for it.
RevokeElsewhere ==
    /\ \E x \in Others :
          /\ ~IsRevoked(x) /\ revoked' = Trimmed(Append(revoked, x))
    /\ lost' = lost \cup Forgotten
    /\ UNCHANGED <<store, straggler, drawn, inflight, intake, handler,
                   compensation, sweeps, wipe, counts>>

-----------------------------------------------------------------------------
\* ---- _compensate_revoked_index_run -------------------------------------
\* Nothing of the run can arrive any more.
Settled(r) ==
    /\ straggler \cap EvidenceOf(r) = {}
    /\ ~(handler.run = r /\ handler.pc \in Collections \cup {"gate", "activate", "clear"})

\* The last attempt of a sweep comes paper_wipe_vector_sweep_delay_seconds after
\* the abort at the earliest, past the time-out of a build: the settings take its
\* threads for "statistically dead" by then, and so does the model.  The delays
\* of a compensation by the handler, 0, 5 and 10 s, promise nothing.
Due(r, k) == k = "sweep" /\ left[r][k] = 2 => Settled(r)

\* Somebody but the task k will still delete the evidence of r.
OthersDelete(r, k) ==
    r \in outbox \/ \E j \in Tasks \ {k} : left[r][j] > 1

\* The last attempt of task k fails, or a thread lands behind it.
Misses(r, k, done) ==
    /\ left[r][k] = 2
    /\ done # Collections \/ straggler \cap EvidenceOf(r) # {}
    /\ k = "sweep" \/ ~OthersDelete(r, k)

\* A sweep runs on the main loop, where the requests suspend only in these
\* places.
MainLoopFree == wipe.pc \in {"idle", "abort", "purge"}

\* The run of a sweep is active: the pointer is cleared in a transaction of
\* its own.  The handler lives on the other loop and may come in between.
SweepLooks(r) ==
    /\ left[r]["sweep"] > 1 /\ Due(r, "sweep") /\ MainLoopFree
    /\ r \notin unset /\ active = r
    /\ unset' = unset \cup {r}
    /\ UNCHANGED <<store, straggler, drawn, registry, intake, handler,
                   previous, left, sweeps, wipe, counts>>

\* Mutant: the compensation deletes what the paper has.
DeleteRunOfPaper(r, done) == evidence' = {e \in evidence : e[2] \notin done}

\* Mutant: the relations of the run are forgotten.
DeleteRunInPart(r, done) ==
    evidence' = evidence \ ({r} \X (done \ {"relations"}))

\* delete_run
DeleteRun(r, done) == evidence' = evidence \ ({r} \X done)

\* A task of the handler's loop looks and clears without a pause.
ClearsPointer(r, k) == IF k = "sweep" THEN r \in unset ELSE active = r

CompensateDeletes(r, k, done) ==
    /\ left[r][k] > 1 /\ Due(r, k)
    /\ k = "sweep" => MainLoopFree /\ (r \in unset \/ active # r)
    /\ active' = IF ClearsPointer(r, k) THEN NoRun ELSE active
    /\ unset' = IF k = "sweep" THEN unset \ {r} ELSE unset
    /\ Deleted(done, "delete") /\ DeleteRun(r, done)
    /\ missed' = IF Misses(r, k, done) THEN missed \cup {r} ELSE missed
    /\ left' = [left EXCEPT ![r][k] = @ - 1]
    /\ UNCHANGED <<exists, straggler, drawn, registry, intake, handler,
                   previous, sweeps, wipe, epoch, torn, crashes>>

CompensateEnds(r, k) ==
    /\ k # "sweep" /\ left[r][k] = 1
    /\ Clear(r) /\ left' = [left EXCEPT ![r][k] = 0]
    /\ UNCHANGED <<store, straggler, drawn, intake, handler, previous, unset,
                   sweeps, wipe, counts>>

\* Mutant: the key of a job is given back only when the row is gone.
EndJobOnSuccess(r, acked) == IF acked THEN keys' = keys \ {r} ELSE UNCHANGED keys

\* finally: _end_inflight
EndJob(r, acked) == keys' = keys \ {r}

\* _execute_wave2_job after its attempts: the row is acknowledged, or the
\* database refuses and the row stays for the poller.
SweepEnds(r) ==
    /\ left[r]["sweep"] = 1 /\ MainLoopFree
    /\ Clear(r) /\ left' = [left EXCEPT ![r]["sweep"] = 0]
    /\ \/ outbox' = outbox \ {r} /\ EndJob(r, TRUE) /\ UNCHANGED faults
       \/ Fails("ack") /\ EndJob(r, FALSE) /\ UNCHANGED outbox
    /\ UNCHANGED <<store, straggler, drawn, intake, handler, previous, unset,
                   wipe, epoch, torn, missed, crashes>>

\* _spawn_wave2_job
Spawn(r, n) ==
    /\ keys' = keys \cup {r}
    /\ left' = IF r \in keys THEN left ELSE [left EXCEPT ![r]["sweep"] = n + 1]

\* drain_due_vector_cleanup_jobs
Polled(r) == r \in outbox \ keys /\ Settled(r)

PollDue(r) ==
    /\ Polled(r) /\ MainLoopFree /\ Spawn(r, 1)
    /\ UNCHANGED <<store, straggler, drawn, registry, intake, handler,
                   previous, unset, outbox, wipe, counts>>

-----------------------------------------------------------------------------
\* ---- Reextract and delete ----------------------------------------------
\* A sweep that has looked does not suspend before it has cleared.
Wiping(pc) == wipe.pc = pc /\ unset = {}
WipeStep(pc) == wipe' = [wipe EXCEPT !.pc = pc]

\* snapshot_wipe_target_run_ids reads the pointer ...
BeginWipe(kind) ==
    /\ Wiping("idle") /\ exists
    /\ kind = "reextract" => epoch < MaxReextracts
    /\ wipe' = [pc |-> "peek", kind |-> kind, targets |-> {active} \ {NoRun}]
    /\ UNCHANGED <<store, straggler, drawn, registry, intake, handler,
                   compensation, sweeps, counts>>

\* ... and then the registry.
PeekInflight ==
    /\ Wiping("peek")
    /\ wipe' = [wipe EXCEPT !.pc = "abort", !.targets = @ \cup ({inflight} \ {NoRun})]
    /\ UNCHANGED <<store, straggler, drawn, registry, intake, handler,
                   compensation, sweeps, counts>>

\* abort_in_flight_pipeline: the pipeline is cancelled, the index run revoked.
Abort ==
    /\ Wiping("abort") /\ pipeline' = FALSE
    /\ RevokeCurrent /\ WipeStep("extend")
    /\ UNCHANGED <<store, straggler, drawn, queue, handler, compensation,
                   sweeps, counts>>

\* Mutant: what the abort revoked is not swept.
ExtendedBySnapshot == wipe.targets

\* extend_wipe_targets_after_abort
Extended == wipe.targets \cup ({RevokeTarget} \ {NoRun})

ExtendTargets ==
    /\ Wiping("extend")
    /\ wipe' = [wipe EXCEPT !.pc = "purge", !.targets = Extended]
    /\ RevokeCurrent
    /\ UNCHANGED <<store, straggler, drawn, intake, handler, compensation,
                   sweeps, counts>>

\* Wave 1, delete_by_paper.  An outage ends a delete (503) and is ignored by
\* a reextract.  The request has read pdf_path on the bridge loop just before,
\* so the handler is not between its gate and set_active_run_id.
Purge(done) ==
    /\ Wiping("purge") /\ ~At("activate") /\ Deleted(done, "purge")
    /\ evidence' = {e \in evidence : e[2] \notin done}
    /\ torn' = TRUE
    /\ IF done = Collections THEN WipeStep("unset")
       ELSE wipe' = IF wipe.kind = "delete" THEN NoWipe
                    ELSE [wipe EXCEPT !.pc = "enqueue"]
    /\ UNCHANGED <<exists, active, straggler, drawn, registry, intake, handler,
                   compensation, sweeps, epoch, missed, crashes>>

UnsetActive ==
    /\ Wiping("unset") /\ active' = NoRun /\ WipeStep("enqueue")
    /\ UNCHANGED <<exists, evidence, straggler, drawn, registry, intake,
                   handler, compensation, sweeps, counts>>

\* Mutant: the sweep is only a task of this process.
EnqueueInMemory(r) == Spawn(r, Attempts) /\ UNCHANGED outbox

\* enqueue_sync is durable; a row that is there already has its worker.
Enqueue(r) ==
    /\ outbox' = outbox \cup {r}
    /\ IF r \in outbox THEN UNCHANGED <<keys, left>> ELSE Spawn(r, Attempts)

\* Wave 2, schedule_wipe_wave2_sweep, one target at a time.
ScheduleSweep ==
    /\ Wiping("enqueue")
    /\ IF wipe.targets = {} THEN WipeStep("cascade") /\ UNCHANGED <<left, sweeps>>
       ELSE \E r \in wipe.targets :
               /\ Enqueue(r)
               /\ wipe' = [wipe EXCEPT !.targets = @ \ {r}]
    /\ UNCHANGED <<store, straggler, drawn, registry, intake, handler,
                   previous, unset, counts>>

\* Graph files, then clear_ephemeral_pipeline_state.
Cascade ==
    /\ Wiping("cascade")
    /\ \/ active' = NoRun /\ WipeStep("finish") /\ UNCHANGED faults
       \/ Fails("cascade") /\ wipe' = NoWipe /\ UNCHANGED active
    /\ UNCHANGED <<exists, evidence, straggler, drawn, registry, intake,
                   handler, compensation, sweeps, epoch, torn, missed, crashes>>

FinishReextract ==
    /\ Wiping("finish") /\ wipe.kind = "reextract"
    /\ active' = NoRun
    /\ epoch' = epoch + 1 /\ pipeline' = TRUE /\ wipe' = NoWipe
    /\ UNCHANGED <<exists, evidence, straggler, drawn, registry, queue,
                   handler, compensation, sweeps, torn, missed, crashes, faults>>

FinishDelete ==
    /\ Wiping("finish") /\ wipe.kind = "delete"
    /\ exists' = FALSE /\ active' = NoRun /\ wipe' = NoWipe
    /\ UNCHANGED <<evidence, straggler, drawn, registry, intake, handler,
                   compensation, sweeps, counts>>

-----------------------------------------------------------------------------
\* The process dies and starts again.  What the outbox holds is scheduled
\* before any other work; a row whose time has come gets one attempt.
CrashRestart ==
    /\ crashes < MaxCrashes /\ crashes' = crashes + 1
    /\ straggler' = {} /\ inflight' = NoRun /\ revoked' = <<>>
    /\ pipeline' = FALSE /\ queue' = <<>> /\ handler' = Idle /\ wipe' = NoWipe
    /\ previous' = {} /\ unset' = {}
    /\ keys' = outbox
    /\ \E n \in {1, Attempts} :
          left' = [r \in Runs |-> [k \in Tasks |->
                     IF k = "sweep" /\ r \in outbox THEN n + 1 ELSE 0]]
    /\ torn' = (torn \/ wipe.pc \in {"purge", "unset"})
    /\ lost' = lost \cup {r \in Runs : left[r]["helper"] + left[r]["handler"] > 0
                                       \/ (handler.run = r /\ handler.pc \in {"cancelled", "timeout", "timeout2"})}
    /\ UNCHANGED <<store, drawn, outbox, epoch, missed, faults>>

Indexing ==
    \/ TakeEvent \/ BeginRun \/ Gate \/ Activate \/ EndActivation
    \/ HelperRevokes \/ HandlerRevokes
    \/ \E c \in Collections : Upsert(c)
    \/ \E done \in SUBSET Collections : CleanUpOwn(done)

Compensating(r) ==
    \/ SweepLooks(r) \/ \E k \in Tasks : CompensateEnds(r, k)
    \/ \E k \in Tasks, done \in SUBSET Collections : CompensateDeletes(r, k, done)
    \/ SweepEnds(r)

WipeStepTaken ==
    \/ PeekInflight \/ Abort \/ ExtendTargets \/ UnsetActive \/ ScheduleSweep
    \/ Cascade \/ FinishReextract \/ FinishDelete
    \/ \E done \in SUBSET Collections : Purge(done)

Next ==
    \/ Publish \/ Indexing \/ WipeStepTaken
    \/ \E c \in Collections : UpsertFails(c) \/ IndexTimesOut(c)
    \/ \E w \in straggler : StragglerLands(w)
    \/ WatchdogRevokes \/ RevokeElsewhere
    \/ \E r \in Runs, done \in SUBSET Collections : CleanUpPrevious(r, done)
    \/ \E r \in Runs : Compensating(r) \/ PollDue(r)
    \/ \E kind \in {"delete", "reextract"} : BeginWipe(kind)
    \/ CrashRestart

Spec == Init /\ [][Next]_vars

\* Coroutines that can go on do, threads end, the poller polls for ever.
Fairness ==
    /\ WF_vars(Indexing) /\ WF_vars(WipeStepTaken)
    /\ WF_vars(\E w \in straggler : StragglerLands(w))
    /\ \A r \in Runs : WF_vars(Compensating(r)) /\ WF_vars(PollDue(r))
    /\ \A r \in Runs :
          WF_vars(\E done \in SUBSET Collections : CleanUpPrevious(r, done))

FairSpec == Spec /\ Fairness

-----------------------------------------------------------------------------
TypeOK ==
    /\ exists \in BOOLEAN /\ active \in Runs \cup {NoRun}
    /\ evidence \subseteq Runs \X Collections
    /\ straggler \subseteq Runs \X Collections
    /\ fresh \subseteq Runs /\ late \subseteq Runs /\ inflight \in Runs \cup {NoRun}
    /\ revoked \in Seq(Runs \cup Others)
    /\ pipeline \in BOOLEAN /\ queue \in Seq(Nat)
    /\ handler \in [pc : HandlerPcs, run : Runs \cup {NoRun},
                    prev : Runs \cup {NoRun}, epoch : Nat]
    /\ previous \subseteq Runs
    /\ left \in [Runs -> [Tasks -> 0..(Attempts + 1)]]
    /\ unset \subseteq Runs
    /\ outbox \subseteq Runs /\ keys \subseteq Runs
    /\ wipe \in [pc : WipePcs, kind : {"none", "delete", "reextract"},
                 targets : SUBSET Runs]
    /\ epoch \in Nat /\ torn \in BOOLEAN /\ lost \subseteq Runs
    /\ missed \subseteq Runs /\ crashes \in Nat /\ faults \in Nat

-----------------------------------------------------------------------------
\* The run the paper points to has its evidence in all three collections,
\* unless a purge stopped half way or the run began behind the back of a wipe: a
\* revoked run passes no gate, and who compensates for one run takes nothing of
\* another.
ActiveComplete ==
    active # NoRun /\ active \notin late /\ ~torn => EvidenceOf(active) \subseteq evidence

\* Somebody will still delete the evidence of r.
Owned(r) ==
    \/ r \in outbox \cup previous \/ handler.run = r
    \/ \E k \in Tasks : left[r][k] > 1

\* After a delete, whatever is in the store or may still land there has an
\* owner, also after a crash.  Excepted are the runs whose owner has tried for the
\* last time, in vain or too early; those whose compensation has no row in the
\* outbox and died with the process; those the registry has forgotten; and those
\* that began when the wipe had looked.
NothingForgotten ==
    ~exists => \A e \in evidence \cup straggler :
                   Owned(e[1]) \/ e[1] \in lost \cup late \cup missed

\* Outside a wipe only the compensation of the run the paper points to deletes its
\* evidence, and only that one takes the pointer away, or a sweep that looked when
\* the pointer still named the run of the sweep.
LivingIndexKept ==
    [][wipe.pc = "idle" /\ wipe' = wipe /\ active # NoRun =>
          \/ \E k \in Tasks : left[active][k] > left'[active][k]
          \/ /\ evidence \cap EvidenceOf(active) \subseteq evidence'
             /\ \/ active' = active \/ active' # NoRun
                \/ \E r \in unset : left[r]["sweep"] > left'[r]["sweep"]]_vars

\* A row of the outbox is given up only when its run has left the store, or when
\* the last attempt to delete it has failed there: no late thread and no later
\* step of the build brings evidence back between the last delete and the
\* acknowledgement.
AckedUnlessMissed ==
    [][\A r \in outbox \ outbox' :
          evidence \cap EvidenceOf(r) = {} \/ r \in missed]_vars

\* "Run delayed delete_run retries, then ack the durable outbox row on success"
\* (wipe_vector_sweep.py:105).
AckedMeansGone ==
    [][\A r \in outbox \ outbox' : evidence \cap EvidenceOf(r) = {}]_vars

\* An index run of a pipeline that a reextract has superseded is not activated.
NoStaleActivation ==
    [][active' # active /\ active' # NoRun => handler.epoch = epoch]_vars

\* Every row of the outbox is worked off, across a crash and a lost
\* acknowledgement.
SweepsEnd == \A r \in Runs : r \in outbox ~> r \notin outbox

\* A deleted paper leaves nothing in the store in the end, but for the runs
\* NothingForgotten excepts.
GhostsVanish ==
    ~exists ~> \A e \in evidence : e[1] \in lost \cup late \cup missed
=============================================================================
