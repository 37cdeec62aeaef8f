--------------------------- MODULE PaperPipeline ---------------------------
(***************************************************************************)
(* The life of one paper inside one backend process.  Actors:              *)
(*                                                                         *)
(*   - on the main event loop, which runs one coroutine at a time between  *)
(*     two awaits (variable loop): the upload request, one pipeline task   *)
(*     per run, the background full extraction a run may start, the        *)
(*     reextract and delete requests, and the abort coroutine that the     *)
(*     watchdog posts;                                                     *)
(*   - on the bridge loop: the event bus worker with the RAG handler;      *)
(*   - on operating-system threads: the processing watchdog (dog) and the  *)
(*     indexing watchdog (iw).                                             *)
(*                                                                         *)
(* A step of another thread may fall between any two database or disk      *)
(* writes of a coroutine that holds the main loop.  A transaction of the   *)
(* asynchronous repositories is one step; the read and the write of the    *)
(* synchronous watchdog helpers are two.                                   *)
(***************************************************************************)
EXTENDS Naturals, Sequences, FiniteSets, PaperStatus

CONSTANTS
    Runs,             \* pipeline runs: an upload or a reextract starts one
    Ops,              \* requests that wipe the paper: reextract or delete
    WatchdogEnabled,  \* settings.process_watchdog_enabled
    IndexingWatchdogEnabled,  \* settings.rag_indexing_watchdog_enabled
    Faults,           \* where the disk or the database may fail
    MaxCrashes,       \* bound: how often the process dies and restarts
    NoRun, NoOp, Dog, Free

\* A step of a wipe; the reset of the run row, after it; a step of finalize; the
\* promotion by the RAG handler.
FaultKinds == {"wipe", "requeue", "finalize", "promote"}

ASSUME ConstantsAssumption ==
    /\ NoRun \notin Runs
    /\ {NoOp, Dog} \cap Ops = {} /\ NoOp # Dog
    /\ WatchdogEnabled \in BOOLEAN /\ IndexingWatchdogEnabled \in BOOLEAN
    /\ Faults \subseteq FaultKinds
    /\ MaxCrashes \in Nat
    /\ Free \notin ({"pipe", "full"} \X Runs) \cup Ops
    /\ Ops \cap ({"pipe", "full"} \X Runs) = {}

Tasks == {"pipe", "full"} \X Runs
Pipe(r) == <<"pipe", r>>
Full(r) == <<"full", r>>
RunOf(t) == t[2]
IsPipe(t) == t[1] = "pipe"
Aborters == Ops \cup {Dog}

IdleRag == [pc |-> "idle", run |-> NoRun, ok |-> FALSE, revoked |-> FALSE]
IdleDog == [pc |-> "idle", gen |-> FALSE, stage |-> FALSE, apart |-> FALSE]

VARIABLES
    status,      \* papers.status, "absent" without a row
    stage,       \* pipeline_runs.stage
    gen,         \* pipeline_runs.pipeline_generation_id: the run it names
    hasRun,      \* the pipeline_runs row exists
    stale,       \* updated_at (the heartbeat when indexing) is past its threshold
    apart,       \* the two rows were last written one without the other (auxiliary)
    file,        \* the run whose graph GraphStore holds
    pdf,         \* the uploaded PDF is on disk
    vec,         \* active_rag_run_id: the run whose evidence is active
    pc,          \* the control point of every task
    cancelled,   \* tasks with a pending CancelledError
    pipeReg,     \* _pipeline_tasks
    fullReg,     \* _full_extract_tasks
    loop,        \* who is between two awaits on the main loop
    upload,      \* progress of the upload request
    opPc,        \* the control point of every wipe request and of the posted abort
    opKind,      \* what a wipe request does
    target,      \* the task an abort has cancelled and awaits
    claim,       \* owner of the paper_ops_claims row
    lostClaim,   \* requests whose claim ran out or was evicted while they
                 \* worked (auxiliary)
    bus,         \* PipelineFinalized events waiting for the worker
    rag,         \* the RAG handler: [pc, run, ok, revoked]
    abandoned,   \* since INDEXING was last marked, the publish or the handler
                 \* has failed (auxiliary)
    dog,         \* the processing watchdog: [pc, gen, stage, apart]
    iw,          \* the indexing watchdog
    crashes

snapshot == <<status, stage, hasRun, stale, apart>>
rowVars  == <<status, stage, gen, hasRun, stale, apart>>
diskVars == <<file, pdf, vec>>
taskVars == <<pc, cancelled, pipeReg, fullReg>>
opVars   == <<opPc, opKind, target, claim, lostClaim>>
ragVars  == <<bus, rag, abandoned>>
vars == <<rowVars, diskVars, taskVars, loop, upload, opVars, ragVars, dog, iw,
          crashes>>

-----------------------------------------------------------------------------
(* Control points.                                                         *)

\* Work of a node in progress: the coroutine awaits and can be cancelled.
NodePcs == {"begun", "ingesting", "head_refining", "refined", "classifying",
            "extracting"}
AwaitPcs == NodePcs \cup {"queued", "route_fail", "ensure", "drain",
                          "chunking"}
\* Inside a stretch without await: the coroutine holds the main loop.
HoldPcs == {"mint", "guard", "save", "recheck", "commit", "publish",
            "fail_full"}
TaskPcs == {"new", "done"} \cup AwaitPcs \cup HoldPcs

\* Mutant: one node reports a stage the contract does not know.
StageAfterMisnamed == [begun |-> "ingesting", ingesting |-> "head_refining",
                       head_refining |-> "head_refining", refined |-> "classify",
                       classifying |-> "extracting", extracting |-> "storing"]

\* The stage a pipeline node reports when it starts, and where it goes then.
StageAfter == [begun |-> "ingesting", ingesting |-> "head_refining",
               head_refining |-> "head_refining", refined |-> "classifying",
               classifying |-> "extracting", extracting |-> "storing"]
PcAfter == [begun |-> "ingesting", ingesting |-> "head_refining",
            head_refining |-> "refined", refined |-> "classifying",
            classifying |-> "extracting", extracting |-> "guard"]

AbortPcs == {"abort", "await_pipe", "await_head", "await_full"}
OpHoldPcs == {"wipe", "reset", "requeue", "clear", "schedule", "rm_graph",
              "rm_pdf", "rm_row"}
OpPcs == {"idle", "claim", "purge", "release"} \cup AbortPcs \cup OpHoldPcs

Live(t) == pc[t] \notin {"new", "done"}
Fresh(r) == pc[Pipe(r)] = "new"
Exists == status # "absent"

\* Mutants: the test of task.done() is the wrong way round.
PipelineTaskDone ==
    IF pipeReg # NoRun /\ ~Live(Pipe(pipeReg)) THEN pipeReg ELSE NoRun
FullTaskDone == IF fullReg # NoRun /\ ~Live(Full(fullReg)) THEN fullReg ELSE NoRun

\* get_pipeline_task and get_full_extraction_task skip finished tasks.
PipelineTask == IF pipeReg # NoRun /\ Live(Pipe(pipeReg)) THEN pipeReg ELSE NoRun
FullTask == IF fullReg # NoRun /\ Live(Full(fullReg)) THEN fullReg ELSE NoRun

Registered == {t \in Tasks : \/ IsPipe(t) /\ RunOf(t) = PipelineTask
                             \/ ~IsPipe(t) /\ RunOf(t) = FullTask}

\* is_paper_work_alive for the pipeline and the full extraction.
WorkAlive == Registered \ cancelled # {}

-----------------------------------------------------------------------------
Init ==
    /\ status = "absent" /\ stage = NoStage /\ gen = NoRun
    /\ hasRun = FALSE /\ stale = FALSE /\ apart = FALSE
    /\ file = NoRun /\ pdf = FALSE /\ vec = NoRun
    /\ pc = [t \in Tasks |-> "new"] /\ cancelled = {}
    /\ pipeReg = NoRun /\ fullReg = NoRun
    /\ loop = Free /\ upload = "start"
    /\ opPc = [a \in Aborters |-> "idle"]
    /\ opKind = [o \in Ops |-> "reextract"]
    /\ target = [a \in Aborters |-> NoRun]
    /\ claim = NoOp /\ lostClaim = {}
    /\ bus = <<>>
    /\ rag = IdleRag /\ abandoned = FALSE
    /\ dog = IdleDog
    /\ iw = "idle" /\ crashes = 0

-----------------------------------------------------------------------------
(* Building blocks.                                                        *)

\* PipelineRepository.save_status: both rows in one transaction.
SaveStatus(st, sg) ==
    /\ status' = st /\ stage' = sg
    /\ hasRun' = TRUE /\ stale' = FALSE /\ apart' = FALSE

\* Mutant: the write inserts the row it does not find.
PersistUpsert(st, sg) == SaveStatus(st, sg)

\* persist_status_snapshot and the watchdogs' writes change nothing, and raise,
\* once the row is gone.
Persist(st, sg) ==
    IF Exists THEN SaveStatus(st, sg) ELSE UNCHANGED snapshot

\* IndexingRunRegistry.revoke(paper_id) reaches only a run that has begun.
Revoked(h) == IF h.pc = "index" THEN [h EXCEPT !.revoked = TRUE] ELSE h

\* Mutant: the entry is dropped whoever it belongs to.
UnregisterAny(r) == NoRun

\* unregister_pipeline_task ignores an entry that is no longer the task's own.
Unregister(r) == IF pipeReg = r THEN NoRun ELSE pipeReg

\* A coroutine ends and its finally block runs: the pipeline unregisters
\* itself, the full extraction pops whatever is registered.
Finish(t) ==
    /\ pc' = [pc EXCEPT ![t] = "done"]
    /\ cancelled' = cancelled \ {t}
    /\ pipeReg' = IF IsPipe(t) THEN Unregister(RunOf(t)) ELSE pipeReg
    /\ fullReg' = IF IsPipe(t) THEN fullReg ELSE NoRun

Goto(t, next) ==
    /\ pc' = [pc EXCEPT ![t] = next]
    /\ UNCHANGED <<cancelled, pipeReg, fullReg>>

\* schedule_paper_pipeline: a new task replaces, and cancels, a live one.
Schedule(r) ==
    /\ pc' = [pc EXCEPT ![Pipe(r)] = "queued"]
    /\ cancelled' = cancelled \cup {t \in Registered : IsPipe(t)}
    /\ pipeReg' = r
    /\ UNCHANGED fullReg

\* A coroutine is resumed by the free loop and no cancellation is pending.
Resumes(t, points) ==
    /\ loop = Free
    /\ pc[t] \in points
    /\ t \notin cancelled

\* t goes on in the stretch it runs without awaiting.
Holds(t, point) == loop = t /\ pc[t] = point

-----------------------------------------------------------------------------
(* Upload.                                                                 *)

\* The file is written and the papers row created; no pipeline_runs row yet.
CreateFromUpload ==
    /\ loop = Free /\ upload = "start"
    /\ upload' = "created"
    /\ status' = "pending" /\ pdf' = TRUE
    /\ UNCHANGED <<stage, gen, hasRun, stale, apart, file, vec, taskVars, loop, opVars,
                   ragVars, dog, iw, crashes>>

\* The first snapshot, then the pipeline is queued.
QueueUpload ==
    /\ loop = Free /\ upload = "created"
    /\ upload' = "done"
    /\ IF Exists
         THEN /\ SaveStatus("pending", NoStage)
              /\ \E r \in Runs : Fresh(r) /\ Schedule(r)
         ELSE UNCHANGED <<snapshot, taskVars>>
    /\ UNCHANGED <<gen, diskVars, loop, opVars, ragVars, dog, iw, crashes>>

-----------------------------------------------------------------------------
(* The pipeline task of a run.                                             *)

\* start_processing: the PDF and the row must be there and the transition
\* legal, or the exception ends the task and leaves the row as it was.
StartPipeline(r) ==
    /\ Resumes(Pipe(r), {"queued"})
    /\ IF pdf /\ Exists /\ MayBecome(status, "processing")
         THEN /\ SaveStatus("processing", "ingesting")
              /\ Goto(Pipe(r), "mint") /\ loop' = Pipe(r)
         ELSE /\ Finish(Pipe(r))
              /\ UNCHANGED <<snapshot, loop>>
    /\ UNCHANGED <<gen, diskVars, upload, opVars, ragVars, dog, iw, crashes>>

\* begin_pipeline_generation, after the status was written.
MintGeneration(r) ==
    /\ Holds(Pipe(r), "mint")
    /\ gen' = r /\ stale' = FALSE
    /\ Goto(Pipe(r), "begun") /\ loop' = Free
    /\ UNCHANGED <<status, stage, hasRun, apart, diskVars, upload, opVars, ragVars,
                   dog, iw, crashes>>

\* The awaited work of a node ends well and the next node reports its stage.
\* An illegal transition is raised outside the node's try: the task dies.
\* The store node goes straight on into finalize.
Advance(r) ==
    /\ Resumes(Pipe(r), NodePcs)
    /\ LET from == pc[Pipe(r)] IN
       IF Exists /\ MayBecome(status, "processing")
         THEN /\ SaveStatus("processing", StageAfter[from])
              /\ Goto(Pipe(r), PcAfter[from])
              /\ loop' = IF PcAfter[from] = "guard" THEN Pipe(r) ELSE Free
         ELSE /\ Finish(Pipe(r))
              /\ UNCHANGED <<snapshot, loop>>
    /\ UNCHANGED <<gen, diskVars, upload, opVars, ragVars, dog, iw, crashes>>

\* A ServiceError in a node routes the graph to fail_node.
NodeFails(r) ==
    /\ Resumes(Pipe(r), {"ingesting", "classifying", "extracting"})
    /\ Goto(Pipe(r), "route_fail")
    /\ UNCHANGED <<rowVars, diskVars, loop, upload, opVars, ragVars, dog, iw,
                   crashes>>

\* Any other exception ends the task; _run_pipeline_safe only logs it.
PipelineDies(r) ==
    /\ Resumes(Pipe(r), NodePcs)
    /\ Finish(Pipe(r))
    /\ UNCHANGED <<rowVars, diskVars, loop, upload, opVars, ragVars, dog, iw,
                   crashes>>

\* asyncio throws CancelledError into a suspended task in one of the next rounds
\* of the loop: when a run has been through its ingest and its first model calls,
\* the cancelled tasks of earlier runs have ended.
EarlierEnded(r) == \A t \in cancelled : RunOf(t) = r \/ ~Live(t)

\* A long paper: the full extraction is handed to a background task, unless
\* one that is not done is already registered.
HandOverToFull(r) ==
    /\ Resumes(Pipe(r), {"extracting"}) /\ EarlierEnded(r)
    /\ IF FullTask = NoRun
         THEN /\ pc' = [pc EXCEPT ![Pipe(r)] = "drain", ![Full(r)] = "queued"]
              /\ fullReg' = r
         ELSE /\ pc' = [pc EXCEPT ![Pipe(r)] = "drain"]
              /\ UNCHANGED fullReg
    /\ UNCHANGED <<rowVars, diskVars, cancelled, pipeReg, loop, upload, opVars,
                   ragVars, dog, iw, crashes>>

\* fail_node: mark_failed.
FailNode(r) ==
    /\ Resumes(Pipe(r), {"route_fail"})
    /\ IF Exists
         THEN SaveStatus("failed", "failed") /\ Goto(Pipe(r), "ensure")
         ELSE Finish(Pipe(r)) /\ UNCHANGED snapshot
    /\ UNCHANGED <<gen, diskVars, loop, upload, opVars, ragVars, dog, iw, crashes>>

\* _ensure_failed_status_persisted: failed is written again if it is not there.
EnsureFailed(r) ==
    /\ Resumes(Pipe(r), {"ensure"})
    /\ Finish(Pipe(r))
    /\ IF status = "failed" THEN UNCHANGED snapshot
                             ELSE Persist("failed", "failed")
    /\ UNCHANGED <<gen, diskVars, loop, upload, opVars, ragVars, dog, iw, crashes>>

\* Mutant: the task waits for the paper to be ready, not for the bus.
DrainBusUntilReady(r) ==
    /\ Resumes(Pipe(r), {"drain"})
    /\ status \in TerminalReady
    /\ Finish(Pipe(r))
    /\ UNCHANGED <<rowVars, diskVars, loop, upload, opVars, ragVars, dog, iw,
                   crashes>>

\* The task waits for the event bus to run dry and ends.
DrainBus(r) ==
    /\ Resumes(Pipe(r), {"drain"})
    /\ bus = <<>> /\ rag.pc = "idle"
    /\ Finish(Pipe(r))
    /\ UNCHANGED <<rowVars, diskVars, loop, upload, opVars, ragVars, dog, iw,
                   crashes>>

-----------------------------------------------------------------------------
(* The background full extraction of a run.                                *)

\* A settled paper needs no extraction; one that is not at the extracting
\* stage is moved there first (advance_stage), and a transition that is refused
\* is a ServiceError and fails the paper.
BeginFull(r) ==
    /\ Resumes(Full(r), {"queued"})
    /\ IF status \in TerminalReady \cup {"failed", "absent"}
         THEN Finish(Full(r)) /\ UNCHANGED <<snapshot, loop>>
         ELSE IF MayBecome(status, "processing")
         THEN /\ IF status = "processing" /\ stage = "extracting"
                   THEN UNCHANGED snapshot
                   ELSE SaveStatus("processing", "extracting")
              /\ Goto(Full(r), "chunking") /\ UNCHANGED loop
         ELSE /\ Goto(Full(r), "fail_full") /\ loop' = Full(r)
              /\ UNCHANGED snapshot
    /\ UNCHANGED <<gen, diskVars, upload, opVars, ragVars, dog, iw, crashes>>

\* The chunked extraction ends, well or with an exception.
EndChunking(r) ==
    /\ Resumes(Full(r), {"chunking"})
    /\ \E next \in {"guard", "fail_full"} : Goto(Full(r), next)
    /\ loop' = Full(r)
    /\ UNCHANGED <<rowVars, diskVars, upload, opVars, ragVars, dog, iw, crashes>>

\* fail_pipeline, with no look at the generation token.
FailFull(r) ==
    /\ Holds(Full(r), "fail_full")
    /\ Persist("failed", "failed")
    /\ Finish(Full(r)) /\ loop' = Free
    /\ UNCHANGED <<gen, diskVars, upload, opVars, ragVars, dog, iw, crashes>>

-----------------------------------------------------------------------------
(* finalize, the same for a pipeline and for a full extraction: a stretch  *)
(* without await in which other threads may still write the row.           *)

\* A ServiceError leaves finalize: the pipeline routes to fail_node, the full
\* extraction goes on to fail_pipeline.
FinalizeFails(t) ==
    IF IsPipe(t) THEN Goto(t, "route_fail") /\ loop' = Free
                 ELSE Goto(t, "fail_full") /\ UNCHANGED loop

\* assert_pipeline_generation_writable: the row must name this very run.
Writable(t) == gen = RunOf(t)

\* The guard before the disk write; the payload may still not validate.
GuardGeneration(t) ==
    /\ Holds(t, "guard")
    /\ \/ Writable(t) /\ Goto(t, "save") /\ UNCHANGED loop
       \/ FinalizeFails(t)
    /\ UNCHANGED <<rowVars, diskVars, upload, opVars, ragVars, dog, iw, crashes>>

\* Mutant: the store swallows the disk error.
SaveGraphLost(t) ==
    /\ Holds(t, "save")
    /\ Goto(t, "recheck")
    /\ UNCHANGED <<rowVars, diskVars, loop, upload, opVars, ragVars, dog, iw,
                   crashes>>

\* A step of finalize fails at the disk or the database: a ServiceError.
Breaks(t) == "finalize" \in Faults /\ FinalizeFails(t)

\* GraphStore.save.
SaveGraph(t) ==
    /\ Holds(t, "save")
    /\ \/ file' = RunOf(t) /\ Goto(t, "recheck") /\ UNCHANGED loop
       \/ file' \in {file, RunOf(t)} /\ Breaks(t)
    /\ UNCHANGED <<rowVars, pdf, vec, upload, opVars, ragVars, dog, iw, crashes>>

\* complete_paper_pipeline: the guard once more, the writes of classification
\* and graph version, and the status that mark_indexing reads before it writes.
Committable(t) == Writable(t) /\ Exists /\ MayBecome(status, "indexing")

RecheckGeneration(t) ==
    /\ Holds(t, "recheck")
    /\ \/ Committable(t) /\ Goto(t, "commit") /\ UNCHANGED loop
       \/ ~Committable(t) /\ FinalizeFails(t)
       \/ Breaks(t)
    /\ UNCHANGED <<rowVars, diskVars, upload, opVars, ragVars, dog, iw, crashes>>

\* mark_indexing writes both rows,
MarkIndexing(t) ==
    /\ Holds(t, "commit")
    /\ \/ /\ SaveStatus("indexing", "indexing") /\ abandoned' = FALSE
          /\ Goto(t, "publish") /\ UNCHANGED loop
       \/ Breaks(t) /\ UNCHANGED <<snapshot, abandoned>>
    /\ UNCHANGED <<gen, diskVars, upload, opVars, bus, rag, dog, iw, crashes>>

\* then PipelineFinalized is published and the preview cleared.  Before the
\* event is in the bus or behind it, a failure makes the paper a failed one.
PublishFinalized(t) ==
    /\ Holds(t, "publish")
    /\ \/ /\ bus' = Append(bus, RunOf(t)) /\ UNCHANGED abandoned
          /\ \/ loop' = Free /\ IF IsPipe(t) THEN Goto(t, "drain") ELSE Finish(t)
             \/ Breaks(t)
       \/ Breaks(t) /\ abandoned' = TRUE /\ UNCHANGED bus
    /\ UNCHANGED <<rowVars, diskVars, upload, opVars, rag, dog, iw, crashes>>

\* CancelledError is raised at the await the task is suspended at; a task that
\* never ran has no finally block to run.
DeliverCancel(t) ==
    /\ loop = Free /\ t \in cancelled /\ pc[t] \in AwaitPcs
    /\ IF pc[t] = "queued"
         THEN /\ pc' = [pc EXCEPT ![t] = "done"]
              /\ cancelled' = cancelled \ {t}
              /\ UNCHANGED <<pipeReg, fullReg>>
         ELSE Finish(t)
    /\ UNCHANGED <<rowVars, diskVars, loop, upload, opVars, ragVars, dog, iw,
                   crashes>>

-----------------------------------------------------------------------------
(* The event bus worker and the RAG handler, on the bridge loop.           *)

\* The payload is validated against the database; without a row both the
\* contract and the promotion raise and the event is dropped.
TakeEvent ==
    /\ bus # <<>> /\ rag.pc = "idle"
    /\ bus' = Tail(bus)
    /\ rag' = IF Exists
                THEN [pc |-> "taken", run |-> Head(bus), ok |-> FALSE, revoked |-> FALSE]
                ELSE rag
    /\ UNCHANGED <<rowVars, diskVars, taskVars, loop, upload, opVars, abandoned,
                   dog, iw, crashes>>

\* The heartbeat starts and the registry learns of the run; or the contract
\* rejects the payload and the handler promotes with a warning.
BeginIndexing ==
    /\ rag.pc = "taken"
    /\ \/ /\ rag' = [rag EXCEPT !.pc = "index"]
          /\ stale' = (stale /\ status # "indexing")
       \/ rag' = [rag EXCEPT !.pc = "promote"] /\ UNCHANGED stale
    /\ UNCHANGED <<status, stage, gen, hasRun, apart, diskVars, taskVars, loop, upload,
                   opVars, bus, abandoned, dog, iw, crashes>>

\* replace_paper_index ends: the new evidence is activated, refused because
\* the run was revoked (and this is no error), or the build failed.
EndIndexing ==
    /\ rag.pc = "index"
    /\ \E ok \in BOOLEAN :
         /\ rag' = [rag EXCEPT !.pc = "promote", !.ok = ok]
         /\ vec' = IF ok /\ ~rag.revoked /\ hasRun THEN rag.run ELSE vec
         /\ (ok /\ ~rag.revoked) => hasRun
    /\ UNCHANGED <<rowVars, file, pdf, taskVars, loop, upload, opVars, bus,
                   abandoned, dog, iw, crashes>>

\* Mutant: a revoked run promotes nothing.
PromotableUnlessRevoked(h) == status = "indexing" /\ ~h.revoked

\* promote_paper_to_terminal_status refuses any row but an INDEXING one; what
\* became of the index run does not matter to it.
Promotable(h) == status = "indexing"

\* It reads the row,
ReadForPromotion ==
    /\ rag.pc = "promote"
    /\ rag' = IF Promotable(rag) THEN [rag EXCEPT !.pc = "write"] ELSE IdleRag
    /\ UNCHANGED <<rowVars, diskVars, taskVars, loop, upload, opVars, bus,
                   abandoned, dog, iw, crashes>>

\* and then writes, in a second transaction, the status the quality gate chose
\* or a warning.
WritePromotion ==
    /\ rag.pc = "write"
    /\ rag' = IdleRag
    /\ \E st \in (IF rag.ok THEN TerminalReady ELSE {"ready_with_warnings"}) :
         Persist(st, "ready")
    /\ UNCHANGED <<gen, diskVars, taskVars, loop, upload, opVars, bus, abandoned,
                   dog, iw, crashes>>

\* The handler may raise before or while it promotes: the paper stays as it is,
\* and the bus adds a warning to its run row, which sets updated_at.
HandlerDies ==
    /\ "promote" \in Faults /\ rag.pc \in {"taken", "promote", "write"}
    /\ rag' = IdleRag /\ abandoned' = TRUE
    /\ stale' \in {stale, stale /\ status = "indexing"}
    /\ UNCHANGED <<status, stage, gen, hasRun, apart, diskVars, taskVars, loop,
                   upload, opVars, bus, dog, iw, crashes>>

-----------------------------------------------------------------------------
(* Time and the two watchdog threads.                                      *)

\* Nothing wrote the row for longer than the threshold of a watchdog that runs.
\* A stretch without await is short, and the heartbeat of a running index build
\* is fresh.
Age ==
    /\ loop = Free /\ ~stale
    /\ \/ WatchdogEnabled /\ hasRun /\ status \in OrphanStatuses
       \/ IndexingWatchdogEnabled /\ status = "indexing"
    /\ ~(status = "indexing" /\ rag.pc = "index")
    /\ stale' = TRUE
    /\ UNCHANGED <<status, stage, gen, hasRun, apart, diskVars, taskVars, loop, upload,
                   opVars, ragVars, dog, iw, crashes>>

DogAt(point) == dog' = [dog EXCEPT !.pc = point]

\* Mutant: the queue timeout is left out.
DogListsProcessing ==
    /\ WatchdogEnabled /\ dog.pc = "idle" /\ hasRun /\ stale
    /\ status = "processing" /\ DogAt("probe")
    /\ UNCHANGED <<rowVars, diskVars, taskVars, loop, upload, opVars, ragVars, iw,
                   crashes>>

\* A scan lists a stale row: PROCESSING is probed first, PENDING is not.
DogLists ==
    /\ WatchdogEnabled /\ dog.pc = "idle" /\ hasRun /\ stale
    /\ \/ status = "processing" /\ DogAt("probe")
       \/ status = "pending" /\ DogAt("read")
    /\ UNCHANGED <<rowVars, diskVars, taskVars, loop, upload, opVars, ragVars, iw,
                   crashes>>

\* The paper's work is alive, or its head refinement is: the lease is renewed.
DogRenews ==
    /\ dog.pc = "probe"
    /\ DogAt("idle")
    /\ stale' = (stale /\ status # "processing")
    /\ UNCHANGED <<status, stage, gen, hasRun, apart, diskVars, taskVars, loop, upload,
                   opVars, ragVars, iw, crashes>>

DogCondemns ==
    /\ dog.pc = "probe" /\ ~WorkAlive
    /\ DogAt("kill")
    /\ UNCHANGED <<rowVars, diskVars, taskVars, loop, upload, opVars, ragVars, iw,
                   crashes>>

\* A request that works and holds the claim.
Holder == {o \in Ops : o = claim /\ opPc[o] \notin {"idle", "claim"}}

\* force_cancel_paper_work_sync: cancel what is registered by now, revoke the
\* index run, evict the claim; and post the abort to the main loop (bound: one
\* posted abort at a time).
DogKills ==
    /\ dog.pc = "kill" /\ opPc[Dog] = "idle"
    /\ DogAt("read")
    /\ cancelled' = cancelled \cup Registered
    /\ rag' = Revoked(rag)
    /\ claim' = NoOp /\ lostClaim' = lostClaim \cup Holder
    /\ opPc' = [opPc EXCEPT ![Dog] = "abort"]
    /\ UNCHANGED <<rowVars, diskVars, pc, pipeReg, fullReg, loop, upload, opKind,
                   target, bus, abandoned, iw, crashes>>

\* fail_orphaned_pipeline_row_sync reads both rows.  The session will write
\* only the columns whose value differs from the one read here.
DogReads ==
    /\ dog.pc = "read"
    /\ dog' = IF hasRun /\ status \in OrphanStatuses
                THEN [pc |-> "write", gen |-> gen # NoRun,
                      stage |-> stage # "failed", apart |-> apart]
                ELSE IdleDog
    /\ UNCHANGED <<rowVars, diskVars, taskVars, loop, upload, opVars, ragVars, iw,
                   crashes>>

\* Mutant: the tombstone goes to the papers row alone.
DogWritesPaperRow ==
    /\ dog.pc = "write"
    /\ dog' = IdleDog
    /\ IF Exists
         THEN /\ status' = "failed" /\ stale' = FALSE
              /\ apart' = (dog.apart /\ ~dog.stage)
         ELSE UNCHANGED <<status, stale, apart>>
    /\ UNCHANGED <<stage, gen, hasRun, diskVars, taskVars, loop, upload, opVars,
                   ragVars, iw, crashes>>

\* and writes the tombstone without a second look at the status.
DogWrites ==
    /\ dog.pc = "write"
    /\ dog' = IdleDog
    /\ IF Exists
         THEN /\ status' = "failed" /\ stale' = FALSE
              /\ stage' = IF dog.stage THEN "failed" ELSE stage
              /\ gen' = IF dog.gen THEN NoRun ELSE gen
              /\ apart' = (dog.apart /\ ~dog.stage)
         ELSE UNCHANGED <<status, stale, stage, gen, apart>>
    /\ UNCHANGED <<hasRun, diskVars, taskVars, loop, upload, opVars, ragVars, iw,
                   crashes>>

\* The indexing watchdog promotes a row that no heartbeat keeps fresh; its
\* read and its write are two steps as well.
IndexingWatchdogReads ==
    /\ IndexingWatchdogEnabled /\ iw = "idle" /\ status = "indexing" /\ stale
    /\ iw' = "write"
    /\ UNCHANGED <<rowVars, diskVars, taskVars, loop, upload, opVars, ragVars, dog,
                   crashes>>

IndexingWatchdogWrites ==
    /\ iw = "write" /\ iw' = "idle"
    /\ Persist("ready_with_warnings", "ready")
    /\ UNCHANGED <<gen, diskVars, taskVars, loop, upload, opVars, ragVars, dog,
                   crashes>>

\* GET /status repairs a failed row whose run row lost its stage (the read and
\* the write of one poll are one step here).
RepairStatus ==
    /\ loop = Free
    /\ status = "failed" /\ hasRun /\ stage # "failed"
    /\ Persist("failed", "failed")
    /\ UNCHANGED <<gen, diskVars, taskVars, loop, upload, opVars, ragVars, dog, iw,
                   crashes>>

-----------------------------------------------------------------------------
(* abort_in_flight_pipeline, inside a wipe request or posted by the dog.   *)

OpAt(a, point) == opPc' = [opPc EXCEPT ![a] = point]

\* A request that is over leaves no trace of what it was.
Forget(o) == opKind' = [opKind EXCEPT ![o] = "reextract"]

\* After the abort a reextract insists on the PDF; the dog's abort is over.
AfterAbort(a) ==
    IF a = Dog THEN "idle"
    ELSE IF opKind[a] = "reextract" /\ ~(pdf /\ Exists) THEN "release" ELSE "purge"

\* cancel_paper_tasks: a live pipeline is cancelled and awaited; without one
\* its entry goes at once.
AbortPipeline(a) ==
    /\ loop = Free /\ opPc[a] = "abort"
    /\ IF PipelineTask # NoRun
         THEN /\ target' = [target EXCEPT ![a] = PipelineTask]
              /\ cancelled' = cancelled \cup {Pipe(PipelineTask)}
              /\ OpAt(a, "await_pipe") /\ UNCHANGED pipeReg
         ELSE /\ pipeReg' = NoRun
              /\ OpAt(a, "await_head") /\ UNCHANGED <<target, cancelled>>
    /\ UNCHANGED <<rowVars, diskVars, pc, fullReg, loop, upload, opKind, claim,
                   lostClaim, ragVars, dog, iw, crashes>>

\* The pipeline is done and unregistered by task; a head refinement may have
\* to be awaited next.
UnregisterPipeline(a) ==
    /\ loop = Free /\ opPc[a] = "await_pipe" /\ ~Live(Pipe(target[a]))
    /\ pipeReg' = Unregister(target[a])
    /\ target' = [target EXCEPT ![a] = NoRun]
    /\ OpAt(a, "await_head")
    /\ UNCHANGED <<rowVars, diskVars, pc, cancelled, fullReg, loop, upload, opKind,
                   claim, lostClaim, ragVars, dog, iw, crashes>>

\* cancel_full_extraction: the entry is popped; a live task is cancelled and
\* awaited, without one the abort ends here.
AbortFull(a) ==
    /\ loop = Free /\ opPc[a] = "await_head"
    /\ fullReg' = NoRun
    /\ IF FullTask # NoRun
         THEN /\ target' = [target EXCEPT ![a] = FullTask]
              /\ cancelled' = cancelled \cup {Full(FullTask)}
              /\ OpAt(a, "await_full") /\ UNCHANGED rag
         ELSE /\ OpAt(a, AfterAbort(a)) /\ rag' = Revoked(rag)
              /\ UNCHANGED <<target, cancelled>>
    /\ UNCHANGED <<rowVars, diskVars, pc, pipeReg, loop, upload, opKind, claim,
                   lostClaim, bus, abandoned, dog, iw, crashes>>

\* It is done; abort_in_flight_pipeline revokes the index run.
EndAbort(a) ==
    /\ loop = Free /\ opPc[a] = "await_full" /\ ~Live(Full(target[a]))
    /\ target' = [target EXCEPT ![a] = NoRun]
    /\ rag' = Revoked(rag)
    /\ OpAt(a, AfterAbort(a))
    /\ UNCHANGED <<rowVars, diskVars, taskVars, loop, upload, opKind, claim,
                   lostClaim, bus, abandoned, dog, iw, crashes>>

-----------------------------------------------------------------------------
(* force_reextract and delete_paper.                                       *)

\* A reextract still under way will need a run of its own (bound: Runs).
Reextracting == {o \in Ops : opPc[o] # "idle" /\ opKind[o] = "reextract"}
FreshRunLeft == Cardinality({r \in Runs : Fresh(r)}) > Cardinality(Reextracting)

\* The 409 gate: a paper at work is wiped only with force.
BeginOp(o) ==
    /\ loop = Free /\ opPc[o] = "idle" /\ Exists /\ upload = "done"
    /\ \E kind \in {"reextract", "delete"}, force \in BOOLEAN :
         /\ status \in ActiveStatuses => force
         /\ kind = "reextract" => FreshRunLeft
         /\ opKind' = [opKind EXCEPT ![o] = kind]
    /\ OpAt(o, "claim")
    /\ UNCHANGED <<rowVars, diskVars, taskVars, loop, upload, target, claim,
                   lostClaim, ragVars, dog, iw, crashes>>

\* Mutant: the request waits for the claim instead of being refused.
AcquireClaimWaits(o) ==
    /\ loop = Free /\ opPc[o] = "claim" /\ claim = NoOp
    /\ claim' = o /\ OpAt(o, "abort")
    /\ UNCHANGED <<rowVars, diskVars, taskVars, loop, upload, opKind, target,
                   lostClaim, ragVars, dog, iw, crashes>>

\* acquire_paper_ops_claim, or 409.
AcquireClaim(o) ==
    /\ loop = Free /\ opPc[o] = "claim"
    /\ IF claim = NoOp THEN claim' = o /\ OpAt(o, "abort") /\ UNCHANGED opKind
                       ELSE UNCHANGED claim /\ OpAt(o, "idle") /\ Forget(o)
    /\ UNCHANGED <<rowVars, diskVars, taskVars, loop, upload, target,
                   lostClaim, ragVars, dog, iw, crashes>>

\* Vector purge: best effort for a reextract, a condition for a delete.
PurgeVectors(o) ==
    /\ loop = Free /\ opPc[o] = "purge"
    /\ \E purged \in BOOLEAN :
         /\ vec' = IF purged THEN NoRun ELSE vec
         /\ LET goesOn == purged \/ opKind[o] = "reextract" IN
            /\ loop' = IF goesOn THEN o ELSE Free
            /\ OpAt(o, IF ~goesOn THEN "release"
                       ELSE IF opKind[o] = "reextract" THEN "wipe" ELSE "rm_graph")
    /\ UNCHANGED <<rowVars, file, pdf, taskVars, upload, opKind, target, claim,
                   lostClaim, ragVars, dog, iw, crashes>>

GiveUp(o, from) ==
    loop = o /\ opPc[o] = from /\ OpAt(o, "release") /\ loop' = Free

\* From here on the request holds the main loop.  A fault at the disk or the
\* database ends it at once; what was done stays done.
OpStep(o, from, next, kind) ==
    /\ loop = o /\ opPc[o] = from
    /\ \/ OpAt(o, next) /\ loop' = loop
       \/ kind \in Faults /\ GiveUp(o, from)

Succeeds(o) == opPc'[o] # "release"

\* clear_ephemeral_pipeline_state: updated_at is set, the heartbeat is not.
Touched == stale' = (stale /\ status = "indexing")

\* Graph and head go from the disk, the ephemeral columns from the run row.
WipeArtefacts(o) ==
    /\ OpStep(o, "wipe", "reset", "wipe")
    /\ file' \in (IF Succeeds(o) THEN {NoRun} ELSE {file, NoRun})
    /\ IF Succeeds(o) THEN gen' = NoRun /\ vec' = NoRun /\ Touched
                      ELSE UNCHANGED <<gen, vec, stale>>
    /\ UNCHANGED <<status, stage, hasRun, apart, pdf, taskVars, upload, opKind,
                   target, claim, lostClaim, ragVars, dog, iw, crashes>>

\* PaperRepository.reset_for_reextract touches the papers row alone, and raises
\* without one.
ResetPaper(o) ==
    /\ IF Exists THEN OpStep(o, "reset", "requeue", "wipe") ELSE GiveUp(o, "reset")
    /\ IF Succeeds(o) THEN status' = "pending" /\ apart' = TRUE
                      ELSE UNCHANGED <<status, apart>>
    /\ UNCHANGED <<stage, gen, hasRun, stale, diskVars, taskVars, upload, opKind,
                   target, claim, lostClaim, ragVars, dog, iw, crashes>>

\* PipelineRepository.reset_for_reextract is two transactions: the snapshot,
ResetRun(o) ==
    /\ OpStep(o, "requeue", "clear", "requeue")
    /\ IF Succeeds(o) THEN SaveStatus("pending", NoStage) ELSE UNCHANGED snapshot
    /\ UNCHANGED <<gen, diskVars, taskVars, upload, opKind, target, claim,
                   lostClaim, ragVars, dog, iw, crashes>>

\* and the ephemeral columns.
ClearRun(o) ==
    /\ OpStep(o, "clear", "schedule", "requeue")
    /\ IF Succeeds(o) THEN gen' = NoRun /\ vec' = NoRun /\ Touched
                      ELSE UNCHANGED <<gen, vec, stale>>
    /\ UNCHANGED <<status, stage, hasRun, apart, file, pdf, taskVars, upload,
                   opKind, target, claim, lostClaim, ragVars, dog, iw, crashes>>

\* The new run is scheduled.
Reschedule(o) ==
    /\ loop = o /\ opPc[o] = "schedule"
    /\ \E r \in Runs : Fresh(r) /\ Schedule(r)
    /\ OpAt(o, "release") /\ loop' = Free
    /\ UNCHANGED <<rowVars, diskVars, upload, opKind, target, claim, lostClaim,
                   ragVars, dog, iw, crashes>>

\* Graph files first, then the ephemeral columns.
RemoveGraphFiles(o) ==
    /\ OpStep(o, "rm_graph", "rm_pdf", "wipe")
    /\ file' \in (IF Succeeds(o) THEN {NoRun} ELSE {file, NoRun})
    /\ IF Succeeds(o) THEN gen' = NoRun /\ vec' = NoRun /\ Touched
                      ELSE UNCHANGED <<gen, vec, stale>>
    /\ UNCHANGED <<status, stage, hasRun, apart, pdf, taskVars, upload, opKind,
                   target, claim, lostClaim, ragVars, dog, iw, crashes>>

\* Mutant: a PDF that cannot be removed does not stop the cascade.
UnlinkPdfBestEffort(o) ==
    /\ loop = o /\ opPc[o] = "rm_pdf"
    /\ pdf' \in {FALSE, pdf /\ "wipe" \in Faults}
    /\ OpAt(o, "rm_row")
    /\ UNCHANGED <<rowVars, file, vec, taskVars, loop, upload, opKind, target, claim,
                   lostClaim, ragVars, dog, iw, crashes>>

\* The PDF goes, or the cascade stops.
UnlinkPdf(o) ==
    /\ OpStep(o, "rm_pdf", "rm_row", "wipe")
    /\ pdf' = (pdf /\ ~Succeeds(o))
    /\ UNCHANGED <<rowVars, file, vec, taskVars, upload, opKind, target, claim,
                   lostClaim, ragVars, dog, iw, crashes>>

\* The row goes and pipeline_runs with it.
DeleteRow(o) ==
    /\ loop = o /\ opPc[o] = "rm_row"
    /\ \/ /\ status' = "absent" /\ stage' = NoStage /\ gen' = NoRun
          /\ hasRun' = FALSE /\ stale' = FALSE /\ apart' = FALSE
          /\ vec' = NoRun
       \/ "wipe" \in Faults /\ UNCHANGED <<rowVars, vec>>
    /\ OpAt(o, "release") /\ loop' = Free
    /\ UNCHANGED <<file, pdf, taskVars, upload, opKind, target, claim,
                   lostClaim, ragVars, dog, iw, crashes>>

\* Mutant: the claim is deleted whoever owns it by now.
ReleaseClaimAny(o) ==
    /\ loop = Free /\ opPc[o] = "release"
    /\ claim' = NoOp /\ lostClaim' = lostClaim \ {o}
    /\ OpAt(o, "idle") /\ Forget(o)
    /\ UNCHANGED <<rowVars, diskVars, taskVars, loop, upload, target, ragVars, dog,
                   iw, crashes>>

\* release by owner token: an evicted claim is not taken from its new owner.
ReleaseClaim(o) ==
    /\ loop = Free /\ opPc[o] = "release"
    /\ claim' = IF claim = o THEN NoOp ELSE claim
    /\ lostClaim' = lostClaim \ {o}
    /\ OpAt(o, "idle") /\ Forget(o)
    /\ UNCHANGED <<rowVars, diskVars, taskVars, loop, upload, target, ragVars, dog,
                   iw, crashes>>

\* A claim past its TTL counts as none, whether its owner has died with the
\* process or is only slow: nobody renews it.
ExpireClaim ==
    /\ claim # NoOp
    /\ claim' = NoOp /\ lostClaim' = lostClaim \cup Holder
    /\ UNCHANGED <<rowVars, diskVars, taskVars, loop, upload, opPc, opKind, target,
                   ragVars, dog, iw, crashes>>

-----------------------------------------------------------------------------
(* The process dies and starts again.                                      *)

\* The lifespan hook promotes what was indexing and fails leftovers older than
\* the grace period (inner join with pipeline_runs); nothing is requeued.
ColdBoot ==
    \/ /\ IndexingWatchdogEnabled /\ status = "indexing"
       /\ SaveStatus("ready_with_warnings", "ready") /\ UNCHANGED gen
    \/ /\ WatchdogEnabled /\ hasRun /\ status \in OrphanStatuses
       /\ SaveStatus("failed", "failed") /\ gen' = NoRun
    \/ /\ IndexingWatchdogEnabled => status # "indexing"
       /\ UNCHANGED rowVars

CrashRestart ==
    /\ crashes < MaxCrashes /\ crashes' = crashes + 1
    /\ ColdBoot
    /\ pc' = [t \in Tasks |-> IF Live(t) THEN "done" ELSE pc[t]]
    /\ cancelled' = {} /\ pipeReg' = NoRun /\ fullReg' = NoRun
    /\ loop' = Free
    /\ upload' = IF upload = "created" THEN "done" ELSE upload
    /\ opPc' = [a \in Aborters |-> "idle"]
    /\ target' = [a \in Aborters |-> NoRun]
    /\ bus' = <<>>
    /\ rag' = IdleRag
    /\ dog' = IdleDog
    /\ iw' = "idle"
    /\ opKind' = [o \in Ops |-> "reextract"]
    /\ lostClaim' = {}
    /\ UNCHANGED <<diskVars, claim, abandoned>>

-----------------------------------------------------------------------------
PipelineStep(r) ==
    \/ StartPipeline(r) \/ MintGeneration(r) \/ Advance(r) \/ NodeFails(r)
    \/ PipelineDies(r) \/ HandOverToFull(r) \/ FailNode(r) \/ EnsureFailed(r)
    \/ DrainBus(r)

FullStep(r) == BeginFull(r) \/ EndChunking(r) \/ FailFull(r)

FinalizeStep(t) ==
    GuardGeneration(t) \/ SaveGraph(t) \/ RecheckGeneration(t) \/ MarkIndexing(t)
    \/ PublishFinalized(t)

RagStep ==
    TakeEvent \/ BeginIndexing \/ EndIndexing \/ ReadForPromotion \/ WritePromotion
    \/ HandlerDies

DogStep ==
    DogLists \/ DogRenews \/ DogCondemns \/ DogKills \/ DogReads \/ DogWrites

IndexingWatchdogStep == IndexingWatchdogReads \/ IndexingWatchdogWrites

AbortStep(a) ==
    AbortPipeline(a) \/ UnregisterPipeline(a) \/ AbortFull(a) \/ EndAbort(a)

OpProgress(o) ==
    \/ AcquireClaim(o) \/ PurgeVectors(o) \/ WipeArtefacts(o)
    \/ ResetPaper(o) \/ ResetRun(o) \/ ClearRun(o) \/ Reschedule(o)
    \/ RemoveGraphFiles(o) \/ UnlinkPdf(o) \/ DeleteRow(o) \/ ReleaseClaim(o)

Next ==
    \/ CreateFromUpload \/ QueueUpload
    \/ \E r \in Runs : PipelineStep(r) \/ FullStep(r)
    \/ \E t \in Tasks : FinalizeStep(t) \/ DeliverCancel(t)
    \/ RagStep \/ Age \/ DogStep \/ IndexingWatchdogStep \/ RepairStatus
    \/ \E a \in Aborters : AbortStep(a)
    \/ \E o \in Ops : BeginOp(o) \/ OpProgress(o)
    \/ ExpireClaim \/ CrashRestart

Spec == Init /\ [][Next]_vars

FairSpec ==
    /\ Spec
    /\ WF_vars(QueueUpload)
    /\ \A r \in Runs : WF_vars(PipelineStep(r)) /\ WF_vars(FullStep(r))
    /\ \A t \in Tasks : WF_vars(FinalizeStep(t)) /\ WF_vars(DeliverCancel(t))
    /\ WF_vars(RagStep) /\ WF_vars(Age)
    /\ WF_vars(DogStep) /\ SF_vars(DogCondemns) /\ WF_vars(IndexingWatchdogStep)
    /\ \A a \in Aborters : WF_vars(AbortStep(a))
    /\ \A o \in Ops : WF_vars(OpProgress(o))

-----------------------------------------------------------------------------
(* Types.                                                                  *)

RowTypes ==
    /\ status \in Statuses \cup {"absent"} /\ stage \in Stages \cup {NoStage}
    /\ gen \in Runs \cup {NoRun} /\ hasRun \in BOOLEAN /\ stale \in BOOLEAN
    /\ apart \in BOOLEAN

DiskTypes == file \in Runs \cup {NoRun} /\ pdf \in BOOLEAN /\ vec \in Runs \cup {NoRun}

TaskTypes ==
    /\ pc \in [Tasks -> TaskPcs] /\ cancelled \subseteq Tasks
    /\ pipeReg \in Runs \cup {NoRun} /\ fullReg \in Runs \cup {NoRun}

OpTypes ==
    /\ opPc \in [Aborters -> OpPcs] /\ opKind \in [Ops -> {"reextract", "delete"}]
    /\ target \in [Aborters -> Runs \cup {NoRun}] /\ claim \in Ops \cup {NoOp}
    /\ lostClaim \subseteq Ops

RagTypes ==
    /\ bus \in Seq(Runs)
    /\ rag \in [pc : {"idle", "taken", "index", "promote", "write"},
                run : Runs \cup {NoRun}, ok : BOOLEAN, revoked : BOOLEAN]
    /\ abandoned \in BOOLEAN

ThreadTypes ==
    /\ dog \in [pc : {"idle", "probe", "kill", "read", "write"},
                gen : BOOLEAN, stage : BOOLEAN, apart : BOOLEAN]
    /\ iw \in {"idle", "write"}

\* Every variable has its type.
TypeOK ==
    /\ RowTypes /\ DiskTypes /\ TaskTypes /\ OpTypes /\ RagTypes /\ ThreadTypes
    /\ loop \in Tasks \cup Ops \cup {Free}
    /\ upload \in {"start", "created", "done"}
    /\ crashes \in 0..MaxCrashes

-----------------------------------------------------------------------------
(* Safety.                                                                 *)

Working(t) == Live(t) /\ t \notin cancelled

\* A pipeline that works is the registered one: no interleaving of replacement,
\* abort, posted abort and finally blocks loses it, so force can always cancel
\* it, and a paper has at most one (register, unregister, cancel_paper_tasks).
RegistryTracks == \A r \in Runs : Working(Pipe(r)) => pipeReg = r

\* The tasks that may still write the paper, pipeline or background extraction,
\* all belong to one run: a reextract never leaves an older run behind.
OneRun == \A t, u \in Tasks : Working(t) /\ Working(u) => RunOf(t) = RunOf(u)

\* While a reextract or a delete destroys the paper's artefacts no task of the
\* paper works on: abort is complete before the wipe ("a late worker cannot
\* resurrect stale artefacts after wipe").
WipeFindsNoWorker ==
    (\E o \in Ops : opPc[o] \in OpHoldPcs) => \A t \in Tasks : ~Working(t)

\* An INDEXING paper is never forgotten: finalize is about to publish its event,
\* the event waits in the bus or the handler is on its way to promote it,
\* whatever wipes and kills came between.  Only a publish or a handler that
\* fails gives it up, and leaves it to the indexing watchdog.
IndexingHasOwner ==
    status = "indexing" /\ ~abandoned =>
        bus # <<>> \/ rag.pc # "idle" \/ \E t \in Tasks : pc[t] = "publish"

\* A request is between the removal of the graph and the end of the wipe.
Wiping == \E o \in Ops : opPc[o] \in {"reset", "requeue", "clear", "schedule",
                                      "rm_pdf", "rm_row"}

\* An INDEXING paper has its graph in the store: what finalize saved is not
\* removed by a wipe that lets the status stand.
IndexingHasGraph == status = "indexing" => file # NoRun \/ Wiping

\* Once the row is gone so are the graph and the PDF, though the disk, the
\* database or the process may fail at any step of the cascade and a late
\* writer may come at any time (delete_paper: "Order (must not reverse)").
DeleteLeavesNothing ==
    status = "absent" /\ upload = "done" => file = NoRun /\ ~pdf

\* The status of the papers row and the stage of the pipeline_runs row, which
\* different transactions and threads write, tell the same story: the contract
\* whose breach audit_dual_table_invariant logs as a critical error.  One thing
\* sets them apart: the first reset of a reextract, until the second or any
\* other write of both rows, or for good when the watchdog read between the two
\* resets, found the stage "failed", and writes its tombstone without the stage.
DualTable == hasRun /\ ~apart => stage \in ContractStages(status)

\* No late write of a task, a handler or a watchdog brings a deleted paper back.
NoResurrection == [][status = "absent" /\ upload = "done" => status' = "absent"]_vars

-----------------------------------------------------------------------------
(* Liveness, with the watchdog enabled.                                    *)

\* Whatever dies, a paper with a run row ends up ready, failed or deleted.
RowSettles == hasRun ~> status \in TerminalReady \cup {"failed", "absent"}

\* A wipe request is answered: its awaits on cancelled tasks and its claim
\* never block it for good.
WipeEnds == \A o \in Ops : opPc[o] # "idle" ~> opPc[o] = "idle"

\* Every task ends, the pipeline that waits for the event bus included.
TasksEnd == \A t \in Tasks : Live(t) ~> ~Live(t)

Wipers == {o \in Ops : opPc[o] \in OpPcs \ {"idle", "claim", "release"}}

\* Of the requests that abort and wipe the paper one at most still has its claim:
\* neither an eviction, nor an expiry, nor the release of a request whose claim
\* went to another, nor a restart gives it to two.
ClaimExcludes == Cardinality(Wipers \ lostClaim) <= 1

-----------------------------------------------------------------------------
(* What the documentation says and the code does not keep (see README.md). *)

\* "do not advertise READY until RAG index completes"
\* (pipeline_completion_service.py:88): a paper that no request is wiping turns
\* READY only when the active evidence is that of its graph.
ReadyIsIndexed ==
    [][status # "ready" /\ status' = "ready" /\ (\A o \in Ops : opPc[o] = "idle")
         => vec = file]_vars

\* "Concurrent wipe ops for the same paper_id ... are rejected with 409"
\* (paper_delete_service.py, reextract_service.py): two wipes never overlap.  An
\* eviction or an expiry lets them; theorems take it as an assumption.
OneWipe == Cardinality(Wipers) <= 1
=============================================================================
