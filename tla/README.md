# ScholarGraph: a verification project

TLA+ models of the backend of ScholarGraph (`src/backend` and its benchmarks in
`src/scripts`), the TLC runs that check them and the TLAPS proofs about them.
The backend turns an uploaded PDF into a typed knowledge graph: ingest, head
refinement, classification, extraction, storage, RAG indexing, and then
questions and patrols over the result. Two things are hard in it. One is the
life of a paper: asyncio tasks, an event bus on a second loop, watchdog threads,
requests that wipe a paper while work on it is in flight, crashes, and two
database rows, a graph file, a PDF and a vector index that have to agree in the
end. The other is what is computed on the way: texts are cut, heads and graphs
merged, evidence dropped, cut, embedded and looked up again, and a mistake in
any of it is an answer that quotes what the paper does not say. The project
models the first as state machines and the second as functions that TLC
evaluates on every small input.

Paths below are under `src/backend` unless they begin with `scripts/`.

## 1. Inventory

| Component | State | Operations | Hard behaviour | Modules |
|---|---|---|---|---|
| Status contract (`schemas/paper.py`, `services/paper_status_transitions.py`) | `papers.status`, `pipeline_runs.stage` | transition table, stage contract | two rows in two tables | `PaperStatus`, `PaperPipeline` |
| Status rows (`repositories/pipeline_*.py`, `services/status_snapshot_guard.py`) | the two rows | save, patch, tombstone, repair | several transactions | `PaperPipeline` |
| Upload and scheduling (`services/paper_service.py`, `paper_pipeline_scheduler.py`, `graph/workflow.py`, `nodes.py`) | one task per run | schedule, nodes, fail, drain | cancellation at every await | `PaperPipeline` |
| Task registry (`services/pipeline_task_registry.py`, `extract_worker.py`) | `_pipeline_tasks`, `_full_extract_tasks`, head tasks | register, unregister, abort, force cancel | finally blocks against replacements | `PaperPipeline`, `HeadRefine` |
| Completion (`pipeline_completion_service.py`, `pipeline_generation_guard.py`) | generation token | guard, save graph, guard, mark indexing, publish | check, then act, with threads in between | `PaperPipeline` |
| Watchdogs (`pipeline/processing_watchdog.py`, `rag/indexing_watchdog.py`) | none of their own | scan, probe, renew, kill, tombstone, promote | threads that read and write later | `PaperPipeline` |
| Reextract and delete (`reextract_service.py`, `paper_delete_service.py`) | the claim row | gate, claim, abort, purge, wipe, requeue | partial failure, late writers | `PaperPipeline`, `RagIndexing`, `HeadRefine` |
| Ops claim (`paper_ops_claim_repository.py`) | `paper_ops_claims` | acquire, release, steal, evict | expiry, several processes | `OpsClaim` |
| RAG handler (`rag/handlers.py`, `vector_store_replace.py`, `indexing_run_registry.py`) | active run, inflight and revoked runs | begin, upsert, gate, activate, compensate | revocation, time-outs, threads that go on | `RagIndexing` |
| Vector cleanup (`rag/wipe_vector_sweep.py`, `vector_cleanup_queue_repository.py`) | outbox rows, keys of jobs | schedule, run, acknowledge, drain, poll | restart, lost acknowledgement | `RagIndexing` |
| Event bus (`events/bus.py`, `async_bridge.py`) | queue, one worker | publish, drain | two event loops, no lock | `EventBus` |
| Vector store (`rag/vector_store*.py`, `indexing.py`, `models.py`) | three collections | upsert, query, parse, batches | ids, scopes, malformed rows | `VectorEvidence` |
| Questions (`rag/hybrid_retriever.py`, `services/qa_*.py`, `graph/qa*.py`, `rag/qa_router.py`) | cache of chunk texts | route, retrieve, prompt, stream, cite | a reextract during the answer, any split of the stream | `QaQuestion`, `QaRetrieval`, `QaStream` |
| Patrol (`patrol/*.py`, `services/patrol_service.py`) | result cache | fingerprint, analyse, degrade | a reextract during the analysis, thresholds | `Patrol`, `PatrolInsights` |
| Extraction (`agents/extract*.py`, `graph/extract_workflow.py`, `llm/rate_limiter.py`) | chunk tasks, bucket | nodes, edges, repair, fallback | many calls, each may fail | `Extraction`, `EdgeExtraction` |
| Classifier (`agents/classifier*.py`) | none | phases, fallbacks | the input is cut and read back | `DocumentHead` |
| Graph algorithms (`graph/merge_graphs.py`, `semantic_clustering.py`) | none | merge, prune, fold, cluster, tie | order of steps while the graph shrinks | `GraphMerge`, `SemanticClustering` |
| Ingest (`ingest/*.py`, `services/head_refine_*.py`) | head record, head task | cut, route, merge heads, refine, wait | deadline against a late record | `TextChunks`, `DocumentHead`, `HeadRefine` |
| Golden set, judge, baseline (`rag/qa_*.py`, `scripts/benchmark_qa.py`, `validate_golden_qa.py`, `benchmark_regression.py`) | snapshots, baseline | guardrails, judge, verdicts, compare | green although something failed | `QaBenchmark`, `GoldenSet`, `RegressionBaseline` |
| LLM client, embeddings (`llm/*.py`) | bucket | acquire, batch | waiting behind a limit | `Extraction`, `VectorEvidence` |
| HTTP interface, startup, database schema | none | boot order, polling | order of the cold boots | `PaperPipeline` |
| Frontend, other scripts, documentation | none | | | not modelled |

How they interact. A request or a pipeline task runs on the main loop and is
atomic between two awaits; the synchronous repository facade (`run_async`) runs
a transaction on the bridge loop while the main loop *blocks*, so a whole
stretch of synchronous code is atomic against other coroutines of the main loop
but not against the watchdog threads or the bus worker, which may run between
any two transactions. That is the granularity of `PaperPipeline` and
`RagIndexing`. The pipeline hands a finished paper to the bus, the bus to the
RAG handler, the handler promotes the row; requests revoke and wipe around it;
what a wipe leaves in the vector store is the outbox's. Questions and patrols
read the graph files, the active index and the rows while all this goes on.

What makes the components correct. A paper settles; an INDEXING paper is backed
by its graph and is on somebody's list; a wipe meets no worker and no second
wipe; a deletion is complete and stays so; the registry knows every worker;
nobody waits for ever; the index a paper shows is whole; whatever may still land
in the store of a deleted paper has an owner; an answer, a report or a graph either has its
evidence or says what it lacks; a green benchmark is earned.

`PROJECT.json` lists the hazards, each at its line, and the properties that
would catch it.

## 2. Modules

| Module | What it is |
|---|---|
| `PaperStatus` | statuses, stages, transition table, stage contract |
| `PaperPipeline` | the life of one paper in one backend process |
| `LeaseLock` | abstract: a lease at most one request has |
| `OpsClaim` | the claim row, the gates and the advisory lock of several workers |
| `RagIndexing` | index runs, revocation, compensation, wipes and the cleanup outbox of one paper |
| `EventBus` | the bus on its two loops |
| `QaRetrieval`, `QaStream` | one question beside a reextract; its answer as a stream |
| `Patrol` | patrol requests and the result cache beside a reextract |
| `Extraction` | the control of one extraction with limiter, failures, repairs and fallbacks |
| `HeadRefine` | the head refinement, the pipeline that waits for it, a reextract |
| `GraphMerge`, `SemanticClustering`, `EdgeExtraction` | from the lists of the chunks to one graph |
| `PatrolInsights` | the four analyses of two graphs |
| `TextChunks`, `DocumentHead` | cutting a text; finding, merging and reading a head |
| `QaQuestion`, `VectorEvidence` | from a question to its prompt; from evidence to rows and back |
| `QaBenchmark`, `GoldenSet`, `RegressionBaseline` | the three benchmarks |
| `MCPaperPipeline`, `MCOpsClaim`, `MCRagIndexing` | instances for TLC |
| `MCServices` | `EventBus`, `QaRetrieval`, `QaStream`, `Patrol`, `Extraction`, `HeadRefine` side by side |
| `MCAlgorithms` | all function modules on enumerated inputs |
| `PaperPipelineProofs`, `OpsClaimProofs`, `RagIndexingProofs` | proofs about the life, the claim and the index of a paper |
| `EventBusProofs`, `ReaderProofs`, `ExtractionProofs` | proofs about the services (`ReaderProofs`: `QaRetrieval` and `Patrol`; `ExtractionProofs`: `Extraction` and `HeadRefine`) |
| `GraphMergeProofs` | proofs about `GraphMerge` and `SemanticClustering` |
| `AlgorithmProofs` | proofs about `QaBenchmark`, `GoldenSet`, `RegressionBaseline`, `DocumentHead`, `QaQuestion`, `VectorEvidence`, `TextChunks`, `PatrolInsights`, and about `MCAlgorithms` with any inputs |

### The life of a paper: `PaperPipeline`

One paper: every structure it touches is keyed by the paper, and papers meet
only in the worker of the bus, which handles one event at a time (a queue of
other papers' events only delays this one).

| Variable | Code |
|---|---|
| `status`, `stage`, `gen`, `hasRun` | `papers.status`; `pipeline_runs.stage`, `.pipeline_generation_id`, the row itself |
| `stale` | `updated_at`, or `indexing_heartbeat`, is older than the watchdog's threshold |
| `file`, `pdf`, `vec` | whose graph GraphStore holds, the uploaded file, `active_rag_run_id` |
| `pc`, `cancelled` | where each coroutine is suspended and whether `CancelledError` is pending |
| `pipeReg`, `fullReg` | `_pipeline_tasks`, `_full_extract_tasks` |
| `loop` | the coroutine that is between two awaits on the main loop |
| `upload`, `opPc`, `opKind`, `target`, `claim` | the upload request, reextract and delete requests, the posted abort, the claim row |
| `bus`, `rag` | the queue of `PipelineFinalized`, the handler with its revoked flag |
| `dog`, `iw` | the two watchdog threads, between their read and their write |
| `apart`, `lostClaim`, `abandoned` | auxiliary: the two rows were last written one without the other; requests whose claim went while they worked; a publish or a handler has failed since INDEXING was last marked |

A coroutine that enters a stretch without await takes `loop` and gives it back
at the next await. `finalize` is such a stretch with five steps (guard, save,
second guard, `mark_indexing`, publish), a wipe is another one: graph and
ephemeral columns, the reset of the papers row, the two transactions of the reset
of the run row (`ResetRun`, `ClearRun`), the new task. A step of the watchdog or of the
handler needs no loop. The generation token is named after the run it belongs
to: tokens are unique, and a token of nobody is `NoRun`. `DogWrites` writes the
columns whose value differs from the one read earlier, as the session's unit of
work does; that is not the same as writing them all.

`Faults` says where the disk or the database may fail: `wipe` (every step of a
wipe up to the first reset, or up to the row for a delete), `requeue` (the second
reset), `finalize` (a save, a commit, the publish: `finalize` makes a
`ServiceError` of it and the pipeline fails the paper, also when the event is
already in the bus and the clearing of the preview raises) and `promote` (the
handler raises before it promotes, at the read or at the write; the bus only
adds a warning to the run row). A claim may run out at any time, whether its owner
lives or not (`ExpireClaim`): an expired row counts as none
(`paper_ops_claim_repository.py:107-121`) and nobody renews it.

Simplifications, and why they are harmless or where they are lifted:

- the head refinement is an await inside the pipeline and one more await of an
  abort; it has a module of its own (`HeadRefine`);
- the repair of `GET /status` reads and writes in one step (see the remarks);
- a wipe request starts only after the upload request has returned (a client
  knows the identifier of the paper from that response);
- the claim is taken and given back in one step each; the races of the row
  itself, with several processes, are those of `OpsClaim`.

### The claim: `OpsClaim`

One step of a wipe request, the claim, from all workers at once. A request of
the module is one call of `try_acquire` and its release; a client that tries
again is another request. `gate` is the `asyncio.Lock` of each worker,
`advisory` the lock of the transaction on PostgreSQL, `owner` and `live` the
row, `evict` the watchdog threads between the read and the delete of
`force_release_sync`. `lease` is auxiliary: whom the code has told that the
paper is theirs, until their time is over. On SQLite the driver begins a
transaction with the first write, so `Read` and `Steal` are two steps with
nothing in common; `AdvisoryLock` selects the database. In `PaperPipeline` the
claim is one variable that a request takes in one step, which `ClaimIsLock`
justifies for one process.

### The index of a paper: `RagIndexing`

`active` is `active_rag_run_id`, `evidence` what the three collections hold
(pairs of run and collection), `inflight` and `revoked` the registry with its
bound, `handler` the coroutine of the bus with its run, the run it replaces and
the epoch of its event, `previous` the cleanup tasks of replaced runs, `left`
how many attempts a compensation still has (for each run, by who scheduled it),
`unset` the sweeps that have looked at the pointer and not cleared it, `outbox`
and `keys` the durable rows and `_INFLIGHT_KEYS`, `wipe` the request with its
targets. `straggler` holds the upserts of threads whose coroutine was cancelled:
`wait_for` ends the coroutine, not the thread, so the upsert may land at any
time or never. Auxiliary: `torn` (a purge stopped half way since the last
activation), `lost` (runs whose compensation died with the process or that the
bounded registry forgot), `late` (runs that began when a wipe had already
revoked and listed what it found, or when the paper was gone), `missed` (runs
whose last compensation failed at the store, or came while a thread of the run
could still write). `Others` are runs of other papers, which share the bounded
registry.

Handler, requests, compensation and the watchdog thread alternate at every
access. Three facts of the code shape the guards: sweeps run on the main loop,
where a request suspends only at its abort and its purge (`MainLoopFree`);
before its purge a request reads `pdf_path` through the bridge loop, so it does
not stand between the handler's gate and its `set_active_run_id`, which have no
await in between (`Purge`); and a sweep, or a row of the outbox, comes
`paper_wipe_vector_sweep_delay_seconds` (at least 120 s) after the abort, a time
chosen to cover the longest build, after which the settings take the threads of
the run for "statistically dead" (`config_qa.py:135-144`). The model takes them at
their word for these sweeps only: the last attempt of a sweep comes when the run
has settled (`Due`, `Polled`). The compensation that the handler schedules after a
time-out waits 0, 5 and 10 seconds (`rag/handlers.py:34`), which promises nothing:
its attempts may all come before a thread of the run lands, and then the run is
`missed` unless somebody else will delete it. Every delete of a run may reach only
some of the three collections, or none, and the code only logs it. Every run has
evidence in all three collections.

### Services

- `EventBus`: `posted` and `job` are the coroutines of the two loops, `blocked`
  whether the main thread waits in `run_async`, `queue`/`items`/`unfinished` the
  `asyncio.Queue` objects ever created, `worker`/`workers` the worker tasks. The
  statements of one loop do not interleave, those of two loops do. Events of
  pipelines and of the indexing watchdog, handlers and error callbacks that
  raise, drains on another loop than the publication.
- `QaRetrieval`: the row, the two graph files, the pointer, the collections and
  the cache of chunk texts as a question reads them one after the other, while a
  reextract goes through its steps; time-outs at every access.
- `QaStream`: the text the model will send, the buffer that holds back a
  beginning marker, the sanitizer's state, what was emitted. A text is a
  sequence of abstract characters; the citation marker is `[C value ]`.
- `Patrol`: the version, graph file, run and evidence of each paper, the cache
  with keys made from the versions read first, and requests that read one thing
  after the other. A report is what it was made from.
- `Extraction`: one task per chunk behind limiter (`tokens`) and semaphore, with
  retries, the preview, the sub-graph with its repairs, the fallbacks, and the
  warnings that reach the paper. A node stands for its chunk.
- `HeadRefine`: refinement tasks with the generation they were started for, the
  registry entry, the record on disk, the pipeline's poll with its deadline, a
  reextract or delete that cancels and removes.

### Functions

A function module states the algorithm as operators over small records: a label
or a text is a model value with its length, similarity is a table, a model's
answer an input. `MCAlgorithms` enumerates the inputs of every part (`task`),
applies the algorithm once (`answer`), and states what the algorithm is for over
both. The part is the first field of a task, so that one run covers all of them.
`GraphMerge` merges, remaps, prunes, purges and folds in the code's order;
`SemanticClustering` clusters, elects, redirects and ties; `EdgeExtraction` is
the validators' work on the model's lists and the retry for missing spans;
`PatrolInsights` the four modes with their thresholds and the shortlist;
`TextChunks` both cutters with positions; `DocumentHead` the merge of two heads,
the classifier's input and its phases; `QaQuestion` the routing rules, the
neighbourhood and the budgets of the prompt; `VectorEvidence` texts, ids,
metadata, batches, the scope of queries and the parser of rows; `QaBenchmark`
the guardrails, the judge with retries and snapshots and the verdicts;
`GoldenSet` and `RegressionBaseline` the two checks around it.

## 3. Runs

| Run | Question | Instance |
|---|---|---|
| `paper_interleavings` | `TypeOK`, `RegistryTracks`, `OneRun`, `WipeFindsNoWorker`, `IndexingHasOwner`, `IndexingHasGraph`, `DualTable` | 2 runs, 1 request at a time (one reextract, deletes), processing watchdog; second reset, `finalize` and handler may fail |
| `paper_crash` | `DeleteLeavesNothing`, `ClaimExcludes`, `NoResurrection` | 1 run, 2 requests whose claims run out or are evicted, all faults, both watchdogs, 1 crash |
| `paper_liveness` | `RowSettles`, `WipeEnds`, `TasksEnd` | 1 run, 1 request, both watchdogs, failing `finalize` and handler, 1 crash, fairness |
| `claims_postgres` | `TypeOK`, `ImplementsLock` (refinement of `LeaseLock`), `LivingClaimKept`, `Answered` | 3 requests, 2 workers, 2 evictions, crashes, fairness |
| `rag_indexing` | `ActiveComplete`, `NothingForgotten`, `LivingIndexKept`, `AckedUnlessMissed` | 2 index runs, 1 crash, 1 reextract, 2 faults of any kind (time-out, upsert, delete, purge, acknowledgement, cascade) |
| `rag_sweeps` | `SweepsEnd`, `GhostsVanish` | 2 index runs, 2 runs of other papers, registry of 2, a delete, 1 crash, 2 faults (time-out, upsert, delete, acknowledgement), fairness |
| `services` | eight properties of the six services | below |
| `algorithms` | nine properties of the function modules | below |
| `ready_without_index`, `rag_ack`, `rag_stale`, `chunk_gap` | each violates one sentence of the documentation | section 5 |

`services`. Each property is a conjunction of named parts:

| Property | Parts and what they say | Instance |
|---|---|---|
| `StreamIndependentOfSplit` | `CitationsAs`, `AnswerAs`: citations and final text are those of the text sent at once, however the model splits it | texts of up to 3 pieces and a letter, deltas of up to 3 characters |
| `EvidenceTold` | `NoGhostEvidence`, `NoSilentDegradation`, `PreviewsTellTruth`, `OneLastEvent`: no evidence of a run that was not active during the question, missing evidence is said, a real chunk is not called invented, one last event | 2 questions, 1 citation, a reextract |
| `BusDelivers` | `DrainCoversOwnEvent`, `QuietMeansDone`, `MainThreadOrder`: a drain returns after the event of its pipeline, nothing is left when the loops are quiet, events of the main thread are handled in order | 2 pipelines, 1 watchdog |
| `ServedIsCurrent` | a report that is served stems from one version of every paper, the one its key names | 1 client, 2 versions |
| `ThinReportsTold` | `NoThinReportServed`, `ThinReportsSaySo`: a report with missing evidence says so and is not cached | |
| `ExtractionEndsHonestly` | `LossesReported`, `RepairsEnd`, `ExtractionAnswers`: lost chunks are in the warnings, repairs stay within their budget, every route ends in a graph or an error with no slot held | 3 chunks, 2 attempts, 2 slots, 2 tokens, 2 repairs |
| `HeadOfThisText` | `NoStaleHead`, `NoHeadOfDeleted` | 4 refinements, 1 reextract |
| `FallbackTold` | classifying without the refined head leaves a warning | |

`algorithms`, likewise:

| Property | Parts |
|---|---|
| `MergedGraphSound` | `MergedGraphValid`, `MergeKeepsEvidence`, `IsolatedMeansFolded`, `ChunkOrderIrrelevant`: no dangling edge or duplicate, every span is found at the survivor, what vanished was folded somewhere, the chunks' order decides nothing |
| `ClusteredGraphSound` | `ClusteredGraphValid`, `SynonymsKeepEvidence`, `BridgesOnlyJoin` |
| `EdgesKeepTheirEvidence` | `EvidenceLandsRight`, `GapsAreFlagged`, `EdgeLossesTold`, `AcceptedListsFit`, `RepairsStartAtNodes`, `BackboneOffered` |
| `InsightsStand` | `InsightsWellFounded`, `PatrolSymmetric`, `SharedNamesShown`, `MoreQuestionsNeverHurt` |
| `ChunksReadAll` | `LargeOverlapCovers`, `SlicesInOrder`, `ExtractionReadsAll`, `PiecesWithinLimit` |
| `ClassifierSeesHead` | `HeadKeepsFindings`, `ConclusionSurvives`, `InputReadsBack`, `OneFailureForgiven` |
| `PromptFitsQuestion` | `DoorAgreesWithRetrieval`, `OwnPaperIsNoComparison`, `PromptGraphClosed`, `PromptWithinBudget` |
| `EvidenceReadsBack` | `IndexReadsBack`, `VectorsPaired`, `NodeTextsFit`, `QueryScoped`, `MalformedVectorHarmless` |
| `GreenIsEarned` | `GreenMeansClean`, `StrictNeverWeaker`, `CreditUnambiguous`, `SuccessIsEarned`, `SnapshotsFaithful`, `BaselineReproduces`, `RegressionsSeen`, `GreenMeansCitable`, `CiNeverSkips` |

Bounds. Two pipeline runs, or two index runs, are what every hazard with an old
and a new worker needs: the superseded one and its successor; a third adds no
new pair. One request is enough for a wipe against everybody else; `paper_crash`
has two, which is what it takes to lose a claim to somebody. One crash can fall
anywhere, and after the cold boot the process is as fresh as after a second one.
The processing and the indexing watchdog are both on in the crash and liveness
runs; the largest run leaves the indexing watchdog out, which only promotes, and
the faults of the wipe, under which `IndexingHasGraph` does not hold (remarks).
`paper_crash` has one run because a reextract plays no part in a deletion; the
reextract and its failing resets are in `paper_interleavings`, with the watchdog
that reads between them. `paper_liveness` has no failing wipe: each repetition of
a wipe that fails half way sets `updated_at` (`clear_ephemeral_pipeline_state`), so
a client that repeats it for ever keeps the row fresh, and `RowSettles` would say
something about the client.
For the claim, three requests are an owner, one that steals from it and one that
is late; two evictions let the watchdogs of both workers cross. In `rag_indexing`
two faults are what it takes for a purge and a cascade to fail, or a time-out and
the compensation after it; one attempt is enough because every attempt but the
last is alike. A registry of two entries is trimmed by the third, which takes two
runs of other papers beside one of this; this happens in `rag_sweeps` and in no
other run, and the theorems about the index hold for every bound of at least two
(the code keeps 4096) and any other papers. `rag_ack` has the three attempts of the
code and lets all of them fail.
In `services` two versions, two pipelines or two questions are a
before and an after; three chunks are one more than the slots. The inputs of
`algorithms` are small on purpose: limits, budgets and batches are constants of
two to seven, so that every boundary is met from both sides. The proofs of
section 4 have no bounds.

Deadlock is not checked: requests, tasks and inputs end and the system stops.
That nobody waits for ever is stated by `TasksEnd`, `WipeEnds`, `Answered`,
`SweepsEnd`, `QuietMeansDone` and `ExtractionAnswers`.

Fairness. In `PaperPipeline` (`FairSpec`) the event loop resumes every coroutine
that can go on and the operating system runs every thread, so the steps of tasks,
handler, watchdogs and requests are weakly fair. `DogCondemns` is strongly fair:
the watchdog scans for ever, and a task that is dead at one scan and dead at the
next is found; it is not enabled continuously because the lease is renewed and
goes stale again while the head refinement of the paper is alive, and no model
call lasts for ever. Nothing is assumed of uploads, requests, failures, crashes
or the expiry of a claim. The work of a node is an await that ends: every model
call, PDF tool and database call in the code has a timeout. In `OpsClaim` a
request that can go on goes on; the failure of a transaction is not fair, so it
frees nobody who waits. In `RagIndexing` handler, requests and compensations go
on, threads end and the poller polls for ever; time-outs, faults, crashes and new
requests are not fair. The services and the algorithms are checked for safety
only.

## 4. Proofs

All theorems hold for every set of runs, requests, clients, pipelines or chunks,
any number of crashes, and (unless stated) whatever fails and whichever watchdogs run.
They assume the named assumptions of their modules: names are distinct, bounds
are natural numbers.

`PaperPipelineProofs`:

- `TypeCorrect`: `TypeOK` is inductive on its own; one step per action.
- `RegistryCorrect`: with the types, `RegistryTracks` is inductive. The lemmas
  follow the registry's operations: moving on, ending (`finally`), being
  replaced.
- `IndexingOwned` (indexing watchdog enabled: its cold boot settles what a crash
  leaves INDEXING): inductive with `LoopOwner`, because whoever is about to publish
  holds the loop; whoever drops an event has seen another status. A failing publish
  and a dying handler mark the paper `abandoned`, nothing else does.
- `LoopOwned`: the strengthening most proofs about asyncio code need: a
  coroutine stands in a stretch without await exactly while the loop is its own.
- `IndexingBacked` (indexing watchdog enabled, no faults of the kind `wipe`;
  `finalize`, handler and second reset may fail): `LoopOwner`, `Saved` (in
  `finalize`, after the disk write, the store holds the graph of that run) and
  `ResetStands` (after the first reset the status is not INDEXING, so a failing
  second one leaves none without a graph). Who changes the store owns the loop, so
  no other task stands between its write and its status.
- `DeleteIsComplete`, `DeleteIsFinal`: the strengthening `RowLives`. The
  generation token names a run only while there is a row; a task about to write
  blindly has seen the row and holds the loop, so the row cannot go meanwhile;
  the cascade takes graph, PDF and row in this order.
- `ClaimIsExclusive`: `ClaimExcludes` from `Claimed`, whoever works and has not
  lost its claim is the one the claim names. Evictions and expiries, of living
  owners too, are in it: the theorem does not say that two wipes never overlap,
  only that a second one means a lost claim.
- `RunsNeverMix`, `WipesAlone`: `OneRun` and `WipeFindsNoWorker` hold of every
  behaviour in which wipes do not overlap (`OneWipe`), whoever else kills, replaces
  or crashes; `ApartWhileClaimed`: of every behaviour in which no request loses its
  claim (`lostClaim` stays empty). `OneRun` alone is not inductive. `RunsApart` adds that a full
  extraction is registered (`FullTracked`), that behind each step of an abort the
  tasks it has waited for are dead or cancelled for good (`AbortBites`), and that
  nothing runs before an upload is committed (`NoneBeforeUpload`). A run that
  begins is then alone, because its request has been through the whole abort.
- `TablesAgree`: `DualTable` holds of every behaviour. It speaks of rows that are
  not `apart`: the first reset sets them apart, every write of both rows ends it,
  also when the second reset fails, a watchdog reads in between or the process dies
  there. Every other write is a pair that fits the contract (`PairsFit`), but for
  the tombstone, which leaves out the stage when it read "failed"; then it was read
  from rows set apart (`TombstoneKnows`) and leaves them so. There is a run row only
  beside a papers row (`RunRowHasPaper`).

`OpsClaimProofs`: `ClaimTypeCorrect`, `ClaimIsLock`, `ClaimExclusive` and
`ClaimKept`, for any number of requests and workers, from `ClaimAssumption` and
`Serialized` (PostgreSQL, or one worker). The strengthening: who is in `try_acquire` holds the gate and, once it
has read, the advisory lock, so only one request decides; while it decides the
row is not revived, so nobody has a lease when it takes the row. `ClaimIsLock` is
the refinement: every step is a step of `LeaseLock` or a stutter.

`RagIndexingProofs`:

- `IndexTypeCorrect`: the types with `FreshUnknown`, a run id that was not drawn
  is known to no task, row, registry or pointer. A run therefore begins without
  anybody who would delete its evidence.
- `AckMeansGoneOrMissed`: `SweptClean`, a sweep that has made its last attempt has
  left nothing, or missed, and nothing of its run can still arrive. That last
  attempt waits for `Settled` (the assumption above about wave 2), and no later step
  lets an old run write. What fails at the store is `missed`, and by name: the
  finding `rag_ack` is the case.
- `ActiveIndexWhole`: `IndexInv`. A run that may still pass the gate has lost
  nothing of what it wrote, because whoever deletes evidence of a run has
  revoked it first (`RunIntact`); a wipe revokes what is under way before it
  purges, and what begins after that is `late` (`WipeStopsRuns`,
  `NoneAdmittedInWipe`); the pointer names neither a run being cleaned up nor a
  replaced one (`Pointer`).
- `NothingIsForgotten`, whatever fails. That a deleted paper's evidence has an
  owner is true when the paper goes only because the wipe has found everybody before
  it. `ForgetInv` says so at every point of a wipe: a sweep has its row
  (`SweepsHaveRow`), an upsert under way in a thread belongs to a run that somebody
  compensates for, or that is timing out (`Stragglers`), a run that may still be at
  work is in the inflight entry of the registry, is the last of this paper revoked or
  is one the registry has forgotten (`Findable`), a wipe that has looked knows it
  (`WipeKnows`), a wipe that has scheduled its sweeps has one for every target
  (`Scheduled`), and evidence of a paper that is gone has an owner or a reason
  (`EvidenceOwned`). A compensation of the handler that made its last attempt has
  left nothing, or missed, or is not the only one (`OrphanDone`), and no build begins
  with one (`Unassigned`). The registry keeps at least two entries
  (`RagAssumption`; 4096 in the code).
- `LivingIndexStays`: an action property. `Pointer` makes every cleanup that
  deletes by run delete another run than the one shown.

The sequences of the registry are handled by lemmas about `RemoveAt`, `SubSeq`
and the last matching position (`LastExists`, by the well-foundedness of `<`).

`EventBusProofs`: `BusKeepsPromises`, for any number of pipelines and watchdogs.
`BusInv` follows an event from its publisher to the log. The core: one loop waits
for the other (`OneLoop`), coroutines find the queue and the worker they need
(`InCoroutine`), `unfinished` counts what is queued or in work (`Counted`). Over
it: an event that was published is carried by one coroutine or stands in the
line of logged, current and waiting events, once (`OnItsWay`, `Published`); the
line has the order of the main thread's publications (`InOrder`); a drain comes
behind the event of its pipeline and is woken for it (`Drains`). Only one queue
and one worker are ever created, although both loops ask for them.

`ReaderProofs`: `QaTellsTruth` and `PatrolServesCurrent`, for any number of
questions, citations, clients, kinds of evidence, versions and reextracts. Both
have a half about the writer, that the reextract changes row, files, pointer and
evidence in an order in which the active run has its evidence (`StoreInOrder`,
`ReextractInOrder`), and a half about the reader: what it holds was active at
some time since it began (`EvidenceSeen`), and as long as nothing has changed
meanwhile it still stands (`Undisturbed`, `StreamSoFar`); each request of a
patrol is at the point of its tour where it has read so much and no more, and
every kept report is `Sound` (`ReportsSound`).

`ExtractionProofs`: `ExtractionIsHonest`, for any number of chunks, attempts,
slots, tokens and repairs. `ChunksTold` (a task that has ended has brought nodes
or left a warning), `GraphTold` (what the graph lacks was written down when it
was put together), `CallsCounted`, and `OnRoute`, which says where a graph can
come from at each step. That nobody waits for ever on the limiter, whose queue is
served in order, uses a first waiting task, by the well-foundedness of `<`.

In the same module, about `HeadRefine`: `HeadTypeCorrect`, `HeadNeverLeftOver`, `HeadFallbackTold`.
A refinement that may still store is the registered one and of the current
generation (`Tracked`, `Current`): the wipe cancels the registered one and waits
for it (`Quiet`), so nothing stores behind it, and what is stored is of this
text (`Gone` for a deleted paper).

`GraphMergeProofs`: what `merge_graphs` and `semantic_cluster_and_merge` make of
every graph.

- Merging. `MergedGraphAccepted`, `IsolatedHasSwallowed`, `MergeLosesNoEvidence`
  (for all chunks and edges) and `ChunkOrderShapesNothing` (for chunks whose nodes
  have ids of their own). The loops of the code are folds over data. The provers
  cannot instantiate the library's induction theorems, so what a fold does is
  proved from the well-foundedness of `<` on the naturals: `FoldExists` says that
  the partial results exist, `StepByStep` hands a named fact (`HandedOn`) from one
  to the next, and each loop has an invariant of its own as a definition. The core
  of the pruning is `FoldedAreLone`: a node folded away has its one neighbour when
  its turn comes, although the graph shrinks under the loop, so a node left without
  edges has swallowed what was around it.
- Clustering. `ClusteringKeepsGraphSound`, for every graph that is `Clusterable`
  and closenesses that are numbers (`Comparable`). `ComponentsAre`: the parts the
  search finds are a partition, and none crosses a set that no link crosses. Every
  cluster has a root (`TopOf`: an order with ties that is total on a finite set has
  a greatest member), every node goes into the root of its part, relations follow
  their ends and keep the longest evidence. A bridge is the only tie between what it
  joins because nothing else leaves the part it begins in (`BridgeIsOnlyTie`): the
  bridge of one part is an edge of the graph the next one is drawn in, so this is an
  invariant of the loop over the parts. `Clusterable` is what a graph is that comes
  from the merge: ids stand apart from the aliases of other nodes, edges have their
  ends and no edge is a bridge yet (`SEMANTICALLY_RELATED_TO` is no type of the
  schemas of extraction). `algorithms` clusters no other graphs.

`AlgorithmProofs`: what `algorithms` checks of enumerated inputs, for every input.

- Of the benchmark `GreenAnswersAreClean`, `SuccessNeedsAnswers`,
  `StrictGateIsStrictest` and `CreditMeansOneChunk`; of the judge's snapshots
  `ReplayIsOfThisPrompt`, for every file and every sequence of recordings; of the
  golden set `GreenItemsAreCitable` and `NoFlagSkipsOnCi`; of the baseline
  `ReportPassesItsBaseline` and `WorseTurnsRed`.
- Of the head and its readers `FindingsStayInHead` and `JudgeForgivesOnce`, and of
  the text the classifier gets `ConclusionIsKept` (for texts of any length) and
  `InputIsReadBack`. The second follows the reader through the written text field by
  field; it has the exceptions of the code, which the statement names: without a
  title in front nothing marks the text as an input, and a meta block or an
  introduction before a conclusion moves what the reader takes for one.
- Of a question `DoorAndRetrievalAgree`, `OwnPaperComparesNothing` and
  `PromptEdgesHaveEnds`; of its prompt `ContextFitsBudget`, for all sections and
  every budget: two nested loops that give up lines from the end, and a cut.
- Of the store `NobodysPlaceTaken`, `ReadBackAsWritten`, `AnswersStandInScope` and
  `MalformedVectorIgnored`. They rest on `Keyed`, every row stands under the
  identifier of its paper, run and item, which an upsert keeps, and on what is
  `Storable`, which `algorithms` checks of the evidence of its graphs. `VectorsStayPaired` follows a
  text through the server, the requests and the batches of an upsert: an answer that
  has as many vectors as texts has each in its place (`Fitting`), two answers behind
  each other still do, and where nothing goes wrong none is missing. It assumes of
  the rows that are there only that they have the vectors of their texts.
- Of the cutting of a long paper `SentencesReadOnce`: three nested loops, over
  sections, paragraphs and sentences. What each has cut, closed or still open, is
  what it has read so far and every closed piece fits (`HasRead`); the joining of
  small pieces keeps the text. `EveryExtractionReadsAll` states it of the run.
- Of the patrol `ConclusionsAnchored`, `SharedNamesFound` and `VerdictsSymmetric`
  (three of the four modes; which pair of questions `claim_evolution` takes depends
  on a sort). They use of a selection of nodes that it is a list (`NodeLists`),
  because the provers cannot expand `SelectSeq`.

The theorems whose names begin with `Every`, and `GreenIsAlwaysEarned`, close the
gap between a function and the run that evaluates it: `AnySpec(inputs)` is the
specification of `algorithms` over any set of inputs, `Answered` its inductive
invariant (an answer is what the function makes of the task), and they state the
invariants of the run of it: `MergedGraphSound`, `ClusteredGraphSound`,
`ClassifierSeesHead`, `PromptFitsQuestion`, `GreenIsEarned`, and of `ChunksReadAll`
what it says of the extraction. What they assume of an
input is a definition beside each (`MergeInput`, `ClusterInput`, `BenchInput`, and
so on): what the callers in the code guarantee, such as a graph whose edges have
their ends or a gold set that is finite. The constants are assumed no more than
that fields have a length, limits are numbers, the built-in graphs are well-formed
and "unknown" is no number of points (`GoldenSetAssumption`,
`RegressionBaselineAssumption`).

The proof about the judge found a case no run had: a verdict with a label that is
none is not read at all, not even where another of its labels says hallucinated.
`Clean` says so now and `algorithms` has such a verdict.

`QuietMeansDone` and `ExtractionAnswers` say that the system can go on by naming
the guards of its steps (`Stirring`, `GoesOn`), since `ENABLED` cannot be proved
about; what they state is the absence of a deadlock, not liveness.

Only model-checked:

- everything under fairness: liveness and `ENABLED` are beyond the prover;
- `StreamIndependentOfSplit`, whose operators are RECURSIVE;
- `EdgesKeepTheirEvidence`: which gap a batch of patches names is chosen with
  `SelectSeq` and `SetToSortSeq`, of which the provers know nothing;
- `InsightsStand` as a whole: its `MoreQuestionsNeverHurt` depends on a sort. The
  other three parts are the three theorems about the patrol;
- `ChunksReadAll` as a whole: what it says of the extraction (`ExtractionReadsAll`,
  `PiecesWithinLimit`) is `EveryExtractionReadsAll`; the slices of the index
  (`LargeOverlapCovers`, `SlicesInOrder`) are the value of a recursive function over
  a text, sorted by its headings and selected with `SelectSeq`;
- `EvidenceReadsBack` as a whole, which is stated over the run's sample graphs. Its
  `IndexReadsBack`, `VectorsPaired`, `QueryScoped` and `MalformedVectorHarmless` are
  what the theorems about the store say of any store; the text of a node
  (`NodeTextsFit`) is only checked.

## 5. What the documentation says and the code does not keep

Each is a run of its own whose counterexample was followed through the code.

1. `ready_without_index` (`rag/vector_store_replace.py:122`): a revoked index
   run ends without an error and the paper is promoted to READY although no
   evidence is active. `pipeline_completion_service.py:88`: "do not advertise
   READY until RAG index completes".
2. `rag_ack` (`rag/handlers.py:164`): the compensation of a sweep logs and swallows
   every failure of the store; after its last attempt the row of the outbox is deleted
   all the same, and evidence of the wiped run stays that nobody will remove.
   `rag/wipe_vector_sweep.py:105`: "Run delayed delete_run retries, then ack the
   durable outbox row on success". `AckedUnlessMissed` says that nothing else
   acknowledges a row too early.
3. `rag_stale` (`rag/handlers.py:288`): the event of a pipeline that a reextract
   has superseded is taken when the paper is INDEXING again; its index is
   activated for the new text. `reextract_service.py:122-123`: "so a late worker
   cannot resurrect stale artefacts after wipe".
4. `chunk_gap` (`rag/chunking.py:225`): a slice that ends early at a soft
   boundary is followed by one that starts a fixed step after its start; text in
   between is in no slice of the index, although `docs/v2/rag-requirements.md:175`
   asks for an overlap of 20%.

## 6. Remarks

What was seen while modelling and is no run: limits of the models, behaviours the
documentation does not exclude, and small disagreements.

Life of a paper.
- Within one process the generation guard never decides anything: an obsolete run
  is always cancelled before it reaches the guard. Its purpose is several
  workers.
- `IndexingHasGraph` needs a wipe whose steps up to the first reset do not fail: a
  reextract whose first reset fails after the wipe leaves an INDEXING paper without a
  graph. A delete that stops at the PDF leaves a READY paper without a graph.
- A paper may be READY and then FAILED with its index active: when the clearing of the
  preview raises behind the publish (`pipeline_completion_service.py:130-131`), the
  handler may promote before `fail_node` writes FAILED. When the publish itself or the
  handler fails, the paper stays INDEXING until the indexing watchdog finds it
  (`abandoned`).
- asyncio delivers a cancellation in one of the next rounds of the loop.
  `EarlierEnded` states what that means for a long paper: when a run has been
  through its ingest and its first model calls, the cancelled tasks of earlier
  runs have ended. The registry relies on it: the `finally` of a full extraction
  pops the entry of the paper whoever owns it (`extract_worker.py:95`), and a
  late one would take the successor's, which no abort would then find.
- `DualTable` excepts rows that were set `apart`, which only the first reset of a
  reextract does (`reextract_service.py:161`). If the second one fails, or the process
  dies before it, PENDING stands beside the stage of the earlier run until the watchdog
  fails it as an orphan. A tombstone that the watchdog computes between the two, from a
  stage that was already failed, and writes after them leaves FAILED without a stage,
  until `GET /status` repairs it (`RepairStatus`).
- INDEXING may be written over FAILED, because the generation is checked in an
  earlier transaction. The abort posted for a dead pipeline may cancel its
  successor. A crash between the two writes of an upload leaves a PENDING paper
  that no scan lists. The processing watchdog evicts the claim of a living request,
  and the claim of a slow one runs out, since nobody renews it
  (`reextract_service.py:140`, `paper_ops_claim_repository.py:107-121`): two wipes may
  then run at once. `OneWipe` is therefore checked by no run, and where a theorem needs
  it, it is an assumption.
- On SQLite two workers may both steal one expired claim: the UPDATE is not
  conditional on what was read. `Serialized` excludes it.
- `GET /status` reads the run row and the papers row in two SELECTs
  (`pipeline_repository.py`, `get_latest`) and repairs apparent divergence. A
  poll between the two halves of a failure writes its defaults (PIPELINE_FAILED,
  extracting, an old message) over the real reason; a slow one may write over the
  reset of a reextract. `RepairStatus` is one step of the model.
- The stop event of the indexing watchdog: a stop that timed out leaves the old
  thread, and a start after it clears the event, so there are two
  (`indexing_watchdog.py:233-270`).

Index and store.
- A run that begins when a wipe has already looked (`late`) is revoked by nobody.
  During the purge it loses what it has written, is activated all the same and
  shows a part of its evidence; around a delete it may leave evidence without an
  owner. `ActiveComplete`, `NothingForgotten` and `GhostsVanish` except these
  runs. `rag_stale` has the same root.
- A sweep that finds its own run active deletes it and then takes the pointer
  away, in two transactions (`rag/handlers.py:155-158`; its comment promises not to
  touch a different active run). If the handler has activated
  a successor in between, the sweep takes the successor's pointer: the paper is
  READY, its evidence is complete and no question finds it. Two faults are
  needed to get there (a purge and a cascade that fail); `LivingIndexKept` allows it
  by name.
- `NothingForgotten` and `GhostsVanish` have three more exceptions. Compensations of
  timed-out runs live in memory only, and a run that the bounded registry has dropped
  is found by no wipe (`lost`). A last attempt that the store refuses, or a
  compensation of the handler whose 0, 5 and 10 seconds end before a thread of the run
  has landed, is not repeated (`missed`). That a thread outlives even the 120 s of
  wave 2 is outside the model.
- After a forced delete whose purge failed the pointer stays on partial evidence. The
  extension of the targets sees only the run most recently revoked.
- `exists()` of the vector store looks at the pointer, so a torn index gives an
  empty retrieval without a warning; an exception in the lookup of a chunk labels
  a real chunk as invented.
- The bus drains on the main loop although `workflow.py:142-143` speaks of the
  bridge loop; an event without a type would make `drain()` wait for ever
  (`bus.py:171`), and nothing publishes one.

Questions and answers.
- A heading mark split over two deltas reaches the reader; the assembled answer
  is clean. A marker opened inside another is cut differently.
- "CIFAR-100" and "resnet-101" match the pattern of a paper id and are taken for a
  foreign paper (`qa_router.py:19`). English keywords need a word boundary, which
  adjacent Chinese letters deny; " f1 " and "section " are stripped and match
  inside words.
- A verdict of the judge with a label that is none of the three raises
  (`qa_judge_validate.py:83-84`) and is a judge error, also where another sentence of it is called
  hallucinated. A judge error keeps a question from counting as a success and is
  no red line, so such a run may be green.
- An item without required patterns counts as a success with an empty answer
  (`benchmark_qa.py:442-445`, `582-600`). Every item of `data/qa_golden_set.json`
  has some.
- A partial retrieval after a reextract may mix old nodes with new edges in the
  prompt. The last loop of `_apply_context_char_budget` is never needed.

Extraction and ingest.
- `TransientExtractionError` is raised only after tenacity has given up, so a real
  time-out is never retried; retries bypass the limiter, which sleeps with its
  lock held (`rate_limiter.py:84-87`); a request larger than the bucket waits for
  ever.
- `extract_repair.py:29-30` calls dangling references edge-level, but their
  message contains "node" and no edge-level error reaches the last validator: the
  branch `retry_edges` is dead (`RepairsStartAtNodes`).
- If all edge calls of a long paper fail, every node is pruned and an empty graph
  passes the quality gate. The background worker keeps only the graph of a
  heuristic fallback and not its warning (`extract_worker.py:66`). One chunk that
  answers with the other paradigm makes the merge of the whole paper raise
  (`merge_graphs.py:159`).
- The heuristic fallback of the sub-graph ignores `EXTRACT_HEURISTIC_FALLBACK`.
  The merged nodes are ordered c1, c10, c2 (`merge_graphs.py:206-207`). Patched
  edges keep their flag of incompleteness.
- "Once per paper" (`paper_pipeline_scheduler.py:50`) is per running task: the
  waiting node starts a second refinement when the first has finished, and its
  record may replace the one that was classified. A refinement that ends without a
  record makes the pipeline wait the whole deadline.
- Normalisation of labels: garbled or punctuation-only labels become equal, "C",
  "C++" and "C#" too. A merged edge with a longer span loses the other's rationale.
  The main component of two equally large ones depends on the order of a set.
- The vector of a merged node is that of the first of its cluster, not of the
  elected one (`semantic_clustering.py:133-138`); similarity is joined through
  chains.
- Tiny slices are joined across a skipped references section, which so gets into
  the index (`rag/chunking.py:275-279`); page offsets drift by blank pages.

Patrol and benchmarks.
- A report that lacks evidence because a wipe took the evidence away while the
  patrol was reading says nothing of it: the index was ready when it was asked
  and the query found nothing. `ThinReportsTold` excepts versions whose wipe has
  begun (`purged`).
- A transient failure of embedding or model gives RQ_GATE_FAILED, cached for 24
  hours; the circuit breaker is new per service and never opens.
- `graph_element_recall` is 2.0 for one node and no edge, 0.5 for four nodes all
  cited, 0.8 for three nodes and two edges all cited (`qa_heuristics.py:269-282`).
- Recording judge snapshots moves the prompt hash at the root of the file, so
  after recording several prompts only the last can be replayed
  (`qa_judge_replay.py:124-136`).
- The exit code of the question benchmark looks at the mean hallucination rate and
  the chunk-recall gate; a question that failed by an error, a judge's error, a
  guardrail or the recall floor leaves it 0 (`benchmark_qa.py:521-690`). A golden
  item without a known paper is printed as FAIL and the exit code stays 0
  (`validate_golden_qa.py:466-475`).
- The comparison with a baseline falls back to the baseline's pages where the
  summary does not; extra papers with score 0 go unnoticed.

## 7. Not modelled

- The frontend polls the status and renders; it holds no state the backend
  depends on.
- Prompts, regular-expression extraction, the reading of PDFs, TEI and Markdown,
  skeletons, drafts of patrol texts, metrics, logging, settings and migrations:
  text in, text out, or no state.
- Several backend processes beyond the claim: the registry, the bus and the
  watchdog are per process, and the code supports one.
- The heartbeat of an index run, batches and grace periods of the watchdogs,
  shutdown of the bus, warnings other than those named in the modules.
- `scripts/benchmark_dual_route.py` runs two parsers one after the other and
  writes a report.
