------------------------------ MODULE EventBus ------------------------------
(***************************************************************************)
(* The event bus and the two event loops it lives on.  Pipelines publish   *)
(* on the thread of the main loop, the watchdog on a thread of its own;    *)
(* publish_sync chooses the loop the coroutine runs on, and whichever loop *)
(* is first creates the queue and the worker.  Nothing is locked: the      *)
(* statements of two loops interleave, those of one loop do not.           *)
(***************************************************************************)
EXTENDS Naturals, Sequences, SequencesExt

CONSTANTS
    Pipelines,     \* run_paper_pipeline: publishes, then drains
    Dogs           \* watchdog threads: publish RagIndexed, never drain

ASSUME EventBusAssumption == Pipelines \cap Dogs = {}

Loops == {"main", "bridge"}
NoJob == [do |-> "nothing"]
NoQueue == 0

VARIABLES
    posted,        \* coroutines handed to a loop and not begun
    job,           \* the coroutine a loop is in the middle of
    blocked,       \* the main thread waits for a coroutine of the bridge
    queue,         \* self._queue: the number of an asyncio.Queue
    items,         \* what is in each queue that was created
    unfinished,    \* its count of unfinished tasks
    worker,        \* self._worker_task: a place in workers
    workers,       \* the worker tasks that were created
    pc,            \* where a pipeline or a dog is
    waits,         \* drains that wait: pairs of pipeline and queue
    published,     \* events in the order in which they were published (auxiliary)
    log            \* events in the order in which the bus was done with them

busVars == <<posted, job, blocked, queue, items, unfinished, worker, workers,
             pc, waits, published, log>>

Finalized(p) == [kind |-> "finalized", of |-> p]
Indexed(p) == [kind |-> "indexed", of |-> p]

BusInit ==
    /\ posted = [l \in Loops |-> <<>>] /\ job = [l \in Loops |-> NoJob]
    /\ blocked = FALSE /\ queue = NoQueue /\ items = <<>> /\ unfinished = <<>>
    /\ worker = 0 /\ workers = <<>>
    /\ pc = [p \in Pipelines \cup Dogs |-> "publish"]
    /\ waits = {} /\ published = <<>> /\ log = <<>>

Free(l) == job[l] = NoJob /\ ~(l = "main" /\ blocked)

-----------------------------------------------------------------------------
\* ---- publish_sync and run_async ----------------------------------------
\* Mutant: every publisher uses the loop of the bridge.
PublishLoopBridge(thread) == "bridge"

\* From another thread than the main one the coroutine goes to the main loop
\* and nobody waits; from the main thread run_async takes it to the bridge.
PublishLoop(thread) == IF thread = "main" THEN "bridge" ELSE "main"

Post(l, j) == posted' = [posted EXCEPT ![l] = Append(@, j)]

PublishSync(e, thread) ==
    /\ Post(PublishLoop(thread), [do |-> "queue", then |-> "put", event |-> e])
    /\ blocked' = (blocked \/ thread = "main")
    /\ published' = Append(published, e)

\* complete_paper_pipeline, on the main loop
PipelinePublishes(p) ==
    /\ pc[p] = "publish" /\ Free("main")
    /\ PublishSync(Finalized(p), "main")
    /\ pc' = [pc EXCEPT ![p] = "drain"]
    /\ UNCHANGED <<job, queue, items, unfinished, worker, workers, waits, log>>

\* The watchdog has promoted a stuck paper.
DogPublishes(d) ==
    /\ pc[d] = "publish"
    /\ PublishSync(Indexed(d), "thread")
    /\ pc' = [pc EXCEPT ![d] = "gone"]
    /\ UNCHANGED <<job, queue, items, unfinished, worker, workers, waits, log>>

\* asyncio.to_thread(drain_sync)
PipelineDrains(p) ==
    /\ pc[p] = "drain" /\ ~blocked
    /\ Post("main", [do |-> "queue", then |-> "join", event |-> Finalized(p)])
    /\ pc' = [pc EXCEPT ![p] = "draining"]
    /\ UNCHANGED <<job, blocked, queue, items, unfinished, worker, workers, waits, published, log>>

-----------------------------------------------------------------------------
\* ---- publish and drain, statement by statement -------------------------
BeginJob(l) ==
    /\ job[l] = NoJob /\ posted[l] # <<>> /\ (l = "main" => ~blocked)
    /\ job' = [job EXCEPT ![l] = Head(posted[l])]
    /\ posted' = [posted EXCEPT ![l] = Tail(@)]
    /\ UNCHANGED <<blocked, queue, items, unfinished, worker, workers, pc, waits, published, log>>

Do(l, what, next) == job[l].do = what /\ job' = [job EXCEPT ![l].do = next]

\* _ensure_queue: the test of the queue ...
SeesQueue(l) ==
    /\ Do(l, "queue", IF queue = NoQueue THEN "create" ELSE "worker")
    /\ UNCHANGED <<posted, blocked, queue, items, unfinished, worker, workers, pc, waits, published, log>>

\* ... its assignment ...
CreatesQueue(l) ==
    /\ Do(l, "create", "worker")
    /\ items' = Append(items, <<>>) /\ unfinished' = Append(unfinished, 0)
    /\ queue' = Len(items) + 1
    /\ UNCHANGED <<posted, blocked, worker, workers, pc, waits, published, log>>

NeedsWorker == worker = 0

\* ... and the worker, on the loop the coroutine happens to run on.
EnsuresWorker(l) ==
    /\ Do(l, "worker", job[l].then)
    /\ IF NeedsWorker
       THEN /\ workers' = Append(workers, [loop |-> l, pc |-> "get", event |-> NoJob])
            /\ worker' = Len(workers) + 1
       ELSE UNCHANGED <<worker, workers>>
    /\ UNCHANGED <<posted, blocked, queue, items, unfinished, pc, waits, published, log>>

\* The queue has no bound.  A thread that waited for the coroutine goes on.
Puts(l) ==
    /\ job[l].do = "put" /\ job' = [job EXCEPT ![l] = NoJob]
    /\ items' = [items EXCEPT ![queue] = Append(@, job[l].event)]
    /\ unfinished' = [unfinished EXCEPT ![queue] = @ + 1]
    /\ blocked' = (blocked /\ l = "main")
    /\ UNCHANGED <<posted, queue, worker, workers, pc, waits, published, log>>

\* Mutant: a drain looks at what is still queued.
PendingQueued(q) == Len(items[q])

Pending(q) == unfinished[q]

\* Queue.join
Joins(l) ==
    /\ job[l].do = "join" /\ job' = [job EXCEPT ![l] = NoJob]
    /\ LET p == job[l].event.of
       IN IF Pending(queue) = 0
          THEN pc' = [pc EXCEPT ![p] = "drained"] /\ UNCHANGED waits
          ELSE waits' = waits \cup {<<p, queue>>} /\ UNCHANGED pc
    /\ UNCHANGED <<posted, blocked, queue, items, unfinished, worker, workers, published, log>>

-----------------------------------------------------------------------------
\* ---- _worker -----------------------------------------------------------
WorkerAt(i, at) == workers[i].pc = at /\ Free(workers[i].loop)
Worker(i, at) == workers' = [workers EXCEPT ![i].pc = at]

Get(i) ==
    /\ WorkerAt(i, "get") /\ items[queue] # <<>>
    /\ workers' = [workers EXCEPT ![i] = [@ EXCEPT !.pc = "handle", !.event = Head(items[queue])]]
    /\ items' = [items EXCEPT ![queue] = Tail(@)]
    /\ UNCHANGED <<posted, job, blocked, queue, unfinished, worker, pc, waits, published, log>>

\* RagIndexed has no subscriber.  The one of PipelineFinalized ends by
\* publishing RagIndexed, on the loop the worker runs on ...
Handled(i) ==
    LET e == workers[i].event
    IN /\ WorkerAt(i, "handle") /\ Worker(i, "done")
       /\ IF e.kind = "indexed" THEN UNCHANGED <<posted, blocked, published>>
          ELSE PublishSync(Indexed(e.of), IF workers[i].loop = "main" THEN "main" ELSE "thread")
       /\ UNCHANGED <<job, queue, items, unfinished, worker, pc, waits, log>>

AfterFailure == "done"

\* ... or raises: the callback records a warning, or raises too.
HandlerRaises(i) ==
    /\ WorkerAt(i, "handle") /\ workers[i].event.kind = "finalized"
    /\ Worker(i, AfterFailure)
    /\ UNCHANGED <<posted, job, blocked, queue, items, unfinished, worker, pc, waits, published, log>>

\* task_done: the last one wakes the drains.
TaskDone(i) ==
    LET last == unfinished[queue] = 1
    IN /\ WorkerAt(i, "done") /\ Worker(i, "get")
       /\ unfinished' = [unfinished EXCEPT ![queue] = @ - 1]
       /\ log' = Append(log, workers[i].event)
       /\ waits' = {w \in waits : ~(last /\ w[2] = queue)}
       /\ pc' = [p \in DOMAIN pc |-> IF last /\ <<p, queue>> \in waits THEN "woken" ELSE pc[p]]
       /\ UNCHANGED <<posted, job, blocked, queue, items, worker, published>>

\* The main loop runs the drain that was woken.
Wakes(p) ==
    /\ pc[p] = "woken" /\ Free("main") /\ pc' = [pc EXCEPT ![p] = "drained"]
    /\ UNCHANGED <<posted, job, blocked, queue, items, unfinished, worker, workers, waits, published, log>>

BusProgress ==
    \/ \E p \in Pipelines : PipelinePublishes(p) \/ PipelineDrains(p) \/ Wakes(p)
    \/ \E l \in Loops : BeginJob(l) \/ SeesQueue(l) \/ CreatesQueue(l)
                        \/ EnsuresWorker(l) \/ Puts(l) \/ Joins(l)
    \/ \E i \in DOMAIN workers : Get(i) \/ Handled(i) \/ HandlerRaises(i) \/ TaskDone(i)

BusNext == BusProgress \/ \E d \in Dogs : DogPublishes(d)

BusSpec == BusInit /\ [][BusNext]_busVars

-----------------------------------------------------------------------------
\* A pipeline that has drained the bus finds its own event handled, wherever
\* the queue and the worker live.
DrainCoversOwnEvent ==
    \A p \in Pipelines : pc[p] = "drained" => Finalized(p) \in Range(log)

\* A step of BusProgress can be taken: what the steps require, and no more.
Stirring ==
    \/ \E p \in Pipelines : pc[p] \in {"publish", "woken"} /\ Free("main")
    \/ \E p \in Pipelines : pc[p] = "drain" /\ ~blocked
    \/ \E l \in Loops : Free(l) /\ posted[l] # <<>>
    \/ \E l \in Loops : job[l].do \in {"queue", "create", "worker", "put", "join"}
    \/ \E i \in DOMAIN workers : WorkerAt(i, "get") /\ items[queue] # <<>>
    \/ \E i \in DOMAIN workers : WorkerAt(i, "handle") \/ WorkerAt(i, "done")

\* When nothing moves any more, no event was lost, in a queue that another loop
\* replaced or anywhere else, and no pipeline hangs in its drain.
QuietMeansDone ==
    Stirring \/ ((\A p \in Pipelines : pc[p] = "drained") /\ Range(log) = Range(published))

\* Events are worked off one at a time, in the order of the queue: of two events
\* that the main thread published, the earlier is finished first.
MainThreadOrder ==
    \A i, k \in DOMAIN log :
        /\ i < k => log[i] # log[k]
        /\ i < k /\ log[i].kind = "finalized" /\ log[k].kind = "finalized" =>
              \E a, b \in DOMAIN published :
                 a < b /\ published[a] = log[i] /\ published[b] = log[k]

\* The bus on two loops: an event is handled once and in order, its drain waits for it and
\* nothing waits for ever.
BusDelivers == DrainCoversOwnEvent /\ QuietMeansDone /\ MainThreadOrder
=============================================================================
