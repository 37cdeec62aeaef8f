----------------------------- MODULE Extraction -----------------------------
(***************************************************************************)
(* The extraction of one paper's graph. A long paper is cut into chunks:  *)
(* a preview first, then nodes of every chunk, then edges of every chunk,  *)
(* as tasks that share a rate limiter and a semaphore; a short paper goes  *)
(* through a sub-graph that repairs what does not validate; a setting      *)
(* sends it through one call instead, or past the model.  What fails ends  *)
(* in the heuristic graph or in an error.  A node stands for the chunk it  *)
(* was found in, an edge for the chunks it links.                          *)
(***************************************************************************)
EXTENDS Naturals, FiniteSets

CONSTANTS
    ChunkCount,        \* chunks of the paper
    Attempts,          \* EXTRACT_CHUNK_RETRY_ATTEMPTS
    Concurrency,       \* EXTRACT_CHUNK_CONCURRENCY
    Rpm,               \* EXTRACT_CHUNK_RPM_LIMIT
    MaxRepairs,        \* EXTRACT_REPAIR_MAX_RETRIES
    HeuristicFallback  \* EXTRACT_HEURISTIC_FALLBACK

ASSUME ExtractionAssumption ==
    /\ {ChunkCount, Attempts, Concurrency, Rpm} \subseteq Nat \ {0}
    /\ MaxRepairs \in Nat /\ HeuristicFallback \in BOOLEAN

Routes == {"background", "short", "single", "off"}
Parts == 1..ChunkCount
Ghost == 0                     \* an id the model made up
Edges == {{}} \cup {{a, b} : a \in Parts, b \in Parts \cup {Ghost}}
NoGraph == [from |-> "nothing", nodes |-> {}]

VARIABLES
    route,      \* how the settings and the length send the paper
    step,       \* where the extraction is
    task,       \* task of each chunk: "limit", "gate", "call", "pause", "end"
    tries,      \* failed attempts of that task
    found,      \* chunks whose node list arrived
    edges,      \* chunk -> the edge it reported
    lost,       \* chunk_warnings
    tokens,     \* the limiter's bucket
    repairs,    \* repair_attempts
    error,      \* error_level
    calls,      \* node calls of the sub-graph (auxiliary)
    drawn,      \* the graph that is saved, and where it comes from
    record,     \* extract_warnings on the paper
    verdict     \* what finalize makes of it

extractionVars == <<route, step, task, tries, found, edges, lost, tokens, repairs,
                    error, calls, drawn, record, verdict>>
chunkVars == <<task, tries, found, edges, lost, tokens>>
loopVars == <<repairs, error, calls>>

All(at) == [c \in Parts |-> at]

ExtractionInit ==
    /\ route \in Routes
    /\ step = [background |-> "mvp", short |-> "nodes_node", single |-> "primary",
               off |-> "fallback"][route]
    /\ task = All("limit") /\ tries = All(0) /\ found = {} /\ edges = All({})
    /\ lost = {} /\ tokens = Rpm /\ repairs = 0 /\ error = "none" /\ calls = 0
    /\ drawn = NoGraph /\ record = {} /\ verdict = "none"

Moves(from, to) == step = from /\ step' = to
Keeps == UNCHANGED <<route, drawn, record, verdict>>

-----------------------------------------------------------------------------
\* ---- A long paper ------------------------------------------------------
\* extract_preview_and_schedule_full: the preview may fail, the warning is
\* recorded all the same.
Mvp ==
    /\ Moves("mvp", "nodes") /\ record' = record \cup {<<"mvp">>}
    /\ UNCHANGED <<route, drawn, verdict, chunkVars, loopVars>>

InChunks == step \in {"nodes", "edges"}
TaskAt(c, at) == InChunks /\ task[c] = at
TaskTo(c, at) == task' = [task EXCEPT ![c] = at]

\* The bucket fills up while tasks sleep.
Replenish ==
    /\ InChunks /\ tokens < Rpm /\ tokens' = tokens + 1
    /\ Keeps /\ UNCHANGED <<step, task, tries, found, edges, lost, loopVars>>

\* acquire: the lock serves the tasks in their order and is held asleep.
MayAcquire(c) ==
    TaskAt(c, "limit") /\ tokens > 0 /\ \A d \in 1..(c - 1) : task[d] # "limit"

Acquire(c) ==
    /\ MayAcquire(c) /\ tokens' = tokens - 1 /\ TaskTo(c, "gate")
    /\ Keeps /\ UNCHANGED <<step, tries, found, edges, lost, loopVars>>

\* Mutant: a task that has ended keeps its place.
HoldingLeaks == {c \in Parts : task[c] \in {"call", "pause", "end"}}

\* The semaphore is held over all attempts and the pauses between them.
Holding == {c \in Parts : task[c] \in {"call", "pause"}}

MayEnter(c) == TaskAt(c, "gate") /\ Cardinality(Holding) < Concurrency

Enters(c) ==
    /\ MayEnter(c) /\ TaskTo(c, "call")
    /\ Keeps /\ UNCHANGED <<step, tries, found, edges, lost, tokens, loopVars>>

NodesArrive(c) ==
    /\ TaskAt(c, "call") /\ step = "nodes" /\ TaskTo(c, "end")
    /\ found' = found \cup {c}
    /\ Keeps /\ UNCHANGED <<step, tries, edges, lost, tokens, loopVars>>

\* The model may name a node that is not in the directory it was given.
EdgesArrive(c) ==
    /\ TaskAt(c, "call") /\ step = "edges" /\ TaskTo(c, "end")
    /\ \E e \in Edges : e \subseteq found \cup {Ghost} /\ edges' = [edges EXCEPT ![c] = e]
    /\ Keeps /\ UNCHANGED <<step, tries, found, lost, tokens, loopVars>>

\* The last attempt leaves a warning.
GivesUp(c) == lost \cup {<<step, c>>}

CallFails(c) ==
    /\ TaskAt(c, "call")
    /\ IF tries[c] + 1 < Attempts
       THEN TaskTo(c, "pause") /\ tries' = [tries EXCEPT ![c] = @ + 1] /\ UNCHANGED lost
       ELSE TaskTo(c, "end") /\ lost' = GivesUp(c) /\ UNCHANGED tries
    /\ Keeps /\ UNCHANGED <<step, found, edges, tokens, loopVars>>

Resumes(c) ==
    /\ TaskAt(c, "pause") /\ TaskTo(c, "call")
    /\ Keeps /\ UNCHANGED <<step, tries, found, edges, lost, tokens, loopVars>>

\* Both gathers wait for every task.
NodesGathered ==
    /\ step = "nodes" /\ task = All("end") /\ step' = IF found = {} THEN "fallback" ELSE "edges"
    /\ task' = All("limit") /\ tries' = All(0)
    /\ Keeps /\ UNCHANGED <<found, edges, lost, tokens, loopVars>>

\* merge_graphs: dangling edges go, then the nodes without an edge.
Valid == {e \in {edges[c] : c \in Parts} : e # {} /\ Ghost \notin e}
Survivors == UNION Valid
Pruned == (IF found # Survivors THEN {<<"zero_degree">>} ELSE {})
          \cup (IF \E c \in Parts : Ghost \in edges[c] THEN {<<"dangling">>} ELSE {})

\* _extract_chunked_two_phase saves the graph as a preview, with its warnings.
EdgesGathered ==
    /\ Moves("edges", "finalize") /\ task = All("end")
    /\ drawn' = [from |-> "chunks", nodes |-> Survivors]
    /\ record' = record \cup lost \cup Pruned
    /\ UNCHANGED <<route, verdict, chunkVars, loopVars>>

-----------------------------------------------------------------------------
\* ---- A short paper: run_extract_subgraph -------------------------------
\* repair_attempts is reset by a node pass that repairs nothing.
Count(level) == IF level = "nodes" THEN repairs ELSE 0

ExtractNodesNode ==
    /\ step = "nodes_node" /\ calls' = calls + 1
    /\ \/ step' = "edges_node" /\ repairs' = Count(error)
       \/ step' = "fallback" /\ UNCHANGED repairs
    /\ Keeps /\ UNCHANGED <<chunkVars, error>>

BuildEdgesNode ==
    /\ step = "edges_node" /\ step' \in {"validate", "fallback"}
    /\ Keeps /\ UNCHANGED <<chunkVars, loopVars>>

RouteAfterValidate == IF repairs + 1 > MaxRepairs THEN "exhausted" ELSE "nodes_node"

\* Every error that gets this far is a node-level one: an edge to a missing
\* node, a type of the other paradigm.
ValidateNode ==
    /\ step = "validate"
    /\ \/ /\ step' = "finalize" /\ drawn' = [from |-> "subgraph", nodes |-> Parts]
          /\ UNCHANGED <<repairs, error>>
       \/ /\ step' = RouteAfterValidate /\ repairs' = repairs + 1 /\ error' = "nodes"
          /\ UNCHANGED drawn
    /\ UNCHANGED <<route, record, verdict, chunkVars, calls>>

Heuristic == [from |-> "heuristic", nodes |-> Parts]
FallbackCodes == {<<"heuristic_fallback">>}

FallbackToHeuristicNode ==
    /\ Moves("exhausted", "finalize") /\ drawn' = Heuristic
    /\ record' = record \cup FallbackCodes
    /\ UNCHANGED <<route, verdict, chunkVars, loopVars>>

-----------------------------------------------------------------------------
\* ---- One call, and what happens to failures ----------------------------
\* extract_with_llm: the primary model, then the fallback model.
CallModel(from, otherwise) ==
    /\ step = from
    /\ \/ step' = "finalize" /\ drawn' = [from |-> "single", nodes |-> Parts]
       \/ step' = otherwise /\ UNCHANGED drawn
    /\ UNCHANGED <<route, record, verdict, chunkVars, loopVars>>

\* handle_extract_failure and _fallback_to_heuristic: the warnings are part of
\* the result, and extract_node records them; the background worker does not.
FallBack ==
    /\ step = "fallback"
    /\ IF HeuristicFallback \/ route = "off"
       THEN /\ step' = "finalize" /\ drawn' = Heuristic
            /\ record' = IF route = "background" THEN record ELSE record \cup FallbackCodes
       ELSE step' = "failed" /\ UNCHANGED <<drawn, record>>
    /\ UNCHANGED <<route, verdict, chunkVars, loopVars>>

-----------------------------------------------------------------------------
\* ---- complete_paper_pipeline: the quality gate -------------------------
\* The worker passes no warnings on, so that its heuristic graph is judged like
\* any other; a graph without edges passes.
Finalize ==
    /\ Moves("finalize", "done")
    /\ verdict' \in IF drawn = Heuristic /\ route # "background" THEN {"READY"}
                    ELSE IF drawn.nodes = {} THEN {"READY"}
                    ELSE {"READY", "READY_WITH_WARNINGS"}
    /\ record' = IF verdict' = "READY" THEN record ELSE record \cup {<<"low_confidence">>}
    /\ UNCHANGED <<route, drawn, chunkVars, loopVars>>

ExtractionNext ==
    \/ Mvp \/ Replenish \/ NodesGathered \/ EdgesGathered
    \/ \E c \in Parts :
          Acquire(c) \/ Enters(c) \/ NodesArrive(c) \/ EdgesArrive(c) \/ CallFails(c) \/ Resumes(c)
    \/ ExtractNodesNode \/ BuildEdgesNode \/ ValidateNode \/ FallbackToHeuristicNode
    \/ CallModel("primary", "second") \/ CallModel("second", "fallback")
    \/ FallBack \/ Finalize

ExtractionSpec == ExtractionInit /\ [][ExtractionNext]_extractionVars

-----------------------------------------------------------------------------
\* A graph put together from chunks that lacks what a chunk should have given
\* has a warning on the paper: for the call that was given up, or for the nodes
\* that no edge kept.
LossesReported ==
    step = "done" /\ drawn.from = "chunks" =>
        /\ \A c \in Parts \ found : <<"nodes", c>> \in record
        /\ drawn.nodes # found => <<"zero_degree">> \in record
        /\ \A c \in Parts : (edges[c] \cap {Ghost}) # {} => <<"dangling">> \in record
        /\ drawn.nodes = {} => \E w \in record : w # <<"mvp">>

\* The sub-graph asks for nodes once and once for every repair that is allowed.
RepairsEnd == calls <= MaxRepairs + 1 /\ repairs <= MaxRepairs + 1

\* Some step can be taken: what the steps require, and no more.
GoesOn ==
    \/ step \in {"mvp", "nodes_node", "edges_node", "validate", "exhausted", "primary",
                "second", "fallback", "finalize"}
    \/ InChunks /\ (tokens < Rpm \/ task = All("end"))
    \/ \E c \in Parts :
          MayAcquire(c) \/ MayEnter(c) \/ TaskAt(c, "call") \/ TaskAt(c, "pause")

\* Limiter, semaphore and gathers never leave the extraction waiting: it goes on
\* until it has a graph, or has failed because the fallback is switched off.
ExtractionAnswers ==
    \/ GoesOn
    \/ step = "done" /\ drawn.from # "nothing"
    \/ step = "failed" /\ ~HeuristicFallback

\* An extraction ends, after the repairs that are allowed, with a graph whose losses are
\* on the paper.
ExtractionEndsHonestly == LossesReported /\ RepairsEnd /\ ExtractionAnswers
=============================================================================
