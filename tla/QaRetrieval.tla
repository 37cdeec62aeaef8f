---------------------------- MODULE QaRetrieval ----------------------------
(***************************************************************************)
(* One question about a paper: the evidence is retrieved, the prompt is    *)
(* built, the answer is streamed and the chunks it cites are looked up,    *)
(* while a reextract takes the paper's index away and builds another.      *)
(* Every access to the row, the graph files and the collections is a step  *)
(* of its own; a retrieval may run into its timeout at any of them.        *)
(***************************************************************************)
EXTENDS Naturals, Sequences, FiniteSets

CONSTANTS
    OldRun, NewRun,    \* index runs: before and after the reextract
    Straggler,         \* a revoked run that has left something in the store
    NoIndex,           \* SQL NULL
    MaxQuestions,      \* bound
    MaxCites           \* bound: chunk citations of one answer

ASSUME QaRetrievalAssumption ==
    /\ NewRun \notin {OldRun, Straggler, NoIndex}
    /\ OldRun \notin {Straggler, NoIndex} /\ Straggler # NoIndex
    /\ MaxQuestions \in Nat /\ MaxCites \in Nat

Kinds == {"chunks", "entities", "relations"}
IndexRuns == {OldRun, NewRun, Straggler}
Scales == {"summary", "deep", "cross"}
Chunks == {"real", "made_up"}      \* chunk ids the model may cite

VARIABLES
    served,      \* active_rag_run_id
    rows,        \* what the collections hold: pairs of run and collection
    life,        \* how far the reextract has come
    row,         \* papers.status: "ready", "preview", "blind"
    disk, mem,   \* a graph file, a preview graph
    ask,         \* the question under way
    lru,         \* cache of chunk texts: run, chunk, whether it was found
    asked,       \* questions so far
    torn,        \* a purge gave up half way (auxiliary)
    seen,        \* runs that were active during the question (auxiliary)
    calm         \* nothing has changed since the question began (auxiliary)

paperVars == <<served, rows, life, row, disk, mem, torn>>
qaVars == <<served, rows, life, row, disk, mem, ask, lru, asked, torn, seen, calm>>

NoAnswer == [k \in Kinds |-> NoIndex]
Idle == [pc |-> "idle", scale |-> "deep", read |-> NoAnswer, got |-> NoAnswer,
         todo |-> {}, warning |-> "none", ready |-> FALSE, graph |-> FALSE,
         look |-> <<"real", NoIndex>>, sse |-> <<>>]

QaInit ==
    /\ \/ served = OldRun /\ row = "ready"
          /\ \E left \in {{}, Kinds} : rows = ({OldRun} \X Kinds) \cup ({Straggler} \X left)
       \/ served = NoIndex /\ row \in {"ready", "preview"}
          /\ \E left \in {{}, Kinds} : rows = {Straggler} \X left
    /\ life = "serving" /\ disk = (row = "ready") /\ mem = (row = "preview")
    /\ ask = Idle /\ lru = {} /\ asked = 0
    /\ torn = FALSE /\ seen = {} /\ calm = TRUE

-----------------------------------------------------------------------------
\* ---- The reextract beside the question ---------------------------------
Life(from, to) ==
    /\ life = from /\ life' = to /\ calm' = FALSE
    /\ UNCHANGED <<ask, lru, asked>>

\* delete_by_paper, one collection at a time; an outage may stop it.
PurgeKind(k) ==
    /\ Life("serving", "serving") /\ IndexRuns \X {k} \cap rows # {}
    /\ rows' = {e \in rows : e[2] # k} /\ torn' = (served # NoIndex)
    /\ UNCHANGED <<served, row, disk, mem, seen>>

UnsetServed ==
    /\ Life("serving", "unset") /\ rows = {}
    /\ served' = NoIndex /\ torn' = FALSE
    /\ UNCHANGED <<rows, row, disk, mem, seen>>

\* graph files and previews, then the rows
DropGraph ==
    /\ Life("unset", "dropped") /\ disk' = FALSE /\ mem' = FALSE
    /\ UNCHANGED <<served, rows, row, torn, seen>>

Requeue ==
    /\ Life("dropped", "queued") /\ row' = "blind"
    /\ UNCHANGED <<served, rows, disk, mem, torn, seen>>

\* the pipeline's skeleton, then the whole graph
OfferPreview ==
    /\ Life("queued", "preview") /\ row' = "preview" /\ mem' = TRUE
    /\ UNCHANGED <<served, rows, disk, torn, seen>>

SaveWhole ==
    /\ Life("preview", "saved") /\ disk' = TRUE
    /\ UNCHANGED <<served, rows, row, mem, torn, seen>>

\* replace_paper_index, and the promotion
Serve ==
    /\ Life("saved", "indexed")
    /\ \/ rows' = rows \cup ({NewRun} \X Kinds) /\ served' = NewRun /\ seen' = seen \cup {NewRun}
       \/ UNCHANGED <<rows, served, seen>>
    /\ UNCHANGED <<row, disk, mem, torn>>

MarkReady ==
    /\ Life("indexed", "ready") /\ row' = "ready"
    /\ UNCHANGED <<served, rows, disk, mem, torn, seen>>

-----------------------------------------------------------------------------
\* ---- build_retrieval_context_with_fallback -----------------------------
AskAt(pc) == ask.pc = pc
Still == UNCHANGED <<paperVars, asked, seen, calm>>
AskStep(pc) == ask' = [ask EXCEPT !.pc = pc]
Graph == disk \/ mem

\* The route has found the paper and its scale, and _load_graph_for_retrieval
\* its graph.
Ask(scale) ==
    /\ AskAt("idle") /\ asked < MaxQuestions
    /\ asked' = asked + 1 /\ calm' = TRUE /\ seen' = {served} \ {NoIndex}
    /\ ask' = [Idle EXCEPT !.scale = scale,
                 !.pc = IF row = "blind" \/ ~Graph \/ scale = "cross" THEN "context"
                        ELSE IF scale = "summary" THEN "context" ELSE "exists"]
    /\ UNCHANGED <<paperVars, lru>>

\* VectorStore.exists: with a paper service the answer is whether a run is
\* active, whatever the collections hold.
CheckIndex ==
    /\ AskAt("exists") /\ Still /\ UNCHANGED lru
    /\ ask' = IF served = NoIndex
              THEN [ask EXCEPT !.pc = "context", !.warning = "index_not_ready"]
              ELSE [ask EXCEPT !.pc = "query", !.todo = Kinds]

\* _query reads the pointer ...
QueryReads(k) ==
    /\ AskAt("query") /\ k \in ask.todo /\ ask.read[k] = NoIndex
    /\ ask' = IF served = NoIndex THEN [ask EXCEPT !.todo = @ \ {k}]
              ELSE [ask EXCEPT !.read[k] = served]
    /\ Still /\ UNCHANGED lru

\* _build_where
Where(r, k) == {e \in rows : e = <<r, k>>}

\* ... and asks the collection for the evidence of that run.
QueryFetches(k) ==
    /\ AskAt("query") /\ k \in ask.todo /\ ask.read[k] # NoIndex
    /\ LET found == {e[1] : e \in Where(ask.read[k], k)}
       IN \E r \in IF found = {} THEN {NoIndex} ELSE found :
             ask' = [ask EXCEPT !.todo = @ \ {k}, !.got[k] = r]
    /\ Still /\ UNCHANGED lru

Retrieved ==
    /\ AskAt("query") /\ ask.todo = {} /\ AskStep("context")
    /\ Still /\ UNCHANGED lru

\* Mutant: a retrieval that is given up is an empty one.
DegradedSilently(code) == [ask EXCEPT !.pc = "context", !.got = NoAnswer, !.todo = {}]

Degraded(code) ==
    [ask EXCEPT !.pc = "context", !.got = NoAnswer, !.todo = {}, !.warning = code]

\* VectorStoreUnavailableError from any access, or wait_for gives up: the
\* graph alone answers.
RetrievalFails ==
    /\ ask.pc \in {"exists", "query"}
    /\ ask' \in {Degraded("unavailable"), Degraded("timeout")}
    /\ Still /\ UNCHANGED lru

-----------------------------------------------------------------------------
\* ---- qa_stream ---------------------------------------------------------
Event(kind) == [sse |-> kind]
Sse(events) == [ask EXCEPT !.sse = @ \o events]
Ends(events) == ask' = [Sse(events) EXCEPT !.pc = "end"]

\* The warning goes first; build_chunk_preview_context looks at the index once.
BeginStream ==
    /\ AskAt("context")
    /\ LET first == IF ask.warning = "none" THEN <<>> ELSE <<Event("warning")>>
       IN ask' \in {[Sse(first) EXCEPT !.pc = "paper", !.ready = b] :
                      b \in {FALSE, served # NoIndex}}
    /\ Still /\ UNCHANGED lru

ReadPaper ==
    /\ AskAt("paper")
    /\ IF row = "blind" THEN Ends(<<Event("error"), Event("done")>>) ELSE AskStep("graph")
    /\ Still /\ UNCHANGED lru

LoadGraph ==
    /\ AskAt("graph")
    /\ IF Graph THEN ask' = [ask EXCEPT !.pc = "stream", !.graph = TRUE]
       ELSE Ends(<<Event("error"), Event("done")>>)
    /\ Still /\ UNCHANGED lru

Cites == Cardinality({i \in 1..Len(ask.sse) : ask.sse[i].sse = "citation"})

\* placeholder_state_for_miss
Miss == IF ask.warning \in {"timeout", "unavailable"} THEN "retrieval_timeout"
        ELSE IF ~ask.ready THEN "indexing" ELSE "hallucinated_id"

Cite(c, state, failed) ==
    [Sse(<<[sse |-> "citation", chunk |-> c, state |-> state, failed |-> failed]>>)
        EXCEPT !.pc = "stream"]

\* The model cites a chunk: first the texts of the context, ...
CiteChunk(c) ==
    /\ AskAt("stream") /\ Cites < MaxCites
    /\ ask' = IF c = "real" /\ ask.got["chunks"] # NoIndex THEN Cite(c, "ready", FALSE)
              ELSE IF served = NoIndex THEN Cite(c, Miss, FALSE)
              ELSE [ask EXCEPT !.pc = "look", !.look = <<c, served>>]
    /\ Still /\ UNCHANGED lru

\* ... then the cached text of the active run, or the collection; the lookup
\* has 200 ms.
LookUp ==
    /\ AskAt("look")
    /\ LET c == ask.look[1]
           r == ask.look[2]
           hit == {e \in lru : e[1] = r /\ e[2] = c}
           found == IF hit # {} THEN (CHOOSE e \in hit : TRUE)[3]
                    ELSE c = "real" /\ <<r, "chunks">> \in rows
           known == lru \cup {<<r, c, found>>}
       IN \/ ask' = Cite(c, IF found THEN "ready" ELSE Miss, FALSE) /\ lru' = known
          \/ ask' = Cite(c, "l2_timeout", TRUE) /\ lru' \in {lru, known}
          \/ ask' = Cite(c, Miss, TRUE) /\ UNCHANGED lru
    /\ Still

\* The finally block of stream().
Closing(failed) == IF failed THEN <<Event("error"), Event("done")>> ELSE <<Event("done")>>

EndStream ==
    /\ AskAt("stream") /\ \E failed \in BOOLEAN : Ends(Closing(failed))
    /\ Still /\ UNCHANGED lru

Answered == AskAt("end") /\ AskStep("idle") /\ Still /\ UNCHANGED lru

Asking ==
    \/ CheckIndex \/ Retrieved \/ RetrievalFails \/ BeginStream \/ ReadPaper
    \/ LoadGraph \/ LookUp \/ EndStream \/ Answered
    \/ \E k \in Kinds : QueryReads(k) \/ QueryFetches(k)

Reextracting ==
    \/ UnsetServed \/ DropGraph \/ Requeue \/ OfferPreview \/ SaveWhole
    \/ Serve \/ MarkReady \/ \E k \in Kinds : PurgeKind(k)

QaNext ==
    \/ Asking \/ Reextracting
    \/ \E s \in Scales : Ask(s)
    \/ \E c \in Chunks : CiteChunk(c)

QaSpec == QaInit /\ [][QaNext]_qaVars

-----------------------------------------------------------------------------
\* Evidence comes from a run that was active while the question was answered:
\* leftovers of other runs stay invisible.
NoGhostEvidence ==
    \A k \in Kinds : ask.got[k] # NoIndex => ask.got[k] \in seen

\* A question that nobody disturbed and that needs evidence has either all the
\* evidence of the active run or a warning, unless a purge stopped half way.
NoSilentDegradation ==
    AskAt("end") /\ calm /\ ask.scale = "deep" /\ ask.graph /\ ask.warning = "none" /\ ~torn
       => served # NoIndex /\ \A k \in Kinds : ask.got[k] = served

Citations == {e \in {ask.sse[i] : i \in 1..Len(ask.sse)} : e.sse = "citation"}

\* A chunk of the index is never called made up, and one the model made up is
\* never shown, while the index does not change and the look-up itself does not
\* fail; when the retrieval failed no chunk at all is called made up.
PreviewsTellTruth ==
    \A e \in Citations :
       /\ e.state = "ready" => e.chunk = "real"
       /\ calm /\ ~torn /\ e.state = "hallucinated_id" => e.chunk = "made_up" \/ e.failed
       /\ e.state = "hallucinated_id" => ask.warning \notin {"timeout", "unavailable"}

\* Every stream ends in exactly one done, and an error only precedes it.
OneLastEvent ==
    AskAt("end") =>
        /\ ask.sse # <<>> /\ ask.sse[Len(ask.sse)].sse = "done"
        /\ \A i \in 1..(Len(ask.sse) - 1) :
              /\ ask.sse[i].sse # "done"
              /\ ask.sse[i].sse = "error" => i = Len(ask.sse) - 1

\* A question beside a reextract: what it is answered from belongs to one run that was
\* active, what it lacks is told, and its stream ends once.
EvidenceTold ==
    NoGhostEvidence /\ NoSilentDegradation /\ PreviewsTellTruth /\ OneLastEvent
=============================================================================
