--------------------------- MODULE EdgeExtraction ---------------------------
(***************************************************************************)
(* One pass of the two-stage extraction: the directory of nodes a chunk is *)
(* given, what the validators make of a model's nodes and edges, the       *)
(* evidence that is asked for once more, and the validator of the whole.   *)
(*                                                                         *)
(* A node is [id, type, label, span], an edge [id, source, target, type,   *)
(* label, rationale, span, confidence, flags]; a text counts for its       *)
(* length, 0 for none.  A list is [paradigm, nodes or edges, ids,          *)
(* warnings].                                                              *)
(***************************************************************************)
EXTENDS Integers, Sequences, FiniteSets, SequencesExt, FiniteSetsExt

CONSTANTS
    Screaming,        \* edge types in SCREAMING_SNAKE_CASE
    LabelMax,         \* MAX_NODE_LABEL_LENGTH, MAX_EDGE_LABEL_LENGTH
    SpanMax,          \* MAX_SOURCE_SPAN_LENGTH
    PatchBatch,       \* _PATCH_BATCH_SIZE
    MaskThreshold     \* _DEFAULT_MASK_NODE_THRESHOLD

Refused == [refused |-> TRUE]
Unreadable == 1000     \* an index that is no number

NodeTypes ==
    [STEM |-> {"ResearchQuestion", "Method", "Dataset", "Metric", "Baseline", "Experiment",
               "Claim", "Evidence", "Finding"},
     HSS |-> {"Thesis", "SubArgument", "AnalyticalLens", "IntellectualContext", "ObjectOrData",
              "Claim", "Evidence"}]

\* Every predefined type is in capitals, so both paradigms accept the same.
EdgeTypeOk(type) == type \in Screaming \ {"SUPPORTED_BY"}
Core == {"SUPPORTS", "CONTRADICTS", "EXPLAINS"}

-----------------------------------------------------------------------------
\* ---- The directory of nodes for one chunk ------------------------------
MaskKeywords == <<"experiments", "results", "methods", "theoretical framework", "analysis">>

Hidden ==
    [STEM |-> [experiments |-> {"ResearchQuestion"}, results |-> {"ResearchQuestion"},
               methods |-> {"ResearchQuestion", "Baseline", "Claim"}],
     HSS |-> ("theoretical framework" :> {"ObjectOrData"} @@ "analysis" :> {"IntellectualContext"})]

\* _chapter_keyword: the first that the title contains, whatever the paradigm.
ChapterKeywords(title) == SelectSeq(MaskKeywords, LAMBDA k : k \in title)

AllowedTypes(paradigm, keyword) ==
    IF keyword \in DOMAIN Hidden[paradigm] THEN NodeTypes[paradigm] \ Hidden[paradigm][keyword]
    ELSE NodeTypes[paradigm]

\* _filter_nodes_for_chunk
Directory(nodes, paradigm, title) ==
    IF Len(nodes) <= MaskThreshold \/ ChapterKeywords(title) = <<>> THEN nodes
    ELSE SelectSeq(nodes, LAMBDA n : n.type \in AllowedTypes(paradigm, ChapterKeywords(title)[1]))

-----------------------------------------------------------------------------
\* ---- What the validators make of the answers ---------------------------
CutTo(length, max) == IF length > max THEN max ELSE length
CutNode(n) == [n EXCEPT !.label = CutTo(@, LabelMax), !.span = CutTo(@, SpanMax)]
CutEdge(e) == [e EXCEPT !.label = CutTo(@, LabelMax), !.rationale = CutTo(@, SpanMax), !.span = CutTo(@, SpanMax)]

\* The context of the call collects them.
CutWarnings(before, after) == IF before = after THEN {} ELSE {"extract_field_truncated"}

\* inspect_core_edge_quality
Gap(e) == e.type \in Core /\ (e.rationale = 0 \/ e.span = 0)
Inspected(e) ==
    [e EXCEPT !.confidence = IF @ = "none" THEN "MEDIUM" ELSE @,
              !.flags = (IF e.confidence = "none" THEN {"confidence_missing"} ELSE {})
                        \cup (IF Gap(e) THEN {"incomplete"} ELSE {})]

NoTwice(list) == \A i, k \in DOMAIN list : list[i].id = list[k].id => i = k

\* _merge_context_warnings
MergedWarnings(own, context) == own \cup context

\* ExtractedNodeList
NodeList(raw) ==
    LET nodes == [i \in DOMAIN raw.nodes |-> CutNode(raw.nodes[i])]
    IN IF nodes = <<>> \/ ~NoTwice(nodes) \/ \E n \in Range(nodes) : n.label = 0 \/ n.type \notin NodeTypes[raw.paradigm]
       THEN Refused
       ELSE [paradigm |-> raw.paradigm, nodes |-> nodes,
             warnings |-> MergedWarnings({}, CutWarnings(raw.nodes, nodes))]

\* The first edge with an id stays.
FirstOfId(edges) ==
    FoldLeft(LAMBDA kept, e : IF \E k \in Range(kept) : k.id = e.id THEN kept ELSE Append(kept, e), <<>>, edges)

\* ExtractedEdgeList: the ids of the directory are those the model repeats, if any.
EdgeList(raw) ==
    LET cut == [i \in DOMAIN raw.edges |-> CutEdge(raw.edges[i])]
        edges == FirstOfId([i \in DOMAIN cut |-> Inspected(cut[i])])
        twice == IF Len(edges) < Len(cut) THEN {"DUPLICATE_EDGE_IDS_DEDUPLICATED"} ELSE {}
    IN IF \/ \E e \in Range(cut) : e.label = 0
          \/ \E e \in Range(edges) : ~EdgeTypeOk(e.type)
          \/ raw.ids # {} /\ \E e \in Range(edges) : ~{e.source, e.target} \subseteq raw.ids
       THEN Refused
       ELSE [paradigm |-> raw.paradigm, edges |-> edges, ids |-> raw.ids,
             warnings |-> MergedWarnings(twice, CutWarnings(raw.edges, cut))]

-----------------------------------------------------------------------------
\* ---- _patch_source_spans -----------------------------------------------
\* The places of the core edges without evidence; a call asks for PatchBatch of them.
Incomplete(edges) ==
    SetToSortSeq({i \in DOMAIN edges : edges[i].type \in Core /\ edges[i].span = 0}, <)

\* A batch that cannot be read is dropped from the place where reading failed.
Readable(answer) ==
    LET bad == {i \in DOMAIN answer : answer[i].index = Unreadable}
    IN IF bad = {} THEN answer ELSE SubSeq(answer, 1, Min(bad) - 1)

\* Mutant: an index counts from the first edge of all, not of its batch.
AskedForAll(edges, batch, index) == Incomplete(edges)[index + 1]

AskedFor(edges, batch, index) == Incomplete(edges)[(batch - 1) * PatchBatch + index + 1]

BatchSizeOf(edges, batch) == CutTo(Len(Incomplete(edges)) - (batch - 1) * PatchBatch, PatchBatch)

\* model_copy: no validator looks at the patched edge.
WithSpan(e, span) == [e EXCEPT !.span = span]

PatchBatchWith(edges, patched, batch, answer) ==
    FoldLeft(LAMBDA done, p :
        IF p.index \in 0..(BatchSizeOf(edges, batch) - 1) /\ p.span > 0
        THEN [done EXCEPT ![AskedFor(edges, batch, p.index)] =
                              WithSpan(edges[AskedFor(edges, batch, p.index)], p.span)]
        ELSE done, patched, Readable(answer))

\* One answer for each batch; a call that failed answers nothing.
PatchSpans(edges, answers) ==
    FoldLeft(LAMBDA patched, b : PatchBatchWith(edges, patched, b, answers[b]), edges,
             [b \in 1..((Len(Incomplete(edges)) + PatchBatch - 1) \div PatchBatch) |-> b])

\* build_edges_with_llm
BuildEdges(raw, answers) ==
    IF EdgeList(raw) = Refused THEN Refused
    ELSE [EdgeList(raw) EXCEPT !.edges = PatchSpans(@, answers)]

-----------------------------------------------------------------------------
\* ---- The graph of both lists: validate_node ----------------------------
\* The first error of ExtractedGraph, by what its message speaks of.
GraphError(nodes, edges, paradigm) ==
    LET ids == {n.id : n \in Range(nodes)}
    IN IF ~NoTwice(nodes) THEN "duplicate node ids"
       ELSE IF ~NoTwice(edges) THEN "duplicate edge ids"
       ELSE IF \E e \in Range(edges) : ~{e.source, e.target} \subseteq ids THEN "edge references missing node"
       ELSE IF \E n \in Range(nodes) : n.type \notin NodeTypes[paradigm] THEN "forbidden node types"
       ELSE IF \E e \in Range(edges) : ~EdgeTypeOk(e.type) THEN "forbidden edge types"
       ELSE "none"

\* classify_validation_error: a message that speaks of nodes is about nodes.
ErrorLevel(error) ==
    IF error \in {"duplicate node ids", "edge references missing node", "forbidden node types"}
    THEN "nodes" ELSE "edges"
=============================================================================
