---------------------------- MODULE MCAlgorithms ----------------------------
(***************************************************************************)
(* The pure parts of the backend on every small input.  task is an input   *)
(* with the name of the part it is meant for, answer what the part makes   *)
(* of it.                                                                  *)
(***************************************************************************)
EXTENDS EdgeExtraction, GraphMerge, SemanticClustering, PatrolInsights, TextChunks, DocumentHead, QaBenchmark, QaQuestion,
        VectorEvidence, RegressionBaseline, GoldenSet

VARIABLES task, answer

NoneYet == <<>>
Out == answer[1]
Solved(part) == task.part = part /\ answer # NoneYet

-----------------------------------------------------------------------------
\* ---- The merge ---------------------------------------------------------
MCNormal == [l \in {"a", "A", "b", "garbled"} |-> IF l = "garbled" THEN "b" ELSE IF l = "A" THEN "a" ELSE l]
MCGarbled == {"garbled"}
Node(i, label, type, span) ==
    [id |-> i, label |-> label, type |-> type, span |-> span, confidence |-> span + 1]
\* Two chunks that may share nodes, a third node with a name of its own.
MergeChunks ==
    {<< <<Node(1, l1, t1, 0), Node(2, "b", t2, 1)>>, <<Node(1, l3, t3, 1), Node(2, l4, "Evidence", 0)>> >> :
        l1 \in {"a"}, t1 \in {"Claim", "Evidence"}, t2 \in {"Claim", "Metric"},
        l3 \in {"A", "b"}, t3 \in {"Claim", "Evidence"}, l4 \in {"garbled", "a"}}
Ends == {<<1, 1>>, <<1, 2>>, <<2, 1>>, <<2, 2>>}
MergeEdge(s, t, span) == [source |-> s, target |-> t, type |-> "SUPPORTS", label |-> "x", span |-> span]
MergeEdgeLists ==
    {<<>>} \cup {<<MergeEdge(s, t, 1)>> : s \in Ends, t \in Ends}
    \cup {<<MergeEdge(s, t, 0), MergeEdge(u, v, 1)>> : s \in Ends, t \in Ends \cup {<<9, 9>>}, u \in Ends, v \in Ends}
    \cup {<<MergeEdge(s, <<1, 1>>, 0), MergeEdge(<<1, 2>>, t, 1), MergeEdge(u, v, 0)>> : s \in Ends, t \in Ends, u \in Ends, v \in Ends}
MergeTasks == [part : {"merge"}, chunks : MergeChunks, edges : MergeEdgeLists]

SolveMerge ==
    /\ task.part = "merge"
    /\ answer' = <<MergeGraphs(task.chunks, task.edges)>>

\* A chunked extraction never ends in a graph that its validator refuses.
MergedGraphValid == Solved("merge") => MergeIsConsistent(Out)
\* The merge and its pruning lose no node and no evidence without a trace.
MergeKeepsEvidence ==
    Solved("merge") => MergeLosesNothing(task.chunks, task.edges, Out)
\* Folding is the only reason for a node without edges.
IsolatedMeansFolded == Solved("merge") => IsolatedHasFolded(Out)
\* The chunks are extracted concurrently; their order does not shape the graph.
ChunkOrderIrrelevant ==
    Solved("merge") => MergeIgnoresOrder(task.chunks, task.edges, Out)

\* The graph that is put together from the chunks of a long paper.
MergedGraphSound ==
    MergedGraphValid /\ MergeKeepsEvidence /\ IsolatedMeansFolded /\ ChunkOrderIrrelevant

-----------------------------------------------------------------------------
\* ---- Two-stage extraction ----------------------------------------------
XEdge(i, s, t, type, rationale, span, confidence) ==
    [id |-> i, source |-> s, target |-> t, type |-> type, label |-> 1, rationale |-> rationale,
     span |-> span, confidence |-> confidence, flags |-> {}]
XNode(i, type, span) == [id |-> i, type |-> type, label |-> 1, span |-> span]
\* Three edges, of which up to three lack their evidence; a batch takes two.
RawEdges ==
    {<<XEdge(1, 1, 2, ta, r, 0, "none"), XEdge(b, 2, 1, tb, 1, s, "LOW"), XEdge(3, 1, x, "EXPLAINS", r, 0, "HIGH")>> :
        ta \in {"SUPPORTS", "PRODUCES"}, b \in {1, 2}, tb \in {"SUPPORTS", "bad"}, s \in {0, 1, SpanMax + 1}, r \in {0, 1}, x \in {2, 7}}
\* The span tells which batch and which index it was an answer for.
AnswerTo(b) ==
    UNION {[1..n -> {[index |-> 0, span |-> 10 * b], [index |-> 1, span |-> 10 * b + 1], [index |-> 1, span |-> 0],
                     [index |-> 2, span |-> 10 * b + 2], [index |-> Unreadable, span |-> 1]}] : n \in 0..2}
SpanTasks ==
    [part : {"spans"}, raw : [paradigm : {"STEM"}, edges : RawEdges, ids : {{}, {1, 2}}],
     answers : {<<a, b>> : a \in AnswerTo(1), b \in {<<>>, <<[index |-> 0, span |-> 20]>>}}]
SolveSpans ==
    /\ task.part = "spans"
    /\ answer' = <<BuildEdges(task.raw, task.answers)>>

\* Evidence that is asked for again lands on the edge whose rationale was shown, an
\* unreadable answer costs only what follows it in its batch, and no other edge changes.
EvidenceLandsRight ==
    Solved("spans") /\ Out # Refused =>
       LET before == EdgeList(task.raw).edges
           missing == Incomplete(before)
       IN /\ \A i \in DOMAIN before : i \notin Range(missing) => Out.edges[i] = before[i]
          /\ \A k \in DOMAIN missing :
                LET b == (k + 1) \div 2
                    tag == 10 * b + ((k + 1) % 2)
                    told == {a.span : a \in Range(task.answers[b])}
                IN /\ Out.edges[missing[k]].span \in {0, tag}
                   /\ tag \in told /\ 1 \notin told => Out.edges[missing[k]].span = tag
\* Whatever was patched: an argument without its rationale or evidence says so.
GapsAreFlagged ==
    Solved("spans") /\ Out # Refused =>
       \A e \in Range(Out.edges) : Gap(e) => "incomplete" \in e.flags
\* A dropped duplicate and a shortened text are both told.
EdgeLossesTold ==
    Solved("spans") /\ Out # Refused =>
       /\ Len(Out.edges) < Len(task.raw.edges) => "DUPLICATE_EDGE_IDS_DEDUPLICATED" \in Out.warnings
       /\ (\E e \in Range(task.raw.edges) : e.span > SpanMax) => "extract_field_truncated" \in Out.warnings

ListTasks ==
    [part : {"lists"}, paradigm : {"STEM", "HSS"},
     nodes : [paradigm : {"STEM", "HSS"},
              nodes : {<<>>} \cup {<<XNode(1, t1, 1), XNode(b, t2, SpanMax + 1)>> : b \in {1, 2}, t1 \in {"Claim", "Thesis"}, t2 \in {"Method", "Evidence"}}],
     edges : [paradigm : {"STEM", "HSS"}, ids : {{}, {1, 2}, {1, 2, 7}},
              edges : {<<XEdge(1, s, t, "SUPPORTS", 1, 1, "LOW"), XEdge(b, t, s, y, 1, 1, "LOW")>> :
                          s \in {1, 7}, t \in {2, 7}, b \in {1, 2}, y \in {"PRODUCES", "SUPPORTED_BY"}}]]
SolveLists ==
    /\ task.part = "lists"
    /\ answer' = <<IF NodeList(task.nodes) = Refused \/ EdgeList(task.edges) = Refused THEN "refused"
                   ELSE GraphError(NodeList(task.nodes).nodes, EdgeList(task.edges).edges, task.paradigm)>>

\* Lists that the two stages accept, for the paper's paradigm and for the ids of its
\* nodes, make a graph the last validator accepts.
AcceptedListsFit ==
    Solved("lists") /\ Out # "refused" /\ task.nodes.paradigm = task.paradigm
    /\ task.edges.ids = {n.id : n \in Range(task.nodes.nodes)} => Out = "none"
\* What gets as far as the last validator and fails there is repaired from the nodes on.
RepairsStartAtNodes ==
    Solved("lists") /\ Out \notin {"refused", "none"} => ErrorLevel(Out) = "nodes"

ManyNodes(paradigm) ==
    FoldSet(LAMBDA t, nodes : Append(nodes, XNode(Len(nodes) + 1, t, 0)), <<>>, NodeTypes[paradigm])
DirectoryTasks ==
    [part : {"directory"}, paradigm : {"STEM", "HSS"}, title : SUBSET Range(MaskKeywords), few : BOOLEAN]
SolveDirectory ==
    /\ task.part = "directory"
    /\ answer' = <<Directory(IF task.few THEN SubSeq(ManyNodes(task.paradigm), 1, MaskThreshold) ELSE ManyNodes(task.paradigm),
                             task.paradigm, task.title)>>
\* However a chapter is called, the nodes that carry the paper stay in the directory its
\* edges are made from.
BackboneOffered ==
    Solved("directory") /\ ~task.few =>
       IF task.paradigm = "STEM" THEN {"Method", "Experiment", "Evidence", "Finding"} \subseteq {n.type : n \in Range(Out)}
       ELSE {"Thesis", "SubArgument", "AnalyticalLens", "Claim", "Evidence"} \subseteq {n.type : n \in Range(Out)}

\* The two stages and their repairs: what a model said about an edge stays with that edge,
\* what it left out is told, and the last validator meets no surprise.
EdgesKeepTheirEvidence ==
    /\ EvidenceLandsRight /\ GapsAreFlagged /\ EdgeLossesTold
    /\ AcceptedListsFit /\ RepairsStartAtNodes /\ BackboneOffered

-----------------------------------------------------------------------------
\* ---- Semantic clustering ------------------------------------------------
\* Three claims of different weight and a leaf of another type.
SNode(i, type, confidence, folded) ==
    [id |-> i, type |-> type, confidence |-> confidence, span |-> i % 3, description |-> {i},
     folded |-> folded, aliases |-> {i}]
SNodes == {SNode(1, "Claim", 1, {}), SNode(2, "Claim", 1, {21}), SNode(3, "Claim", 2, {31}), SNode(4, "Method", 1, {})}
SEdge(s, t, label, span) ==
    [source |-> s, target |-> t, type |-> "SUPPORTS", label |-> label, span |-> span, rationale |-> (s + t + span) % 2]
SEdgeLists ==
    {<<>>} \cup {<<SEdge(a, b, "x", 1)>> : a \in 1..4, b \in 1..4}
    \cup {<<SEdge(a, b, "x", 1), SEdge(c, 4, l, 2)>> : a \in 1..2, b \in 1..3, c \in 1..3, l \in {"x", "y"}}
Closeness ==
    {[p \in {{a, b} : a \in 1..4, b \in 1..4} |->
        IF 4 \in p THEN (IF 1 \in p THEN f[4] ELSE IF 2 \in p THEN 1 ELSE f[5])
        ELSE IF 3 \notin p THEN f[1] ELSE IF 1 \in p THEN f[2] ELSE f[3]] : f \in [1..5 -> 0..2]}
ClusterTasks ==
    [part : {"cluster"}, graph : {[nodes |-> SNodes, edges |-> e] : e \in SEdgeLists},
     world : {[sim |-> c, coarse |-> [t \in {"Claim", "Method"} |-> 1], knn |-> k, embeddings |-> "up",
               reranker |-> r, same |-> {{1, 2}, {2, 3}}] : c \in Closeness, k \in {1, 2}, r \in {"on", "off"}}]
    \cup [part : {"cluster"}, graph : {[nodes |-> SNodes, edges |-> <<SEdge(1, 2, "x", 1)>>]},
          world : {[sim |-> [p \in {{a, b} : a \in 1..4, b \in 1..4} |-> 2], coarse |-> [t \in {"Claim", "Method"} |-> 1],
                    knn |-> 1, embeddings |-> x, reranker |-> r, same |-> {}] : x \in {"up", "down"}, r \in {"on", "off", "down"}}]

SolveCluster ==
    /\ task.part = "cluster"
    /\ \E g \in Clustered(task.graph, task.world) : answer' = <<g>>

\* The second pass leaves a graph that the validator it skips would accept.
ClusteredGraphValid ==
    Solved("cluster") =>
       /\ Consistent(Out)
       /\ \A i, k \in DOMAIN Out.edges : EdgeKey(Out.edges[i]) = EdgeKey(Out.edges[k]) => i = k
\* Merging synonyms loses no node, no folded leaf and no relation between others.
SynonymsKeepEvidence == Solved("cluster") => ClusteringLosesNothing(task.graph, task.world, Out)
\* Merging never cuts the graph, and bridges never tie what is tied already.
BridgesOnlyJoin == Solved("cluster") => TiesStay(task.graph, Out)

\* The graph after its synonyms were merged and its islands tied.
ClusteredGraphSound == ClusteredGraphValid /\ SynonymsKeepEvidence /\ BridgesOnlyJoin

-----------------------------------------------------------------------------
\* ---- Patrol insights ---------------------------------------------------
MCLower == [l \in {"q", "Q", "s", "t"} |-> IF l = "Q" THEN "q" ELSE l]
MCLabelSize == [l \in DOMAIN MCLower |-> IF l = "s" THEN 2 ELSE 1]
LabelPairs == {{a, b} : a \in DOMAIN MCLower, b \in DOMAIN MCLower}
PNode(i, type, label, rich) == [id |-> i, type |-> type, label |-> label, rich |-> rich]
Paper(paradigm, nodes, edges) == [paradigm |-> paradigm, nodes |-> nodes, edges |-> edges]
\* Two labels are as close as given, and a label to its own spelling most.
CloseTo(f) == [p \in LabelPairs |-> IF p \subseteq {"q", "Q"} \/ Cardinality(p) = 1 THEN 3 ELSE f[p]]
World(close, rerank, reranker, embeds, chunks) ==
    [close |-> close, rerank |-> rerank, reranker |-> reranker, embeds |-> embeds, chunks |-> chunks]
Plain == World(CloseTo([p \in LabelPairs |-> 0]), [p \in LabelPairs |-> 0], "off", "mock", FALSE)

\* Lenses, or theses with and without sub-arguments.
ThesisPapers(type) ==
    {Paper("HSS", a \o b \o c, e) :
        a \in {<<>>, <<PNode(1, type, "q", FALSE)>>}, b \in {<<>>, <<PNode(2, type, "s", TRUE)>>, <<PNode(2, type, "t", FALSE)>>},
        c \in {<<>>, <<PNode(3, "SubArgument", "t", FALSE)>>}, e \in {{}, {<<2, 3>>}}}
VerdictTasks ==
    [part : {"patrol"}, mode : {"lens_clash"}, left : ThesisPapers("AnalyticalLens"), right : ThesisPapers("AnalyticalLens"), world : {Plain}]
    \cup [part : {"patrol"}, mode : {"contradiction"}, left : ThesisPapers("Thesis"), right : ThesisPapers("Thesis"), world : {Plain}]

\* Up to two methods beside a dataset and a question.
MethodPapers ==
    {Paper(p, m \o <<PNode(3, "Dataset", d, FALSE), PNode(4, "ResearchQuestion", r, FALSE)>>, e) :
        p \in {"STEM", "HSS"}, m \in {<<>>, <<PNode(1, "Method", "q", FALSE)>>, <<PNode(1, "Method", "s", FALSE), PNode(2, "Method", "Q", FALSE)>>,
                 <<PNode(1, "Method", "t", FALSE), PNode(2, "Method", "s", FALSE)>>, <<PNode(1, "Method", "q", FALSE), PNode(2, "Method", "Q", FALSE)>>},
        d \in {"q", "t"}, r \in {"s", "Q"}, e \in {{}, {<<1, 3>>}, {<<2, 4>>, <<4, 1>>}}}
OverlapTasks ==
    [part : {"patrol"}, mode : {"method_overlap"}, left : MethodPapers, right : MethodPapers,
     world : {World(CloseTo([p \in LabelPairs |-> IF p = {"q", "s"} THEN x ELSE 1]), [p \in LabelPairs |-> 0], "off", e, FALSE) :
                x \in {1, 2}, e \in {"live", "mock"}}]

\* One or two questions on each side, in every relation of closeness.
QuestionPapers(labels, claim) ==
    {Paper("STEM", SubSeq(<<PNode(1, "ResearchQuestion", labels[1], FALSE), PNode(2, "Thesis", labels[2], FALSE)>>, i, n)
                    \o IF claim THEN <<PNode(3, "Claim", "q", FALSE)>> ELSE <<>>, {}) :
        i \in 1..2, n \in 1..2}
Scored(a, b, c, d) ==
    [p \in LabelPairs |-> IF p = {"q", "s"} THEN a ELSE IF p = {"q", "t"} THEN b
                          ELSE IF p = {"Q", "s"} THEN c ELSE d]
ClaimTasks ==
    [part : {"patrol"}, mode : {"claim_evolution"},
     left : QuestionPapers(<<"q", "Q">>, TRUE), right : QuestionPapers(<<"s", "t">>, TRUE),
     world : {World(CloseTo(Scored(x[1], x[2], x[3], x[4])), CloseTo(Scored(y[1], y[2], y[3], y[4])), m, "live", TRUE) :
                x \in [1..4 -> 0..3], y \in {<<0, 0, 0, 0>>, <<1, 0, 2, 0>>, <<0, 1, 1, 2>>, <<2, 1, 0, 1>>}, m \in {"on", "off"}}]
    \cup [part : {"patrol"}, mode : {"claim_evolution"},
          left : QuestionPapers(<<"q", "s">>, FALSE), right : QuestionPapers(<<"Q", "t">>, FALSE) \cup QuestionPapers(<<"Q", "t">>, TRUE),
          world : {World(CloseTo(Scored(2, 1, 2, 1)), CloseTo(Scored(1, 2, 1, 1)), m, e, b) :
                     m \in {"on", "broken"}, e \in {"live", "mock", "broken"}, b \in BOOLEAN}]
PatrolTasks == VerdictTasks \cup OverlapTasks \cup ClaimTasks

SolvePatrol ==
    /\ task.part = "patrol"
    /\ answer' = <<Insights(task.mode, task.left, task.right, task.world)>>

\* Whatever a patrol concludes is anchored in both papers, and it never excludes
\* without a reason.
InsightsWellFounded ==
    Solved("patrol") => \A i \in Out : WellFounded(i)

\* The verdict does not depend on which of the two papers is named first (the cache
\* of reports sorts them).
PatrolSymmetric ==
    Solved("patrol") /\ (task.mode = "claim_evolution" => Untied(task.left, task.right, task.world)) =>
       {Verdict(i) : i \in Insights(task.mode, task.right, task.left, task.world)}
          = {Verdict(i) : i \in Out}

\* No overlap in names is missed, and every node that bears the name is shown.
SharedNamesShown ==
    Solved("patrol") /\ task.mode = "method_overlap" =>
       \A i \in Out : OverlapsFound(task.left, task.right, i)

\* With a reranker and a shortlist that is long enough, a paper that asks one more
\* question is not compared with fewer papers.
MoreQuestionsNeverHurt ==
    LET l == task.left
        r == task.right
    IN Solved("patrol") /\ task.mode = "claim_evolution"
       /\ task.world.reranker = "on" /\ task.world.embeds = "live"
       /\ Len(Typed(l, {"ResearchQuestion", "Thesis"})) * Len(Typed(r, {"ResearchQuestion", "Thesis"})) <= Shortlist
       /\ Len(r.nodes) = 3 /\ r.nodes[3].type = "Claim" =>
          LET fewer == [r EXCEPT !.nodes = <<@[1], @[3]>>]
          IN (\E i \in ClaimEvolution(l, fewer, task.world) : i.status = "ready")
                => \E i \in Out : i.status = "ready"

\* What a patrol concludes from two graphs.
InsightsStand ==
    InsightsWellFounded /\ PatrolSymmetric /\ SharedNamesShown /\ MoreQuestionsNeverHurt

-----------------------------------------------------------------------------
\* ---- Chunks ------------------------------------------------------------
IndexOptions ==
    {[size |-> 3, overlap |-> 1, window |-> 1, min |-> 0, refs |-> FALSE],
     [size |-> 3, overlap |-> 2, window |-> 1, min |-> 2, refs |-> FALSE],
     [size |-> 4, overlap |-> 2, window |-> 2, min |-> 0, refs |-> FALSE],
     [size |-> 5, overlap |-> 1, window |-> 1, min |-> 0, refs |-> FALSE],
     [size |-> 4, overlap |-> 1, window |-> 1, min |-> 2, refs |-> TRUE]}
Texts == UNION {[1..n -> {"a", "/", ".", "M", "R"}] : n \in 1..6}
IndexTasks == [part : {"index"}, text : Texts, opt : IndexOptions, breaks : {<<3, 5>>}]

SolveIndex ==
    /\ task.part = "index"
    /\ answer' = <<IndexChunks(task.text, task.opt)>>

\* The 20 percent of overlap are there so that nothing falls between two slices.
IndexCoversText ==
    Solved("index") => Covers(task.text, task.opt, Out)

\* With an overlap of half a slice or more every letter is in the index.
LargeOverlapCovers ==
    Solved("index") /\ 2 * task.opt.overlap >= task.opt.size => Covers(task.text, task.opt, Out)

\* The slices are a citation's way back into the text.
SlicesInOrder ==
    Solved("index") /\ 2 * task.opt.overlap <= task.opt.size =>
       SlicesWellFormed(task.text, task.opt, Out, task.breaks)

Paragraphs == UNION {[1..n -> {1, 2, 5}] : n \in 1..2}
Sections1 == UNION {[1..n -> Paragraphs] : n \in 1..2}
ExtractTasks ==
    [part : {"pieces"}, sections : {<<>>} \cup {<<a>> : a \in Sections1} \cup {<<a, <<p>>>> : a \in Sections1, p \in Paragraphs},
     opt : {[max |-> m, overlap |-> o, least |-> 2, min |-> n] : m \in {4}, o \in {0, 1, 3}, n \in {0, 2}}]

SolvePieces ==
    /\ task.part = "pieces"
    /\ answer' = <<ExtractChunks(task.sections, task.opt)>>

\* An extraction reads every sentence, and only what it must makes a call longer
\* than the limit.
ExtractionReadsAll == Solved("pieces") => ReadsAllOnce(task.sections, Out)
PiecesWithinLimit == Solved("pieces") => PiecesFit(task.opt, Out)

\* Both ways of cutting a text: nothing is left out, nothing is too long.
ChunksReadAll ==
    LargeOverlapCovers /\ SlicesInOrder /\ ExtractionReadsAll /\ PiecesWithinLimit

-----------------------------------------------------------------------------
\* ---- The head of a document ---------------------------------------------
MCSizeOf == [f \in Fields |-> CASE f = "intro" -> 4 [] f = "abstract" -> 2 [] f = "conclusion" -> 2 [] OTHER -> 1]
FieldSets == {{}, {"title"}, {"abstract", "keywords"}, {"title", "abstract", "intro"}, {"conclusion", "meta"}, Fields}
HeadTasks ==
    [part : {"head"}, route : {"auto", "pymupdf_only"}, short : BOOLEAN, mineru : BOOLEAN,
     path : {"ok", "down", "garbled"}, b : FieldSets, front : FieldSets \cup {{"unreadable"}},
     tail : {{}, {"conclusion"}, {"conclusion", "meta"}}, llm : {{"off"}, {"fails"}, {}, {"abstract", "intro"}, Fields}]
Outcomes == {"ok", "bad"}
ClassifyTasks ==
    [part : {"classify"}, enabled : BOOLEAN, twophase : BOOLEAN, core : BOOLEAN, spare : BOOLEAN, lenient : BOOLEAN,
     profile : Outcomes, interrogation : Outcomes, judge : [{"primary", "primaryAgain", "fallback"} -> Outcomes],
     verdict : {"STEM"}, stem : 0..2, hss : 0..1]

SolveHead ==
    /\ task.part = "head"
    /\ answer' = <<RefineHead(task)>>
SolveClassify ==
    /\ task.part = "classify"
    /\ answer' = <<Classify(task)>>

\* A head never loses what one of the two paths found because the other path or the
\* model failed, and the loss of a path is told.
HeadKeepsFindings == Solved("head") => HeadIsComplete(task, Out)

\* The conclusion tells the paradigms apart; the limit of the input must not eat it.
ConclusionSurvives == Solved("head") => ConclusionKept(task, Out)

\* The parser of classifier inputs reads what the formatter writes.
InputReadsBack == Solved("head") => ReadsBack(Out.head)

\* A single failed judgement does not turn a paper over to the keywords.
OneFailureForgiven == Solved("classify") => JudgeForgives(task, Out)

\* What the classifier gets to see of a paper, and what becomes of its judgement.
ClassifierSeesHead ==
    HeadKeepsFindings /\ ConclusionSurvives /\ InputReadsBack /\ OneFailureForgiven

-----------------------------------------------------------------------------
\* ---- The golden set ----------------------------------------------------
Tokens == {"w", "15%", "15.1%", "5%", "ResNet", "ResNet-50"}
MCInside == [t \in Tokens |-> {t} \cup IF t = "15%" THEN {"5%"} ELSE IF t = "ResNet-50" THEN {"ResNet"} ELSE {}]
MCValueOf == [t \in {"15%", "15.1%", "5%"} |-> CASE t = "15%" -> 150 [] t = "15.1%" -> 151 [] OTHER -> 50]

Gold(required, forbidden, numbers, datasets, chunks) ==
    [required |-> required, forbidden |-> forbidden, numbers |-> numbers, datasets |-> datasets,
     nodes |-> {1}, edges |-> {1}, chunks |-> chunks, rel |-> 1]
Golds ==
    {Gold({"15%", "ResNet"}, {}, {}, {}, {<<"p", 1>>, <<"p", 2>>}),
     Gold({"w"}, {"ResNet"}, {}, {}, {}),
     Gold({"w"}, {"5%"}, {[value |-> 160, abs |-> 10, rel |-> 0]}, {"ResNet-50"}, {<<"p", 1>>, <<"q", 1>>, <<"q", 2>>})}
Says(says, markers) == [event |-> "message", says |-> says, markers |-> markers]
Cites(chunks) == [event |-> "citation", nodes |-> {1}, edges |-> {}, chunks |-> chunks]
Breaks == [event |-> "error"]
Streams ==
    {<<Says(a, m), Cites(c)>> \o z :
        a \in {{}, {"w"}, {"15%", "ResNet"}, {"w", "15.1%", "ResNet-50"}, {"w", "ResNet-50"}}, m \in {{}, {<<"", 2>>}},
        c \in {{}, {<<"", 1>>}, {<<"p", 1>>, <<"x", 2>>}}, z \in {<<>>, <<Breaks>>, <<Says({"w"}, {})>>}}
Raw(form, labels, detected) == [form |-> form, labels |-> labels, detected |-> detected]
Micro(label) == Raw("micro", <<"supported", label>>, FALSE)
Nth(raw) == <<raw, raw, raw>>
Judges ==
    {Nth(Micro("supported")), Nth(Micro("hallucinated")), Nth(Micro("?")), Nth(Raw("micro", <<"hallucinated", "?">>, FALSE)), Nth(Raw("transient", <<>>, FALSE)), Nth(Raw("fatal", <<>>, FALSE)),
     Nth(Raw("full", <<"supported", "hallucinated">>, FALSE)), Nth(Raw("full", <<"redundant", "?">>, FALSE)), Nth(Raw("full", <<"supported">>, TRUE)),
     <<Raw("transient", <<>>, FALSE), Raw("transient", <<>>, FALSE), Micro("hallucinated")>>,
     <<Raw("transient", <<>>, FALSE), Raw("fatal", <<>>, FALSE), Micro("hallucinated")>>}
Questions ==
    [scale : {"detail", "summary"}, paradigm : {"STEM", "HSS"}, gold : Golds, events : Streams, judge : Judges]
Well == [scale |-> "detail", paradigm |-> "HSS", gold |-> Gold({"w"}, {}, {}, {}, {<<"p", 1>>}),
         events |-> <<Says({"w"}, {}), Cites({<<"p", 1>>})>>, judge |-> Nth(Micro("supported"))]
Missing == [Well EXCEPT !.events = <<Says({"w"}, {})>>, !.judge = Nth(Micro("redundant"))]
Envs == [strict : BOOLEAN, dry : BOOLEAN, mock : BOOLEAN]
BenchTasks ==
    [part : {"bench"}, questions : {<<q>> : q \in Questions}, env : {[strict |-> FALSE, dry |-> FALSE, mock |-> FALSE], [strict |-> TRUE, dry |-> FALSE, mock |-> TRUE]}]
    \cup [part : {"bench"}, questions : {<<w, [q EXCEPT !.judge = j]>> : w \in {Well, Missing}, q \in {x \in Questions : x.judge = Nth(Micro("?"))},
                                          j \in {Nth(Micro("supported")), Nth(Micro("hallucinated"))}}, env : Envs]

SolveBench ==
    /\ task.part = "bench"
    /\ answer' = <<ExitCode(task.questions, task.env)>>

\* A green regression means that no answer holds a forbidden pattern, misses a number
\* or has a sentence that its judge, in a verdict that can be read, called hallucinated.
GreenMeansClean ==
    Solved("bench") /\ ~task.env.dry /\ Out = "success" =>
       \A i \in DOMAIN task.questions : Clean(task.questions[i], LastWord(task.questions[i]))

\* What passes the gate of a release passes every other gate.
StrictNeverWeaker ==
    Solved("bench") /\ task.env.strict /\ Out = "success" =>
       ExitCode(task.questions, [task.env EXCEPT !.strict = FALSE]) = "success"

\* A gold chunk is credited to a citation that can mean no other.
CreditUnambiguous ==
    Solved("bench") =>
       \A i \in DOMAIN task.questions :
          LET q == task.questions[i]
              a == Collected(q.events).answer
          IN \A x \in ChunksHit(q.gold, a) :
                \E c \in a.chunks \cup a.markers :
                   c = x \/ (c[2] = x[2] /\ \A y \in q.gold.chunks : y[2] = x[2] => y = x)

\* What counts as a success was answered, judged and says what the gold set requires.
SuccessIsEarned ==
    Solved("bench") /\ ~task.env.dry =>
       LET results == Results(task.questions, task.env)
       IN \A i \in Successes(results) :
             /\ results[i].asked
             /\ LastWord(task.questions[i]).form \in {"micro", "full"}
             /\ task.questions[i].gold.required \subseteq Text(results[i].answer)

SnapshotTasks ==
    [part : {"snapshot"}, root : {"none", "p", "q"}, default : {"none", "d"}, first : {"none", "a"},
     recordings : UNION {[1..n -> {"p", "q"} \X {"m1", "m2"}] : n \in 0..3}, prompt : {"p", "q"}]
\* The file of snapshots after what was recorded.
Committed(t) ==
    [root |-> t.root, default |-> t.default, entries |-> [p \in IF t.first = "none" THEN {} ELSE {"p"} |-> t.first]]
Snapshots(t) == FoldLeft(LAMBDA f, r : Recorded(f, r[1], r[2]), Committed(t), t.recordings)

SolveSnapshot ==
    /\ task.part = "snapshot"
    /\ answer' = <<Replayed(Snapshots(task), task.prompt)>>

\* A replay returns what was recorded last for this very prompt or the default that is
\* meant for it; a contract for another prompt is reported and never judged live.
ReplayFaithful(t, reply) ==
    LET mine == {i \in DOMAIN t.recordings : t.recordings[i][1] = t.prompt}
        root == IF t.recordings = <<>> THEN t.root ELSE Last(t.recordings)[1]
    IN /\ root \notin {"none", t.prompt} => reply = Drift
       /\ root = t.prompt /\ mine # {} => reply = t.recordings[Max(mine)][2]
       /\ reply \in {"m1", "m2"} => mine # {}
       /\ reply = "a" => t.prompt = "p"
       /\ reply = Live => t.default = "none"
\* The same of every snapshot file and replay.
SnapshotsFaithful == Solved("snapshot") => ReplayFaithful(task, Out)

-----------------------------------------------------------------------------
\* ---- From the question to the prompt ------------------------------------
MCFolded == [i \in {"own", "OWN", "other"} |-> IF i = "OWN" THEN "own" ELSE i]
RouteTasks ==
    [part : {"route"}, q : [words : {w \in SUBSET WordKinds : Cardinality(w) <= 3}, ids : {{}, {"own"}, {"OWN"}, {"own", "other"}}],
     paradigm : {"STEM", "HSS"}, own : {"none", "own"}]

SolveRoute ==
    /\ task.part = "route"
    /\ answer' = <<ScaleOf(task.q, task.paradigm, task.own)>>

\* The door of the route knows no paradigm, the retrieval does: both send a question to
\* the patrol or neither, and knowing more never takes the passages away.
DoorAgreesWithRetrieval ==
    Solved("route") =>
       LET door == ScaleOf(task.q, "none", task.own)
       IN /\ (door = "cross_paper") = (Out = "cross_paper")
          /\ AsksVectors(door) => AsksVectors(Out)

\* Who names the paper on the screen, in whatever case, asks about this paper.
OwnPaperIsNoComparison ==
    Solved("route") /\ task.own = "own" /\ task.q.ids \subseteq {"own", "OWN"} /\ "cross" \notin task.q.words =>
       Out # "cross_paper"

ContextEdges == {<<"a", 1, 2>>, <<"b", 2, 3>>, <<"c", 4, 3>>, <<"d", 5, 4>>, <<"e", 1, 1>>}
ContextGraphs ==
    {[paradigm |-> p, edges |-> e,
      nodes |-> {[id |-> 1, type |-> "Thesis", words |-> w1], [id |-> 2, type |-> "SubArgument", words |-> {}],
                 [id |-> 3, type |-> "Claim", words |-> w3], [id |-> 4, type |-> "Evidence", words |-> {}],
                 [id |-> 5, type |-> "Method", words |-> w5]}] :
        p \in {"STEM", "HSS"}, e \in SUBSET ContextEdges, w1 \in {{}, {"k"}}, w3 \in {{}, {"l"}}, w5 \in {{}, {"k"}}}
ContextTasks ==
    [part : {"context"}, graph : ContextGraphs, keywords : {{"k"}, {"l"}, {"m"}}, lost : SUBSET {"nodes", "edges"}]
\* What the retrieval brought, with a half lost on the way.
Brought(t) ==
    LET sub == SubgraphFor(t.graph, t.keywords)
    IN [nodes |-> IF "nodes" \in t.lost THEN {} ELSE sub.nodes, edges |-> IF "edges" \in t.lost THEN {} ELSE sub.edges]

SolveContext ==
    /\ task.part = "context"
    /\ answer' = <<PromptSubgraph(task.graph, task.keywords, Brought(task))>>

\* The prompt never speaks of a relation between nodes it does not show, and shows all
\* that is within two steps of what the question names.
PromptGraphClosed ==
    Solved("context") =>
       LET seeds == Seeds(task.graph, task.keywords)
       IN /\ EndsOf(Out.edges) \subseteq Out.nodes
          /\ seeds # {} => Out.nodes = Within(task.graph, seeds, 2)

LineLists == UNION {[1..n -> {1, 3}] : n \in 0..2}
BudgetTasks ==
    [part : {"budget"}, sections : [chunks : LineLists, relations : LineLists, entities : LineLists], max : 0..12]

SolveBudget ==
    /\ task.part = "budget"
    /\ answer' = <<WithinBudget(task.sections, task.max)>>

\* The retrieved text fits its budget, passages give way before entities do, and a cut
\* leaves what still fits and says that it was made.
PromptWithinBudget ==
    Solved("budget") =>
       /\ ContextLen(Out) <= task.max
       /\ GivesWayInOrder(task.sections, Out)
       /\ Out # task.sections /\ task.max > MarkerSize => ContextLen(Out) > MarkerSize

\* A question goes where it belongs, with a part of the graph that fits and is closed.
PromptFitsQuestion ==
    DoorAgreesWithRetrieval /\ OwnPaperIsNoComparison /\ PromptGraphClosed /\ PromptWithinBudget

-----------------------------------------------------------------------------
\* ---- The vector store --------------------------------------------------
W(name) == <<<<name, 2>>>>
VData(description, evidence, span) ==
    Restrict([key \in {"description", "evidence", "source_span", "span"} |->
                CASE key = "description" -> description
                  [] key = "evidence" -> evidence
                  [] key = "span" -> W("s")
                  [] OTHER -> span],
             {"span"} \cup (IF description = <<>> THEN {} ELSE {"description"}) \cup {"evidence"}
                      \cup (IF span = <<>> THEN {} ELSE {"source_span"}))
Datas ==
    {VData(d, e, s) : d \in {<<>>, W("a"), W("a") \o W("b"), W("a") \o W("b") \o W("c")},
                      e \in {<<>>, W("a"), W("b") \o W("c"), <<<<"long", FragmentMax + 1>>>>}, s \in {<<>>, W("t")}}
VGraph(data, tag) ==
    [nodes |-> <<[id |-> <<"n1", 2>>, label |-> <<tag, 1>>, type |-> <<"Claim", 5>>, data |-> data],
                 [id |-> <<"n2", 2>>, label |-> <<"L", 1>>, type |-> <<"Thesis", 6>>, data |-> VData(<<>>, W(tag), <<>>)],
                 [id |-> <<"n3", 2>>, label |-> <<"M", 1>>, type |-> <<"Method", 6>>, data |-> VData(W("c"), <<>>, W("u"))]>>,
     edges |-> [i \in 1..3 |->
                  [id |-> <<ToString(i), 1>>, source |-> <<"n1", 2>>, target |-> <<"n2", 2>>, type |-> <<"SUPPORTS", 8>>,
                   rationale |-> (<<Absent, <<>>, W(tag)>>)[i], source_span |-> (<<Datum(data, "evidence"), Absent, W("s")>>)[i]]],
     chunks |-> [i \in 1..3 |->
                  [index |-> i - 1, text |-> W(tag) \o (<<<<>>, W("b"), W("c")>>)[i],
                   section |-> (<<Absent, W("Methods"), W("Results")>>)[i], page |-> (<<0, Absent, 2>>)[i]]]]
Kinds3 == {"chunk", "entity", "relation"}
Sample == VData(W("a"), W("b"), <<>>)
Faultless == [provider |-> "mock", fate |-> <<>>]
\* The other paper and, in a store that knows papers, an earlier run of this one.
Earlier(t) ==
    LET Add(store, paper, run) ==
            IndexEvidence(store, paper, GraphEvidence(paper, VGraph(t.data, "old"), t.kind), run, t.managed, Faultless).store
    IN IF t.managed THEN Add(Add(<<>>, "q", "r1"), "p", "r1") ELSE Add(<<>>, "q", Absent)
Indexed(t) ==
    LET all == SubSeq(GraphEvidence("p", VGraph(t.data, "new"), t.kind), 1, t.size)
    IN IF t.foreign /\ t.size > 0 THEN [all EXCEPT ![t.size].paper = "q"] ELSE all
ClientFor(t, evidence) ==
    [provider |-> t.provider,
     fate |-> [text \in {evidence[i].text : i \in DOMAIN evidence} |->
                 IF \E i \in DOMAIN evidence : i = t.bad /\ evidence[i].text = text THEN t.how ELSE "ok"]]
VectorTasks ==
    {t \in [part : {"vectors"}, kind : Kinds3, data : {Sample}, size : 0..3, managed : BOOLEAN, run : {Absent, "r2"},
            foreign : BOOLEAN, provider : {"mock", "ollama", "openai"}, bad : 0..3, how : {"down", "short"}] :
        ~t.managed => t.run = Absent}
    \cup [part : {"vectors"}, kind : {"entity", "relation"}, data : Datas, size : {3}, managed : {TRUE}, run : {"r2"},
          foreign : {FALSE}, provider : {"openai"}, bad : {0}, how : {"down"}]

SolveVectors ==
    /\ task.part = "vectors"
    /\ answer' = <<IndexEvidence(Earlier(task), "p", Indexed(task), task.run, task.managed, ClientFor(task, Indexed(task)))>>

\* Evidence comes back from the store as it went in, and takes nobody's place: it has the
\* fields of its kind, and each row stands under its own identifier.
IndexReadsBack ==
    Solved("vectors") /\ Out.outcome = "done" =>
       /\ ReadsBackAsWritten(Earlier(task), Out.store, task.kind, "p", Indexed(task), task.run)
       /\ Keyed(Earlier(task), task.kind) /\ Keyed(Out.store, task.kind)
       /\ \A e \in Range(Indexed(task)) : Storable(e, task.kind)

\* A vector that the provider leaves out never moves the others to the wrong text.
VectorsPaired ==
    Solved("vectors") =>
       RowsHoldOwnVector(IF Out.outcome = "done" THEN <<>> ELSE Earlier(task), Out, ClientFor(task, Indexed(task)))

\* What is embedded of a node is short, and complete unless it says otherwise.
NodeTextsFit ==
    Solved("vectors") /\ task.kind = "entity" => SupportTextFits(task.data)

SearchStore(kind) ==
    LET Add(store, paper, run, tag) ==
            IndexEvidence(store, paper, GraphEvidence(paper, VGraph(Sample, tag), kind), run, TRUE, Faultless).store
    IN Add(Add(Add(<<>>, "q", "r1", "other"), "p", "r1", "old"), "p", "r2", "new")
SearchTasks ==
    {t \in [part : {"search"}, kind : Kinds3, managed : BOOLEAN, active : {Absent, "r1"},
            q : [paper : {"", "p"}, text : {<<>>, W("why")}, top_k : {Absent, 0, 2}, given : {Absent, W("hyde")} \cup VectorIssues],
            up : BOOLEAN, ghosts : [1..2 -> {"text", "meta", "no"}]] :
        t.q.paper = "" \/ ~t.managed => t.active = Absent}
SearchClient(t) == [provider |-> "openai", fate |-> [text \in {t.q.text} |-> IF t.up THEN "ok" ELSE "down"]]
\* Rows that a delete takes away meanwhile: of the run in use, of any run.
Fading(t) ==
    LET run == IF t.kind = "chunk" THEN "r2" ELSE "r1"
        evidence == GraphEvidence("p", VGraph(Sample, "old"), t.kind)
    IN [id \in {RowId(evidence[i], run) : i \in 1..2} |-> IF id = RowId(evidence[1], run) THEN t.ghosts[1] ELSE t.ghosts[2]]
Answers(t, q) == QueryRows(SearchStore(t.kind), Fading(t), t.kind, q, t.managed, t.active, SearchClient(t))

SolveSearch ==
    /\ task.part = "search"
    /\ IF Answers(task, task.q) = {} THEN answer' = <<[ok |-> FALSE, rows |-> {}]>>
       ELSE \E rows \in Answers(task, task.q) : answer' = <<[ok |-> TRUE, rows |-> rows]>>

\* A question sees its own paper, and only the run that is active.
QueryScoped ==
    Solved("search") =>
       Out.rows \subseteq
          UNION {Range(GraphEvidence("p", VGraph(Sample, tag), task.kind)) : tag \in IF task.managed THEN {"old"} ELSE {"old", "new"}}

\* A HyDE vector that is malformed costs an embedding and nothing else.
MalformedVectorHarmless ==
    Solved("search") /\ task.q.given \in VectorIssues =>
       Answers(task, task.q) = Answers(task, [task.q EXCEPT !.given = Absent])

\* Evidence is found again as it was stored, by questions about its paper and run only.
EvidenceReadsBack ==
    IndexReadsBack /\ VectorsPaired /\ NodeTextsFit /\ QueryScoped /\ MalformedVectorHarmless

-----------------------------------------------------------------------------
\* ---- The regression of the parser ---------------------------------------
Row(pages, pym, short, long, other, dual) ==
    [pages |-> pages,
     score |-> Restrict([k \in {"pymupdf_sync", "mineru_pipeline", "grobid_crf", "path_b", "dual_route_rules"} |->
                           CASE k = "pymupdf_sync" -> pym [] k = "mineru_pipeline" -> short [] k = "grobid_crf" -> long
                             [] k = "path_b" -> other [] OTHER -> dual],
                        {"pymupdf_sync"} \cup (IF short = 9 THEN {} ELSE {"mineru_pipeline"}) \cup {"grobid_crf"}
                          \cup (IF other = 9 THEN {} ELSE {"path_b"}) \cup (IF dual = 9 THEN {} ELSE {"dual_route_rules"}))]
BatchRows == {Row(n, p, s, 2, o, d) : n \in {Unknown, ShortPageLimit, ShortPageLimit + 1}, p \in {0, 2}, s \in {1, 3, 9}, o \in {2, 9}, d \in {0, 2, 3, 9}}
Steady == {Row(ShortPageLimit, 1, 1, 2, 9, 2)}
Batches(rows, ids) ==
    {[ids |-> i, rows |-> [p \in {"p"} |-> r]] : i \in ids, r \in rows}
    \cup {[ids |-> i, rows |-> [p \in {"p", "q"} |-> IF p = "p" THEN r ELSE q]] : i \in ids, r \in rows, q \in Steady \cup {Row(ShortPageLimit, 1, 1, 2, 9, 0)}}
BaselineTasks ==
    [part : {"baseline"}, first : Batches(BatchRows, {<<"p">>, <<"q", "p">>}), later : {[ids |-> <<>>, rows |-> <<>>]}]
    \cup [part : {"baseline"}, first : {r \in Batches(BatchRows, {<<"q", "p">>}) : BaselinesFrom(r) # {}},
          later : Batches(BatchRows, {<<"p", "q">>, <<"p", "q", "r">>})]

SolveBaseline ==
    /\ task.part = "baseline"
    /\ answer' = <<BaselinesFrom(task.first)>>

\* The report that a baseline was made of passes it, whatever it lacks.
BaselineReproduces == Solved("baseline") => \A b \in Out : ReportOk(task.first, b)

\* A parser that got worse, or no longer runs, on any paper turns the comparison red.
RegressionsSeen ==
    Solved("baseline") => \A b \in Out : ReportOk(task.later, b) => NothingGotWorse(task.first, task.later)

-----------------------------------------------------------------------------
\* ---- The golden set's own check -----------------------------------------
MCStripped == [n \in {"", " b", "b", "o"} |-> IF n = " b" THEN "b" ELSE n]
GraphFile(state, nodes, edges) == [state |-> state, nodes |-> nodes, edges |-> edges]
MCBuiltIn == [p \in {"b"} |-> GraphFile("ok", {1, 2}, {1})]
GoldenItems ==
    {[paper |-> p, paradigm |-> d, scale |-> "detail",
      gold |-> [Gold(r, {}, n, {}, c) EXCEPT !.nodes = v]] :
        p \in {"b", "o", " b", ""}, d \in {"STEM", "HSS"}, r \in {{}, {"w"}, {"15%"}},
        n \in {{}, {[value |-> 160, abs |-> 10, rel |-> 0]}}, v \in {{1}, {3}},
        c \in {{}, {<<"b", 1>>}, {<<"b", 1>>, <<"o", 1>>}, {<<"", 1>>}}}
Harmless == [paper |-> "o", paradigm |-> "HSS", scale |-> "detail", gold |-> Gold({}, {}, {}, {}, {})]
GoldenTasks ==
    [part : {"golden"}, items : {<<>>} \cup {<<i>> : i \in GoldenItems} \cup {<<i, Harmless>> : i \in GoldenItems},
     files : {[p \in {"b", "o"} |-> IF p = "b" THEN x ELSE y] :
                x \in {GraphFile("ok", {1}, {1}), GraphFile("absent", {}, {}), GraphFile("broken", {}, {})},
                y \in {GraphFile("ok", {1}, {1}), GraphFile("absent", {}, {})}},
     manifests : {<<>>, [p \in {"b"} |-> {<<"b", 1>>}]}, texts : {[p \in {"o"} |-> [c \in {<<"o", 1>>} |-> "blank"]]},
     args : [strict : {TRUE}, allow_skip : BOOLEAN, auto_seed : BOOLEAN], ci : BOOLEAN]
GoldenIndex(t) == ChunkIndex(t.manifests, t.texts)

SolveGolden ==
    /\ task.part = "golden"
    /\ answer' = <<Validate(task.items, task.files, GoldenIndex(task), Policy(task.args, task.ci))>>

\* A green check means that each question can be answered to the full, unless its paper
\* was skipped or its name is not that of a paper.
GreenMeansCitable ==
    Solved("golden") /\ Out.exit = 0 =>
       \A item \in Range(task.items) :
          item.paper # "" /\ item.paper = Stripped[item.paper] /\ Out.files[item.paper].state = "ok" =>
             Citable(item, Out.files, GoldenIndex(task))

\* On a CI runner no flag turns a missing graph into a success, and nowhere does a check
\* write over a graph file that cannot be read.
CiNeverSkips ==
    Solved("golden") =>
       /\ \A p \in DOMAIN task.files : task.files[p].state # "absent" => Out.files[p] = task.files[p]
       /\ task.ci /\ Out.exit = 0 =>
             \A item \in Range(task.items) : "" \notin {item.paper, Stripped[item.paper]} => Out.files[Stripped[item.paper]].state = "ok"

\* A benchmark, a golden set or a baseline is green only because the answers, the gold
\* citations and the parsers are what it was made to ask for.
GreenIsEarned ==
    /\ GreenMeansClean /\ StrictNeverWeaker /\ CreditUnambiguous /\ SuccessIsEarned /\ SnapshotsFaithful
    /\ GreenMeansCitable /\ CiNeverSkips
    /\ BaselineReproduces /\ RegressionsSeen

-----------------------------------------------------------------------------
MCInit ==
    /\ task \in MergeTasks \cup ClusterTasks \cup SpanTasks \cup ListTasks \cup DirectoryTasks \cup PatrolTasks \cup IndexTasks \cup ExtractTasks \cup HeadTasks \cup ClassifyTasks \cup BenchTasks \cup SnapshotTasks
             \cup RouteTasks \cup ContextTasks \cup BudgetTasks \cup VectorTasks \cup SearchTasks \cup BaselineTasks \cup GoldenTasks
    /\ answer = NoneYet
MCNext ==
    /\ answer = NoneYet
    /\ UNCHANGED task
    /\ SolveMerge \/ SolveCluster \/ SolveSpans \/ SolveLists \/ SolveDirectory \/ SolvePatrol \/ SolveIndex \/ SolvePieces \/ SolveHead \/ SolveClassify \/ SolveBench \/ SolveSnapshot
       \/ SolveRoute \/ SolveContext \/ SolveBudget \/ SolveVectors \/ SolveSearch \/ SolveBaseline \/ SolveGolden
MCSpec == MCInit /\ [][MCNext]_<<task, answer>>
=============================================================================
