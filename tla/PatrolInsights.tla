--------------------------- MODULE PatrolInsights ---------------------------
(***************************************************************************)
(* What a patrol concludes from the graphs of two papers, in its four      *)
(* modes.  The wording of a summary is left out; the model that writes it  *)
(* decides nothing.  A graph is a paradigm, a sequence of nodes and a set  *)
(* of edges; a node is [id, type, label, rich].                            *)
(*                                                                         *)
(* An insight says status, reason (of an exclusion), refs (pairs of side   *)
(* and node id) and points.                                                *)
(***************************************************************************)
EXTENDS Naturals, Integers, Sequences, FiniteSets, SequencesExt, FiniteSetsExt

CONSTANTS
    Lower,             \* normalize_label
    LabelSize,         \* length of a label
    English,           \* labels that is_predominantly_english
    Coarse, Strict, StrictEnglish, RerankGate,   \* thresholds of the question gate
    Resonant, ResonantEnglish,                   \* of the shared research question
    Semantic, MatrixSize,                        \* of the semantic method overlap
    Shortlist          \* patrol_claim_rq_max_rerank_candidates

Typed(g, types) == SelectSeq(g.nodes, LAMBDA n : n.type \in types)
Same(l, r) == Lower[l] = Lower[r]

-----------------------------------------------------------------------------
\* ---- select_primary_node -----------------------------------------------
EdgeCount(n, g) == Cardinality({e \in g.edges : n.id \in {e[1], e[2]}})

Rank(n, g) ==
    <<IF n.rich THEN 0 ELSE 1, 0 - EdgeCount(n, g), 0 - LabelSize[n.label], n.id>>

Smaller(a, b) == \E i \in DOMAIN a : a[i] < b[i] /\ \A k \in 1..(i - 1) : a[k] = b[k]

Primary(nodes, g) ==
    CHOOSE n \in Range(nodes) :
        \A m \in Range(nodes) : m.id # n.id => Smaller(Rank(n, g), Rank(m, g))

-----------------------------------------------------------------------------
\* ---- Insights ----------------------------------------------------------
Excluded(reason, refs) ==
    [status |-> "insufficient_data", reason |-> reason, refs |-> refs, points |-> {}]
Concludes(points) ==
    [status |-> "ready", reason |-> "none", points |-> points,
     refs |-> UNION {p.refs : p \in points}]
Both(l, r) == {<<"left", l.id>>, <<"right", r.id>>}

Lacks(a, b) == a = <<>> \/ b = <<>>

\* build_lens_clash_insight; without a lens the request is refused.
LensClash(left, right) ==
    LET l == Typed(left, {"AnalyticalLens"})
        r == Typed(right, {"AnalyticalLens"})
        a == Primary(l, left)
        b == Primary(r, right)
    IN IF Lacks(l, r) THEN {}
       ELSE {Concludes({[kind |-> IF Same(a.label, b.label) THEN "none" ELSE "analytical_framework",
                         labels |-> {a.label, b.label}, refs |-> Both(a, b)]})}

\* build_contradiction_insight
Contradiction(left, right) ==
    LET l == Typed(left, {"Thesis"})
        r == Typed(right, {"Thesis"})
        a == Primary(l, left)
        b == Primary(r, right)
    IN IF Lacks(l, r) THEN {Excluded("MISSING_REQUIRED_NODES", {})}
       ELSE IF Lacks(Typed(left, {"SubArgument"}), Typed(right, {"SubArgument"}))
       THEN {Excluded("MISSING_REQUIRED_NODES", Both(a, b))}
       ELSE {Concludes({[kind |-> IF Same(a.label, b.label) THEN "none" ELSE "potential",
                         labels |-> {a.label, b.label}, refs |-> Both(a, b)]})}

-----------------------------------------------------------------------------
\* ---- Method overlap ----------------------------------------------------
\* The first node of each label that both sides know: _find_overlap_pairs.
FirstOf(nodes, label) ==
    nodes[Min({i \in DOMAIN nodes : Same(nodes[i].label, label)})]
Labels(nodes) == {n.label : n \in Range(nodes)}
LiteralAnchors(l, r) ==
    {[left |-> FirstOf(l, x), right |-> FirstOf(r, x), match |-> "literal"] :
        x \in {y \in Labels(l) : \E z \in Labels(r) : Same(y, z)}}

\* one_hop_neighbors of one of the types that resonate
Neighbours(g, n, type) ==
    {m \in Range(Typed(g, {type})) : m # n /\ (<<n.id, m.id>> \in g.edges \/ <<m.id, n.id>> \in g.edges)}

\* has_topology_resonance; close is the similarity of two labels.
Resonates(left, right, l, r, close) ==
    \/ \E type \in {"Dataset", "ResearchQuestion"} :
          \E m \in Neighbours(left, l, type), n \in Neighbours(right, r, type) : Same(m.label, n.label)
    \/ \E m \in Neighbours(left, l, "ResearchQuestion"), n \in Neighbours(right, r, "ResearchQuestion") :
          close[{m.label, n.label}] >=
             IF {m.label, n.label} \cap English # {} THEN ResonantEnglish ELSE Resonant

\* find_semantic_method_overlap: of the pairs that resonate one of the closest;
\* argsort leaves open which.
SemanticAnchors(left, right, l, r, close) ==
    LET Score(p) == close[{p[1].label, p[2].label}]
        pairs == {p \in Range(l) \X Range(r) :
                     Score(p) >= Semantic /\ Resonates(left, right, p[1], p[2], close)}
    IN IF Len(l) * Len(r) > MatrixSize THEN {}
       ELSE {[left |-> p[1], right |-> p[2], match |-> "semantic"] :
                p \in {q \in pairs : \A o \in pairs : Score(q) >= Score(o)}}

\* node_refs_for_anchors: every node with the label of its side.
PointRefs(a, l, r) ==
    {<<"left", n.id>> : n \in {m \in Range(l) : Same(m.label, a.left.label)}}
    \cup {<<"right", n.id>> : n \in {m \in Range(r) : Same(m.label, a.right.label)}}

Points(kind, anchors, l, r) ==
    {[kind |-> kind, labels |-> {a.left.label, a.right.label}, refs |-> PointRefs(a, l, r)] :
        a \in anchors}

NoOverlap(methods, datasets) == methods = {} /\ datasets = {}

\* build_method_overlap_insight: the insights it may give.  Without live embeddings
\* there is no semantic path.
MethodOverlap(left, right, w) ==
    LET l == Typed(left, {"Method"})
        r == Typed(right, {"Method"})
        dl == Typed(left, {"Dataset"})
        dr == Typed(right, {"Dataset"})
        literal == LiteralAnchors(l, r)
        soft == IF w.embeds = "live" THEN SemanticAnchors(left, right, l, r, w.close) ELSE {}
        methods == IF literal # {} THEN {literal}
                   ELSE IF soft # {} THEN {{a} : a \in soft} ELSE {{}}
        shared == LiteralAnchors(dl, dr)
    IN IF "HSS" \in {left.paradigm, right.paradigm} THEN {Excluded("PARADIGM_UNSUPPORTED", {})}
       ELSE IF Lacks(l, r) THEN {Excluded("MISSING_REQUIRED_NODES", {})}
       ELSE {IF NoOverlap(m, shared) THEN Excluded("NO_OVERLAP", {})
             ELSE Concludes(Points("method", m, l, r) \cup Points("dataset", shared, dl, dr)) :
                m \in methods}

-----------------------------------------------------------------------------
\* ---- Claim evolution ---------------------------------------------------
\* _coarse_filter_candidates: pairs that are close enough, the closest first; the
\* sort is stable and the pairs come row by row.
Candidates(l, r, close) ==
    LET rows == FlattenSeq([i \in DOMAIN l |-> [k \in DOMAIN r |-> <<l[i], r[k]>>]])
        Score(i) == close[{rows[i][1].label, rows[i][2].label}]
        near == {i \in DOMAIN rows : Score(i) >= Coarse}
        sorted == SetToSortSeq(near, LAMBDA i, k : Score(i) > Score(k) \/ (Score(i) = Score(k) /\ i < k))
    IN [i \in DOMAIN sorted |-> rows[sorted[i]]]

\* _select_with_reranker: of the shortlist the best that passes, the earliest of
\* several.
Reranked(candidates, rerank) ==
    LET n == IF Len(candidates) < Shortlist THEN Len(candidates) ELSE Shortlist
        Score(i) == rerank[{candidates[i][1].label, candidates[i][2].label}]
        passing == {i \in 1..n : Score(i) >= RerankGate}
    IN {candidates[i] : i \in {k \in passing : \A o \in passing :
            Score(k) > Score(o) \/ (Score(k) = Score(o) /\ k <= o)}}

\* Mutant: the language of the left question decides.
StrictGateLeft(p) == IF p[1].label \in English THEN StrictEnglish ELSE Strict

\* patrol_claim_rq_threshold_effective
StrictGate(p) ==
    IF {p[1].label, p[2].label} \cap English # {} THEN StrictEnglish ELSE Strict

\* _select_with_strict_embedding_fallback
Fallback(candidates, close) ==
    {p \in {candidates[1]} : close[{p[1].label, p[2].label}] >= StrictGate(p)}

\* align_research_question_pair: no pair or one.  reranker is "on", "off" or
\* "broken", embeds "live", "mock" or "broken"; broken embeddings reject.
Aligned(l, r, w) ==
    LET bare == [edges |-> {}]
        c == Candidates(l, r, w.close)
    IN IF w.embeds = "mock"
       THEN {p \in {<<Primary(l, bare), Primary(r, bare)>>} : Same(p[1].label, p[2].label)}
       ELSE IF w.embeds = "broken" \/ c = <<>> THEN {}
       ELSE IF w.reranker = "on" THEN Reranked(c, w.rerank)
       ELSE Fallback(c, w.close)

\* A claim is a node of the graph or, without one, what the index has to the question.
HasClaim(g, chunks) == Typed(g, {"Claim", "Finding"}) # <<>> \/ chunks

\* build_claim_evolution_insight
ClaimEvolution(left, right, w) ==
    LET l == Typed(left, {"ResearchQuestion"}) \o Typed(left, {"Thesis"})
        r == Typed(right, {"ResearchQuestion"}) \o Typed(right, {"Thesis"})
        aligned == Aligned(l, r, w)
        p == CHOOSE q \in aligned : TRUE
    IN IF Lacks(l, r) THEN {Excluded("MISSING_REQUIRED_NODES", {})}
       ELSE IF aligned = {} THEN {Excluded("RQ_GATE_FAILED", {})}
       ELSE IF ~HasClaim(left, w.chunks) /\ ~HasClaim(right, w.chunks)
       THEN {Excluded("NO_RECALLABLE_CLAIMS", Both(p[1], p[2]))}
       ELSE {Concludes({[kind |-> "claim", labels |-> {p[1].label, p[2].label}, refs |-> Both(p[1], p[2])]})}

\* run_patrol, for graphs that are there.
Insights(mode, left, right, w) ==
    CASE mode = "lens_clash" -> LensClash(left, right)
      [] mode = "contradiction" -> Contradiction(left, right)
      [] mode = "method_overlap" -> MethodOverlap(left, right, w)
      [] mode = "claim_evolution" -> ClaimEvolution(left, right, w)

-----------------------------------------------------------------------------
\* A conclusion has points and every point nodes of both papers; an exclusion has
\* a reason and no point.
WellFounded(i) ==
    IF i.status = "ready"
    THEN /\ i.points # {} /\ i.reason = "none"
         /\ \A p \in i.points : {"left", "right"} \subseteq {r[1] : r \in p.refs}
    ELSE i.points = {} /\ i.reason # "none"

\* What an insight says whichever paper is named first.
Verdict(i) == <<i.status, i.reason, {<<p.kind, {Lower[x] : x \in p.labels}>> : p \in i.points}>>

\* No two pairs of questions are equally close: the order of equals is the order
\* of the papers.
Untied(left, right, w) ==
    LET Questions(g) == Range(Typed(g, {"ResearchQuestion"})) \cup Range(Typed(g, {"Thesis"}))
        pairs == Questions(left) \X Questions(right)
    IN \A p, q \in pairs :
          w.close[{p[1].label, p[2].label}] = w.close[{q[1].label, q[2].label}] => p = q

\* A method or a dataset that both papers name is a point, with every node of
\* either paper that bears the name.
OverlapsFound(left, right, i) ==
    \A type \in {"Method", "Dataset"} :
      \A m \in Range(Typed(left, {type})), n \in Range(Typed(right, {type})) :
         i.status = "ready" /\ Same(m.label, n.label) =>
            \E p \in i.points : Both(m, n) \subseteq p.refs
=============================================================================
