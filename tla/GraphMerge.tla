----------------------------- MODULE GraphMerge -----------------------------
(***************************************************************************)
(* How the node and edge lists of the chunks of a paper become one graph:  *)
(* duplicates are merged, edges are remapped and deduplicated, what points *)
(* nowhere goes, isolated nodes are purged and leaves folded into their    *)
(* parents.                                                                *)
(*                                                                         *)
(* A node is [id, label, type, span, confidence], an edge [source, target, *)
(* type, label, span, rationale]; a span counts for its length, 0 for none.*)
(***************************************************************************)
EXTENDS Naturals, Integers, Sequences, FiniteSets, SequencesExt, FiniteSetsExt

CONSTANTS
    Normal,            \* _normalize_label: a function on labels
    GarbledLabels      \* labels a broken font mapping has corrupted

Foldable == {"Evidence", "ObjectOrData", "Dataset", "Metric", "Baseline"}

\* Ids of the nodes of a sequence, a set or a graph's node set.
Ids(nodes) == {n.id : n \in nodes}

-----------------------------------------------------------------------------
\* ---- merge_node_lists --------------------------------------------------
\* The nodes of all chunks under ids that name their chunk.
Renamed(chunks) ==
    FlattenSeq([c \in DOMAIN chunks |->
        [i \in DOMAIN chunks[c] |-> [chunks[c][i] EXCEPT !.id = <<c, @>>]]])

NodeKey(n) == <<Normal[n.label], n.type>>

\* The first node with the key of n: the root of its union-find tree.
Canonical(all, n) ==
    LET same == {i \in DOMAIN all : NodeKey(all[i]) = NodeKey(n)}
    IN all[Min(same)].id

IdMap(all) ==
    [id \in Ids(Range(all)) |->
        Canonical(all, CHOOSE n \in Range(all) : n.id = id)]

BestSpan(aliases) == Max({n.span : n \in aliases})

\* The representative, the one that gave the root its id, with what its aliases know.
MergedNode(all, root) ==
    LET aliases == {n \in Range(all) : Canonical(all, n) = root}
        representative == CHOOSE n \in aliases : n.id = root
    IN [id |-> root, label |-> representative.label, type |-> representative.type,
        span |-> BestSpan(aliases), confidence |-> Max({n.confidence : n \in aliases}),
        aliases |-> Ids(aliases), folded |-> {}]

MergeNodes(all) ==
    {MergedNode(all, root) : root \in {Canonical(all, n) : n \in Range(all)}}

-----------------------------------------------------------------------------
\* ---- merge_edge_lists --------------------------------------------------
Mapped(map, id) == IF id \in DOMAIN map THEN map[id] ELSE id
Remapped(map, e) ==
    [e EXCEPT !.source = Mapped(map, @), !.target = Mapped(map, @)]

EdgeKey(e) == <<e.source, e.target, e.type, e.label>>

BetterEdge(e, old) == e.span > old.span

\* The place of an edge in the result is its new id.
AddEdge(kept, e) ==
    LET same == {i \in DOMAIN kept : EdgeKey(kept[i]) = EdgeKey(e)}
    IN IF same = {} THEN Append(kept, e)
       ELSE [i \in DOMAIN kept |->
                IF i \in same /\ BetterEdge(e, kept[i]) THEN e ELSE kept[i]]

MergeEdges(edges, map) ==
    FoldLeft(LAMBDA kept, e : AddEdge(kept, Remapped(map, e)), <<>>, edges)

-----------------------------------------------------------------------------
\* ---- _heuristic_prune --------------------------------------------------
\* The ends of edges at a node: an edge from a node to itself counts twice.
Degree(g, id) ==
    Cardinality({i \in DOMAIN g.edges : g.edges[i].source = id})
    + Cardinality({i \in DOMAIN g.edges : g.edges[i].target = id})

NodeOf(g, id) == CHOOSE n \in g.nodes : n.id = id
ZeroDegree(g) == {id \in Ids(g.nodes) : Degree(g, id) = 0}

ParentOf(g, id) ==
    LET e == CHOOSE e \in Range(g.edges) : e.source = id \/ e.target = id
    IN IF e.source = id THEN e.target ELSE e.source

\* Mutant: two leaves that only have each other are folded too.
FoldsAnyLeaf(g, folded, id) ==
    /\ NodeOf(g, id).type \in Foldable /\ Degree(g, id) = 1

\* The tests of the loop for one node, after the nodes of folded.
Folds(g, folded, id) ==
    /\ NodeOf(g, id).type \in Foldable /\ Degree(g, id) = 1
    /\ LET p == ParentOf(g, id)
       IN /\ p \notin ZeroDegree(g) /\ p \notin folded
          /\ ~(NodeOf(g, p).type \in Foldable /\ Degree(g, p) = 1)

\* sorted(kept_node_ids): the last of some ids.
Before(a, b) == a[1] < b[1] \/ (a[1] = b[1] /\ a[2] < b[2])
LastOf(ids) == CHOOSE id \in ids : \A other \in ids \ {id} : Before(other, id)

\* The loop, in the order of the ids.
FoldedLeaves(g) ==
    MapThenFoldSet(LAMBDA id, folded : IF Folds(g, folded, id) THEN folded \cup {id} ELSE folded,
                   {}, LAMBDA id : id, LastOf, Ids(g.nodes))

\* The edges of a list that stay in a set of nodes.
EdgesWithin(ids, edges) ==
    FoldLeft(LAMBDA kept, e : IF {e.source, e.target} \subseteq ids THEN Append(kept, e) ELSE kept,
             <<>>, edges)

\* A parent remembers the leaves that were folded into it.
Prune(g) ==
    LET folded == FoldedLeaves(g)
        gone == ZeroDegree(g) \cup folded
    IN [nodes |-> {[n EXCEPT !.folded = {l \in folded : ParentOf(g, l) = n.id}] :
                      n \in {m \in g.nodes : m.id \notin gone}},
        edges |-> EdgesWithin(Ids(g.nodes) \ gone, g.edges)]

-----------------------------------------------------------------------------
\* ---- merge_graphs ------------------------------------------------------
\* _sanitize_graph_labels: a garbled label gives way to the type.
Sanitized(n) == IF n.label \in GarbledLabels THEN [n EXCEPT !.label = <<"type", n.type>>] ELSE n
SanitizeLabels(g) == [g EXCEPT !.nodes = {Sanitized(n) : n \in @}]

\* An edge that points nowhere goes.
Merged(chunks, edges) ==
    LET all == Renamed(chunks)
        nodes == MergeNodes(all)
    IN [nodes |-> nodes, edges |-> EdgesWithin(Ids(nodes), MergeEdges(edges, IdMap(all)))]

MergeGraphs(chunks, edges) == SanitizeLabels(Prune(Merged(chunks, edges)))

\* validate_graph_consistency, which raises otherwise.
Consistent(g) ==
    /\ \A m, n \in g.nodes : m.id = n.id => m = n
    /\ \A e \in Range(g.edges) : {e.source, e.target} \subseteq Ids(g.nodes)

-----------------------------------------------------------------------------
\* The merged graph satisfies the validator that stands at its end, and has no
\* edge twice.
MergeIsConsistent(out) ==
    /\ Consistent(out)
    /\ \A i, k \in DOMAIN out.edges : EdgeKey(out.edges[i]) = EdgeKey(out.edges[k]) => i = k

\* Every node of every chunk is in the graph under one of its ids, or noted in a
\* node of the graph as a folded leaf, or nothing pointed at it; an edge between two
\* nodes that are left is left, with no shorter evidence.
MergeLosesNothing(chunks, edges, out) ==
    LET all == Renamed(chunks)
        map == IdMap(all)
        isolated == ZeroDegree(Merged(chunks, edges))
    IN /\ \A id \in DOMAIN map :
             \/ map[id] \in isolated
             \/ \E n \in out.nodes : id \in n.aliases \/ map[id] \in n.folded
       /\ \A i \in DOMAIN edges :
             LET e == Remapped(map, edges[i])
             IN {e.source, e.target} \subseteq Ids(out.nodes) =>
                   \E k \in Range(out.edges) : EdgeKey(k) = EdgeKey(e) /\ k.span >= e.span

\* A node of the graph that nothing points at has swallowed its neighbours.
IsolatedHasFolded(out) ==
    \A n \in out.nodes : n.id \in ZeroDegree(out) => n.folded # {}

\* What of a graph does not depend on the names of its nodes.
Content(all, g) ==
    LET Name(id) == NodeKey(CHOOSE n \in Range(all) : n.id = id)
    IN <<{<<Name(n.id), n.span, n.confidence, {Name(l) : l \in n.folded}>> : n \in g.nodes},
         {<<Name(e.source), Name(e.target), e.type, e.label, e.span>> : e \in Range(g.edges)}>>

\* The order in which the chunks come back does not matter, up to which of several
\* duplicates gives its name to the node.
MergeIgnoresOrder(chunks, edges, out) ==
    LET n == Len(chunks)
        Back(id) == IF id[1] \in 1..n THEN <<n + 1 - id[1], id[2]>> ELSE id
        turned == Reverse(chunks)
        backwards == Reverse([i \in DOMAIN edges |->
                        [edges[i] EXCEPT !.source = Back(@), !.target = Back(@)]])
    IN Content(Renamed(turned), MergeGraphs(turned, backwards))
          = Content(Renamed(chunks), out)
=============================================================================
