------------------------- MODULE SemanticClustering -------------------------
(***************************************************************************)
(* The second pass over a merged graph: nodes of one type that mean the    *)
(* same are merged into the best connected of them, and parts of the graph *)
(* that are cut off are tied to the largest part where they resemble it.   *)
(*                                                                         *)
(* A node is [id, type, confidence, span, description, folded, aliases];   *)
(* ids are in the order of the list.  An edge is [source, target, type,    *)
(* label, span, rationale].  world holds what the models answer: sim, the  *)
(* similarity of a pair of ids; same, the pairs the reranker takes for the *)
(* same; and whether each of the two is up.                                *)
(***************************************************************************)
EXTENDS GraphMerge

Bridge == "SEMANTICALLY_RELATED_TO"

-----------------------------------------------------------------------------
\* ---- _UnionFind, _build_components -------------------------------------
\* The parts of ids that links tie together.
Components(ids, links) ==
    FoldSet(LAMBDA link, parts :
                LET tied == {p \in parts : p \cap link # {}}
                IN (parts \ tied) \cup {UNION tied},
            {{id} : id \in ids}, links)

LinksOf(edges) == {{e.source, e.target} : e \in Range(edges)}
PartsOf(g) == Components(Ids(g.nodes), LinksOf(g.edges))

-----------------------------------------------------------------------------
\* ---- semantic_cluster_and_merge: which nodes are the same --------------
\* _coarse_filter_pairs, for every type on its own.
CoarsePairs(g, world) ==
    {{q[1].id, q[2].id} : q \in
        {p \in g.nodes \X g.nodes :
            /\ p[1].id < p[2].id /\ p[1].type = p[2].type
            /\ world.sim[{p[1].id, p[2].id}] > world.coarse[p[1].type]}}

\* Without a reranker the coarse filter decides.
SamePairs(g, world) ==
    CoarsePairs(g, world) \cap (IF world.reranker = "off" THEN CoarsePairs(g, world) ELSE world.same)

ClustersOf(g, world) == Components(Ids(g.nodes), SamePairs(g, world))

-----------------------------------------------------------------------------
\* ---- _merge_clusters ---------------------------------------------------
\* _elect_root: the members of a cluster have one type, so their degree decides.
Outranks(g, m, n) ==
    \/ Degree(g, m.id) > Degree(g, n.id)
    \/ /\ Degree(g, m.id) = Degree(g, n.id)
       /\ m.confidence > n.confidence \/ (m.confidence = n.confidence /\ m.id <= n.id)

Members(g, cluster) == {n \in g.nodes : n.id \in cluster}
Root(g, cluster) ==
    CHOOSE m \in Members(g, cluster) : \A n \in Members(g, cluster) : Outranks(g, m, n)

FoldedOf(g, cluster) == UNION {n.folded : n \in Members(g, cluster)}

\* The aliases that the swallowed nodes had themselves are gone.
ClusterNode(g, cluster) ==
    LET members == Members(g, cluster)
    IN [Root(g, cluster) EXCEPT
            !.aliases = @ \cup (cluster \ {Root(g, cluster).id}),
            !.folded = FoldedOf(g, cluster),
            !.span = Max({n.span : n \in members}),
            !.confidence = Max({n.confidence : n \in members}),
            !.description = UNION {n.description : n \in members}]

RootId(g, clusters, id) == Root(g, CHOOSE c \in clusters : id \in c).id

\* Mutant: only the source follows its cluster.
ToRootsHalf(g, clusters, e) == [e EXCEPT !.source = RootId(g, clusters, @)]

ToRoots(g, clusters, e) ==
    [e EXCEPT !.source = RootId(g, clusters, @), !.target = RootId(g, clusters, @)]

\* _richer_edge
Richer(b, a) == b.rationale > a.rationale \/ (b.rationale = a.rationale /\ b.span > a.span)

KeepRicher(kept, e) ==
    LET twin == {i \in DOMAIN kept : EdgeKey(kept[i]) = EdgeKey(e)}
    IN IF e.source = e.target THEN kept
       ELSE IF twin = {} THEN Append(kept, e)
       ELSE [i \in DOMAIN kept |-> IF i \in twin /\ Richer(e, kept[i]) THEN e ELSE kept[i]]

MergeClusters(g, clusters) ==
    [nodes |-> {ClusterNode(g, c) : c \in clusters},
     edges |-> FoldLeft(LAMBDA kept, e : KeepRicher(kept, ToRoots(g, clusters, e)), <<>>, g.edges)]

-----------------------------------------------------------------------------
\* ---- _add_knn_bridges --------------------------------------------------
\* A merged node goes by the vector of the first of its cluster.
Vector(clusters, id) == Min(CHOOSE c \in clusters : id \in c)
Alike(world, clusters, a, b) == world.sim[{Vector(clusters, a), Vector(clusters, b)}]

\* The best connected node of a part, the last of equals.
Representative(g, part) ==
    CHOOSE m \in part : \A n \in part :
        Degree(g, m) > Degree(g, n) \/ (Degree(g, m) = Degree(g, n) /\ m >= n)

BridgeEnds(g, main, rep) == main

\* The first of the candidates that nobody beats.
Nearest(g, world, clusters, main, rep) ==
    LET all == BridgeEnds(g, main, rep)
    IN CHOOSE m \in all : \A n \in all :
            \/ Alike(world, clusters, rep, m) > Alike(world, clusters, rep, n)
            \/ /\ Alike(world, clusters, rep, m) = Alike(world, clusters, rep, n)
               /\ Vector(clusters, m) <= Vector(clusters, n)

BridgeFrom(g, world, clusters, main, part) ==
    LET rep == Representative(g, part)
        to == Nearest(g, world, clusters, main, rep)
    IN IF Alike(world, clusters, rep, to) < world.knn THEN <<>>
       ELSE <<[source |-> rep, target |-> to, type |-> Bridge, label |-> Bridge,
               span |-> 0, rationale |-> 0]>>

\* Of several largest parts the order of a Python set picks the main one.
MainParts(g) == {p \in PartsOf(g) : \A q \in PartsOf(g) : Cardinality(p) >= Cardinality(q)}

AddBridges(g, world, clusters, main) ==
    FoldFunctionOnSet(LAMBDA bridge, edges : edges \o bridge, g.edges,
        [p \in PartsOf(g) |-> BridgeFrom(g, world, clusters, main, p)], PartsOf(g) \ {main})

\* _deduplicate_edges_by_type: the first label wins.
OnePerType(edges) ==
    FoldLeft(LAMBDA kept, e :
        IF \E k \in Range(kept) : <<k.source, k.target, k.type>> = <<e.source, e.target, e.type>>
        THEN kept ELSE Append(kept, e), <<>>, edges)

\* All graphs that semantic_cluster_and_merge may return.
Clustered(g, world) ==
    IF Cardinality(g.nodes) < 2 \/ world.embeddings = "down" \/ world.reranker = "down" THEN {g}
    ELSE LET clusters == ClustersOf(g, world)
             merged == MergeClusters(g, clusters)
         IN {[nodes |-> merged.nodes,
              edges |-> OnePerType(AddBridges(merged, world, clusters, main))] : main \in MainParts(merged)}

-----------------------------------------------------------------------------
\* Every node is in the graph or an alias of a node of its type, whose evidence is no
\* shorter and whose folded leaves include its own; every relation between nodes
\* that stay apart is still there.
ClusteringLosesNothing(g, world, out) ==
    LET Home(id) == CHOOSE n \in out.nodes : id = n.id \/ id \in n.aliases
    IN /\ \A n \in g.nodes :
            /\ \E m \in out.nodes : n.id = m.id \/ n.id \in m.aliases
            /\ n.folded \subseteq Home(n.id).folded
            /\ n.span <= Home(n.id).span /\ n.type = Home(n.id).type
       /\ \A e \in Range(g.edges) :
            Home(e.source) # Home(e.target) =>
                \E k \in Range(out.edges) :
                   <<k.source, k.target, k.type>> = <<Home(e.source).id, Home(e.target).id, e.type>>

\* What was tied together stays so, and a bridge is the only tie between the two
\* parts that it joins.
TiesStay(g, out) ==
    LET home == [id \in Ids(g.nodes) |-> (CHOOSE n \in out.nodes : id = n.id \/ id \in n.aliases).id]
    IN /\ \A part \in PartsOf(g) : \E whole \in PartsOf(out) : {home[id] : id \in part} \subseteq whole
       /\ \A i \in DOMAIN out.edges :
            out.edges[i].type = Bridge =>
                \A part \in Components(Ids(out.nodes), LinksOf(RemoveAt(out.edges, i))) :
                    ~{out.edges[i].source, out.edges[i].target} \subseteq part
=============================================================================
