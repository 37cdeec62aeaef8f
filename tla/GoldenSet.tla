------------------------------ MODULE GoldenSet ------------------------------
(***************************************************************************)
(* The check of the golden set itself: every reference of a question is    *)
(* looked up in the graph files and in the index of chunks before the      *)
(* regression of question answering relies on it.                          *)
(*                                                                         *)
(* An item is [paper, paradigm, scale, gold]; a graph file is [state,      *)
(* nodes, edges] with state "ok", "absent" or "broken".  A chunk           *)
(* identifier is <<paper, number>>, <<"", number>> if it is not canonical. *)
(***************************************************************************)
EXTENDS Naturals, Sequences, FiniteSets, Functions, QaBenchmark

CONSTANTS
    Stripped,    \* a paper's name in the golden set, without the blanks around it
    BuiltIn      \* the graphs that can be seeded, by paper

ASSUME GoldenSetAssumption == \A p \in DOMAIN BuiltIn : BuiltIn[p].state = "ok"

-----------------------------------------------------------------------------
\* build_validate_policy
Policy(args, ci) ==
    LET strict == ci \/ (args.strict /\ ~args.allow_skip)
    IN [strict |-> strict, auto_seed |-> args.auto_seed, allow_skip |-> ~strict]

\* MockChunkIndex.load_from_repo: manifests name chunks, the mock store holds texts; a
\* blank text is forgotten, its chunk is not.
ChunkIndex(manifests, texts) ==
    [known |-> [p \in DOMAIN manifests \cup DOMAIN texts |->
                  (IF p \in DOMAIN manifests THEN manifests[p] ELSE {})
                     \cup (IF p \in DOMAIN texts THEN DOMAIN texts[p] ELSE {})],
     texts |-> [p \in DOMAIN texts |-> Restrict(texts[p], {c \in DOMAIN texts[p] : texts[p][c] # "blank"})]]

HasChunk(index, paper, c) == paper \in DOMAIN index.known /\ c \in index.known[paper]

\* is_stem_detail_item
IsStemDetail(item) == item.paradigm = "STEM" /\ item.scale = "detail"

\* validate_stem_detail_gold: something to compare numbers with.
StemDetailOk(gold) ==
    /\ gold.required # {}
    /\ gold.numbers # {} \/ \E t \in gold.required : IsNumber(t)

\* validate_chunk_id_format
ChunkNamed(c, paper) == c[1] = paper

\* resolve_paper_graph: the files afterwards and how it went.
Resolved(files, paper, policy) ==
    CASE files[paper].state = "ok" -> [status |-> "ok", files |-> files]
      [] files[paper].state = "broken" -> [status |-> "fail", files |-> files]
      [] OTHER ->
            IF policy.auto_seed /\ paper \in DOMAIN BuiltIn
            THEN [status |-> "ok", files |-> [files EXCEPT ![paper] = BuiltIn[paper]]]
            ELSE [status |-> IF policy.allow_skip THEN "skip" ELSE "fail", files |-> files]

\* The checks of one item whose graph is there.
ItemOk(item, graph, index) ==
    /\ IsStemDetail(item) => StemDetailOk(item.gold)
    /\ item.gold.nodes \subseteq graph.nodes /\ item.gold.edges \subseteq graph.edges
    /\ \A c \in item.gold.chunks : ChunkNamed(c, item.paper) /\ HasChunk(index, item.paper, c)

\* validate: 0, 1 for references that have gone, 2 for graphs that are not there.  An item
\* whose name has blanks around it finds no graph, is reported and does not count.
Validate(items, files, index, policy) ==
    LET papers == {Stripped[item.paper] : item \in {i \in Range(items) : i.paper # ""}} \ {""}
        resolved == [p \in papers |-> Resolved(files, p, policy)]
        After(p) == IF p \in papers THEN resolved[p].files[p] ELSE files[p]
        Loaded(p) == p \in papers /\ resolved[p].status = "ok"
        sound == \A item \in Range(items) : Loaded(item.paper) => ItemOk(item, After(item.paper), index)
    IN [files |-> [p \in DOMAIN files |-> After(p)],
        exit |-> IF items = <<>> \/ \E p \in papers : resolved[p].status = "fail" THEN 2
                 ELSE IF sound THEN 0 ELSE 1]

-----------------------------------------------------------------------------
\* What a green check promises of an item with a well-written name: an answer can cite
\* all that it asks for, and a question for numbers has numbers to be measured by.
Citable(item, files, index) ==
    /\ item.gold.nodes \subseteq files[item.paper].nodes
    /\ item.gold.edges \subseteq files[item.paper].edges
    /\ \A c \in item.gold.chunks : c[1] = item.paper /\ c \in index.known[c[1]]
    /\ item.paradigm = "STEM" /\ item.scale = "detail" =>
          ExpectedNumbers(item.gold) # {} /\ item.gold.required # {}
=============================================================================
