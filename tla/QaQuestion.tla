----------------------------- MODULE QaQuestion -----------------------------
(***************************************************************************)
(* From a question to the prompt: the rules that route a question to a     *)
(* scale, the neighbourhood of the graph that goes into the prompt, and    *)
(* the sections of retrieved text within their budget.                     *)
(*                                                                         *)
(* A question is [words, ids]: the kinds of words it holds and the paper   *)
(* identifiers it names.  A graph is [paradigm, nodes, edges] with nodes   *)
(* [id, type, words] and edges <<id, source, target>>.                     *)
(***************************************************************************)
EXTENDS Naturals, Integers, Sequences, FiniteSets, SequencesExt, FiniteSetsExt

CONSTANTS
    Folded,      \* Folded[i]: identifier i in lower case
    MarkerSize   \* length of the note that the context was cut

-----------------------------------------------------------------------------
\* ---- detect_question_scale ---------------------------------------------
\* The tables of words, by what they are tables of.
WordKinds ==
    {"cross", "verify", "macro", "keyword", "relation", "excluded", "number", "summary",
     "experiment", "material", "which", "whether", "design", "lens"}

\* _references_foreign_paper_id
ForeignId(q, own) == own # "none" /\ \E i \in q.ids : Folded[i] # Folded[own]

Crosses(q, own) == "cross" \in q.words \/ ForeignId(q, own)

Verifies(q, paradigm) ==
    \/ "verify" \in q.words
    \/ paradigm = "STEM" /\ "experiment" \in q.words /\ q.words \cap {"which", "whether"} # {}
    \/ paradigm = "HSS" /\ {"material", "which"} \subseteq q.words

\* _matches_detail
Details(q, paradigm) ==
    \/ q.words \cap {"keyword", "number"} # {}
    \/ "relation" \in q.words /\ "excluded" \notin q.words
    \/ paradigm = "STEM" /\ "design" \in q.words
    \/ paradigm = "HSS" /\ "lens" \in q.words /\ "verify" \notin q.words

ScaleOf(q, paradigm, own) ==
    IF Crosses(q, own) THEN "cross_paper"
    ELSE IF Verifies(q, paradigm) THEN "verification"
    ELSE IF "macro" \notin q.words /\ Details(q, paradigm) THEN "detail"
    ELSE "summary"

\* retrieve asks the vector store for anything but a summary.
AsksVectors(scale) == scale # "summary"

-----------------------------------------------------------------------------
\* ---- GraphQuery --------------------------------------------------------
Seeds(g, keywords) == {n.id : n \in {m \in g.nodes : m.words \cap keywords # {}}}

\* One hop: the edges at the frontier, whether or not their other end is a node.
EdgesAt(g, frontier) == {e \in g.edges : e[2] \in frontier \/ e[3] \in frontier}
EndsOf(edges) == {e[2] : e \in edges} \cup {e[3] : e \in edges}
NodeIds(g) == {n.id : n \in g.nodes}

\* Mutant: the edges of the last hop are followed once more.
NeighbourhoodLoose(g, seeds) ==
    LET first == seeds \cup (EndsOf(EdgesAt(g, seeds)) \cap NodeIds(g))
        second == first \cup (EndsOf(EdgesAt(g, first)) \cap NodeIds(g))
    IN [nodes |-> second, edges |-> EdgesAt(g, second)]

Neighbourhood(g, seeds) ==
    LET first == seeds \cup (EndsOf(EdgesAt(g, seeds)) \cap NodeIds(g))
        second == first \cup (EndsOf(EdgesAt(g, first)) \cap NodeIds(g))
    IN [nodes |-> second, edges |-> EdgesAt(g, first)]

TopTypes(paradigm) ==
    IF paradigm = "HSS" THEN {"Thesis", "SubArgument"} ELSE {"ResearchQuestion", "Claim", "Method"}

\* _fallback_subgraph: no word of the question is in the graph.
TopLevel(g) ==
    LET top == {n.id : n \in {m \in g.nodes : m.type \in TopTypes(g.paradigm)}}
    IN [nodes |-> top, edges |-> {e \in g.edges : e[2] \in top /\ e[3] \in top}]

SubgraphFor(g, keywords) ==
    LET seeds == Seeds(g, keywords) IN IF seeds = {} THEN TopLevel(g) ELSE Neighbourhood(g, seeds)

\* resolve_prompt_subgraph: what the retrieval brought, and a second query for the
\* half that is missing.
PromptSubgraph(g, keywords, rc) ==
    LET again == SubgraphFor(g, keywords)
    IN [nodes |-> IF rc.nodes # {} THEN rc.nodes ELSE again.nodes,
        edges |-> IF rc.edges # {} THEN rc.edges ELSE again.edges]

-----------------------------------------------------------------------------
\* ---- format_retrieval_context -------------------------------------------
\* A section is the sequence of the lengths of its lines.
TextLen(section) == FoldLeft(LAMBDA n, line : n + line, 0, section) + Max({Len(section) - 1, 0})
ContextLen(sections) == TextLen(sections.chunks) + TextLen(sections.relations) + TextLen(sections.entities)

\* _trim_section_tail: the last line, or the end of the only one.
TrimTail(section, excess) ==
    IF Len(section) > 1 THEN Front(section)
    ELSE IF section[1] > excess THEN <<section[1] - excess>> ELSE <<>>

\* The order in which sections give way.
Victim(sections) ==
    IF sections.chunks # <<>> THEN "chunks" ELSE IF sections.relations # <<>> THEN "relations" ELSE "entities"

\* Each pass of the loop takes a line or the whole excess.
Trimmed(sections, budget) ==
    LET lines == Len(sections.chunks) + Len(sections.relations) + Len(sections.entities)
        Pass(s, i) == IF ContextLen(s) <= budget THEN s ELSE [s EXCEPT ![Victim(s)] = TrimTail(@, ContextLen(s) - budget)]
    IN FoldLeft(Pass, sections, [i \in 1..(lines + 1) |-> i])

\* _apply_context_char_budget: the note goes to the section that was cut last.
WithinBudget(sections, max) ==
    IF ContextLen(sections) <= max THEN sections
    ELSE LET cut == Trimmed(sections, Max({max - MarkerSize, 0}))
         IN IF ContextLen(cut) = 0 THEN cut
            ELSE LET last == cut[Victim(cut)]
                 IN [cut EXCEPT ![Victim(cut)] = [last EXCEPT ![Len(last)] = @ + MarkerSize]]

-----------------------------------------------------------------------------
\* ---- What the prompt promises ------------------------------------------
\* Nodes at most n edges away from one of the seeds.
Within(g, seeds, n) ==
    LET reach[i \in 0..n] ==
            IF i = 0 THEN seeds
            ELSE {x \in NodeIds(g) : x \in reach[i - 1] \/ \E e \in g.edges :
                     (e[2] = x /\ e[3] \in reach[i - 1]) \/ (e[3] = x /\ e[2] \in reach[i - 1])}
    IN reach[n]

\* The sections of lower rank are gone before one of higher rank loses a line.
GivesWayInOrder(before, after) ==
    /\ after.entities # before.entities => after.relations = <<>> /\ after.chunks = <<>>
    /\ after.relations # before.relations => after.chunks = <<>>
=============================================================================
