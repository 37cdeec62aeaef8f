--------------------------- MODULE VectorEvidence ---------------------------
(***************************************************************************)
(* What the vector store keeps of a paper: chunks, nodes and edges become  *)
(* documents with metadata, are embedded in batches, upserted under an     *)
(* identifier of paper, run and item, and read back by a question.         *)
(*                                                                         *)
(* A word is <<name, size>>, a text a sequence of words.  A piece of       *)
(* evidence is [kind, paper, local, text, fields]; a field without a value *)
(* is Absent.  A collection is a function from identifiers to rows.        *)
(***************************************************************************)
EXTENDS Naturals, Sequences, FiniteSets, SequencesExt, FiniteSetsExt, Functions

CONSTANTS
    Absent,        \* Python's None
    FragmentMax,   \* MAX_DATA_FRAGMENT_CHARS
    UpsertBatch,   \* settings.embedding_batch_size
    RequestBatch,  \* texts in one request to Ollama
    DefaultTopK    \* settings.rag_top_k_*

ASSUME VectorEvidenceAssumption ==
    /\ FragmentMax \in Nat \ {0} /\ DefaultTopK \in Nat
    /\ UpsertBatch \in Nat \ {0} /\ RequestBatch \in Nat \ {0}

-----------------------------------------------------------------------------
\* ---- From the graph to evidence ----------------------------------------
SemanticKeys == <<"description", "summary", "rationale", "evidence">>
Ellipsis == <<"...", 3>>

Chars(words) == FoldLeft(LAMBDA n, w : n + w[2] + 1, 0, words) - (IF words = <<>> THEN 0 ELSE 1)

Datum(data, key) == IF key \in DOMAIN data THEN data[key] ELSE <<>>

\* _first_text
FirstText(texts) ==
    LET said == SelectSeq(texts, LAMBDA t : t # <<>>)
    IN IF said = <<>> THEN Absent ELSE Head(said)

\* Up to the last blank within the limit, or within the first word if it has none.
Shortened(words) ==
    LET whole == {n \in DOMAIN words : Chars(SubSeq(words, 1, n)) < FragmentMax}
    IN (IF whole = {} THEN <<<<Head(words)[1], FragmentMax>>>> ELSE SubSeq(words, 1, Max(whole))) \o <<Ellipsis>>

\* _extract_semantic_text: the same sentence under two keys counts once.
SupportText(data) ==
    LET fragments == FoldLeft(LAMBDA kept, key :
                        IF Datum(data, key) \in {<<>>} \cup Range(kept) THEN kept ELSE Append(kept, Datum(data, key)),
                        <<>>, SemanticKeys)
        all == FlattenSeq(fragments)
    IN IF Chars(all) > FragmentMax THEN Shortened(all) ELSE all

Evidence(kind, paper, local, text, fields) ==
    [kind |-> kind, paper |-> paper, local |-> local, text |-> text, fields |-> fields]

\* _node_to_entity
EntityOf(paper, n) ==
    Evidence("entity", paper, n.id, <<n.label, n.type>> \o SupportText(n.data),
        [label |-> n.label, node_type |-> n.type,
         source_span |-> FirstText(<<Datum(n.data, "source_span"), Datum(n.data, "span")>>)])

\* graph_to_relations
LabelOrId(g, id) ==
    IF \E n \in Range(g.nodes) : n.id = id THEN (CHOOSE n \in Range(g.nodes) : n.id = id).label ELSE id

RelationOf(paper, g, e) ==
    Evidence("relation", paper, e.id,
        <<LabelOrId(g, e.source), e.type, LabelOrId(g, e.target)>>
            \o (IF e.rationale \in {<<>>, Absent} THEN <<>> ELSE <<<<"Rationale:", 10>>>> \o e.rationale)
            \o (IF e.source_span \in {<<>>, Absent} THEN <<>> ELSE <<<<"Source span:", 12>>>> \o e.source_span),
        [source_id |-> e.source, target_id |-> e.target, relation_type |-> e.type,
         rationale |-> e.rationale, source_span |-> e.source_span])

\* The identifier of a chunk holds its paper.
ChunkOf(paper, c) ==
    Evidence("chunk", paper, <<paper, c.index>>, c.text,
        [chunk_index |-> c.index, section |-> c.section, page_start |-> c.page, source |-> "pymupdf"])

GraphEvidence(paper, g, kind) ==
    CASE kind = "entity" -> [i \in DOMAIN g.nodes |-> EntityOf(paper, g.nodes[i])]
      [] kind = "relation" -> [i \in DOMAIN g.edges |-> RelationOf(paper, g, g.edges[i])]
      [] OTHER -> [i \in DOMAIN g.chunks |-> ChunkOf(paper, g.chunks[i])]

-----------------------------------------------------------------------------
\* ---- Embedding ---------------------------------------------------------
Failed == [ok |-> FALSE, vectors |-> <<>>]
Vectors(v) == [ok |-> TRUE, vectors |-> v]

\* Mutant: the batches come in the order in which they finish.
InBatchesUnordered(texts, size) ==
    Reverse([i \in 1..((Len(texts) + size - 1) \div size) |-> SubSeq(texts, (i - 1) * size + 1, Min({i * size, Len(texts)}))])

InBatches(texts, size) ==
    [i \in 1..((Len(texts) + size - 1) \div size) |-> SubSeq(texts, (i - 1) * size + 1, Min({i * size, Len(texts)}))]

\* The server: a text of a request makes it fail, or its vector is left out.
Served(texts, fate) ==
    IF \E t \in Range(texts) : fate[t] = "down" THEN Failed
    ELSE Vectors(FoldLeft(LAMBDA given, t : IF fate[t] = "short" THEN given ELSE Append(given, t), <<>>, texts))

\* One batch after the other; the first failure ends it.
BothAnswers(done, next) == IF ~done.ok \/ ~next.ok THEN Failed ELSE Vectors(done.vectors \o next.vectors)
Gathered(answers) == FoldLeft(BothAnswers, Vectors(<<>>), answers)

\* _OllamaEmbeddingBackend.embed_texts checks each answer.
OllamaRequest(batch, fate) ==
    IF Len(Served(batch, fate).vectors) # Len(batch) THEN Failed ELSE Served(batch, fate)

MockVector == <<<<"mock", 0>>>>

\* EmbeddingClient.embed_texts; the vector of a text is the text.
EmbedTexts(texts, client) ==
    CASE client.provider = "mock" -> Vectors([i \in DOMAIN texts |-> MockVector])
      [] client.provider = "ollama" -> LET requests == InBatches(texts, RequestBatch)
                                      IN Gathered([k \in DOMAIN requests |-> OllamaRequest(requests[k], client.fate)])
      [] OTHER -> Served(texts, client.fate)

EmbedInBatches(texts, client) ==
    IF Len(texts) <= UpsertBatch THEN EmbedTexts(texts, client)
    ELSE LET batches == InBatches(texts, UpsertBatch)
         IN Gathered([k \in DOMAIN batches |-> EmbedTexts(batches[k], client)])

-----------------------------------------------------------------------------
\* ---- Writing -----------------------------------------------------------
\* _chunk_chroma_id, _entity_chroma_id, _relation_chroma_id
RowId(e, run) ==
    IF run # Absent THEN <<e.paper, e.kind, run, e.local>>
    ELSE IF e.kind = "chunk" THEN <<e.local>> ELSE <<e.paper, e.kind, e.local>>

\* clean_metadata
Cleaned(meta) == Restrict(meta, {k \in DOMAIN meta : meta[k] # Absent})

Metadata(e, run) ==
    Cleaned([k \in {"paper_id", "local_id", "index_run_id"} \cup DOMAIN e.fields |->
                CASE k = "paper_id" -> e.paper
                  [] k = "local_id" -> e.local
                  [] k = "index_run_id" -> run
                  [] OTHER -> e.fields[k]])

Unwritten(store, why) == [store |-> store, outcome |-> why]

\* _upsert
UpsertRows(store, evidence, run, client) ==
    LET embedded == EmbedInBatches([i \in DOMAIN evidence |-> evidence[i].text], client)
        RowOf(i) == [text |-> evidence[i].text, meta |-> Metadata(evidence[i], run), vector |-> embedded.vectors[i]]
        Writers(id) == {i \in DOMAIN evidence : RowId(evidence[i], run) = id}
    IN IF ~embedded.ok \/ Len(embedded.vectors) # Len(evidence) THEN Unwritten(store, "error")
       ELSE [outcome |-> "done",
             store |-> [id \in DOMAIN store \cup {RowId(evidence[i], run) : i \in DOMAIN evidence} |->
                IF Writers(id) # {} THEN RowOf(Max(Writers(id))) ELSE store[id]]]

\* replace_paper_index up to the upsert of one collection: foreign evidence is refused,
\* a store that knows papers writes nothing without a run.
IndexEvidence(store, paper, evidence, run, managed, client) ==
    IF \E e \in Range(evidence) : e.paper # paper THEN Unwritten(store, "foreign")
    ELSE IF evidence = <<>> \/ (managed /\ run = Absent) THEN Unwritten(store, "skipped")
    ELSE UpsertRows(store, evidence, run, client)

-----------------------------------------------------------------------------
\* ---- Reading -----------------------------------------------------------
OrElse(meta, key, default) == IF key \in DOMAIN meta THEN meta[key] ELSE default

\* The text of a row whose document or metadata has gone is not evidence.
UsableRow(row) == row.text # Absent /\ "paper_id" \in DOMAIN row.meta

\* The fields of a kind and what stands for a missing one.
Defaults(kind) ==
    CASE kind = "chunk" -> [chunk_index |-> 0, section |-> Absent, page_start |-> Absent, source |-> "pymupdf"]
      [] kind = "entity" -> [label |-> "", node_type |-> "", source_span |-> Absent]
      [] OTHER -> [source_id |-> "", target_id |-> "", relation_type |-> "", rationale |-> Absent, source_span |-> Absent]

\* _parse_query_results
ParseRow(kind, id, row) ==
    Evidence(kind, row.meta["paper_id"], OrElse(row.meta, "local_id", id), row.text,
        [k \in DOMAIN Defaults(kind) |-> OrElse(row.meta, k, Defaults(kind)[k])])

ParseRows(kind, store, ids) == {ParseRow(kind, id, store[id]) : id \in {i \in ids : UsableRow(store[i])}}

\* _build_where
InScope(row, paper, run) ==
    /\ OrElse(row.meta, "paper_id", Absent) = paper
    /\ run # Absent => OrElse(row.meta, "index_run_id", Absent) = run

\* _query_embedding_validation_issue: what a vector that was made beforehand is like.
VectorIssues == {<<<<issue, 0>>>> : issue \in {"empty", "dimension_mismatch", "non_finite"}}

\* resolve_query_embeddings
SearchVector(q, client) ==
    IF q.given \in {Absent} \cup VectorIssues THEN EmbedTexts(<<q.text>>, client) ELSE Vectors(<<q.given>>)

\* Chroma: the rows that it takes for the nearest, of those in scope; it refuses a
\* vector that does not fit.
NearestRows(hits, k, vector) ==
    IF vector \in VectorIssues THEN {} ELSE kSubset(Min({k, Cardinality(hits)}), hits)

Hits(store, paper, run) == {id \in DOMAIN store : InScope(store[id], paper, run)}

\* Rows that a delete takes away while the question is being answered.
Emptied(store, ghosts) ==
    [id \in DOMAIN store |->
        CASE id \in DOMAIN ghosts /\ ghosts[id] = "text" -> [store[id] EXCEPT !.text = Absent]
          [] id \in DOMAIN ghosts /\ ghosts[id] = "meta" -> [store[id] EXCEPT !.meta = <<>>]
          [] OTHER -> store[id]]

\* VectorStore._query: every answer that a question may get; none is an exception.
QueryRows(store, ghosts, kind, q, managed, active, client) ==
    LET k == IF q.top_k = Absent THEN DefaultTopK ELSE q.top_k
        run == IF managed THEN active ELSE Absent
        search == SearchVector(q, client)
    IN IF managed /\ active = Absent THEN {{}}
       ELSE IF q.paper = "" THEN {}
       ELSE IF q.text = <<>> \/ k = 0 THEN {{}}
       ELSE IF ~search.ok THEN {}
       ELSE {ParseRows(kind, Emptied(store, ghosts), near) :
                near \in NearestRows(Hits(store, q.paper, run), k, search.vectors[1])}

-----------------------------------------------------------------------------
EvidenceKinds == {"chunk", "entity", "relation"}

\* What the store can give back: a piece of evidence with the fields of its kind, no
\* value missing that the reader would fill in, and a chunk's identifier with its paper.
Storable(e, kind) ==
    /\ e = Evidence(kind, e.paper, e.local, e.text, e.fields)
    /\ e.fields = [k \in DOMAIN Defaults(kind) |-> e.fields[k]]
    /\ \A k \in DOMAIN Defaults(kind) : e.fields[k] = Absent => Defaults(kind)[k] = Absent
    /\ e.text # Absent /\ e.paper # Absent /\ e.local # Absent
    /\ kind = "chunk" => e.local[1] = e.paper

RunOf(row) == OrElse(row.meta, "index_run_id", Absent)

\* Every row stands under the identifier of its paper, its run and its item.
Keyed(store, kind) ==
    \A id \in DOMAIN store :
        LET meta == store[id].meta
        IN /\ {"paper_id", "local_id"} \subseteq DOMAIN meta
           /\ kind = "chunk" => meta["local_id"][1] = meta["paper_id"]
           /\ id = RowId(Evidence(kind, meta["paper_id"], meta["local_id"], <<>>, <<>>), RunOf(store[id]))

\* What is embedded stays within its limit, and without an ellipsis it holds every
\* sentence that is worth embedding.
SupportTextFits(data) ==
    LET text == SupportText(data)
    IN /\ Chars(text) <= FragmentMax + Ellipsis[2] + 1
       /\ Ellipsis \notin Range(text) =>
            \A key \in Range(SemanticKeys) : \E i \in 1..(Len(text) + 1), j \in 0..Len(text) : SubSeq(text, i, j) = Datum(data, key)

\* What was written is found as it was, and what was there before is still found:
\* no two papers, runs or items share an identifier.
ReadsBackAsWritten(before, after, kind, paper, evidence, run) ==
    /\ ParseRows(kind, after, Hits(after, paper, run)) = Range(evidence)
    /\ \A id \in DOMAIN before : ~InScope(before[id], paper, run) => id \in DOMAIN after /\ after[id] = before[id]

\* Every row holds the vector of its own text, or nothing was written at all; that takes
\* a reason.
RowsHoldOwnVector(before, result, client) ==
    IF result.outcome = "done"
    THEN \A id \in DOMAIN result.store : result.store[id].vector \in {result.store[id].text, MockVector}
    ELSE /\ result.store = before
         /\ result.outcome = "error" => \E t \in DOMAIN client.fate : client.fate[t] # "ok"
=============================================================================
