---------------------------- MODULE QaBenchmark ----------------------------
(***************************************************************************)
(* The regression of question answering against the golden set: the events *)
(* of an answer are collected, deterministic guardrails (track A) and a    *)
(* judging model (track B) look at it, and the verdicts of all questions   *)
(* decide on the exit code.                                                *)
(*                                                                         *)
(* An answer is [says, nodes, edges, chunks, markers]: the tokens of its   *)
(* text, and what it cites by events and in the text.  A question has      *)
(* [scale, paradigm, gold, events, judge]; a chunk identifier is           *)
(* <<paper, number>>, <<"", number>> if the model left the paper out.      *)
(***************************************************************************)
EXTENDS Naturals, Integers, Sequences, FiniteSets, SequencesExt, FiniteSetsExt

CONSTANTS
    Inside,      \* Inside[t]: the tokens whose text is part of the text of t
    ValueOf,     \* ValueOf[t]: the number a token writes, in 1/1000; only numbers are in its domain
    DatasetLike  \* tokens that look like the name of a dataset

-----------------------------------------------------------------------------
\* ---- Track A: run_heuristic_guardrails ---------------------------------
Text(answer) == UNION {Inside[t] : t \in answer.says}

IsNumber(t) == t \in DOMAIN ValueOf

\* _parse_numeric_expectations, _resolve_expected_datasets: what is explicit, or what
\* the required patterns imply.
ExpectedNumbers(gold) ==
    IF gold.numbers # {} THEN gold.numbers
    ELSE {[value |-> ValueOf[t], abs |-> 0, rel |-> gold.rel] : t \in {u \in gold.required : IsNumber(u)}}

ExpectedDatasets(gold) ==
    IF gold.datasets # {} THEN gold.datasets
    ELSE {t \in gold.required : ~IsNumber(t) /\ t \in DatasetLike}

\* extract_numbers_from_text: a number is read where it stands, never inside another.
NumbersIn(answer) == {ValueOf[t] : t \in {u \in answer.says : IsNumber(u)}}

Distance(a, b) == IF a > b THEN a - b ELSE b - a
Size(a) == IF a < 0 THEN 0 - a ELSE a

\* numeric_values_match; rel is in per cent.
ValuesMatch(e, v) ==
    \/ Distance(e.value, v) <= e.abs
    \/ 100 * Distance(e.value, v) <= e.rel * Max({Size(e.value), Size(v)})

NumbersOk(gold, answer) ==
    \A e \in ExpectedNumbers(gold) : \E v \in NumbersIn(answer) : ValuesMatch(e, v)

DatasetsOk(gold, answer) == ExpectedDatasets(gold) \subseteq Text(answer)

ForbiddenTripped(gold, answer) == gold.forbidden \cap Text(answer) # {}

RequiredOk(gold, answer) == gold.required \subseteq Text(answer)

\* compute_paradigm_aligned
ParadigmAligned(q, answer) ==
    /\ ~ForbiddenTripped(q.gold, answer)
    /\ RequiredOk(q.gold, answer)
    /\ q.paradigm = "STEM" => NumbersOk(q.gold, answer) /\ DatasetsOk(q.gold, answer)

\* compute_graph_element_recall, as <<numerator, denominator>>.
GraphRecall(gold, answer) ==
    LET n == Cardinality(gold.nodes)
        e == Cardinality(gold.edges)
        n1 == Max({n, 1})
        e1 == Max({e, 1})
    IN IF n + e = 0 THEN <<1, 1>>
       ELSE <<2 * (Cardinality(answer.nodes \cap gold.nodes) * e1 + Cardinality(answer.edges \cap gold.edges) * n1),
              n1 * e1 * (n + e)>>

Nowhere == <<"", 0>>

\* _resolve_cited_chunk_id: as it is, or the only one that ends like it.  The paper a
\* citation names is not looked at in the last resort.
ResolvedChunk(c, expected) ==
    LET tails == {x \in expected : x[2] = c[2]}
    IN IF c \in expected THEN c
       ELSE IF Cardinality(tails) = 1 THEN CHOOSE x \in tails : TRUE ELSE Nowhere

\* compute_chunk_recall: citations of events and markers in the text alike.
ChunksHit(gold, answer) ==
    {ResolvedChunk(c, gold.chunks) : c \in answer.chunks \cup answer.markers} \ {Nowhere}

ChunkRecall(gold, answer) ==
    IF gold.chunks = {} THEN <<1, 1>> ELSE <<Cardinality(ChunksHit(gold, answer)), Cardinality(gold.chunks)>>

GuardrailsPass(q, answer) ==
    /\ ~ForbiddenTripped(q.gold, answer)
    /\ RequiredOk(q.gold, answer)
    /\ NumbersOk(q.gold, answer)
    /\ DatasetsOk(q.gold, answer)
    /\ ParadigmAligned(q, answer)

\* is_heuristic_hard_fuse_tripped
HardFuse(gold, answer) ==
    \/ ForbiddenTripped(gold, answer)
    \/ ExpectedNumbers(gold) # {} /\ ~NumbersOk(gold, answer)
    \/ ExpectedDatasets(gold) # {} /\ ~DatasetsOk(gold, answer)

-----------------------------------------------------------------------------
\* ---- Track B: the judge ------------------------------------------------
\* What a judge returns: [form, labels, detected].  "micro" has sentence labels only,
\* "full" the macro fields too; a label "?" does not validate.
JudgeLabels == {"supported", "hallucinated", "redundant"}
Verdict0 == [detected |-> FALSE, labels |-> <<>>, error |-> FALSE]

\* aggregate_sentence_judgments
Aggregate(labels) ==
    [detected |-> "hallucinated" \in Range(labels),
     labels |-> IF labels = <<>> THEN <<"supported">> ELSE labels, error |-> FALSE]

HighRisk == [detected |-> TRUE, labels |-> <<"hallucinated">>, error |-> FALSE]
JudgeError == [Verdict0 EXCEPT !.error = TRUE]

Validates(raw) ==
    /\ raw.labels # <<>>
    /\ Range(raw.labels) \subseteq JudgeLabels
    /\ "hallucinated" \in Range(raw.labels) => raw.detected

\* safe_parse_track_b_judge: a contradiction is resolved from the sentences.
SafeParse(raw) ==
    IF Validates(raw) THEN [detected |-> raw.detected, labels |-> raw.labels, error |-> FALSE]
    ELSE IF raw.labels # <<>> /\ Range(raw.labels) \subseteq JudgeLabels THEN Aggregate(raw.labels)
    ELSE HighRisk

\* resolve_judge_output; micro output that does not validate raises.
Resolve(raw) ==
    IF raw.form = "full" THEN SafeParse(raw)
    ELSE IF raw.labels # <<>> /\ Range(raw.labels) \subseteq JudgeLabels THEN Aggregate(raw.labels)
    ELSE JudgeError

Attempts == 3

\* run_with_judge_retry: raws are what the model does attempt by attempt.
AfterRetries(raws) ==
    LET final == {i \in 1..Attempts : raws[i].form # "transient"}
    IN IF final = {} \/ raws[Min(final \cup {Attempts})].form = "fatal" THEN JudgeError
       ELSE Resolve(raws[Min(final)])

-----------------------------------------------------------------------------
\* ---- Judge snapshots ---------------------------------------------------
\* file: [root, default, entries]; root is the prompt hash of the contract.
\* record
Recorded(file, prompt, micro) ==
    [file EXCEPT !.root = prompt,
                 !.entries = [p \in DOMAIN @ \cup {prompt} |-> IF p = prompt THEN micro ELSE @[p]]]

Drift == "drift"
Live == "live"

\* try_replay_judge: assert_contract_hash, then lookup.
Replayed(file, prompt) ==
    IF file.root # "none" /\ file.root # prompt THEN Drift
    ELSE IF prompt \in DOMAIN file.entries THEN file.entries[prompt]
    ELSE IF file.default # "none" THEN file.default ELSE Live

-----------------------------------------------------------------------------
\* ---- One question ------------------------------------------------------
Silent == [says |-> {}, nodes |-> {}, edges |-> {}, chunks |-> {}, markers |-> {}]

\* run_single_qa: each message makes a new result, without the error of the last.
Collect(r, e) ==
    CASE e.event = "message" ->
           [r EXCEPT !.answer.says = @ \cup e.says, !.answer.markers = @ \cup e.markers, !.code = "none"]
      [] e.event = "citation" ->
           [r EXCEPT !.answer.nodes = @ \cup e.nodes, !.answer.edges = @ \cup e.edges, !.answer.chunks = @ \cup e.chunks]
      [] e.event = "error" -> [r EXCEPT !.code = "error"]

Collected(events) == FoldLeft(Collect, [answer |-> Silent, code |-> "none"], events)

\* compute_question_hallucination_rate: either track.
Rate(fuse, detected) == IF fuse \/ detected THEN 1 ELSE 0

\* run_full_eval: a failed or empty answer is not judged, a failed judge is no verdict.
FullEval(q) ==
    LET r == Collected(q.events)
        asked == r.code = "none" /\ r.answer.says # {}
        verdict == IF asked THEN AfterRetries(q.judge) ELSE Verdict0
    IN [answer |-> r.answer, code |-> r.code, asked |-> asked, judgeError |-> verdict.error,
        rate |-> Rate(HardFuse(q.gold, r.answer), verdict.detected),
        passed |-> GuardrailsPass(q, r.answer),
        graph |-> GraphRecall(q.gold, r.answer), chunk |-> ChunkRecall(q.gold, r.answer)]

\* run_dry_eval: nothing is judged.
DryEval(q) ==
    LET r == Collected(q.events)
    IN [answer |-> r.answer, code |-> r.code, asked |-> FALSE, judgeError |-> FALSE, rate |-> 0, passed |-> TRUE,
        graph |-> GraphRecall(q.gold, r.answer), chunk |-> ChunkRecall(q.gold, r.answer)]

-----------------------------------------------------------------------------
\* ---- run_benchmark -----------------------------------------------------
\* _resolve_chunk_recall_gate_policy; floors in tenths.
GatePolicy(env) ==
    IF env.strict THEN [floor |-> 7, enforced |-> TRUE]
    ELSE IF env.dry \/ env.mock THEN [floor |-> 5, enforced |-> TRUE]
    ELSE [floor |-> 7, enforced |-> FALSE]

\* _compute_detail_recall_gate: the details of STEM papers, or all if there are none.
DetailCohort(questions) ==
    LET details == {i \in DOMAIN questions : questions[i].scale = "detail"}
        stem == {i \in details : questions[i].paradigm = "STEM"}
    IN IF stem # {} THEN stem ELSE details

Meets(recall, floor) == 10 * recall[1] >= floor * recall[2]

ChunkGatePasses(questions, results, floor) ==
    \A i \in DetailCohort(questions) :
       questions[i].gold.chunks # {} => Meets(results[i].chunk, floor)

Results(questions, env) ==
    [i \in DOMAIN questions |-> IF env.dry THEN DryEval(questions[i]) ELSE FullEval(questions[i])]

\* hallucination_ci_pass on the mean of the rates, which are 0 or 1
RedLine(results) == \E i \in DOMAIN results : results[i].rate > 0

\* Mutant: what no judge could be reached for is counted, to be judged later.
SuccessesJudgedLater(results) ==
    {i \in DOMAIN results : results[i].rate = 0 /\ results[i].code = "none" /\ results[i].passed}

\* The questions that are counted as a success.
Successes(results) ==
    {i \in DOMAIN results :
       results[i].rate = 0 /\ results[i].code = "none" /\ ~results[i].judgeError /\ results[i].passed}

ExitCode(questions, env) ==
    LET results == Results(questions, env)
        policy == GatePolicy(env)
    IN IF ~env.dry /\ RedLine(results) THEN "red_line"
       ELSE IF policy.enforced /\ ~ChunkGatePasses(questions, results, policy.floor) THEN "failed"
       ELSE "success"

-----------------------------------------------------------------------------
\* ---- What the benchmark promises ---------------------------------------
Clean(q, raw) ==
    LET answer == Collected(q.events).answer
    IN /\ \A t \in answer.says : Inside[t] \cap q.gold.forbidden = {}
       /\ \A e \in ExpectedNumbers(q.gold) : \E t \in answer.says : IsNumber(t) /\ ValuesMatch(e, ValueOf[t])
       /\ raw.form = "full" \/ (raw.form = "micro" /\ Range(raw.labels) \subseteq JudgeLabels)
            => "hallucinated" \notin Range(raw.labels)

\* The judge's last word on a question, if it was asked.
LastWord(q) ==
    LET r == Collected(q.events)
        said == {i \in 1..Attempts : q.judge[i].form # "transient"}
    IN IF r.code = "none" /\ r.answer.says # {} /\ said # {} THEN q.judge[Min(said)] ELSE [form |-> "none", labels |-> <<>>, detected |-> FALSE]
=============================================================================
