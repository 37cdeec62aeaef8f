-------------------------- MODULE AlgorithmProofs --------------------------
(***************************************************************************)
(* Proofs about the pure parts of the backend, for every input: what a     *)
(* green benchmark, golden set or baseline means, what a document's head   *)
(* keeps of its findings, what a question's prompt is put together from,   *)
(* what the vector store gives back, how a long paper is cut into pieces,  *)
(* and what a patrol may conclude.                                         *)
(* The theorems of the first parts are about one call of an algorithm; the *)
(* last part concludes that the specification of MCAlgorithms keeps its    *)
(* property for whatever inputs it is given, not only for those of a run.  *)
(***************************************************************************)
EXTENDS MCAlgorithms, GraphMergeProofs

-----------------------------------------------------------------------------
\* ---- The benchmark ------------------------------------------------------
\* The judge's model was heard at least once, or was never heard.
Forms == {"micro", "full", "transient", "fatal"}
JudgeHeard(q) == \A i \in 1..Attempts : q.judge[i].form \in Forms

\* A verdict that found nothing is that of the first attempt that was no transient
\* failure, and none of its sentences was called hallucinated.
LEMMA VerdictIsLastWord ==
  ASSUME NEW q, NEW final, final = {i \in 1..Attempts : q.judge[i].form # "transient"},
         ~AfterRetries(q.judge).detected, final # {},
         NEW raw, raw = q.judge[Min(final)]
  PROVE  /\ raw.form = "full" \/ (raw.form = "micro" /\ Range(raw.labels) \subseteq JudgeLabels)
              => "hallucinated" \notin Range(raw.labels)
         /\ ~AfterRetries(q.judge).error => raw.form # "fatal"
<1>1. /\ final \in SUBSET Nat /\ final \cup {Attempts} \in SUBSET Nat
      /\ \A i \in final : i <= Attempts
  BY DEF Attempts
<1>2. /\ Min(final) \in final /\ \A y \in final : Min(final) <= y
      /\ Min(final \cup {Attempts}) \in final \cup {Attempts}
      /\ \A y \in final \cup {Attempts} : Min(final \cup {Attempts}) <= y
  BY <1>1, LeastOf
<1>3. Min(final \cup {Attempts}) = Min(final)
  <2> DEFINE a == Min(final)
             b == Min(final \cup {Attempts})
  <2>1. a \in Nat /\ b \in Nat /\ a <= Attempts /\ b <= a /\ (b \in final \/ b = Attempts)
    BY <1>1, <1>2
  <2>2. b \in final => a <= b
    BY <1>2
  <2> QED
    BY <2>1, <2>2 DEF Attempts
<1>4. AfterRetries(q.judge) = IF raw.form = "fatal" THEN JudgeError ELSE Resolve(raw)
  BY <1>3 DEF AfterRetries
<1>5. CASE raw.form = "fatal"
  BY <1>4, <1>5 DEF JudgeError, Verdict0
<1>6. CASE raw.form # "fatal"
  <2>1. ~Resolve(raw).detected
    BY <1>4, <1>6
  <2>2. CASE raw.form = "full"
    <3>1. ~SafeParse(raw).detected
      BY <2>1, <2>2 DEF Resolve
    <3> QED
      BY <1>6, <3>1 DEF SafeParse, Validates, Aggregate, HighRisk
  <2>3. CASE raw.form = "micro"
    <3>1. raw.labels = <<>> => "hallucinated" \notin Range(raw.labels)
      BY DEF Range
    <3> QED
      BY <1>6, <2>1, <2>3, <3>1 DEF Resolve, Aggregate
  <2> QED
    BY <1>6, <2>2, <2>3
<1> QED
  BY <1>5, <1>6

\* For every set of questions, answers and verdicts (scripts/benchmark_qa.py run_benchmark):
\* a run of the benchmark that is green has no answer with a forbidden pattern, without a
\* number it should give or with a sentence that a readable verdict calls hallucinated.
THEOREM GreenAnswersAreClean ==
  ASSUME NEW questions, NEW env, ~env.dry, ExitCode(questions, env) = "success"
  PROVE  \A i \in DOMAIN questions : Clean(questions[i], LastWord(questions[i]))
<1> TAKE i \in DOMAIN questions
<1> DEFINE q == questions[i]
           r == Collected(q.events)
           asked == r.code = "none" /\ r.answer.says # {}
           verdict == IF asked THEN AfterRetries(q.judge) ELSE Verdict0
<1>1. Results(questions, env)[i].rate = Rate(HardFuse(q.gold, r.answer), verdict.detected)
  BY DEF Results, FullEval
<1>2. ~RedLine(Results(questions, env)) /\ i \in DOMAIN Results(questions, env)
  BY DEF ExitCode, Results
<1>3. ~(Results(questions, env)[i].rate > 0)
  BY <1>2 DEF RedLine
<1>4. ~HardFuse(q.gold, r.answer) /\ ~verdict.detected
  BY <1>1, <1>3 DEF Rate
<1>5. \A t \in r.answer.says : Inside[t] \cap q.gold.forbidden = {}
  BY <1>4 DEF HardFuse, ForbiddenTripped, Text
<1>6. \A e \in ExpectedNumbers(q.gold) : \E t \in r.answer.says : IsNumber(t) /\ ValuesMatch(e, ValueOf[t])
  BY <1>4 DEF HardFuse, NumbersOk, NumbersIn
<1> DEFINE raw == LastWord(q)
           said == {k \in 1..Attempts : q.judge[k].form # "transient"}
<1>7. raw.form = "full" \/ (raw.form = "micro" /\ Range(raw.labels) \subseteq JudgeLabels)
         => "hallucinated" \notin Range(raw.labels)
  <2>1. CASE asked /\ said # {}
    <3>1. raw = q.judge[Min(said)]
      BY <2>1 DEF LastWord
    <3>2. ~AfterRetries(q.judge).detected
      BY <1>4, <2>1
    <3> QED
      BY <2>1, <3>1, <3>2, VerdictIsLastWord
  <2>2. CASE ~(asked /\ said # {})
    BY <2>2 DEF LastWord
  <2> QED
    BY <2>1, <2>2
<1> QED
  BY <1>5, <1>6, <1>7 DEF Clean

\* For every question with a required pattern and a judge that answers in one of its forms
\* (scripts/benchmark_qa.py run_benchmark): what is counted as a success was answered, the
\* judge's last word on it is a verdict, and the answer holds every required pattern.
THEOREM SuccessNeedsAnswers ==
  ASSUME NEW questions, NEW env, ~env.dry,
         \A i \in DOMAIN questions : questions[i].gold.required # {} /\ JudgeHeard(questions[i])
  PROVE  \A i \in Successes(Results(questions, env)) :
            /\ Results(questions, env)[i].asked
            /\ LastWord(questions[i]).form \in {"micro", "full"}
            /\ questions[i].gold.required \subseteq Text(Results(questions, env)[i].answer)
<1> TAKE i \in Successes(Results(questions, env))
<1> DEFINE q == questions[i]
           r == Collected(q.events)
           asked == r.code = "none" /\ r.answer.says # {}
           verdict == IF asked THEN AfterRetries(q.judge) ELSE Verdict0
           said == {k \in 1..Attempts : q.judge[k].form # "transient"}
<1>1. i \in DOMAIN questions
  BY DEF Successes, Results
<1>2. /\ Results(questions, env)[i].code = r.code
      /\ Results(questions, env)[i].answer = r.answer
      /\ Results(questions, env)[i].passed = GuardrailsPass(q, r.answer)
      /\ Results(questions, env)[i].rate = Rate(HardFuse(q.gold, r.answer), verdict.detected)
      /\ Results(questions, env)[i].judgeError = verdict.error
      /\ Results(questions, env)[i].asked = asked
  BY <1>1 DEF Results, FullEval
<1>3. /\ r.code = "none" /\ GuardrailsPass(q, r.answer) /\ ~verdict.error
      /\ Rate(HardFuse(q.gold, r.answer), verdict.detected) = 0
  BY <1>2 DEF Successes
<1>4. q.gold.required \subseteq Text(r.answer)
  BY <1>3 DEF GuardrailsPass, RequiredOk
<1>5. r.answer.says # {}
  BY <1>1, <1>4 DEF Text
<1>6. asked /\ ~AfterRetries(q.judge).error /\ ~AfterRetries(q.judge).detected
  BY <1>3, <1>5 DEF Rate
<1>7. said # {}
  BY <1>6 DEF AfterRetries, JudgeError, Verdict0
<1>8. LastWord(q) = q.judge[Min(said)]
  BY <1>6, <1>7 DEF LastWord
<1>9. Min(said) \in said
  <2>1. said \in SUBSET Nat
    BY DEF Attempts
  <2> HIDE DEF said
  <2> QED
    BY <1>7, <2>1, LeastOf
<1>10. q.judge[Min(said)].form \in Forms \ {"transient"}
  BY <1>1, <1>9 DEF JudgeHeard
<1>11. q.judge[Min(said)].form # "fatal"
  BY <1>6, <1>7, VerdictIsLastWord
<1> QED
  BY <1>2, <1>4, <1>6, <1>8, <1>10, <1>11 DEF Forms

\* For every set of questions (scripts/benchmark_qa.py _resolve_chunk_recall_gate_policy):
\* what passes the gate of a release passes every other gate.
THEOREM StrictGateIsStrictest ==
  ASSUME NEW questions, NEW env \in [strict : BOOLEAN, dry : BOOLEAN, mock : BOOLEAN],
         \A i \in DOMAIN questions : IsFiniteSet(questions[i].gold.chunks),
         env.strict, ExitCode(questions, env) = "success"
  PROVE  ExitCode(questions, [env EXCEPT !.strict = FALSE]) = "success"
<1> DEFINE lax == [env EXCEPT !.strict = FALSE]
           results == Results(questions, env)
<1>1. lax.dry = env.dry /\ lax.mock = env.mock /\ lax.strict = FALSE
  OBVIOUS
<1>2. Results(questions, lax) = results
  BY <1>1 DEF Results
<1>3. ~(~env.dry /\ RedLine(results)) /\ ChunkGatePasses(questions, results, 7)
  BY DEF ExitCode, GatePolicy
<1>4. GatePolicy(lax).floor \in {5, 7}
  BY DEF GatePolicy
<1>5. ChunkGatePasses(questions, results, GatePolicy(lax).floor)
  <2> SUFFICES ASSUME NEW i \in DetailCohort(questions), questions[i].gold.chunks # {}
               PROVE  Meets(results[i].chunk, GatePolicy(lax).floor)
    BY DEF ChunkGatePasses
  <2> DEFINE gold == questions[i].gold
             reply == Collected(questions[i].events).answer
  <2>1. i \in DOMAIN questions
    BY DEF DetailCohort
  <2>2. results[i].chunk = <<Cardinality(ChunksHit(gold, reply)), Cardinality(gold.chunks)>>
    BY <2>1 DEF Results, FullEval, DryEval, ChunkRecall
  <2>3. IsFiniteSet(gold.chunks) /\ Cardinality(gold.chunks) \in Nat
    BY <2>1, FS_CardinalityType
  <2>4. Cardinality(ChunksHit(gold, reply)) \in Nat
    <3>1. ChunksHit(gold, reply) \subseteq gold.chunks
      <4> SUFFICES ASSUME NEW c, ResolvedChunk(c, gold.chunks) # Nowhere
                   PROVE  ResolvedChunk(c, gold.chunks) \in gold.chunks
        BY DEF ChunksHit
      <4> DEFINE tails == {x \in gold.chunks : x[2] = c[2]}
      <4>1. CASE c \in gold.chunks
        BY <4>1 DEF ResolvedChunk
      <4>2. CASE c \notin gold.chunks
        <5>1. Cardinality(tails) = 1 /\ ResolvedChunk(c, gold.chunks) = CHOOSE x \in tails : TRUE
          BY <4>2 DEF ResolvedChunk
        <5>2. tails # {}
          BY <5>1, FS_EmptySet
        <5> QED
          BY <5>1, <5>2
      <4> QED
        BY <4>1, <4>2
    <3> QED
      BY <2>3, <3>1, FS_Subset, FS_CardinalityType
  <2>5. Meets(results[i].chunk, 7)
    BY <1>3 DEF ChunkGatePasses
  <2> QED
    BY <1>4, <2>2, <2>3, <2>4, <2>5 DEF Meets
<1> QED
  BY <1>1, <1>2, <1>3, <1>5 DEF ExitCode

\* For every gold set and answer (rag/qa_heuristics.py _resolve_cited_chunk_id): a gold chunk
\* is credited to a citation that names it, or that can mean no other gold chunk.
THEOREM CreditMeansOneChunk ==
  ASSUME NEW gold, IsFiniteSet(gold.chunks), NEW reply, NEW x \in ChunksHit(gold, reply)
  PROVE  \E c \in reply.chunks \cup reply.markers :
            c = x \/ (c[2] = x[2] /\ \A y \in gold.chunks : y[2] = x[2] => y = x)
<1>1. PICK c \in reply.chunks \cup reply.markers : x = ResolvedChunk(c, gold.chunks) /\ x # Nowhere
  BY DEF ChunksHit
<1> DEFINE tails == {y \in gold.chunks : y[2] = c[2]}
<1>2. CASE c \in gold.chunks
  BY <1>1, <1>2 DEF ResolvedChunk
<1>3. CASE c \notin gold.chunks
  <2>1. Cardinality(tails) = 1 /\ x = CHOOSE y \in tails : TRUE
    BY <1>1, <1>3 DEF ResolvedChunk
  <2>2. IsFiniteSet(tails)
    BY FS_Subset
  <2>3. PICK z : tails = {z}
    BY <2>1, <2>2, FS_Singleton
  <2>4. x = z
    BY <2>1, <2>3
  <2>5. c[2] = x[2] /\ \A y \in gold.chunks : y[2] = x[2] => y = x
    BY <2>3, <2>4
  <2> QED
    BY <2>5
<1> QED
  BY <1>2, <1>3

-----------------------------------------------------------------------------
\* ---- The golden set -----------------------------------------------------
\* What becomes of a paper's graph file (resolve_paper_graph): only one that is absent is
\* written, and one that is there afterwards was counted as loaded.
LEMMA GraphResolved ==
  \A files, policy : \A p \in DOMAIN files :
     /\ files[p].state \in {"ok", "broken"} => Resolved(files, p, policy).files = files
     /\ Resolved(files, p, policy).files[p].state = "ok" => Resolved(files, p, policy).status = "ok"
     /\ Resolved(files, p, policy).status \in {"ok", "fail", "skip"}
     /\ Resolved(files, p, policy).status = "ok" => Resolved(files, p, policy).files[p].state = "ok"
<1> TAKE files, policy
<1> TAKE p \in DOMAIN files
<1> QED
  BY GoldenSetAssumption DEF Resolved

LEMMA CiSkipsNone ==
  ASSUME NEW files, NEW p \in DOMAIN files, NEW policy, policy.allow_skip = FALSE
  PROVE  Resolved(files, p, policy).status # "skip"
BY DEF Resolved

\* The papers whose graphs are looked up.
PapersOf(items) == {Stripped[item.paper] : item \in {i \in Range(items) : i.paper # ""}} \ {""}

\* An item without a blank around the name of its paper.
WellNamed(item) == item.paper # "" /\ Stripped[item.paper] = item.paper

\* What a check leaves behind, and what it must have found to be green.
LEMMA Validated ==
  \A items, files, index, policy, after : after = Validate(items, files, index, policy) =>
     /\ \A p \in DOMAIN files :
           after.files[p] = IF p \in PapersOf(items) THEN Resolved(files, p, policy).files[p] ELSE files[p]
     /\ after.exit = 0 =>
           /\ \A p \in PapersOf(items) : Resolved(files, p, policy).status # "fail"
           /\ \A item \in Range(items) :
                 item.paper \in PapersOf(items) /\ Resolved(files, item.paper, policy).status = "ok" =>
                    ItemOk(item, Resolved(files, item.paper, policy).files[item.paper], index)
<1> TAKE items, files, index, policy, after
<1> HAVE after = Validate(items, files, index, policy)
<1> DEFINE resolved == [p \in PapersOf(items) |-> Resolved(files, p, policy)]
           After(p) == IF p \in PapersOf(items) THEN resolved[p].files[p] ELSE files[p]
           Loaded(p) == p \in PapersOf(items) /\ resolved[p].status = "ok"
           sound == \A item \in Range(items) : Loaded(item.paper) => ItemOk(item, After(item.paper), index)
           exit == IF items = <<>> \/ \E p \in PapersOf(items) : resolved[p].status = "fail" THEN 2
                   ELSE IF sound THEN 0 ELSE 1
<1>1. after = [files |-> [p \in DOMAIN files |-> After(p)], exit |-> exit]
  BY DEF Validate, PapersOf
<1>2. after.files = [p \in DOMAIN files |-> After(p)] /\ after.exit = exit
  BY <1>1
<1>3. \A p \in PapersOf(items) : resolved[p] = Resolved(files, p, policy)
  OBVIOUS
<1>4. exit = 0 => sound /\ \A p \in PapersOf(items) : resolved[p].status # "fail"
  OBVIOUS
<1> QED
  BY <1>2, <1>3, <1>4

\* For every golden set, graph files and index (scripts/validate_golden_qa.py validate): a
\* green check means of every item with a well-written name, unless its graph was skipped,
\* that all it asks to be cited is there and a question for numbers has numbers.
THEOREM GreenItemsAreCitable ==
  ASSUME NEW items, NEW files, NEW index, NEW args, NEW ci,
         NEW item \in Range(items), WellNamed(item), item.paper \in DOMAIN files,
         NEW after, after = Validate(items, files, index, Policy(args, ci)),
         after.exit = 0, after.files[item.paper].state = "ok"
  PROVE  Citable(item, after.files, index)
<1>1. item.paper \in PapersOf(items)
  BY DEF PapersOf, WellNamed
<1>2. after.files[item.paper] = Resolved(files, item.paper, Policy(args, ci)).files[item.paper]
  BY <1>1, Validated
<1>3. Resolved(files, item.paper, Policy(args, ci)).status = "ok"
  BY <1>2, GraphResolved
<1>4. ItemOk(item, after.files[item.paper], index)
  BY <1>1, <1>2, <1>3, Validated
<1>5. IsStemDetail(item) => ExpectedNumbers(item.gold) # {} /\ item.gold.required # {}
  BY <1>4 DEF ItemOk, StemDetailOk, ExpectedNumbers
<1> QED
  BY <1>4, <1>5 DEF ItemOk, Citable, ChunkNamed, HasChunk, IsStemDetail

\* Nothing is written over, and without leave to skip every graph is there.
LEMMA GraphsThere ==
  \A items, files, index, policy, after :
     /\ \A p \in DOMAIN files : files[p].state \in {"ok", "absent", "broken"}
     /\ after = Validate(items, files, index, policy)
     => /\ \A p \in DOMAIN files : files[p].state # "absent" => after.files[p] = files[p]
        /\ policy.allow_skip = FALSE /\ after.exit = 0 =>
              \A p \in PapersOf(items) \cap DOMAIN files : after.files[p].state = "ok"
<1> TAKE items, files, index, policy, after
<1> HAVE /\ \A p \in DOMAIN files : files[p].state \in {"ok", "absent", "broken"}
         /\ after = Validate(items, files, index, policy)
<1>1. ASSUME NEW p \in DOMAIN files, files[p].state # "absent"
      PROVE  after.files[p] = files[p]
  <2>1. files[p].state \in {"ok", "broken"}
    BY <1>1
  <2>2. Resolved(files, p, policy).files = files
    BY <2>1, GraphResolved
  <2> QED
    BY <2>2, Validated
<1>2. ASSUME policy.allow_skip = FALSE, after.exit = 0, NEW p \in PapersOf(items) \cap DOMAIN files
      PROVE  after.files[p].state = "ok"
  <2>1. Resolved(files, p, policy).status # "fail"
    BY <1>2, Validated
  <2>2. Resolved(files, p, policy).status # "skip"
    BY <1>2, CiSkipsNone
  <2>3. Resolved(files, p, policy).files[p].state = "ok"
    BY <1>2, <2>1, <2>2, GraphResolved
  <2> QED
    BY <1>2, <2>3, Validated
<1> QED
  BY <1>1, <1>2

\* For every golden set (build_validate_policy, resolve_paper_graph): no check writes over a
\* graph file that is there, and on a CI runner no flag turns a missing graph into a
\* success.
THEOREM NoFlagSkipsOnCi ==
  ASSUME NEW items, NEW files, NEW index, NEW args, NEW ci \in BOOLEAN,
         \A p \in DOMAIN files : files[p].state \in {"ok", "absent", "broken"},
         NEW after, after = Validate(items, files, index, Policy(args, ci))
  PROVE  /\ \A p \in DOMAIN files : files[p].state # "absent" => after.files[p] = files[p]
         /\ ci /\ after.exit = 0 =>
               \A p \in PapersOf(items) \cap DOMAIN files : after.files[p].state = "ok"
<1>1. ci => Policy(args, ci).allow_skip = FALSE
  BY DEF Policy
<1> QED
  BY <1>1, GraphsThere

-----------------------------------------------------------------------------
\* ---- The baseline -------------------------------------------------------
\* For every report (scripts/regression baseline): the report a baseline was made of
\* passes the comparison with it, whatever it lacks.
THEOREM ReportPassesItsBaseline ==
  ASSUME NEW report, NEW b \in BaselinesFrom(report)
  PROVE  ReportOk(report, b)
<1>1. /\ b.ids = report.ids /\ b.totals = TotalsOf(report) /\ ValidBaseline(b)
      /\ b.papers = [p \in Range(report.ids) \cap DOMAIN report.rows |->
                       [pages |-> report.rows[p].pages,
                        quality |-> QualityOf(report.rows[p], report.rows[p].pages)]]
  BY DEF BaselinesFrom
<1>2. Range(b.ids) = DOMAIN b.papers
  BY <1>1 DEF ValidBaseline
<1>3. \A p \in Range(b.ids) :
         /\ p \in DOMAIN report.rows
         /\ PagesFor(report, b, p) = report.rows[p].pages
         /\ b.papers[p].quality = QualityOf(report.rows[p], PagesFor(report, b, p))
  BY <1>1, <1>2 DEF PagesFor
<1>4. \A i \in DOMAIN b.ids : ScoreDiffs(report, b, b.ids[i]) = {}
  BY <1>3 DEF ScoreDiffs, Range
<1>5. \A p \in Range(b.ids) : NoWorse(QualityOf(report.rows[p], PagesFor(report, b, p)))
  BY <1>1, <1>2, <1>3 DEF ValidBaseline
<1> QED
  BY <1>1, <1>4, <1>5 DEF ReportOk

\* For every pair of reports (compare_report_to_baseline): a green comparison means that no
\* parser got worse, or no longer runs, on any paper of the corpus.
THEOREM WorseTurnsRed ==
  ASSUME NEW first, NEW later, NEW b \in BaselinesFrom(first), ReportOk(later, b)
  PROVE  NothingGotWorse(first, later)
<1>1. /\ b.ids = first.ids /\ ValidBaseline(b)
      /\ b.papers = [p \in Range(first.ids) \cap DOMAIN first.rows |->
                       [pages |-> first.rows[p].pages,
                        quality |-> QualityOf(first.rows[p], first.rows[p].pages)]]
  BY DEF BaselinesFrom
<1> SUFFICES ASSUME NEW p \in Range(first.ids)
             PROVE  /\ p \in DOMAIN later.rows
                    /\ LET pages == IF later.rows[p].pages # Unknown THEN later.rows[p].pages ELSE first.rows[p].pages
                           was == QualityOf(first.rows[p], first.rows[p].pages)
                           is == QualityOf(later.rows[p], pages)
                       IN Unknown \notin Range(is) /\ \A f \in Fields3 : is[f] >= was[f]
  BY DEF NothingGotWorse
<1>2. p \in DOMAIN b.papers
  BY <1>1 DEF ValidBaseline
<1>3. b.papers[p].pages = first.rows[p].pages /\ b.papers[p].quality = QualityOf(first.rows[p], first.rows[p].pages)
  BY <1>1, <1>2
<1>4. ScoreDiffs(later, b, p) = {}
  BY <1>1 DEF ReportOk, Range
<1>5. p \in DOMAIN later.rows
  BY <1>4 DEF ScoreDiffs
<1> DEFINE pages == IF later.rows[p].pages # Unknown THEN later.rows[p].pages ELSE first.rows[p].pages
           is == QualityOf(later.rows[p], pages)
<1>6. \A f \in Fields3 : is[f] = b.papers[p].quality[f] /\ b.papers[p].quality[f] \in 0..4
  BY <1>1, <1>2, <1>3, <1>4, <1>5 DEF ScoreDiffs, PagesFor, ValidBaseline
<1>7. \A f \in Fields3 : is[f] >= b.papers[p].quality[f]
  BY <1>6
<1>8. Unknown \notin Range(is)
  <2>1. DOMAIN is = Fields3
    BY DEF QualityOf
  <2> QED
    BY <1>6, <2>1, RegressionBaselineAssumption DEF Range
<1> QED
  BY <1>3, <1>5, <1>7, <1>8

-----------------------------------------------------------------------------
\* ---- The head of a document ---------------------------------------------
\* For every paper and environment (ingest head refinement): unless the model decides, what
\* one path found is in the head, whatever happened on the other; and a path that gave
\* nothing says why.
THEOREM FindingsStayInHead ==
  ASSUME NEW w, w.b \subseteq Fields, w.short \in BOOLEAN, w.mineru \in BOOLEAN, w.path \in {"ok", "down", "garbled"}
  PROVE  HeadIsComplete(w, RefineHead(w))
<1> DEFINE r == RefineHead(w)
<1>1. r.head = Enrich(w, MergeHeads(w, Snippets(w), PathB(w)))
  BY DEF RefineHead, RefinedHead
<1>2. PathBCode(w) # "found" => r.codes # {}
  BY DEF RefineHead
<1>3. PathBCode(w) = "found" <=> w.path = "ok" /\ w.route # "pymupdf_only" /\ (w.short => w.mineru)
  BY DEF PathBCode, RouteOf
<1>4. \A f \in Fields : PathB(w)[f] # "" <=> PathBCode(w) = "found" /\ f \in w.b
  BY DEF PathB
<1>5. ASSUME w.llm \in {{"off"}, {"fails"}}, NEW f \in Fields
      PROVE  \/ w.front # {"unreadable"} /\ f \in w.front \ {"conclusion"}
             \/ f \in w.b /\ w.path = "ok" /\ w.route # "pymupdf_only" /\ (w.short => w.mineru)
             \/ f \in w.tail \cap {"conclusion", "meta"}
             => r.head[f] # ""
  <2>1. MergeHeads(w, Snippets(w), PathB(w))[f] = IF PathB(w)[f] # "" THEN PathB(w)[f] ELSE Snippets(w)[f]
    BY <1>5 DEF MergeHeads, MergeRules
  <2>2. w.front # {"unreadable"} /\ f \in w.front \ {"conclusion"} => Snippets(w)[f] # ""
    BY <1>5 DEF Snippets
  <2>3. r.head[f] = IF MergeHeads(w, Snippets(w), PathB(w))[f] = "" /\ f \in w.tail \cap {"conclusion", "meta"} THEN "text"
                    ELSE MergeHeads(w, Snippets(w), PathB(w))[f]
    BY <1>1, <1>5 DEF Enrich
  <2> QED
    BY <1>3, <1>4, <1>5, <2>1, <2>2, <2>3
<1>6. PathB(w) = Nothing /\ w.b # {} => r.codes # {}
  <2> SUFFICES ASSUME PathB(w) = Nothing, w.b # {}
               PROVE  r.codes # {}
    OBVIOUS
  <2>1. PICK f \in Fields : f \in w.b
    OBVIOUS
  <2>2. PathB(w)[f] = ""
    BY <2>1 DEF Nothing
  <2> QED
    BY <1>2, <1>4, <2>1, <2>2
<1> QED
  BY <1>5, <1>6 DEF HeadIsComplete

\* ---- The input of the classifier -----------------------------------------
LEMMA OrderOfParts ==
  /\ Len(PartOrder) = 6 /\ DOMAIN PartOrder = 1..6 /\ \A k \in 1..6 : PartOrder[k] \in Fields
  /\ PartOrder[1] = "meta" /\ PartOrder[2] = "title" /\ PartOrder[3] = "abstract"
  /\ PartOrder[4] = "keywords" /\ PartOrder[5] = "conclusion" /\ PartOrder[6] = "intro"
<1>1. /\ PartOrder[1] = "meta" /\ PartOrder[2] = "title" /\ PartOrder[3] = "abstract"
      /\ PartOrder[4] = "keywords" /\ PartOrder[5] = "conclusion" /\ PartOrder[6] = "intro"
  BY DEF PartOrder
<1>2. DOMAIN PartOrder = 1..6 /\ Len(PartOrder) = 6
  BY DEF PartOrder
<1>3. \A k \in 1..6 : k \in {1, 2, 3, 4, 5, 6}
  OBVIOUS
<1> QED
  BY <1>1, <1>2, <1>3 DEF Fields

\* The loop that writes the parts, in their order.
PartsLoop(parts, h) ==
    /\ parts[0] = <<>>
    /\ \A k \in 1..6 : parts[k] = IF h[PartOrder[k]] # "" THEN Append(parts[k - 1], PartOrder[k]) ELSE parts[k - 1]
    /\ PresentParts(h) = parts[6]

LEMMA PartsInALoop ==
  ASSUME NEW h
  PROVE  \E parts \in [0..6 -> Seq(Fields)] : PartsLoop(parts, h)
<1> DEFINE n == Len(PartOrder)
           V == Seq(Fields)
           With(parts, f) == IF h[f] # "" THEN Append(parts, f) ELSE parts
           g == [p \in (1..n) \X V |-> With(p[2], PartOrder[p[1]])]
           Is(f) == f = [s \in SUBSET (1..n) |-> IF s = {} THEN <<>> ELSE With(f[s \ {Max(s)}], PartOrder[Max(s)])]
           iter == CHOOSE f : Is(f)
<1>0. DOMAIN PartOrder = 1..n /\ n \in Nat /\ n = 6 /\ \A k \in 1..n : PartOrder[k] \in Fields
  BY OrderOfParts
<1> HIDE DEF n
<1>a. \A list \in V : \A f \in Fields : With(list, f) \in V
  <2> SUFFICES ASSUME NEW list \in Seq(Fields), NEW f \in Fields
               PROVE  Append(list, f) \in Seq(Fields)
    OBVIOUS
  <2> QED
    OBVIOUS
<1>1. g \in [(1..n) \X V -> V]
  <2> HIDE DEF With, V
  <2> QED
    BY <1>0, <1>a
<1>2. <<>> \in V
  OBVIOUS
<1> HIDE DEF g
<1>3. PICK f \in [SUBSET (1..n) -> V] : FoldsUp(f, n, <<>>, g)
  <2> HIDE DEF V
  <2> QED
    BY <1>0, <1>1, <1>2, SequenceFold
<1>4. \A s \in SUBSET (1..n) : s # {} => g[<<Max(s), f[s \ {Max(s)}]>>] = With(f[s \ {Max(s)}], PartOrder[Max(s)])
  <2> HIDE DEF With, V
  <2> QED
    BY <1>0, GreatestOf DEF g
<1>5. Is(f)
  <2> HIDE DEF With
  <2> QED
    BY <1>3, <1>4 DEF FoldsUp
<1> HIDE DEF Is
<1>6. Is(iter)
  BY <1>5
<1>7. PresentParts(h) = iter[1..n]
  BY <1>0 DEF PresentParts, FoldLeft, MapThenFoldSet, Is, n
<1> HIDE DEF iter
<1> DEFINE parts == [k \in 0..n |-> iter[1..k]]
<1>8. parts[0] = <<>> /\ PresentParts(h) = parts[n] /\ parts = [k \in 0..n |-> parts[k]]
  <2>1. 1..0 = {} /\ {} \in SUBSET (1..n)
    OBVIOUS
  <2>2. iter[{}] = <<>>
    <3> HIDE DEF With
    <3> QED
      BY <1>6, <2>1 DEF Is
  <2> QED
    BY <1>0, <1>7, <2>1, <2>2
<1>9. \A k \in 1..n : parts[k] = With(parts[k - 1], PartOrder[k])
  <2> TAKE k \in 1..n
  <2>0. k \in Nat /\ k # 0 /\ 1..k \subseteq 1..n /\ k \in 1..k /\ k - 1 \in 0..n /\ k \in 0..n
    BY <1>0
  <2>1. Max(1..k) = k /\ (1..k) \ {k} = 1..(k - 1) /\ 1..k \in SUBSET (1..n) /\ 1..k # {}
    BY <2>0, LastPosition
  <2>2. iter[1..k] = With(iter[1..(k - 1)], PartOrder[k])
    <3> HIDE DEF With
    <3> QED
      BY <1>6, <2>1 DEF Is
  <2>3. parts[k] = iter[1..k] /\ parts[k - 1] = iter[1..(k - 1)]
    BY <2>0
  <2> HIDE DEF parts, With
  <2> QED
    BY <2>2, <2>3
<1> HIDE DEF parts
<1> DEFINE P == {k \in 0..n : parts[k] \in V}
<1>10. \A k \in 0..n : k \in P
  <2>1. 0 \in P
    <3>1. 0 \in 0..n
      BY <1>0
    <3> HIDE DEF V
    <3> QED
      BY <1>2, <1>8, <3>1
  <2>2. ASSUME NEW k \in 1..n, k - 1 \in P
        PROVE  k \in P
    <3>1. parts[k - 1] \in V /\ PartOrder[k] \in Fields /\ k \in 0..n
      BY <1>0, <2>2
    <3> HIDE DEF With, V
    <3>2. With(parts[k - 1], PartOrder[k]) \in V
      BY <1>a, <3>1
    <3> QED
      BY <1>9, <3>1, <3>2
  <2> HIDE DEF P
  <2> QED
    BY <1>0, <2>1, <2>2, StepByStep
<1>11. parts \in [0..n -> V]
  BY <1>8, <1>10
<1> QED
  BY <1>0, <1>8, <1>9, <1>11 DEF PartsLoop, V

\* The same for the input that has a limit.
InputLoop(inputs, h) ==
    /\ inputs[0] = [text |-> <<>>, left |-> InputLimit]
    /\ \A k \in 1..6 : inputs[k] = TakePart(h, inputs[k - 1], PartOrder[k])
    /\ FormatInput(h) = inputs[6].text

InputStates == [text : Seq([field : Fields, kept : Nat]), left : Nat]

LEMMA TakesAPart ==
  ASSUME SizeOf \in [Fields -> Nat], NEW h, NEW i \in InputStates, NEW f \in Fields
  PROVE  TakePart(h, i, f) \in InputStates
<1> DEFINE kept == IF h[f] = "" THEN 0 ELSE IF SizeOf[f] < i.left THEN SizeOf[f] ELSE i.left
<1>1. kept \in Nat /\ i.left - kept \in Nat
  <2>1. SizeOf[f] \in Nat /\ i.left \in Nat
    BY DEF InputStates
  <2> DEFINE s == SizeOf[f]
             l == i.left
  <2> HIDE DEF s, l
  <2>2. s \in Nat /\ l \in Nat
    BY <2>1 DEF s, l
  <2>3. kept = 0 \/ (kept = s /\ s < l) \/ kept = l
    BY DEF s, l
  <2> HIDE DEF kept
  <2>4. kept \in Nat /\ kept <= l
    BY <2>2, <2>3
  <2>5. l - kept \in Nat
    BY <2>2, <2>4
  <2> QED
    BY <2>4, <2>5 DEF l
<1>2. TakePart(h, i, f) = IF kept = 0 THEN i ELSE [text |-> Append(i.text, [field |-> f, kept |-> kept]), left |-> i.left - kept]
  BY DEF TakePart
<1> HIDE DEF kept
<1>3. Append(i.text, [field |-> f, kept |-> kept]) \in Seq([field : Fields, kept : Nat])
  BY <1>1 DEF InputStates
<1> QED
  BY <1>1, <1>2, <1>3 DEF InputStates

LEMMA InputInALoop ==
  ASSUME SizeOf \in [Fields -> Nat], InputLimit \in Nat, NEW h
  PROVE  \E inputs \in [0..6 -> InputStates] : InputLoop(inputs, h)
<1> DEFINE n == Len(PartOrder)
           first == [text |-> <<>>, left |-> InputLimit]
           g == [p \in (1..n) \X InputStates |-> TakePart(h, p[2], PartOrder[p[1]])]
           Is(f) == f = [s \in SUBSET (1..n) |-> IF s = {} THEN first ELSE TakePart(h, f[s \ {Max(s)}], PartOrder[Max(s)])]
           iter == CHOOSE f : Is(f)
<1>0. DOMAIN PartOrder = 1..n /\ n \in Nat /\ n = 6 /\ \A k \in 1..n : PartOrder[k] \in Fields
  BY OrderOfParts
<1> HIDE DEF n
<1>1. g \in [(1..n) \X InputStates -> InputStates]
  BY <1>0, TakesAPart
<1>2. first \in InputStates
  BY DEF InputStates
<1> HIDE DEF g
<1>3. PICK f \in [SUBSET (1..n) -> InputStates] : FoldsUp(f, n, first, g)
  <2> HIDE DEF first
  <2> QED
    BY <1>0, <1>1, <1>2, SequenceFold
<1>4. \A s \in SUBSET (1..n) : s # {} => g[<<Max(s), f[s \ {Max(s)}]>>] = TakePart(h, f[s \ {Max(s)}], PartOrder[Max(s)])
  BY <1>0, GreatestOf DEF g
<1>5. Is(f)
  BY <1>3, <1>4 DEF FoldsUp
<1> HIDE DEF Is
<1>6. Is(iter)
  BY <1>5
<1>7. FormatInput(h) = iter[1..n].text
  BY <1>0 DEF FormatInput, FoldLeft, MapThenFoldSet, Is, n
<1> HIDE DEF iter
<1> DEFINE inputs == [k \in 0..n |-> iter[1..k]]
<1>8. inputs[0] = first /\ FormatInput(h) = inputs[n].text /\ inputs = [k \in 0..n |-> inputs[k]]
  <2>1. 1..0 = {} /\ {} \in SUBSET (1..n)
    OBVIOUS
  <2>2. iter[{}] = first
    <3> HIDE DEF first
    <3> QED
      BY <1>6, <2>1 DEF Is
  <2> HIDE DEF first
  <2> QED
    BY <1>0, <1>7, <2>1, <2>2
<1>9. \A k \in 1..n : inputs[k] = TakePart(h, inputs[k - 1], PartOrder[k])
  <2> TAKE k \in 1..n
  <2>0. k \in Nat /\ k # 0 /\ 1..k \subseteq 1..n /\ k \in 1..k /\ k - 1 \in 0..n /\ k \in 0..n
    BY <1>0
  <2>1. Max(1..k) = k /\ (1..k) \ {k} = 1..(k - 1) /\ 1..k \in SUBSET (1..n) /\ 1..k # {}
    BY <2>0, LastPosition
  <2>2. iter[1..k] = TakePart(h, iter[1..(k - 1)], PartOrder[k])
    BY <1>6, <2>1 DEF Is
  <2>3. inputs[k] = iter[1..k] /\ inputs[k - 1] = iter[1..(k - 1)]
    BY <2>0
  <2> HIDE DEF inputs
  <2> QED
    BY <2>2, <2>3
<1> HIDE DEF inputs
<1> DEFINE P == {k \in 0..n : inputs[k] \in InputStates}
<1>10. \A k \in 0..n : k \in P
  <2>1. 0 \in P
    BY <1>0, <1>2, <1>8
  <2>2. ASSUME NEW k \in 1..n, k - 1 \in P
        PROVE  k \in P
    <3>1. inputs[k - 1] \in InputStates /\ PartOrder[k] \in Fields /\ k \in 0..n
      BY <1>0, <2>2
    <3> QED
      BY <1>9, <3>1, TakesAPart
  <2> HIDE DEF P
  <2> QED
    BY <1>0, <2>1, <2>2, StepByStep
<1>11. inputs \in [0..n -> InputStates]
  BY <1>8, <1>10
<1> QED
  BY <1>0, <1>8, <1>9, <1>11 DEF InputLoop

\* The place of a field in an input.
PlaceOf == [f \in Fields |-> CHOOSE k \in 1..6 : PartOrder[k] = f]

LEMMA PlacesOfFields ==
  /\ PlaceOf["meta"] = 1 /\ PlaceOf["title"] = 2 /\ PlaceOf["abstract"] = 3
  /\ PlaceOf["keywords"] = 4 /\ PlaceOf["conclusion"] = 5 /\ PlaceOf["intro"] = 6
  /\ \A f \in Fields : PlaceOf[f] \in 1..6 /\ PartOrder[PlaceOf[f]] = f
  /\ \A k \in 1..6 : PlaceOf[PartOrder[k]] = k
<1>1. \A k \in 1..6 : k \in {1, 2, 3, 4, 5, 6}
  OBVIOUS
<1>2. \A k, l \in 1..6 : PartOrder[k] = PartOrder[l] => k = l
  <2>1. \A k, l \in {1, 2, 3, 4, 5, 6} : PartOrder[k] = PartOrder[l] => k = l
    BY OrderOfParts
  <2> QED
    BY <1>1, <2>1
<1>3. \A f \in Fields : \E k \in 1..6 : PartOrder[k] = f
  BY OrderOfParts DEF Fields
<1>4. \A k \in 1..6 : PartOrder[k] \in Fields
  BY OrderOfParts
<1>5. \A f \in Fields : PlaceOf[f] \in 1..6 /\ PartOrder[PlaceOf[f]] = f
  BY <1>3 DEF PlaceOf
<1>6. \A k \in 1..6 : PlaceOf[PartOrder[k]] = k
  BY <1>2, <1>4, <1>5
<1>7. 1 \in 1..6 /\ 2 \in 1..6 /\ 3 \in 1..6 /\ 4 \in 1..6 /\ 5 \in 1..6 /\ 6 \in 1..6
  OBVIOUS
<1> QED
  BY <1>5, <1>6, <1>7, OrderOfParts

LEMMA PlacesBounded ==
  /\ \A f \in Fields : PlaceOf[f] \in Nat /\ 1 <= PlaceOf[f] /\ PlaceOf[f] <= 6
  /\ \A k \in 1..6 : \A f \in Fields : PlaceOf[f] <= k <=> PlaceOf[f] <= k - 1 \/ f = PartOrder[k]
  /\ \A k \in 1..6 : \A p \in Nat : p <= k - 1 => p < k
<1>1. \A f \in Fields : PlaceOf[f] \in 1..6
  BY PlacesOfFields
<1>2. \A f \in Fields : \A k \in 1..6 : PlaceOf[f] = k <=> f = PartOrder[k]
  BY PlacesOfFields
<1>3. \A p \in 1..6 : \A k \in 1..6 : p \in Nat /\ 1 <= p /\ p <= 6 /\ (p <= k <=> p <= k - 1 \/ p = k)
  OBVIOUS
<1>4. \A k \in 1..6 : \A p \in Nat : p <= k - 1 => p < k
  OBVIOUS
<1> QED
  BY <1>1, <1>2, <1>3, <1>4

LEMMA OneLonger ==
  ASSUME NEW m \in Nat
  PROVE  /\ \A i \in 1..(m + 1) : i \in 1..m \/ i = m + 1
         /\ m + 1 \in 1..(m + 1) /\ \A i \in 1..m : i \in 1..(m + 1)
         /\ \A i, j \in 1..(m + 1) : i < j => i \in 1..m
OBVIOUS

\* Places ascend along the first m of a list of fields.
Ascending(list, m) == \A i, j \in 1..m : i < j => PlaceOf[list[i]] < PlaceOf[list[j]]

\* The first m of the list are the fields with a text among the first k parts.
HasFirst(list, m, h, k) ==
    /\ \A i \in 1..m : list[i] \in Fields /\ h[list[i]] # "" /\ PlaceOf[list[i]] <= k
    /\ \A f \in Fields : h[f] # "" /\ PlaceOf[f] <= k => \E i \in 1..m : list[i] = f

LEMMA OneMoreField ==
  ASSUME NEW h, NEW m \in Nat, NEW list, NEW k \in 1..6, Ascending(list, m), HasFirst(list, m, h, k - 1),
         h[PartOrder[k]] # "", NEW new, new[m + 1] = PartOrder[k], \A i \in 1..m : new[i] = list[i]
  PROVE  Ascending(new, m + 1) /\ HasFirst(new, m + 1, h, k)
<1> DEFINE f == PartOrder[k]
<1>1. f \in Fields /\ PlaceOf[f] = k
  BY OrderOfParts, PlacesOfFields
<1>2. /\ \A i \in 1..(m + 1) : i \in 1..m \/ i = m + 1
      /\ \A i, j \in 1..(m + 1) : i < j => i \in 1..m
  BY OneLonger
<1>3. m + 1 \in 1..(m + 1) /\ \A i \in 1..m : i \in 1..(m + 1)
  BY OneLonger
<1>4. \A i \in 1..m : new[i] = list[i] /\ list[i] \in Fields /\ h[list[i]] # "" /\ PlaceOf[list[i]] <= k - 1
  BY DEF HasFirst
<1>5. \A g \in Fields : PlaceOf[g] \in Nat /\ (PlaceOf[g] <= k <=> PlaceOf[g] <= k - 1 \/ g = f)
  BY PlacesBounded
<1>6. \A p \in Nat : p <= k - 1 => p < k
  BY PlacesBounded
<1>7. h[f] # "" /\ new[m + 1] = f
  OBVIOUS
<1> HIDE DEF f
<1>8. Ascending(new, m + 1)
  <2>1. ASSUME NEW i \in 1..(m + 1), NEW j \in 1..(m + 1), i < j
        PROVE  PlaceOf[new[i]] < PlaceOf[new[j]]
    <3>1. i \in 1..m
      BY <1>2, <2>1
    <3>2. CASE j \in 1..m
      BY <1>4, <2>1, <3>1, <3>2 DEF Ascending
    <3>3. CASE j = m + 1
      BY <1>1, <1>4, <1>5, <1>6, <1>7, <3>1, <3>3
    <3> QED
      BY <1>2, <3>2, <3>3
  <2> QED
    BY <2>1 DEF Ascending
<1>9. \A i \in 1..(m + 1) : new[i] \in Fields /\ h[new[i]] # "" /\ PlaceOf[new[i]] <= k
  <2> TAKE i \in 1..(m + 1)
  <2>1. CASE i \in 1..m
    BY <1>4, <1>5, <2>1
  <2>2. CASE i = m + 1
    BY <1>1, <1>5, <1>7, <2>2
  <2> QED
    BY <1>2, <2>1, <2>2
<1>10. \A g \in Fields : h[g] # "" /\ PlaceOf[g] <= k => \E i \in 1..(m + 1) : new[i] = g
  <2> SUFFICES ASSUME NEW g \in Fields, h[g] # "", PlaceOf[g] <= k
               PROVE  \E i \in 1..(m + 1) : new[i] = g
    OBVIOUS
  <2>1. CASE g = f
    BY <1>3, <1>7, <2>1
  <2>2. CASE PlaceOf[g] <= k - 1
    <3>1. PICK i \in 1..m : list[i] = g
      BY <2>2 DEF HasFirst
    <3> QED
      BY <1>3, <1>4, <3>1
  <2> QED
    BY <1>5, <2>1, <2>2
<1> QED
  BY <1>8, <1>9, <1>10 DEF HasFirst

LEMMA PartsAreOrdered ==
  ASSUME NEW h
  PROVE  LET text == PresentParts(h)
         IN text \in Seq(Fields) /\ Ascending(text, Len(text)) /\ HasFirst(text, Len(text), h, 6)
<1>1. PICK parts \in [0..6 -> Seq(Fields)] : PartsLoop(parts, h)
  BY PartsInALoop
<1>2. /\ parts[0] = <<>> /\ PresentParts(h) = parts[6]
      /\ \A k \in 1..6 : parts[k] = IF h[PartOrder[k]] # "" THEN Append(parts[k - 1], PartOrder[k]) ELSE parts[k - 1]
  BY <1>1 DEF PartsLoop
<1> DEFINE P == {k \in 0..6 : Ascending(parts[k], Len(parts[k])) /\ HasFirst(parts[k], Len(parts[k]), h, k)}
<1>3. 0 \in P
  <2>1. Len(<<>>) = 0 /\ 0 \in 0..6 /\ 1..0 = {}
    OBVIOUS
  <2>2. \A f \in Fields : ~(PlaceOf[f] <= 0)
    BY PlacesBounded
  <2>3. Ascending(<<>>, 0) /\ HasFirst(<<>>, 0, h, 0)
    BY <2>1, <2>2 DEF Ascending, HasFirst
  <2> QED
    BY <1>2, <2>1, <2>3
<1>4. ASSUME NEW k \in 1..6, k - 1 \in P
      PROVE  k \in P
  <2> DEFINE old == parts[k - 1]
             m == Len(old)
  <2>1. old \in Seq(Fields) /\ k \in 0..6 /\ PartOrder[k] \in Fields
    <3>1. k - 1 \in 0..6 /\ k \in 0..6
      OBVIOUS
    <3> QED
      BY <3>1, OrderOfParts
  <2>2. Ascending(old, m) /\ HasFirst(old, m, h, k - 1)
    BY <1>4
  <2>3. CASE h[PartOrder[k]] = ""
    <3>1. parts[k] = old
      BY <1>2, <2>3
    <3>2. \A f \in Fields : PlaceOf[f] <= k <=> PlaceOf[f] <= k - 1 \/ f = PartOrder[k]
      BY PlacesBounded
    <3> HIDE DEF m
    <3>3. HasFirst(old, m, h, k)
      <4> HIDE DEF old
      <4> QED
        BY <2>2, <2>3, <3>2 DEF HasFirst
    <3> QED
      BY <2>1, <2>2, <3>1, <3>3 DEF m
  <2>4. CASE h[PartOrder[k]] # ""
    <3>1. parts[k] = Append(old, PartOrder[k])
      BY <1>2, <2>4
    <3> HIDE DEF old
    <3>2. m \in Nat /\ Len(parts[k]) = m + 1 /\ parts[k][m + 1] = PartOrder[k] /\ \A i \in 1..m : parts[k][i] = old[i]
      BY <2>1, <3>1
    <3> HIDE DEF m
    <3>3. Ascending(parts[k], m + 1) /\ HasFirst(parts[k], m + 1, h, k)
      BY <2>2, <2>4, <3>2, OneMoreField
    <3> QED
      BY <2>1, <3>2, <3>3
  <2> HIDE DEF P
  <2> QED
    BY <2>3, <2>4
<1> HIDE DEF P
<1>5. 6 \in P
  <2>1. \A k \in 0..6 : k \in P
    BY <1>3, <1>4, StepByStep
  <2> QED
    BY <2>1
<1>6. parts[6] \in Seq(Fields)
  OBVIOUS
<1> QED
  BY <1>2, <1>5, <1>6 DEF P

LEMMA PlacesOfList ==
  ASSUME NEW S, NEW list \in Seq(S)
  PROVE  DOMAIN list = 1..Len(list) /\ Len(list) \in Nat
OBVIOUS

\* A list of the fields whose places ascend has each of them once.
LEMMA AscendingIsOnce ==
  ASSUME NEW n \in Nat, NEW text, Ascending(text, n), \A i \in 1..n : text[i] \in Fields
  PROVE  \A i, j \in 1..n : text[i] = text[j] => i = j
<1> SUFFICES ASSUME NEW i \in 1..n, NEW j \in 1..n, text[i] = text[j], i # j
             PROVE  FALSE
  OBVIOUS
<1>1. i < j \/ j < i
  OBVIOUS
<1>2. PlaceOf[text[i]] \in Nat /\ ~(PlaceOf[text[i]] < PlaceOf[text[i]])
  BY PlacesBounded
<1> QED
  BY <1>1, <1>2 DEF Ascending

\* But for the introduction behind a conclusion, every label ends what stands before it.
LEMMA LaterStops ==
  ASSUME NEW f \in Fields, NEW g \in Fields, PlaceOf[f] < PlaceOf[g], f # "meta",
         ~(f = "conclusion" /\ g = "intro")
  PROVE  g \in Stops(f)
<1>1. \/ f = "title" /\ g # "title"
      \/ f = "abstract" /\ g \in {"keywords", "conclusion", "intro"}
      \/ f = "keywords" /\ g \in {"conclusion", "intro"}
  BY PlacesOfFields DEF Fields
<1> QED
  BY <1>1 DEF Stops

\* A field of which nothing is read but its own label ends where it stands.
EndOf(n, ends) == IF ends = {} THEN n ELSE Min(ends) - 1
LEMMA ReadAlone ==
  ASSUME NEW n \in Nat, NEW k \in 1..n, NEW ends \in SUBSET Nat, \A j \in ends : k + 1 <= j,
         k # n => k + 1 \in ends, k = n => ends = {}
  PROVE  EndOf(n, ends) = k
<1>1. CASE k = n
  BY <1>1 DEF EndOf
<1>2. CASE k # n
  <2>1. Min(ends) \in ends /\ \A y \in ends : Min(ends) <= y
    BY <1>2, LeastOf
  <2> DEFINE least == Min(ends)
  <2> HIDE DEF least
  <2>2. least \in Nat /\ least <= k + 1 /\ k + 1 <= least
    BY <1>2, <2>1 DEF least
  <2>3. least - 1 = k
    BY <2>2
  <2> QED
    BY <1>2, <2>3 DEF least, EndOf
<1> QED
  BY <1>1, <1>2

LEMMA PlacesInText ==
  ASSUME NEW n \in Nat
  PROVE  /\ \A i \in 1..n : 1 \in 1..n /\ n >= 1 /\ (~(1 < i) => i = 1)
         /\ n >= 1 => 1 \in 1..n
         /\ \A k \in 1..n : k \in Nat /\ k..k = {k} /\ Min({k}) = k
         /\ \A k \in 1..n : k # n => k + 1 \in 1..n /\ k + 1 \in (k + 1)..n /\ k < k + 1
         /\ \A k \in 1..n : \A j \in (k + 1)..n : j \in Nat /\ k + 1 <= j
         /\ (n + 1)..n = {}
<1>1. \A k \in 1..n : Min({k}) = k
  <2> TAKE k \in 1..n
  <2>1. Min({k}) \in {k}
    BY LeastOf
  <2> QED
    BY <2>1
<1> QED
  BY <1>1

LEMMA TitleIsFirst ==
  \A f \in Fields : f # "meta" => ~(PlaceOf[f] < PlaceOf["title"])
<1>1. \A f \in {"title", "abstract", "keywords", "intro", "conclusion"} : ~(PlaceOf[f] < PlaceOf["title"])
  BY PlacesOfFields
<1> QED
  BY <1>1 DEF Fields

\* For every head (parse_classifier_sections, format_classifier_input): an input without a
\* meta block that starts with a title, and has not both a conclusion and an introduction,
\* comes back as it went in.
THEOREM InputIsReadBack ==
  ASSUME NEW h
  PROVE  ReadsBack(h)
<1> SUFFICES ASSUME h["title"] # "", h["meta"] = "", ~(h["intro"] # "" /\ h["conclusion"] # "")
             PROVE  ParseSections(PresentParts(h)) = [f \in Fields |-> IF h[f] # "" THEN {f} ELSE {}]
  BY DEF ReadsBack
<1> DEFINE text == PresentParts(h)
           n == Len(text)
           Starts(f) == {k \in DOMAIN text : text[k] = f /\ (f = "title") = (k = 1)}
           End(f, k) == {j \in (k + 1)..n : text[j] \in Stops(f)}
           Until(f, k) == IF End(f, k) = {} THEN n ELSE Min(End(f, k)) - 1
           Read(f) == IF Starts(f) = {} THEN {} ELSE {text[j] : j \in Min(Starts(f))..Until(f, Min(Starts(f)))}
<1>1. ParseSections(text) = [f \in Fields |-> Read(f)]
  BY DEF ParseSections
<1>2. Ascending(text, n) /\ HasFirst(text, n, h, 6)
  BY PartsAreOrdered
<1>3. DOMAIN text = 1..n /\ n \in Nat
  <2>1. text \in Seq(Fields)
    BY PartsAreOrdered
  <2> HIDE DEF text
  <2> QED
    BY <2>1, PlacesOfList
<1> HIDE DEF text, n
<1>4. /\ \A i \in 1..n : text[i] \in Fields /\ h[text[i]] # ""
      /\ \A f \in Fields : h[f] # "" => \E i \in 1..n : text[i] = f
  BY <1>2, PlacesBounded DEF HasFirst
<1>5. \A i, j \in 1..n : text[i] = text[j] => i = j
  BY <1>2, <1>3, <1>4, AscendingIsOnce
<1>6. n >= 1 /\ text[1] = "title"
  <2>1. PICK i \in 1..n : text[i] = "title"
    BY <1>4 DEF Fields
  <2>2. 1 \in 1..n /\ n >= 1 /\ (~(1 < i) => i = 1)
    BY <1>3, PlacesInText
  <2>3. 1 < i => PlaceOf[text[1]] < PlaceOf["title"]
    BY <1>2, <2>1, <2>2 DEF Ascending
  <2>4. text[1] \in Fields /\ text[1] # "meta"
    BY <1>4, <2>2
  <2>5. i = 1
    BY <2>2, <2>3, <2>4, TitleIsFirst
  <2> QED
    BY <2>1, <2>2, <2>5
<1>7. ASSUME NEW f \in Fields
      PROVE  Read(f) = IF h[f] # "" THEN {f} ELSE {}
  <2>1. CASE h[f] = ""
    <3>1. Starts(f) = {}
      BY <1>3, <1>4, <2>1
    <3> HIDE DEF Starts, Until
    <3> QED
      BY <2>1, <3>1
  <2>2. CASE h[f] # ""
    <3>1. PICK k \in 1..n : text[k] = f
      BY <1>4, <2>2
    <3>2. Starts(f) = {k}
      <4>1. (f = "title") = (k = 1)
        <5>1. 1 \in 1..n
          BY <1>3, <1>6, PlacesInText
        <5> QED
          BY <1>5, <1>6, <3>1, <5>1
      <4> QED
        BY <1>3, <1>5, <3>1, <4>1
    <3>3. Min({k}) = k /\ k..k = {k}
      BY <1>3, PlacesInText
    <3> DEFINE ends == End(f, k)
    <3>4. ends \in SUBSET Nat /\ \A j \in ends : k + 1 <= j
      BY <1>3, PlacesInText
    <3>5. k = n => ends = {}
      BY <1>3, PlacesInText
    <3>6. ASSUME k # n
          PROVE  k + 1 \in ends
      <4>1. k + 1 \in 1..n /\ k + 1 \in (k + 1)..n /\ k < k + 1
        BY <1>3, <3>6, PlacesInText
      <4>2. PlaceOf[f] < PlaceOf[text[k + 1]] /\ text[k + 1] \in Fields /\ h[text[k + 1]] # ""
        BY <1>2, <1>4, <3>1, <4>1 DEF Ascending
      <4>3. f # "meta" /\ ~(f = "conclusion" /\ text[k + 1] = "intro")
        BY <2>2, <4>2
      <4>4. text[k + 1] \in Stops(f)
        BY <4>2, <4>3, LaterStops
      <4> QED
        BY <4>1, <4>4
    <3> HIDE DEF ends
    <3>7. EndOf(n, ends) = k
      BY <1>3, <3>4, <3>5, <3>6, ReadAlone
    <3>8. Until(f, k) = k
      BY <3>7 DEF ends, EndOf
    <3>9. {text[j] : j \in k..k} = {f}
      BY <3>1, <3>3
    <3> HIDE DEF Starts, Until
    <3>10. Read(f) = {text[j] : j \in k..k}
      BY <3>2, <3>3, <3>8
    <3> QED
      BY <2>2, <3>9, <3>10
  <2> HIDE DEF Read
  <2> QED
    BY <2>1, <2>2
<1> HIDE DEF Read
<1>8. ParseSections(text) = [f \in Fields |-> IF h[f] # "" THEN {f} ELSE {}]
  BY <1>1, <1>7
<1> QED
  BY <1>8 DEF text

\* What a field needs of the limit.
NeededBy(h, f) == IF h[f] # "" THEN SizeOf[f] ELSE 0

\* A part that fits is taken whole and leaves the rest.
LEMMA TakesWhole ==
  ASSUME SizeOf \in [Fields -> Nat \ {0}], NEW h, NEW i \in InputStates, NEW f \in Fields, NeededBy(h, f) <= i.left
  PROVE  /\ TakePart(h, i, f).left = i.left - NeededBy(h, f)
         /\ h[f] # "" => TakePart(h, i, f).text = Append(i.text, [field |-> f, kept |-> SizeOf[f]])
<1> DEFINE s == SizeOf[f]
           l == i.left
           kept == IF h[f] = "" THEN 0 ELSE IF s < l THEN s ELSE l
<1>1. s \in Nat /\ s # 0 /\ l \in Nat
  BY DEF InputStates
<1>2. TakePart(h, i, f) = IF kept = 0 THEN i ELSE [text |-> Append(i.text, [field |-> f, kept |-> kept]), left |-> i.left - kept]
  BY DEF TakePart
<1>3. CASE h[f] = ""
  <2>1. kept = 0 /\ NeededBy(h, f) = 0
    BY <1>3 DEF NeededBy
  <2>2. l - 0 = l
    BY <1>1
  <2> HIDE DEF kept
  <2>3. TakePart(h, i, f) = i
    BY <1>2, <2>1
  <2> QED
    BY <1>3, <2>1, <2>2, <2>3
<1>4. CASE h[f] # ""
  <2>1. NeededBy(h, f) = s /\ s <= l
    BY <1>4 DEF NeededBy
  <2> HIDE DEF s, l
  <2>2. kept = s \/ (kept = l /\ ~(s < l))
    BY <1>4
  <2> HIDE DEF kept
  <2>3. kept = s
    BY <1>1, <2>1, <2>2
  <2>4. TakePart(h, i, f) = [text |-> Append(i.text, [field |-> f, kept |-> s]), left |-> i.left - s]
    BY <1>1, <1>2, <2>3
  <2> DEFINE rest == i.left - s
             more == Append(i.text, [field |-> f, kept |-> s])
  <2> HIDE DEF rest, more
  <2>5. TakePart(h, i, f) = [text |-> more, left |-> rest]
    BY <2>4 DEF rest, more
  <2>6. TakePart(h, i, f).text = more /\ TakePart(h, i, f).left = rest
    BY <2>5
  <2>7. rest = i.left - NeededBy(h, f)
    BY <2>1 DEF rest
  <2>8. more = Append(i.text, [field |-> f, kept |-> SizeOf[f]])
    BY DEF more, s
  <2> QED
    BY <2>6, <2>7, <2>8
<1> QED
  BY <1>3, <1>4

\* What is in the input stays there.
LEMMA PartsStay ==
  ASSUME NEW h, NEW i \in InputStates, NEW f
  PROVE  Range(i.text) \subseteq Range(TakePart(h, i, f).text)
<1> DEFINE part(k) == [field |-> f, kept |-> k]
<1>1. \/ TakePart(h, i, f) = i
      \/ \E k : TakePart(h, i, f).text = Append(i.text, part(k))
  BY DEF TakePart
<1>2. i.text \in Seq([field : Fields, kept : Nat])
  BY DEF InputStates
<1> DEFINE old == i.text
<1> HIDE DEF part, old
<1>3. ASSUME NEW e
      PROVE  Range(old) \subseteq Range(Append(old, e))
  <2>1. old \in Seq([field : Fields, kept : Nat])
    BY <1>2 DEF old
  <2> QED
    BY <2>1 DEF Range
<1> QED
  BY <1>1, <1>3 DEF old

LEMMA AppendedIsIn ==
  ASSUME NEW S, NEW list \in Seq(S), NEW e
  PROVE  e \in Range(Append(list, e))
<1> DEFINE n == Len(list)
<1>1. n \in Nat /\ n + 1 \in 1..(n + 1)
  OBVIOUS
<1>2. DOMAIN Append(list, e) = 1..(n + 1) /\ Append(list, e)[n + 1] = e
  OBVIOUS
<1> HIDE DEF n
<1> QED
  BY <1>1, <1>2 DEF Range

LEMMA NothingInNoList == \A x : x \notin Range(<<>>)
<1>1. DOMAIN <<>> = {}
  OBVIOUS
<1> QED
  BY <1>1 DEF Range

LEMMA RoomLeft ==
  ASSUME NEW l \in Nat, NEW m \in Nat, NEW t \in Nat, NEW a \in Nat, NEW k \in Nat, NEW c \in Nat,
         m + t + a + k + c <= l
  PROVE  m <= l /\ t <= l - m /\ a <= l - m - t /\ k <= l - m - t - a /\ c <= l - m - t - a - k
OBVIOUS

\* For every paper (format_classifier_input): the conclusion is in the input as a whole unless
\* what stands before it leaves no room.
THEOREM ConclusionIsKept ==
  ASSUME SizeOf \in [Fields -> Nat \ {0}], InputLimit \in Nat, NEW w
  PROVE  ConclusionKept(w, RefineHead(w))
<1> DEFINE h == RefinedHead(w)
           r == RefineHead(w)
           m == NeededBy(h, "meta")
           t == NeededBy(h, "title")
           a == NeededBy(h, "abstract")
           k == NeededBy(h, "keywords")
           c == SizeOf["conclusion"]
           part == [field |-> "conclusion", kept |-> c]
<1>1. r.head = h /\ (FormatInput(h) # <<>> => r.input = FormatInput(h))
  BY DEF RefineHead
<1> HIDE DEF r
<1>2. SUFFICES ASSUME h["conclusion"] # "", m + t + a + k + c <= InputLimit
               PROVE  part \in Range(FormatInput(h))
  <2>1. ConclusionKept(w, r) <=>
           (h["conclusion"] # "" /\ m + t + a + k + c <= InputLimit => part \in Range(r.input))
    BY <1>1 DEF ConclusionKept, NeededBy
  <2> HIDE DEF h, part, m, t, a, k, c
  <2>2. part \in Range(FormatInput(h)) => FormatInput(h) # <<>>
    BY NothingInNoList
  <2> QED
    BY <1>1, <1>2, <2>1, <2>2 DEF r
<1> HIDE DEF h
<1>3. SizeOf \in [Fields -> Nat]
  OBVIOUS
<1>4. PICK inputs \in [0..6 -> InputStates] : InputLoop(inputs, h)
  BY <1>3, InputInALoop
<1>5. m \in Nat /\ t \in Nat /\ a \in Nat /\ k \in Nat /\ c \in Nat
  BY <1>3 DEF NeededBy, Fields
<1>6. NeededBy(h, "conclusion") = c
  BY <1>2 DEF NeededBy
<1> HIDE DEF m, t, a, k, c
<1>7. /\ inputs[0].left = InputLimit
      /\ inputs[1] = TakePart(h, inputs[0], "meta") /\ inputs[2] = TakePart(h, inputs[1], "title")
      /\ inputs[3] = TakePart(h, inputs[2], "abstract") /\ inputs[4] = TakePart(h, inputs[3], "keywords")
      /\ inputs[5] = TakePart(h, inputs[4], "conclusion") /\ inputs[6] = TakePart(h, inputs[5], "intro")
      /\ FormatInput(h) = inputs[6].text
  <2>1. \A n \in {1, 2, 3, 4, 5, 6} : inputs[n] = TakePart(h, inputs[n - 1], PartOrder[n])
    BY <1>4 DEF InputLoop
  <2>2. 1 - 1 = 0 /\ 2 - 1 = 1 /\ 3 - 1 = 2 /\ 4 - 1 = 3 /\ 5 - 1 = 4 /\ 6 - 1 = 5
    OBVIOUS
  <2>3. inputs[0].left = InputLimit /\ FormatInput(h) = inputs[6].text
    BY <1>4 DEF InputLoop
  <2> QED
    BY <2>1, <2>2, <2>3, OrderOfParts
<1>8. \A n \in {0, 1, 2, 3, 4, 5, 6} : inputs[n] \in InputStates
  OBVIOUS
<1>9. "meta" \in Fields /\ "title" \in Fields /\ "abstract" \in Fields /\ "keywords" \in Fields /\ "conclusion" \in Fields
  BY DEF Fields
<1>10. inputs[1].left = InputLimit - m
  <2>1. m <= InputLimit
    BY <1>2, <1>5, RoomLeft
  <2>2. NeededBy(h, "meta") <= inputs[0].left
    BY <1>7, <2>1 DEF m
  <2>3. TakePart(h, inputs[0], "meta").left = inputs[0].left - NeededBy(h, "meta")
    BY <1>8, <1>9, <2>2, TakesWhole
  <2> QED
    BY <1>7, <2>3 DEF m
<1>11. inputs[2].left = InputLimit - m - t
  <2>1. t <= InputLimit - m
    BY <1>2, <1>5, RoomLeft
  <2>2. NeededBy(h, "title") <= inputs[1].left
    BY <1>7, <1>10, <2>1 DEF t
  <2>3. TakePart(h, inputs[1], "title").left = inputs[1].left - NeededBy(h, "title")
    BY <1>8, <1>9, <2>2, TakesWhole
  <2> QED
    BY <1>7, <1>10, <2>3 DEF t
<1>12. inputs[3].left = InputLimit - m - t - a
  <2>1. a <= InputLimit - m - t
    BY <1>2, <1>5, RoomLeft
  <2>2. NeededBy(h, "abstract") <= inputs[2].left
    BY <1>7, <1>11, <2>1 DEF a
  <2>3. TakePart(h, inputs[2], "abstract").left = inputs[2].left - NeededBy(h, "abstract")
    BY <1>8, <1>9, <2>2, TakesWhole
  <2> QED
    BY <1>7, <1>11, <2>3 DEF a
<1>13. inputs[4].left = InputLimit - m - t - a - k
  <2>1. k <= InputLimit - m - t - a
    BY <1>2, <1>5, RoomLeft
  <2>2. NeededBy(h, "keywords") <= inputs[3].left
    BY <1>7, <1>12, <2>1 DEF k
  <2>3. TakePart(h, inputs[3], "keywords").left = inputs[3].left - NeededBy(h, "keywords")
    BY <1>8, <1>9, <2>2, TakesWhole
  <2> QED
    BY <1>7, <1>12, <2>3 DEF k
<1>14. inputs[5].text = Append(inputs[4].text, part)
  <2>1. c <= InputLimit - m - t - a - k
    BY <1>2, <1>5, RoomLeft
  <2>2. NeededBy(h, "conclusion") <= inputs[4].left
    BY <1>6, <1>13, <2>1
  <2>3. h["conclusion"] # "" /\ inputs[4] \in InputStates /\ "conclusion" \in Fields
    BY <1>2, <1>8, <1>9
  <2>4. TakePart(h, inputs[4], "conclusion").text = Append(inputs[4].text, [field |-> "conclusion", kept |-> SizeOf["conclusion"]])
    BY <2>2, <2>3, TakesWhole
  <2> QED
    BY <1>7, <2>4 DEF c
<1>15. part \in Range(inputs[5].text)
  <2> DEFINE old == inputs[4].text
  <2>1. old \in Seq([field : Fields, kept : Nat])
    BY <1>8 DEF InputStates
  <2> HIDE DEF old, part
  <2>2. part \in Range(Append(old, part))
    BY <2>1, AppendedIsIn
  <2> QED
    BY <1>14, <2>2 DEF old
<1> HIDE DEF part
<1>16. Range(inputs[5].text) \subseteq Range(inputs[6].text)
  BY <1>7, <1>8, PartsStay
<1> QED
  BY <1>7, <1>15, <1>16

\* For every configuration and outcome of the calls (judge_with_llm): one failed call of the
\* judge never hands a paper over to the keywords.
THEOREM JudgeForgivesOnce ==
  ASSUME NEW c, c.judge \in [{"primary", "primaryAgain", "fallback"} -> {"ok", "bad"}]
  PROVE  JudgeForgives(c, Classify(c))
<1> DEFINE bad == {k \in DOMAIN c.judge : c.judge[k] = "bad"}
<1> SUFFICES ASSUME c.enabled, c.twophase => c.profile = "ok" /\ c.interrogation = "ok", Cardinality(bad) <= 1
             PROVE  Classify(c).by = "llm"
  BY DEF JudgeForgives
<1>1. ASSUME NEW other \in {"primaryAgain", "fallback"}, c.judge["primary"] = "bad", c.judge[other] = "bad"
      PROVE  FALSE
  <2>1. {"primary", other} \subseteq bad
    BY <1>1
  <2>2. IsFiniteSet({"primary"} \cup {"primaryAgain"} \cup {"fallback"})
    BY FS_Singleton, FS_AddElement
  <2>3. IsFiniteSet(bad)
    <3>1. bad \subseteq {"primary"} \cup {"primaryAgain"} \cup {"fallback"}
      OBVIOUS
    <3> QED
      BY <2>2, <3>1, FS_Subset
  <2>4. Cardinality({"primary", other}) <= Cardinality(bad)
    BY <2>1, <2>3, FS_Subset
  <2>5. IsFiniteSet({other}) /\ Cardinality({other}) = 1
    BY FS_Singleton
  <2>6. {"primary", other} = {other} \cup {"primary"} /\ "primary" \notin {other}
    BY <1>1
  <2>7. Cardinality({"primary", other}) = 2
    BY <2>5, <2>6, FS_AddElement
  <2>8. Cardinality(bad) \in Nat
    BY <2>3, FS_CardinalityType
  <2> QED
    BY <2>4, <2>7, <2>8
<1>2. Judge(c)
  <2>1. c.judge["primary"] = "ok" \/ (c.judge["fallback"] = "ok" /\ c.judge["primaryAgain"] = "ok")
    BY <1>1
  <2> QED
    BY <2>1 DEF Judge
<1>3. LlmAnswers(c)
  BY <1>2 DEF LlmAnswers
<1> QED
  BY <1>3 DEF Classify

-----------------------------------------------------------------------------
\* ---- From the question to the prompt ------------------------------------
\* For every question (detect_question_scale): the door of the route, which knows no
\* paradigm, and the retrieval send it to the patrol both or neither, and knowing the
\* paradigm never takes the passages away.
THEOREM DoorAndRetrievalAgree ==
  ASSUME NEW q, NEW own, NEW paradigm \in {"STEM", "HSS"}
  PROVE  /\ ScaleOf(q, "none", own) = "cross_paper" <=> ScaleOf(q, paradigm, own) = "cross_paper"
         /\ AsksVectors(ScaleOf(q, "none", own)) => AsksVectors(ScaleOf(q, paradigm, own))
<1>1. Verifies(q, "none") => Verifies(q, paradigm)
  BY DEF Verifies
<1>2. Details(q, "none") => Details(q, paradigm)
  BY DEF Details
<1> QED
  BY <1>1, <1>2 DEF ScaleOf, AsksVectors

\* For every question (_references_foreign_paper_id): who names the paper on the screen, in
\* whatever case, asks about this paper.
THEOREM OwnPaperComparesNothing ==
  ASSUME NEW q, NEW own, NEW paradigm,
         \A i \in q.ids : Folded[i] = Folded[own], "cross" \notin q.words
  PROVE  ScaleOf(q, paradigm, own) # "cross_paper"
BY DEF ScaleOf, Crosses, ForeignId

\* Nodes of the graph that are in a set or one edge away from it.
Hop(g, s) ==
    {x \in NodeIds(g) : x \in s \/ \E e \in g.edges : (e[2] = x /\ e[3] \in s) \/ (e[3] = x /\ e[2] \in s)}

\* Two steps are one hop after the other.
LEMMA WithinTwo ==
  ASSUME NEW g, NEW seeds
  PROVE  Within(g, seeds, 2) = Hop(g, Hop(g, seeds))
<1> DEFINE Is(f) == f = [i \in 0..2 |-> IF i = 0 THEN seeds ELSE Hop(g, f[i - 1])]
           reach == CHOOSE f : Is(f)
           found == [i \in 0..2 |-> IF i = 0 THEN seeds ELSE IF i = 1 THEN Hop(g, seeds) ELSE Hop(g, Hop(g, seeds))]
<1>1. Is(found)
  OBVIOUS
<1>2. Is(reach)
  <2> HIDE DEF Is, found
  <2> QED
    BY <1>1
<1>3. Within(g, seeds, 2) = reach[2]
  BY DEF Within, Hop
<1> HIDE DEF reach
<1>4. \A i \in 0..2 : reach[i] = IF i = 0 THEN seeds ELSE Hop(g, reach[i - 1])
  BY <1>2
<1>5. reach[0] = seeds /\ reach[1] = Hop(g, reach[0]) /\ reach[2] = Hop(g, reach[1])
  BY <1>4
<1> QED
  BY <1>3, <1>5

\* For every consistent graph and question (GraphQuery, resolve_prompt_subgraph), whatever
\* half of what the retrieval brought was lost: the prompt never speaks of a relation between
\* nodes it does not show, and shows all that is within two steps of what is named.
THEOREM PromptEdgesHaveEnds ==
  ASSUME NEW g, EndsOf(g.edges) \subseteq NodeIds(g), NEW keywords,
         NEW rc, rc.nodes \in {{}, SubgraphFor(g, keywords).nodes}, rc.edges \in {{}, SubgraphFor(g, keywords).edges}
  PROVE  LET prompt == PromptSubgraph(g, keywords, rc)
         IN /\ EndsOf(prompt.edges) \subseteq prompt.nodes
            /\ Seeds(g, keywords) # {} => prompt.nodes = Within(g, Seeds(g, keywords), 2)
<1> DEFINE sub == SubgraphFor(g, keywords)
           seeds == Seeds(g, keywords)
           first == seeds \cup (EndsOf(EdgesAt(g, seeds)) \cap NodeIds(g))
           second == first \cup (EndsOf(EdgesAt(g, first)) \cap NodeIds(g))
           prompt == PromptSubgraph(g, keywords, rc)
<1>1. prompt.nodes = sub.nodes /\ prompt.edges = sub.edges
  BY DEF PromptSubgraph
<1>2. CASE seeds = {}
  <2>1. sub = TopLevel(g)
    BY <1>2 DEF SubgraphFor
  <2> QED
    BY <1>1, <1>2, <2>1 DEF TopLevel, EndsOf
<1>3. CASE seeds # {}
  <2>1. sub.nodes = second /\ sub.edges = EdgesAt(g, first)
    BY <1>3 DEF SubgraphFor, Neighbourhood
  <2>2. EndsOf(EdgesAt(g, first)) \subseteq NodeIds(g)
    BY DEF EndsOf, EdgesAt
  <2>3. seeds \subseteq NodeIds(g)
    BY DEF Seeds, NodeIds
  <2>4. \A s \in SUBSET NodeIds(g) : Hop(g, s) = s \cup (EndsOf(EdgesAt(g, s)) \cap NodeIds(g))
    BY DEF Hop, EndsOf, EdgesAt
  <2>5. second = Hop(g, Hop(g, seeds))
    BY <2>3, <2>4
  <2> QED
    BY <1>1, <1>3, <2>1, <2>2, <2>5, WithinTwo
<1> QED
  BY <1>2, <1>3

-----------------------------------------------------------------------------
\* ---- The budget of the prompt -------------------------------------------
\* Sections of lines that are not empty.
Lines == Seq(Nat \ {0})
Parts == {"chunks", "relations", "entities"}
PromptSections == [chunks : Lines, relations : Lines, entities : Lines]

\* The sum of the first k lines.
SumLoop(sum, section) ==
    /\ sum[0] = 0
    /\ \A k \in 1..Len(section) : sum[k] = sum[k - 1] + section[k]
    /\ TextLen(section) = sum[Len(section)] + Max({Len(section) - 1, 0})

LEMMA LinesSum ==
  ASSUME NEW section \in Seq(Nat)
  PROVE  \E sum \in [0..Len(section) -> Nat] : SumLoop(sum, section)
<1> DEFINE n == Len(section)
           h == [p \in (1..n) \X Nat |-> p[2] + section[p[1]]]
           Is(f) == f = [s \in SUBSET (1..n) |-> IF s = {} THEN 0 ELSE f[s \ {Max(s)}] + section[Max(s)]]
           iter == CHOOSE f : Is(f)
<1>0. DOMAIN section = 1..n /\ n \in Nat /\ \A k \in 1..n : section[k] \in Nat
  OBVIOUS
<1>1. h \in [(1..n) \X Nat -> Nat]
  BY <1>0
<1> HIDE DEF h
<1>3. PICK f \in [SUBSET (1..n) -> Nat] : FoldsUp(f, n, 0, h)
  BY <1>0, <1>1, SequenceFold
<1>4. \A s \in SUBSET (1..n) : s # {} => h[<<Max(s), f[s \ {Max(s)}]>>] = f[s \ {Max(s)}] + section[Max(s)]
  BY <1>0, GreatestOf DEF h
<1>5. Is(f)
  BY <1>3, <1>4 DEF FoldsUp
<1> HIDE DEF Is
<1>6. Is(iter)
  BY <1>5
<1>7. TextLen(section) = iter[1..n] + Max({Len(section) - 1, 0})
  BY <1>0 DEF TextLen, FoldLeft, MapThenFoldSet, Is
<1> HIDE DEF iter
<1> DEFINE sum == [k \in 0..n |-> iter[1..k]]
<1>8. sum[0] = 0 /\ TextLen(section) = sum[n] + Max({Len(section) - 1, 0}) /\ sum = [k \in 0..n |-> sum[k]]
  BY <1>0, <1>6, <1>7 DEF Is
<1>9. \A k \in 1..n : sum[k] = sum[k - 1] + section[k]
  <2> TAKE k \in 1..n
  <2>1. Max(1..k) = k /\ (1..k) \ {k} = 1..(k - 1) /\ 1..k \in SUBSET (1..n) /\ 1..k # {}
    BY <1>0, LastPosition
  <2>2. iter[1..k] = iter[1..(k - 1)] + section[k]
    BY <1>6, <2>1 DEF Is
  <2> QED
    BY <1>0, <2>2
<1> HIDE DEF sum
<1> DEFINE P == {k \in 0..n : sum[k] \in Nat}
<1>10. \A k \in 0..n : k \in P
  <2>1. 0 \in P
    BY <1>0, <1>8
  <2>2. ASSUME NEW k \in 1..n, k - 1 \in P
        PROVE  k \in P
    <3>1. sum[k - 1] \in Nat /\ section[k] \in Nat
      BY <1>0, <2>2
    <3> QED
      BY <1>9, <3>1
  <2> HIDE DEF P
  <2> QED
    BY <1>0, <2>1, <2>2, StepByStep
<1>11. sum \in [0..n -> Nat]
  BY <1>8, <1>10
<1> QED
  BY <1>8, <1>9, <1>11 DEF SumLoop

LEMMA Breaks0 ==
  ASSUME NEW n \in Nat
  PROVE  Max({n - 1, 0}) = IF n = 0 THEN 0 ELSE n - 1
<1> DEFINE T == {n - 1, 0}
           m == IF n = 0 THEN 0 ELSE n - 1
<1>1. m \in T /\ \A y \in T : m >= y
  OBVIOUS
<1>2. \A x \in T : (\A y \in T : x >= y) => x = m
  BY <1>1
<1> QED
  BY <1>1, <1>2 DEF Max

\* The length of a section, and what a longer last line adds to it.
LEMMA TextLenTells ==
  ASSUME NEW section \in Lines
  PROVE  /\ TextLen(section) \in Nat
         /\ TextLen(section) = 0 <=> section = <<>>
         /\ Len(section) = 1 => TextLen(section) = section[1]
         /\ \A m \in Nat : section # <<>> =>
               TextLen([section EXCEPT ![Len(section)] = @ + m]) = TextLen(section) + m
<1> DEFINE n == Len(section)
<1>0. DOMAIN section = 1..n /\ n \in Nat /\ section \in Seq(Nat) /\ \A k \in 1..n : section[k] \in Nat \ {0}
  BY DEF Lines
<1>1. PICK sum \in [0..n -> Nat] : SumLoop(sum, section)
  BY <1>0, LinesSum
<1>2. /\ sum[0] = 0 /\ \A k \in 1..n : sum[k] = sum[k - 1] + section[k]
      /\ TextLen(section) = sum[n] + IF n = 0 THEN 0 ELSE n - 1
  BY <1>0, <1>1, Breaks0 DEF SumLoop
<1> HIDE DEF n
<1>3. n > 0 => sum[n] > 0 /\ sum[n] = sum[n - 1] + section[n] /\ sum[n - 1] \in Nat
  <2> SUFFICES ASSUME n > 0
               PROVE  sum[n] > 0 /\ sum[n] = sum[n - 1] + section[n] /\ sum[n - 1] \in Nat
    OBVIOUS
  <2>1. n \in 1..n /\ n - 1 \in 0..n
    BY <1>0
  <2> QED
    BY <1>0, <1>2, <2>1
<1>4. sum[n] \in Nat
  BY <1>0
<1>5. ASSUME NEW m \in Nat, section # <<>>
      PROVE  TextLen([section EXCEPT ![Len(section)] = @ + m]) = TextLen(section) + m
  <2> DEFINE longer == [section EXCEPT ![n] = @ + m]
  <2>1. longer \in Seq(Nat) /\ Len(longer) = n /\ n > 0
    <3>1. n > 0 /\ n \in 1..n
      BY <1>0, <1>5 DEF n
    <3>2. longer \in [1..n -> Nat]
      BY <1>0, <3>1
    <3> HIDE DEF longer
    <3> QED
      BY <1>0, <3>1, <3>2
  <2>2. longer[n] = section[n] + m /\ \A k \in 1..(n - 1) : longer[k] = section[k]
    BY <1>0, <2>1
  <2> HIDE DEF longer
  <2>3. PICK total \in [0..n -> Nat] : SumLoop(total, longer)
    BY <2>1, LinesSum
  <2>4. /\ total[0] = 0 /\ \A k \in 1..n : total[k] = total[k - 1] + longer[k]
        /\ TextLen(longer) = total[n] + (n - 1)
    <3>1. Max({n - 1, 0}) = n - 1
      BY <1>0, <2>1, Breaks0
    <3>2. /\ total[0] = 0 /\ \A k \in 1..n : total[k] = total[k - 1] + longer[k]
          /\ TextLen(longer) = total[n] + Max({n - 1, 0})
      BY <2>1, <2>3 DEF SumLoop
    <3> QED
      BY <3>1, <3>2
  <2> DEFINE P == {k \in 0..(n - 1) : total[k] = sum[k]}
  <2>5. 0 \in P
    BY <1>0, <1>2, <2>1, <2>4
  <2>6. ASSUME NEW k \in 1..(n - 1), k - 1 \in P
        PROVE  k \in P
    <3>1. k \in 1..n /\ longer[k] = section[k] /\ total[k - 1] = sum[k - 1]
      BY <1>0, <2>2, <2>6
    <3>2. total[k] = total[k - 1] + longer[k] /\ sum[k] = sum[k - 1] + section[k]
      BY <1>2, <2>4, <3>1
    <3> QED
      BY <3>1, <3>2
  <2>7. n - 1 \in Nat
    BY <1>0, <2>1
  <2> DEFINE last == n - 1
  <2> HIDE DEF P, last
  <2>8. last \in Nat /\ 0 \in P /\ \A k \in 1..last : k - 1 \in P => k \in P
    BY <2>5, <2>6, <2>7 DEF last
  <2>9. \A k \in 0..last : k \in P
    BY <2>8, StepByStep
  <2>10. total[n - 1] = sum[n - 1]
    BY <2>8, <2>9 DEF P, last
  <2>11. total[n] = total[n - 1] + longer[n]
    BY <1>0, <2>1, <2>4
  <2>12. section[n] \in Nat
    BY <1>0, <2>1
  <2>13. TextLen(section) = sum[n] + (n - 1) /\ sum[n] = sum[n - 1] + section[n] /\ sum[n - 1] \in Nat
    BY <1>0, <1>2, <1>3, <2>1
  <2>14. TextLen(longer) = TextLen(section) + m
    <3>1. longer[n] = section[n] + m
      BY <2>2
    <3>2. total[n] = sum[n] + m
      BY <2>10, <2>11, <2>12, <2>13, <3>1
    <3>3. TextLen(longer) = total[n] + (n - 1)
      BY <2>4
    <3>4. TextLen(section) = sum[n] + (n - 1) /\ sum[n] \in Nat /\ n - 1 \in Nat
      BY <1>4, <2>7, <2>13
    <3>5. \A a, b \in Nat : (a + m) + b = (a + b) + m
      OBVIOUS
    <3> QED
      BY <3>2, <3>3, <3>4, <3>5
  <2> QED
    BY <2>14 DEF longer, n
<1>6. n = 1 => TextLen(section) = section[1]
  BY <1>0, <1>2, <1>3
<1>7. n = 0 <=> section = <<>>
  BY <1>0 DEF n
<1> QED
  BY <1>0, <1>2, <1>3, <1>4, <1>5, <1>6, <1>7 DEF n

\* One pass of the loop that trims, and the number of lines that are left.
Pass(s, budget) ==
    IF ContextLen(s) <= budget THEN s ELSE [s EXCEPT ![Victim(s)] = TrimTail(@, ContextLen(s) - budget)]
LineCount(section) == Len(section)
LinesLeft(s) == LineCount(s.chunks) + LineCount(s.relations) + LineCount(s.entities)

LEMMA ContextLenTells ==
  ASSUME NEW s \in PromptSections
  PROVE  /\ ContextLen(s) \in Nat
         /\ ContextLen(s) # 0 => s[Victim(s)] # <<>>
         /\ Victim(s) \in Parts
         /\ \A p \in Parts : s[p] \in Lines /\ TextLen(s[p]) \in Nat /\ TextLen(s[p]) <= ContextLen(s)
<1>1. \A p \in Parts : s[p] \in Lines
  BY DEF PromptSections, Parts
<1>2. \A p \in Parts : TextLen(s[p]) \in Nat /\ (TextLen(s[p]) = 0 <=> s[p] = <<>>)
  BY <1>1, TextLenTells
<1>3. Victim(s) \in Parts
  BY DEF Victim, Parts
<1>4. /\ s.chunks = s["chunks"] /\ s.relations = s["relations"] /\ s.entities = s["entities"]
      /\ "chunks" \in Parts /\ "relations" \in Parts /\ "entities" \in Parts
  BY DEF Parts
<1>5. ContextLen(s) = TextLen(s["chunks"]) + TextLen(s["relations"]) + TextLen(s["entities"])
  BY <1>4 DEF ContextLen
<1>6. s[Victim(s)] = <<>> => s["chunks"] = <<>> /\ s["relations"] = <<>> /\ s["entities"] = <<>>
  BY <1>4 DEF Victim
<1>7. ContextLen(s) \in Nat /\ \A p \in Parts : TextLen(s[p]) <= ContextLen(s)
  BY <1>2, <1>4, <1>5 DEF Parts
<1> QED
  BY <1>1, <1>2, <1>3, <1>4, <1>5, <1>6, <1>7

\* What changes in one section changes as much in the whole.
LEMMA ContextLenOfChange ==
  ASSUME NEW s \in PromptSections, NEW p \in Parts, NEW section \in Lines
  PROVE  /\ [s EXCEPT ![p] = section] \in PromptSections
         /\ [s EXCEPT ![p] = section][p] = section
         /\ \A other \in Parts \ {p} : [s EXCEPT ![p] = section][other] = s[other]
         /\ ContextLen([s EXCEPT ![p] = section]) = (ContextLen(s) - TextLen(s[p])) + TextLen(section)
         /\ LinesLeft([s EXCEPT ![p] = section]) = (LinesLeft(s) - LineCount(s[p])) + LineCount(section)
<1> DEFINE new == [s EXCEPT ![p] = section]
<1>1. new \in PromptSections /\ new[p] = section /\ \A other \in Parts \ {p} : new[other] = s[other]
  BY DEF PromptSections, Parts
<1>2. /\ \A x \in Parts : TextLen(s[x]) \in Nat /\ LineCount(s[x]) \in Nat
      /\ TextLen(section) \in Nat /\ LineCount(section) \in Nat
  <2>1. \A x \in Parts : s[x] \in Lines
    BY DEF PromptSections, Parts
  <2>2. \A list \in Lines : LineCount(list) \in Nat
    BY DEF Lines, LineCount
  <2> QED
    BY <2>1, <2>2, TextLenTells
<1> HIDE DEF new
<1>3. /\ \A r : ContextLen(r) = TextLen(r["chunks"]) + TextLen(r["relations"]) + TextLen(r["entities"])
      /\ \A r : LinesLeft(r) = LineCount(r["chunks"]) + LineCount(r["relations"]) + LineCount(r["entities"])
  BY DEF ContextLen, LinesLeft
<1>4. "chunks" \in Parts /\ "relations" \in Parts /\ "entities" \in Parts
  BY DEF Parts
<1>5. CASE p = "chunks"
  <2>1. new["chunks"] = section /\ new["relations"] = s["relations"] /\ new["entities"] = s["entities"]
    BY <1>1, <1>4, <1>5
  <2>2. ContextLen(new) = (ContextLen(s) - TextLen(s[p])) + TextLen(section)
    BY <1>2, <1>3, <1>4, <1>5, <2>1
  <2>3. LinesLeft(new) = (LinesLeft(s) - LineCount(s[p])) + LineCount(section)
    BY <1>2, <1>3, <1>4, <1>5, <2>1
  <2> QED
    BY <1>1, <2>2, <2>3 DEF new
<1>6. CASE p = "relations"
  <2>1. new["chunks"] = s["chunks"] /\ new["relations"] = section /\ new["entities"] = s["entities"]
    BY <1>1, <1>4, <1>6
  <2>2. ContextLen(new) = (ContextLen(s) - TextLen(s[p])) + TextLen(section)
    BY <1>2, <1>3, <1>4, <1>6, <2>1
  <2>3. LinesLeft(new) = (LinesLeft(s) - LineCount(s[p])) + LineCount(section)
    BY <1>2, <1>3, <1>4, <1>6, <2>1
  <2> QED
    BY <1>1, <2>2, <2>3 DEF new
<1>7. CASE p = "entities"
  <2>1. new["chunks"] = s["chunks"] /\ new["relations"] = s["relations"] /\ new["entities"] = section
    BY <1>1, <1>4, <1>7
  <2>2. ContextLen(new) = (ContextLen(s) - TextLen(s[p])) + TextLen(section)
    BY <1>2, <1>3, <1>4, <1>7, <2>1
  <2>3. LinesLeft(new) = (LinesLeft(s) - LineCount(s[p])) + LineCount(section)
    BY <1>2, <1>3, <1>4, <1>7, <2>1
  <2> QED
    BY <1>1, <2>2, <2>3 DEF new
<1> QED
  BY <1>5, <1>6, <1>7 DEF Parts

LEMMA TrimmedTail ==
  ASSUME NEW section \in Lines, section # <<>>, NEW excess \in Nat \ {0}, NEW out, out = TrimTail(section, excess)
  PROVE  /\ out \in Lines
         /\ \/ Len(out) = Len(section) - 1 /\ out # <<>>
            \/ Len(out) = 1 /\ Len(section) = 1 /\ out[1] = section[1] - excess
            \/ Len(out) = 0 /\ Len(section) = 1 /\ section[1] <= excess
<1> DEFINE n == Len(section)
<1>0. n \in Nat \ {0} /\ DOMAIN section = 1..n /\ section \in Seq(Nat \ {0})
  BY DEF Lines
<1>1. CASE n > 1
  <2>1. out = SubSeq(section, 1, n - 1)
    BY <1>1 DEF TrimTail, Front
  <2>2. out \in Seq(Nat \ {0}) /\ Len(out) = n - 1
    BY <1>0, <1>1, <2>1
  <2> QED
    BY <1>1, <2>2 DEF Lines
<1>2. CASE n = 1
  <2>1. section[1] \in Nat \ {0}
    BY <1>0, <1>2
  <2>2. out = IF section[1] > excess THEN <<section[1] - excess>> ELSE <<>>
    BY <1>2 DEF TrimTail
  <2>3. CASE section[1] > excess
    <3>1. section[1] - excess \in Nat \ {0}
      BY <2>1, <2>3
    <3>2. out = <<section[1] - excess>>
      BY <2>2, <2>3
    <3> QED
      BY <1>2, <3>1, <3>2 DEF Lines
  <2>4. CASE ~(section[1] > excess)
    <3>1. out = <<>> /\ section[1] <= excess
      BY <2>1, <2>2, <2>4
    <3> QED
      BY <1>2, <3>1 DEF Lines
  <2> QED
    BY <2>3, <2>4
<1> HIDE DEF n
<1>3. n > 1 \/ n = 1
  BY <1>0
<1> QED
  BY <1>1, <1>2, <1>3

\* A pass over what is too long takes a line or the whole excess, from the section whose turn
\* it is.
LEMMA PassTakes ==
  ASSUME NEW s \in PromptSections, NEW budget \in Nat, ContextLen(s) > budget, NEW out, out = Pass(s, budget)
  PROVE  /\ out \in PromptSections
         /\ \A other \in Parts \ {Victim(s)} : out[other] = s[other]
         /\ ContextLen(out) = budget \/ LinesLeft(out) = LinesLeft(s) - 1
         /\ budget > 0 => ContextLen(out) > 0
<1> DEFINE v == Victim(s)
           section == s[v]
           excess == ContextLen(s) - budget
           cut == TrimTail(section, excess)
<1>1. /\ ContextLen(s) \in Nat /\ v \in Parts /\ section \in Lines /\ section # <<>>
      /\ TextLen(section) \in Nat /\ TextLen(section) <= ContextLen(s)
  BY ContextLenTells
<1>2. excess \in Nat \ {0}
  BY <1>1
<1>3. out = [s EXCEPT ![v] = cut]
  <2>1. ~(ContextLen(s) <= budget)
    BY <1>1
  <2> QED
    BY <2>1 DEF Pass
<1> HIDE DEF v, section, excess, cut
<1>4. /\ cut \in Lines
      /\ \/ Len(cut) = Len(section) - 1 /\ cut # <<>>
         \/ Len(cut) = 1 /\ Len(section) = 1 /\ cut[1] = section[1] - excess
         \/ Len(cut) = 0 /\ Len(section) = 1 /\ section[1] <= excess
  BY <1>1, <1>2, TrimmedTail DEF cut
<1>5. /\ out \in PromptSections /\ \A other \in Parts \ {v} : out[other] = s[other]
      /\ ContextLen(out) = (ContextLen(s) - TextLen(section)) + TextLen(cut)
      /\ LinesLeft(out) = (LinesLeft(s) - LineCount(section)) + LineCount(cut)
  <2> DEFINE new == [s EXCEPT ![v] = cut]
  <2>1. /\ new \in PromptSections
        /\ \A other \in Parts \ {v} : new[other] = s[other]
        /\ ContextLen(new) = (ContextLen(s) - TextLen(s[v])) + TextLen(cut)
        /\ LinesLeft(new) = (LinesLeft(s) - LineCount(s[v])) + LineCount(cut)
    BY <1>1, <1>4, ContextLenOfChange
  <2> HIDE DEF new
  <2>2. out = new /\ section = s[v]
    BY <1>3 DEF new, section
  <2> QED
    BY <2>1, <2>2
<1>6. /\ TextLen(cut) \in Nat /\ (TextLen(cut) = 0 <=> cut = <<>>) /\ (Len(cut) = 1 => TextLen(cut) = cut[1])
      /\ (Len(section) = 1 => TextLen(section) = section[1])
  BY <1>1, <1>4, TextLenTells
<1>7. /\ LinesLeft(s) \in Nat /\ LineCount(section) = Len(section) /\ LineCount(cut) = Len(cut)
      /\ Len(section) \in Nat /\ Len(cut) \in Nat /\ (Len(cut) = 0 <=> cut = <<>>)
  <2>1. \A list \in Lines : LineCount(list) = Len(list) /\ LineCount(list) \in Nat /\ (Len(list) = 0 <=> list = <<>>)
    BY DEF Lines, LineCount
  <2>2. s.chunks \in Lines /\ s.relations \in Lines /\ s.entities \in Lines
    BY DEF PromptSections
  <2>3. LineCount(s.chunks) \in Nat /\ LineCount(s.relations) \in Nat /\ LineCount(s.entities) \in Nat
    BY <2>1, <2>2
  <2>4. LinesLeft(s) \in Nat
    BY <2>3 DEF LinesLeft
  <2> QED
    BY <1>1, <1>4, <2>1, <2>4
<1>8. CASE Len(cut) = Len(section) - 1 /\ cut # <<>>
  BY <1>1, <1>5, <1>6, <1>7, <1>8 DEF v
<1>9. CASE Len(cut) = 1 /\ Len(section) = 1 /\ cut[1] = section[1] - excess
  <2>1. ContextLen(out) = budget
    BY <1>1, <1>5, <1>6, <1>9 DEF excess
  <2> QED
    BY <1>5, <2>1 DEF v
<1>10. CASE Len(cut) = 0 /\ Len(section) = 1 /\ section[1] <= excess
  <2>1. LinesLeft(out) = LinesLeft(s) - 1
    BY <1>5, <1>7, <1>10
  <2>2. TextLen(section) <= excess /\ TextLen(cut) = 0
    BY <1>6, <1>7, <1>10
  <2>3. ContextLen(out) >= budget
    BY <1>1, <1>5, <2>2 DEF excess
  <2>4. budget > 0 => ContextLen(out) > 0
    BY <1>1, <1>5, <1>6, <2>3
  <2> QED
    BY <1>5, <2>1, <2>4 DEF v
<1> QED
  BY <1>4, <1>8, <1>9, <1>10

LEMMA PassInOrder ==
  ASSUME NEW before \in PromptSections, NEW s \in PromptSections, GivesWayInOrder(before, s), s[Victim(s)] # <<>>,
         NEW out \in PromptSections, \A other \in Parts \ {Victim(s)} : out[other] = s[other]
  PROVE  GivesWayInOrder(before, out)
<1>1. CASE s.chunks # <<>>
  <2>1. out.relations = s.relations /\ out.entities = s.entities
    BY <1>1 DEF Victim, Parts
  <2> QED
    BY <1>1, <2>1 DEF GivesWayInOrder
<1>2. CASE s.chunks = <<>> /\ s.relations # <<>>
  <2>1. out.chunks = s.chunks /\ out.entities = s.entities
    BY <1>2 DEF Victim, Parts
  <2> QED
    BY <1>2, <2>1 DEF GivesWayInOrder
<1>3. CASE s.chunks = <<>> /\ s.relations = <<>>
  <2>1. out.chunks = s.chunks /\ out.relations = s.relations
    BY <1>3 DEF Victim, Parts
  <2> QED
    BY <1>3, <2>1 DEF GivesWayInOrder
<1> QED
  BY <1>1, <1>2, <1>3

\* The loop that trims, with one pass more than there are lines.
TrimLoop(kept, s, budget) ==
    /\ kept[0] = s
    /\ \A k \in 1..(LinesLeft(s) + 1) : kept[k] = Pass(kept[k - 1], budget)
    /\ Trimmed(s, budget) = kept[LinesLeft(s) + 1]

LEMMA PassStays ==
  ASSUME NEW budget \in Nat
  PROVE  \A s \in PromptSections : Pass(s, budget) \in PromptSections
<1> TAKE s \in PromptSections
<1>1. ContextLen(s) \in Nat
  BY ContextLenTells
<1>2. CASE ContextLen(s) > budget
  BY <1>2, PassTakes
<1>3. CASE ContextLen(s) <= budget
  BY <1>3 DEF Pass
<1> QED
  BY <1>1, <1>2, <1>3

LEMMA LinesLeftNat ==
  ASSUME NEW s \in PromptSections
  PROVE  LinesLeft(s) \in Nat /\ LinesLeft(s) = Len(s.chunks) + Len(s.relations) + Len(s.entities)
<1>1. s.chunks \in Lines /\ s.relations \in Lines /\ s.entities \in Lines
  BY DEF PromptSections
<1>2. LineCount(s.chunks) \in Nat /\ LineCount(s.relations) \in Nat /\ LineCount(s.entities) \in Nat
  BY <1>1 DEF Lines, LineCount
<1>3. LinesLeft(s) \in Nat
  BY <1>2 DEF LinesLeft
<1> QED
  BY <1>3 DEF LinesLeft, LineCount

LEMMA TrimsInPasses ==
  ASSUME NEW s \in PromptSections, NEW budget \in Nat
  PROVE  \E kept \in [0..(LinesLeft(s) + 1) -> PromptSections] : TrimLoop(kept, s, budget)
<1> DEFINE n == LinesLeft(s) + 1
           V == PromptSections
           h == [p \in (1..n) \X V |-> Pass(p[2], budget)]
           Is(f) == f = [x \in SUBSET (1..n) |-> IF x = {} THEN s ELSE Pass(f[x \ {Max(x)}], budget)]
           iter == CHOOSE f : Is(f)
<1>0. n \in Nat
  <2>1. LinesLeft(s) \in Nat
    BY LinesLeftNat
  <2> QED
    BY <2>1
<1>1. h \in [(1..n) \X V -> V]
  BY PassStays
<1> HIDE DEF h, V
<1>3. PICK f \in [SUBSET (1..n) -> V] : FoldsUp(f, n, s, h)
  <2>1. s \in V
    BY DEF V
  <2> HIDE DEF n
  <2> QED
    BY <1>0, <1>1, <2>1, SequenceFold
<1>4. \A x \in SUBSET (1..n) : x # {} => h[<<Max(x), f[x \ {Max(x)}]>>] = Pass(f[x \ {Max(x)}], budget)
  <2> HIDE DEF n
  <2> QED
    BY <1>0, GreatestOf DEF h
<1>5. Is(f)
  BY <1>3, <1>4 DEF FoldsUp
<1> HIDE DEF Is
<1>6. Is(iter)
  BY <1>5
<1>7. Trimmed(s, budget) = iter[1..n]
  <2>1. LinesLeft(s) = Len(s.chunks) + Len(s.relations) + Len(s.entities)
    BY LinesLeftNat
  <2> QED
    BY <1>0, <2>1 DEF Trimmed, FoldLeft, MapThenFoldSet, Is, Pass
<1> HIDE DEF iter
<1> DEFINE kept == [k \in 0..n |-> iter[1..k]]
<1>8. kept[0] = s /\ Trimmed(s, budget) = kept[n] /\ kept = [k \in 0..n |-> kept[k]]
  <2> HIDE DEF n
  <2>1. 1..0 = {} /\ 0 \in 0..n /\ n \in 0..n
    BY <1>0
  <2>2. iter[{}] = s
    BY <1>6 DEF Is
  <2> QED
    BY <1>7, <2>1, <2>2
<1>9. \A k \in 1..n : kept[k] = Pass(kept[k - 1], budget)
  <2> HIDE DEF n
  <2> TAKE k \in 1..n
  <2>0. k \in Nat /\ k # 0 /\ 1..k \subseteq 1..n /\ k \in 1..k
    BY <1>0
  <2>1. Max(1..k) = k /\ (1..k) \ {k} = 1..(k - 1) /\ 1..k \in SUBSET (1..n) /\ 1..k # {}
    BY <2>0, LastPosition
  <2>2. iter[1..k] = Pass(iter[1..(k - 1)], budget)
    BY <1>6, <2>1 DEF Is
  <2> QED
    BY <1>0, <2>2
<1> HIDE DEF kept, n
<1> DEFINE P == {k \in 0..n : kept[k] \in V}
<1>10. \A k \in 0..n : k \in P
  <2>1. 0 \in P
    BY <1>0, <1>8 DEF V
  <2>2. ASSUME NEW k \in 1..n, k - 1 \in P
        PROVE  k \in P
    BY <1>0, <1>9, <2>2, PassStays DEF V
  <2> HIDE DEF P
  <2> QED
    BY <1>0, <2>1, <2>2, StepByStep
<1>11. kept \in [0..n -> V]
  BY <1>8, <1>10
<1> QED
  BY <1>8, <1>9, <1>11 DEF TrimLoop, V, n

\* What is left after the loop fits, was taken away in order, and is something.
LEMMA TrimmedFits ==
  ASSUME NEW s \in PromptSections, NEW budget \in Nat, NEW out, out = Trimmed(s, budget)
  PROVE  /\ out \in PromptSections
         /\ ContextLen(out) <= budget
         /\ GivesWayInOrder(s, out)
         /\ budget > 0 /\ ContextLen(s) > 0 => ContextLen(out) > 0
<1> DEFINE n == LinesLeft(s) + 1
<1>0. LinesLeft(s) \in Nat /\ n \in Nat /\ LinesLeft(s) < n
  <2>1. LinesLeft(s) \in Nat
    BY LinesLeftNat
  <2> QED
    BY <2>1
<1>1. PICK kept \in [0..n -> PromptSections] : TrimLoop(kept, s, budget)
  BY TrimsInPasses
<1>2. kept[0] = s /\ (\A k \in 1..n : kept[k] = Pass(kept[k - 1], budget)) /\ out = kept[n]
  BY <1>1 DEF TrimLoop
<1> HIDE DEF n
<1> DEFINE Fits(x, k) == ContextLen(x) <= budget \/ LinesLeft(x) + k <= LinesLeft(s)
           Holds(x) == budget > 0 /\ ContextLen(s) > 0 => ContextLen(x) > 0
           P == {k \in 0..n : Fits(kept[k], k) /\ GivesWayInOrder(s, kept[k]) /\ Holds(kept[k])}
<1>3. 0 \in P
  BY <1>0, <1>2 DEF GivesWayInOrder
<1>4. ASSUME NEW k \in 1..n, k - 1 \in P
      PROVE  k \in P
  <2> DEFINE old == kept[k - 1]
             new == kept[k]
  <2>1. old \in PromptSections /\ new \in PromptSections /\ new = Pass(old, budget) /\ k \in Nat
    BY <1>0, <1>2
  <2>2. Fits(old, k - 1) /\ GivesWayInOrder(s, old) /\ Holds(old)
    BY <1>4
  <2> HIDE DEF old, new
  <2>3. ContextLen(old) \in Nat /\ LinesLeft(old) \in Nat /\ LinesLeft(new) \in Nat
    BY <2>1, ContextLenTells, LinesLeftNat
  <2>4. CASE ContextLen(old) <= budget
    <3>1. new = old
      BY <2>1, <2>4 DEF Pass
    <3> QED
      BY <2>2, <2>4, <3>1 DEF new
  <2>5. CASE ContextLen(old) > budget
    <3>1. /\ \A other \in Parts \ {Victim(old)} : new[other] = old[other]
          /\ ContextLen(new) = budget \/ LinesLeft(new) = LinesLeft(old) - 1
          /\ budget > 0 => ContextLen(new) > 0
      BY <2>1, <2>5, PassTakes
    <3>2. old[Victim(old)] # <<>>
      BY <2>1, <2>3, <2>5, ContextLenTells
    <3>3. GivesWayInOrder(s, new)
      BY <2>1, <2>2, <3>1, <3>2, PassInOrder
    <3>4. LinesLeft(old) + (k - 1) <= LinesLeft(s)
      <4>1. ~(ContextLen(old) <= budget)
        BY <2>3, <2>5
      <4> QED
        BY <2>2, <4>1
    <3>5. Fits(new, k)
      BY <1>0, <2>1, <2>3, <3>1, <3>4
    <3>6. Holds(new)
      BY <3>1
    <3> HIDE DEF Fits, Holds
    <3> QED
      BY <3>3, <3>5, <3>6 DEF new
  <2> QED
    BY <2>3, <2>4, <2>5
<1> HIDE DEF P
<1>5. \A k \in 0..n : k \in P
  BY <1>0, <1>3, <1>4, StepByStep
<1>6. n \in P /\ out \in PromptSections
  BY <1>0, <1>1, <1>2, <1>5
<1>7. LinesLeft(out) \in Nat
  BY <1>6, LinesLeftNat
<1> QED
  BY <1>0, <1>2, <1>6, <1>7 DEF P

\* For all sections of lines and every budget (format_retrieval_context): the retrieved text
\* fits its budget, passages give way before relations and these before entities, and a cut
\* leaves what still fits and says that it was made.
THEOREM ContextFitsBudget ==
  ASSUME NEW sections \in PromptSections, NEW max \in Nat, MarkerSize \in Nat,
         NEW out, out = WithinBudget(sections, max)
  PROVE  /\ ContextLen(out) <= max
         /\ GivesWayInOrder(sections, out)
         /\ out # sections /\ max > MarkerSize => ContextLen(out) > MarkerSize
<1> DEFINE budget == Max({max - MarkerSize, 0})
           cut == Trimmed(sections, budget)
<1>1. budget = IF max >= MarkerSize THEN max - MarkerSize ELSE 0
  <2> DEFINE T == {max - MarkerSize, 0}
             m == IF max >= MarkerSize THEN max - MarkerSize ELSE 0
  <2>1. m \in T /\ \A y \in T : m >= y
    OBVIOUS
  <2>2. \A x \in T : (\A y \in T : x >= y) => x = m
    BY <2>1
  <2> QED
    BY <2>1, <2>2 DEF Max
<1>2. budget \in Nat
  BY <1>1
<1>3. ContextLen(sections) \in Nat
  BY ContextLenTells
<1> HIDE DEF budget
<1>4. CASE ContextLen(sections) <= max
  BY <1>4 DEF WithinBudget, GivesWayInOrder
<1>5. CASE ContextLen(sections) > max
  <2>1. /\ cut \in PromptSections /\ ContextLen(cut) <= budget /\ GivesWayInOrder(sections, cut)
        /\ budget > 0 => ContextLen(cut) > 0
    BY <1>2, <1>3, <1>5, TrimmedFits
  <2>2. out = IF ContextLen(cut) = 0 THEN cut
              ELSE [cut EXCEPT ![Victim(cut)] = [cut[Victim(cut)] EXCEPT ![Len(cut[Victim(cut)])] = @ + MarkerSize]]
    BY <1>3, <1>5 DEF WithinBudget, budget
  <2> HIDE DEF cut
  <2>3. ContextLen(cut) \in Nat /\ Victim(cut) \in Parts /\ cut[Victim(cut)] \in Lines
    BY <2>1, ContextLenTells
  <2>4. CASE ContextLen(cut) = 0
    <3>1. ~(max > MarkerSize)
      BY <1>1, <2>1, <2>4
    <3> QED
      BY <2>1, <2>2, <2>4, <3>1
  <2>5. CASE ContextLen(cut) # 0
    <3> DEFINE last == cut[Victim(cut)]
               noted == [last EXCEPT ![Len(last)] = @ + MarkerSize]
    <3>1. out = [cut EXCEPT ![Victim(cut)] = noted]
      BY <2>2, <2>5
    <3>2. last \in Lines /\ last # <<>>
      BY <2>1, <2>3, <2>5, ContextLenTells
    <3> HIDE DEF last
    <3>3. noted \in Lines
      <4>1. last \in Seq(Nat \ {0}) /\ Len(last) \in 1..Len(last) /\ last \in [1..Len(last) -> Nat \ {0}]
        BY <3>2 DEF Lines
      <4>2. last[Len(last)] + MarkerSize \in Nat \ {0}
        BY <4>1
      <4>3. noted \in [1..Len(last) -> Nat \ {0}]
        BY <4>1, <4>2
      <4> HIDE DEF noted
      <4> QED
        BY <4>1, <4>3 DEF Lines
    <3>4. TextLen(noted) = TextLen(last) + MarkerSize /\ TextLen(last) \in Nat
      BY <3>2, TextLenTells
    <3> HIDE DEF noted
    <3>5. /\ out \in PromptSections /\ \A other \in Parts \ {Victim(cut)} : out[other] = cut[other]
          /\ ContextLen(out) = (ContextLen(cut) - TextLen(cut[Victim(cut)])) + TextLen(noted)
      <4> DEFINE new == [cut EXCEPT ![Victim(cut)] = noted]
      <4>1. /\ new \in PromptSections /\ \A other \in Parts \ {Victim(cut)} : new[other] = cut[other]
            /\ ContextLen(new) = (ContextLen(cut) - TextLen(cut[Victim(cut)])) + TextLen(noted)
        BY <2>1, <2>3, <3>3, ContextLenOfChange
      <4>2. out = new
        BY <3>1
      <4> HIDE DEF new
      <4> QED
        BY <4>1, <4>2
    <3>6. ContextLen(out) = ContextLen(cut) + MarkerSize
      BY <2>3, <3>4, <3>5 DEF last
    <3>7. GivesWayInOrder(sections, out)
      BY <2>1, <3>2, <3>5, PassInOrder DEF last
    <3>8. ContextLen(out) <= max /\ ContextLen(out) > MarkerSize
      BY <1>1, <2>1, <2>3, <2>5, <3>6
    <3> QED
      BY <3>7, <3>8
  <2> QED
    BY <2>4, <2>5
<1> QED
  BY <1>3, <1>4, <1>5

-----------------------------------------------------------------------------
\* ---- The vector store ---------------------------------------------------
LEMMA IdTells ==
  ASSUME NEW e, NEW f, NEW r, NEW s, e.kind = f.kind,
         e.kind = "chunk" => e.local[1] = e.paper /\ f.local[1] = f.paper,
         RowId(e, r) = RowId(f, s)
  PROVE  e.paper = f.paper /\ r = s /\ e.local = f.local
<1>1. CASE r # Absent /\ s # Absent
  BY <1>1 DEF RowId
<1>2. CASE r = Absent /\ s = Absent
  BY <1>2 DEF RowId
<1>3. CASE r # Absent /\ s = Absent
  <2>1. DOMAIN RowId(e, r) = 1..4
    BY <1>3 DEF RowId
  <2>2. DOMAIN RowId(f, s) = 1..1 \/ DOMAIN RowId(f, s) = 1..3
    BY <1>3 DEF RowId
  <2>3. 4 \in DOMAIN RowId(e, r) /\ 4 \notin DOMAIN RowId(f, s)
    BY <2>1, <2>2
  <2> QED
    BY <2>3
<1>4. CASE r = Absent /\ s # Absent
  <2>1. DOMAIN RowId(f, s) = 1..4
    BY <1>4 DEF RowId
  <2>2. DOMAIN RowId(e, r) = 1..1 \/ DOMAIN RowId(e, r) = 1..3
    BY <1>4 DEF RowId
  <2>3. 4 \in DOMAIN RowId(f, s) /\ 4 \notin DOMAIN RowId(e, r)
    BY <2>1, <2>2
  <2> QED
    BY <2>3
<1> QED
  BY <1>1, <1>2, <1>3, <1>4

LEMMA KindOfEvidence ==
  ASSUME NEW e, NEW kind, Storable(e, kind)
  PROVE  e.kind = kind /\ (kind = "chunk" => e.local[1] = e.paper)
<1>1. e = Evidence(kind, e.paper, e.local, e.text, e.fields)
  BY DEF Storable
<1>2. Evidence(kind, e.paper, e.local, e.text, e.fields).kind = kind
  BY DEF Evidence
<1>3. e.kind = kind
  BY <1>1, <1>2, Zenon
<1> QED
  BY <1>3 DEF Storable

LEMMA FieldsOfKind ==
  ASSUME NEW kind \in EvidenceKinds
  PROVE  {"paper_id", "local_id", "index_run_id"} \cap DOMAIN Defaults(kind) = {}
BY DEF EvidenceKinds, Defaults

\* What is written of a piece of evidence beside its text says everything else of it.
LEMMA MetadataTells ==
  ASSUME NEW kind \in EvidenceKinds, NEW e, Storable(e, kind), NEW run
  PROVE  LET m == Metadata(e, run)
         IN /\ {"paper_id", "local_id"} \subseteq DOMAIN m
            /\ m["paper_id"] = e.paper /\ m["local_id"] = e.local
            /\ OrElse(m, "index_run_id", Absent) = run
            /\ \A k \in DOMAIN Defaults(kind) : OrElse(m, k, Defaults(kind)[k]) = e.fields[k]
<1> DEFINE D == DOMAIN Defaults(kind)
           keys == {"paper_id", "local_id", "index_run_id"} \cup DOMAIN e.fields
           raw == [k \in keys |-> CASE k = "paper_id" -> e.paper [] k = "local_id" -> e.local
                                    [] k = "index_run_id" -> run [] OTHER -> e.fields[k]]
           m == Metadata(e, run)
<1>1. m = [k \in {x \in keys : raw[x] # Absent} |-> raw[k]]
  BY DEF Metadata, Cleaned, Restrict
<1>2. DOMAIN e.fields = D
  BY DEF Storable
<1>3. \A k \in D : k # "paper_id" /\ k # "local_id" /\ k # "index_run_id"
  BY FieldsOfKind
<1>4. raw["paper_id"] = e.paper /\ raw["local_id"] = e.local /\ raw["index_run_id"] = run
  OBVIOUS
<1>5. \A k \in D : k \in keys /\ raw[k] = e.fields[k]
  BY <1>2, <1>3
<1>6. e.paper # Absent /\ e.local # Absent /\ \A k \in D : e.fields[k] = Absent => Defaults(kind)[k] = Absent
  BY DEF Storable
<1> HIDE DEF raw, D, m
<1>7. "paper_id" \in keys /\ "local_id" \in keys /\ "index_run_id" \in keys
  OBVIOUS
<1> HIDE DEF keys
<1>8. DOMAIN m = {x \in keys : raw[x] # Absent} /\ \A k \in DOMAIN m : m[k] = raw[k]
  BY <1>1
<1>9. OrElse(m, "index_run_id", Absent) = run
  BY <1>4, <1>7, <1>8 DEF OrElse
<1>10. ASSUME NEW k \in D PROVE OrElse(m, k, Defaults(kind)[k]) = e.fields[k]
  BY <1>5, <1>6, <1>8 DEF OrElse
<1> QED
  BY <1>4, <1>6, <1>7, <1>8, <1>9, <1>10 DEF D, m

\* The store after an upsert.
Upserted(after, store, paper, evidence, run, managed, client) ==
    after = IndexEvidence(store, paper, evidence, run, managed, client)

\* A row that holds a piece of evidence.
Holds(row, e, run) == row.text = e.text /\ row.meta = Metadata(e, run)

\* Who of the evidence stands under an identifier.
WritersOf(evidence, run, id) == {i \in DOMAIN evidence : RowId(evidence[i], run) = id}

\* What the upsert of a collection does to its rows.
LEMMA RowsWritten ==
  ASSUME NEW store, NEW paper, NEW evidence, NEW run, NEW managed, NEW client,
         NEW after, Upserted(after, store, paper, evidence, run, managed, client)
  PROVE  \/ after.outcome \in {"error", "foreign", "skipped"} /\ after.store = store
         \/ /\ after.outcome = "done"
            /\ \A e \in Range(evidence) : e.paper = paper
            /\ DOMAIN after.store = DOMAIN store \cup {RowId(evidence[i], run) : i \in DOMAIN evidence}
            /\ \A id \in DOMAIN after.store :
                  IF WritersOf(evidence, run, id) = {} THEN after.store[id] = store[id]
                  ELSE LET e == evidence[Max(WritersOf(evidence, run, id))]
                       IN Holds(after.store[id], e, run)
<1>1. CASE \E e \in Range(evidence) : e.paper # paper
  BY <1>1 DEF Upserted, IndexEvidence, Unwritten
<1>2. CASE ~(\E e \in Range(evidence) : e.paper # paper) /\ (evidence = <<>> \/ (managed /\ run = Absent))
  BY <1>2 DEF Upserted, IndexEvidence, Unwritten
<1>3. CASE ~(\E e \in Range(evidence) : e.paper # paper) /\ ~(evidence = <<>> \/ (managed /\ run = Absent))
  <2>1. after = UpsertRows(store, evidence, run, client)
    BY <1>3 DEF Upserted, IndexEvidence
  <2> DEFINE texts == [i \in DOMAIN evidence |-> evidence[i].text]
             embedded == EmbedInBatches(texts, client)
             Written(id) == WritersOf(evidence, run, id)
             RowFor(i) == [text |-> evidence[i].text, meta |-> Metadata(evidence[i], run), vector |-> embedded.vectors[i]]
             ids == DOMAIN store \cup {RowId(evidence[i], run) : i \in DOMAIN evidence}
  <2>2. CASE ~embedded.ok \/ Len(embedded.vectors) # Len(evidence)
    BY <2>1, <2>2 DEF UpsertRows, Unwritten
  <2>3. CASE ~(~embedded.ok \/ Len(embedded.vectors) # Len(evidence))
    <3>1. after = [outcome |-> "done", store |-> [id \in ids |-> IF Written(id) # {} THEN RowFor(Max(Written(id))) ELSE store[id]]]
      BY <2>1, <2>3, Zenon DEF UpsertRows, WritersOf
    <3>2. after.outcome = "done" /\ after.store = [id \in ids |-> IF Written(id) # {} THEN RowFor(Max(Written(id))) ELSE store[id]]
      BY <3>1
    <3> HIDE DEF embedded, Written
    <3>3. DOMAIN after.store = ids /\ \A id \in ids : after.store[id] = IF Written(id) # {} THEN RowFor(Max(Written(id))) ELSE store[id]
      BY <3>2
    <3>4. \A id \in DOMAIN after.store :
             IF Written(id) = {} THEN after.store[id] = store[id]
             ELSE LET e == evidence[Max(Written(id))]
                  IN Holds(after.store[id], e, run)
      <4> TAKE id \in DOMAIN after.store
      <4>1. CASE Written(id) = {}
        BY <3>3, <4>1
      <4>2. CASE Written(id) # {}
        <5>1. after.store[id] = RowFor(Max(Written(id)))
          BY <3>3, <4>2
        <5> QED
          BY <4>2, <5>1 DEF Holds
      <4> QED
        BY <4>1, <4>2
    <3> QED
      BY <1>3, <3>2, <3>3, <3>4 DEF Written
  <2> QED
    BY <2>2, <2>3
<1> QED
  BY <1>1, <1>2, <1>3
\* The item under an identifier that the upsert wrote.
LEMMA LastWriter ==
  ASSUME NEW E, NEW evidence \in Seq(E), NEW run, NEW id, WritersOf(evidence, run, id) # {}
  PROVE  LET i == Max(WritersOf(evidence, run, id))
         IN i \in DOMAIN evidence /\ RowId(evidence[i], run) = id
<1>1. WritersOf(evidence, run, id) \in SUBSET (1..Len(evidence)) /\ Len(evidence) \in Nat
  BY DEF WritersOf
<1>2. Max(WritersOf(evidence, run, id)) \in WritersOf(evidence, run, id)
  BY <1>1, GreatestOf
<1> QED
  BY <1>2 DEF WritersOf

\* For every store, evidence and run, with or without papers of its own
\* (VectorStore.replace_paper_index): the rows stay under the identifiers of their items, and
\* what is written of one run takes nothing away from other papers and runs; what stops it
\* leaves the rows as they were.
THEOREM NobodysPlaceTaken ==
  ASSUME NEW kind \in EvidenceKinds, NEW store, Keyed(store, kind),
         NEW paper, NEW E, NEW evidence \in Seq(E), \A e \in Range(evidence) : Storable(e, kind),
         NEW run, NEW managed, NEW client,
         NEW after, Upserted(after, store, paper, evidence, run, managed, client)
  PROVE  /\ Keyed(after.store, kind)
         /\ after.outcome # "done" => after.store = store
         /\ \A id \in DOMAIN store : ~InScope(store[id], paper, run) =>
               id \in DOMAIN after.store /\ after.store[id] = store[id]
<1>1. CASE after.outcome # "done"
  BY <1>1, RowsWritten
<1>2. CASE after.outcome = "done"
  <2>1. /\ \A e \in Range(evidence) : e.paper = paper
        /\ DOMAIN after.store = DOMAIN store \cup {RowId(evidence[i], run) : i \in DOMAIN evidence}
        /\ \A id \in DOMAIN after.store :
              IF WritersOf(evidence, run, id) = {} THEN after.store[id] = store[id]
              ELSE LET e == evidence[Max(WritersOf(evidence, run, id))]
                   IN Holds(after.store[id], e, run)
    BY <1>2, RowsWritten
  <2>2. ASSUME NEW id \in DOMAIN store, WritersOf(evidence, run, id) # {}
        PROVE  InScope(store[id], paper, run)
    <3> DEFINE i == Max(WritersOf(evidence, run, id))
               m == store[id].meta
               f == Evidence(kind, m["paper_id"], m["local_id"], <<>>, <<>>)
    <3>1. i \in DOMAIN evidence /\ RowId(evidence[i], run) = id
      BY <2>2, LastWriter
    <3>2. evidence[i] \in Range(evidence)
      BY <3>1 DEF Range
    <3>3. Storable(evidence[i], kind) /\ evidence[i].paper = paper
      BY <2>1, <3>2
    <3>4. /\ "paper_id" \in DOMAIN m /\ id = RowId(f, RunOf(store[id]))
          /\ kind = "chunk" => m["local_id"][1] = m["paper_id"]
      BY DEF Keyed
    <3>5. f.kind = kind /\ f.paper = m["paper_id"] /\ f.local = m["local_id"]
      BY DEF Evidence
    <3>6. evidence[i].kind = kind /\ (kind = "chunk" => evidence[i].local[1] = evidence[i].paper)
      BY <3>3, KindOfEvidence
    <3> HIDE DEF i, m, f
    <3>7. evidence[i].paper = f.paper /\ run = RunOf(store[id])
      BY <3>1, <3>4, <3>5, <3>6, IdTells
    <3> QED
      BY <3>3, <3>4, <3>5, <3>7 DEF InScope, RunOf, OrElse, m
  <2>3. ASSUME NEW id \in DOMAIN after.store, WritersOf(evidence, run, id) # {}
        PROVE  LET meta == after.store[id].meta
               IN /\ {"paper_id", "local_id"} \subseteq DOMAIN meta
                  /\ kind = "chunk" => meta["local_id"][1] = meta["paper_id"]
                  /\ id = RowId(Evidence(kind, meta["paper_id"], meta["local_id"], <<>>, <<>>), RunOf(after.store[id]))
    <3> DEFINE i == Max(WritersOf(evidence, run, id))
               e == evidence[i]
               m == after.store[id].meta
    <3>1. i \in DOMAIN evidence /\ RowId(e, run) = id
      BY <2>3, LastWriter
    <3>2. e \in Range(evidence)
      BY <3>1 DEF Range
    <3>3. Storable(e, kind)
      BY <3>2
    <3>4. m = Metadata(e, run)
      BY <2>1, <2>3 DEF Holds
    <3>5. e.kind = kind /\ (kind = "chunk" => e.local[1] = e.paper)
      BY <3>3, KindOfEvidence
    <3> HIDE DEF e, i
    <3>6. /\ {"paper_id", "local_id"} \subseteq DOMAIN m /\ m["paper_id"] = e.paper /\ m["local_id"] = e.local
          /\ RunOf(after.store[id]) = run
      BY <3>3, <3>4, MetadataTells DEF RunOf
    <3>7. RowId(Evidence(kind, e.paper, e.local, <<>>, <<>>), run) = RowId(e, run)
      BY <3>5 DEF RowId, Evidence
    <3> QED
      BY <3>1, <3>5, <3>6, <3>7
  <2>4. Keyed(after.store, kind)
    <3> SUFFICES ASSUME NEW id \in DOMAIN after.store
                 PROVE  LET meta == after.store[id].meta
                        IN /\ {"paper_id", "local_id"} \subseteq DOMAIN meta
                           /\ kind = "chunk" => meta["local_id"][1] = meta["paper_id"]
                           /\ id = RowId(Evidence(kind, meta["paper_id"], meta["local_id"], <<>>, <<>>), RunOf(after.store[id]))
      BY DEF Keyed
    <3>1. CASE WritersOf(evidence, run, id) # {}
      BY <2>3, <3>1
    <3>2. CASE WritersOf(evidence, run, id) = {}
      <4>1. id \in DOMAIN store /\ after.store[id] = store[id]
        BY <2>1, <3>2 DEF WritersOf
      <4> QED
        BY <4>1 DEF Keyed
    <3> QED
      BY <3>1, <3>2
  <2> QED
    BY <1>2, <2>1, <2>2, <2>4
<1> QED
  BY <1>1, <1>2

\* A row that was written of a piece of evidence is read as this piece.
LEMMA RowReadsBack ==
  ASSUME NEW kind \in EvidenceKinds, NEW e, Storable(e, kind), NEW run, NEW id,
         NEW row, Holds(row, e, run)
  PROVE  UsableRow(row) /\ InScope(row, e.paper, run) /\ ParseRow(kind, id, row) = e
<1> DEFINE m == Metadata(e, run)
<1>1. /\ {"paper_id", "local_id"} \subseteq DOMAIN m
      /\ m["paper_id"] = e.paper /\ m["local_id"] = e.local
      /\ OrElse(m, "index_run_id", Absent) = run
      /\ \A k \in DOMAIN Defaults(kind) : OrElse(m, k, Defaults(kind)[k]) = e.fields[k]
  BY MetadataTells
<1> HIDE DEF m
<1>2. row.meta = m /\ row.text = e.text /\ e.text # Absent
  BY DEF m, Storable, Holds
<1>3. UsableRow(row) /\ InScope(row, e.paper, run)
  BY <1>1, <1>2 DEF UsableRow, InScope, OrElse
<1>4. [k \in DOMAIN Defaults(kind) |-> OrElse(row.meta, k, Defaults(kind)[k])] = e.fields
  <2>1. e.fields = [k \in DOMAIN Defaults(kind) |-> e.fields[k]]
    BY DEF Storable
  <2> QED
    BY <1>1, <1>2, <2>1
<1>5. OrElse(row.meta, "local_id", id) = e.local /\ row.meta["paper_id"] = e.paper
  BY <1>1, <1>2 DEF OrElse
<1>6. ParseRow(kind, id, row) = Evidence(kind, e.paper, e.local, e.text, e.fields)
  BY <1>2, <1>4, <1>5 DEF ParseRow
<1> QED
  BY <1>3, <1>6 DEF Storable

\* For every store and run that has no row yet, whose items have identifiers of their own
\* (VectorStore.upsert, query): what was written is read back as it was, field by field, and
\* everything that was there is still there.
THEOREM ReadBackAsWritten ==
  ASSUME NEW kind \in EvidenceKinds, NEW store, Keyed(store, kind),
         NEW paper, NEW E, NEW evidence \in Seq(E), \A e \in Range(evidence) : Storable(e, kind),
         \A i, j \in DOMAIN evidence : evidence[i].local = evidence[j].local => evidence[i] = evidence[j],
         NEW run, NEW managed, NEW client, Hits(store, paper, run) = {},
         NEW after, Upserted(after, store, paper, evidence, run, managed, client), after.outcome = "done"
  PROVE  ReadsBackAsWritten(store, after.store, kind, paper, evidence, run)
<1> DEFINE ids == Hits(after.store, paper, run)
<1>1. /\ \A e \in Range(evidence) : e.paper = paper
      /\ DOMAIN after.store = DOMAIN store \cup {RowId(evidence[i], run) : i \in DOMAIN evidence}
      /\ \A id \in DOMAIN after.store :
            IF WritersOf(evidence, run, id) = {} THEN after.store[id] = store[id]
            ELSE LET e == evidence[Max(WritersOf(evidence, run, id))]
                 IN Holds(after.store[id], e, run)
  BY RowsWritten
<1>2. ASSUME NEW id \in DOMAIN after.store, NEW j \in WritersOf(evidence, run, id)
      PROVE  /\ UsableRow(after.store[id]) /\ id \in ids
             /\ ParseRow(kind, id, after.store[id]) = evidence[j]
  <2> DEFINE i == Max(WritersOf(evidence, run, id))
             row == after.store[id]
  <2>1. i \in DOMAIN evidence /\ RowId(evidence[i], run) = id
    BY LastWriter
  <2>2. j \in DOMAIN evidence /\ RowId(evidence[j], run) = id
    BY DEF WritersOf
  <2>3. /\ Storable(evidence[i], kind) /\ evidence[i].paper = paper
        /\ Storable(evidence[j], kind)
    BY <1>1, <2>1, <2>2 DEF Range
  <2>4. Holds(row, evidence[i], run)
    BY <1>1
  <2> HIDE DEF i, row
  <2>5. UsableRow(row) /\ InScope(row, paper, run) /\ ParseRow(kind, id, row) = evidence[i]
    <3>1. UsableRow(row) /\ InScope(row, evidence[i].paper, run) /\ ParseRow(kind, id, row) = evidence[i]
      BY <2>3, <2>4, RowReadsBack
    <3> QED
      BY <3>1, <2>3
  <2>6. evidence[i].local = evidence[j].local
    BY <2>1, <2>2, <2>3, KindOfEvidence, IdTells
  <2>7. evidence[i] = evidence[j]
    BY <2>1, <2>2, <2>6
  <2> QED
    BY <2>5, <2>7 DEF Hits, row
<1>3. ASSUME NEW id \in ids PROVE WritersOf(evidence, run, id) # {}
  <2>1. id \in DOMAIN after.store /\ InScope(after.store[id], paper, run)
    BY DEF Hits
  <2>2. ASSUME WritersOf(evidence, run, id) = {} PROVE FALSE
    <3>1. id \in DOMAIN store /\ after.store[id] = store[id]
      BY <1>1, <2>1, <2>2 DEF WritersOf
    <3> QED
      BY <2>1, <3>1 DEF Hits
  <2> QED
    BY <2>2
<1>4. ParseRows(kind, after.store, ids) = Range(evidence)
  <2>1. ASSUME NEW e \in ParseRows(kind, after.store, ids) PROVE e \in Range(evidence)
    <3>1. PICK id \in ids : e = ParseRow(kind, id, after.store[id])
      BY DEF ParseRows
    <3>2. PICK j : j \in WritersOf(evidence, run, id)
      BY <1>3
    <3>3. id \in DOMAIN after.store
      BY DEF Hits
    <3>4. e = evidence[j]
      BY <1>2, <3>1, <3>2, <3>3
    <3> QED
      BY <3>2, <3>4 DEF WritersOf, Range
  <2>2. ASSUME NEW e \in Range(evidence) PROVE e \in ParseRows(kind, after.store, ids)
    <3>1. PICK j \in DOMAIN evidence : e = evidence[j]
      BY DEF Range
    <3> DEFINE id == RowId(evidence[j], run)
    <3>2. id \in DOMAIN after.store /\ j \in WritersOf(evidence, run, id)
      BY <1>1 DEF WritersOf
    <3> HIDE DEF id
    <3>3. UsableRow(after.store[id]) /\ id \in ids /\ ParseRow(kind, id, after.store[id]) = e
      BY <1>2, <3>1, <3>2
    <3> QED
      BY <3>3 DEF ParseRows
  <2> QED
    BY <2>1, <2>2
<1>5. \A id \in DOMAIN store : ~InScope(store[id], paper, run) =>
         id \in DOMAIN after.store /\ after.store[id] = store[id]
  BY NobodysPlaceTaken
<1> QED
  BY <1>4, <1>5 DEF ReadsBackAsWritten

\* What may become of a text at the provider.
Fates == {"ok", "down", "short"}
AllWell(fate) == \A t \in DOMAIN fate : fate[t] = "ok"

\* Vectors that answer texts: none stands for another's text once they are as many as
\* the texts, and none is missing where nothing goes wrong.
VectorsOf(T) == T \cup {MockVector}
AnswersTo(T) == [ok : BOOLEAN, vectors : Seq(VectorsOf(T))]
InPlace(vectors, texts, n) ==
    /\ Len(vectors) <= n
    /\ Len(vectors) = n => \A i \in 1..n : vectors[i] \in {texts[i], MockVector}
Fitting(reply, texts, n, fate) ==
    /\ reply.ok => InPlace(reply.vectors, texts, n)
    /\ AllWell(fate) => reply.ok /\ Len(reply.vectors) = n

\* The batches reach the last text and each begins with one.
LEMMA BatchBounds ==
  ASSUME NEW n \in Nat, NEW size \in Nat \ {0}, NEW q, q = (n + size - 1) \div size
  PROVE  /\ q \in Nat /\ q * size >= n
         /\ \A k \in 1..q : (k - 1) * size \in Nat /\ (k - 1) * size < n /\ k * size = (k - 1) * size + size
<1>1. q \in Nat /\ q * size <= n + size - 1 /\ n + size - 1 < q * size + size
  OBVIOUS
<1>2. ASSUME NEW k \in 1..q
      PROVE  (k - 1) * size \in Nat /\ (k - 1) * size < n /\ k * size = (k - 1) * size + size
  <2>1. k * size = (k - 1) * size + size /\ (k - 1) * size \in Nat
    OBVIOUS
  <2>2. k * size <= q * size
    OBVIOUS
  <2> QED
    BY <1>1, <2>1, <2>2
<1> QED
  BY <1>1, <1>2

\* ---- The server
GivenLoop(acc, texts, fate) ==
    /\ acc[0] = <<>>
    /\ \A k \in 1..Len(texts) : acc[k] = IF fate[texts[k]] = "short" THEN acc[k - 1] ELSE Append(acc[k - 1], texts[k])
    /\ FoldLeft(LAMBDA given, t : IF fate[t] = "short" THEN given ELSE Append(given, t), <<>>, texts) = acc[Len(texts)]

\* The vectors the server has given after each text.
LEMMA GivenInTurn ==
  ASSUME NEW T, NEW texts \in Seq(T), NEW fate
  PROVE  \E acc \in [0..Len(texts) -> Seq(T)] : GivenLoop(acc, texts, fate)
<1> DEFINE n == Len(texts)
           C == Seq(T)
           h == [q \in (1..n) \X C |-> IF fate[texts[q[1]]] = "short" THEN q[2] ELSE Append(q[2], texts[q[1]])]
           Is(f) == f = [x \in SUBSET DOMAIN texts |->
                           IF x = {} THEN <<>>
                           ELSE IF fate[texts[Max(x)]] = "short" THEN f[x \ {Max(x)}]
                                ELSE Append(f[x \ {Max(x)}], texts[Max(x)])]
           iter == CHOOSE f : Is(f)
           given == FoldLeft(LAMBDA g, t : IF fate[t] = "short" THEN g ELSE Append(g, t), <<>>, texts)
<1>0. DOMAIN texts = 1..n /\ n \in Nat /\ \A k \in 1..n : texts[k] \in T
  OBVIOUS
<1>1. h \in [(1..n) \X C -> C] /\ <<>> \in C
  <2>1. \A q \in (1..n) \X C : q[1] \in 1..n /\ q[2] \in C /\ Append(q[2], texts[q[1]]) \in C
    BY <1>0
  <2> HIDE DEF C
  <2>2. \A q \in (1..n) \X C : (IF fate[texts[q[1]]] = "short" THEN q[2] ELSE Append(q[2], texts[q[1]])) \in C
    BY <2>1
  <2>3. <<>> \in C
    BY DEF C
  <2> QED
    BY <2>2, <2>3
<1> HIDE DEF h, C
<1>3. PICK f \in [SUBSET (1..n) -> C] : FoldsUp(f, n, <<>>, h)
  BY <1>0, <1>1, SequenceFold
<1>4. \A x \in SUBSET (1..n) : x # {} =>
        h[<<Max(x), f[x \ {Max(x)}]>>] = IF fate[texts[Max(x)]] = "short" THEN f[x \ {Max(x)}]
                                         ELSE Append(f[x \ {Max(x)}], texts[Max(x)])
  <2> TAKE x \in SUBSET (1..n)
  <2> SUFFICES ASSUME x # {}
               PROVE  h[<<Max(x), f[x \ {Max(x)}]>>] = IF fate[texts[Max(x)]] = "short" THEN f[x \ {Max(x)}]
                                                       ELSE Append(f[x \ {Max(x)}], texts[Max(x)])
    OBVIOUS
  <2>1. Max(x) \in 1..n /\ x \ {Max(x)} \in SUBSET (1..n)
    BY <1>0, GreatestOf
  <2>2. f[x \ {Max(x)}] \in C
    BY <1>0, <2>1
  <2> QED
    BY <2>1, <2>2 DEF h
<1>5. Is(f)
  BY <1>0, <1>3, <1>4 DEF FoldsUp
<1> HIDE DEF Is
<1>6. Is(iter)
  BY <1>5
<1>7. given = iter[1..n]
  BY <1>0 DEF FoldLeft, MapThenFoldSet, Is
<1> HIDE DEF iter, given
<1> DEFINE acc == [k \in 0..n |-> iter[1..k]]
<1>8. acc[0] = <<>> /\ given = acc[n] /\ acc = [k \in 0..n |-> acc[k]]
  <2> HIDE DEF n
  <2>1. 1..0 = {} /\ 0 \in 0..n /\ n \in 0..n
    BY <1>0
  <2>2. iter[{}] = <<>>
    BY <1>6 DEF Is
  <2> QED
    BY <1>7, <2>1, <2>2
<1>9. \A k \in 1..n : acc[k] = IF fate[texts[k]] = "short" THEN acc[k - 1] ELSE Append(acc[k - 1], texts[k])
  <2> TAKE k \in 1..n
  <2>1. Max(1..k) = k /\ (1..k) \ {k} = 1..(k - 1) /\ 1..k \in SUBSET DOMAIN texts /\ 1..k # {}
    <3>1. k \in Nat /\ k # 0 /\ 1..k \subseteq 1..n /\ k \in 1..k /\ DOMAIN texts = 1..n
      BY <1>0
    <3> QED
      BY <3>1, LastPosition
  <2>2. iter[1..k] = IF fate[texts[k]] = "short" THEN iter[1..(k - 1)] ELSE Append(iter[1..(k - 1)], texts[k])
    BY <1>6, <2>1 DEF Is
  <2>3. acc[k] = iter[1..k] /\ acc[k - 1] = iter[1..(k - 1)]
    BY <1>0
  <2> QED
    BY <2>2, <2>3
<1> HIDE DEF acc
<1> DEFINE P == {k \in 0..n : acc[k] \in C}
<1>10. \A k \in 0..n : k \in P
  <2>1. 0 \in P
    BY <1>0, <1>1, <1>8
  <2>2. ASSUME NEW k \in 1..n, k - 1 \in P
        PROVE  k \in P
    <3>1. acc[k - 1] \in C /\ texts[k] \in T /\ k \in 0..n
      BY <1>0, <2>2
    <3>2. Append(acc[k - 1], texts[k]) \in C
      BY <3>1 DEF C
    <3> QED
      BY <1>9, <3>1, <3>2
  <2> HIDE DEF P
  <2> QED
    BY <1>0, <2>1, <2>2, StepByStep
<1>11. acc \in [0..n -> C]
  BY <1>8, <1>10
<1> QED
  BY <1>0, <1>8, <1>9, <1>11 DEF GivenLoop, given, C

\* The server's answer to texts.
LEMMA ServerAnswers ==
  ASSUME NEW T, NEW texts \in Seq(T), NEW fate \in [T -> Fates]
  PROVE  /\ Served(texts, fate) \in AnswersTo(T)
         /\ Fitting(Served(texts, fate), texts, Len(texts), fate)
<1> DEFINE n == Len(texts)
           given == FoldLeft(LAMBDA g, t : IF fate[t] = "short" THEN g ELSE Append(g, t), <<>>, texts)
<1>0. n \in Nat /\ \A k \in 1..n : texts[k] \in T
  OBVIOUS
<1>1. PICK acc \in [0..n -> Seq(T)] : GivenLoop(acc, texts, fate)
  BY GivenInTurn
<1>2. given = acc[n]
  BY <1>1, Zenon DEF GivenLoop
<1>3. acc[0] = <<>>
  BY <1>1 DEF GivenLoop
<1>4. \A k \in 1..n : acc[k] = IF fate[texts[k]] = "short" THEN acc[k - 1] ELSE Append(acc[k - 1], texts[k])
  BY <1>1 DEF GivenLoop
<1> DEFINE Own(k) == /\ Len(acc[k]) <= k
                     /\ Len(acc[k]) = k => \A i \in 1..k : acc[k][i] = texts[i]
                     /\ AllWell(fate) => Len(acc[k]) = k
           P == {k \in 0..n : Own(k)}
<1>5. \A k \in 0..n : k \in P
  <2>1. 0 \in P
    BY <1>0, <1>3
  <2>2. ASSUME NEW k \in 1..n, k - 1 \in P
        PROVE  k \in P
    <3> DEFINE a == acc[k - 1]
               t == texts[k]
    <3>1. k \in Nat /\ k \in 0..n /\ k - 1 \in Nat /\ a \in Seq(T) /\ t \in T /\ Len(a) \in Nat
      BY <1>0
    <3>2. Len(a) <= k - 1 /\ (Len(a) = k - 1 => \A i \in 1..(k - 1) : a[i] = texts[i]) /\ (AllWell(fate) => Len(a) = k - 1)
      BY <2>2
    <3>3. CASE fate[t] = "short"
      <4>1. acc[k] = a /\ ~AllWell(fate)
        BY <1>4, <3>1, <3>3 DEF AllWell
      <4> HIDE DEF a
      <4>2. Len(acc[k]) <= k /\ Len(acc[k]) # k
        BY <3>1, <3>2, <4>1
      <4> QED
        BY <3>1, <4>1, <4>2
    <3>4. CASE fate[t] # "short"
      <4>1. acc[k] = Append(a, t)
        BY <1>4, <3>4
      <4> HIDE DEF a
      <4>2. /\ Len(acc[k]) = Len(a) + 1 /\ acc[k][Len(a) + 1] = t
            /\ \A i \in 1..Len(a) : acc[k][i] = a[i]
        BY <3>1, <4>1
      <4>3. Own(k)
        BY <3>1, <3>2, <4>2
      <4> QED
        BY <3>1, <4>3
    <3> QED
      BY <3>3, <3>4
  <2> HIDE DEF P
  <2> QED
    BY <1>0, <2>1, <2>2, StepByStep
<1>6. Own(n) /\ acc[n] \in Seq(T)
  <2>1. n \in 0..n
    BY <1>0
  <2>2. n \in P
    BY <1>5, <2>1
  <2> QED
    BY <2>1, <2>2
<1> HIDE DEF given
<1>7. CASE \E t \in Range(texts) : fate[t] = "down"
  <2>1. Served(texts, fate) = Failed
    BY <1>7 DEF Served
  <2>2. ~AllWell(fate)
    BY <1>7 DEF AllWell, Range
  <2> QED
    BY <2>1, <2>2 DEF Failed, AnswersTo, Fitting
<1>8. CASE ~(\E t \in Range(texts) : fate[t] = "down")
  <2>1. Served(texts, fate) = Vectors(given)
    BY <1>8, Zenon DEF Served, given
  <2>2. given \in Seq(VectorsOf(T))
    BY <1>2, <1>6 DEF VectorsOf
  <2>3. InPlace(given, texts, n) /\ (AllWell(fate) => Len(given) = n)
    BY <1>2, <1>6 DEF InPlace
  <2>4. Vectors(given).ok = TRUE /\ Vectors(given).vectors = given /\ Vectors(given) \in AnswersTo(T)
    BY <2>2 DEF Vectors, AnswersTo
  <2> QED
    BY <2>1, <2>3, <2>4, Zenon DEF Fitting
<1> QED
  BY <1>7, <1>8

\* ---- Batches
\* How many texts the first k batches hold.
Upto(k, size, n) == IF k * size <= n THEN k * size ELSE n

\* Batch by batch the texts come in their order.
InOrder(b, texts, size, n) ==
    /\ Upto(0, size, n) = 0 /\ Upto(Len(b), size, n) = n
    /\ \A k \in 1..Len(b) :
          /\ Upto(k - 1, size, n) \in Nat /\ Upto(k, size, n) \in Nat
          /\ Len(b[k]) = Upto(k, size, n) - Upto(k - 1, size, n)
          /\ \A i \in 1..Len(b[k]) : b[k][i] = texts[Upto(k - 1, size, n) + i]

LEMMA BatchesInOrder ==
  ASSUME NEW T, NEW texts \in Seq(T), NEW size \in Nat \ {0}, NEW n, n = Len(texts), NEW b, b = InBatches(texts, size)
  PROVE  b \in Seq(Seq(T)) /\ InOrder(b, texts, size, n)
<1> DEFINE q == (n + size - 1) \div size
           Batch(k) == SubSeq(texts, (k - 1) * size + 1, Min({k * size, n}))
<1>0. n \in Nat /\ \A i \in 1..n : texts[i] \in T
  OBVIOUS
<1>1. /\ q \in Nat /\ q * size >= n
      /\ \A k \in 1..q : (k - 1) * size \in Nat /\ (k - 1) * size < n /\ k * size = (k - 1) * size + size
  BY <1>0, BatchBounds
<1>2. b = [k \in 1..q |-> Batch(k)]
  BY DEF InBatches
<1> HIDE DEF q
<1>3. ASSUME NEW k \in 1..q
      PROVE  /\ Batch(k) \in Seq(T)
             /\ Upto(k - 1, size, n) \in Nat /\ Upto(k, size, n) \in Nat
             /\ Len(Batch(k)) = Upto(k, size, n) - Upto(k - 1, size, n)
             /\ \A i \in 1..Len(Batch(k)) : Batch(k)[i] = texts[Upto(k - 1, size, n) + i]
  <2> DEFINE from == (k - 1) * size
             to == k * size
             until == Min({to, n})
  <2>1. from \in Nat /\ from < n /\ to = from + size /\ to \in Nat
    BY <1>1
  <2>2. Upto(k - 1, size, n) = from /\ Upto(k, size, n) = IF to <= n THEN to ELSE n
    BY <2>1 DEF Upto
  <2> HIDE DEF from, to
  <2>3. until = (IF to <= n THEN to ELSE n)
    <3>1. {to, n} \in SUBSET Nat /\ {to, n} # {}
      BY <1>0, <2>1
    <3>2. until \in {to, n} /\ \A y \in {to, n} : until <= y
      BY <3>1, LeastOf
    <3> HIDE DEF until
    <3> QED
      BY <1>0, <2>1, <3>2
  <2> HIDE DEF until
  <2>4. until \in Nat /\ from + 1 <= until /\ until <= n
    BY <1>0, <2>1, <2>3
  <2> DEFINE c == SubSeq(texts, from + 1, until)
  <2>5. c \in Seq(T) /\ Len(c) = until - from /\ \A i \in 1..(until - from) : c[i] = texts[from + i]
    BY <1>0, <2>1, <2>4
  <2>6. Batch(k) = c
    BY DEF from, until, to
  <2> HIDE DEF c, Batch
  <2> QED
    BY <1>0, <2>1, <2>2, <2>3, <2>5, <2>6
<1> HIDE DEF Batch
<1>4. b \in Seq(Seq(T)) /\ Len(b) = q /\ \A k \in 1..q : b[k] = Batch(k)
  BY <1>1, <1>2, <1>3
<1>5. Upto(0, size, n) = 0 /\ Upto(q, size, n) = n
  <2>1. 0 * size = 0
    OBVIOUS
  <2>2. q * size \in Nat
    BY <1>1
  <2> QED
    BY <1>0, <1>1, <2>1, <2>2 DEF Upto
<1> QED
  BY <1>3, <1>4, <1>5 DEF InOrder

\* An answer behind another.
LEMMA AnswersJoined ==
  ASSUME NEW T, NEW done \in AnswersTo(T), NEW next \in AnswersTo(T)
  PROVE  /\ BothAnswers(done, next) \in AnswersTo(T)
         /\ BothAnswers(done, next).ok = (done.ok /\ next.ok)
         /\ done.ok /\ next.ok => BothAnswers(done, next).vectors = done.vectors \o next.vectors
<1>1. done.ok \in BOOLEAN /\ next.ok \in BOOLEAN /\ done.vectors \in Seq(VectorsOf(T)) /\ next.vectors \in Seq(VectorsOf(T))
  BY DEF AnswersTo
<1>2. CASE done.ok /\ next.ok
  <2>1. BothAnswers(done, next) = Vectors(done.vectors \o next.vectors)
    BY <1>2, Zenon DEF BothAnswers
  <2>2. done.vectors \o next.vectors \in Seq(VectorsOf(T))
    BY <1>1
  <2> QED
    <3> DEFINE w == done.vectors \o next.vectors
    <3>1. w \in Seq(VectorsOf(T))
      BY <2>2
    <3> HIDE DEF w
    <3>2. Vectors(w) \in AnswersTo(T) /\ Vectors(w).ok = TRUE /\ Vectors(w).vectors = w
      BY <3>1 DEF Vectors, AnswersTo
    <3>3. BothAnswers(done, next) = Vectors(w)
      BY <2>1 DEF w
    <3>4. BothAnswers(done, next).vectors = w
      BY <3>2, <3>3
    <3> QED
      BY <1>2, <3>2, <3>3, <3>4, Zenon DEF w
<1>3. CASE ~(done.ok /\ next.ok)
  <2>1. BothAnswers(done, next) = Failed
    BY <1>3, Zenon DEF BothAnswers
  <2>2. Failed \in AnswersTo(T) /\ Failed.ok = FALSE
    BY DEF Failed, AnswersTo
  <2> QED
    BY <1>3, <2>1, <2>2
<1> QED
  BY <1>2, <1>3

\* What fits the first n texts and what fits the m after them fits both.
LEMMA FittingJoins ==
  ASSUME NEW T, NEW texts \in Seq(T), NEW part \in Seq(T), NEW n \in Nat, NEW m \in Nat, NEW fate,
         NEW done \in AnswersTo(T), NEW next \in AnswersTo(T),
         Fitting(done, texts, n, fate), Fitting(next, part, m, fate),
         \A i \in 1..m : part[i] = texts[n + i]
  PROVE  Fitting(BothAnswers(done, next), texts, n + m, fate)
<1> DEFINE u == done.vectors
           v == next.vectors
           w == u \o v
           both == BothAnswers(done, next)
<1>1. /\ u \in Seq(VectorsOf(T)) /\ v \in Seq(VectorsOf(T)) /\ Len(u) \in Nat /\ Len(v) \in Nat
      /\ done.ok \in BOOLEAN /\ next.ok \in BOOLEAN
  BY DEF AnswersTo
<1> HIDE DEF u, v
<1>2. /\ Len(w) = Len(u) + Len(v) /\ \A i \in 1..Len(u) : w[i] = u[i]
      /\ \A i \in 1..Len(v) : w[Len(u) + i] = v[i]
  BY <1>1
<1> HIDE DEF w
<1>3. both.ok = (done.ok /\ next.ok) /\ (done.ok /\ next.ok => both.vectors = w)
  BY AnswersJoined DEF w, u, v
<1> HIDE DEF both
<1>4. ASSUME done.ok, next.ok PROVE InPlace(w, texts, n + m)
  <2>1. /\ Len(u) <= n /\ Len(v) <= m
        /\ Len(u) = n => \A i \in 1..n : u[i] \in {texts[i], MockVector}
        /\ Len(v) = m => \A i \in 1..m : v[i] \in {part[i], MockVector}
    BY <1>4 DEF Fitting, InPlace, u, v
  <2>2. ASSUME Len(w) = n + m, NEW i \in 1..(n + m)
        PROVE  w[i] \in {texts[i], MockVector}
    <3>1. Len(u) = n /\ Len(v) = m
      BY <1>1, <1>2, <2>1, <2>2
    <3>2. CASE i <= n
      <4>1. i \in 1..n
        BY <3>2
      <4> QED
        BY <1>2, <2>1, <3>1, <4>1
    <3>3. CASE ~(i <= n)
      <4>1. i - n \in 1..m /\ n + (i - n) = i
        BY <3>3
      <4>2. w[i] = v[i - n] /\ part[i - n] = texts[i]
        BY <1>2, <3>1, <4>1
      <4> QED
        BY <2>1, <3>1, <4>1, <4>2
    <3> QED
      BY <3>2, <3>3
  <2> QED
    BY <1>1, <1>2, <2>1, <2>2 DEF InPlace
<1>5. ASSUME AllWell(fate) PROVE both.ok /\ Len(both.vectors) = n + m
  <2>1. done.ok /\ next.ok /\ Len(u) = n /\ Len(v) = m
    BY <1>5 DEF Fitting, u, v
  <2> QED
    BY <1>2, <1>3, <2>1
<1>6. Fitting(both, texts, n + m, fate)
  BY <1>3, <1>4, <1>5 DEF Fitting
<1> QED
  BY <1>6 DEF both

\* The answers so far, batch by batch.
BatchLoop(acc, replies) ==
    /\ acc[0] = Vectors(<<>>)
    /\ \A k \in 1..Len(replies) : acc[k] = BothAnswers(acc[k - 1], replies[k])

\* Batches whose answers fit have an answer that fits the texts.
LEMMA BatchesFit ==
  ASSUME NEW T, NEW texts \in Seq(T), NEW size \in Nat \ {0}, NEW fate, NEW b, b = InBatches(texts, size),
         NEW m, m = Len(b), NEW replies \in [1..m -> AnswersTo(T)], Len(replies) = m, NEW acc \in [0..m -> AnswersTo(T)],
         BatchLoop(acc, replies), \A k \in 1..m : Fitting(replies[k], b[k], Len(b[k]), fate)
  PROVE  Fitting(acc[m], texts, Len(texts), fate)
<1> DEFINE n == Len(texts)
<1>0. n \in Nat /\ n = Len(texts)
  OBVIOUS
<1> HIDE DEF n
<1>1. /\ b \in Seq(Seq(T)) /\ Upto(0, size, n) = 0 /\ Upto(m, size, n) = n
      /\ \A k \in 1..m :
            /\ Upto(k - 1, size, n) \in Nat /\ Upto(k, size, n) \in Nat
            /\ Len(b[k]) = Upto(k, size, n) - Upto(k - 1, size, n)
            /\ \A i \in 1..Len(b[k]) : b[k][i] = texts[Upto(k - 1, size, n) + i]
  <2>1. b \in Seq(Seq(T)) /\ InOrder(b, texts, size, n)
    BY <1>0, BatchesInOrder
  <2> QED
    BY <2>1 DEF InOrder
<1>2. m \in Nat /\ \A k \in 1..m : b[k] \in Seq(T) /\ Len(b[k]) \in Nat
  BY <1>1
<1> DEFINE P == {k \in 0..m : Fitting(acc[k], texts, Upto(k, size, n), fate)}
<1>3. \A k \in 0..m : k \in P
  <2>1. 0 \in P
    <3>1. acc[0] = Vectors(<<>>)
      BY DEF BatchLoop
    <3>2. acc[0].ok = TRUE /\ acc[0].vectors = <<>>
      BY <3>1 DEF Vectors
    <3>3. Fitting(acc[0], texts, 0, fate)
      BY <3>2 DEF Fitting, InPlace
    <3> QED
      BY <1>1, <1>2, <3>3
  <2>2. ASSUME NEW k \in 1..m, k - 1 \in P
        PROVE  k \in P
    <3> DEFINE s == Upto(k - 1, size, n)
               l == Len(b[k])
    <3>1. s \in Nat /\ l \in Nat /\ s + l = Upto(k, size, n) /\ \A i \in 1..l : b[k][i] = texts[s + i]
      BY <1>1, <1>2
    <3>2. /\ b[k] \in Seq(T) /\ acc[k - 1] \in AnswersTo(T) /\ replies[k] \in AnswersTo(T)
          /\ Fitting(acc[k - 1], texts, s, fate) /\ Fitting(replies[k], b[k], l, fate)
      BY <1>2, <2>2
    <3>3. acc[k] = BothAnswers(acc[k - 1], replies[k])
      BY DEF BatchLoop
    <3> HIDE DEF s, l
    <3>4. Fitting(BothAnswers(acc[k - 1], replies[k]), texts, s + l, fate)
      BY <3>1, <3>2, FittingJoins
    <3>5. Fitting(acc[k], texts, Upto(k, size, n), fate)
      BY <3>1, <3>3, <3>4, Zenon
    <3>6. k \in 0..m
      BY <1>2
    <3> QED
      BY <3>5, <3>6
  <2> HIDE DEF P
  <2> QED
    BY <1>2, <2>1, <2>2, StepByStep
<1>4. m \in P
  BY <1>2, <1>3
<1>5. Fitting(acc[m], texts, Upto(m, size, n), fate)
  BY <1>4
<1> QED
  BY <1>0, <1>1, <1>5

\* The answers so far, one after each batch.
LEMMA AnswersInTurn ==
  ASSUME NEW T, NEW replies \in Seq(AnswersTo(T))
  PROVE  \E acc \in [0..Len(replies) -> AnswersTo(T)] :
            BatchLoop(acc, replies) /\ Gathered(replies) = acc[Len(replies)]
<1> DEFINE n == Len(replies)
           C == AnswersTo(T)
           base == Vectors(<<>>)
           h == [q \in (1..n) \X C |-> BothAnswers(q[2], replies[q[1]])]
           Is(f) == f = [x \in SUBSET DOMAIN replies |->
                           IF x = {} THEN base ELSE BothAnswers(f[x \ {Max(x)}], replies[Max(x)])]
           iter == CHOOSE f : Is(f)
<1>0. DOMAIN replies = 1..n /\ n \in Nat /\ \A k \in 1..n : replies[k] \in C
  OBVIOUS
<1>1. h \in [(1..n) \X C -> C] /\ base \in C
  <2>1. \A q \in (1..n) \X C : BothAnswers(q[2], replies[q[1]]) \in C
    <3> TAKE q \in (1..n) \X C
    <3>1. q[2] \in C /\ replies[q[1]] \in C
      BY <1>0
    <3> QED
      BY <3>1, AnswersJoined
  <2>2. base \in C
    BY DEF Vectors, AnswersTo
  <2> HIDE DEF C, base
  <2> QED
    BY <2>1, <2>2
<1> HIDE DEF h, C, base
<1>3. PICK f \in [SUBSET (1..n) -> C] : FoldsUp(f, n, base, h)
  BY <1>0, <1>1, SequenceFold
<1>4. \A x \in SUBSET (1..n) : x # {} =>
        h[<<Max(x), f[x \ {Max(x)}]>>] = BothAnswers(f[x \ {Max(x)}], replies[Max(x)])
  <2> TAKE x \in SUBSET (1..n)
  <2> SUFFICES ASSUME x # {}
               PROVE  h[<<Max(x), f[x \ {Max(x)}]>>] = BothAnswers(f[x \ {Max(x)}], replies[Max(x)])
    OBVIOUS
  <2>1. Max(x) \in 1..n /\ x \ {Max(x)} \in SUBSET (1..n)
    BY <1>0, GreatestOf
  <2>2. f[x \ {Max(x)}] \in C
    BY <1>0, <2>1
  <2> QED
    BY <2>1, <2>2 DEF h
<1>5. Is(f)
  BY <1>0, <1>3, <1>4 DEF FoldsUp
<1> HIDE DEF Is
<1>6. Is(iter)
  BY <1>5
<1>7. Gathered(replies) = iter[1..n]
  BY <1>0 DEF Gathered, FoldLeft, MapThenFoldSet, Is, base
<1> HIDE DEF iter
<1> DEFINE acc == [k \in 0..n |-> iter[1..k]]
<1>8. acc[0] = base /\ Gathered(replies) = acc[n] /\ acc = [k \in 0..n |-> acc[k]]
  <2> HIDE DEF n
  <2>1. 1..0 = {} /\ 0 \in 0..n /\ n \in 0..n
    BY <1>0
  <2>2. iter[{}] = base
    BY <1>6 DEF Is
  <2> QED
    BY <1>7, <2>1, <2>2
<1>9. \A k \in 1..n : acc[k] = BothAnswers(acc[k - 1], replies[k])
  <2> TAKE k \in 1..n
  <2>1. Max(1..k) = k /\ (1..k) \ {k} = 1..(k - 1) /\ 1..k \in SUBSET DOMAIN replies /\ 1..k # {}
    <3>1. k \in Nat /\ k # 0 /\ 1..k \subseteq 1..n /\ k \in 1..k /\ DOMAIN replies = 1..n
      BY <1>0
    <3> QED
      BY <3>1, LastPosition
  <2>2. iter[1..k] = BothAnswers(iter[1..(k - 1)], replies[k])
    BY <1>6, <2>1 DEF Is
  <2>3. acc[k] = iter[1..k] /\ acc[k - 1] = iter[1..(k - 1)]
    BY <1>0
  <2> QED
    BY <2>2, <2>3
<1> HIDE DEF acc
<1> DEFINE P == {k \in 0..n : acc[k] \in C}
<1>10. \A k \in 0..n : k \in P
  <2>1. 0 \in P
    BY <1>0, <1>1, <1>8
  <2>2. ASSUME NEW k \in 1..n, k - 1 \in P
        PROVE  k \in P
    <3>1. acc[k - 1] \in C /\ replies[k] \in C /\ k \in 0..n
      BY <1>0, <2>2
    <3>2. BothAnswers(acc[k - 1], replies[k]) \in C
      BY <3>1, AnswersJoined DEF C
    <3> QED
      BY <1>9, <3>1, <3>2
  <2> HIDE DEF P
  <2> QED
    BY <1>0, <2>1, <2>2, StepByStep
<1>11. acc \in [0..n -> C]
  BY <1>8, <1>10
<1>12. BatchLoop(acc, replies)
  BY <1>0, <1>8, <1>9 DEF BatchLoop, base
<1> QED
  BY <1>8, <1>11, <1>12 DEF C

\* What the batches of texts are answered with, gathered.
LEMMA GatheredFits ==
  ASSUME NEW T, NEW texts \in Seq(T), NEW size \in Nat \ {0}, NEW fate, NEW b, b = InBatches(texts, size),
         NEW replies \in Seq(AnswersTo(T)), Len(replies) = Len(b),
         \A k \in 1..Len(b) : Fitting(replies[k], b[k], Len(b[k]), fate)
  PROVE  /\ Gathered(replies) \in AnswersTo(T)
         /\ Fitting(Gathered(replies), texts, Len(texts), fate)
<1> DEFINE m == Len(b)
           C == AnswersTo(T)
<1> HIDE DEF C
<1>1. m \in Nat /\ replies \in [1..m -> C] /\ replies \in Seq(C)
  BY DEF C
<1>2. PICK acc \in [0..m -> C] : BatchLoop(acc, replies) /\ Gathered(replies) = acc[m]
  BY <1>1, AnswersInTurn DEF C
<1>3. acc[m] \in C
  <2>1. m \in 0..m
    BY <1>1
  <2> QED
    BY <2>1, Zenon
<1>4. Fitting(acc[m], texts, Len(texts), fate)
  BY <1>1, <1>2, BatchesFit DEF C
<1> QED
  BY <1>2, <1>3, <1>4 DEF C

\* ---- The clients
\* A request is answered as a whole or not at all.
LEMMA RequestAnswers ==
  ASSUME NEW T, NEW texts \in Seq(T), NEW fate \in [T -> Fates]
  PROVE  /\ OllamaRequest(texts, fate) \in AnswersTo(T)
         /\ Fitting(OllamaRequest(texts, fate), texts, Len(texts), fate)
<1>1. Served(texts, fate) \in AnswersTo(T) /\ Fitting(Served(texts, fate), texts, Len(texts), fate)
  BY ServerAnswers
<1>2. CASE Len(Served(texts, fate).vectors) = Len(texts)
  BY <1>1, <1>2, Zenon DEF OllamaRequest
<1>3. CASE Len(Served(texts, fate).vectors) # Len(texts)
  <2>1. OllamaRequest(texts, fate) = Failed /\ ~AllWell(fate)
    BY <1>1, <1>3, Zenon DEF OllamaRequest, Fitting
  <2> QED
    BY <2>1 DEF Failed, AnswersTo, Fitting
<1> QED
  BY <1>2, <1>3

\* Whatever provider it is (EmbeddingClient.embed_texts).
LEMMA ClientAnswers ==
  ASSUME NEW T, NEW texts \in Seq(T), NEW client, client.fate \in [T -> Fates]
  PROVE  /\ EmbedTexts(texts, client) \in AnswersTo(T)
         /\ Fitting(EmbedTexts(texts, client), texts, Len(texts), client.fate)
<1> DEFINE fate == client.fate
           n == Len(texts)
<1>0. fate \in [T -> Fates] /\ n \in Nat /\ DOMAIN texts = 1..n
  OBVIOUS
<1>1. CASE client.provider = "mock"
  <2> DEFINE v == [i \in DOMAIN texts |-> MockVector]
  <2>1. EmbedTexts(texts, client) = Vectors(v)
    BY <1>1 DEF EmbedTexts
  <2>2. v \in Seq(VectorsOf(T)) /\ Len(v) = n /\ \A i \in 1..n : v[i] = MockVector
    <3>1. MockVector \in VectorsOf(T)
      BY DEF VectorsOf
    <3> QED
      BY <1>0, <3>1
  <2> HIDE DEF v
  <2>3. Vectors(v) \in AnswersTo(T) /\ Vectors(v).ok = TRUE /\ Vectors(v).vectors = v
    BY <2>2 DEF Vectors, AnswersTo
  <2>4. InPlace(v, texts, n)
    BY <1>0, <2>2 DEF InPlace
  <2> QED
    BY <2>1, <2>2, <2>3, <2>4 DEF Fitting
<1>2. CASE client.provider = "ollama"
  <2> DEFINE b == InBatches(texts, RequestBatch)
             replies == [k \in DOMAIN b |-> OllamaRequest(b[k], fate)]
  <2>1. RequestBatch \in Nat \ {0}
    BY VectorEvidenceAssumption
  <2>2. b \in Seq(Seq(T))
    BY <2>1, BatchesInOrder
  <2>3. EmbedTexts(texts, client) = Gathered(replies)
    BY <1>2, Zenon DEF EmbedTexts
  <2> HIDE DEF b
  <2>4. \A k \in 1..Len(b) : b[k] \in Seq(T)
    BY <2>2
  <2>5. \A k \in 1..Len(b) : OllamaRequest(b[k], fate) \in AnswersTo(T) /\ Fitting(OllamaRequest(b[k], fate), b[k], Len(b[k]), fate)
    BY <1>0, <2>4, RequestAnswers
  <2>6. replies \in Seq(AnswersTo(T)) /\ Len(replies) = Len(b) /\ \A k \in 1..Len(b) : replies[k] = OllamaRequest(b[k], fate)
    <3>1. DOMAIN b = 1..Len(b) /\ Len(b) \in Nat
      BY <2>2
    <3>2. replies \in [1..Len(b) -> AnswersTo(T)]
      BY <2>5, <3>1
    <3> QED
      BY <3>1, <3>2
  <2> HIDE DEF replies
  <2>7. \A k \in 1..Len(b) : Fitting(replies[k], b[k], Len(b[k]), fate)
    BY <2>5, <2>6
  <2>8. Gathered(replies) \in AnswersTo(T) /\ Fitting(Gathered(replies), texts, n, fate)
    BY <2>1, <2>6, <2>7, GatheredFits DEF b
  <2> QED
    BY <2>3, <2>8
<1>3. CASE client.provider \notin {"mock", "ollama"}
  <2>1. EmbedTexts(texts, client) = Served(texts, fate)
    BY <1>3, Zenon DEF EmbedTexts
  <2> QED
    BY <1>0, <2>1, ServerAnswers
<1> QED
  BY <1>1, <1>2, <1>3

\* The texts of an upsert, in as many calls as it takes (_embed_in_batches).
LEMMA UpsertAnswers ==
  ASSUME NEW T, NEW texts \in Seq(T), NEW client, client.fate \in [T -> Fates]
  PROVE  Fitting(EmbedInBatches(texts, client), texts, Len(texts), client.fate)
<1> DEFINE fate == client.fate
           n == Len(texts)
<1>1. CASE n <= UpsertBatch
  <2>1. EmbedInBatches(texts, client) = EmbedTexts(texts, client)
    BY <1>1, Zenon DEF EmbedInBatches
  <2> QED
    BY <2>1, ClientAnswers
<1>2. CASE ~(n <= UpsertBatch)
  <2> DEFINE b == InBatches(texts, UpsertBatch)
             replies == [k \in DOMAIN b |-> EmbedTexts(b[k], client)]
  <2>1. UpsertBatch \in Nat \ {0}
    BY VectorEvidenceAssumption
  <2>2. b \in Seq(Seq(T))
    BY <2>1, BatchesInOrder
  <2>3. EmbedInBatches(texts, client) = Gathered(replies)
    BY <1>2, Zenon DEF EmbedInBatches
  <2> HIDE DEF b
  <2>4. \A k \in 1..Len(b) : b[k] \in Seq(T)
    BY <2>2
  <2>5. \A k \in 1..Len(b) : EmbedTexts(b[k], client) \in AnswersTo(T) /\ Fitting(EmbedTexts(b[k], client), b[k], Len(b[k]), fate)
    BY <2>4, ClientAnswers
  <2>6. replies \in Seq(AnswersTo(T)) /\ Len(replies) = Len(b) /\ \A k \in 1..Len(b) : replies[k] = EmbedTexts(b[k], client)
    <3>1. DOMAIN b = 1..Len(b) /\ Len(b) \in Nat
      BY <2>2
    <3>2. replies \in [1..Len(b) -> AnswersTo(T)]
      BY <2>5, <3>1
    <3> QED
      BY <3>1, <3>2
  <2> HIDE DEF replies
  <2>7. \A k \in 1..Len(b) : Fitting(replies[k], b[k], Len(b[k]), fate)
    BY <2>5, <2>6
  <2>8. Fitting(Gathered(replies), texts, n, fate)
    BY <2>1, <2>6, <2>7, GatheredFits DEF b
  <2> QED
    BY <2>3, <2>8
<1> QED
  BY <1>1, <1>2

\* Every row holds the vector of its own text (or of the mock).
OwnVectors(store) == \A id \in DOMAIN store : store[id].vector \in {store[id].text, MockVector}

\* For every store, evidence, run and provider, however its answers fail, fall short or are
\* cut into batches (VectorStore._upsert, _embed_in_batches, EmbeddingClient.embed_texts): a
\* vector that is left out never moves another to the wrong text. The rows hold the vectors
\* of their own texts, or nothing was written; and an error has its cause at the provider.
THEOREM VectorsStayPaired ==
  ASSUME NEW store, OwnVectors(store), NEW paper, NEW E, NEW evidence \in Seq(E), NEW T,
         \A e \in Range(evidence) : e.text \in T,
         NEW run, NEW managed, NEW client, client.fate \in [T -> Fates],
         NEW after, Upserted(after, store, paper, evidence, run, managed, client)
  PROVE  RowsHoldOwnVector(store, after, client)
<1> DEFINE n == Len(evidence)
           texts == [i \in DOMAIN evidence |-> evidence[i].text]
           embedded == EmbedInBatches(texts, client)
           vectors == embedded.vectors
           foreign == \E e \in Range(evidence) : e.paper # paper
           idle == evidence = <<>> \/ (managed /\ run = Absent)
<1>1. n \in Nat /\ DOMAIN evidence = 1..n /\ \A i \in 1..n : texts[i] = evidence[i].text /\ evidence[i].text \in T
  BY DEF Range
<1>2. texts \in Seq(T) /\ Len(texts) = n
  <2>1. texts \in [1..n -> T]
    BY <1>1
  <2> HIDE DEF texts
  <2> QED
    BY <1>1, <2>1
<1>3. /\ embedded.ok => InPlace(vectors, texts, n)
      /\ AllWell(client.fate) => embedded.ok /\ Len(vectors) = n
  <2> HIDE DEF texts
  <2>1. Fitting(embedded, texts, Len(texts), client.fate)
    BY <1>2, UpsertAnswers
  <2> QED
    BY <1>2, <2>1 DEF Fitting
<1>4. CASE foreign
  <2>1. after.outcome = "foreign" /\ after.store = store
    BY <1>4 DEF Upserted, IndexEvidence, Unwritten
  <2> QED
    BY <2>1 DEF RowsHoldOwnVector
<1>5. CASE ~foreign /\ idle
  <2>1. after.outcome = "skipped" /\ after.store = store
    BY <1>5 DEF Upserted, IndexEvidence, Unwritten
  <2> QED
    BY <2>1 DEF RowsHoldOwnVector
<1>6. CASE ~foreign /\ ~idle
  <2>1. after = UpsertRows(store, evidence, run, client)
    BY <1>6 DEF Upserted, IndexEvidence
  <2>2. CASE ~embedded.ok \/ Len(vectors) # n
    <3>1. after.outcome = "error" /\ after.store = store
      BY <2>1, <2>2 DEF UpsertRows, Unwritten
    <3>2. ~AllWell(client.fate)
      BY <1>3, <2>2
    <3> QED
      BY <3>1, <3>2 DEF RowsHoldOwnVector, AllWell
  <2>3. CASE ~(~embedded.ok \/ Len(vectors) # n)
    <3> DEFINE Written(id) == WritersOf(evidence, run, id)
               RowFor(i) == [text |-> evidence[i].text, meta |-> Metadata(evidence[i], run), vector |-> vectors[i]]
               ids == DOMAIN store \cup {RowId(evidence[i], run) : i \in DOMAIN evidence}
    <3>1. after = [outcome |-> "done",
                   store |-> [id \in ids |-> IF Written(id) # {} THEN RowFor(Max(Written(id))) ELSE store[id]]]
      BY <2>1, <2>3, Zenon DEF UpsertRows, WritersOf
    <3> HIDE DEF vectors
    <3>2. /\ after.outcome = "done"
          /\ after.store = [id \in ids |-> IF Written(id) # {} THEN RowFor(Max(Written(id))) ELSE store[id]]
      BY <3>1
    <3>3. \A i \in 1..n : vectors[i] \in {evidence[i].text, MockVector}
      BY <1>1, <1>3, <2>3 DEF InPlace
    <3> HIDE DEF Written, embedded, texts
    <3>4. ASSUME NEW id \in DOMAIN after.store
          PROVE  after.store[id].vector \in {after.store[id].text, MockVector}
      <4>1. CASE Written(id) # {}
        <5> DEFINE i == Max(Written(id))
        <5>1. i \in 1..n
          BY <1>1, <4>1, LastWriter DEF Written
        <5>2. after.store[id] = RowFor(i)
          BY <3>2, <4>1
        <5> HIDE DEF i
        <5>3. after.store[id].vector = vectors[i] /\ after.store[id].text = evidence[i].text
          BY <5>2
        <5> QED
          BY <3>3, <5>1, <5>3
      <4>2. CASE Written(id) = {}
        <5>1. id \in DOMAIN store /\ after.store[id] = store[id]
          BY <3>2, <4>2 DEF Written, WritersOf
        <5> QED
          BY <5>1 DEF OwnVectors
      <4> QED
        BY <4>1, <4>2
    <3> QED
      BY <3>2, <3>4 DEF RowsHoldOwnVector
  <2> QED
    BY <2>2, <2>3
<1> QED
  BY <1>4, <1>5, <1>6

\* For every store, question and rows that a delete takes away meanwhile
\* (VectorStore.query): whatever a question is answered with is a whole row of its own paper,
\* and of the active run where the store knows papers.
THEOREM AnswersStandInScope ==
  ASSUME NEW store, NEW ghosts, NEW kind, NEW q, NEW managed, NEW active, NEW client,
         NEW rows \in QueryRows(store, ghosts, kind, q, managed, active, client)
  PROVE  /\ managed /\ active = Absent => rows = {}
         /\ rows \subseteq ParseRows(kind, store, Hits(store, q.paper, IF managed THEN active ELSE Absent))
<1> DEFINE run == IF managed THEN active ELSE Absent
           k == IF q.top_k = Absent THEN DefaultTopK ELSE q.top_k
           search == SearchVector(q, client)
           hits == Hits(store, q.paper, run)
<1>1. \/ rows = {}
      \/ ~(managed /\ active = Absent)
         /\ \E near \in NearestRows(hits, k, search.vectors[1]) : rows = ParseRows(kind, Emptied(store, ghosts), near)
  BY Zenon DEF QueryRows
<1>2. ASSUME NEW near \in NearestRows(hits, k, search.vectors[1]),
             rows = ParseRows(kind, Emptied(store, ghosts), near)
      PROVE  rows \subseteq ParseRows(kind, store, hits)
  <2>1. near \subseteq hits
    BY DEF NearestRows, kSubset
  <2>2. ASSUME NEW id \in near, UsableRow(Emptied(store, ghosts)[id])
        PROVE  Emptied(store, ghosts)[id] = store[id]
    <3>1. id \in DOMAIN store
      BY <2>1 DEF Hits
    <3> QED
      BY <2>2, <3>1 DEF Emptied, UsableRow
  <2> QED
    BY <1>2, <2>1, <2>2 DEF ParseRows
<1> QED
  BY <1>1, <1>2

\* For every store and question (VectorStore._query): a vector that was made beforehand and
\* is malformed costs an embedding and changes no answer.
THEOREM MalformedVectorIgnored ==
  ASSUME NEW store, NEW ghosts, NEW kind, NEW Papers, NEW TextsOf, NEW Ks, NEW Vecs,
         NEW q \in [paper : Papers, text : TextsOf, top_k : Ks, given : Vecs], NEW managed, NEW active, NEW client,
         q.given \in VectorIssues
  PROVE  QueryRows(store, ghosts, kind, q, managed, active, client)
           = QueryRows(store, ghosts, kind, [q EXCEPT !.given = Absent], managed, active, client)
<1> DEFINE p == [q EXCEPT !.given = Absent]
<1>1. p.paper = q.paper /\ p.text = q.text /\ p.top_k = q.top_k /\ p.given = Absent
  OBVIOUS
<1> HIDE DEF p
<1>2. SearchVector(p, client) = SearchVector(q, client)
  BY <1>1 DEF SearchVector
<1>3. QueryRows(store, ghosts, kind, p, managed, active, client) = QueryRows(store, ghosts, kind, q, managed, active, client)
  BY <1>1, <1>2 DEF QueryRows
<1> QED
  BY <1>3 DEF p

-----------------------------------------------------------------------------
\* ---- The analyses of a patrol -------------------------------------------
\* The lists of nodes that a patrol looks at.
NodeLists(left, right) ==
    {Typed(g, types) : g \in {left, right}, types \in {{"Method"}, {"Dataset"}}}

\* A label that one of the nodes bears has a first node with it.
LEMMA FirstOfBears ==
  ASSUME NEW S, NEW nodes \in Seq(S), NEW label, \E n \in Range(nodes) : Same(n.label, label)
  PROVE  FirstOf(nodes, label) \in Range(nodes) /\ Same(FirstOf(nodes, label).label, label)
<1> DEFINE at == {i \in DOMAIN nodes : Same(nodes[i].label, label)}
<1>1. at \in SUBSET Nat /\ at # {}
  BY DEF Range
<1> HIDE DEF at
<1>2. Min(at) \in at
  BY <1>1, LeastOf
<1>3. FirstOf(nodes, label) = nodes[Min(at)]
  BY DEF FirstOf, at
<1> QED
  BY <1>2, <1>3 DEF at, Range

\* An anchor joins a node of each side; a literal one joins two of a name.
Joins(a, l, r) == a.left \in Range(l) /\ a.right \in Range(r)

LEMMA LiteralJoins ==
  ASSUME NEW S, NEW l \in Seq(S), NEW r \in Seq(S), NEW a \in LiteralAnchors(l, r)
  PROVE  Joins(a, l, r) /\ Same(a.left.label, a.right.label)
<1>1. PICK x \in {y \in Labels(l) : \E z \in Labels(r) : Same(y, z)} :
         a = [left |-> FirstOf(l, x), right |-> FirstOf(r, x), match |-> "literal"]
  BY DEF LiteralAnchors
<1>2. a.left = FirstOf(l, x) /\ a.right = FirstOf(r, x)
  BY <1>1
<1>3. \E n \in Range(l) : Same(n.label, x)
  BY DEF Labels, Same
<1>4. \E n \in Range(r) : Same(n.label, x)
  BY DEF Labels, Same
<1>5. FirstOf(l, x) \in Range(l) /\ Same(FirstOf(l, x).label, x)
  BY <1>3, FirstOfBears
<1>6. FirstOf(r, x) \in Range(r) /\ Same(FirstOf(r, x).label, x)
  BY <1>4, FirstOfBears
<1> QED
  BY <1>2, <1>5, <1>6 DEF Joins, Same

LEMMA SemanticJoins ==
  ASSUME NEW left, NEW right, NEW l, NEW r, NEW close, NEW a \in SemanticAnchors(left, right, l, r, close)
  PROVE  Joins(a, l, r)
<1>1. PICK p \in Range(l) \X Range(r) : a = [left |-> p[1], right |-> p[2], match |-> "semantic"]
  BY Zenon DEF SemanticAnchors
<1>2. a.left = p[1] /\ a.right = p[2]
  BY <1>1
<1> QED
  BY <1>2 DEF Joins

\* A point stands on both sides.
OnBothSides(p) == {"left", "right"} \subseteq {x[1] : x \in p.refs}

LEMMA PointsOnBothSides ==
  ASSUME NEW l, NEW r, NEW kind, NEW anchors, \A a \in anchors : Joins(a, l, r), NEW p \in Points(kind, anchors, l, r)
  PROVE  OnBothSides(p)
<1>1. PICK a \in anchors : p = [kind |-> kind, labels |-> {a.left.label, a.right.label}, refs |-> PointRefs(a, l, r)]
  BY DEF Points
<1>2. p.refs = PointRefs(a, l, r) /\ Joins(a, l, r)
  BY <1>1
<1>3. <<"left", a.left.id>> \in p.refs /\ <<"right", a.right.id>> \in p.refs
  BY <1>2 DEF PointRefs, Joins, Same
<1> QED
  BY <1>3 DEF OnBothSides

LEMMA ConclusionStands ==
  ASSUME NEW points, points # {}, \A p \in points : OnBothSides(p)
  PROVE  WellFounded(Concludes(points))
BY DEF WellFounded, Concludes, OnBothSides

LEMMA ExclusionStands ==
  ASSUME NEW reason, reason # "none", NEW refs
  PROVE  WellFounded(Excluded(reason, refs))
BY DEF WellFounded, Excluded

LEMMA PairStands ==
  ASSUME NEW kind, NEW labels, NEW a, NEW b
  PROVE  WellFounded(Concludes({[kind |-> kind, labels |-> labels, refs |-> Both(a, b)]}))
<1> DEFINE p == [kind |-> kind, labels |-> labels, refs |-> Both(a, b)]
<1>1. OnBothSides(p)
  <2>1. <<"left", a.id>> \in p.refs /\ <<"right", b.id>> \in p.refs
    BY DEF Both
  <2> QED
    BY <2>1 DEF OnBothSides
<1> HIDE DEF p
<1> QED
  BY <1>1, ConclusionStands DEF p

\* For all graphs, closenesses and states of the models (run_patrol): a conclusion has points
\* that stand on nodes of both papers, and an exclusion has a reason.  Of the selection of
\* nodes the proof uses that it is a list.
THEOREM ConclusionsAnchored ==
  ASSUME NEW left, NEW right, NEW w, NEW S, NodeLists(left, right) \subseteq Seq(S),
         NEW mode \in {"lens_clash", "contradiction", "method_overlap", "claim_evolution"},
         NEW i \in Insights(mode, left, right, w)
  PROVE  WellFounded(i)
<1>1. CASE i \in LensClash(left, right)
  <2> DEFINE a == Primary(Typed(left, {"AnalyticalLens"}), left)
             b == Primary(Typed(right, {"AnalyticalLens"}), right)
             kind == IF Same(a.label, b.label) THEN "none" ELSE "analytical_framework"
  <2>1. i = Concludes({[kind |-> kind, labels |-> {a.label, b.label}, refs |-> Both(a, b)]})
    BY <1>1, Zenon DEF LensClash
  <2> HIDE DEF a, b, kind
  <2> QED
    BY <2>1, PairStands
<1>2. CASE i \in Contradiction(left, right)
  <2> DEFINE a == Primary(Typed(left, {"Thesis"}), left)
             b == Primary(Typed(right, {"Thesis"}), right)
             kind == IF Same(a.label, b.label) THEN "none" ELSE "potential"
  <2>1. \/ i = Excluded("MISSING_REQUIRED_NODES", {})
        \/ i = Excluded("MISSING_REQUIRED_NODES", Both(a, b))
        \/ i = Concludes({[kind |-> kind, labels |-> {a.label, b.label}, refs |-> Both(a, b)]})
    BY <1>2, Zenon DEF Contradiction
  <2> HIDE DEF a, b, kind
  <2> QED
    BY <2>1, PairStands, ExclusionStands
<1>3. CASE i \in ClaimEvolution(left, right, w)
  <2> DEFINE l == Typed(left, {"ResearchQuestion"}) \o Typed(left, {"Thesis"})
             r == Typed(right, {"ResearchQuestion"}) \o Typed(right, {"Thesis"})
             p == CHOOSE q \in Aligned(l, r, w) : TRUE
  <2>1. \/ i = Excluded("MISSING_REQUIRED_NODES", {})
        \/ i = Excluded("RQ_GATE_FAILED", {})
        \/ i = Excluded("NO_RECALLABLE_CLAIMS", Both(p[1], p[2]))
        \/ i = Concludes({[kind |-> "claim", labels |-> {p[1].label, p[2].label}, refs |-> Both(p[1], p[2])]})
    BY <1>3, Zenon DEF ClaimEvolution
  <2> HIDE DEF p
  <2> QED
    BY <2>1, PairStands, ExclusionStands
<1>4. CASE i \in MethodOverlap(left, right, w)
  <2> DEFINE l == Typed(left, {"Method"})
             r == Typed(right, {"Method"})
             dl == Typed(left, {"Dataset"})
             dr == Typed(right, {"Dataset"})
             literal == LiteralAnchors(l, r)
             soft == IF w.embeds = "live" THEN SemanticAnchors(left, right, l, r, w.close) ELSE {}
             methods == IF literal # {} THEN {literal}
                        ELSE IF soft # {} THEN {{a} : a \in soft} ELSE {{}}
             shared == LiteralAnchors(dl, dr)
  <2>1. /\ l \in Seq(S) /\ r \in Seq(S) /\ dl \in Seq(S) /\ dr \in Seq(S)
    BY DEF NodeLists
  <2>2. \/ i = Excluded("PARADIGM_UNSUPPORTED", {})
        \/ i = Excluded("MISSING_REQUIRED_NODES", {})
        \/ \E m \in methods : i = IF NoOverlap(m, shared) THEN Excluded("NO_OVERLAP", {})
                                  ELSE Concludes(Points("method", m, l, r) \cup Points("dataset", shared, dl, dr))
    BY <1>4, Zenon DEF MethodOverlap
  <2>3. ASSUME NEW m \in methods, ~NoOverlap(m, shared)
        PROVE  WellFounded(Concludes(Points("method", m, l, r) \cup Points("dataset", shared, dl, dr)))
    <3>1. \A a \in m : Joins(a, l, r)
      BY <2>1, LiteralJoins, SemanticJoins
    <3>2. \A a \in shared : Joins(a, dl, dr)
      BY <2>1, LiteralJoins
    <3> HIDE DEF l, r, dl, dr, shared, methods
    <3>3. \A p \in Points("method", m, l, r) \cup Points("dataset", shared, dl, dr) : OnBothSides(p)
      BY <3>1, <3>2, PointsOnBothSides
    <3>4. Points("method", m, l, r) \cup Points("dataset", shared, dl, dr) # {}
      BY <2>3 DEF NoOverlap, Points
    <3> QED
      BY <3>3, <3>4, ConclusionStands
  <2> HIDE DEF l, r, dl, dr, methods, shared
  <2> QED
    BY <2>2, <2>3, ExclusionStands
<1> QED
  BY <1>1, <1>2, <1>3, <1>4 DEF Insights
\* For all graphs (build_method_overlap_insight): a method or a dataset that both papers name
\* is a point of the report, with every node of either paper that bears the name.
THEOREM SharedNamesFound ==
  ASSUME NEW left, NEW right, NEW w, NEW S, NodeLists(left, right) \subseteq Seq(S),
         NEW i \in MethodOverlap(left, right, w)
  PROVE  OverlapsFound(left, right, i)
<1> DEFINE l == Typed(left, {"Method"})
           r == Typed(right, {"Method"})
           dl == Typed(left, {"Dataset"})
           dr == Typed(right, {"Dataset"})
           literal == LiteralAnchors(l, r)
           soft == IF w.embeds = "live" THEN SemanticAnchors(left, right, l, r, w.close) ELSE {}
           methods == IF literal # {} THEN {literal}
                      ELSE IF soft # {} THEN {{a} : a \in soft} ELSE {{}}
           shared == LiteralAnchors(dl, dr)
<1>1. /\ l \in Seq(S) /\ r \in Seq(S) /\ dl \in Seq(S) /\ dr \in Seq(S)
  BY DEF NodeLists
<1>2. \/ i = Excluded("PARADIGM_UNSUPPORTED", {})
      \/ i = Excluded("MISSING_REQUIRED_NODES", {})
      \/ \E m \in methods : i = IF NoOverlap(m, shared) THEN Excluded("NO_OVERLAP", {})
                                ELSE Concludes(Points("method", m, l, r) \cup Points("dataset", shared, dl, dr))
  BY Zenon DEF MethodOverlap
<1>3. ASSUME NEW kind, NEW nl \in Seq(S), NEW nr \in Seq(S), NEW m \in Range(nl), NEW n \in Range(nr),
             Same(m.label, n.label)
      PROVE  \E p \in Points(kind, LiteralAnchors(nl, nr), nl, nr) : Both(m, n) \subseteq p.refs
  <2> DEFINE a == [left |-> FirstOf(nl, m.label), right |-> FirstOf(nr, m.label), match |-> "literal"]
             p == [kind |-> kind, labels |-> {a.left.label, a.right.label}, refs |-> PointRefs(a, nl, nr)]
  <2>1. m.label \in Labels(nl) /\ n.label \in Labels(nr)
    BY DEF Labels
  <2>2. a \in LiteralAnchors(nl, nr)
    BY <1>3, <2>1 DEF LiteralAnchors
  <2>3. p \in Points(kind, LiteralAnchors(nl, nr), nl, nr)
    BY <2>2 DEF Points
  <2>4. Same(FirstOf(nl, m.label).label, m.label) /\ Same(FirstOf(nr, m.label).label, m.label)
    <3>1. \E x \in Range(nl) : Same(x.label, m.label)
      BY DEF Same
    <3>2. \E x \in Range(nr) : Same(x.label, m.label)
      BY <1>3 DEF Same
    <3> QED
      BY <3>1, <3>2, FirstOfBears
  <2>5. p.refs = PointRefs(a, nl, nr) /\ Same(m.label, a.left.label) /\ Same(n.label, a.right.label)
    BY <1>3, <2>4 DEF Same
  <2> HIDE DEF a, p
  <2>6. Both(m, n) \subseteq p.refs
    BY <2>5 DEF PointRefs, Both
  <2> QED
    BY <2>3, <2>6
<1>4. ASSUME NEW m \in methods, i = Concludes(Points("method", m, l, r) \cup Points("dataset", shared, dl, dr))
      PROVE  OverlapsFound(left, right, i)
  <2>1. i.points = Points("method", m, l, r) \cup Points("dataset", shared, dl, dr)
    BY <1>4 DEF Concludes
  <2>2. ASSUME NEW x \in Range(l), NEW y \in Range(r), Same(x.label, y.label)
        PROVE  \E p \in i.points : Both(x, y) \subseteq p.refs
    <3>1. PICK p \in Points("method", literal, l, r) : Both(x, y) \subseteq p.refs
      BY <1>1, <1>3, <2>2
    <3>2. literal # {}
      BY <3>1 DEF Points
    <3>3. m = literal
      BY <3>2
    <3> QED
      BY <2>1, <3>1, <3>3
  <2>3. ASSUME NEW x \in Range(dl), NEW y \in Range(dr), Same(x.label, y.label)
        PROVE  \E p \in i.points : Both(x, y) \subseteq p.refs
    <3>1. PICK p \in Points("dataset", shared, dl, dr) : Both(x, y) \subseteq p.refs
      BY <1>1, <1>3, <2>3
    <3> QED
      BY <2>1, <3>1
  <2> QED
    BY <2>2, <2>3 DEF OverlapsFound
<1>5. ASSUME NEW reason, i = Excluded(reason, {})
      PROVE  OverlapsFound(left, right, i)
  <2>1. i.status # "ready"
    BY <1>5 DEF Excluded
  <2> QED
    BY <2>1 DEF OverlapsFound
<1> HIDE DEF methods, shared, l, r, dl, dr
<1> QED
  BY <1>2, <1>4, <1>5

-----------------------------------------------------------------------------
\* What a set of points says, whichever paper is named first.
PointsSay(points) == {<<p.kind, {Lower[x] : x \in p.labels}>> : p \in points}

LEMMA VerdictSays ==
  ASSUME NEW P, NEW Q, PointsSay(P) = PointsSay(Q)
  PROVE  Verdict(Concludes(P)) = Verdict(Concludes(Q))
<1>1. Verdict(Concludes(P)) = <<"ready", "none", PointsSay(P)>> /\ Verdict(Concludes(Q)) = <<"ready", "none", PointsSay(Q)>>
  BY DEF Verdict, Concludes, PointsSay
<1> QED
  BY <1>1

LEMMA ExclusionSays ==
  ASSUME NEW reason, NEW a, NEW b
  PROVE  Verdict(Excluded(reason, a)) = Verdict(Excluded(reason, b))
BY DEF Verdict, Excluded

LEMMA PairSwaps == \A a, b : {a, b} = {b, a}
  OBVIOUS

LEMMA OneSays ==
  ASSUME NEW kind, NEW labels, NEW refs
  PROVE  PointsSay({[kind |-> kind, labels |-> labels, refs |-> refs]}) = {<<kind, {Lower[x] : x \in labels}>>}
BY DEF PointsSay

LEMMA PointSays ==
  ASSUME NEW kind, NEW a, NEW l, NEW r
  PROVE  PointsSay(Points(kind, {a}, l, r)) = {<<kind, {Lower[x] : x \in {a.left.label, a.right.label}}>>}
<1>1. Points(kind, {a}, l, r) = {[kind |-> kind, labels |-> {a.left.label, a.right.label}, refs |-> PointRefs(a, l, r)]}
  BY DEF Points
<1> DEFINE labels == {a.left.label, a.right.label}
           refs == PointRefs(a, l, r)
<1>2. PointsSay({[kind |-> kind, labels |-> labels, refs |-> refs]}) = {<<kind, {Lower[x] : x \in labels}>>}
  <2> HIDE DEF labels, refs
  <2> QED
    BY OneSays
<1> QED
  BY <1>1, <1>2

LEMMA SaysBoth ==
  ASSUME NEW P, NEW Q, NEW P2, NEW Q2, PointsSay(P) = PointsSay(P2), PointsSay(Q) = PointsSay(Q2)
  PROVE  PointsSay(P \cup Q) = PointsSay(P2 \cup Q2)
<1>1. PointsSay(P \cup Q) = PointsSay(P) \cup PointsSay(Q) /\ PointsSay(P2 \cup Q2) = PointsSay(P2) \cup PointsSay(Q2)
  BY DEF PointsSay
<1> QED
  BY <1>1

\* A conclusion about two nodes.
Clash(kind, x, y) ==
    Concludes({[kind |-> IF Same(x.label, y.label) THEN "none" ELSE kind,
                labels |-> {x.label, y.label}, refs |-> Both(x, y)]})

\* It says the same in either order.
LEMMA ClashSays ==
  ASSUME NEW kind, NEW a, NEW b
  PROVE  Verdict(Clash(kind, b, a)) = Verdict(Clash(kind, a, b))
<1> DEFINE one == IF Same(a.label, b.label) THEN "none" ELSE kind
           two == IF Same(b.label, a.label) THEN "none" ELSE kind
<1>1. two = one
  BY DEF Same
<1>2. {b.label, a.label} = {a.label, b.label}
  BY PairSwaps
<1> HIDE DEF one, two
<1>3. PointsSay({[kind |-> two, labels |-> {b.label, a.label}, refs |-> Both(b, a)]}) = {<<two, {Lower[x] : x \in {b.label, a.label}}>>}
  BY OneSays, Zenon
<1>4. PointsSay({[kind |-> one, labels |-> {a.label, b.label}, refs |-> Both(a, b)]}) = {<<one, {Lower[x] : x \in {a.label, b.label}}>>}
  BY OneSays, Zenon
<1>5. PointsSay({[kind |-> two, labels |-> {b.label, a.label}, refs |-> Both(b, a)]}) = PointsSay({[kind |-> one, labels |-> {a.label, b.label}, refs |-> Both(a, b)]})
  BY <1>1, <1>2, <1>3, <1>4
<1>6. Verdict(Concludes({[kind |-> two, labels |-> {b.label, a.label}, refs |-> Both(b, a)]}))
        = Verdict(Concludes({[kind |-> one, labels |-> {a.label, b.label}, refs |-> Both(a, b)]}))
  BY <1>5, VerdictSays, Zenon
<1> QED
  BY <1>6, Zenon DEF Clash, one, two

\* The names that both lists know.
Common(l, r) == {Lower[x] : x \in Labels(l)} \cap {Lower[x] : x \in Labels(r)}

LEMMA LiteralSays ==
  ASSUME NEW S, NEW l \in Seq(S), NEW r \in Seq(S), NEW kind
  PROVE  /\ PointsSay(Points(kind, LiteralAnchors(l, r), l, r)) = {<<kind, {c}>> : c \in Common(l, r)}
         /\ LiteralAnchors(l, r) = {} <=> Common(l, r) = {}
<1>1. ASSUME NEW x \in Labels(l), NEW z \in Labels(r), Same(x, z)
      PROVE  Lower[FirstOf(l, x).label] = Lower[x] /\ Lower[FirstOf(r, x).label] = Lower[x]
  <2>1. \E n \in Range(l) : Same(n.label, x)
    BY DEF Labels, Same
  <2>2. \E n \in Range(r) : Same(n.label, x)
    BY <1>1 DEF Labels, Same
  <2> QED
    BY <2>1, <2>2, FirstOfBears DEF Same
<1> DEFINE points == Points(kind, LiteralAnchors(l, r), l, r)
           A(x) == [left |-> FirstOf(l, x), right |-> FirstOf(r, x), match |-> "literal"]
           P(a) == [kind |-> kind, labels |-> {a.left.label, a.right.label}, refs |-> PointRefs(a, l, r)]
<1>2. ASSUME NEW x \in Labels(l), NEW z \in Labels(r), Same(x, z)
      PROVE  P(A(x)).kind = kind /\ {Lower[y] : y \in P(A(x)).labels} = {Lower[x]}
  BY <1>1, <1>2
<1>3. ASSUME NEW s \in PointsSay(points) PROVE \E c \in Common(l, r) : s = <<kind, {c}>>
  <2>1. PICK p \in points : s = <<p.kind, {Lower[x] : x \in p.labels}>>
    BY DEF PointsSay
  <2>2. PICK a \in LiteralAnchors(l, r) : p = P(a)
    BY DEF Points
  <2>3. PICK x \in Labels(l), z \in Labels(r) : Same(x, z) /\ a = A(x)
    BY DEF LiteralAnchors
  <2>4. s = <<kind, {Lower[x]}>>
    BY <1>2, <2>1, <2>2, <2>3
  <2>5. Lower[x] \in Common(l, r)
    BY <2>3 DEF Common, Same
  <2> QED
    BY <2>4, <2>5
<1>4. ASSUME NEW c \in Common(l, r)
      PROVE  <<kind, {c}>> \in PointsSay(points) /\ LiteralAnchors(l, r) # {}
  <2>1. PICK x \in Labels(l), z \in Labels(r) : c = Lower[x] /\ Same(x, z)
    BY DEF Common, Same
  <2>2. A(x) \in LiteralAnchors(l, r)
    BY <2>1 DEF LiteralAnchors
  <2>3. P(A(x)) \in points
    BY <2>2 DEF Points
  <2>4. P(A(x)).kind = kind /\ {Lower[y] : y \in P(A(x)).labels} = {c}
    BY <1>2, <2>1
  <2> HIDE DEF P, A, points
  <2> QED
    BY <2>2, <2>3, <2>4 DEF PointsSay
<1>5. LiteralAnchors(l, r) # {} => Common(l, r) # {}
  BY DEF LiteralAnchors, Common, Same
<1> QED
  BY <1>3, <1>4, <1>5

LEMMA ResonatesSwapped ==
  ASSUME NEW left, NEW right, NEW a, NEW b, NEW close, Resonates(left, right, a, b, close)
  PROVE  Resonates(right, left, b, a, close)
<1>1. ASSUME NEW type, NEW m \in Neighbours(left, a, type), NEW n \in Neighbours(right, b, type), Same(m.label, n.label)
      PROVE  \E x \in Neighbours(right, b, type), y \in Neighbours(left, a, type) : Same(x.label, y.label)
  BY <1>1 DEF Same
<1>2. ASSUME NEW m \in Neighbours(left, a, "ResearchQuestion"), NEW n \in Neighbours(right, b, "ResearchQuestion"),
             close[{m.label, n.label}] >= IF {m.label, n.label} \cap English # {} THEN ResonantEnglish ELSE Resonant
      PROVE  \E x \in Neighbours(right, b, "ResearchQuestion"), y \in Neighbours(left, a, "ResearchQuestion") :
                close[{x.label, y.label}] >= IF {x.label, y.label} \cap English # {} THEN ResonantEnglish ELSE Resonant
  <2>1. {n.label, m.label} = {m.label, n.label}
    BY PairSwaps
  <2>2. close[{n.label, m.label}] >= IF {n.label, m.label} \cap English # {} THEN ResonantEnglish ELSE Resonant
    BY <1>2, <2>1
  <2> QED
    BY <2>2
<1>3. CASE \E type \in {"Dataset", "ResearchQuestion"} :
             \E m \in Neighbours(left, a, type), n \in Neighbours(right, b, type) : Same(m.label, n.label)
  BY <1>1, <1>3, Zenon DEF Resonates
<1>4. CASE \E m \in Neighbours(left, a, "ResearchQuestion"), n \in Neighbours(right, b, "ResearchQuestion") :
             close[{m.label, n.label}] >= IF {m.label, n.label} \cap English # {} THEN ResonantEnglish ELSE Resonant
  BY <1>2, <1>4, Zenon DEF Resonates
<1> QED
  BY <1>3, <1>4, Zenon DEF Resonates

LEMMA SemanticSwapped ==
  ASSUME NEW left, NEW right, NEW S, NEW l \in Seq(S), NEW r \in Seq(S), NEW close,
         NEW a \in SemanticAnchors(left, right, l, r, close)
  PROVE  \E b \in SemanticAnchors(right, left, r, l, close) : b.left = a.right /\ b.right = a.left
<1> DEFINE Score(p) == close[{p[1].label, p[2].label}]
           pairs == {p \in Range(l) \X Range(r) : Score(p) >= Semantic /\ Resonates(left, right, p[1], p[2], close)}
           back == {p \in Range(r) \X Range(l) : Score(p) >= Semantic /\ Resonates(right, left, p[1], p[2], close)}
<1>1. ~(Len(l) * Len(r) > MatrixSize) /\
      \E p \in pairs : (\A o \in pairs : Score(p) >= Score(o)) /\ a = [left |-> p[1], right |-> p[2], match |-> "semantic"]
  BY Zenon DEF SemanticAnchors
<1>2. PICK p \in pairs : (\A o \in pairs : Score(p) >= Score(o)) /\ a = [left |-> p[1], right |-> p[2], match |-> "semantic"]
  BY <1>1
<1>3. Len(r) * Len(l) = Len(l) * Len(r)
  <2>1. Len(l) \in Nat /\ Len(r) \in Nat
    OBVIOUS
  <2> HIDE DEF pairs, back
  <2> QED
    BY <2>1
<1>4. \A x, y : Score(<<y, x>>) = Score(<<x, y>>)
  BY PairSwaps
<1>5. \A x, y : <<x, y>> \in pairs <=> <<y, x>> \in back
  BY <1>4, ResonatesSwapped
<1> DEFINE q == <<p[2], p[1]>>
<1>6. p = <<p[1], p[2]>>
  OBVIOUS
<1>7. q \in back
  BY <1>5, <1>6
<1>8. \A o \in back : Score(q) >= Score(o)
  <2> TAKE o \in back
  <2>1. o = <<o[1], o[2]>>
    OBVIOUS
  <2>2. <<o[2], o[1]>> \in pairs
    BY <1>5, <2>1
  <2> QED
    BY <1>2, <1>4, <1>6, <2>1, <2>2
<1> DEFINE b == [left |-> q[1], right |-> q[2], match |-> "semantic"]
<1>9. b \in SemanticAnchors(right, left, r, l, close)
  <2>1. SemanticAnchors(right, left, r, l, close)
          = {[left |-> t[1], right |-> t[2], match |-> "semantic"] : t \in {u \in back : \A o \in back : Score(u) >= Score(o)}}
    BY <1>1, <1>3, Zenon DEF SemanticAnchors
  <2>2. q \in {u \in back : \A o \in back : Score(u) >= Score(o)}
    BY <1>7, <1>8
  <2> HIDE DEF back, Score, q
  <2> QED
    BY <2>1, <2>2
<1> QED
  BY <1>2, <1>9

\* What the two papers have in common is the same from either side.
LEMMA CommonSwaps ==
  ASSUME NEW l, NEW r
  PROVE  Common(r, l) = Common(l, r)
BY DEF Common

\* A report about two papers, read from the other side.
LEMMA OverlapSwapped ==
  ASSUME NEW left, NEW right, NEW w, NEW S, NodeLists(left, right) \subseteq Seq(S),
         NEW i \in MethodOverlap(left, right, w)
  PROVE  \E j \in MethodOverlap(right, left, w) : Verdict(j) = Verdict(i)
<1> DEFINE l == Typed(left, {"Method"})
           r == Typed(right, {"Method"})
           dl == Typed(left, {"Dataset"})
           dr == Typed(right, {"Dataset"})
           soft == IF w.embeds = "live" THEN SemanticAnchors(left, right, l, r, w.close) ELSE {}
           tfos == IF w.embeds = "live" THEN SemanticAnchors(right, left, r, l, w.close) ELSE {}
           literal == LiteralAnchors(l, r)
           laretil == LiteralAnchors(r, l)
           methods == IF literal # {} THEN {literal} ELSE IF soft # {} THEN {{a} : a \in soft} ELSE {{}}
           sdohtem == IF laretil # {} THEN {laretil} ELSE IF tfos # {} THEN {{a} : a \in tfos} ELSE {{}}
           shared == LiteralAnchors(dl, dr)
           derahs == LiteralAnchors(dr, dl)
           Report(m) == IF NoOverlap(m, shared) THEN Excluded("NO_OVERLAP", {})
                        ELSE Concludes(Points("method", m, l, r) \cup Points("dataset", shared, dl, dr))
           Troper(m) == IF NoOverlap(m, derahs) THEN Excluded("NO_OVERLAP", {})
                        ELSE Concludes(Points("method", m, r, l) \cup Points("dataset", derahs, dr, dl))
<1>1. /\ l \in Seq(S) /\ r \in Seq(S) /\ dl \in Seq(S) /\ dr \in Seq(S)
  BY DEF NodeLists
<1>2. MethodOverlap(left, right, w) =
        IF "HSS" \in {left.paradigm, right.paradigm} THEN {Excluded("PARADIGM_UNSUPPORTED", {})}
        ELSE IF Lacks(l, r) THEN {Excluded("MISSING_REQUIRED_NODES", {})}
        ELSE {Report(m) : m \in methods}
  BY Zenon DEF MethodOverlap
<1>3. MethodOverlap(right, left, w) =
        IF "HSS" \in {right.paradigm, left.paradigm} THEN {Excluded("PARADIGM_UNSUPPORTED", {})}
        ELSE IF Lacks(r, l) THEN {Excluded("MISSING_REQUIRED_NODES", {})}
        ELSE {Troper(m) : m \in sdohtem}
  BY Zenon DEF MethodOverlap
<1>4. /\ {right.paradigm, left.paradigm} = {left.paradigm, right.paradigm}
      /\ Lacks(r, l) <=> Lacks(l, r)
  BY PairSwaps DEF Lacks
<1>5. /\ literal = {} <=> laretil = {}
      /\ PointsSay(Points("method", literal, l, r)) = PointsSay(Points("method", laretil, r, l))
      /\ shared = {} <=> derahs = {}
      /\ PointsSay(Points("dataset", shared, dl, dr)) = PointsSay(Points("dataset", derahs, dr, dl))
  <2>1. /\ Common(r, l) = Common(l, r)
        /\ Common(dr, dl) = Common(dl, dr)
    BY CommonSwaps
  <2>2. /\ PointsSay(Points("method", literal, l, r)) = {<<"method", {c}>> : c \in Common(l, r)}
        /\ literal = {} <=> Common(l, r) = {}
    BY <1>1, LiteralSays
  <2>3. /\ PointsSay(Points("method", laretil, r, l)) = {<<"method", {c}>> : c \in Common(r, l)}
        /\ laretil = {} <=> Common(r, l) = {}
    BY <1>1, LiteralSays
  <2>4. /\ PointsSay(Points("dataset", shared, dl, dr)) = {<<"dataset", {c}>> : c \in Common(dl, dr)}
        /\ shared = {} <=> Common(dl, dr) = {}
    BY <1>1, LiteralSays
  <2>5. /\ PointsSay(Points("dataset", derahs, dr, dl)) = {<<"dataset", {c}>> : c \in Common(dr, dl)}
        /\ derahs = {} <=> Common(dr, dl) = {}
    BY <1>1, LiteralSays
  <2> QED
    BY <2>1, <2>2, <2>3, <2>4, <2>5
<1>6. \A m \in methods : \E n \in sdohtem :
         (m = {} <=> n = {}) /\ PointsSay(Points("method", m, l, r)) = PointsSay(Points("method", n, r, l))
  <2> TAKE m \in methods
  <2>1. CASE literal # {}
    BY <1>5, <2>1
  <2>2. CASE literal = {} /\ soft # {}
    <3>1. PICK a \in soft : m = {a}
      BY <2>2
    <3>2. PICK b \in tfos : b.left = a.right /\ b.right = a.left
      BY <1>1, SemanticSwapped
    <3>3. {b} \in sdohtem
      BY <1>5, <2>2, <3>2
    <3>4. PointsSay(Points("method", {a}, l, r)) = {<<"method", {Lower[x] : x \in {a.left.label, a.right.label}}>>}
      BY PointSays
    <3>5. PointsSay(Points("method", {b}, r, l)) = {<<"method", {Lower[x] : x \in {b.left.label, b.right.label}}>>}
      BY PointSays
    <3>6. {b.left.label, b.right.label} = {a.left.label, a.right.label}
      BY <3>2
    <3> HIDE DEF soft, tfos, sdohtem, methods
    <3> QED
      BY <3>1, <3>3, <3>4, <3>5, <3>6
  <2>3. CASE literal = {} /\ soft = {}
    <3>1. tfos = {}
      BY <1>1, <2>3, SemanticSwapped
    <3>2. m = {} /\ {} \in sdohtem
      BY <1>5, <2>3, <3>1
    <3>3. Points("method", {}, l, r) = {} /\ Points("method", {}, r, l) = {}
      BY DEF Points
    <3> QED
      BY <3>2, <3>3
  <2> QED
    BY <2>1, <2>2, <2>3
<1>7. ASSUME NEW m \in methods, NEW n \in sdohtem,
             m = {} <=> n = {}, PointsSay(Points("method", m, l, r)) = PointsSay(Points("method", n, r, l))
      PROVE  Verdict(Troper(n)) = Verdict(Report(m))
  <2>1. NoOverlap(m, shared) <=> NoOverlap(n, derahs)
    BY <1>5, <1>7 DEF NoOverlap
  <2>2. PointsSay(Points("method", m, l, r) \cup Points("dataset", shared, dl, dr))
          = PointsSay(Points("method", n, r, l) \cup Points("dataset", derahs, dr, dl))
    <3> DEFINE P == Points("method", m, l, r)
               Q == Points("dataset", shared, dl, dr)
               P2 == Points("method", n, r, l)
               Q2 == Points("dataset", derahs, dr, dl)
    <3>1. PointsSay(P) = PointsSay(P2) /\ PointsSay(Q) = PointsSay(Q2)
      BY <1>5, <1>7
    <3> HIDE DEF P, Q, P2, Q2
    <3>2. PointsSay(P \cup Q) = PointsSay(P2 \cup Q2)
      BY <3>1, SaysBoth
    <3> QED
      BY <3>2 DEF P, Q, P2, Q2
  <2> QED
    BY <2>1, <2>2, VerdictSays
<1> HIDE DEF methods, sdohtem, Report, Troper, l, r
<1>8. CASE "HSS" \in {left.paradigm, right.paradigm} \/ Lacks(l, r)
  BY <1>2, <1>3, <1>4, <1>8
<1>9. CASE ~("HSS" \in {left.paradigm, right.paradigm} \/ Lacks(l, r))
  <2>1. PICK m \in methods : i = Report(m)
    BY <1>2, <1>9
  <2>2. PICK n \in sdohtem : (m = {} <=> n = {}) /\ PointsSay(Points("method", m, l, r)) = PointsSay(Points("method", n, r, l))
    BY <1>6
  <2>3. Troper(n) \in MethodOverlap(right, left, w)
    BY <1>3, <1>4, <1>9
  <2> QED
    BY <1>7, <2>1, <2>2, <2>3
<1> QED
  BY <1>8, <1>9

\* For all graphs (run_patrol; the cache of reports sorts the two papers): what a patrol says
\* of two lenses, of two theses or of shared methods and datasets does not depend on which
\* paper is named first.
THEOREM VerdictsSymmetric ==
  ASSUME NEW left, NEW right, NEW w, NEW S, NodeLists(left, right) \subseteq Seq(S),
         NEW mode \in {"lens_clash", "contradiction", "method_overlap"}
  PROVE  {Verdict(i) : i \in Insights(mode, right, left, w)} = {Verdict(i) : i \in Insights(mode, left, right, w)}
<1>1. ASSUME NEW g, NEW h, NEW i \in LensClash(g, h)
      PROVE  \E j \in LensClash(h, g) : Verdict(j) = Verdict(i)
  <2> DEFINE a == Primary(Typed(g, {"AnalyticalLens"}), g)
             b == Primary(Typed(h, {"AnalyticalLens"}), h)
             kind == "analytical_framework"
  <2>1. i = Clash(kind, a, b) /\ Clash(kind, b, a) \in LensClash(h, g)
    BY Zenon DEF LensClash, Lacks, Clash
  <2> HIDE DEF a, b
  <2>2. Verdict(Clash(kind, b, a)) = Verdict(Clash(kind, a, b))
    BY ClashSays
  <2> QED
    BY <2>1, <2>2
<1>2. ASSUME NEW g, NEW h, NEW i \in Contradiction(g, h)
      PROVE  \E j \in Contradiction(h, g) : Verdict(j) = Verdict(i)
  <2> DEFINE a == Primary(Typed(g, {"Thesis"}), g)
             b == Primary(Typed(h, {"Thesis"}), h)
             kind == "potential"
             none == "MISSING_REQUIRED_NODES"
  <2>1. \/ i = Excluded(none, {}) /\ Excluded(none, {}) \in Contradiction(h, g)
        \/ i = Excluded(none, Both(a, b)) /\ Excluded(none, Both(b, a)) \in Contradiction(h, g)
        \/ i = Clash(kind, a, b) /\ Clash(kind, b, a) \in Contradiction(h, g)
    BY Zenon DEF Contradiction, Lacks, Clash
  <2> HIDE DEF a, b
  <2>2. Verdict(Clash(kind, b, a)) = Verdict(Clash(kind, a, b))
    BY ClashSays
  <2>3. Verdict(Excluded(none, Both(b, a))) = Verdict(Excluded(none, Both(a, b)))
    BY ExclusionSays
  <2> HIDE DEF none, kind
  <2> QED
    BY <2>1, <2>2, <2>3
<1>3. NodeLists(right, left) \subseteq Seq(S)
  BY DEF NodeLists
<1>4. ASSUME NEW i \in Insights(mode, left, right, w)
      PROVE  \E j \in Insights(mode, right, left, w) : Verdict(j) = Verdict(i)
  BY <1>1, <1>2, OverlapSwapped DEF Insights
<1>5. ASSUME NEW i \in Insights(mode, right, left, w)
      PROVE  \E j \in Insights(mode, left, right, w) : Verdict(j) = Verdict(i)
  BY <1>1, <1>2, <1>3, OverlapSwapped DEF Insights
<1> QED
  BY <1>4, <1>5
-----------------------------------------------------------------------------
\* ---- The snapshots of the judge ------------------------------------------
\* Files of snapshots of some prompts.
SnapshotFiles(prompts) ==
    [root : prompts \cup {"none"}, default : {"none", "d"},
     entries : UNION {[s -> {"a", "m1", "m2"}] : s \in SUBSET prompts}]
Recordings(prompts) == Seq(prompts \X {"m1", "m2"})

LEMMA RecordedFile ==
  ASSUME NEW prompts, NEW file \in SnapshotFiles(prompts), NEW p \in prompts, NEW micro \in {"m1", "m2"}
  PROVE  /\ Recorded(file, p, micro) \in SnapshotFiles(prompts)
         /\ Recorded(file, p, micro).root = p
         /\ Recorded(file, p, micro).default = file.default
         /\ DOMAIN Recorded(file, p, micro).entries = DOMAIN file.entries \cup {p}
         /\ Recorded(file, p, micro).entries[p] = micro
         /\ \A q \in DOMAIN file.entries \ {p} : Recorded(file, p, micro).entries[q] = file.entries[q]
<1> DEFINE old == file.entries
           new == [q \in DOMAIN old \cup {p} |-> IF q = p THEN micro ELSE old[q]]
<1>1. Recorded(file, p, micro) = [file EXCEPT !.root = p, !.entries = new]
  BY DEF Recorded
<1>2. PICK s \in SUBSET prompts : old \in [s -> {"a", "m1", "m2"}]
  BY DEF SnapshotFiles
<1>3. new \in [s \cup {p} -> {"a", "m1", "m2"}] /\ s \cup {p} \in SUBSET prompts
  BY <1>2
<1>4. DOMAIN new = DOMAIN old \cup {p} /\ new[p] = micro /\ \A q \in DOMAIN old \ {p} : new[q] = old[q]
  OBVIOUS
<1>5. new \in UNION {[x -> {"a", "m1", "m2"}] : x \in SUBSET prompts}
  BY <1>3
<1> HIDE DEF new, old
<1>6. /\ [file EXCEPT !.root = p, !.entries = new] \in SnapshotFiles(prompts)
      /\ [file EXCEPT !.root = p, !.entries = new].root = p
      /\ [file EXCEPT !.root = p, !.entries = new].default = file.default
      /\ [file EXCEPT !.root = p, !.entries = new].entries = new
  BY <1>5 DEF SnapshotFiles
<1> QED
  BY <1>1, <1>4, <1>6 DEF old

\* The loop of the recordings.
RecordLoop(kept, t) ==
    /\ kept[0] = Committed(t)
    /\ \A k \in 1..Len(t.recordings) : kept[k] = Recorded(kept[k - 1], t.recordings[k][1], t.recordings[k][2])
    /\ Snapshots(t) = kept[Len(t.recordings)]

LEMMA RecordsLoop ==
  ASSUME NEW prompts, NEW t, Committed(t) \in SnapshotFiles(prompts), t.recordings \in Recordings(prompts)
  PROVE  \E kept \in [0..Len(t.recordings) -> SnapshotFiles(prompts)] : RecordLoop(kept, t)
<1> DEFINE list == t.recordings
           n == Len(list)
           V == SnapshotFiles(prompts)
           Kept(file, r) == Recorded(file, r[1], r[2])
           h == [p \in (1..n) \X V |-> Kept(p[2], list[p[1]])]
           Is(f) == f = [s \in SUBSET (1..n) |-> IF s = {} THEN Committed(t) ELSE Kept(f[s \ {Max(s)}], list[Max(s)])]
           iter == CHOOSE f : Is(f)
<1>0. DOMAIN list = 1..n /\ n \in Nat /\ \A k \in 1..n : list[k][1] \in prompts /\ list[k][2] \in {"m1", "m2"}
  BY DEF Recordings
<1>1. h \in [(1..n) \X V -> V]
  <2>1. \A file \in V, k \in 1..n : Kept(file, list[k]) \in V
    <3> TAKE file \in V, k \in 1..n
    <3>1. list[k][1] \in prompts /\ list[k][2] \in {"m1", "m2"}
      BY <1>0
    <3> QED
      BY <3>1, RecordedFile
  <2> HIDE DEF Kept, V
  <2> QED
    BY <2>1
<1> HIDE DEF h
<1>3. PICK f \in [SUBSET (1..n) -> V] : FoldsUp(f, n, Committed(t), h)
  BY <1>0, <1>1, SequenceFold
<1>4. \A s \in SUBSET (1..n) : s # {} => h[<<Max(s), f[s \ {Max(s)}]>>] = Kept(f[s \ {Max(s)}], list[Max(s)])
  <2> HIDE DEF V, Kept
  <2> QED
    BY <1>0, GreatestOf DEF h
<1>5. Is(f)
  <2> HIDE DEF Kept
  <2> QED
    BY <1>3, <1>4 DEF FoldsUp
<1> HIDE DEF Is
<1>6. Is(iter)
  BY <1>5
<1>7. Snapshots(t) = iter[1..n]
  BY <1>0 DEF Snapshots, FoldLeft, MapThenFoldSet, Is
<1> HIDE DEF iter
<1> DEFINE kept == [k \in 0..n |-> iter[1..k]]
<1>8. kept[0] = Committed(t) /\ Snapshots(t) = kept[n] /\ kept = [k \in 0..n |-> kept[k]]
  BY <1>0, <1>6, <1>7 DEF Is
<1>9. \A k \in 1..n : kept[k] = Kept(kept[k - 1], list[k])
  <2> TAKE k \in 1..n
  <2>1. Max(1..k) = k /\ (1..k) \ {k} = 1..(k - 1) /\ 1..k \in SUBSET (1..n) /\ 1..k # {}
    BY <1>0, LastPosition
  <2>2. iter[1..k] = Kept(iter[1..(k - 1)], list[k])
    <3> HIDE DEF Kept
    <3> QED
      BY <1>6, <2>1 DEF Is
  <2> QED
    BY <1>0, <2>2
<1> HIDE DEF kept
<1> DEFINE P == {k \in 0..n : kept[k] \in V}
<1>10. \A k \in 0..n : k \in P
  <2>1. 0 \in P
    BY <1>0, <1>8
  <2>2. ASSUME NEW k \in 1..n, k - 1 \in P
        PROVE  k \in P
    <3>1. kept[k - 1] \in V /\ list[k][1] \in prompts /\ list[k][2] \in {"m1", "m2"}
      BY <1>0, <2>2
    <3>2. Kept(kept[k - 1], list[k]) \in V
      BY <3>1, RecordedFile
    <3> HIDE DEF Kept
    <3> QED
      BY <1>9, <3>2
  <2> HIDE DEF P
  <2> QED
    BY <1>0, <2>1, <2>2, StepByStep
<1>11. kept \in [0..n -> V]
  BY <1>8, <1>10
<1> QED
  BY <1>8, <1>9, <1>11 DEF RecordLoop

\* The first k recordings that are of prompt p.
RecordingsOf(t, p, k) == {i \in 1..k : t.recordings[i][1] = p}

\* The file holds what was recorded last of each prompt, and the prompt of the last recording.
LastRecorded(file, t, k) ==
    LET first == IF t.first = "none" THEN {} ELSE {"p"}
    IN /\ file.default = t.default
       /\ file.root = IF k = 0 THEN t.root ELSE t.recordings[k][1]
       /\ DOMAIN file.entries = first \cup {t.recordings[i][1] : i \in 1..k}
       /\ \A p \in DOMAIN file.entries :
             IF RecordingsOf(t, p, k) = {} THEN p \in first /\ file.entries[p] = t.first
             ELSE \E i \in RecordingsOf(t, p, k) :
                     (\A j \in RecordingsOf(t, p, k) : j <= i) /\ file.entries[p] = t.recordings[i][2]

LEMMA SnapshotsRecorded ==
  ASSUME NEW prompts, NEW t, Committed(t) \in SnapshotFiles(prompts), t.recordings \in Recordings(prompts)
  PROVE  LastRecorded(Snapshots(t), t, Len(t.recordings))
<1> DEFINE list == t.recordings
           n == Len(list)
<1>0. DOMAIN list = 1..n /\ n \in Nat /\ \A k \in 1..n : list[k][1] \in prompts /\ list[k][2] \in {"m1", "m2"}
  BY DEF Recordings
<1>1. PICK kept \in [0..n -> SnapshotFiles(prompts)] : RecordLoop(kept, t)
  BY RecordsLoop
<1>2. /\ kept[0] = Committed(t)
      /\ \A k \in 1..n : kept[k] = Recorded(kept[k - 1], list[k][1], list[k][2])
      /\ Snapshots(t) = kept[n]
  BY <1>1 DEF RecordLoop
<1> DEFINE P == {k \in 0..n : LastRecorded(kept[k], t, k)}
<1>3. 0 \in P
  <2>1. LastRecorded(Committed(t), t, 0)
    BY DEF LastRecorded, RecordingsOf, Committed
  <2> QED
    BY <1>0, <1>2, <2>1
<1>4. ASSUME NEW k \in 1..n, k - 1 \in P
      PROVE  k \in P
  <2> DEFINE old == kept[k - 1]
             q == list[k][1]
             micro == list[k][2]
             new == Recorded(old, q, micro)
             first == IF t.first = "none" THEN {} ELSE {"p"}
  <2>1. k - 1 \in 0..n /\ old \in SnapshotFiles(prompts) /\ q \in prompts /\ micro \in {"m1", "m2"} /\ LastRecorded(old, t, k - 1)
    BY <1>0, <1>4
  <2>2. kept[k] = new
    BY <1>2
  <2>3. /\ new.root = q /\ new.default = old.default
        /\ DOMAIN new.entries = DOMAIN old.entries \cup {q} /\ new.entries[q] = micro
        /\ \A p \in DOMAIN old.entries \ {q} : new.entries[p] = old.entries[p]
    BY <2>1, RecordedFile
  <2> HIDE DEF old, new
  <2>4. 1..k = 1..(k - 1) \cup {k} /\ k \in 1..k /\ k # 0
    BY <1>0
  <2>5. DOMAIN old.entries = first \cup {list[i][1] : i \in 1..(k - 1)} /\ old.default = t.default
    BY <2>1 DEF LastRecorded
  <2>6. DOMAIN new.entries = first \cup {list[i][1] : i \in 1..k}
    BY <2>3, <2>4, <2>5
  <2>7. ASSUME NEW p \in DOMAIN new.entries
        PROVE  IF RecordingsOf(t, p, k) = {} THEN p \in first /\ new.entries[p] = t.first
               ELSE \E i \in RecordingsOf(t, p, k) :
                       (\A j \in RecordingsOf(t, p, k) : j <= i) /\ new.entries[p] = list[i][2]
    <3>1. CASE p = q
      <4>1. k \in RecordingsOf(t, p, k) /\ \A j \in RecordingsOf(t, p, k) : j <= k
        BY <2>4, <3>1 DEF RecordingsOf
      <4> QED
        BY <2>3, <3>1, <4>1
    <3>2. CASE p # q
      <4>1. RecordingsOf(t, p, k) = RecordingsOf(t, p, k - 1)
        BY <2>4, <3>2 DEF RecordingsOf
      <4>2. p \in DOMAIN old.entries /\ new.entries[p] = old.entries[p]
        BY <2>3, <3>2
      <4> QED
        BY <2>1, <4>1, <4>2 DEF LastRecorded
    <3> QED
      BY <3>1, <3>2
  <2>8. LastRecorded(new, t, k)
    BY <2>3, <2>4, <2>5, <2>6, <2>7 DEF LastRecorded
  <2> QED
    BY <2>2, <2>8
<1> HIDE DEF P
<1> HIDE DEF n
<1>5. \A k \in 0..n : k \in P
  BY <1>0, <1>3, <1>4, StepByStep
<1>6. n \in P
  BY <1>0, <1>5
<1> QED
  BY <1>2, <1>6 DEF P, n

\* For every file of snapshots and every sequence of recordings (judge snapshots record,
\* try_replay_judge): a replay returns what was recorded last for this very prompt or the
\* default that is meant for it, and a contract for another prompt is reported.
THEOREM ReplayIsOfThisPrompt ==
  ASSUME NEW prompts, NEW t, Committed(t) \in SnapshotFiles(prompts), t.recordings \in Recordings(prompts),
         "none" \notin prompts, t.first \in {"none", "a"}
  PROVE  ReplayFaithful(t, Replayed(Snapshots(t), t.prompt))
<1> DEFINE reply == Replayed(Snapshots(t), t.prompt)
           mine == {i \in DOMAIN t.recordings : t.recordings[i][1] = t.prompt}
           root == IF t.recordings = <<>> THEN t.root ELSE Last(t.recordings)[1]
<1> SUFFICES /\ root \notin {"none", t.prompt} => reply = Drift
             /\ root = t.prompt /\ mine # {} => reply = t.recordings[Max(mine)][2]
             /\ reply \in {"m1", "m2"} => mine # {}
             /\ reply = "a" => t.prompt = "p"
             /\ reply = Live => t.default = "none"
  BY DEF ReplayFaithful
<1> DEFINE file == Snapshots(t)
           n == Len(t.recordings)
<1>0. DOMAIN t.recordings = 1..n /\ n \in Nat /\ (n = 0 <=> t.recordings = <<>>)
  BY DEF Recordings
<1>1. LastRecorded(file, t, n)
  BY SnapshotsRecorded
<1>2. mine = RecordingsOf(t, t.prompt, n)
  BY <1>0 DEF RecordingsOf
<1>3. file.root = root
  BY <1>0, <1>1 DEF LastRecorded, Last
<1>4. t.default \in {"none", "d"} /\ \A i \in 1..n : t.recordings[i][2] \in {"m1", "m2"}
  BY <1>0 DEF Committed, SnapshotFiles, Recordings
<1>5. ASSUME t.prompt \in DOMAIN file.entries
      PROVE  IF mine = {} THEN t.first # "none" /\ t.prompt = "p" /\ file.entries[t.prompt] = t.first
             ELSE \E i \in mine : (\A j \in mine : j <= i) /\ file.entries[t.prompt] = t.recordings[i][2]
  BY <1>1, <1>2, <1>5 DEF LastRecorded
<1>6. mine # {} => t.prompt \in DOMAIN file.entries
  BY <1>1, <1>2 DEF LastRecorded, RecordingsOf
<1> HIDE DEF file
<1>7. mine # {} => file.entries[t.prompt] = t.recordings[Max(mine)][2] /\ Max(mine) \in 1..n
  <2> SUFFICES ASSUME mine # {}
               PROVE  file.entries[t.prompt] = t.recordings[Max(mine)][2] /\ Max(mine) \in 1..n
    OBVIOUS
  <2>1. PICK i \in mine : (\A j \in mine : j <= i) /\ file.entries[t.prompt] = t.recordings[i][2]
    BY <1>5, <1>6
  <2>2. mine \in SUBSET (1..n)
    BY <1>0
  <2>3. Max(mine) = i
    BY <2>1, <2>2 DEF Max
  <2> QED
    BY <2>1, <2>2, <2>3
<1>8. reply = Replayed(file, t.prompt)
  BY DEF file
<1> HIDE DEF mine, root, reply
<1>9. CASE root \notin {"none", t.prompt}
  BY <1>3, <1>8, <1>9 DEF Replayed, Drift, Live
<1>10. CASE root \in {"none", t.prompt}
  <2>1. file.default = t.default
    BY <1>1 DEF LastRecorded, file
  <2>2. reply = IF t.prompt \in DOMAIN file.entries THEN file.entries[t.prompt]
                ELSE IF t.default # "none" THEN t.default ELSE Live
    BY <1>3, <1>8, <1>10, <2>1 DEF Replayed
  <2>3. CASE mine # {}
    <3>1. reply = t.recordings[Max(mine)][2] /\ reply \in {"m1", "m2"}
      BY <1>4, <1>6, <1>7, <2>2, <2>3
    <3> QED
      BY <1>10, <2>3, <3>1 DEF Live
  <2>4. CASE mine = {} /\ t.prompt \in DOMAIN file.entries
    <3>1. reply = t.first /\ t.prompt = "p" /\ t.first # "none"
      BY <1>5, <2>2, <2>4
    <3> QED
      BY <1>4, <1>10, <2>4, <3>1 DEF Live
  <2>5. CASE t.prompt \notin DOMAIN file.entries
    <3>1. reply = IF t.default # "none" THEN t.default ELSE Live
      BY <2>2, <2>5
    <3> QED
      BY <1>4, <1>6, <1>10, <2>5, <3>1 DEF Live
  <2> QED
    BY <2>3, <2>4, <2>5
<1> QED
  BY <1>9, <1>10

-----------------------------------------------------------------------------
\* ---- The pieces of a long paper -----------------------------------------
\* Of lists one behind the other.
Behind(l, r, s) == l = r \o s

\* A list that begins like one and goes on like another.
LEMMA ListsBehind ==
  ASSUME NEW V, NEW l \in Seq(V), NEW r \in Seq(V), NEW s \in Seq(V), Len(l) = Len(r) + Len(s),
         \A k \in 1..Len(r) : l[k] = r[k], \A k \in 1..Len(s) : l[Len(r) + k] = s[k]
  PROVE  l = r \o s
<1> DEFINE rs == r \o s
<1>1. /\ rs \in Seq(V) /\ Len(rs) = Len(r) + Len(s) /\ Len(r) \in Nat /\ Len(s) \in Nat
      /\ \A k \in 1..Len(r) : rs[k] = r[k]
      /\ \A k \in 1..Len(s) : rs[Len(r) + k] = s[k]
  OBVIOUS
<1> HIDE DEF rs
<1>2. ASSUME NEW k \in 1..Len(l)
      PROVE  l[k] = rs[k]
  <2>1. CASE k <= Len(r)
    BY <1>1, <2>1
  <2>2. CASE ~(k <= Len(r))
    <3>1. k - Len(r) \in 1..Len(s) /\ Len(r) + (k - Len(r)) = k
      BY <1>1, <2>2
    <3> QED
      BY <1>1, <3>1
  <2> QED
    BY <2>1, <2>2
<1>3. l = rs
  BY <1>1, <1>2
<1> QED
  BY <1>3 DEF rs

\* Lists one behind the other may be put together from either end.
LEMMA Joined3 ==
  ASSUME NEW V, NEW a \in Seq(V), NEW b \in Seq(V), NEW c \in Seq(V)
  PROVE  (a \o b) \o c = a \o (b \o c)
OBVIOUS

\* Two lists joined are empty only when both are.
LEMMA NothingJoined ==
  ASSUME NEW V, NEW l \in Seq(V), NEW r \in Seq(V), NEW s \in Seq(V), Behind(l, r, s)
  PROVE  l = <<>> <=> r = <<>> /\ s = <<>>
<1>1. Len(l) = Len(r) + Len(s) /\ Len(r) \in Nat /\ Len(s) \in Nat /\ Len(l) \in Nat
  BY DEF Behind
<1>2. /\ l = <<>> <=> Len(l) = 0
      /\ r = <<>> <=> Len(r) = 0
      /\ s = <<>> <=> Len(s) = 0
  OBVIOUS
<1> QED
  BY <1>1, <1>2

\* The three lists r, s and t make l, whichever two are joined first.
LEMMA JoinedLater ==
  ASSUME NEW V, NEW r \in Seq(V), NEW s \in Seq(V), NEW t \in Seq(V), NEW l, NEW u, NEW v,
         Behind(l, u, t), Behind(u, r, s), Behind(v, s, t)
  PROVE  Behind(l, r, v)
BY Joined3 DEF Behind

\* Nothing in front or behind changes no list.
LEMMA JoinedNothing ==
  ASSUME NEW V
  PROVE  \A a \in Seq(V) : a \o <<>> = a /\ <<>> \o a = a
OBVIOUS

\* What comes in two parts, the second in two again, comes in two with the first joined.
LEMMA JoinedEarlier ==
  ASSUME NEW V, NEW r \in Seq(V), NEW s \in Seq(V), NEW t \in Seq(V), NEW l, NEW u, NEW v,
         Behind(l, r, v), Behind(u, r, s), Behind(v, s, t)
  PROVE  Behind(l, u, t)
BY Joined3 DEF Behind

\* The beginning of a list is one element longer than the one before it.
LEMMA NextBeginning ==
  ASSUME NEW V, NEW l \in Seq(V), NEW k \in 1..Len(l)
  PROVE  Behind(SubSeq(l, 1, k), SubSeq(l, 1, k - 1), <<l[k]>>)
<1> DEFINE a == SubSeq(l, 1, k)
           b == SubSeq(l, 1, k - 1)
           c == <<l[k]>>
<1>1. /\ a \in Seq(V) /\ b \in Seq(V) /\ c \in Seq(V) /\ Len(a) = k /\ Len(b) = k - 1 /\ Len(c) = 1 /\ k \in Nat
      /\ c[1] = l[k] /\ a[k] = l[k]
      /\ \A i \in 1..(k - 1) : a[i] = l[i] /\ b[i] = l[i]
  OBVIOUS
<1> HIDE DEF a, b, c
<1>2. Len(a) = Len(b) + Len(c) /\ (\A i \in 1..Len(b) : a[i] = b[i]) /\ \A i \in 1..Len(c) : a[Len(b) + i] = c[i]
  <2>1. \A i \in 1..Len(b) : a[i] = b[i]
    BY <1>1
  <2>2. ASSUME NEW i \in 1..Len(c) PROVE a[Len(b) + i] = c[i]
    <3>1. i = 1 /\ Len(b) + i = k
      BY <1>1
    <3> QED
      BY <1>1, <3>1
  <2>3. Len(a) = Len(b) + Len(c)
    BY <1>1
  <2> QED
    BY <2>1, <2>2, <2>3
<1>3. a = b \o c
  BY <1>1, <1>2, ListsBehind
<1> QED
  BY <1>3 DEF Behind, a, b, c

\* What the first k lists are together.
FlatLoop(flat, seqs) ==
    /\ flat[0] = <<>>
    /\ \A k \in 1..Len(seqs) : flat[k] = flat[k - 1] \o seqs[k]
    /\ FlattenSeq(seqs) = flat[Len(seqs)]

\* The flattened beginnings of a list of lists exist, and the last is the whole.
LEMMA FlatSteps ==
  ASSUME NEW V, NEW seqs \in Seq(Seq(V))
  PROVE  \E flat \in [0..Len(seqs) -> Seq(V)] : FlatLoop(flat, seqs)
<1> DEFINE n == Len(seqs)
           h == [p \in (1..n) \X Seq(V) |-> p[2] \o seqs[p[1]]]
           Is(f) == f = [i \in 1..n |-> IF i = 1 THEN seqs[i] ELSE f[i - 1] \o seqs[i]]
           flat == CHOOSE f : Is(f)
<1>0. n \in Nat /\ DOMAIN seqs = 1..n /\ \A i \in 1..n : seqs[i] \in Seq(V)
  OBVIOUS
<1>1. CASE n = 0
  <2>1. FlattenSeq(seqs) = seqs /\ seqs = <<>>
    BY <1>1 DEF FlattenSeq
  <2>2. [k \in 0..0 |-> <<>>] \in [0..0 -> Seq(V)]
    OBVIOUS
  <2>3. FlatLoop([k \in 0..0 |-> <<>>], seqs)
    BY <1>1, <2>1 DEF FlatLoop
  <2> QED
    BY <1>1, <2>2, <2>3
<1>2. CASE n # 0
  <2>1. h \in [(1..n) \X Seq(V) -> Seq(V)] /\ <<>> \in Seq(V)
    BY <1>0
  <2> HIDE DEF h
  <2>2. PICK f \in [SUBSET (1..n) -> Seq(V)] : FoldsUp(f, n, <<>>, h)
    BY <1>0, <2>1, SequenceFold
  <2>3. f[1..0] = <<>>
    <3>1. 1..0 \in SUBSET (1..n) /\ 1..0 = {}
      OBVIOUS
    <3> QED
      BY <2>2, <3>1 DEF FoldsUp
  <2>4. \A k \in 1..n : f[1..k] = f[1..(k - 1)] \o seqs[k] /\ f[1..k] \in Seq(V)
    <3> TAKE k \in 1..n
    <3>1. Max(1..k) = k /\ (1..k) \ {k} = 1..(k - 1) /\ 1..k \in SUBSET (1..n) /\ 1..k # {} /\ 1..(k - 1) \in SUBSET (1..n)
      BY <1>0, LastPosition
    <3>2. f[1..k] = h[<<k, f[1..(k - 1)]>>]
      BY <2>2, <3>1 DEF FoldsUp
    <3>3. f[1..(k - 1)] \in Seq(V) /\ f[1..k] \in Seq(V)
      BY <3>1
    <3>4. h[<<k, f[1..(k - 1)]>>] = f[1..(k - 1)] \o seqs[k]
      BY <3>3 DEF h
    <3> QED
      BY <3>2, <3>3, <3>4
  <2> DEFINE found == [k \in 1..n |-> f[1..k]]
             all == [k \in 0..n |-> f[1..k]]
  <2>5. Is(found)
    <3>1. ASSUME NEW k \in 1..n, k # 1
          PROVE  found[k] = found[k - 1] \o seqs[k]
      <4>1. k - 1 \in 1..n
        BY <1>0, <3>1
      <4> QED
        BY <2>4, <4>1
    <3>2. ASSUME NEW k \in 1..n, k = 1
          PROVE  found[k] = seqs[k]
      <4>1. f[1..1] = f[1..0] \o seqs[1]
        <5>1. 1 \in 1..n /\ 1 - 1 = 0
          BY <1>0, <3>2
        <5> QED
          BY <2>4, <5>1
      <4>2. seqs[1] \in Seq(V) /\ <<>> \o seqs[1] = seqs[1]
        BY <1>0, <3>2
      <4> QED
        BY <2>3, <3>2, <4>1, <4>2
    <3> QED
      BY <3>1, <3>2
  <2>6. Is(flat)
    <3> HIDE DEF Is, found
    <3> QED
      BY <2>5
  <2>7. FlattenSeq(seqs) = flat[n]
    <3> HIDE DEF found
    <3> QED
      BY <1>0, <1>2 DEF FlattenSeq, Is
  <2> DEFINE P == {k \in 0..n : k # 0 => flat[k] = all[k]}
  <2>8. all[0] = <<>> /\ \A k \in 1..n : all[k] = all[k - 1] \o seqs[k]
    <3>1. ASSUME NEW k \in 1..n
          PROVE  all[k] = all[k - 1] \o seqs[k]
      <4>1. k \in 0..n /\ k - 1 \in 0..n
        BY <1>0
      <4>2. all[k] = f[1..k] /\ all[k - 1] = f[1..(k - 1)]
        BY <4>1
      <4>3. f[1..k] = f[1..(k - 1)] \o seqs[k]
        BY <2>4
      <4> HIDE DEF all
      <4> QED
        BY <4>2, <4>3, Zenon
    <3>2. all[0] = <<>>
      BY <1>0, <2>3
    <3> HIDE DEF all
    <3> QED
      BY <3>1, <3>2
  <2>9. all \in [0..n -> Seq(V)]
    <3>1. ASSUME NEW k \in 0..n PROVE f[1..k] \in Seq(V)
      <4>1. 1..k \in SUBSET (1..n)
        BY <1>0
      <4> QED
        BY <4>1
    <3> QED
      BY <3>1
  <2>10. \A k \in 0..n : k \in P
    <3>0. \A k \in 1..n : flat[k] = IF k = 1 THEN seqs[k] ELSE flat[k - 1] \o seqs[k]
      <4> HIDE DEF flat, found
      <4> QED
        BY <2>6 DEF Is
    <3> HIDE DEF flat, all
    <3>1. 0 \in P
      BY <1>0
    <3>2. ASSUME NEW k \in 1..n, k - 1 \in P
          PROVE  k \in P
      <4>1. CASE k = 1
        <5>1. all[k] = all[k - 1] \o seqs[k] /\ seqs[k] \in Seq(V) /\ k - 1 = 0
          BY <1>0, <2>8, <4>1
        <5>2. all[k] = seqs[k]
          <6>1. all[k - 1] = <<>>
            BY <2>8, <5>1
          <6> QED
            BY <5>1, <6>1, JoinedNothing
        <5> QED
          BY <1>0, <3>0, <4>1, <5>2
      <4>2. CASE k # 1
        <5>1. flat[k - 1] = all[k - 1]
          BY <1>0, <3>2, <4>2
        <5> QED
          <6>1. all[k] = all[k - 1] \o seqs[k]
            BY <2>8
          <6>2. flat[k] = flat[k - 1] \o seqs[k]
            BY <3>0, <4>2
          <6>3. all[k] = flat[k]
            BY <5>1, <6>1, <6>2, Zenon
          <6> QED
            BY <1>0, <6>3
      <4> QED
        BY <4>1, <4>2
    <3> HIDE DEF P
    <3> QED
      BY <1>0, <3>1, <3>2, StepByStep
  <2> HIDE DEF flat, all, found
  <2>11. FlattenSeq(seqs) = all[n]
    BY <1>0, <1>2, <2>7, <2>10
  <2>12. FlatLoop(all, seqs)
    BY <2>8, <2>11 DEF FlatLoop
  <2> QED
    BY <2>9, <2>12
<1> QED
  BY <1>1, <1>2

\* h goes on behind its first m passes as g does.
GoesOnAs(h, m, g, k) == h[m + k] = h[m] \o g[k]

\* One list of lists behind another.
LEMMA FlatOfJoined ==
  ASSUME NEW V, NEW a \in Seq(Seq(V)), NEW b \in Seq(Seq(V))
  PROVE  /\ FlattenSeq(a \o b) = FlattenSeq(a) \o FlattenSeq(b)
         /\ FlattenSeq(a) \in Seq(V)
<1> DEFINE m == Len(a)
           n == Len(b)
           ab == a \o b
<1>0. /\ m \in Nat /\ n \in Nat /\ ab \in Seq(Seq(V)) /\ Len(ab) = m + n
      /\ \A k \in 1..m : ab[k] = a[k] /\ a[k] \in Seq(V)
      /\ \A k \in 1..n : ab[m + k] = b[k] /\ b[k] \in Seq(V)
  OBVIOUS
<1> HIDE DEF ab
<1>1. PICK f \in [0..m -> Seq(V)] : FlatLoop(f, a)
  BY FlatSteps
<1>2. PICK g \in [0..n -> Seq(V)] : FlatLoop(g, b)
  BY FlatSteps
<1>3. PICK h \in [0..(m + n) -> Seq(V)] : FlatLoop(h, ab)
  <2>1. \E h \in [0..Len(ab) -> Seq(V)] : FlatLoop(h, ab)
    BY <1>0, FlatSteps
  <2> QED
    BY <1>0, <2>1
<1> DEFINE P == {k \in 0..m : h[k] = f[k]}
           Q == {k \in 0..n : GoesOnAs(h, m, g, k)}
<1>4. \A k \in 0..m : k \in P
  <2>1. 0 \in P
    BY <1>0, <1>1, <1>3 DEF FlatLoop
  <2>2. ASSUME NEW k \in 1..m, k - 1 \in P
        PROVE  k \in P
    <3>1. k \in 1..(m + n) /\ h[k - 1] = f[k - 1]
      BY <1>0, <2>2
    <3>2. h[k] = h[k - 1] \o ab[k]
      BY <1>0, <1>3, <3>1 DEF FlatLoop
    <3>3. f[k] = f[k - 1] \o a[k]
      BY <1>0, <1>1 DEF FlatLoop
    <3>4. ab[k] = a[k]
      BY <1>0
    <3>5. h[k] = f[k]
      BY <3>1, <3>2, <3>3, <3>4, Zenon
    <3> QED
      BY <1>0, <3>5
  <2> HIDE DEF P
  <2> QED
    BY <1>0, <2>1, <2>2, StepByStep
<1>5. \A k \in 0..n : k \in Q
  <2>1. 0 \in Q
    <3>1. h[m] \in Seq(V) /\ m + 0 = m
      BY <1>0, <1>3
    <3>2. h[m] \o <<>> = h[m]
      BY <3>1, JoinedNothing
    <3> QED
      BY <1>0, <1>2, <3>1, <3>2 DEF FlatLoop, GoesOnAs
  <2>2. ASSUME NEW k \in 1..n, k - 1 \in Q
        PROVE  k \in Q
    <3>1. m + k \in 1..(m + n) /\ (m + k) - 1 = m + (k - 1) /\ k - 1 \in 0..n /\ m \in 0..(m + n)
      BY <1>0, <2>2
    <3>2. Behind(h[m + k], h[m + (k - 1)], b[k])
      BY <1>0, <1>3, <3>1 DEF FlatLoop, Behind
    <3>3. Behind(h[m + (k - 1)], h[m], g[k - 1])
      BY <2>2 DEF GoesOnAs, Behind
    <3>4. Behind(g[k], g[k - 1], b[k])
      BY <1>2 DEF FlatLoop, Behind
    <3>5. h[m] \in Seq(V) /\ g[k - 1] \in Seq(V) /\ b[k] \in Seq(V)
      BY <1>0, <1>2, <1>3, <3>1
    <3>6. Behind(h[m + k], h[m], g[k])
      BY <3>2, <3>3, <3>4, <3>5, JoinedLater
    <3>7. GoesOnAs(h, m, g, k)
      BY <3>6 DEF GoesOnAs, Behind
    <3> QED
      BY <1>0, <3>7
  <2> HIDE DEF Q
  <2> QED
    BY <1>0, <2>1, <2>2, StepByStep
<1>6. h[m] = f[m]
  <2>1. m \in 0..m
    BY <1>0
  <2>2. m \in P
    BY <1>4, <2>1, Zenon
  <2> QED
    BY <2>2, Zenon
<1>7. GoesOnAs(h, m, g, n)
  BY <1>0, <1>5
<1>8. h[m + n] = h[m] \o g[n]
  BY <1>7, Zenon DEF GoesOnAs
<1>9. FlattenSeq(a) = f[m] /\ FlattenSeq(b) = g[n]
  BY <1>1, <1>2, Zenon DEF FlatLoop
<1>10. FlattenSeq(ab) = h[m + n]
  BY <1>0, <1>3, Zenon DEF FlatLoop
<1>11. f[m] \in Seq(V)
  <2>1. m \in 0..m
    BY <1>0
  <2> QED
    BY <2>1, Zenon
<1> QED
  BY <1>6, <1>8, <1>9, <1>10, <1>11, Zenon DEF ab

\* No list, and one list alone, flattened.
LEMMA FlatOfFew ==
  ASSUME NEW V, NEW a \in Seq(Seq(V)), NEW s \in Seq(V)
  PROVE  /\ FlattenSeq(<<>>) = <<>> /\ FlattenSeq(<<s>>) = s
         /\ FlattenSeq(Append(a, s)) = FlattenSeq(a) \o s
<1>1. FlattenSeq(<<>>) = <<>>
  BY DEF FlattenSeq
<1>2. FlattenSeq(<<s>>) = s
  <2>1. <<s>> \in Seq(Seq(V)) /\ Len(<<s>>) = 1 /\ <<s>>[1] = s
    OBVIOUS
  <2>2. PICK f \in [0..Len(<<s>>) -> Seq(V)] : FlatLoop(f, <<s>>)
    BY <2>1, FlatSteps
  <2>3. f[1] = f[0] \o s /\ f[0] = <<>> /\ FlattenSeq(<<s>>) = f[1]
    <3>1. 1 \in 1..Len(<<s>>) /\ 1 - 1 = 0
      BY <2>1
    <3>2. f[1] = f[1 - 1] \o <<s>>[1] /\ f[0] = <<>> /\ FlattenSeq(<<s>>) = f[Len(<<s>>)]
      BY <2>2, <3>1 DEF FlatLoop
    <3> QED
      BY <2>1, <3>1, <3>2
  <2> QED
    BY <2>3, JoinedNothing
<1>3. Append(a, s) = a \o <<s>> /\ <<s>> \in Seq(Seq(V))
  OBVIOUS
<1> QED
  BY <1>1, <1>2, <1>3, FlatOfJoined

\* A piece, and what the pieces of a list say one after the other.
Pieces(V) == [body : Seq(V), len : Nat]
BodiesOf(chunks) == [k \in DOMAIN chunks |-> chunks[k].body]
TextOf(chunks) == FlattenSeq(BodiesOf(chunks))

\* The own texts of pieces, one for each.
LEMMA BodiesType ==
  ASSUME NEW V, NEW a \in Seq(Pieces(V))
  PROVE  /\ BodiesOf(a) \in Seq(Seq(V)) /\ Len(BodiesOf(a)) = Len(a)
         /\ \A k \in 1..Len(a) : BodiesOf(a)[k] = a[k].body
<1>1. DOMAIN a = 1..Len(a) /\ Len(a) \in Nat /\ \A k \in 1..Len(a) : a[k] \in Pieces(V)
  OBVIOUS
<1>2. \A k \in 1..Len(a) : a[k].body \in Seq(V)
  BY <1>1 DEF Pieces
<1> HIDE DEF Pieces
<1>3. BodiesOf(a) = [k \in 1..Len(a) |-> a[k].body]
  BY <1>1 DEF BodiesOf
<1> QED
  BY <1>1, <1>2, <1>3

\* The text of pieces one behind the other is that of each in turn.
LEMMA TextJoins ==
  ASSUME NEW V, NEW a \in Seq(Pieces(V)), NEW b \in Seq(Pieces(V))
  PROVE  TextOf(a) \in Seq(V) /\ Behind(TextOf(a \o b), TextOf(a), TextOf(b))
<1>1. BodiesOf(a) \in Seq(Seq(V)) /\ BodiesOf(b) \in Seq(Seq(V))
  BY BodiesType
<1>2. BodiesOf(a \o b) = BodiesOf(a) \o BodiesOf(b)
  <2> DEFINE ab == a \o b
  <2>1. /\ ab \in Seq(Pieces(V)) /\ Len(ab) = Len(a) + Len(b) /\ Len(a) \in Nat /\ Len(b) \in Nat
        /\ \A k \in 1..Len(a) : ab[k] = a[k]
        /\ \A k \in 1..Len(b) : ab[Len(a) + k] = b[k]
    OBVIOUS
  <2> HIDE DEF ab
  <2>2. /\ BodiesOf(ab) \in Seq(Seq(V)) /\ Len(BodiesOf(ab)) = Len(ab) /\ Len(BodiesOf(a)) = Len(a) /\ Len(BodiesOf(b)) = Len(b)
        /\ \A k \in 1..Len(ab) : BodiesOf(ab)[k] = ab[k].body
        /\ \A k \in 1..Len(a) : BodiesOf(a)[k] = a[k].body
        /\ \A k \in 1..Len(b) : BodiesOf(b)[k] = b[k].body
    BY <2>1, BodiesType
  <2>3. \A k \in 1..Len(b) : BodiesOf(ab)[Len(a) + k] = BodiesOf(b)[k]
    <3> TAKE k \in 1..Len(b)
    <3>1. Len(a) + k \in 1..Len(ab)
      BY <2>1
    <3> QED
      BY <2>1, <2>2, <3>1
  <2>4. \A k \in 1..Len(a) : BodiesOf(ab)[k] = BodiesOf(a)[k]
    <3> TAKE k \in 1..Len(a)
    <3>1. k \in 1..Len(ab)
      BY <2>1
    <3> QED
      BY <2>1, <2>2, <3>1
  <2>5. BodiesOf(ab) = BodiesOf(a) \o BodiesOf(b)
    <3>1. \A k \in 1..Len(BodiesOf(a)) : BodiesOf(ab)[k] = BodiesOf(a)[k]
      BY <2>2, <2>4
    <3>2. \A k \in 1..Len(BodiesOf(b)) : BodiesOf(ab)[Len(BodiesOf(a)) + k] = BodiesOf(b)[k]
      BY <2>2, <2>3
    <3>3. Len(BodiesOf(ab)) = Len(BodiesOf(a)) + Len(BodiesOf(b))
      BY <2>1, <2>2
    <3>4. BodiesOf(ab) \in Seq(Seq(V))
      BY <2>2
    <3> HIDE DEF BodiesOf
    <3> QED
      BY <1>1, <3>1, <3>2, <3>3, <3>4, ListsBehind
  <2> QED
    BY <2>5 DEF ab
<1> QED
  BY <1>1, <1>2, FlatOfJoined DEF TextOf, Behind

\* The text of no piece, and of one.
LEMMA TextOfFew ==
  ASSUME NEW V, NEW a \in Seq(Pieces(V)), NEW c \in Pieces(V)
  PROVE  TextOf(<<>>) = <<>> /\ TextOf(<<c>>) = c.body /\ Behind(TextOf(Append(a, c)), TextOf(a), c.body)
<1>1. BodiesOf(<<>>) = <<>> /\ BodiesOf(<<c>>) = <<c.body>> /\ c.body \in Seq(V)
  BY DEF BodiesOf, Pieces
<1>2. TextOf(<<>>) = <<>> /\ TextOf(<<c>>) = c.body
  <2>1. <<>> \in Seq(Seq(V))
    OBVIOUS
  <2> QED
    BY <1>1, <2>1, FlatOfFew DEF TextOf
<1>3. Append(a, c) = a \o <<c>> /\ <<c>> \in Seq(Pieces(V))
  OBVIOUS
<1>4. Behind(TextOf(a \o <<c>>), TextOf(a), TextOf(<<c>>))
  BY <1>3, TextJoins
<1> QED
  BY <1>2, <1>3, <1>4

\* A piece is within the limit or one sentence.
FitsIn(limit, body, len) == len > limit => Len(body) = 1

Cutting(V) == [chunks : Seq(Pieces(V)), body : Seq(V), len : Nat]

\* The cutting st has read the text r, and has kept to the limit.
HasRead(V, limit, st, r) ==
    /\ st \in Cutting(V) /\ r \in Seq(V) /\ Behind(r, TextOf(st.chunks), st.body)
    /\ st.body = <<>> => st.len = 0
    /\ FitsIn(limit, st.body, st.len)
    /\ \A c \in Range(st.chunks) : FitsIn(limit, c.body, c.len)

\* Closing the open piece leaves a state of the cutting with no open piece.
LEMMA FlushKeepsType ==
  ASSUME NEW V, NEW st \in Cutting(V)
  PROVE  Flush(st) \in Cutting(V) /\ Flush(st).body = <<>>
<1>1. st.chunks \in Seq(Pieces(V)) /\ [body |-> st.body, len |-> st.len] \in Pieces(V)
  BY DEF Cutting, Pieces
<1>2. Append(st.chunks, [body |-> st.body, len |-> st.len]) \in Seq(Pieces(V)) /\ <<>> \in Seq(V)
  BY <1>1
<1> QED
  BY <1>2 DEF Flush, Cutting

\* What a longer list holds is what it held and the new element.
LEMMA AppendedRange ==
  ASSUME NEW V, NEW a \in Seq(V), NEW c \in V
  PROVE  Range(Append(a, c)) = Range(a) \cup {c}
<1>1. Append(a, c) = a \o <<c>> /\ <<c>> \in Seq(V)
  OBVIOUS
<1>2. Range(<<c>>) = {c}
  BY DEF Range
<1>3. Range(a \o <<c>>) = Range(a) \cup Range(<<c>>)
  BY <1>1, ConcatenatedElements
<1> QED
  BY <1>1, <1>2, <1>3

\* Closing the open piece loses nothing that was read.
LEMMA FlushReads ==
  ASSUME NEW V, NEW limit \in Nat, NEW st, NEW r, HasRead(V, limit, st, r)
  PROVE  HasRead(V, limit, Flush(st), r) /\ Flush(st).body = <<>> /\ Flush(st).len = 0
<1>1. CASE st.body = <<>>
  BY <1>1 DEF Flush, HasRead
<1>2. CASE st.body # <<>>
  <2> DEFINE c == [body |-> st.body, len |-> st.len]
             next == Append(st.chunks, c)
  <2>1. st.chunks \in Seq(Pieces(V)) /\ c \in Pieces(V) /\ c.body = st.body /\ c.len = st.len /\ next \in Seq(Pieces(V))
    BY DEF Cutting, Pieces, HasRead
  <2>2. Flush(st) = [chunks |-> next, body |-> <<>>, len |-> 0]
    BY <1>2 DEF Flush
  <2>3. Range(next) = Range(st.chunks) \cup {c}
    BY <2>1, AppendedRange
  <2>4. Behind(TextOf(next), TextOf(st.chunks), st.body)
    <3> HIDE DEF c
    <3> QED
      BY <2>1, TextOfFew
  <2> HIDE DEF next, c
  <2>5. TextOf(next) = r
    BY <2>4 DEF HasRead, Behind
  <2>6. Behind(r, TextOf(next), <<>>)
    <3>1. r \in Seq(V)
      BY DEF HasRead
    <3>2. r = r \o <<>>
      BY <3>1, JoinedNothing
    <3> QED
      BY <2>5, <3>2 DEF Behind
  <2>7. \A d \in Range(next) : FitsIn(limit, d.body, d.len)
    BY <2>1, <2>3 DEF HasRead
  <2>8. Flush(st) \in Cutting(V)
    BY FlushKeepsType DEF HasRead
  <2>9. /\ Flush(st).chunks = next /\ Flush(st).body = <<>> /\ Flush(st).len = 0
        /\ r \in Seq(V)
    BY <2>2 DEF HasRead
  <2>10. FitsIn(limit, <<>>, 0)
    BY DEF FitsIn
  <2> QED
    BY <2>6, <2>7, <2>8, <2>9, <2>10 DEF HasRead
<1> QED
  BY <1>1, <1>2

PieceLimits == [max : Nat, overlap : Nat, least : Nat, min : Nat]

\* A full piece and the tail in front of it stay within the limit.
LEMMA BudgetWithinMax ==
  ASSUME NEW opt \in PieceLimits
  PROVE  Budget(opt) \in Nat /\ Echo(opt) \in Nat /\ Budget(opt) + Echo(opt) <= opt.max
<1>1. opt.max \in Nat /\ opt.overlap \in Nat /\ opt.least \in Nat
  BY DEF PieceLimits
<1>2. CASE opt.max - opt.overlap < opt.least
  BY <1>1, <1>2 DEF Budget, Echo
<1>3. CASE ~(opt.max - opt.overlap < opt.least)
  BY <1>1, <1>3 DEF Budget, Echo
<1> QED
  BY <1>2, <1>3

\* Adding sentences leads to a state of the cutting.
LEMMA SentencesKeepType ==
  ASSUME NEW V, NEW opt, NEW st \in Cutting(V), NEW ids \in Seq(V), NEW n \in Nat
  PROVE  AddSentences(opt, st, ids, n) \in Cutting(V)
<1> DEFINE open == IF st.len + n > Budget(opt) THEN Flush(st) ELSE st
<1>1. open \in Cutting(V)
  BY FlushKeepsType
<1>2. AddSentences(opt, st, ids, n) = [open EXCEPT !.body = open.body \o ids, !.len = open.len + n]
  BY DEF AddSentences
<1> HIDE DEF open
<1>3. open.body \o ids \in Seq(V) /\ open.len + n \in Nat
  BY <1>1 DEF Cutting
<1> QED
  BY <1>1, <1>2, <1>3 DEF Cutting

\* Sentences that fit, or one that does not, are read behind what was read.
LEMMA SentencesAreRead ==
  ASSUME NEW V, NEW opt \in PieceLimits, NEW st, NEW r, HasRead(V, Budget(opt), st, r),
         NEW ids \in Seq(V), NEW n \in Nat, n <= Budget(opt) \/ Len(ids) = 1, ids = <<>> => n = 0,
         NEW next \in Seq(V), Behind(next, r, ids)
  PROVE  HasRead(V, Budget(opt), AddSentences(opt, st, ids, n), next)
<1> DEFINE limit == Budget(opt)
           open == IF st.len + n > limit THEN Flush(st) ELSE st
           out == AddSentences(opt, st, ids, n)
<1>0. limit \in Nat /\ st.len \in Nat
  BY BudgetWithinMax DEF HasRead, Cutting
<1>1. /\ HasRead(V, limit, open, r)
      /\ open.len + n <= limit \/ (open.body = <<>> /\ open.len = 0)
  <2>1. CASE st.len + n > limit
    <3>1. HasRead(V, limit, Flush(st), r) /\ Flush(st).body = <<>> /\ Flush(st).len = 0
      BY <1>0, FlushReads
    <3> QED
      BY <2>1, <3>1
  <2>2. CASE ~(st.len + n > limit)
    BY <1>0, <2>2
  <2> QED
    BY <2>1, <2>2
<1>2. out \in Cutting(V)
  BY SentencesKeepType DEF HasRead
<1>3. out = [open EXCEPT !.body = open.body \o ids, !.len = open.len + n]
  BY DEF AddSentences
<1> HIDE DEF open, out
<1>4. /\ open \in Cutting(V) /\ r \in Seq(V) /\ Behind(r, TextOf(open.chunks), open.body)
      /\ open.body = <<>> => open.len = 0
      /\ \A c \in Range(open.chunks) : FitsIn(limit, c.body, c.len)
      /\ open.chunks \in Seq(Pieces(V)) /\ open.body \in Seq(V) /\ open.len \in Nat
  BY <1>1 DEF HasRead, Cutting
<1>5. out.chunks = open.chunks /\ Behind(out.body, open.body, ids) /\ out.len = open.len + n /\ out.body \in Seq(V)
  BY <1>3, <1>4 DEF Cutting, Behind
<1>6. TextOf(open.chunks) \in Seq(V)
  BY <1>4, TextJoins
<1>7. Behind(next, TextOf(open.chunks), out.body)
  BY <1>4, <1>5, <1>6, JoinedLater
<1>8. out.body = <<>> => open.body = <<>> /\ ids = <<>>
  <2>1. out.body \in Seq(V) /\ open.body \in Seq(V) /\ Behind(out.body, open.body, ids)
    BY <1>4, <1>5
  <2>2. out.body = <<>> <=> open.body = <<>> /\ ids = <<>>
    BY <2>1, NothingJoined
  <2> QED
    BY <2>2
<1>9. out.body = <<>> => out.len = 0
  BY <1>4, <1>5, <1>8
<1>10. FitsIn(limit, out.body, out.len)
  <2>1. CASE open.len + n <= limit
    BY <1>0, <1>4, <1>5, <2>1 DEF FitsIn
  <2>2. CASE open.body = <<>> /\ open.len = 0
    <3>1. out.len = n
      BY <1>5, <2>2
    <3>2. out.body = ids
      BY <1>5, <2>2, JoinedNothing DEF Behind
    <3> QED
      BY <1>0, <3>1, <3>2 DEF FitsIn
  <2> QED
    BY <1>1, <2>1, <2>2
<1> QED
  BY <1>2, <1>4, <1>5, <1>7, <1>9, <1>10 DEF HasRead, out

\* A sum of lengths is a number, and that of none is 0.
LEMMA TotalIsNumber ==
  ASSUME NEW l \in Seq(Nat)
  PROVE  Total(l) \in Nat /\ (l = <<>> => Total(l) = 0)
<1> DEFINE n == Len(l)
           h == [p \in (1..n) \X Nat |-> p[2] + l[p[1]]]
           Is(f) == f = [x \in SUBSET DOMAIN l |-> IF x = {} THEN 0 ELSE f[x \ {Max(x)}] + l[Max(x)]]
           iter == CHOOSE f : Is(f)
<1>0. DOMAIN l = 1..n /\ n \in Nat /\ \A k \in 1..n : l[k] \in Nat
  OBVIOUS
<1>1. h \in [(1..n) \X Nat -> Nat]
  BY <1>0
<1> HIDE DEF h
<1>3. PICK f \in [SUBSET (1..n) -> Nat] : FoldsUp(f, n, 0, h)
  BY <1>0, <1>1, SequenceFold
<1>4. \A x \in SUBSET (1..n) : x # {} => h[<<Max(x), f[x \ {Max(x)}]>>] = f[x \ {Max(x)}] + l[Max(x)]
  BY <1>0, GreatestOf DEF h
<1>5. Is(f)
  BY <1>0, <1>3, <1>4 DEF FoldsUp
<1> HIDE DEF Is
<1>6. Is(iter)
  BY <1>5
<1>7. Total(l) = iter[1..n]
  BY <1>0 DEF Total, FoldLeft, MapThenFoldSet, Is
<1> HIDE DEF iter
<1> DEFINE P == {k \in 0..n : iter[1..k] \in Nat}
<1>8. 0 \in P
  <2>1. 1..0 = {} /\ 1..0 \in SUBSET DOMAIN l
    BY <1>0
  <2>2. iter[1..0] = 0
    BY <1>6, <2>1 DEF Is
  <2> QED
    BY <1>0, <2>2
<1>12. l = <<>> => iter[1..n] = 0
  <2>1. 1..0 = {} /\ {} \in SUBSET DOMAIN l
    OBVIOUS
  <2>2. iter[{}] = 0
    BY <1>6, <2>1 DEF Is
  <2>3. l = <<>> => n = 0
    OBVIOUS
  <2> QED
    BY <2>1, <2>2, <2>3
<1>9. ASSUME NEW k \in 1..n, k - 1 \in P
      PROVE  k \in P
  <2>1. Max(1..k) = k /\ (1..k) \ {k} = 1..(k - 1) /\ 1..k \in SUBSET DOMAIN l /\ 1..k # {}
    BY <1>0, LastPosition
  <2>2. iter[1..k] = iter[1..(k - 1)] + l[k]
    BY <1>6, <2>1 DEF Is
  <2>3. iter[1..(k - 1)] \in Nat /\ l[k] \in Nat /\ k \in 0..n
    BY <1>0, <1>9
  <2>4. iter[1..k] \in Nat
    BY <2>2, <2>3
  <2> QED
    BY <2>3, <2>4
<1> HIDE DEF P
<1>10. \A k \in 0..n : k \in P
  BY <1>0, <1>8, <1>9, StepByStep
<1> QED
  BY <1>0, <1>7, <1>10, <1>12 DEF P

SentenceBySentence(opt, st, ids, p) ==
    FoldLeft(LAMBDA a, k : AddSentences(opt, a, <<ids[k]>>, p[k]), Flush(st), [k \in DOMAIN p |-> k])

SentenceLoop(acc, opt, st, ids, p) ==
    /\ acc[0] = Flush(st)
    /\ \A k \in 1..Len(p) : acc[k] = AddSentences(opt, acc[k - 1], <<ids[k]>>, p[k])
    /\ SentenceBySentence(opt, st, ids, p) = acc[Len(p)]

\* The states of the loop over the sentences of a paragraph.
LEMMA SentencesInTurn ==
  ASSUME NEW V, NEW opt, NEW st \in Cutting(V), NEW p \in Seq(Nat), NEW ids \in Seq(V), Len(ids) = Len(p)
  PROVE  \E acc \in [0..Len(p) -> Cutting(V)] : SentenceLoop(acc, opt, st, ids, p)
<1> DEFINE n == Len(p)
           C == Cutting(V)
           order == [k \in DOMAIN p |-> k]
           base == Flush(st)
           h == [q \in (1..n) \X C |-> AddSentences(opt, q[2], <<ids[q[1]]>>, p[q[1]])]
           Is(f) == f = [x \in SUBSET DOMAIN order |->
                           IF x = {} THEN base ELSE AddSentences(opt, f[x \ {Max(x)}], <<ids[order[Max(x)]]>>, p[order[Max(x)]])]
           iter == CHOOSE f : Is(f)
<1>0. DOMAIN p = 1..n /\ n \in Nat /\ (\A k \in 1..n : p[k] \in Nat /\ <<ids[k]>> \in Seq(V) /\ order[k] = k) /\ DOMAIN order = 1..n
  OBVIOUS
<1>1. h \in [(1..n) \X C -> C] /\ base \in C
  <2> HIDE DEF C
  <2>1. \A q \in (1..n) \X C : AddSentences(opt, q[2], <<ids[q[1]]>>, p[q[1]]) \in C
    BY <1>0, SentencesKeepType DEF C
  <2>2. base \in C
    BY FlushKeepsType DEF C
  <2> HIDE DEF base
  <2> QED
    BY <2>1, <2>2
<1> HIDE DEF h, C, order
<1>3. PICK f \in [SUBSET (1..n) -> C] : FoldsUp(f, n, base, h)
  <2> HIDE DEF base
  <2> QED
    BY <1>0, <1>1, SequenceFold
<1>4. \A x \in SUBSET (1..n) : x # {} =>
        h[<<Max(x), f[x \ {Max(x)}]>>] = AddSentences(opt, f[x \ {Max(x)}], <<ids[order[Max(x)]]>>, p[order[Max(x)]])
  <2> TAKE x \in SUBSET (1..n)
  <2> SUFFICES ASSUME x # {}
               PROVE  h[<<Max(x), f[x \ {Max(x)}]>>] = AddSentences(opt, f[x \ {Max(x)}], <<ids[order[Max(x)]]>>, p[order[Max(x)]])
    OBVIOUS
  <2>1. Max(x) \in 1..n /\ x \ {Max(x)} \in SUBSET (1..n)
    BY <1>0, GreatestOf
  <2>2. order[Max(x)] = Max(x) /\ f[x \ {Max(x)}] \in C
    BY <1>0, <2>1
  <2> QED
    BY <2>1, <2>2 DEF h
<1>5. Is(f)
  BY <1>0, <1>3, <1>4 DEF FoldsUp
<1> HIDE DEF Is
<1>6. Is(iter)
  BY <1>5
<1>7. SentenceBySentence(opt, st, ids, p) = iter[1..n]
  BY <1>0 DEF SentenceBySentence, FoldLeft, MapThenFoldSet, Is, order
<1> HIDE DEF iter, base
<1> DEFINE acc == [k \in 0..n |-> iter[1..k]]
<1>8. acc[0] = base /\ SentenceBySentence(opt, st, ids, p) = acc[n] /\ acc = [k \in 0..n |-> acc[k]]
  <2> HIDE DEF n
  <2>1. 1..0 = {} /\ 0 \in 0..n /\ n \in 0..n
    BY <1>0
  <2>2. iter[{}] = base
    BY <1>6 DEF Is
  <2> QED
    BY <1>7, <2>1, <2>2
<1>9. \A k \in 1..n : acc[k] = AddSentences(opt, acc[k - 1], <<ids[k]>>, p[k])
  <2> TAKE k \in 1..n
  <2>1. Max(1..k) = k /\ (1..k) \ {k} = 1..(k - 1) /\ 1..k \in SUBSET DOMAIN order /\ 1..k # {} /\ order[k] = k
    <3>1. order[k] = k /\ DOMAIN order = 1..n /\ n \in Nat
      BY <1>0
    <3>2. Max(1..k) = k /\ (1..k) \ {k} = 1..(k - 1) /\ 1..k \in SUBSET (1..n) /\ 1..k # {}
      <4>1. k \in Nat /\ k # 0 /\ 1..k \subseteq 1..n /\ k \in 1..k
        BY <3>1
      <4> QED
        BY <4>1, LastPosition
    <3> QED
      BY <3>1, <3>2
  <2>2. iter[1..k] = AddSentences(opt, iter[1..(k - 1)], <<ids[order[k]]>>, p[order[k]])
    BY <1>6, <2>1 DEF Is
  <2>3. acc[k] = iter[1..k] /\ acc[k - 1] = iter[1..(k - 1)]
    BY <1>0
  <2> QED
    BY <2>1, <2>2, <2>3
<1> HIDE DEF acc
<1> DEFINE P == {k \in 0..n : acc[k] \in C}
<1>10. \A k \in 0..n : k \in P
  <2>1. 0 \in P
    BY <1>0, <1>1, <1>8
  <2>2. ASSUME NEW k \in 1..n, k - 1 \in P
        PROVE  k \in P
    <3>1. acc[k] \in C
      <4>1. acc[k - 1] \in C /\ p[k] \in Nat /\ <<ids[k]>> \in Seq(V)
        BY <1>0, <2>2
      <4>2. AddSentences(opt, acc[k - 1], <<ids[k]>>, p[k]) \in C
        BY <4>1, SentencesKeepType DEF C
      <4> QED
        BY <1>9, <4>2
    <3> QED
      BY <1>0, <3>1
  <2> HIDE DEF P
  <2> QED
    BY <1>0, <2>1, <2>2, StepByStep
<1>11. acc \in [0..n -> C]
  BY <1>8, <1>10
<1> QED
  BY <1>8, <1>9, <1>11 DEF SentenceLoop, C, base

SentencePlaces == Nat \X Nat \X Nat
IdsOf(where, p) == [k \in DOMAIN p |-> <<where[1], where[2], k>>]

\* The places of a paragraph's sentences, one for each.
LEMMA IdsType ==
  ASSUME NEW where \in Nat \X Nat, NEW p \in Seq(Nat)
  PROVE  IdsOf(where, p) \in Seq(SentencePlaces) /\ Len(IdsOf(where, p)) = Len(p)
<1>1. DOMAIN p = 1..Len(p) /\ Len(p) \in Nat
  OBVIOUS
<1>2. \A k \in 1..Len(p) : <<where[1], where[2], k>> \in SentencePlaces
  BY <1>1 DEF SentencePlaces
<1>3. IdsOf(where, p) = [k \in 1..Len(p) |-> <<where[1], where[2], k>>]
  BY <1>1 DEF IdsOf
<1> HIDE DEF SentencePlaces
<1> QED
  BY <1>1, <1>2, <1>3

\* A paragraph is read behind what was read, however long it is.
LEMMA ParagraphIsRead ==
  ASSUME NEW opt \in PieceLimits, NEW st, NEW r, HasRead(SentencePlaces, Budget(opt), st, r),
         NEW where \in Nat \X Nat, NEW p \in Seq(Nat),
         NEW next \in Seq(SentencePlaces), Behind(next, r, IdsOf(where, p))
  PROVE  HasRead(SentencePlaces, Budget(opt), AddParagraph(opt, st, where, p), next)
<1> DEFINE V == SentencePlaces
           limit == Budget(opt)
           ids == IdsOf(where, p)
           n == Len(p)
<1>1. limit \in Nat /\ Total(p) \in Nat /\ (p = <<>> => Total(p) = 0) /\ ids \in Seq(V) /\ Len(ids) = n
  BY BudgetWithinMax, TotalIsNumber, IdsType
<1>2. /\ Total(p) > limit => AddParagraph(opt, st, where, p) = SentenceBySentence(opt, st, ids, p)
      /\ ~(Total(p) > limit) => AddParagraph(opt, st, where, p) = AddSentences(opt, st, ids, Total(p))
  BY DEF AddParagraph, SentenceBySentence, IdsOf
<1>3. r \in Seq(V) /\ st \in Cutting(V)
  BY DEF HasRead
<1> HIDE DEF V, ids
<1>4. CASE ~(Total(p) > limit)
  <2>1. Total(p) <= limit
    BY <1>1, <1>4
  <2>2. ids = <<>> => Total(p) = 0
    <3>1. ids = <<>> => Len(p) = 0
      BY <1>1
    <3>2. Len(p) = 0 => p = <<>>
      OBVIOUS
    <3> QED
      BY <1>1, <3>1, <3>2
  <2>3. HasRead(V, limit, AddSentences(opt, st, ids, Total(p)), next)
    <3>1. next \in Seq(V) /\ HasRead(V, Budget(opt), st, r) /\ Behind(next, r, ids)
      BY DEF V, ids
    <3> QED
      BY <1>1, <2>1, <2>2, <3>1, SentencesAreRead
  <2> QED
    BY <1>2, <1>4, <2>3 DEF V
<1>5. CASE Total(p) > limit
  <2>1. PICK acc \in [0..n -> Cutting(V)] : SentenceLoop(acc, opt, st, ids, p)
    BY <1>1, <1>3, SentencesInTurn
  <2>2. /\ acc[0] = Flush(st) /\ SentenceBySentence(opt, st, ids, p) = acc[n]
        /\ \A k \in 1..n : acc[k] = AddSentences(opt, acc[k - 1], <<ids[k]>>, p[k])
    BY <2>1 DEF SentenceLoop
  <2> DEFINE begun == [k \in 0..n |-> SubSeq(ids, 1, k)]
             upto == [k \in 0..n |-> r \o SubSeq(ids, 1, k)]
             P == {k \in 0..n : HasRead(V, limit, acc[k], upto[k])}
  <2>3. /\ n \in Nat /\ \A k \in 0..n : begun[k] \in Seq(V) /\ upto[k] \in Seq(V) /\ Behind(upto[k], r, begun[k])
        /\ \A k \in 1..n : k - 1 \in 0..n /\ k \in 0..n /\ <<ids[k]>> \in Seq(V) /\ p[k] \in Nat /\ Len(<<ids[k]>>) = 1
                           /\ <<ids[k]>> # <<>>
    <3>1. n \in Nat
      OBVIOUS
    <3>2. ASSUME NEW k \in 0..n
          PROVE  begun[k] \in Seq(V) /\ upto[k] \in Seq(V) /\ Behind(upto[k], r, begun[k])
      <4>1. SubSeq(ids, 1, k) \in Seq(V)
        BY <1>1, <3>1
      <4>2. begun[k] = SubSeq(ids, 1, k) /\ upto[k] = r \o begun[k]
        OBVIOUS
      <4> HIDE DEF begun, upto
      <4> QED
        BY <1>3, <4>1, <4>2 DEF Behind
    <3>3. ASSUME NEW k \in 1..n
          PROVE  k - 1 \in 0..n /\ k \in 0..n /\ <<ids[k]>> \in Seq(V) /\ p[k] \in Nat /\ Len(<<ids[k]>>) = 1 /\ <<ids[k]>> # <<>>
      <4>1. ids[k] \in V
        BY <1>1, <3>1
      <4> QED
        BY <3>1, <4>1
    <3> QED
      BY <3>1, <3>2, <3>3
  <2>4. \A k \in 1..n : Behind(begun[k], begun[k - 1], <<ids[k]>>)
    <3> TAKE k \in 1..n
    <3>1. k \in 1..Len(ids) /\ begun[k] = SubSeq(ids, 1, k) /\ begun[k - 1] = SubSeq(ids, 1, k - 1)
      BY <1>1, <2>3
    <3> HIDE DEF begun
    <3> QED
      BY <1>1, <3>1, NextBeginning
  <2>5. upto[0] = r /\ upto[n] = next
    <3>1. begun[0] = <<>> /\ begun[n] = ids
      BY <1>1, <2>3
    <3> HIDE DEF upto, begun
    <3>2. Behind(upto[0], r, <<>>) /\ Behind(upto[n], r, ids)
      <4>1. 0 \in 0..n /\ n \in 0..n
        BY <2>3
      <4>2. Behind(upto[0], r, begun[0]) /\ Behind(upto[n], r, begun[n])
        BY <2>3, <4>1
      <4> QED
        BY <3>1, <4>2
    <3>3. upto[0] = r
      BY <1>3, <3>2, JoinedNothing DEF Behind
    <3>4. upto[n] = next
      BY <3>2 DEF Behind, ids
    <3> QED
      BY <3>3, <3>4
  <2> HIDE DEF begun, upto
  <2>6. 0 \in P
    <3>1. HasRead(V, limit, Flush(st), r)
      BY <1>1, FlushReads DEF V
    <3> QED
      BY <2>2, <2>3, <2>5, <3>1
  <2>7. ASSUME NEW k \in 1..n, k - 1 \in P
        PROVE  k \in P
    <3>1. HasRead(V, limit, acc[k - 1], upto[k - 1])
      BY <2>7
    <3>2. Behind(upto[k], upto[k - 1], <<ids[k]>>)
      <4>1. Behind(upto[k], r, begun[k]) /\ Behind(upto[k - 1], r, begun[k - 1]) /\ Behind(begun[k], begun[k - 1], <<ids[k]>>)
        BY <2>3, <2>4
      <4>2. r \in Seq(V) /\ begun[k - 1] \in Seq(V) /\ <<ids[k]>> \in Seq(V)
        BY <1>3, <2>3
      <4> DEFINE b == begun[k]
                 c == begun[k - 1]
                 id == <<ids[k]>>
                 u == upto[k]
                 w == upto[k - 1]
      <4>3. Behind(u, r, b) /\ Behind(w, r, c) /\ Behind(b, c, id) /\ r \in Seq(V) /\ c \in Seq(V) /\ id \in Seq(V)
        BY <4>1, <4>2
      <4> HIDE DEF b, c, id, u, w
      <4>4. Behind(u, w, id)
        BY <4>3, JoinedEarlier
      <4> QED
        BY <4>4 DEF u, w, id
    <3>3. /\ <<ids[k]>> \in Seq(V) /\ p[k] \in Nat /\ Len(<<ids[k]>>) = 1 /\ <<ids[k]>> # <<>> /\ upto[k] \in Seq(V)
          /\ acc[k] = AddSentences(opt, acc[k - 1], <<ids[k]>>, p[k])
      BY <2>2, <2>3
    <3> DEFINE id == <<ids[k]>>
               old == acc[k - 1]
    <3>4. HasRead(V, Budget(opt), old, upto[k - 1]) /\ id \in Seq(V) /\ p[k] \in Nat /\ Len(id) = 1 /\ id # <<>>
          /\ upto[k] \in Seq(V) /\ Behind(upto[k], upto[k - 1], id) /\ acc[k] = AddSentences(opt, old, id, p[k])
      BY <3>1, <3>2, <3>3
    <3> HIDE DEF id, old
    <3>5. HasRead(V, limit, AddSentences(opt, old, id, p[k]), upto[k])
      BY <3>4, SentencesAreRead
    <3> QED
      BY <2>3, <3>4, <3>5
  <2> HIDE DEF P
  <2>8. \A k \in 0..n : k \in P
    BY <2>3, <2>6, <2>7, StepByStep
  <2>9. HasRead(V, limit, acc[n], next)
    BY <2>3, <2>5, <2>8 DEF P
  <2> QED
    BY <1>2, <1>5, <2>2, <2>9 DEF V
<1> QED
  BY <1>4, <1>5

\* Adding a paragraph leads to a state of the cutting.
LEMMA ParagraphKeepsType ==
  ASSUME NEW opt, NEW st \in Cutting(SentencePlaces), NEW where \in Nat \X Nat, NEW p \in Seq(Nat)
  PROVE  AddParagraph(opt, st, where, p) \in Cutting(SentencePlaces)
<1> DEFINE V == SentencePlaces
           ids == IdsOf(where, p)
<1>1. Total(p) \in Nat /\ ids \in Seq(V) /\ Len(ids) = Len(p)
  BY TotalIsNumber, IdsType
<1>2. \/ AddParagraph(opt, st, where, p) = SentenceBySentence(opt, st, ids, p)
      \/ AddParagraph(opt, st, where, p) = AddSentences(opt, st, ids, Total(p))
  BY DEF AddParagraph, SentenceBySentence, IdsOf
<1> HIDE DEF ids, V
<1>3. AddSentences(opt, st, ids, Total(p)) \in Cutting(V)
  BY <1>1, SentencesKeepType DEF V
<1>4. SentenceBySentence(opt, st, ids, p) \in Cutting(V)
  <2>1. PICK acc \in [0..Len(p) -> Cutting(V)] : SentenceLoop(acc, opt, st, ids, p)
    BY <1>1, SentencesInTurn DEF V
  <2>2. Len(p) \in 0..Len(p)
    OBVIOUS
  <2> QED
    BY <2>1, <2>2 DEF SentenceLoop
<1> QED
  BY <1>2, <1>3, <1>4 DEF V

ParagraphByParagraph(opt, s, section) ==
    FoldLeft(LAMBDA a, k : AddParagraph(opt, a, <<s, k>>, section[k]), Empty, [k \in DOMAIN section |-> k])

ParagraphLoop(acc, opt, s, section) ==
    /\ acc[0] = Empty
    /\ \A k \in 1..Len(section) : acc[k] = AddParagraph(opt, acc[k - 1], <<s, k>>, section[k])
    /\ ParagraphByParagraph(opt, s, section) = acc[Len(section)]

\* The states of the loop over the paragraphs of a section.
LEMMA ParagraphsInTurn ==
  ASSUME NEW opt, NEW s \in Nat, NEW section \in Seq(Seq(Nat))
  PROVE  \E acc \in [0..Len(section) -> Cutting(SentencePlaces)] : ParagraphLoop(acc, opt, s, section)
<1> DEFINE n == Len(section)
           C == Cutting(SentencePlaces)
           order == [k \in DOMAIN section |-> k]
           h == [q \in (1..n) \X C |-> AddParagraph(opt, q[2], <<s, q[1]>>, section[q[1]])]
           Is(f) == f = [x \in SUBSET DOMAIN order |->
                           IF x = {} THEN Empty ELSE AddParagraph(opt, f[x \ {Max(x)}], <<s, order[Max(x)]>>, section[order[Max(x)]])]
           iter == CHOOSE f : Is(f)
<1>0. DOMAIN section = 1..n /\ n \in Nat /\ (\A k \in 1..n : section[k] \in Seq(Nat) /\ <<s, k>> \in Nat \X Nat /\ order[k] = k)
      /\ DOMAIN order = 1..n
  OBVIOUS
<1>1. h \in [(1..n) \X C -> C] /\ Empty \in C
  <2>1. Empty \in C
    <3>1. <<>> \in Seq(Pieces(SentencePlaces)) /\ <<>> \in Seq(SentencePlaces)
      OBVIOUS
    <3> QED
      BY <3>1 DEF Cutting, Empty
  <2> HIDE DEF C
  <2>2. \A q \in (1..n) \X C : AddParagraph(opt, q[2], <<s, q[1]>>, section[q[1]]) \in C
    BY <1>0, ParagraphKeepsType DEF C
  <2> QED
    BY <2>1, <2>2
<1> HIDE DEF h, C, order
<1>3. PICK f \in [SUBSET (1..n) -> C] : FoldsUp(f, n, Empty, h)
  BY <1>0, <1>1, SequenceFold
<1>4. \A x \in SUBSET (1..n) : x # {} =>
        h[<<Max(x), f[x \ {Max(x)}]>>] = AddParagraph(opt, f[x \ {Max(x)}], <<s, order[Max(x)]>>, section[order[Max(x)]])
  <2> TAKE x \in SUBSET (1..n)
  <2> SUFFICES ASSUME x # {}
               PROVE  h[<<Max(x), f[x \ {Max(x)}]>>] = AddParagraph(opt, f[x \ {Max(x)}], <<s, order[Max(x)]>>, section[order[Max(x)]])
    OBVIOUS
  <2>1. Max(x) \in 1..n /\ x \ {Max(x)} \in SUBSET (1..n)
    BY <1>0, GreatestOf
  <2>2. order[Max(x)] = Max(x) /\ f[x \ {Max(x)}] \in C
    BY <1>0, <2>1
  <2> QED
    BY <2>1, <2>2 DEF h
<1>5. Is(f)
  BY <1>0, <1>3, <1>4 DEF FoldsUp
<1> HIDE DEF Is
<1>6. Is(iter)
  BY <1>5
<1>7. ParagraphByParagraph(opt, s, section) = iter[1..n]
  BY <1>0 DEF ParagraphByParagraph, FoldLeft, MapThenFoldSet, Is, order
<1> HIDE DEF iter
<1> DEFINE acc == [k \in 0..n |-> iter[1..k]]
<1>8. acc[0] = Empty /\ ParagraphByParagraph(opt, s, section) = acc[n] /\ acc = [k \in 0..n |-> acc[k]]
  <2> HIDE DEF n
  <2>1. 1..0 = {} /\ 0 \in 0..n /\ n \in 0..n
    BY <1>0
  <2>2. iter[{}] = Empty
    BY <1>6 DEF Is
  <2> QED
    BY <1>7, <2>1, <2>2
<1>9. \A k \in 1..n : acc[k] = AddParagraph(opt, acc[k - 1], <<s, k>>, section[k])
  <2> TAKE k \in 1..n
  <2>1. Max(1..k) = k /\ (1..k) \ {k} = 1..(k - 1) /\ 1..k \in SUBSET DOMAIN order /\ 1..k # {} /\ order[k] = k
    <3>1. order[k] = k /\ DOMAIN order = 1..n /\ n \in Nat
      BY <1>0
    <3>2. Max(1..k) = k /\ (1..k) \ {k} = 1..(k - 1) /\ 1..k \in SUBSET (1..n) /\ 1..k # {}
      <4>1. k \in Nat /\ k # 0 /\ 1..k \subseteq 1..n /\ k \in 1..k
        BY <3>1
      <4> QED
        BY <4>1, LastPosition
    <3> QED
      BY <3>1, <3>2
  <2>2. iter[1..k] = AddParagraph(opt, iter[1..(k - 1)], <<s, order[k]>>, section[order[k]])
    BY <1>6, <2>1 DEF Is
  <2>3. acc[k] = iter[1..k] /\ acc[k - 1] = iter[1..(k - 1)]
    BY <1>0
  <2> QED
    BY <2>1, <2>2, <2>3
<1> HIDE DEF acc
<1> DEFINE P == {k \in 0..n : acc[k] \in C}
<1>10. \A k \in 0..n : k \in P
  <2>1. 0 \in P
    BY <1>0, <1>1, <1>8
  <2>2. ASSUME NEW k \in 1..n, k - 1 \in P
        PROVE  k \in P
    <3>1. acc[k] \in C
      <4>1. acc[k - 1] \in C /\ section[k] \in Seq(Nat) /\ <<s, k>> \in Nat \X Nat
        BY <1>0, <2>2
      <4>2. AddParagraph(opt, acc[k - 1], <<s, k>>, section[k]) \in C
        BY <4>1, ParagraphKeepsType DEF C
      <4> QED
        BY <1>9, <4>2
    <3> QED
      BY <1>0, <3>1
  <2> HIDE DEF P
  <2> QED
    BY <1>0, <2>1, <2>2, StepByStep
<1>11. acc \in [0..n -> C]
  BY <1>8, <1>10
<1> QED
  BY <1>8, <1>9, <1>11 DEF ParagraphLoop, C

\* The sentences of a section, paragraph by paragraph.
SectionIds(s, section) == [k \in DOMAIN section |-> [j \in DOMAIN section[k] |-> <<s, k, j>>]]

\* The places of a section's sentences, by paragraph.
LEMMA SectionIdsType ==
  ASSUME NEW s \in Nat, NEW section \in Seq(Seq(Nat))
  PROVE  /\ SectionIds(s, section) \in Seq(Seq(SentencePlaces)) /\ Len(SectionIds(s, section)) = Len(section)
         /\ \A k \in 1..Len(section) : SectionIds(s, section)[k] = IdsOf(<<s, k>>, section[k])
<1>1. DOMAIN section = 1..Len(section) /\ Len(section) \in Nat
  OBVIOUS
<1>2. \A k \in 1..Len(section) : section[k] \in Seq(Nat) /\ <<s, k>> \in Nat \X Nat
  BY <1>1
<1>3. \A k \in 1..Len(section) : IdsOf(<<s, k>>, section[k]) \in Seq(SentencePlaces)
  BY <1>2, IdsType
<1>4. \A k \in 1..Len(section) : IdsOf(<<s, k>>, section[k]) = [j \in DOMAIN section[k] |-> <<s, k, j>>]
  BY DEF IdsOf
<1>5. SectionIds(s, section) = [k \in 1..Len(section) |-> IdsOf(<<s, k>>, section[k])]
  BY <1>1, <1>4 DEF SectionIds
<1> QED
  BY <1>1, <1>3, <1>5

\* A section that is too long is read as a whole, in pieces that fit.
LEMMA LongSectionIsRead ==
  ASSUME NEW opt \in PieceLimits, NEW s \in Nat, NEW section \in Seq(Seq(Nat)),
         NEW cut, cut = Flush(ParagraphByParagraph(opt, s, section)).chunks
  PROVE  /\ cut \in Seq(Pieces(SentencePlaces)) /\ TextOf(cut) = FlattenSeq(SectionIds(s, section))
         /\ \A c \in Range(cut) : FitsIn(Budget(opt), c.body, c.len)
<1> DEFINE V == SentencePlaces
           limit == Budget(opt)
           seqs == SectionIds(s, section)
           n == Len(section)
<1>1. /\ limit \in Nat /\ n \in Nat /\ seqs \in Seq(Seq(V)) /\ Len(seqs) = n
      /\ \A k \in 1..n : seqs[k] = IdsOf(<<s, k>>, section[k]) /\ section[k] \in Seq(Nat) /\ <<s, k>> \in Nat \X Nat
  <2>1. n \in Nat /\ \A k \in 1..n : section[k] \in Seq(Nat) /\ <<s, k>> \in Nat \X Nat
    OBVIOUS
  <2>2. limit \in Nat
    BY BudgetWithinMax
  <2>3. seqs \in Seq(Seq(V)) /\ Len(seqs) = n /\ \A k \in 1..n : seqs[k] = IdsOf(<<s, k>>, section[k])
    BY SectionIdsType
  <2> QED
    BY <2>1, <2>2, <2>3
<1> HIDE DEF seqs, V
<1>2. PICK flat \in [0..n -> Seq(V)] : FlatLoop(flat, seqs)
  <2>1. \E flat \in [0..Len(seqs) -> Seq(V)] : FlatLoop(flat, seqs)
    BY <1>1, FlatSteps
  <2> QED
    BY <1>1, <2>1
<1>3. PICK acc \in [0..n -> Cutting(V)] : ParagraphLoop(acc, opt, s, section)
  BY ParagraphsInTurn DEF V
<1>4. /\ flat[0] = <<>> /\ FlattenSeq(seqs) = flat[n]
      /\ \A k \in 1..n : Behind(flat[k], flat[k - 1], IdsOf(<<s, k>>, section[k]))
  BY <1>1, <1>2 DEF FlatLoop, Behind
<1>5. /\ acc[0] = Empty /\ ParagraphByParagraph(opt, s, section) = acc[n]
      /\ \A k \in 1..n : acc[k] = AddParagraph(opt, acc[k - 1], <<s, k>>, section[k])
  BY <1>3 DEF ParagraphLoop
<1> HIDE DEF n
<1> DEFINE P == {k \in 0..n : HasRead(V, limit, acc[k], flat[k])}
<1>6. 0 \in P
  <2>1. TextOf(<<>>) = <<>>
    BY DEF TextOf, BodiesOf, FlattenSeq
  <2>2. acc[0] \in Cutting(V) /\ <<>> \in Seq(V)
    BY <1>1, <1>3
  <2>3. Behind(<<>>, <<>>, <<>>)
    <3>1. <<>> \in Seq(V)
      OBVIOUS
    <3> QED
      BY <3>1, JoinedNothing DEF Behind
  <2>4. \A c \in Range(<<>>) : FitsIn(limit, c.body, c.len)
    BY DEF Range
  <2>5. acc[0].chunks = <<>> /\ acc[0].body = <<>> /\ acc[0].len = 0
    BY <1>5 DEF Empty
  <2>6. FitsIn(limit, <<>>, 0)
    BY <1>1 DEF FitsIn
  <2>7. HasRead(V, limit, acc[0], <<>>)
    BY <2>1, <2>2, <2>3, <2>4, <2>5, <2>6 DEF HasRead
  <2> QED
    BY <1>1, <1>4, <2>7
<1>7. ASSUME NEW k \in 1..n, k - 1 \in P
      PROVE  k \in P
  <2>1. k \in 0..n /\ k - 1 \in 0..n /\ flat[k] \in Seq(V)
    BY <1>1, <1>2
  <2>2. HasRead(V, Budget(opt), acc[k - 1], flat[k - 1]) /\ Behind(flat[k], flat[k - 1], IdsOf(<<s, k>>, section[k]))
    BY <1>4, <1>7
  <2>3. section[k] \in Seq(Nat) /\ <<s, k>> \in Nat \X Nat
    BY <1>1
  <2>4. HasRead(V, limit, AddParagraph(opt, acc[k - 1], <<s, k>>, section[k]), flat[k])
    BY <2>1, <2>2, <2>3, ParagraphIsRead DEF V
  <2> QED
    BY <1>5, <2>1, <2>4
<1> HIDE DEF P
<1>8. \A k \in 0..n : k \in P
  BY <1>1, <1>6, <1>7, StepByStep
<1>9. HasRead(V, limit, acc[n], flat[n])
  BY <1>1, <1>8 DEF P
<1> DEFINE last == Flush(acc[n])
<1>10. HasRead(V, limit, last, flat[n]) /\ last.body = <<>>
  BY <1>1, <1>9, FlushReads
<1>11. cut = last.chunks
  BY <1>5
<1> HIDE DEF last
<1>12. /\ cut \in Seq(Pieces(V)) /\ Behind(flat[n], TextOf(cut), <<>>)
       /\ \A c \in Range(cut) : FitsIn(limit, c.body, c.len)
  BY <1>10, <1>11 DEF HasRead, Cutting
<1>13. TextOf(cut) = flat[n]
  <2>1. TextOf(cut) \in Seq(V)
    BY <1>12, TextJoins
  <2> QED
    BY <1>12, <2>1, JoinedNothing DEF Behind
<1> QED
  BY <1>4, <1>12, <1>13 DEF seqs, V

\* A tail put in front makes a piece too long only if it was too long for the budget.
LEMMA EchoedLen ==
  ASSUME NEW limit \in Nat, NEW echo \in Nat, NEW max \in Nat, limit + echo <= max,
         NEW len \in Nat, NEW before \in Nat
  PROVE  /\ len + Least(echo, before) \in Nat
         /\ len + Least(echo, before) > max => len > limit
<1>1. Least(echo, before) \in Nat /\ Least(echo, before) <= echo
  BY DEF Least
<1> QED
  BY <1>1

\* Every section is read as a whole, in pieces that fit.
LEMMA SectionIsRead ==
  ASSUME NEW opt \in PieceLimits, NEW s \in Nat, NEW section \in Seq(Seq(Nat)),
         NEW out, out = SplitOversized(opt, s, section)
  PROVE  /\ out \in Seq(Pieces(SentencePlaces)) /\ TextOf(out) = FlattenSeq(SectionIds(s, section))
         /\ \A k \in 1..Len(out) : FitsIn(opt.max, out[k].body, out[k].len)
<1> DEFINE V == SentencePlaces
           whole == Total([k \in DOMAIN section |-> Total(section[k])])
           cut == Flush(ParagraphByParagraph(opt, s, section)).chunks
           Tail1(k) == IF k = 1 THEN 0 ELSE Least(Echo(opt), cut[k - 1].len)
           all == FlattenSeq(SectionIds(s, section))
<1>1. out = IF whole <= opt.max THEN <<[body |-> all, len |-> whole]>>
            ELSE [k \in DOMAIN cut |-> [cut[k] EXCEPT !.len = @ + Tail1(k)]]
  BY DEF SplitOversized, ParagraphByParagraph, SectionIds
<1>2. whole \in Nat /\ opt.max \in Nat
  <2>1. \A k \in DOMAIN section : Total(section[k]) \in Nat
    <3> TAKE k \in DOMAIN section
    <3>1. section[k] \in Seq(Nat)
      OBVIOUS
    <3> QED
      BY <3>1, TotalIsNumber
  <2> DEFINE lens == [k \in DOMAIN section |-> Total(section[k])]
  <2>2. lens \in Seq(Nat)
    <3>1. DOMAIN section = 1..Len(section) /\ Len(section) \in Nat
      OBVIOUS
    <3> QED
      BY <2>1, <3>1
  <2> HIDE DEF lens
  <2>3. Total(lens) \in Nat
    BY <2>2, TotalIsNumber
  <2> QED
    BY <2>3 DEF lens, PieceLimits
<1>3. all \in Seq(V)
  <2>1. SectionIds(s, section) \in Seq(Seq(V)) /\ <<>> \in Seq(Seq(V))
    BY SectionIdsType
  <2> QED
    BY <2>1, FlatOfJoined
<1>4. CASE whole <= opt.max
  <2> DEFINE c == [body |-> all, len |-> whole]
  <2>1. c \in Pieces(V) /\ c.body = all /\ c.len = whole
    BY <1>2, <1>3 DEF Pieces
  <2>2. out = <<c>>
    BY <1>1, <1>4
  <2> HIDE DEF c, whole, all, V
  <2>3. out \in Seq(Pieces(V)) /\ Len(out) = 1 /\ out[1] = c
    BY <2>1, <2>2
  <2>4. TextOf(out) = all
    <3>1. TextOf(<<c>>) = c.body
      <4>1. <<>> \in Seq(Pieces(V))
        OBVIOUS
      <4> QED
        BY <2>1, <4>1, TextOfFew
    <3> QED
      BY <2>1, <2>2, <3>1
  <2>5. \A k \in 1..Len(out) : FitsIn(opt.max, out[k].body, out[k].len)
    BY <1>2, <1>4, <2>1, <2>3 DEF FitsIn
  <2> QED
    BY <2>3, <2>4, <2>5 DEF all, V
<1>5. CASE ~(whole <= opt.max)
  <2>1. /\ cut \in Seq(Pieces(V)) /\ TextOf(cut) = all
        /\ \A c \in Range(cut) : FitsIn(Budget(opt), c.body, c.len)
    BY LongSectionIsRead
  <2>2. out = [k \in DOMAIN cut |-> [cut[k] EXCEPT !.len = @ + Tail1(k)]]
    BY <1>1, <1>5
  <2> HIDE DEF cut, all, V, whole
  <2>3. /\ DOMAIN cut = 1..Len(cut) /\ Len(cut) \in Nat
        /\ \A k \in 1..Len(cut) : cut[k] \in Pieces(V) /\ cut[k] \in Range(cut)
    BY <2>1 DEF Range
  <2>4. ASSUME NEW k \in 1..Len(cut)
        PROVE  /\ [cut[k] EXCEPT !.len = @ + Tail1(k)] \in Pieces(V)
               /\ [cut[k] EXCEPT !.len = @ + Tail1(k)].body = cut[k].body
               /\ FitsIn(opt.max, cut[k].body, [cut[k] EXCEPT !.len = @ + Tail1(k)].len)
    <3>1. /\ Budget(opt) \in Nat /\ Echo(opt) \in Nat /\ Budget(opt) + Echo(opt) <= opt.max
      BY BudgetWithinMax
    <3>2. cut[k].len \in Nat /\ cut[k].body \in Seq(V) /\ cut[k] \in Pieces(V)
      BY <2>3 DEF Pieces
    <3> DEFINE new == cut[k].len + Tail1(k)
    <3>3. new \in Nat /\ (new > opt.max => cut[k].len > Budget(opt))
      <4>1. CASE k = 1
        <5>1. new = cut[k].len
          BY <3>2, <4>1
        <5> QED
          BY <1>2, <3>1, <3>2, <5>1
      <4>2. CASE k # 1
        <5>1. k - 1 \in 1..Len(cut)
          BY <2>3, <4>2
        <5>2. cut[k - 1].len \in Nat
          BY <2>3, <5>1 DEF Pieces
        <5>3. new = cut[k].len + Least(Echo(opt), cut[k - 1].len)
          BY <4>2
        <5> HIDE DEF new
        <5> QED
          BY <1>2, <3>1, <3>2, <5>2, <5>3, EchoedLen
      <4> QED
        BY <4>1, <4>2
    <3>4. [cut[k] EXCEPT !.len = @ + Tail1(k)] = [body |-> cut[k].body, len |-> new]
      BY <3>2 DEF Pieces
    <3> HIDE DEF new, Tail1
    <3>5. FitsIn(opt.max, cut[k].body, new)
      BY <2>1, <2>3, <3>3 DEF FitsIn
    <3> QED
      BY <3>2, <3>3, <3>4, <3>5 DEF Pieces
  <2> HIDE DEF Tail1
  <2>5. /\ out \in Seq(Pieces(V)) /\ Len(out) = Len(cut)
        /\ \A k \in 1..Len(cut) : out[k] = [cut[k] EXCEPT !.len = @ + Tail1(k)]
    <3> DEFINE new == [k \in 1..Len(cut) |-> [cut[k] EXCEPT !.len = @ + Tail1(k)]]
    <3>1. out = new
      BY <2>2, <2>3
    <3>2. \A k \in 1..Len(cut) : [cut[k] EXCEPT !.len = @ + Tail1(k)] \in Pieces(V)
      BY <2>4
    <3>3. new \in [1..Len(cut) -> Pieces(V)]
      BY <3>2
    <3>4. \A k \in 1..Len(cut) : new[k] = [cut[k] EXCEPT !.len = @ + Tail1(k)]
      OBVIOUS
    <3> HIDE DEF new
    <3>5. new \in Seq(Pieces(V)) /\ Len(new) = Len(cut)
      BY <2>3, <3>3
    <3> QED
      BY <3>1, <3>4, <3>5
  <2>6. \A k \in 1..Len(cut) : out[k].body = cut[k].body /\ FitsIn(opt.max, out[k].body, out[k].len)
    BY <2>4, <2>5
  <2>7. BodiesOf(out) = BodiesOf(cut)
    <3>1. BodiesOf(cut) = [k \in 1..Len(cut) |-> cut[k].body]
      BY <2>3 DEF BodiesOf
    <3>2. BodiesOf(out) = [k \in 1..Len(cut) |-> out[k].body]
      BY <2>3, <2>5 DEF BodiesOf
    <3> QED
      BY <2>6, <3>1, <3>2
  <2>8. TextOf(out) = all
    BY <2>1, <2>7 DEF TextOf
  <2> QED
    BY <2>5, <2>6, <2>8 DEF all, V
<1> QED
  BY <1>4, <1>5

\* One piece more: a small one goes into the piece before it.
MergeInto(opt, m, c) ==
    IF c.len < opt.min /\ m # <<>> THEN Append(Front(m), Glue(Last(m), c)) ELSE Append(m, c)

\* What is left of a list without its first two elements.
LEMMA AllButTwo ==
  ASSUME NEW V, NEW l \in Seq(V), NEW n, n = Len(l), n >= 2
  PROVE  /\ Len(SubSeq(l, 3, n)) = n - 2
         /\ \A k \in 1..(n - 2) : SubSeq(l, 3, n)[k] = l[2 + k]
<1>1. n \in Nat
  OBVIOUS
<1>2. Len(SubSeq(l, 3, n)) = n - 2
  <2>1. CASE n = 2
    <3>1. SubSeq(l, 3, n) = <<>>
      BY <2>1
    <3> QED
      BY <2>1, <3>1
  <2>2. CASE n >= 3
    BY <1>1, <2>2
  <2> QED
    BY <1>1, <2>1, <2>2
<1>3. ASSUME NEW k \in 1..(n - 2)
      PROVE  SubSeq(l, 3, n)[k] = l[2 + k]
  <2>1. k \in 1..(n - 3 + 1) /\ (k + 3) - 1 = 2 + k
    BY <1>1
  <2>2. SubSeq(l, 3, n)[k] = l[(k + 3) - 1]
    BY <1>1, <2>1
  <2> QED
    BY <2>1, <2>2
<1> QED
  BY <1>2, <1>3

\* Two pieces joined have the text of both.
LEMMA GluedPieces ==
  ASSUME NEW V, NEW p \in Pieces(V), NEW q \in Pieces(V)
  PROVE  Glue(p, q) \in Pieces(V) /\ Behind(Glue(p, q).body, p.body, q.body)
BY DEF Glue, Pieces, Behind

\* A step of the joining keeps the text read so far and adds that of the piece.
LEMMA MergeIntoSays ==
  ASSUME NEW V, NEW opt, NEW m \in Seq(Pieces(V)), NEW c \in Pieces(V), NEW next, next = MergeInto(opt, m, c)
  PROVE  next \in Seq(Pieces(V)) /\ Behind(TextOf(next), TextOf(m), c.body)
<1>1. CASE ~(c.len < opt.min /\ m # <<>>)
  <2>1. next = Append(m, c)
    BY <1>1 DEF MergeInto
  <2>2. Append(m, c) \in Seq(Pieces(V))
    OBVIOUS
  <2>3. Behind(TextOf(Append(m, c)), TextOf(m), c.body)
    BY TextOfFew
  <2> QED
    BY <2>1, <2>2, <2>3
<1>2. CASE c.len < opt.min /\ m # <<>>
  <2> DEFINE n == Len(m)
             before == Front(m)
             last == Last(m)
             glued == Glue(last, c)
  <2>1. /\ n \in Nat /\ n >= 1 /\ before \in Seq(Pieces(V)) /\ last \in Pieces(V) /\ m = Append(before, last)
    BY <1>2 DEF Front, Last
  <2>2. glued \in Pieces(V) /\ Behind(glued.body, last.body, c.body)
    BY <2>1, GluedPieces
  <2>3. next = Append(before, glued)
    BY <1>2 DEF MergeInto
  <2> HIDE DEF n, before, last, glued
  <2>4. Behind(TextOf(m), TextOf(before), last.body)
    BY <2>1, TextOfFew
  <2>5. Behind(TextOf(next), TextOf(before), glued.body) /\ next \in Seq(Pieces(V))
    <3>1. Append(before, glued) \in Seq(Pieces(V))
      BY <2>1, <2>2
    <3>2. Behind(TextOf(Append(before, glued)), TextOf(before), glued.body)
      BY <2>1, <2>2, TextOfFew
    <3> QED
      BY <2>3, <3>1, <3>2
  <2>6. TextOf(before) \in Seq(V) /\ last.body \in Seq(V) /\ c.body \in Seq(V)
    BY <2>1, TextJoins DEF Pieces
  <2>7. Behind(TextOf(next), TextOf(m), c.body)
    BY <2>2, <2>4, <2>5, <2>6, JoinedEarlier
  <2> QED
    BY <2>5, <2>7
<1> QED
  BY <1>1, <1>2

JoinLoop(back, opt, chunks) ==
    /\ back[0] = <<>>
    /\ \A k \in 1..Len(chunks) : back[k] = MergeInto(opt, back[k - 1], chunks[k])
    /\ FoldLeft(LAMBDA m, c : IF c.len < opt.min /\ m # <<>>
                              THEN Append(Front(m), Glue(Last(m), c)) ELSE Append(m, c),
                <<>>, chunks) = back[Len(chunks)]

\* The states of the loop that joins small pieces to the one before.
LEMMA MergesInTurn ==
  ASSUME NEW V, NEW opt, NEW chunks \in Seq(Pieces(V))
  PROVE  \E back \in [0..Len(chunks) -> Seq(Pieces(V))] : JoinLoop(back, opt, chunks)
<1> DEFINE n == Len(chunks)
           C == Seq(Pieces(V))
           h == [q \in (1..n) \X C |-> MergeInto(opt, q[2], chunks[q[1]])]
           Is(f) == f = [x \in SUBSET DOMAIN chunks |-> IF x = {} THEN <<>> ELSE MergeInto(opt, f[x \ {Max(x)}], chunks[Max(x)])]
           iter == CHOOSE f : Is(f)
           merged == FoldLeft(LAMBDA m, c : IF c.len < opt.min /\ m # <<>>
                                            THEN Append(Front(m), Glue(Last(m), c)) ELSE Append(m, c),
                              <<>>, chunks)
<1>0. DOMAIN chunks = 1..n /\ n \in Nat /\ (\A k \in 1..n : chunks[k] \in Pieces(V)) /\ <<>> \in C
  OBVIOUS
<1>1. h \in [(1..n) \X C -> C]
  <2>1. \A q \in (1..n) \X C : MergeInto(opt, q[2], chunks[q[1]]) \in C
    BY <1>0, MergeIntoSays
  <2> HIDE DEF C
  <2> QED
    BY <2>1
<1> HIDE DEF h, C
<1>3. PICK f \in [SUBSET (1..n) -> C] : FoldsUp(f, n, <<>>, h)
  BY <1>0, <1>1, SequenceFold
<1>4. \A x \in SUBSET (1..n) : x # {} =>
        h[<<Max(x), f[x \ {Max(x)}]>>] = MergeInto(opt, f[x \ {Max(x)}], chunks[Max(x)])
  BY <1>0, GreatestOf DEF h
<1>5. Is(f)
  BY <1>0, <1>3, <1>4 DEF FoldsUp
<1> HIDE DEF Is
<1>6. Is(iter)
  BY <1>5
<1>7. merged = iter[1..n]
  BY <1>0 DEF FoldLeft, MapThenFoldSet, Is, MergeInto
<1> HIDE DEF iter, merged
<1> DEFINE back == [k \in 0..n |-> iter[1..k]]
<1>8. back[0] = <<>> /\ merged = back[n] /\ back = [k \in 0..n |-> back[k]]
  <2> HIDE DEF n
  <2>1. 1..0 = {} /\ 0 \in 0..n /\ n \in 0..n
    BY <1>0
  <2>2. iter[{}] = <<>>
    BY <1>6 DEF Is
  <2> QED
    BY <1>7, <2>1, <2>2
<1>9. \A k \in 1..n : back[k] = MergeInto(opt, back[k - 1], chunks[k])
  <2> TAKE k \in 1..n
  <2>1. Max(1..k) = k /\ (1..k) \ {k} = 1..(k - 1) /\ 1..k \in SUBSET DOMAIN chunks /\ 1..k # {}
    <3>1. k \in Nat /\ k # 0 /\ 1..k \subseteq 1..n /\ k \in 1..k
      BY <1>0
    <3> QED
      BY <1>0, <3>1, LastPosition
  <2>2. iter[1..k] = MergeInto(opt, iter[1..(k - 1)], chunks[k])
    BY <1>6, <2>1 DEF Is
  <2>3. back[k] = iter[1..k] /\ back[k - 1] = iter[1..(k - 1)]
    BY <1>0
  <2> QED
    BY <2>2, <2>3
<1> HIDE DEF back
<1> DEFINE P == {k \in 0..n : back[k] \in C}
<1>10. \A k \in 0..n : k \in P
  <2>1. 0 \in P
    BY <1>0, <1>8
  <2>2. ASSUME NEW k \in 1..n, k - 1 \in P
        PROVE  k \in P
    <3>1. back[k] \in C
      <4>1. back[k - 1] \in C /\ chunks[k] \in Pieces(V)
        BY <1>0, <2>2
      <4> QED
        BY <1>9, <4>1, MergeIntoSays DEF C
    <3> QED
      BY <1>0, <3>1
  <2> HIDE DEF P
  <2> QED
    BY <1>0, <2>1, <2>2, StepByStep
<1>11. back \in [0..n -> C]
  BY <1>8, <1>10
<1> QED
  BY <1>8, <1>9, <1>11 DEF JoinLoop, C, merged

\* Small pieces are joined and nothing of them is lost; without a minimum none is small.
LEMMA MergeSmallReads ==
  ASSUME NEW V, NEW opt \in PieceLimits, NEW chunks \in Seq(Pieces(V)), NEW out, out = MergeSmall(opt, chunks)
  PROVE  /\ out \in Seq(Pieces(V)) /\ TextOf(out) = TextOf(chunks)
         /\ opt.min = 0 => Range(out) \subseteq Range(chunks)
<1> DEFINE n == Len(chunks)
           bodies == BodiesOf(chunks)
<1>0. n \in Nat /\ DOMAIN chunks = 1..n /\ (\A k \in 1..n : chunks[k] \in Pieces(V)) /\ opt.min \in Nat
  BY DEF PieceLimits
<1>1. bodies \in Seq(Seq(V)) /\ Len(bodies) = n /\ \A k \in 1..n : bodies[k] = chunks[k].body
  BY BodiesType
<1> HIDE DEF bodies
<1>2. PICK flat \in [0..n -> Seq(V)] : FlatLoop(flat, bodies)
  <2>1. \E flat \in [0..Len(bodies) -> Seq(V)] : FlatLoop(flat, bodies)
    BY <1>1, FlatSteps
  <2> QED
    BY <1>1, <2>1
<1>3. PICK back \in [0..n -> Seq(Pieces(V))] : JoinLoop(back, opt, chunks)
  BY MergesInTurn
<1>4. /\ flat[0] = <<>> /\ TextOf(chunks) = flat[n]
      /\ \A k \in 1..n : Behind(flat[k], flat[k - 1], chunks[k].body)
  BY <1>1, <1>2 DEF FlatLoop, Behind, TextOf, bodies
<1>5. /\ back[0] = <<>>
      /\ \A k \in 1..n : back[k] = MergeInto(opt, back[k - 1], chunks[k])
      /\ MergeSmall(opt, chunks) = IF Len(back[n]) >= 2 /\ back[n][1].len < opt.min
                                   THEN <<Glue(back[n][1], back[n][2])>> \o SubSeq(back[n], 3, Len(back[n])) ELSE back[n]
  BY <1>3 DEF JoinLoop, MergeSmall
<1> HIDE DEF n
<1> DEFINE P == {k \in 0..n : TextOf(back[k]) = flat[k] /\ (opt.min = 0 => Range(back[k]) \subseteq Range(chunks))}
<1>6. 0 \in P
  <2>1. TextOf(<<>>) = <<>> /\ Range(<<>>) = {}
    BY DEF TextOf, BodiesOf, FlattenSeq, Range
  <2> QED
    BY <1>0, <1>4, <1>5, <2>1
<1>7. ASSUME NEW k \in 1..n, k - 1 \in P
      PROVE  k \in P
  <2>1. k \in 0..n /\ back[k - 1] \in Seq(Pieces(V)) /\ chunks[k] \in Pieces(V) /\ back[k] = MergeInto(opt, back[k - 1], chunks[k])
    <3>1. k \in 0..n /\ k - 1 \in 0..n /\ chunks[k] \in Pieces(V)
      BY <1>0
    <3>2. back[k] = MergeInto(opt, back[k - 1], chunks[k])
      BY <1>5
    <3>3. back[k - 1] \in Seq(Pieces(V))
      BY <1>3, <3>1
    <3> QED
      BY <3>1, <3>2, <3>3
  <2>2. Behind(TextOf(back[k]), TextOf(back[k - 1]), chunks[k].body)
    BY <2>1, MergeIntoSays
  <2>3. TextOf(back[k - 1]) = flat[k - 1] /\ Behind(flat[k], flat[k - 1], chunks[k].body)
    BY <1>4, <1>7
  <2>4. TextOf(back[k]) = flat[k]
    BY <2>2, <2>3 DEF Behind
  <2>5. ASSUME opt.min = 0 PROVE Range(back[k]) \subseteq Range(chunks)
    <3>1. chunks[k].len \in Nat /\ ~(chunks[k].len < opt.min)
      BY <2>1, <2>5 DEF Pieces
    <3>2. back[k] = Append(back[k - 1], chunks[k])
      BY <2>1, <3>1 DEF MergeInto
    <3>3. Range(back[k]) = Range(back[k - 1]) \cup {chunks[k]}
      BY <2>1, <3>2, AppendedRange
    <3>4. chunks[k] \in Range(chunks)
      BY <1>0 DEF Range
    <3>5. Range(back[k - 1]) \subseteq Range(chunks)
      BY <1>7, <2>5
    <3> QED
      BY <3>3, <3>4, <3>5
  <2> QED
    BY <2>1, <2>4, <2>5
<1> HIDE DEF P
<1>8. \A k \in 0..n : k \in P
  BY <1>0, <1>6, <1>7, StepByStep
<1> DEFINE b == back[n]
<1>9. b \in Seq(Pieces(V)) /\ TextOf(b) = TextOf(chunks) /\ (opt.min = 0 => Range(b) \subseteq Range(chunks))
  BY <1>0, <1>3, <1>4, <1>8 DEF P
<1>10. out = IF Len(b) >= 2 /\ b[1].len < opt.min THEN <<Glue(b[1], b[2])>> \o SubSeq(b, 3, Len(b)) ELSE b
  BY <1>5
<1> HIDE DEF b
<1>11. CASE ~(Len(b) >= 2 /\ b[1].len < opt.min)
  BY <1>9, <1>10, <1>11
<1>12. CASE Len(b) >= 2 /\ b[1].len < opt.min
  <2> DEFINE rest == SubSeq(b, 3, Len(b))
             glued == Glue(b[1], b[2])
             one == <<glued>>
             two == <<b[1], b[2]>>
  <2>1. /\ rest \in Seq(Pieces(V)) /\ b[1] \in Pieces(V) /\ b[2] \in Pieces(V)
    BY <1>9, <1>12
  <2>2. glued \in Pieces(V) /\ Behind(glued.body, b[1].body, b[2].body)
    <3> DEFINE p == b[1]
               q == b[2]
    <3>1. p \in Pieces(V) /\ q \in Pieces(V)
      BY <2>1
    <3> HIDE DEF p, q
    <3>2. Glue(p, q) \in Pieces(V) /\ Behind(Glue(p, q).body, p.body, q.body)
      BY <3>1, GluedPieces
    <3> QED
      BY <3>2 DEF p, q
  <2>3. out = one \o rest
    BY <1>10, <1>12
  <2>4. b = two \o rest
    <3>1. /\ two \in Seq(Pieces(V)) /\ Len(two) = 2 /\ two[1] = b[1] /\ two[2] = b[2]
          /\ Len(rest) = Len(b) - 2 /\ \A k \in 1..Len(rest) : rest[k] = b[2 + k]
      <4>1. two \in Seq(Pieces(V)) /\ Len(two) = 2 /\ two[1] = b[1] /\ two[2] = b[2]
        BY <2>1
      <4>2. Len(b) \in Nat /\ Len(b) >= 2
        BY <1>9, <1>12
      <4>3. Len(rest) = Len(b) - 2 /\ \A k \in 1..(Len(b) - 2) : rest[k] = b[2 + k]
        BY <1>9, <4>2, AllButTwo
      <4> HIDE DEF two, rest
      <4> QED
        BY <4>1, <4>3
    <3> HIDE DEF two, rest
    <3>2. Len(b) = Len(two) + Len(rest)
      BY <1>9, <3>1
    <3>3. \A k \in 1..Len(two) : b[k] = two[k]
      BY <3>1
    <3>4. \A k \in 1..Len(rest) : b[Len(two) + k] = rest[k]
      BY <3>1
    <3> QED
      BY <1>9, <2>1, <3>1, <3>2, <3>3, <3>4, ListsBehind
  <2>5. one \in Seq(Pieces(V)) /\ two = Append(<<b[1]>>, b[2]) /\ two \in Seq(Pieces(V)) /\ <<b[1]>> \in Seq(Pieces(V)) /\ <<>> \in Seq(Pieces(V))
    <3> HIDE DEF glued
    <3> QED
      BY <2>1, <2>2
  <2>6. TextOf(one) = glued.body /\ TextOf(<<b[1]>>) = b[1].body /\ Behind(TextOf(two), TextOf(<<b[1]>>), b[2].body)
    <3> HIDE DEF glued, two
    <3>1. TextOf(<<glued>>) = glued.body
      BY <2>2, <2>5, TextOfFew
    <3>2. TextOf(<<b[1]>>) = b[1].body
      BY <2>1, <2>5, TextOfFew
    <3>3. Behind(TextOf(Append(<<b[1]>>, b[2])), TextOf(<<b[1]>>), b[2].body)
      BY <2>1, <2>5, TextOfFew
    <3> QED
      BY <2>5, <3>1, <3>2, <3>3
  <2> HIDE DEF one, two, rest, glued
  <2>7. TextOf(one) = TextOf(two)
    BY <2>2, <2>6 DEF Behind
  <2>8. Behind(TextOf(one \o rest), TextOf(one), TextOf(rest)) /\ Behind(TextOf(two \o rest), TextOf(two), TextOf(rest))
    BY <2>1, <2>5, TextJoins
  <2>9. TextOf(out) = TextOf(b)
    BY <2>3, <2>4, <2>7, <2>8 DEF Behind
  <2>10. out \in Seq(Pieces(V))
    BY <2>1, <2>3, <2>5
  <2>11. opt.min # 0
    <3>1. b[1].len \in Nat
      BY <2>1 DEF Pieces
    <3> QED
      BY <1>0, <1>12, <3>1
  <2> QED
    BY <1>9, <2>9, <2>10, <2>11
<1> QED
  BY <1>11, <1>12

\* For every paper, whatever its sections, paragraphs and sentences, and every setting
\* (chunk_text of ingest): each sentence is the own text of one piece, in the order of the
\* paper, and unless small pieces are joined only a sentence that is too long makes a piece
\* too long.
THEOREM SentencesReadOnce ==
  ASSUME NEW sections \in Seq(Seq(Seq(Nat))), NEW opt \in PieceLimits
  PROVE  /\ ReadsAllOnce(sections, ExtractChunks(sections, opt))
         /\ PiecesFit(opt, ExtractChunks(sections, opt))
<1> DEFINE V == SentencePlaces
           n == Len(sections)
           splits == [s \in DOMAIN sections |-> SplitOversized(opt, s, sections[s])]
           texts == [s \in DOMAIN sections |-> FlattenSeq(SectionIds(s, sections[s]))]
           flatly == FlattenSeq(splits)
           out == MergeSmall(opt, flatly)
<1>0. n \in Nat /\ DOMAIN sections = 1..n /\ \A s \in 1..n : s \in Nat /\ sections[s] \in Seq(Seq(Nat))
  OBVIOUS
<1>1. out = ExtractChunks(sections, opt)
  BY DEF ExtractChunks
<1>2. FlattenSeq(texts) = AllIds(sections)
  BY DEF AllIds, SectionIds
<1>3. ASSUME NEW s \in 1..n
      PROVE  /\ SplitOversized(opt, s, sections[s]) \in Seq(Pieces(V))
             /\ TextOf(SplitOversized(opt, s, sections[s])) = FlattenSeq(SectionIds(s, sections[s]))
             /\ \A k \in 1..Len(SplitOversized(opt, s, sections[s])) :
                   FitsIn(opt.max, SplitOversized(opt, s, sections[s])[k].body, SplitOversized(opt, s, sections[s])[k].len)
  <2>1. s \in Nat /\ sections[s] \in Seq(Seq(Nat))
    BY <1>0
  <2> QED
    BY <2>1, SectionIsRead
<1>4. /\ splits \in Seq(Seq(Pieces(V))) /\ Len(splits) = n
      /\ \A s \in 1..n : /\ splits[s] \in Seq(Pieces(V)) /\ TextOf(splits[s]) = texts[s]
                         /\ \A k \in 1..Len(splits[s]) : FitsIn(opt.max, splits[s][k].body, splits[s][k].len)
  <2>1. splits = [s \in 1..n |-> SplitOversized(opt, s, sections[s])]
        /\ \A s \in 1..n : texts[s] = FlattenSeq(SectionIds(s, sections[s]))
    BY <1>0
  <2> HIDE DEF texts, V
  <2> QED
    BY <1>0, <1>3, <2>1
<1>5. texts \in Seq(Seq(V)) /\ Len(texts) = n
  <2>1. \A s \in 1..n : texts[s] \in Seq(V)
    <3> TAKE s \in 1..n
    <3>1. splits[s] \in Seq(Pieces(V)) /\ TextOf(splits[s]) = texts[s]
      BY <1>4
    <3> HIDE DEF splits, texts
    <3> QED
      BY <3>1, TextJoins
  <2>2. DOMAIN texts = 1..n /\ texts = [s \in 1..n |-> texts[s]]
    BY <1>0
  <2> HIDE DEF texts, V
  <2> QED
    BY <1>0, <2>1, <2>2
<1> HIDE DEF splits, texts, V
<1>6. PICK fc \in [0..n -> Seq(Pieces(V))] : FlatLoop(fc, splits)
  <2>1. \E fc \in [0..Len(splits) -> Seq(Pieces(V))] : FlatLoop(fc, splits)
    BY <1>4, FlatSteps
  <2> QED
    BY <1>4, <2>1
<1>7. PICK ft \in [0..n -> Seq(V)] : FlatLoop(ft, texts)
  <2>1. \E ft \in [0..Len(texts) -> Seq(V)] : FlatLoop(ft, texts)
    BY <1>5, FlatSteps
  <2> QED
    BY <1>5, <2>1
<1>8. /\ fc[0] = <<>> /\ flatly = fc[n] /\ \A k \in 1..n : Behind(fc[k], fc[k - 1], splits[k])
      /\ ft[0] = <<>> /\ FlattenSeq(texts) = ft[n] /\ \A k \in 1..n : Behind(ft[k], ft[k - 1], texts[k])
  BY <1>4, <1>5, <1>6, <1>7 DEF FlatLoop, Behind
<1> HIDE DEF n, flatly, out
<1> DEFINE P == {k \in 0..n : TextOf(fc[k]) = ft[k] /\ \A c \in Range(fc[k]) : FitsIn(opt.max, c.body, c.len)}
<1>9. 0 \in P
  <2>1. TextOf(<<>>) = <<>> /\ Range(<<>>) = {}
    BY DEF TextOf, BodiesOf, FlattenSeq, Range
  <2> QED
    BY <1>0, <1>8, <2>1
<1>10. ASSUME NEW k \in 1..n, k - 1 \in P
       PROVE  k \in P
  <2>1. k \in 0..n /\ k - 1 \in 0..n /\ fc[k - 1] \in Seq(Pieces(V)) /\ splits[k] \in Seq(Pieces(V))
    BY <1>0, <1>4, <1>6
  <2>2. fc[k] = fc[k - 1] \o splits[k]
    BY <1>8 DEF Behind
  <2>3. Behind(TextOf(fc[k]), TextOf(fc[k - 1]), TextOf(splits[k]))
    <3>1. Behind(TextOf(fc[k - 1] \o splits[k]), TextOf(fc[k - 1]), TextOf(splits[k]))
      BY <2>1, TextJoins
    <3> QED
      BY <2>2, <3>1, Zenon
  <2>4. TextOf(fc[k]) = ft[k]
    BY <1>4, <1>8, <1>10, <2>3 DEF Behind
  <2>5. Range(fc[k]) = Range(fc[k - 1]) \cup Range(splits[k])
    <3>1. Range(fc[k - 1] \o splits[k]) = Range(fc[k - 1]) \cup Range(splits[k])
      BY <2>1, ConcatenatedElements
    <3> QED
      BY <2>2, <3>1, Zenon
  <2>6. \A c \in Range(splits[k]) : FitsIn(opt.max, c.body, c.len)
    <3> TAKE c \in Range(splits[k])
    <3>1. PICK i \in 1..Len(splits[k]) : splits[k][i] = c
      <4>1. DOMAIN splits[k] = 1..Len(splits[k])
        BY <2>1
      <4> QED
        BY <4>1 DEF Range
    <3>2. FitsIn(opt.max, splits[k][i].body, splits[k][i].len)
      BY <1>4
    <3> QED
      BY <3>1, <3>2
  <2>7. \A c \in Range(fc[k]) : FitsIn(opt.max, c.body, c.len)
    BY <1>10, <2>5, <2>6
  <2> QED
    BY <2>1, <2>4, <2>7
<1> HIDE DEF P
<1>11. \A k \in 0..n : k \in P
  BY <1>0, <1>9, <1>10, StepByStep
<1>12. /\ flatly \in Seq(Pieces(V)) /\ TextOf(flatly) = AllIds(sections)
       /\ \A c \in Range(flatly) : FitsIn(opt.max, c.body, c.len)
  BY <1>0, <1>2, <1>6, <1>8, <1>11 DEF P
<1>13. /\ out \in Seq(Pieces(V)) /\ TextOf(out) = TextOf(flatly)
       /\ opt.min = 0 => Range(out) \subseteq Range(flatly)
  BY <1>12, MergeSmallReads DEF out
<1>14. ReadsAllOnce(sections, out)
  BY <1>12, <1>13 DEF ReadsAllOnce, TextOf, BodiesOf
<1>15. PiecesFit(opt, out)
  BY <1>12, <1>13 DEF PiecesFit, FitsIn
<1> QED
  BY <1>1, <1>14, <1>15

-----------------------------------------------------------------------------
\* ---- The properties of the runs, for all inputs --------------------------
\* MCAlgorithms with any inputs in the place of those its run enumerates.
AnySpec(inputs) == task \in inputs /\ answer = NoneYet /\ [][MCNext]_<<task, answer>>

\* What has been answered is what the part makes of its task.
Answered ==
    /\ Solved("merge") => Out = MergeGraphs(task.chunks, task.edges)
    /\ Solved("bench") => Out = ExitCode(task.questions, task.env)
    /\ Solved("snapshot") => Out = Replayed(Snapshots(task), task.prompt)
    /\ Solved("golden") => Out = Validate(task.items, task.files, GoldenIndex(task), Policy(task.args, task.ci))
    /\ Solved("baseline") => Out = BaselinesFrom(task.first)
    /\ Solved("route") => Out = ScaleOf(task.q, task.paradigm, task.own)
    /\ Solved("context") => Out = PromptSubgraph(task.graph, task.keywords, Brought(task))
    /\ Solved("budget") => Out = WithinBudget(task.sections, task.max)
    /\ Solved("head") => Out = RefineHead(task)
    /\ Solved("classify") => Out = Classify(task)
    /\ Solved("cluster") => Out \in Clustered(task.graph, task.world)
    /\ Solved("pieces") => Out = ExtractChunks(task.sections, task.opt)

LEMMA PartsApart ==
    /\ SolveMerge => task.part = "merge"
    /\ SolveCluster => task.part = "cluster"
    /\ SolveSpans => task.part = "spans"
    /\ SolveLists => task.part = "lists"
    /\ SolveDirectory => task.part = "directory"
    /\ SolvePatrol => task.part = "patrol"
    /\ SolveIndex => task.part = "index"
    /\ SolvePieces => task.part = "pieces"
    /\ SolveHead => task.part = "head"
    /\ SolveClassify => task.part = "classify"
    /\ SolveBench => task.part = "bench"
    /\ SolveSnapshot => task.part = "snapshot"
    /\ SolveRoute => task.part = "route"
    /\ SolveContext => task.part = "context"
    /\ SolveBudget => task.part = "budget"
    /\ SolveVectors => task.part = "vectors"
    /\ SolveSearch => task.part = "search"
    /\ SolveBaseline => task.part = "baseline"
    /\ SolveGolden => task.part = "golden"
<1>1. SolveMerge => task.part = "merge"
  BY DEF SolveMerge
<1>2. SolveCluster => task.part = "cluster"
  BY DEF SolveCluster
<1>3. SolveSpans => task.part = "spans"
  BY DEF SolveSpans
<1>4. SolveLists => task.part = "lists"
  BY DEF SolveLists
<1>5. SolveDirectory => task.part = "directory"
  BY DEF SolveDirectory
<1>6. SolvePatrol => task.part = "patrol"
  BY DEF SolvePatrol
<1>7. SolveIndex => task.part = "index"
  BY DEF SolveIndex
<1>8. SolvePieces => task.part = "pieces"
  BY DEF SolvePieces
<1>9. SolveHead => task.part = "head"
  BY DEF SolveHead
<1>10. SolveClassify => task.part = "classify"
  BY DEF SolveClassify
<1>11. SolveBench => task.part = "bench"
  BY DEF SolveBench
<1>12. SolveSnapshot => task.part = "snapshot"
  BY DEF SolveSnapshot
<1>13. SolveRoute => task.part = "route"
  BY DEF SolveRoute
<1>14. SolveContext => task.part = "context"
  BY DEF SolveContext
<1>15. SolveBudget => task.part = "budget"
  BY DEF SolveBudget
<1>16. SolveVectors => task.part = "vectors"
  BY DEF SolveVectors
<1>17. SolveSearch => task.part = "search"
  BY DEF SolveSearch
<1>18. SolveBaseline => task.part = "baseline"
  BY DEF SolveBaseline
<1>19. SolveGolden => task.part = "golden"
  BY DEF SolveGolden
<1> QED
  BY <1>1, <1>2, <1>3, <1>4, <1>5, <1>6, <1>7, <1>8, <1>9, <1>10, <1>11, <1>12, <1>13, <1>14,
     <1>15, <1>16, <1>17, <1>18, <1>19

LEMMA AnsweredAtFirst == answer = NoneYet => Answered
BY DEF Answered, Solved

LEMMA AnsweredStep == Answered /\ [MCNext]_<<task, answer>> => Answered' /\ task' = task
<1> SUFFICES ASSUME Answered, [MCNext]_<<task, answer>>
             PROVE  Answered' /\ task' = task
  OBVIOUS
<1>1. CASE UNCHANGED <<task, answer>>
  <2>1. task' = task /\ answer' = answer
    BY <1>1
  <2> QED
    BY <2>1 DEF Answered, Solved, Out, GoldenIndex, Brought
<1>2. CASE MCNext
  <2>1. task' = task
    BY <1>2 DEF MCNext
  <2>2. /\ task.part = "merge" => SolveMerge
        /\ task.part = "bench" => SolveBench
        /\ task.part = "snapshot" => SolveSnapshot
        /\ task.part = "golden" => SolveGolden
        /\ task.part = "baseline" => SolveBaseline
        /\ task.part = "route" => SolveRoute
        /\ task.part = "context" => SolveContext
        /\ task.part = "budget" => SolveBudget
        /\ task.part = "head" => SolveHead
        /\ task.part = "classify" => SolveClassify
        /\ task.part = "cluster" => SolveCluster
        /\ task.part = "pieces" => SolvePieces
    BY <1>2, PartsApart DEF MCNext
  <2>3. (Solved("merge") => Out = MergeGraphs(task.chunks, task.edges))'
    BY <2>1, <2>2 DEF SolveMerge, Solved, Out
  <2>4. (Solved("bench") => Out = ExitCode(task.questions, task.env))'
    BY <2>1, <2>2 DEF SolveBench, Solved, Out
  <2>5. (Solved("snapshot") => Out = Replayed(Snapshots(task), task.prompt))'
    BY <2>1, <2>2 DEF SolveSnapshot, Solved, Out
  <2>6. (Solved("golden") => Out = Validate(task.items, task.files, GoldenIndex(task), Policy(task.args, task.ci)))'
    BY <2>1, <2>2 DEF SolveGolden, Solved, Out
  <2>7. (Solved("baseline") => Out = BaselinesFrom(task.first))'
    BY <2>1, <2>2 DEF SolveBaseline, Solved, Out
  <2>8. (Solved("route") => Out = ScaleOf(task.q, task.paradigm, task.own))'
    BY <2>1, <2>2 DEF SolveRoute, Solved, Out
  <2>9. (Solved("context") => Out = PromptSubgraph(task.graph, task.keywords, Brought(task)))'
    BY <2>1, <2>2 DEF SolveContext, Solved, Out
  <2>10. (Solved("budget") => Out = WithinBudget(task.sections, task.max))'
    BY <2>1, <2>2 DEF SolveBudget, Solved, Out
  <2>11. (Solved("head") => Out = RefineHead(task))'
    BY <2>1, <2>2 DEF SolveHead, Solved, Out
  <2>12. (Solved("classify") => Out = Classify(task))'
    BY <2>1, <2>2 DEF SolveClassify, Solved, Out
  <2>13. (Solved("cluster") => Out \in Clustered(task.graph, task.world))'
    BY <2>1, <2>2 DEF SolveCluster, Solved, Out
  <2>14. (Solved("pieces") => Out = ExtractChunks(task.sections, task.opt))'
    BY <2>1, <2>2 DEF SolvePieces, Solved, Out
  <2> QED
    BY <2>1, <2>3, <2>4, <2>5, <2>6, <2>7, <2>8, <2>9, <2>10, <2>11, <2>12, <2>13, <2>14 DEF Answered
<1> QED
  BY <1>1, <1>2

\* Chunks and edges as the extraction of a paper brings them.
MergeInput(t) ==
    t.part = "merge" =>
       \E labels, types, words, kinds :
          /\ t.chunks \in Seq(Seq(NodesOf(Nat, labels, types))) /\ OwnIdsByChunk(t.chunks)
          /\ t.edges \in Seq(EdgesOf(Places, words, kinds))

\* Of all chunks and edges (merge_graphs): the merged graph passes its validator and has no
\* relation twice, no node and no evidence is lost without a trace, a node without edges has
\* swallowed its neighbours, and the order in which the chunks come back shapes nothing.
THEOREM EveryMergedGraphIsSound ==
  ASSUME NEW inputs, \A t \in inputs : MergeInput(t)
  PROVE  AnySpec(inputs) => []MergedGraphSound
<1>1. task \in inputs /\ answer = NoneYet => task \in inputs /\ Answered
  BY AnsweredAtFirst
<1>2. (task \in inputs /\ Answered) /\ [MCNext]_<<task, answer>> => (task \in inputs /\ Answered)'
  BY AnsweredStep
<1>3. task \in inputs /\ Answered => MergedGraphSound
  <2> SUFFICES ASSUME task \in inputs, Answered, Solved("merge")
               PROVE  MergedGraphSound
    BY DEF MergedGraphSound, MergedGraphValid, MergeKeepsEvidence, IsolatedMeansFolded, ChunkOrderIrrelevant
  <2>1. PICK labels, types, words, kinds :
           /\ task.chunks \in Seq(Seq(NodesOf(Nat, labels, types))) /\ OwnIdsByChunk(task.chunks)
           /\ task.edges \in Seq(EdgesOf(Places, words, kinds))
    BY DEF MergeInput, Solved
  <2> DEFINE out == MergeGraphs(task.chunks, task.edges)
  <2>2. MergeIsConsistent(out) /\ IsolatedHasFolded(out) /\ MergeLosesNothing(task.chunks, task.edges, out)
    BY <2>1, MergedGraphAccepted, IsolatedHasSwallowed, MergeLosesNoEvidence
  <2>3. MergeIgnoresOrder(task.chunks, task.edges, out)
    BY <2>1, ChunkOrderShapesNothing
  <2> HIDE DEF out
  <2>4. Out = out
    BY DEF Answered, out
  <2> QED
    BY <2>2, <2>3, <2>4 DEF MergedGraphSound, MergedGraphValid, MergeKeepsEvidence, IsolatedMeansFolded, ChunkOrderIrrelevant
<1> QED
  BY <1>1, <1>2, <1>3, PTL DEF AnySpec

\* Graphs of the merge, between whose nodes the models find how close they are.
ClusterInput(t) == t.part = "cluster" => Clusterable(t.graph) /\ Comparable(t.world, Ids(t.graph.nodes))

\* Of all graphs and answers of the models (semantic_cluster_and_merge): the clustered graph
\* would pass the validator that is not called again, every node, leaf and relation of the
\* merged one is in it or in a synonym, what was tied is tied, and bridges tie only what was
\* not.
THEOREM EveryClusteredGraphIsSound ==
  ASSUME NEW inputs, \A t \in inputs : ClusterInput(t)
  PROVE  AnySpec(inputs) => []ClusteredGraphSound
<1>1. task \in inputs /\ answer = NoneYet => task \in inputs /\ Answered
  BY AnsweredAtFirst
<1>2. (task \in inputs /\ Answered) /\ [MCNext]_<<task, answer>> => (task \in inputs /\ Answered)'
  BY AnsweredStep
<1>3. task \in inputs /\ Answered => ClusteredGraphSound
  <2> SUFFICES ASSUME task \in inputs, Answered, Solved("cluster")
               PROVE  ClusteredGraphSound
    BY DEF ClusteredGraphSound, ClusteredGraphValid, SynonymsKeepEvidence, BridgesOnlyJoin
  <2>1. Clusterable(task.graph) /\ Comparable(task.world, Ids(task.graph.nodes))
    BY DEF ClusterInput, Solved
  <2>2. Out \in Clustered(task.graph, task.world)
    BY DEF Answered
  <2>3. SoundAfter(task.graph, task.world, Out)
    BY <2>1, <2>2, ClusteringKeepsGraphSound
  <2> QED
    BY <2>3 DEF SoundAfter, KeysDistinct, ClusteredGraphSound, ClusteredGraphValid, SynonymsKeepEvidence, BridgesOnlyJoin
<1> QED
  BY <1>1, <1>2, <1>3, PTL DEF AnySpec

\* Questions of a golden set, whose checks ask for a required pattern of each; recordings of
\* the judge; a golden set whose papers have graph files, of whatever state.
BenchInput(t) ==
    t.part = "bench" =>
       /\ t.env \in [strict : BOOLEAN, dry : BOOLEAN, mock : BOOLEAN]
       /\ \A i \in DOMAIN t.questions :
             /\ t.questions[i].gold.required # {} /\ IsFiniteSet(t.questions[i].gold.chunks)
             /\ JudgeHeard(t.questions[i])
SnapshotInput(t) ==
    t.part = "snapshot" =>
       \E prompts : /\ "none" \notin prompts /\ t.first \in {"none", "a"}
                    /\ Committed(t) \in SnapshotFiles(prompts) /\ t.recordings \in Recordings(prompts)
GoldenInput(t) ==
    t.part = "golden" =>
       /\ t.ci \in BOOLEAN /\ PapersOf(t.items) \subseteq DOMAIN t.files
       /\ \A p \in DOMAIN t.files : t.files[p].state \in {"ok", "absent", "broken"}

LEMMA BenchEarned ==
  ASSUME BenchInput(task), Answered
  PROVE  GreenMeansClean /\ StrictNeverWeaker /\ CreditUnambiguous /\ SuccessIsEarned
<1> SUFFICES ASSUME Solved("bench")
             PROVE  GreenMeansClean /\ StrictNeverWeaker /\ CreditUnambiguous /\ SuccessIsEarned
  BY DEF GreenMeansClean, StrictNeverWeaker, CreditUnambiguous, SuccessIsEarned
<1> DEFINE questions == task.questions
           env == task.env
<1>1. Out = ExitCode(questions, env)
  BY DEF Answered
<1>2. /\ env \in [strict : BOOLEAN, dry : BOOLEAN, mock : BOOLEAN]
      /\ \A i \in DOMAIN questions :
            questions[i].gold.required # {} /\ IsFiniteSet(questions[i].gold.chunks) /\ JudgeHeard(questions[i])
  BY DEF BenchInput, Solved
<1>3. GreenMeansClean
  BY <1>1, GreenAnswersAreClean DEF GreenMeansClean
<1>4. StrictNeverWeaker
  BY <1>1, <1>2, StrictGateIsStrictest DEF StrictNeverWeaker
<1>5. CreditUnambiguous
  BY <1>2, CreditMeansOneChunk DEF CreditUnambiguous
<1>6. SuccessIsEarned
  <2> SUFFICES ASSUME ~env.dry
               PROVE  \A i \in Successes(Results(questions, env)) :
                         /\ Results(questions, env)[i].asked
                         /\ LastWord(questions[i]).form \in {"micro", "full"}
                         /\ questions[i].gold.required \subseteq Text(Results(questions, env)[i].answer)
    BY DEF SuccessIsEarned
  <2> QED
    BY <1>2, SuccessNeedsAnswers
<1> QED
  BY <1>3, <1>4, <1>5, <1>6

LEMMA SnapshotsEarned ==
  ASSUME SnapshotInput(task), Answered
  PROVE  SnapshotsFaithful
<1> SUFFICES ASSUME Solved("snapshot")
             PROVE  SnapshotsFaithful
  BY DEF SnapshotsFaithful
<1>1. Out = Replayed(Snapshots(task), task.prompt)
  BY DEF Answered
<1>2. PICK prompts : /\ "none" \notin prompts /\ task.first \in {"none", "a"}
                     /\ Committed(task) \in SnapshotFiles(prompts) /\ task.recordings \in Recordings(prompts)
  BY DEF SnapshotInput, Solved
<1> QED
  BY <1>1, <1>2, ReplayIsOfThisPrompt DEF SnapshotsFaithful

LEMMA GoldenEarned ==
  ASSUME GoldenInput(task), Answered
  PROVE  GreenMeansCitable /\ CiNeverSkips
<1> SUFFICES ASSUME Solved("golden")
             PROVE  GreenMeansCitable /\ CiNeverSkips
  BY DEF GreenMeansCitable, CiNeverSkips
<1> DEFINE index == GoldenIndex(task)
<1>1. Out = Validate(task.items, task.files, index, Policy(task.args, task.ci))
  BY DEF Answered
<1>2. /\ task.ci \in BOOLEAN /\ PapersOf(task.items) \subseteq DOMAIN task.files
      /\ \A p \in DOMAIN task.files : task.files[p].state \in {"ok", "absent", "broken"}
  BY DEF GoldenInput, Solved
<1> HIDE DEF index
<1>3. GreenMeansCitable
  <2> SUFFICES ASSUME Out.exit = 0, NEW item \in Range(task.items), item.paper # "", item.paper = Stripped[item.paper],
                      Out.files[item.paper].state = "ok"
               PROVE  Citable(item, Out.files, index)
    BY DEF GreenMeansCitable, index
  <2>1. item.paper \in DOMAIN task.files
    BY <1>2 DEF PapersOf
  <2> QED
    BY <1>1, <2>1, GreenItemsAreCitable DEF WellNamed
<1>4. CiNeverSkips
  <2>1. /\ \A p \in DOMAIN task.files : task.files[p].state # "absent" => Out.files[p] = task.files[p]
        /\ task.ci /\ Out.exit = 0 =>
              \A p \in PapersOf(task.items) \cap DOMAIN task.files : Out.files[p].state = "ok"
    BY <1>1, <1>2, NoFlagSkipsOnCi
  <2>2. \A item \in Range(task.items) :
           "" \notin {item.paper, Stripped[item.paper]} => Stripped[item.paper] \in PapersOf(task.items) \cap DOMAIN task.files
    BY <1>2 DEF PapersOf
  <2> QED
    BY <2>1, <2>2 DEF CiNeverSkips
<1> QED
  BY <1>3, <1>4

LEMMA BaselineEarned ==
  ASSUME Answered
  PROVE  BaselineReproduces /\ RegressionsSeen
<1> SUFFICES ASSUME Solved("baseline")
             PROVE  BaselineReproduces /\ RegressionsSeen
  BY DEF BaselineReproduces, RegressionsSeen
<1>1. Out = BaselinesFrom(task.first)
  BY DEF Answered
<1> QED
  BY <1>1, ReportPassesItsBaseline, WorseTurnsRed DEF BaselineReproduces, RegressionsSeen

\* Of all questions, recordings, golden sets and reports (scripts/benchmark_qa.py,
\* validate_golden_qa.py, the regression of the parser): what is green was earned, by answers
\* that are clean and judged, by references that are there and by parsers that still reach
\* what they reached.
THEOREM GreenIsAlwaysEarned ==
  ASSUME NEW inputs, \A t \in inputs : BenchInput(t) /\ SnapshotInput(t) /\ GoldenInput(t)
  PROVE  AnySpec(inputs) => []GreenIsEarned
<1>1. task \in inputs /\ answer = NoneYet => task \in inputs /\ Answered
  BY AnsweredAtFirst
<1>2. (task \in inputs /\ Answered) /\ [MCNext]_<<task, answer>> => (task \in inputs /\ Answered)'
  BY AnsweredStep
<1>3. task \in inputs /\ Answered => GreenIsEarned
  BY BenchEarned, SnapshotsEarned, GoldenEarned, BaselineEarned DEF GreenIsEarned
<1> QED
  BY <1>1, <1>2, <1>3, PTL DEF AnySpec

\* Questions to papers of a paradigm, consistent graphs, sections of lines.
RouteInput(t) == t.part = "route" => t.paradigm \in {"STEM", "HSS"}
ContextInput(t) == t.part = "context" => EndsOf(t.graph.edges) \subseteq NodeIds(t.graph)
BudgetInput(t) == t.part = "budget" => t.sections \in PromptSections /\ t.max \in Nat

LEMMA RouteFits ==
  ASSUME RouteInput(task), Answered, Folded["OWN"] = Folded["own"]
  PROVE  DoorAgreesWithRetrieval /\ OwnPaperIsNoComparison
<1> SUFFICES ASSUME Solved("route")
             PROVE  DoorAgreesWithRetrieval /\ OwnPaperIsNoComparison
  BY DEF DoorAgreesWithRetrieval, OwnPaperIsNoComparison
<1>1. Out = ScaleOf(task.q, task.paradigm, task.own) /\ task.paradigm \in {"STEM", "HSS"}
  BY DEF Answered, RouteInput, Solved
<1>2. DoorAgreesWithRetrieval
  BY <1>1, DoorAndRetrievalAgree DEF DoorAgreesWithRetrieval
<1>3. OwnPaperIsNoComparison
  <2> SUFFICES ASSUME task.own = "own", task.q.ids \subseteq {"own", "OWN"}, "cross" \notin task.q.words
               PROVE  Out # "cross_paper"
    BY DEF OwnPaperIsNoComparison
  <2>1. \A i \in task.q.ids : Folded[i] = Folded[task.own]
    OBVIOUS
  <2> QED
    BY <1>1, <2>1, OwnPaperComparesNothing
<1> QED
  BY <1>2, <1>3

LEMMA ContextFits ==
  ASSUME ContextInput(task), Answered
  PROVE  PromptGraphClosed
<1> SUFFICES ASSUME Solved("context")
             PROVE  PromptGraphClosed
  BY DEF PromptGraphClosed
<1> DEFINE g == task.graph
           keywords == task.keywords
           rc == Brought(task)
<1>1. Out = PromptSubgraph(g, keywords, rc) /\ EndsOf(g.edges) \subseteq NodeIds(g)
  BY DEF Answered, ContextInput, Solved
<1>2. rc.nodes \in {{}, SubgraphFor(g, keywords).nodes} /\ rc.edges \in {{}, SubgraphFor(g, keywords).edges}
  BY DEF Brought
<1> HIDE DEF rc
<1>3. /\ EndsOf(PromptSubgraph(g, keywords, rc).edges) \subseteq PromptSubgraph(g, keywords, rc).nodes
      /\ Seeds(g, keywords) # {} => PromptSubgraph(g, keywords, rc).nodes = Within(g, Seeds(g, keywords), 2)
  BY <1>1, <1>2, PromptEdgesHaveEnds
<1> QED
  BY <1>1, <1>3 DEF PromptGraphClosed

LEMMA BudgetFits ==
  ASSUME BudgetInput(task), Answered, MarkerSize \in Nat
  PROVE  PromptWithinBudget
<1> SUFFICES ASSUME Solved("budget")
             PROVE  PromptWithinBudget
  BY DEF PromptWithinBudget
<1>1. Out = WithinBudget(task.sections, task.max) /\ task.sections \in PromptSections /\ task.max \in Nat
  BY DEF Answered, BudgetInput, Solved
<1> QED
  BY <1>1, ContextFitsBudget DEF PromptWithinBudget

\* Of all questions, consistent graphs and retrieved texts (detect_question_scale, GraphQuery,
\* format_retrieval_context), where lower case makes "own" of "OWN": a question goes where it
\* belongs, with a part of the graph that is closed and text that fits.
THEOREM EveryPromptFitsItsQuestion ==
  ASSUME Folded["OWN"] = Folded["own"], MarkerSize \in Nat,
         NEW inputs, \A t \in inputs : RouteInput(t) /\ ContextInput(t) /\ BudgetInput(t)
  PROVE  AnySpec(inputs) => []PromptFitsQuestion
<1>1. task \in inputs /\ answer = NoneYet => task \in inputs /\ Answered
  BY AnsweredAtFirst
<1>2. (task \in inputs /\ Answered) /\ [MCNext]_<<task, answer>> => (task \in inputs /\ Answered)'
  BY AnsweredStep
<1>3. task \in inputs /\ Answered => PromptFitsQuestion
  BY RouteFits, ContextFits, BudgetFits DEF PromptFitsQuestion
<1> QED
  BY <1>1, <1>2, <1>3, PTL DEF AnySpec

\* A paper in an environment, and a configuration of the classifier with what its model does.
HeadInput(t) ==
    t.part = "head" =>
       /\ t.b \subseteq Fields /\ t.short \in BOOLEAN /\ t.mineru \in BOOLEAN
       /\ t.path \in {"ok", "down", "garbled"}
ClassifyInput(t) ==
    t.part = "classify" => t.judge \in [{"primary", "primaryAgain", "fallback"} -> {"ok", "bad"}]

\* Of all papers, environments and configurations, and for texts of any length: what a path
\* found is in the head, a conclusion that has room is in the input as a whole, an input is
\* read back as it was written, and one failure of the judge is forgiven.
THEOREM EveryHeadReachesClassifier ==
  ASSUME SizeOf \in [Fields -> Nat \ {0}], InputLimit \in Nat,
         NEW inputs, \A t \in inputs : HeadInput(t) /\ ClassifyInput(t)
  PROVE  AnySpec(inputs) => []ClassifierSeesHead
<1>1. task \in inputs /\ answer = NoneYet => task \in inputs /\ Answered
  BY AnsweredAtFirst
<1>2. (task \in inputs /\ Answered) /\ [MCNext]_<<task, answer>> => (task \in inputs /\ Answered)'
  BY AnsweredStep
<1>3. task \in inputs /\ Answered => ClassifierSeesHead
  <2> SUFFICES ASSUME task \in inputs, Answered
               PROVE  ClassifierSeesHead
    OBVIOUS
  <2>1. ASSUME Solved("head")
        PROVE  HeadIsComplete(task, Out) /\ ConclusionKept(task, Out) /\ ReadsBack(Out.head)
    <3>1. Out = RefineHead(task)
      BY <2>1 DEF Answered
    <3>2. task.b \subseteq Fields /\ task.short \in BOOLEAN /\ task.mineru \in BOOLEAN /\ task.path \in {"ok", "down", "garbled"}
      BY <2>1 DEF HeadInput, Solved
    <3>3. HeadIsComplete(task, RefineHead(task))
      BY <3>2, FindingsStayInHead
    <3>4. ConclusionKept(task, RefineHead(task))
      BY ConclusionIsKept
    <3>5. ReadsBack(RefineHead(task).head)
      BY InputIsReadBack
    <3> QED
      BY <3>1, <3>3, <3>4, <3>5
  <2>2. ASSUME Solved("classify")
        PROVE  JudgeForgives(task, Out)
    <3>1. Out = Classify(task)
      BY <2>2 DEF Answered
    <3>2. task.judge \in [{"primary", "primaryAgain", "fallback"} -> {"ok", "bad"}]
      BY <2>2 DEF ClassifyInput, Solved
    <3> QED
      BY <3>1, <3>2, JudgeForgivesOnce
  <2> QED
    BY <2>1, <2>2 DEF ClassifierSeesHead, HeadKeepsFindings, ConclusionSurvives, InputReadsBack, OneFailureForgiven
<1> QED
  BY <1>1, <1>2, <1>3, PTL DEF AnySpec

\* A paper of sections, paragraphs and sentences of any lengths, cut under any setting.
PiecesInput(t) == t.part = "pieces" => t.sections \in Seq(Seq(Seq(Nat))) /\ t.opt \in PieceLimits

\* Of all papers and settings (chunk_text of ingest): an extraction reads every sentence, and
\* only what it must makes a call longer than the limit.
THEOREM EveryExtractionReadsAll ==
  ASSUME NEW inputs, \A t \in inputs : PiecesInput(t)
  PROVE  AnySpec(inputs) => [](ExtractionReadsAll /\ PiecesWithinLimit)
<1>1. task \in inputs /\ answer = NoneYet => task \in inputs /\ Answered
  BY AnsweredAtFirst
<1>2. (task \in inputs /\ Answered) /\ [MCNext]_<<task, answer>> => (task \in inputs /\ Answered)'
  BY AnsweredStep
<1>3. task \in inputs /\ Answered => ExtractionReadsAll /\ PiecesWithinLimit
  <2> SUFFICES ASSUME task \in inputs, Answered, Solved("pieces")
               PROVE  ReadsAllOnce(task.sections, Out) /\ PiecesFit(task.opt, Out)
    BY DEF ExtractionReadsAll, PiecesWithinLimit
  <2>1. task.sections \in Seq(Seq(Seq(Nat))) /\ task.opt \in PieceLimits
    BY DEF PiecesInput, Solved
  <2>2. Out = ExtractChunks(task.sections, task.opt)
    BY DEF Answered
  <2> QED
    BY <2>1, <2>2, SentencesReadOnce
<1> QED
  BY <1>1, <1>2, <1>3, PTL DEF AnySpec
=============================================================================
