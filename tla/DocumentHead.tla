---------------------------- MODULE DocumentHead ----------------------------
(***************************************************************************)
(* How the head of a paper (title, abstract, ...) is found on two paths,   *)
(* merged, cut to the length a prompt may have, and classified.            *)
(*                                                                         *)
(* A head is a function from fields to who supplied the text, "" for no    *)
(* text.  A classifier input is a sequence of labelled parts.              *)
(***************************************************************************)
EXTENDS Naturals, Integers, Sequences, FiniteSets, SequencesExt, FiniteSetsExt

CONSTANTS
    SizeOf,      \* SizeOf[f] is the length of a text for field f
    InputLimit   \* MAX_CLASSIFIER_INPUT_CHARS

Fields == {"title", "abstract", "keywords", "intro", "conclusion", "meta"}
Nothing == [f \in Fields |-> ""]

-----------------------------------------------------------------------------
\* ---- Two paths -----------------------------------------------------------
\* w is one paper in one environment: route, short (few pages), mineru, path (what
\* the second path returns: "ok", "down", "garbled"), b (the fields it finds), front
\* (the first pages: fields, or "unreadable"), tail (fields the whole text adds),
\* llm ("off", "fails", or the fields it answers).

\* resolve_ingest_route
RouteOf(w) == IF w.route = "pymupdf_only" THEN "none" ELSE IF w.short THEN "short" ELSE "long"

\* build_pymupdf_head_candidate: no conclusion, the first pages do not have one.
Snippets(w) == IF w.front = {"unreadable"} THEN Nothing
               ELSE [f \in Fields |-> IF f \in w.front \ {"conclusion"} THEN "pymupdf" ELSE ""]

\* _fetch_path_b_candidate
PathBCode(w) ==
    CASE RouteOf(w) = "none" -> "route_pymupdf_only"
      [] RouteOf(w) = "short" /\ ~w.mineru -> "mineru_disabled"
      [] RouteOf(w) = "short" /\ w.mineru /\ w.path # "ok" -> "mineru_unavailable"
      [] RouteOf(w) = "long" /\ w.path = "down" -> "grobid_unavailable"
      [] RouteOf(w) = "long" /\ w.path = "garbled" -> "tei_parse_failed"
      [] OTHER -> "found"
PathB(w) ==
    [f \in Fields |-> IF PathBCode(w) = "found" /\ f \in w.b
                      THEN IF RouteOf(w) = "short" THEN "mineru" ELSE "grobid" ELSE ""]

\* Mutant: the second path wins as a whole.
MergeRulesWhole(a, b) == IF b # Nothing THEN b ELSE a

\* merge_with_rules: field by field.
MergeRules(a, b) == [f \in Fields |-> IF b[f] # "" THEN b[f] ELSE a[f]]

\* merge_with_llm: the answer of the model as it is, the rules if there is none.
MergeHeads(w, a, b) ==
    IF w.llm \in {{"off"}, {"fails"}} THEN MergeRules(a, b)
    ELSE [f \in Fields |-> IF f \in w.llm THEN "llm" ELSE ""]

\* _enrich_with_full_text_signals
Enrich(w, h) ==
    [f \in Fields |-> IF h[f] = "" /\ f \in w.tail \cap {"conclusion", "meta"} THEN "text" ELSE h[f]]

\* The conclusion comes before the introduction, which is often long.
PartOrder == <<"meta", "title", "abstract", "keywords", "conclusion", "intro">>

\* The fields with a text, in that order.
PresentParts(h) == FoldLeft(LAMBDA parts, f : IF h[f] # "" THEN Append(parts, f) ELSE parts, <<>>, PartOrder)

\* What is too long is cut at its end: a part takes what the parts before it have left.
TakePart(h, i, f) ==
    LET kept == IF h[f] = "" THEN 0 ELSE IF SizeOf[f] < i.left THEN SizeOf[f] ELSE i.left
    IN IF kept = 0 THEN i ELSE [text |-> Append(i.text, [field |-> f, kept |-> kept]), left |-> i.left - kept]

\* format_classifier_input
FormatInput(h) == FoldLeft(LAMBDA i, f : TakePart(h, i, f), [text |-> <<>>, left |-> InputLimit], PartOrder).text

\* refine_head_async
RefinedHead(w) == Enrich(w, MergeHeads(w, Snippets(w), PathB(w)))
RefineHead(w) ==
    LET text == FormatInput(RefinedHead(w))
    IN [head |-> RefinedHead(w),
        input |-> IF text = <<>> /\ Snippets(w)["title"] # "" THEN <<[field |-> "title", kept |-> SizeOf["title"]]>> ELSE text,
        codes |-> ({PathBCode(w)} \ {"found"}) \cup (IF w.front = {"unreadable"} THEN {"pymupdf_head_failed"} ELSE {})]

-----------------------------------------------------------------------------
\* ---- Reading an input back ----------------------------------------------
\* The labels that end a section.
Stops(f) ==
    CASE f = "title" -> Fields \ {"title"}
      [] f = "abstract" -> {"keywords", "intro", "conclusion", "meta"}
      [] f = "keywords" -> {"intro", "conclusion", "meta"}
      [] f = "intro" -> {"conclusion", "meta"}
      [] f = "conclusion" -> {"meta"}
      [] f = "meta" -> {}

\* parse_classifier_sections: for every field the labels of the parts that become its
\* text.  A title must come first, everything else must follow something.
ParseSections(text) ==
    LET Starts(f) == {k \in DOMAIN text : text[k] = f /\ (f = "title") = (k = 1)}
        End(f, k) == {j \in (k + 1)..Len(text) : text[j] \in Stops(f)}
        Until(f, k) == IF End(f, k) = {} THEN Len(text) ELSE Min(End(f, k)) - 1
    IN [f \in Fields |-> IF Starts(f) = {} THEN {}
                         ELSE {text[j] : j \in Min(Starts(f))..Until(f, Min(Starts(f)))}]

-----------------------------------------------------------------------------
\* ---- Classification -------------------------------------------------------
\* c is one configuration and what the model does in it: enabled, twophase, core (the
\* second interrogation), spare (a fallback model), lenient (keywords allowed); and
\* for each call "ok" or "bad" (no answer, no JSON, or a field that must not be
\* empty), for judge with either model.

\* judge_with_llm: two tries, the second with the fallback model if there is one.
Judge(c) ==
    \/ c.judge["primary"] = "ok"
    \/ IF c.spare THEN c.judge["fallback"] = "ok" ELSE c.judge["primaryAgain"] = "ok"

\* classify_with_llm: every stage must succeed.
LlmAnswers(c) ==
    /\ c.twophase => c.profile = "ok" /\ (c.core => c.interrogation = "ok")
    /\ Judge(c)

\* classify_heuristic: the paradigm with more of its keywords, HSS on a tie.
Choose(stem, hss) == IF hss > stem \/ (hss = stem /\ hss > 0) THEN "HSS" ELSE "STEM"

\* In hundredths.
Confidence(stem, hss) ==
    LET gap == IF stem > hss THEN stem - hss ELSE hss - stem
        raw == 62 + 7 * gap + 2 * (stem + hss)
    IN IF stem + hss = 0 THEN 55 ELSE IF raw > 95 THEN 95 ELSE raw

Keywords(c) ==
    [by |-> "keywords", paradigm |-> Choose(c.stem, c.hss), confidence |-> Confidence(c.stem, c.hss),
     codes |-> {"classifier_heuristic_fallback"}]

\* classify, in live mode
Classify(c) ==
    CASE ~c.enabled -> Keywords(c)
      [] c.enabled /\ LlmAnswers(c) -> [by |-> "llm", paradigm |-> c.verdict, confidence |-> 90, codes |-> {}]
      [] c.enabled /\ ~LlmAnswers(c) /\ c.lenient -> Keywords(c)
      [] OTHER -> [by |-> "nobody", paradigm |-> "", confidence |-> 0, codes |-> {}]

-----------------------------------------------------------------------------
\* Unless the model decides, what one path found is in the head, whatever happened on
\* the other; and a path that gave nothing for a reason says why.
HeadIsComplete(w, r) ==
    /\ w.llm \in {{"off"}, {"fails"}} =>
          \A f \in Fields :
             \/ w.front # {"unreadable"} /\ f \in w.front \ {"conclusion"}
             \/ f \in w.b /\ w.path = "ok" /\ w.route # "pymupdf_only" /\ (w.short => w.mineru)
             \/ f \in w.tail \cap {"conclusion", "meta"}
             => r.head[f] # ""
    /\ PathB(w) = Nothing /\ w.b # {} => r.codes # {}

\* The conclusion is cut only where all that stands before it leaves no room.
ConclusionKept(w, r) ==
    LET Takes(f) == IF r.head[f] # "" THEN SizeOf[f] ELSE 0
        before == Takes("meta") + Takes("title") + Takes("abstract") + Takes("keywords")
    IN r.head["conclusion"] # "" /\ before + SizeOf["conclusion"] <= InputLimit =>
          \E p \in Range(r.input) : p = [field |-> "conclusion", kept |-> SizeOf["conclusion"]]

\* An input without a meta block that starts with a title and has not both a
\* conclusion and an introduction comes back as it went in.
ReadsBack(h) ==
    h["title"] # "" /\ h["meta"] = "" /\ ~(h["intro"] # "" /\ h["conclusion"] # "") =>
       ParseSections(PresentParts(h)) = [f \in Fields |-> IF h[f] # "" THEN {f} ELSE {}]

\* One failed call of the judge never decides how a paper is read.
JudgeForgives(c, r) ==
    c.enabled /\ (c.twophase => c.profile = "ok" /\ c.interrogation = "ok")
    /\ Cardinality({k \in DOMAIN c.judge : c.judge[k] = "bad"}) <= 1 => r.by = "llm"
=============================================================================
