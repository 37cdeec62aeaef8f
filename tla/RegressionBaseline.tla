------------------------- MODULE RegressionBaseline -------------------------
(***************************************************************************)
(* The regression of the parser's quality on a corpus: a report of a batch *)
(* becomes the committed baseline, later reports are compared with it.     *)
(*                                                                         *)
(* A report is [ids, rows]: the papers in order, and for those that were   *)
(* processed [pages, score]; pages is Unknown if it is not a number, score *)
(* holds the totals of the parsers that ran.                               *)
(***************************************************************************)
EXTENDS Naturals, Sequences, SequencesExt, Functions

CONSTANTS
    Unknown,         \* Python's None
    ShortPageLimit   \* a longer document is parsed by another back end

ASSUME RegressionBaselineAssumption == Unknown \notin 0..4

Fields3 == {"pymupdf_sync", "path_b", "dual_route_rules"}

-----------------------------------------------------------------------------
\* _path_b_key_for_pages
PathBKey(pages) ==
    IF pages = Unknown THEN "path_b"
    ELSE IF pages <= ShortPageLimit THEN "mineru_pipeline" ELSE "grobid_crf"

\* _quality_total
ScoreOf(row, key) == IF key \in DOMAIN row.score THEN row.score[key] ELSE Unknown

\* extract_paper_quality_from_report
QualityOf(row, pages) ==
    [f \in Fields3 |-> ScoreOf(row, IF f = "path_b" THEN PathBKey(pages) ELSE f)]

Counted(x) == IF x = Unknown THEN 0 ELSE x

\* summarize_report: what is missing counts for nothing.
TotalsOf(report) ==
    LET present == SelectSeq(report.ids, LAMBDA p : p \in DOMAIN report.rows)
    IN [f \in Fields3 |->
          FoldLeft(LAMBDA n, p : n + Counted(QualityOf(report.rows[p], report.rows[p].pages)[f]), 0, present)]

\* _assert_monotonicity and the constraints of a comparison: two parsers together are
\* no worse than each alone.
NoWorse(quality) ==
    \A f \in {"pymupdf_sync", "path_b"} :
        Unknown \notin {quality["dual_route_rules"], quality[f]} => quality["dual_route_rules"] >= quality[f]

\* validate_baseline
ValidBaseline(b) ==
    /\ Range(b.ids) = DOMAIN b.papers
    /\ \A p \in DOMAIN b.papers : \A f \in Fields3 : b.papers[p].quality[f] \in 0..4
    /\ \A p \in DOMAIN b.papers : NoWorse(b.papers[p].quality)

\* build_baseline_from_report: {} if what it has built is refused.
BaselinesFrom(report) ==
    LET b == [ids |-> report.ids, totals |-> TotalsOf(report),
              papers |-> [p \in Range(report.ids) \cap DOMAIN report.rows |->
                            [pages |-> report.rows[p].pages,
                             quality |-> QualityOf(report.rows[p], report.rows[p].pages)]]]
    IN IF ValidBaseline(b) THEN {b} ELSE {}

PagesFor(report, b, p) ==
    IF report.rows[p].pages # Unknown THEN report.rows[p].pages ELSE b.papers[p].pages

ScoreDiffs(report, b, p) ==
    IF p \notin DOMAIN report.rows THEN {"missing_row"}
    ELSE {f \in Fields3 : QualityOf(report.rows[p], PagesFor(report, b, p))[f] # b.papers[p].quality[f]}

\* compare_report_to_baseline
ReportOk(report, b) ==
    /\ \A i \in DOMAIN b.ids : ScoreDiffs(report, b, b.ids[i]) = {}
    /\ \A p \in Range(b.ids) \cap DOMAIN report.rows : NoWorse(QualityOf(report.rows[p], PagesFor(report, b, p)))
    /\ TotalsOf(report)["dual_route_rules"] = b.totals["dual_route_rules"]

-----------------------------------------------------------------------------
\* What a green comparison promises: of every paper of the corpus the parser that fits its
\* length, the plain one and both together ran and reached what they once did.
NothingGotWorse(first, later) ==
    \A p \in Range(first.ids) :
        /\ p \in DOMAIN later.rows
        /\ LET pages == IF later.rows[p].pages # Unknown THEN later.rows[p].pages ELSE first.rows[p].pages
               was == QualityOf(first.rows[p], first.rows[p].pages)
               is == QualityOf(later.rows[p], pages)
           IN Unknown \notin Range(is) /\ \A f \in Fields3 : is[f] >= was[f]
=============================================================================
