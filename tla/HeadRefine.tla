----------------------------- MODULE HeadRefine -----------------------------
(***************************************************************************)
(* The refinement of a paper's head beside its pipeline: a task of its own *)
(* that stores a record in the end, the pipeline that polls for the record *)
(* until a deadline, and a reextract or delete that cancels both.  All of  *)
(* it runs on the main loop; one action is one piece between two awaits.   *)
(* DocumentHead says what is in the record.                                *)
(***************************************************************************)
EXTENDS Naturals, FiniteSets

CONSTANTS
    MaxRefiners,   \* bound: refinement tasks that are ever created
    MaxReextracts  \* bound: reextracts before the delete

ASSUME BoundsAreNat == MaxRefiners \in Nat \ {0} /\ MaxReextracts \in Nat

VARIABLES
    refiner,     \* refiner[r]: [state, gen] of the r-th task
    registered,  \* the task in the registry, 0 for none
    stored,      \* the record on disk
    warned,      \* head_refine_warnings of the run row
    waiter,      \* the pipeline
    read,        \* what the pipeline hands to the classifier
    wiper,       \* the request
    epoch,       \* the current generation
    rowLeft      \* the paper has its rows

headVars == <<refiner, registered, stored, warned, waiter, read, wiper, epoch, rowLeft>>

Refiners == 1..MaxRefiners
NoRecord == [by |-> 0, gen |-> 0, text |-> FALSE, codes |-> {}]
HeadCodes == {{}, {"grobid_unavailable"}}
Records == {NoRecord} \cup [by : Refiners, gen : 1..(MaxReextracts + 1), text : BOOLEAN, codes : HeadCodes]

NoTask == [state |-> "unborn", gen |-> 0]
Unborn == {r \in Refiners : refiner[r].state = "unborn"}
Fresh1 == CHOOSE r \in Unborn : TRUE

\* ensure_head_refine_scheduled: nothing if a task is at work, and a new one if the
\* last has already finished.
Ensured(tasks, reg, gen) ==
    IF reg # 0 /\ tasks[reg].state \in {"working", "cancelled"} THEN [tasks |-> tasks, reg |-> reg]
    ELSE [tasks |-> [tasks EXCEPT ![Fresh1] = [state |-> "working", gen |-> gen]], reg |-> Fresh1]

\* schedule_paper_pipeline
Start(gen) ==
    LET e == Ensured(refiner, registered, gen)
    IN refiner' = e.tasks /\ registered' = e.reg /\ waiter' = "ingest"

HeadInit ==
    /\ refiner = [r \in Refiners |-> IF r = 1 THEN [state |-> "working", gen |-> 1] ELSE NoTask]
    /\ registered = 1
    /\ stored = NoRecord
    /\ warned = {}
    /\ waiter = "ingest"
    /\ read = "nothing"
    /\ wiper = [step |-> "idle", kind |-> "none", awaits |-> 0]
    /\ epoch = 1
    /\ rowLeft = TRUE

-----------------------------------------------------------------------------
\* ---- The refinement -----------------------------------------------------
Unregisters(r) == registered' = IF registered = r THEN 0 ELSE registered

\* apply_head_refine: the warnings need the run row, the record does not.
Apply(r) ==
    \E text \in BOOLEAN, codes \in HeadCodes :
       /\ refiner[r].state = "working"
       /\ IF codes # {} /\ ~rowLeft THEN UNCHANGED <<stored, warned>>
          ELSE /\ warned' = IF rowLeft THEN warned \cup codes ELSE warned
               /\ stored' = [by |-> r, gen |-> refiner[r].gen, text |-> text, codes |-> codes]
       /\ refiner' = [refiner EXCEPT ![r].state = "done"]
       /\ Unregisters(r)
       /\ UNCHANGED <<waiter, read, wiper, epoch, rowLeft>>

\* _refine_head_safe: any exception but a cancellation is logged.
RefineFails(r) ==
    /\ refiner[r].state = "working"
    /\ refiner' = [refiner EXCEPT ![r].state = "done"]
    /\ Unregisters(r)
    /\ UNCHANGED <<stored, warned, waiter, read, wiper, epoch, rowLeft>>

Cancelled(r) ==
    /\ refiner[r].state = "cancelled"
    /\ refiner' = [refiner EXCEPT ![r].state = "done"]
    /\ Unregisters(r)
    /\ UNCHANGED <<stored, warned, waiter, read, wiper, epoch, rowLeft>>

-----------------------------------------------------------------------------
\* ---- The pipeline -------------------------------------------------------
\* wait_head_refine_node: the refinement is scheduled again if it is over.
BeginWait ==
    /\ waiter = "ingest"
    /\ registered = 0 => Unborn # {}
    /\ LET e == Ensured(refiner, registered, epoch) IN refiner' = e.tasks /\ registered' = e.reg
    /\ waiter' = "wait"
    /\ UNCHANGED <<stored, warned, read, wiper, epoch, rowLeft>>

\* A record without text is no record for the poll.
PollFinds ==
    /\ waiter = "wait"
    /\ stored.text
    /\ waiter' = "classify"
    /\ read' = IF stored.gen = epoch THEN "own" ELSE "old"
    /\ UNCHANGED <<refiner, registered, stored, warned, wiper, epoch, rowLeft>>

\* Mutant: a time-out is not worth a warning.
TimeoutCodesNone == {}

TimeoutCodes == {"head_refine_timeout"}

\* The deadline is looked at before the record, which may have come during the sleep.
WaitEnds ==
    /\ waiter = "wait"
    /\ waiter' = "classify"
    /\ read' = "fallback"
    /\ warned' = warned \cup TimeoutCodes
    /\ UNCHANGED <<refiner, registered, stored, wiper, epoch, rowLeft>>

\* The pipeline fails, or is done; the refinement goes on.
WaiterEnds ==
    /\ waiter \in {"ingest", "classify"}
    /\ waiter' = "over"
    /\ UNCHANGED <<refiner, registered, stored, warned, read, wiper, epoch, rowLeft>>

-----------------------------------------------------------------------------
\* ---- Reextract and delete -----------------------------------------------
\* Mutant: only the pipeline is cancelled.
CancelsNone == 0

\* cancel_paper_tasks: the refinement that is registered.
Cancels == IF registered # 0 /\ refiner[registered].state \in {"working", "cancelled"} THEN registered ELSE 0

WipeBegins ==
    \E kind \in {"reextract", "delete"} :
       /\ wiper.step = "idle"
       /\ rowLeft
       /\ kind = "reextract" => epoch <= MaxReextracts
       /\ wiper' = [step |-> "abort", kind |-> kind, awaits |-> Cancels]
       /\ waiter' = "over"
       /\ refiner' = [r \in Refiners |-> IF r = Cancels THEN [refiner[r] EXCEPT !.state = "cancelled"] ELSE refiner[r]]
       /\ UNCHANGED <<registered, stored, warned, read, epoch, rowLeft>>

\* abort_in_flight_pipeline waits for what it cancelled.
Aborted ==
    /\ wiper.step = "abort"
    /\ wiper.awaits # 0 => refiner[wiper.awaits].state = "done"
    /\ wiper' = [wiper EXCEPT !.step = "purge"]
    /\ UNCHANGED <<refiner, registered, stored, warned, waiter, read, epoch, rowLeft>>

PurgeFails ==
    /\ wiper.step = "purge"
    /\ wiper.kind = "delete"
    /\ wiper' = [step |-> "idle", kind |-> "none", awaits |-> 0]
    /\ UNCHANGED <<refiner, registered, stored, warned, waiter, read, epoch, rowLeft>>

\* _clear_persisted_artefacts, _delete_graph_stores
ClearedHead == NoRecord

ReextractEnds ==
    /\ wiper.step = "purge"
    /\ wiper.kind = "reextract"
    /\ registered = 0 => Unborn # {}
    /\ stored' = ClearedHead
    /\ warned' = {}
    /\ epoch' = epoch + 1
    /\ read' = "nothing"
    /\ Start(epoch + 1)
    /\ wiper' = [step |-> "idle", kind |-> "none", awaits |-> 0]
    /\ UNCHANGED rowLeft

DeleteEnds ==
    /\ wiper.step = "purge"
    /\ wiper.kind = "delete"
    /\ stored' = ClearedHead
    /\ rowLeft' = FALSE
    /\ wiper' = [wiper EXCEPT !.step = "end"]
    /\ UNCHANGED <<refiner, registered, warned, waiter, read, epoch>>

HeadNext ==
    \/ \E r \in Refiners : Apply(r) \/ RefineFails(r) \/ Cancelled(r)
    \/ BeginWait \/ PollFinds \/ WaitEnds \/ WaiterEnds
    \/ WipeBegins \/ Aborted \/ PurgeFails \/ ReextractEnds \/ DeleteEnds

HeadSpec == HeadInit /\ [][HeadNext]_headVars

-----------------------------------------------------------------------------
HeadTypeOK ==
    /\ refiner \in [Refiners -> [state : {"unborn", "working", "cancelled", "done"}, gen : 0..(MaxReextracts + 1)]]
    /\ registered \in Refiners \cup {0}
    /\ stored \in Records
    /\ warned \subseteq {"grobid_unavailable", "head_refine_timeout"}
    /\ waiter \in {"ingest", "wait", "classify", "over"}
    /\ read \in {"nothing", "own", "old", "fallback"}
    /\ wiper \in [step : {"idle", "abort", "purge", "end"}, kind : {"none", "reextract", "delete"}, awaits : Refiners \cup {0}]
    /\ epoch \in 1..(MaxReextracts + 1)
    /\ rowLeft \in BOOLEAN

\* A reextract reads the paper afresh: no refinement of an earlier epoch, stored late
\* or left over, becomes the input of the classifier.
NoStaleHead == read # "old"

\* A paper that was classified by the raw snippets carries the warning, whatever the
\* refinements that end later write.
FallbackTold == read = "fallback" => "head_refine_timeout" \in warned

\* No refinement outlives a delete and writes the head of a paper that is gone.
NoHeadOfDeleted == ~rowLeft => stored = NoRecord

\* A head belongs to the text the paper has now: none of an earlier text is read, none of
\* a deleted paper is left.
HeadOfThisText == NoStaleHead /\ NoHeadOfDeleted
=============================================================================
