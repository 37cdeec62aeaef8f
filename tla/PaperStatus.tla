---------------------------- MODULE PaperStatus ----------------------------
(***************************************************************************)
(* The lifecycle vocabulary of a paper: the public statuses, the pipeline  *)
(* stages, the transition table that progressive writes obey and the       *)
(* contract that ties the status of the papers row to the stage of the     *)
(* pipeline_runs row.  "absent" stands for a paper without a row.          *)
(***************************************************************************)

Statuses == {"pending", "processing", "indexing", "ready",
             "ready_with_warnings", "failed"}

TerminalReady == {"ready", "ready_with_warnings"}
OrphanStatuses == {"pending", "processing"}
ActiveStatuses == {"processing", "indexing"}

ProcessingStages == {"ingesting", "head_refining", "classifying",
                     "extracting", "storing"}
Stages == ProcessingStages \cup {"indexing", "ready", "failed"}

NoStage == "none"

\* The edges _apply admits between the status it reads and the one it writes.
AllowedTransitions ==
    ({"pending"}    \X (Statuses \ {"pending"}))
        \cup ({"processing"} \X (Statuses \ {"pending"}))
        \cup ({"indexing"}   \X ({"indexing", "failed"} \cup TerminalReady))
        \cup (TerminalReady  \X ({"processing", "failed"} \cup TerminalReady))
        \cup ({"failed"}     \X {"failed", "pending", "processing"})

MayBecome(from, to) == <<from, to>> \in AllowedTransitions

\* validate_status_contract: which stage goes with which status (the percent
\* is a function of the stage).
ContractStages(status) ==
    CASE status = "pending"     -> {NoStage}
      [] status = "processing"  -> ProcessingStages
      [] status = "indexing"    -> {"indexing"}
      [] status \in TerminalReady -> {"ready"}
      [] status = "failed"      -> {"failed"}

=============================================================================
