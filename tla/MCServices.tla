----------------------------- MODULE MCServices -----------------------------
(***************************************************************************)
(* The services around the pipeline, on one instance each: an answer       *)
(* stream, the retrieval behind a question beside a reextract, the event   *)
(* bus, patrol requests, one extraction and the refinement of a head.      *)
(* They share no state in these models; focus, chosen once, names the one  *)
(* that moves.                                                             *)
(***************************************************************************)
EXTENDS QaStream, QaRetrieval, EventBus, Patrol, Extraction, HeadRefine

VARIABLE focus

\* Every kind of piece an answer is made of, three or four of them in a row.
Pieces ==
    {<<"x">>, <<" ">>, <<"tick">>, <<"star">>, <<"star", "star">>, <<"#">>, <<"NL">>,
     <<"[", "C", "x", "]">>, <<"[", "C">>, <<"]">>, <<".">>, <<"[">>}
MCAnswers ==
    {a \o b \o c \o d : a \in Pieces, b \in Pieces, c \in Pieces, d \in {<<>>, <<"x">>}}

MCInit ==
    /\ focus \in {"stream", "retrieval", "bus", "patrol", "extraction", "head"}
    /\ StreamInit /\ (focus # "stream" => whole = <<"x", "x", "x">>)
    /\ QaInit /\ (focus # "retrieval" => served = OldRun /\ rows = {OldRun} \X Kinds)
    /\ BusInit
    /\ PatrolInit
    /\ HeadInit
    /\ ExtractionInit /\ (focus # "extraction" => route = "off")

MCNext ==
    /\ UNCHANGED focus
    /\ \/ focus = "stream" /\ StreamNext /\ UNCHANGED <<qaVars, busVars, patrolVars, extractionVars, headVars>>
       \/ focus = "retrieval" /\ QaNext /\ UNCHANGED <<streamVars, busVars, patrolVars, extractionVars, headVars>>
       \/ focus = "bus" /\ BusNext /\ UNCHANGED <<streamVars, qaVars, patrolVars, extractionVars, headVars>>
       \/ focus = "patrol" /\ PatrolNext /\ UNCHANGED <<streamVars, qaVars, busVars, extractionVars, headVars>>
       \/ focus = "extraction" /\ ExtractionNext /\ UNCHANGED <<streamVars, qaVars, busVars, patrolVars, headVars>>
       \/ focus = "head" /\ HeadNext /\ UNCHANGED <<streamVars, qaVars, busVars, patrolVars, extractionVars>>

MCSpec == MCInit /\ [][MCNext]_<<focus, streamVars, qaVars, busVars, patrolVars, extractionVars, headVars>>
=============================================================================
