------------------------ MODULE PaperPipelineProofs ------------------------
(***************************************************************************)
(* Type correctness and safety of PaperPipeline for every set of runs and  *)
(* requests and any bound on crashes, with or without faults and watchdog. *)
(***************************************************************************)
EXTENDS PaperPipeline, FiniteSetTheorems, TLAPS

-----------------------------------------------------------------------------
(* Type correctness.                                                       *)

\* Tasks are pairs; after this lemma nobody looks inside them.
LEMMA TaskFacts ==
    /\ \A r \in Runs : /\ Pipe(r) \in Tasks /\ Full(r) \in Tasks
                       /\ RunOf(Pipe(r)) = r /\ RunOf(Full(r)) = r
                       /\ IsPipe(Pipe(r)) /\ ~IsPipe(Full(r))
    /\ \A t \in Tasks : /\ RunOf(t) \in Runs
                        /\ IsPipe(t) => t = Pipe(RunOf(t))
                        /\ ~IsPipe(t) => t = Full(RunOf(t))
BY DEF Tasks, Pipe, Full, RunOf, IsPipe

\* A node's next stage is one the contract knows; its successor is a control
\* point.
LEMMA NodeFacts ==
    \A p \in NodePcs : /\ StageAfter[p] \in ProcessingStages
                       /\ PcAfter[p] \in NodePcs \cup {"guard"}
BY DEF NodePcs, StageAfter, PcAfter, ProcessingStages

\* The words the actions write are statuses and stages.
LEMMA Words ==
    /\ {"pending", "processing", "indexing", "ready_with_warnings", "failed"}
         \subseteq Statuses
    /\ TerminalReady \subseteq Statuses
    /\ ProcessingStages \cup {"ingesting", "extracting", "indexing", "ready", "failed"}
         \subseteq Stages
BY DEF Statuses, Stages, ProcessingStages, TerminalReady

\* The control points the actions write are control points of tasks.
LEMMA PcFacts ==
    /\ NodePcs \cup AwaitPcs \cup HoldPcs \cup {"new", "done"} \subseteq TaskPcs
    /\ NodePcs \cup {"queued", "route_fail", "ensure", "drain", "chunking"}
         \subseteq AwaitPcs
    /\ {"mint", "guard", "save", "recheck", "commit", "publish", "fail_full"}
         \subseteq HoldPcs
    /\ "begun" \in NodePcs
BY DEF TaskPcs, AwaitPcs, HoldPcs, NodePcs

\* save_status keeps the two rows well typed.
LEMMA SaveTypes ==
    ASSUME RowTypes, NEW st \in Statuses, NEW sg \in Stages \cup {NoStage},
           SaveStatus(st, sg) \/ Persist(st, sg), gen' \in Runs \cup {NoRun}
    PROVE  RowTypes'
BY DEF RowTypes, snapshot, SaveStatus, Persist

\* A task that moves on keeps the registry well typed,
LEMMA GotoTypes ==
    ASSUME TaskTypes, NEW t \in Tasks, NEW next \in TaskPcs, Goto(t, next)
    PROVE  TaskTypes'
BY DEF TaskTypes, Goto

\* so does one that ends and unregisters itself (the finally blocks),
LEMMA FinishTypes ==
    ASSUME TaskTypes, NEW t \in Tasks, Finish(t)
    PROVE  TaskTypes'
BY PcFacts DEF TaskTypes, Finish, Unregister

\* What the registry holds are tasks.
LEMMA RegisteredFacts == Registered \subseteq Tasks
BY DEF Registered

\* and so does schedule_paper_pipeline.
LEMMA ScheduleTypes ==
    ASSUME TaskTypes, NEW r \in Runs, Schedule(r)
    PROVE  TaskTypes'
BY TaskFacts, PcFacts, RegisteredFacts DEF TaskTypes, Schedule

\* A revoked handler is a handler.
LEMMA RevokedTypes ==
    ASSUME RagTypes
    PROVE  Revoked(rag) \in [pc : {"idle", "taken", "index", "promote", "write"},
                             run : Runs \cup {NoRun}, ok : BOOLEAN, revoked : BOOLEAN]
BY DEF RagTypes, Revoked

\* The control points the requests and the posted abort write.
LEMMA OpFacts ==
    /\ {"idle", "claim", "purge", "release", "abort", "await_pipe", "await_head",
        "await_full", "wipe", "reset", "requeue", "clear", "schedule", "rm_graph",
        "rm_pdf", "rm_row"}
         \subseteq OpPcs
    /\ Ops \subseteq Aborters /\ Dog \in Aborters
BY DEF OpPcs, AbortPcs, OpHoldPcs, Aborters

\* Where an abort goes on (abort_in_flight_pipeline) is a control point.
LEMMA AfterAbortTypes == \A a \in Aborters : AfterAbort(a) \in OpPcs
BY OpFacts DEF AfterAbort

\* The empty database and the empty registry are well typed.
LEMMA TypeInit == Init => TypeOK
<1> SUFFICES ASSUME Init PROVE TypeOK
  OBVIOUS
<1>1. RowTypes
  BY DEF Init, RowTypes, snapshot, Statuses, NoStage
<1>2. DiskTypes
  BY DEF Init, DiskTypes
<1>3. TaskTypes
  BY DEF Init, TaskTypes, TaskPcs
<1>4. OpTypes
  BY DEF Init, OpTypes, OpPcs
<1>5. RagTypes
  <2>1. abandoned \in BOOLEAN
    BY Zenon DEF Init
  <2> QED
    BY <2>1 DEF Init, RagTypes, IdleRag
<1>6. ThreadTypes
  BY DEF Init, ThreadTypes, IdleDog
<1> QED
  BY <1>1, <1>2, <1>3, <1>4, <1>5, <1>6, ConstantsAssumption
  DEF Init, TypeOK, ConstantsAssumption

\* Every step of the upload, the tasks, the handler, the watchdogs, the
\* requests and the restart keeps every variable well typed.
LEMMA TypeStep == TypeOK /\ [Next]_vars => TypeOK'
<1> SUFFICES ASSUME TypeOK, [Next]_vars PROVE TypeOK'
  OBVIOUS
<1> USE DEF TypeOK
<1>1. ASSUME CreateFromUpload PROVE TypeOK'
  <2>1. RowTypes'
    BY <1>1, Words
    DEF CreateFromUpload, RowTypes, snapshot
  <2>2. DiskTypes'
    BY <1>1
    DEF CreateFromUpload, DiskTypes
  <2> QED
    BY <1>1, <2>1, <2>2
    DEF CreateFromUpload, TaskTypes, OpTypes, RagTypes, ThreadTypes, taskVars,
        opVars, ragVars
<1>2. ASSUME QueueUpload PROVE TypeOK'
  <2>1. RowTypes'
    BY <1>2, SaveTypes, Words
    DEF QueueUpload, RowTypes, snapshot
  <2>2. TaskTypes'
    BY <1>2, ScheduleTypes, TaskFacts, PcFacts
    DEF QueueUpload, TaskTypes, taskVars
  <2> QED
    BY <1>2, <2>1, <2>2
    DEF QueueUpload, DiskTypes, OpTypes, RagTypes, ThreadTypes, diskVars,
        opVars, ragVars
<1>3. ASSUME NEW r \in Runs, StartPipeline(r) PROVE TypeOK'
  <2>1. RowTypes'
    BY <1>3, SaveTypes, Words
    DEF StartPipeline, RowTypes, snapshot, Resumes
  <2>2. TaskTypes'
    BY <1>3, GotoTypes, FinishTypes, TaskFacts, PcFacts
    DEF StartPipeline, TaskTypes, Resumes
  <2>3. (loop \in Tasks \cup Ops \cup {Free})'
    BY <1>3, TaskFacts
    DEF StartPipeline, Resumes
  <2> QED
    BY <1>3, <2>1, <2>2, <2>3
    DEF StartPipeline, DiskTypes, OpTypes, RagTypes, ThreadTypes, diskVars,
        opVars, ragVars
<1>4. ASSUME NEW r \in Runs, MintGeneration(r) PROVE TypeOK'
  <2>1. RowTypes'
    BY <1>4
    DEF MintGeneration, RowTypes, snapshot, Holds
  <2>2. TaskTypes'
    BY <1>4, GotoTypes, TaskFacts, PcFacts
    DEF MintGeneration, TaskTypes, Holds
  <2>3. (loop \in Tasks \cup Ops \cup {Free})'
    BY <1>4, TaskFacts
    DEF MintGeneration, Holds
  <2> QED
    BY <1>4, <2>1, <2>2, <2>3
    DEF MintGeneration, DiskTypes, OpTypes, RagTypes, ThreadTypes, diskVars,
        opVars, ragVars
<1>5. ASSUME NEW r \in Runs, Advance(r) PROVE TypeOK'
  <2>1. RowTypes'
    BY <1>5, SaveTypes, Words, NodeFacts
    DEF Advance, RowTypes, snapshot, Resumes
  <2>2. TaskTypes'
    BY <1>5, GotoTypes, FinishTypes, TaskFacts, PcFacts, NodeFacts
    DEF Advance, TaskTypes, Resumes, NodePcs
  <2>3. (loop \in Tasks \cup Ops \cup {Free})'
    BY <1>5, TaskFacts
    DEF Advance, Resumes
  <2> QED
    BY <1>5, <2>1, <2>2, <2>3
    DEF Advance, DiskTypes, OpTypes, RagTypes, ThreadTypes, diskVars, opVars,
        ragVars
<1>6. ASSUME NEW r \in Runs, NodeFails(r) PROVE TypeOK'
  <2>1. TaskTypes'
    BY <1>6, GotoTypes, TaskFacts, PcFacts
    DEF NodeFails, TaskTypes, Resumes
  <2> QED
    BY <1>6, <2>1
    DEF NodeFails, RowTypes, snapshot, DiskTypes, OpTypes, RagTypes, ThreadTypes,
        rowVars, diskVars, opVars, ragVars
<1>7. ASSUME NEW r \in Runs, PipelineDies(r) PROVE TypeOK'
  <2>1. TaskTypes'
    BY <1>7, FinishTypes, TaskFacts, PcFacts
    DEF PipelineDies, TaskTypes, Resumes, NodePcs
  <2> QED
    BY <1>7, <2>1
    DEF PipelineDies, RowTypes, snapshot, DiskTypes, OpTypes, RagTypes, ThreadTypes,
        rowVars, diskVars, opVars, ragVars
<1>8. ASSUME NEW r \in Runs, HandOverToFull(r) PROVE TypeOK'
  <2>1. TaskTypes'
    BY <1>8, TaskFacts, PcFacts
    DEF HandOverToFull, TaskTypes, Resumes, FullTask
  <2> QED
    BY <1>8, <2>1
    DEF HandOverToFull, RowTypes, snapshot, DiskTypes, OpTypes, RagTypes,
        ThreadTypes, rowVars, diskVars, opVars, ragVars
<1>9. ASSUME NEW r \in Runs, FailNode(r) PROVE TypeOK'
  <2>1. RowTypes'
    BY <1>9, SaveTypes, Words
    DEF FailNode, RowTypes, snapshot, Resumes
  <2>2. TaskTypes'
    BY <1>9, GotoTypes, FinishTypes, TaskFacts, PcFacts
    DEF FailNode, TaskTypes, Resumes
  <2> QED
    BY <1>9, <2>1, <2>2
    DEF FailNode, DiskTypes, OpTypes, RagTypes, ThreadTypes, diskVars, opVars,
        ragVars
<1>10. ASSUME NEW r \in Runs, EnsureFailed(r) PROVE TypeOK'
  <2>1. RowTypes'
    BY <1>10, SaveTypes, Words
    DEF EnsureFailed, RowTypes, snapshot, Resumes
  <2>2. TaskTypes'
    BY <1>10, FinishTypes, TaskFacts, PcFacts
    DEF EnsureFailed, TaskTypes, Resumes
  <2> QED
    BY <1>10, <2>1, <2>2
    DEF EnsureFailed, DiskTypes, OpTypes, RagTypes, ThreadTypes, diskVars,
        opVars, ragVars
<1>11. ASSUME NEW r \in Runs, DrainBus(r) PROVE TypeOK'
  <2>1. TaskTypes'
    BY <1>11, FinishTypes, TaskFacts, PcFacts
    DEF DrainBus, TaskTypes, Resumes
  <2> QED
    BY <1>11, <2>1
    DEF DrainBus, RowTypes, snapshot, DiskTypes, OpTypes, RagTypes, ThreadTypes,
        rowVars, diskVars, opVars, ragVars
<1>12. ASSUME NEW r \in Runs, BeginFull(r) PROVE TypeOK'
  <2>1. RowTypes'
    BY <1>12, SaveTypes, Words
    DEF BeginFull, RowTypes, snapshot, Resumes
  <2>2. TaskTypes'
    BY <1>12, GotoTypes, FinishTypes, TaskFacts, PcFacts
    DEF BeginFull, TaskTypes, Resumes
  <2>3. (loop \in Tasks \cup Ops \cup {Free})'
    BY <1>12, TaskFacts
    DEF BeginFull, Resumes
  <2> QED
    BY <1>12, <2>1, <2>2, <2>3
    DEF BeginFull, DiskTypes, OpTypes, RagTypes, ThreadTypes, diskVars,
        opVars, ragVars
<1>13. ASSUME NEW r \in Runs, EndChunking(r) PROVE TypeOK'
  <2>1. TaskTypes'
    BY <1>13, GotoTypes, TaskFacts, PcFacts
    DEF EndChunking, TaskTypes, Resumes
  <2>2. (loop \in Tasks \cup Ops \cup {Free})'
    BY <1>13, TaskFacts
    DEF EndChunking, Resumes
  <2> QED
    BY <1>13, <2>1, <2>2
    DEF EndChunking, RowTypes, snapshot, DiskTypes, OpTypes, RagTypes, ThreadTypes,
        rowVars, diskVars, opVars, ragVars
<1>14. ASSUME NEW r \in Runs, FailFull(r) PROVE TypeOK'
  <2>1. RowTypes'
    BY <1>14, SaveTypes, Words
    DEF FailFull, RowTypes, snapshot, Holds
  <2>2. TaskTypes'
    BY <1>14, FinishTypes, TaskFacts, PcFacts
    DEF FailFull, TaskTypes, Holds
  <2>3. (loop \in Tasks \cup Ops \cup {Free})'
    BY <1>14, TaskFacts
    DEF FailFull, Holds
  <2> QED
    BY <1>14, <2>1, <2>2, <2>3
    DEF FailFull, DiskTypes, OpTypes, RagTypes, ThreadTypes, diskVars, opVars,
        ragVars
<1>15. ASSUME NEW t \in Tasks, GuardGeneration(t) PROVE TypeOK'
  <2>1. TaskTypes'
    BY <1>15, GotoTypes, TaskFacts, PcFacts
    DEF GuardGeneration, TaskTypes, Holds, FinalizeFails
  <2>2. (loop \in Tasks \cup Ops \cup {Free})'
    BY <1>15, TaskFacts
    DEF GuardGeneration, Holds, FinalizeFails
  <2> QED
    BY <1>15, <2>1, <2>2
    DEF GuardGeneration, RowTypes, snapshot, DiskTypes, OpTypes, RagTypes,
        ThreadTypes, rowVars, diskVars, opVars, ragVars
<1>16. ASSUME NEW t \in Tasks, SaveGraph(t) PROVE TypeOK'
  <2>1. DiskTypes'
    BY <1>16, TaskFacts
    DEF SaveGraph, DiskTypes
  <2>2. TaskTypes'
    BY <1>16, GotoTypes, TaskFacts, PcFacts
    DEF SaveGraph, Breaks, FinalizeFails, TaskTypes, Holds
  <2>3. (loop \in Tasks \cup Ops \cup {Free})'
    BY <1>16, TaskFacts
    DEF SaveGraph, Breaks, FinalizeFails, Holds
  <2> QED
    BY <1>16, <2>1, <2>2, <2>3
    DEF SaveGraph, RowTypes, OpTypes, RagTypes, ThreadTypes, rowVars, opVars,
        ragVars
<1>17. ASSUME NEW t \in Tasks, RecheckGeneration(t) PROVE TypeOK'
  <2>1. TaskTypes'
    BY <1>17, GotoTypes, TaskFacts, PcFacts
    DEF RecheckGeneration, Breaks, TaskTypes, Holds, FinalizeFails
  <2>2. (loop \in Tasks \cup Ops \cup {Free})'
    BY <1>17, TaskFacts
    DEF RecheckGeneration, Breaks, Holds, FinalizeFails
  <2> QED
    BY <1>17, <2>1, <2>2
    DEF RecheckGeneration, Breaks, RowTypes, snapshot, DiskTypes, OpTypes, RagTypes,
        ThreadTypes, rowVars, diskVars, opVars, ragVars
<1>18. ASSUME NEW t \in Tasks, MarkIndexing(t) PROVE TypeOK'
  <2>1. RowTypes'
    BY <1>18, SaveTypes, Words
    DEF MarkIndexing, RowTypes, snapshot
  <2>2. TaskTypes'
    BY <1>18, GotoTypes, TaskFacts, PcFacts
    DEF MarkIndexing, Breaks, FinalizeFails, TaskTypes, Holds
  <2>3. RagTypes'
    BY <1>18
    DEF MarkIndexing, RagTypes
  <2>4. (loop \in Tasks \cup Ops \cup {Free})'
    BY <1>18, TaskFacts
    DEF MarkIndexing, Breaks, FinalizeFails, Holds
  <2> QED
    BY <1>18, <2>1, <2>2, <2>3, <2>4
    DEF MarkIndexing, DiskTypes, OpTypes, ThreadTypes, diskVars, opVars
<1>19. ASSUME NEW t \in Tasks, PublishFinalized(t) PROVE TypeOK'
  <2>1. TaskTypes'
    BY <1>19, GotoTypes, FinishTypes, TaskFacts, PcFacts
    DEF PublishFinalized, Breaks, FinalizeFails, TaskTypes, Holds
  <2>2. RagTypes'
    <3>1. bus' \in Seq(Runs)
      BY <1>19, TaskFacts DEF PublishFinalized, RagTypes
    <3>2. abandoned' \in BOOLEAN
      BY <1>19, Zenon DEF PublishFinalized, RagTypes
    <3> QED
      BY <1>19, <3>1, <3>2 DEF PublishFinalized, RagTypes
  <2>3. (loop \in Tasks \cup Ops \cup {Free})'
    BY <1>19, TaskFacts
    DEF PublishFinalized, Breaks, FinalizeFails, Holds
  <2> QED
    BY <1>19, <2>1, <2>2, <2>3
    DEF PublishFinalized, RowTypes, DiskTypes, OpTypes, ThreadTypes, rowVars,
        diskVars, opVars
<1>20. ASSUME NEW t \in Tasks, DeliverCancel(t) PROVE TypeOK'
  <2>1. TaskTypes'
    BY <1>20, FinishTypes, TaskFacts, PcFacts
    DEF DeliverCancel, TaskTypes, AwaitPcs, NodePcs
  <2> QED
    BY <1>20, <2>1
    DEF DeliverCancel, RowTypes, snapshot, DiskTypes, OpTypes, RagTypes,
        ThreadTypes, rowVars, diskVars, opVars, ragVars
<1>21. ASSUME TakeEvent PROVE TypeOK'
  <2>1. RagTypes'
    BY <1>21
    DEF TakeEvent, RagTypes
  <2> QED
    BY <1>21, <2>1
    DEF TakeEvent, RowTypes, snapshot, DiskTypes, TaskTypes, OpTypes, ThreadTypes,
        rowVars, diskVars, taskVars, opVars
<1>22. ASSUME BeginIndexing PROVE TypeOK'
  <2>1. RowTypes'
    BY <1>22
    DEF BeginIndexing, RowTypes, snapshot
  <2>2. RagTypes'
    BY <1>22
    DEF BeginIndexing, RagTypes
  <2> QED
    BY <1>22, <2>1, <2>2
    DEF BeginIndexing, DiskTypes, TaskTypes, OpTypes, ThreadTypes, diskVars,
        taskVars, opVars
<1>23. ASSUME EndIndexing PROVE TypeOK'
  <2>1. DiskTypes'
    BY <1>23
    DEF EndIndexing, DiskTypes, RagTypes
  <2>2. RagTypes'
    BY <1>23
    DEF EndIndexing, RagTypes
  <2> QED
    BY <1>23, <2>1, <2>2
    DEF EndIndexing, RowTypes, snapshot, TaskTypes, OpTypes, ThreadTypes, rowVars,
        taskVars, opVars
<1>24. ASSUME ReadForPromotion PROVE TypeOK'
  <2>1. RagTypes'
    BY <1>24
    DEF ReadForPromotion, RagTypes, IdleRag
  <2> QED
    BY <1>24, <2>1
    DEF ReadForPromotion, RowTypes, snapshot, DiskTypes, TaskTypes, OpTypes,
        ThreadTypes, rowVars, diskVars, taskVars, opVars
<1>25. ASSUME WritePromotion PROVE TypeOK'
  <2>1. RowTypes'
    BY <1>25, SaveTypes, Words
    DEF WritePromotion, RowTypes, snapshot
  <2>2. RagTypes'
    BY <1>25
    DEF WritePromotion, RagTypes, IdleRag
  <2> QED
    BY <1>25, <2>1, <2>2
    DEF WritePromotion, DiskTypes, TaskTypes, OpTypes, ThreadTypes, diskVars,
        taskVars, opVars
<1>26. ASSUME HandlerDies PROVE TypeOK'
  <2>1. RowTypes'
    BY <1>26
    DEF HandlerDies, RowTypes
  <2>2. RagTypes'
    BY <1>26
    DEF HandlerDies, RagTypes, IdleRag
  <2> QED
    BY <1>26, <2>1, <2>2
    DEF HandlerDies, DiskTypes, TaskTypes, OpTypes, ThreadTypes, diskVars,
        taskVars, opVars
<1>27. ASSUME Age PROVE TypeOK'
  <2>1. RowTypes'
    BY <1>27
    DEF Age, RowTypes, snapshot
  <2> QED
    BY <1>27, <2>1
    DEF Age, DiskTypes, TaskTypes, OpTypes, RagTypes, ThreadTypes, diskVars,
        taskVars, opVars, ragVars
<1>28. ASSUME DogLists PROVE TypeOK'
  <2>1. ThreadTypes'
    BY <1>28
    DEF DogLists, ThreadTypes, DogAt
  <2> QED
    BY <1>28, <2>1
    DEF DogLists, RowTypes, snapshot, DiskTypes, TaskTypes, OpTypes, RagTypes,
        rowVars, diskVars, taskVars, opVars, ragVars
<1>29. ASSUME DogRenews PROVE TypeOK'
  <2>1. RowTypes'
    BY <1>29
    DEF DogRenews, RowTypes, snapshot
  <2>2. ThreadTypes'
    BY <1>29
    DEF DogRenews, ThreadTypes, DogAt
  <2> QED
    BY <1>29, <2>1, <2>2
    DEF DogRenews, DiskTypes, TaskTypes, OpTypes, RagTypes, diskVars,
        taskVars, opVars, ragVars
<1>30. ASSUME DogCondemns PROVE TypeOK'
  <2>1. ThreadTypes'
    BY <1>30
    DEF DogCondemns, ThreadTypes, DogAt
  <2> QED
    BY <1>30, <2>1
    DEF DogCondemns, RowTypes, snapshot, DiskTypes, TaskTypes, OpTypes, RagTypes,
        rowVars, diskVars, taskVars, opVars, ragVars
<1>31. ASSUME DogKills PROVE TypeOK'
  <2>1. TaskTypes'
    BY <1>31, TaskFacts, PcFacts, RegisteredFacts
    DEF DogKills, TaskTypes
  <2>2. OpTypes'
    BY <1>31, OpFacts
    DEF DogKills, Holder, OpTypes
  <2>3. RagTypes'
    BY <1>31, RevokedTypes
    DEF DogKills, RagTypes
  <2>4. ThreadTypes'
    BY <1>31
    DEF DogKills, ThreadTypes, DogAt
  <2> QED
    BY <1>31, <2>1, <2>2, <2>3, <2>4
    DEF DogKills, RowTypes, snapshot, DiskTypes, rowVars, diskVars
<1>32. ASSUME DogReads PROVE TypeOK'
  <2>1. ThreadTypes'
    BY <1>32
    DEF DogReads, ThreadTypes, RowTypes, IdleDog
  <2> QED
    BY <1>32, <2>1
    DEF DogReads, RowTypes, snapshot, DiskTypes, TaskTypes, OpTypes, RagTypes,
        rowVars, diskVars, taskVars, opVars, ragVars
<1>33. ASSUME DogWrites PROVE TypeOK'
  <2>1. RowTypes'
    BY <1>33, Words
    DEF DogWrites, RowTypes, snapshot
  <2>2. ThreadTypes'
    BY <1>33
    DEF DogWrites, ThreadTypes, IdleDog
  <2> QED
    BY <1>33, <2>1, <2>2
    DEF DogWrites, DiskTypes, TaskTypes, OpTypes, RagTypes, diskVars,
        taskVars, opVars, ragVars
<1>34. ASSUME IndexingWatchdogReads PROVE TypeOK'
  <2>1. ThreadTypes'
    BY <1>34
    DEF IndexingWatchdogReads, ThreadTypes
  <2> QED
    BY <1>34, <2>1
    DEF IndexingWatchdogReads, RowTypes, snapshot, DiskTypes, TaskTypes, OpTypes,
        RagTypes, rowVars, diskVars, taskVars, opVars, ragVars
<1>35. ASSUME IndexingWatchdogWrites PROVE TypeOK'
  <2>1. RowTypes'
    BY <1>35, SaveTypes, Words
    DEF IndexingWatchdogWrites, RowTypes, snapshot
  <2>2. ThreadTypes'
    BY <1>35
    DEF IndexingWatchdogWrites, ThreadTypes
  <2> QED
    BY <1>35, <2>1, <2>2
    DEF IndexingWatchdogWrites, DiskTypes, TaskTypes, OpTypes, RagTypes,
        diskVars, taskVars, opVars, ragVars
<1>36. ASSUME RepairStatus PROVE TypeOK'
  <2>1. RowTypes'
    BY <1>36, SaveTypes, Words
    DEF RepairStatus, RowTypes, snapshot
  <2> QED
    BY <1>36, <2>1
    DEF RepairStatus, DiskTypes, TaskTypes, OpTypes, RagTypes, ThreadTypes,
        diskVars, taskVars, opVars, ragVars
<1>37. ASSUME NEW a \in Aborters, AbortPipeline(a) PROVE TypeOK'
  <2>1. TaskTypes'
    BY <1>37, TaskFacts, PcFacts
    DEF AbortPipeline, TaskTypes, PipelineTask
  <2>2. OpTypes'
    BY <1>37, OpFacts
    DEF AbortPipeline, OpTypes, TaskTypes, PipelineTask, OpAt
  <2> QED
    BY <1>37, <2>1, <2>2
    DEF AbortPipeline, RowTypes, snapshot, DiskTypes, RagTypes, ThreadTypes,
        rowVars, diskVars, ragVars
<1>38. ASSUME NEW a \in Aborters, UnregisterPipeline(a) PROVE TypeOK'
  <2>1. TaskTypes'
    BY <1>38, TaskFacts, PcFacts
    DEF UnregisterPipeline, TaskTypes, Unregister
  <2>2. OpTypes'
    BY <1>38, OpFacts
    DEF UnregisterPipeline, OpTypes, OpAt
  <2> QED
    BY <1>38, <2>1, <2>2
    DEF UnregisterPipeline, RowTypes, snapshot, DiskTypes, RagTypes, ThreadTypes,
        rowVars, diskVars, ragVars
<1>39. ASSUME NEW a \in Aborters, AbortFull(a) PROVE TypeOK'
  <2>1. TaskTypes'
    BY <1>39, TaskFacts, PcFacts
    DEF AbortFull, TaskTypes, FullTask
  <2>2. OpTypes'
    BY <1>39, OpFacts, AfterAbortTypes
    DEF AbortFull, OpTypes, TaskTypes, OpAt, FullTask
  <2>3. RagTypes'
    BY <1>39, RevokedTypes
    DEF AbortFull, RagTypes
  <2> QED
    BY <1>39, <2>1, <2>2, <2>3
    DEF AbortFull, RowTypes, snapshot, DiskTypes, ThreadTypes, rowVars, diskVars
<1>40. ASSUME NEW a \in Aborters, EndAbort(a) PROVE TypeOK'
  <2>1. OpTypes'
    BY <1>40, OpFacts, AfterAbortTypes
    DEF EndAbort, OpTypes, OpAt
  <2>2. RagTypes'
    BY <1>40, RevokedTypes
    DEF EndAbort, RagTypes
  <2> QED
    BY <1>40, <2>1, <2>2
    DEF EndAbort, RowTypes, snapshot, DiskTypes, TaskTypes, ThreadTypes, rowVars,
        diskVars, taskVars
<1>41. ASSUME NEW o \in Ops, BeginOp(o) PROVE TypeOK'
  <2>1. OpTypes'
    BY <1>41, OpFacts
    DEF BeginOp, OpTypes, OpAt
  <2> QED
    BY <1>41, <2>1
    DEF BeginOp, RowTypes, snapshot, DiskTypes, TaskTypes, RagTypes, ThreadTypes,
        rowVars, diskVars, taskVars, ragVars
<1>42. ASSUME NEW o \in Ops, AcquireClaim(o) PROVE TypeOK'
  <2>1. OpTypes'
    BY <1>42, OpFacts
    DEF AcquireClaim, OpTypes, OpAt, Forget
  <2> QED
    BY <1>42, <2>1
    DEF AcquireClaim, RowTypes, snapshot, DiskTypes, TaskTypes, RagTypes,
        ThreadTypes, rowVars, diskVars, taskVars, ragVars
<1>43. ASSUME NEW o \in Ops, PurgeVectors(o) PROVE TypeOK'
  <2>1. DiskTypes'
    BY <1>43
    DEF PurgeVectors, DiskTypes
  <2>2. OpTypes'
    BY <1>43, OpFacts
    DEF PurgeVectors, OpTypes, OpAt
  <2>3. (loop \in Tasks \cup Ops \cup {Free})'
    BY <1>43, TaskFacts
    DEF PurgeVectors
  <2> QED
    BY <1>43, <2>1, <2>2, <2>3
    DEF PurgeVectors, RowTypes, snapshot, TaskTypes, RagTypes, ThreadTypes, rowVars,
        taskVars, ragVars
<1>44. ASSUME NEW o \in Ops, WipeArtefacts(o) PROVE TypeOK'
  <2>1. RowTypes'
    BY <1>44
    DEF WipeArtefacts, RowTypes, snapshot, Touched, Succeeds
  <2>2. DiskTypes'
    BY <1>44
    DEF WipeArtefacts, DiskTypes, Succeeds
  <2>3. OpTypes'
    BY <1>44, OpFacts
    DEF WipeArtefacts, OpTypes, OpStep, OpAt, GiveUp
  <2>4. (loop \in Tasks \cup Ops \cup {Free})'
    BY <1>44, TaskFacts
    DEF WipeArtefacts, OpStep, GiveUp
  <2> QED
    BY <1>44, <2>1, <2>2, <2>3, <2>4
    DEF WipeArtefacts, TaskTypes, RagTypes, ThreadTypes, taskVars, ragVars
<1>45. ASSUME NEW o \in Ops, ResetPaper(o) PROVE TypeOK'
  <2>1. RowTypes'
    BY <1>45, Words
    DEF ResetPaper, ResetRun, ClearRun, RowTypes, snapshot, Succeeds
  <2>2. OpTypes'
    BY <1>45, OpFacts
    DEF ResetPaper, ResetRun, ClearRun, OpTypes, OpStep, OpAt, GiveUp
  <2>3. (loop \in Tasks \cup Ops \cup {Free})'
    BY <1>45, TaskFacts
    DEF ResetPaper, ResetRun, ClearRun, OpStep, GiveUp
  <2> QED
    BY <1>45, <2>1, <2>2, <2>3
    DEF ResetPaper, ResetRun, ClearRun, DiskTypes, TaskTypes, RagTypes, ThreadTypes,
        diskVars,
        taskVars, ragVars
<1>46. ASSUME NEW o \in Ops, ResetRun(o) PROVE TypeOK'
  <2>1. RowTypes'
    BY <1>46, SaveTypes, Words
    DEF ResetRun, RowTypes, snapshot
  <2>2. OpTypes'
    BY <1>46, OpFacts
    DEF ResetRun, OpTypes, OpStep, OpAt, GiveUp
  <2>3. (loop \in Tasks \cup Ops \cup {Free})'
    BY <1>46, TaskFacts
    DEF ResetRun, OpStep, GiveUp
  <2> QED
    BY <1>46, <2>1, <2>2, <2>3
    DEF ResetRun, DiskTypes, TaskTypes, RagTypes, ThreadTypes, diskVars,
        taskVars, ragVars
<1>47. ASSUME NEW o \in Ops, ClearRun(o) PROVE TypeOK'
  <2>1. RowTypes'
    BY <1>47
    DEF ClearRun, RowTypes, Touched
  <2>2. DiskTypes'
    BY <1>47
    DEF ClearRun, DiskTypes
  <2>3. OpTypes'
    BY <1>47, OpFacts
    DEF ClearRun, OpTypes, OpStep, OpAt, GiveUp
  <2>4. (loop \in Tasks \cup Ops \cup {Free})'
    BY <1>47, TaskFacts
    DEF ClearRun, OpStep, GiveUp
  <2> QED
    BY <1>47, <2>1, <2>2, <2>3, <2>4
    DEF ClearRun, TaskTypes, RagTypes, ThreadTypes, taskVars, ragVars
<1>48. ASSUME NEW o \in Ops, Reschedule(o) PROVE TypeOK'
  <2>1. TaskTypes'
    BY <1>48, ScheduleTypes, TaskFacts, PcFacts
    DEF Reschedule, TaskTypes
  <2>2. OpTypes'
    BY <1>48, OpFacts
    DEF Reschedule, OpTypes, OpAt
  <2>3. (loop \in Tasks \cup Ops \cup {Free})'
    BY <1>48, TaskFacts
    DEF Reschedule
  <2> QED
    BY <1>48, <2>1, <2>2, <2>3
    DEF Reschedule, RowTypes, DiskTypes, RagTypes, ThreadTypes, rowVars,
        diskVars, ragVars
<1>49. ASSUME NEW o \in Ops, RemoveGraphFiles(o) PROVE TypeOK'
  <2>1. RowTypes'
    BY <1>49
    DEF RemoveGraphFiles, RowTypes, snapshot, Touched, Succeeds
  <2>2. DiskTypes'
    BY <1>49
    DEF RemoveGraphFiles, DiskTypes, Succeeds
  <2>3. OpTypes'
    BY <1>49, OpFacts
    DEF RemoveGraphFiles, OpTypes, OpStep, OpAt, GiveUp
  <2>4. (loop \in Tasks \cup Ops \cup {Free})'
    BY <1>49, TaskFacts
    DEF RemoveGraphFiles, OpStep, GiveUp
  <2> QED
    BY <1>49, <2>1, <2>2, <2>3, <2>4
    DEF RemoveGraphFiles, TaskTypes, RagTypes, ThreadTypes, taskVars, ragVars
<1>50. ASSUME NEW o \in Ops, UnlinkPdf(o) PROVE TypeOK'
  <2>1. DiskTypes'
    BY <1>50
    DEF UnlinkPdf, DiskTypes, Succeeds
  <2>2. OpTypes'
    BY <1>50, OpFacts
    DEF UnlinkPdf, OpTypes, OpStep, OpAt, GiveUp
  <2>3. (loop \in Tasks \cup Ops \cup {Free})'
    BY <1>50, TaskFacts
    DEF UnlinkPdf, OpStep, GiveUp
  <2> QED
    BY <1>50, <2>1, <2>2, <2>3
    DEF UnlinkPdf, RowTypes, snapshot, TaskTypes, RagTypes, ThreadTypes, rowVars,
        taskVars, ragVars
<1>51. ASSUME NEW o \in Ops, DeleteRow(o) PROVE TypeOK'
  <2>1. RowTypes'
    BY <1>51, Words
    DEF DeleteRow, RowTypes, snapshot, rowVars
  <2>2. DiskTypes'
    BY <1>51
    DEF DeleteRow, DiskTypes
  <2>3. OpTypes'
    BY <1>51, OpFacts
    DEF DeleteRow, OpTypes, OpAt
  <2>4. (loop \in Tasks \cup Ops \cup {Free})'
    BY <1>51, TaskFacts
    DEF DeleteRow
  <2> QED
    BY <1>51, <2>1, <2>2, <2>3, <2>4
    DEF DeleteRow, TaskTypes, RagTypes, ThreadTypes, taskVars, ragVars
<1>52. ASSUME NEW o \in Ops, ReleaseClaim(o) PROVE TypeOK'
  <2>1. OpTypes'
    BY <1>52, OpFacts, ConstantsAssumption
    DEF ReleaseClaim, OpTypes, ConstantsAssumption, OpAt, Forget
  <2> QED
    BY <1>52, <2>1
    DEF ReleaseClaim, RowTypes, snapshot, DiskTypes, TaskTypes, RagTypes,
        ThreadTypes, rowVars, diskVars, taskVars, ragVars
<1>53. ASSUME ExpireClaim PROVE TypeOK'
  <2>1. OpTypes'
    BY <1>53, OpFacts
    DEF ExpireClaim, Holder, OpTypes
  <2> QED
    BY <1>53, <2>1
    DEF ExpireClaim, RowTypes, snapshot, DiskTypes, TaskTypes, RagTypes,
        ThreadTypes, rowVars, diskVars, taskVars, ragVars
<1>54. ASSUME CrashRestart PROVE TypeOK'
  <2>1. RowTypes'
    BY <1>54, SaveTypes, Words
    DEF CrashRestart, RowTypes, snapshot, ColdBoot, rowVars
  <2>2. TaskTypes'
    BY <1>54, TaskFacts, PcFacts
    DEF CrashRestart, TaskTypes
  <2>3. OpTypes'
    BY <1>54, OpFacts
    DEF CrashRestart, OpTypes
  <2>4. RagTypes'
    BY <1>54
    DEF CrashRestart, RagTypes, IdleRag
  <2>5. ThreadTypes'
    BY <1>54
    DEF CrashRestart, ThreadTypes, IdleDog
  <2>6. (loop \in Tasks \cup Ops \cup {Free})'
    BY <1>54, TaskFacts
    DEF CrashRestart
  <2> QED
    BY <1>54, <2>1, <2>2, <2>3, <2>4, <2>5, <2>6, ConstantsAssumption
    DEF CrashRestart, DiskTypes, diskVars, ConstantsAssumption
<1>55. CASE UNCHANGED vars
  BY <1>55
  DEF vars, rowVars, snapshot, diskVars, taskVars, opVars, ragVars, RowTypes,
      DiskTypes, TaskTypes, OpTypes, RagTypes, ThreadTypes
<1> QED
  BY <1>1, <1>2, <1>3, <1>4, <1>5, <1>6, <1>7, <1>8, <1>9, <1>10, <1>11,
     <1>12, <1>13, <1>14, <1>15, <1>16, <1>17, <1>18, <1>19, <1>20, <1>21, <1>22,
     <1>23, <1>24, <1>25, <1>26, <1>27, <1>28, <1>29, <1>30, <1>31, <1>32, <1>33,
     <1>34, <1>35, <1>36, <1>37, <1>38, <1>39, <1>40, <1>41, <1>42, <1>43, <1>44,
     <1>45, <1>46, <1>47, <1>48, <1>49, <1>50, <1>51, <1>52, <1>53, <1>54, <1>55
  DEF Next, PipelineStep, FullStep, FinalizeStep, RagStep, DogStep,
      IndexingWatchdogStep, AbortStep, OpProgress

\* TypeOK is inductive on its own, so it holds of every reachable state: no
\* handler, watchdog, request or restart of the backend leaves the vocabulary
\* of statuses, stages and control points.
THEOREM TypeCorrect == Spec => []TypeOK
  BY TypeInit, TypeStep, PTL DEF Spec

-----------------------------------------------------------------------------
(* The task registry.                                                      *)

\* The control points of a task that lives, and the two of one that does not.
LEMMA LiveFacts ==
    /\ "new" \notin AwaitPcs \cup HoldPcs /\ "done" \notin AwaitPcs \cup HoldPcs
    /\ AwaitPcs \cap HoldPcs = {}
    /\ NodePcs \cup {"queued", "route_fail", "ensure", "drain", "chunking",
                     "ingesting", "classifying", "extracting"} \subseteq AwaitPcs
    /\ "guard" \in HoldPcs
BY DEF AwaitPcs, HoldPcs, NodePcs

\* Whoever moves on was at work before.
LEMMA TrackedGoto ==
    ASSUME TypeOK, RegistryTracks, NEW t \in Tasks, NEW next, Live(t), Goto(t, next)
    PROVE  RegistryTracks'
BY TaskFacts DEF TypeOK, TaskTypes, RegistryTracks, Working, Live, Goto

\* A task that ends takes nobody's entry but its own.
LEMMA TrackedFinish ==
    ASSUME TypeOK, RegistryTracks, NEW t \in Tasks, Finish(t)
    PROVE  RegistryTracks'
BY TaskFacts
DEF TypeOK, TaskTypes, RegistryTracks, Working, Live, Finish, Unregister

\* The pipeline a new one replaces is cancelled in the same step.
LEMMA TrackedSchedule ==
    ASSUME TypeOK, RegistryTracks, NEW r \in Runs, Schedule(r)
    PROVE  RegistryTracks'
<1>1. ASSUME NEW q \in Runs, q # r, (Pipe(q) \in Tasks /\ Working(Pipe(q)))'
      PROVE  FALSE
  <2>1. Pipe(q) # Pipe(r)
    BY <1>1, TaskFacts
  <2>2. Working(Pipe(q)) /\ pipeReg = q
    BY <1>1, <2>1, TaskFacts
    DEF TypeOK, TaskTypes, RegistryTracks, Working, Live, Schedule
  <2>3. Pipe(q) \in Registered
    BY <2>2, TaskFacts, ConstantsAssumption
    DEF Registered, PipelineTask, Working, ConstantsAssumption
  <2> QED
    BY <1>1, <2>3, TaskFacts DEF Working, Schedule
<1> QED
  BY <1>1, TaskFacts DEF RegistryTracks, Schedule

\* Every step keeps the working pipeline registered.
LEMMA TrackedStep == TypeOK /\ RegistryTracks /\ [Next]_vars => RegistryTracks'
<1> SUFFICES ASSUME TypeOK, RegistryTracks, [Next]_vars PROVE RegistryTracks'
  OBVIOUS
<1>1. CASE UNCHANGED taskVars
  BY <1>1 DEF taskVars, RegistryTracks, Working, Live
<1>2. CASE QueueUpload
  BY <1>1, <1>2, TrackedSchedule DEF QueueUpload, taskVars
<1>3. ASSUME NEW r \in Runs, PipelineStep(r) PROVE RegistryTracks'
  <2>1. CASE HandOverToFull(r)
    BY <2>1, TaskFacts, LiveFacts
    DEF HandOverToFull, Resumes, TypeOK, TaskTypes, RegistryTracks, Working, Live
  <2>2. CASE StartPipeline(r) \/ MintGeneration(r) \/ Advance(r) \/ NodeFails(r)
    BY <2>2, TaskFacts, LiveFacts, PcFacts, TrackedGoto, TrackedFinish
    DEF StartPipeline, MintGeneration, Advance, NodeFails, Resumes, Holds, Live
  <2>3. CASE PipelineDies(r) \/ FailNode(r) \/ EnsureFailed(r) \/ DrainBus(r)
    BY <2>3, TaskFacts, LiveFacts, TrackedGoto, TrackedFinish
    DEF PipelineDies, FailNode, EnsureFailed, DrainBus, Resumes, Live
  <2> QED
    BY <1>3, <2>1, <2>2, <2>3 DEF PipelineStep
<1>4. ASSUME NEW r \in Runs, FullStep(r) PROVE RegistryTracks'
  BY <1>4, TaskFacts, LiveFacts, PcFacts, TrackedGoto, TrackedFinish
  DEF FullStep, BeginFull, EndChunking, FailFull, Resumes, Holds, Live
<1>5. ASSUME NEW t \in Tasks, FinalizeStep(t) PROVE RegistryTracks'
  BY <1>5, LiveFacts, PcFacts, TrackedGoto, TrackedFinish
  DEF FinalizeStep, GuardGeneration, SaveGraph, Breaks, RecheckGeneration,
      MarkIndexing, PublishFinalized, FinalizeFails, Holds, Live
<1>6. ASSUME NEW t \in Tasks, DeliverCancel(t) PROVE RegistryTracks'
  <2>1. CASE pc[t] = "queued"
    BY <1>6, <2>1, TaskFacts
    DEF DeliverCancel, TypeOK, TaskTypes, RegistryTracks, Working, Live
  <2> QED
    BY <1>6, <2>1, TrackedFinish DEF DeliverCancel
<1>7. CASE DogKills
  BY <1>7 DEF DogKills, RegistryTracks, Working, Live
<1>8. ASSUME NEW a \in Aborters, AbortStep(a) PROVE RegistryTracks'
  <2>1. CASE AbortPipeline(a)
    BY <2>1, TaskFacts, ConstantsAssumption
    DEF AbortPipeline, PipelineTask, RegistryTracks, Working, Live,
        ConstantsAssumption
  <2>2. CASE UnregisterPipeline(a)
    BY <2>2, TaskFacts
    DEF UnregisterPipeline, Unregister, RegistryTracks, Working, Live
  <2>3. CASE AbortFull(a)
    BY <2>3 DEF AbortFull, RegistryTracks, Working, Live
  <2>4. CASE EndAbort(a)
    BY <1>1, <2>4 DEF EndAbort, taskVars
  <2> QED
    BY <1>8, <2>1, <2>2, <2>3, <2>4 DEF AbortStep
<1>9. ASSUME NEW o \in Ops, Reschedule(o) PROVE RegistryTracks'
  BY <1>9, TrackedSchedule DEF Reschedule
<1>10. CASE CrashRestart
  BY <1>10, TaskFacts DEF CrashRestart, RegistryTracks, Working, Live
<1> QED
  BY <1>1, <1>2, <1>3, <1>4, <1>5, <1>6, <1>7, <1>8, <1>9, <1>10
  DEF Next, vars, RagStep, DogStep, IndexingWatchdogStep, OpProgress,
      CreateFromUpload, TakeEvent, BeginIndexing, EndIndexing, ReadForPromotion,
      WritePromotion, HandlerDies, Age, DogLists, DogRenews, DogCondemns, DogReads,
      DogWrites, IndexingWatchdogReads, IndexingWatchdogWrites, RepairStatus,
      BeginOp, AcquireClaim, PurgeVectors, WipeArtefacts, ResetPaper, ResetRun,
      ClearRun, RemoveGraphFiles, UnlinkPdf, DeleteRow, ReleaseClaim, ExpireClaim

\* A pipeline at work is the registered one, whatever replacements, aborts,
\* posted aborts and finally blocks come together.
THEOREM RegistryCorrect == Spec => []RegistryTracks
<1>1. Init => RegistryTracks
  BY TaskFacts DEF Init, RegistryTracks, Working, Live
<1> QED
  BY <1>1, TrackedStep, TypeCorrect, PTL DEF Spec

-----------------------------------------------------------------------------
(* The claim.                                                              *)

\* The owners of the loop are told apart.
LEMMA OwnerFacts ==
    Free \notin Tasks /\ Free \notin Ops /\ Tasks \cap Ops = {} /\ Dog \notin Ops
BY ConstantsAssumption DEF ConstantsAssumption, Tasks

\* A request that wipes holds the claim, unless it has lost it.
Claimed == \A o \in Wipers \ lostClaim : claim = o

\* Every step keeps the claim with the request that has not lost it.
LEMMA ClaimedStep ==
    ASSUME TypeOK, Claimed, [Next]_vars
    PROVE  Claimed'
<1> USE DEF Claimed, Wipers
<1>1. CASE UNCHANGED <<opPc, claim, lostClaim>>
  BY <1>1
<1>2. ASSUME NEW a \in Aborters, AbortStep(a) PROVE Claimed'
  BY <1>2, ConstantsAssumption, OpFacts
  DEF AbortStep, AbortPipeline, UnregisterPipeline, AbortFull, EndAbort, OpAt,
      AfterAbort, TypeOK, OpTypes, ConstantsAssumption
<1>3. ASSUME NEW o \in Ops, BeginOp(o) PROVE Claimed'
  BY <1>3, OpFacts DEF BeginOp, OpAt, TypeOK, OpTypes
<1>4. ASSUME NEW o \in Ops, AcquireClaim(o) PROVE Claimed'
  BY <1>4, OpFacts, ConstantsAssumption
  DEF AcquireClaim, OpAt, TypeOK, OpTypes, ConstantsAssumption
<1>5. ASSUME NEW o \in Ops, ReleaseClaim(o) PROVE Claimed'
  BY <1>5, OpFacts DEF ReleaseClaim, OpAt, TypeOK, OpTypes
<1>6. ASSUME NEW o \in Ops,
             \/ PurgeVectors(o) \/ WipeArtefacts(o) \/ ResetPaper(o) \/ ResetRun(o)
             \/ ClearRun(o) \/ Reschedule(o) \/ RemoveGraphFiles(o) \/ UnlinkPdf(o)
             \/ DeleteRow(o)
      PROVE  Claimed'
  BY <1>6, OpFacts
  DEF PurgeVectors, WipeArtefacts, ResetPaper, ResetRun, ClearRun, Reschedule,
      RemoveGraphFiles, UnlinkPdf, DeleteRow, OpStep, GiveUp, OpAt, TypeOK, OpTypes
<1>7. CASE ExpireClaim
  BY <1>7, OpFacts DEF ExpireClaim, Holder, TypeOK, OpTypes
<1>8. CASE CrashRestart
  BY <1>8, OpFacts DEF CrashRestart
<1>9. CASE DogKills
  BY <1>9, OpFacts, OwnerFacts DEF DogKills, Holder, TypeOK, OpTypes
<1> QED
  BY <1>1, <1>2, <1>3, <1>4, <1>5, <1>6, <1>7, <1>8, <1>9
  DEF Next, vars, opVars, OpProgress, PipelineStep, StartPipeline, MintGeneration,
      Advance, NodeFails, PipelineDies, HandOverToFull, FailNode, EnsureFailed,
      DrainBus, FullStep, BeginFull, EndChunking, FailFull, FinalizeStep,
      GuardGeneration, SaveGraph, RecheckGeneration, MarkIndexing, PublishFinalized,
      DeliverCancel, RagStep, TakeEvent, BeginIndexing, EndIndexing,
      ReadForPromotion, WritePromotion, HandlerDies, Age, DogStep, DogLists,
      DogRenews, DogCondemns, DogReads, DogWrites, IndexingWatchdogStep,
      IndexingWatchdogReads, IndexingWatchdogWrites, RepairStatus,
      CreateFromUpload, QueueUpload

\* The claim names one request, so there is at most one.
LEMMA ClaimedOne == TypeOK /\ Claimed => ClaimExcludes
<1> SUFFICES ASSUME TypeOK, Claimed PROVE ClaimExcludes
  OBVIOUS
<1> DEFINE W == Wipers \ lostClaim
<1>1. W \subseteq {claim}
  BY DEF Claimed
<1>2. IsFiniteSet({claim}) /\ Cardinality({claim}) = 1
  BY FS_Singleton
<1>3. Cardinality(W) <= Cardinality({claim})
  BY <1>1, <1>2, FS_Subset
<1>4. Cardinality(W) \in Nat
  BY <1>1, <1>2, FS_Subset, FS_CardinalityType
<1> QED
  BY <1>2, <1>3 DEF ClaimExcludes

\* The 409 of the documentation as far as the code keeps it: whatever the
\* watchdog evicts, whatever claim runs out under a request that lives, whoever
\* releases late and wherever the process dies, two requests that wipe never
\* both hold the claim they were given; a second wipe is one whose claim went.
THEOREM ClaimIsExclusive == Spec => []ClaimExcludes
<1>1. Init => Claimed
  BY OpFacts DEF Init, Claimed, Wipers
<1>2. TypeOK /\ Claimed /\ [Next]_vars => Claimed'
  BY ClaimedStep
<1> QED
  BY <1>1, <1>2, ClaimedOne, TypeCorrect, PTL DEF Spec

-----------------------------------------------------------------------------
(* The main loop.                                                          *)

\* A coroutine is in a stretch without await exactly while the main loop is
\* its own: what makes asyncio code atomic against other asyncio code.
TaskOwnsLoop == \A t \in Tasks : pc[t] \in HoldPcs <=> loop = t
OpOwnsLoop == \A o \in Ops : opPc[o] \in OpHoldPcs <=> loop = o
LoopOwner == TaskOwnsLoop /\ OpOwnsLoop

\* Which control points of a request hold the loop.
LEMMA OpHoldFacts ==
    /\ {"idle", "claim", "purge", "release", "abort", "await_pipe", "await_head",
        "await_full"} \cap OpHoldPcs = {}
    /\ {"wipe", "reset", "requeue", "clear", "schedule", "rm_graph", "rm_pdf",
        "rm_row"} \subseteq OpHoldPcs
BY DEF OpHoldPcs

\* A task moves between two stretches, or into one, or out of one.
LEMMA LoopGoto ==
    ASSUME TypeOK, LoopOwner, NEW t \in Tasks, NEW next \in TaskPcs, Goto(t, next),
           UNCHANGED opPc, loop \in {Free, t},
           loop' = IF next \in HoldPcs THEN t ELSE Free
    PROVE  LoopOwner'
BY OwnerFacts
DEF TypeOK, TaskTypes, LoopOwner, TaskOwnsLoop, OpOwnsLoop, Goto

\* A task that ends holds nothing.
LEMMA LoopFinish ==
    ASSUME TypeOK, LoopOwner, NEW t \in Tasks, Finish(t), UNCHANGED opPc,
           loop \in {Free, t}, loop' = Free
    PROVE  LoopOwner'
BY OwnerFacts, LiveFacts
DEF TypeOK, TaskTypes, LoopOwner, TaskOwnsLoop, OpOwnsLoop, Finish

\* A new task waits for the loop.
LEMMA LoopSchedule ==
    ASSUME TypeOK, LoopOwner, NEW r \in Runs, Fresh(r), Schedule(r)
    PROVE  \A t \in Tasks : pc'[t] \in HoldPcs <=> pc[t] \in HoldPcs
BY TaskFacts, LiveFacts DEF TypeOK, TaskTypes, Fresh, Schedule

\* Every step of a pipeline keeps the loop with its owner.
LEMMA LoopPipeline ==
    ASSUME TypeOK, LoopOwner, NEW r \in Runs, PipelineStep(r)
    PROVE  LoopOwner'
<1>1. CASE StartPipeline(r)
  BY <1>1, TaskFacts, PcFacts, LoopGoto, LoopFinish
  DEF StartPipeline, Resumes, opVars
<1>2. CASE MintGeneration(r)
  BY <1>2, TaskFacts, PcFacts, LiveFacts, LoopGoto DEF MintGeneration, Holds, opVars
<1>3. CASE Advance(r)
  <2>1. pc[Pipe(r)] \in NodePcs /\ loop = Free /\ UNCHANGED opPc
    BY <1>3 DEF Advance, Resumes, opVars
  <2>2. PcAfter[pc[Pipe(r)]] \in HoldPcs <=> PcAfter[pc[Pipe(r)]] = "guard"
    BY <2>1, NodeFacts, LiveFacts
  <2> QED
    BY <1>3, <2>1, <2>2, TaskFacts, NodeFacts, PcFacts, LiveFacts, LoopGoto, LoopFinish
    DEF Advance
<1>4. CASE NodeFails(r)
  BY <1>4, TaskFacts, PcFacts, LiveFacts, LoopGoto DEF NodeFails, Resumes, opVars
<1>5. CASE PipelineDies(r) \/ EnsureFailed(r) \/ DrainBus(r)
  BY <1>5, TaskFacts, LoopFinish
  DEF PipelineDies, EnsureFailed, DrainBus, Resumes, opVars
<1>6. CASE HandOverToFull(r)
  BY <1>6, TaskFacts, LiveFacts, OwnerFacts
  DEF HandOverToFull, Resumes, opVars, TypeOK, TaskTypes, LoopOwner, TaskOwnsLoop,
      OpOwnsLoop, FullTask, Live
<1>7. CASE FailNode(r)
  BY <1>7, TaskFacts, PcFacts, LiveFacts, LoopGoto, LoopFinish
  DEF FailNode, Resumes, opVars
<1> QED
  BY <1>1, <1>2, <1>3, <1>4, <1>5, <1>6, <1>7 DEF PipelineStep

\* So does every step of a full extraction, of finalize and of a cancellation.
LEMMA LoopOtherTasks ==
    ASSUME TypeOK, LoopOwner, NEW t \in Tasks,
           \/ \E r \in Runs : t = Full(r) /\ FullStep(r)
           \/ FinalizeStep(t)
           \/ DeliverCancel(t)
    PROVE  LoopOwner'
<1>1. ASSUME NEW r \in Runs, t = Full(r), FullStep(r) PROVE LoopOwner'
  BY <1>1, PcFacts, LiveFacts, LoopGoto, LoopFinish
  DEF FullStep, BeginFull, EndChunking, FailFull, Resumes, Holds, opVars
<1>2. CASE GuardGeneration(t) \/ RecheckGeneration(t)
  BY <1>2, PcFacts, LiveFacts, LoopGoto
  DEF GuardGeneration, RecheckGeneration, Breaks, FinalizeFails, Holds, opVars
<1>3. CASE SaveGraph(t) \/ MarkIndexing(t) \/ PublishFinalized(t)
  BY <1>3, PcFacts, LiveFacts, LoopGoto, LoopFinish
  DEF SaveGraph, MarkIndexing, PublishFinalized, Breaks, FinalizeFails, Holds, opVars
<1>4. CASE DeliverCancel(t)
  <2>1. CASE pc[t] = "queued"
    BY <1>4, <2>1, LiveFacts
    DEF DeliverCancel, opVars, TypeOK, TaskTypes, LoopOwner, TaskOwnsLoop, OpOwnsLoop
  <2> QED
    BY <1>4, <2>1, LoopFinish DEF DeliverCancel, opVars
<1> QED
  BY <1>1, <1>2, <1>3, <1>4 DEF FinalizeStep

\* A request between two awaits of its own leaves the tasks where they are.
LEMMA LoopOps ==
    ASSUME TypeOK, LoopOwner, NEW o \in Ops, BeginOp(o) \/ OpProgress(o)
    PROVE  LoopOwner'
<1> USE OwnerFacts, OpHoldFacts, OpFacts DEF TypeOK, OpTypes, LoopOwner, OpAt
<1>1. CASE UNCHANGED loop /\ UNCHANGED pc
           /\ \E next : OpAt(o, next) /\ (next \in OpHoldPcs <=> opPc[o] \in OpHoldPcs)
  BY <1>1 DEF TaskOwnsLoop, OpOwnsLoop
<1>2. CASE loop = o /\ loop' = Free /\ UNCHANGED pc /\ OpAt(o, "release")
  BY <1>2 DEF TaskOwnsLoop, OpOwnsLoop
<1>3. CASE PurgeVectors(o)
  BY <1>3 DEF PurgeVectors, taskVars, TaskOwnsLoop, OpOwnsLoop
<1>4. CASE BeginOp(o)
  BY <1>1, <1>4 DEF BeginOp, taskVars
<1>5. CASE AcquireClaim(o) \/ ReleaseClaim(o)
  BY <1>1, <1>5 DEF AcquireClaim, ReleaseClaim, taskVars
<1>6. CASE WipeArtefacts(o) \/ ResetPaper(o)
  BY <1>1, <1>2, <1>6
  DEF WipeArtefacts, ResetPaper, ResetRun, ClearRun, OpStep, GiveUp, taskVars
<1>7. CASE RemoveGraphFiles(o) \/ UnlinkPdf(o) \/ ResetRun(o) \/ ClearRun(o)
  BY <1>1, <1>2, <1>7
  DEF RemoveGraphFiles, UnlinkPdf, ResetRun, ClearRun, OpStep, GiveUp, taskVars
<1>8. CASE Reschedule(o)
  BY <1>8, LoopSchedule DEF Reschedule, TaskOwnsLoop, OpOwnsLoop
<1>9. CASE DeleteRow(o)
  BY <1>2, <1>9 DEF DeleteRow, taskVars
<1> QED
  BY <1>3, <1>4, <1>5, <1>6, <1>7, <1>8, <1>9 DEF OpProgress

\* Every step keeps the loop with its owner.
LEMMA LoopStep == TypeOK /\ LoopOwner /\ [Next]_vars => LoopOwner'
<1> SUFFICES ASSUME TypeOK, LoopOwner, [Next]_vars PROVE LoopOwner'
  OBVIOUS
<1>1. CASE UNCHANGED <<pc, opPc, loop>>
  BY <1>1 DEF LoopOwner, TaskOwnsLoop, OpOwnsLoop
<1>2. CASE QueueUpload
  BY <1>1, <1>2, LoopSchedule
  DEF QueueUpload, taskVars, opVars, LoopOwner, TaskOwnsLoop, OpOwnsLoop
<1>3. CASE DogKills
  BY <1>3, OwnerFacts
  DEF DogKills, TypeOK, OpTypes, LoopOwner, TaskOwnsLoop, OpOwnsLoop
<1>4. ASSUME NEW a \in Aborters, AbortStep(a) PROVE LoopOwner'
  BY <1>4, OpHoldFacts, OwnerFacts
  DEF AbortStep, AbortPipeline, UnregisterPipeline, AbortFull, EndAbort, AfterAbort,
      OpAt, opVars, taskVars, Aborters, TypeOK, OpTypes, LoopOwner, TaskOwnsLoop,
      OpOwnsLoop
<1>5. CASE CrashRestart
  BY <1>5, OwnerFacts, LiveFacts, OpFacts, OpHoldFacts
  DEF CrashRestart, Live, TypeOK, TaskTypes, LoopOwner, TaskOwnsLoop, OpOwnsLoop
<1>6. ASSUME NEW r \in Runs, PipelineStep(r) \/ FullStep(r) PROVE LoopOwner'
  BY <1>6, TaskFacts, LoopPipeline, LoopOtherTasks
<1>7. ASSUME NEW t \in Tasks, FinalizeStep(t) \/ DeliverCancel(t) PROVE LoopOwner'
  BY <1>7, LoopOtherTasks
<1>8. ASSUME NEW o \in Ops, BeginOp(o) \/ OpProgress(o) PROVE LoopOwner'
  BY <1>8, LoopOps
<1> QED
  BY <1>1, <1>2, <1>3, <1>4, <1>5, <1>6, <1>7, <1>8
  DEF Next, vars, taskVars, opVars, RagStep, DogStep, IndexingWatchdogStep,
      CreateFromUpload, TakeEvent, BeginIndexing, EndIndexing, ReadForPromotion,
      WritePromotion, HandlerDies, Age, DogLists, DogRenews, DogCondemns, DogReads,
      DogWrites, IndexingWatchdogReads, IndexingWatchdogWrites, RepairStatus,
      ExpireClaim

\* Two coroutines of the main loop are never between two awaits at once.
THEOREM LoopOwned == Spec => []LoopOwner
<1>1. Init => LoopOwner
  BY OwnerFacts, LiveFacts, OpHoldFacts, OpFacts
  DEF Init, LoopOwner, TaskOwnsLoop, OpOwnsLoop
<1> QED
  BY <1>1, LoopStep, TypeCorrect, PTL DEF Spec

-----------------------------------------------------------------------------
(* An INDEXING paper is on somebody's list.                                *)

\* While a task is about to publish nobody else goes on on the main loop.
LEMMA PublishAlone ==
    ASSUME LoopOwner, NEW u \in Tasks, pc[u] = "publish",
           \/ CreateFromUpload \/ QueueUpload \/ RepairStatus
           \/ \E r \in Runs : PipelineStep(r) \/ FullStep(r)
           \/ \E t \in Tasks : DeliverCancel(t) \/ (FinalizeStep(t) /\ t # u)
           \/ \E o \in Ops : BeginOp(o) \/ OpProgress(o)
           \/ \E a \in Aborters : AbortStep(a)
    PROVE  FALSE
<1>1. loop = u /\ u # Free /\ u \notin Ops
  BY PcFacts, OwnerFacts DEF LoopOwner, TaskOwnsLoop
<1>2. ASSUME NEW r \in Runs, PipelineStep(r) \/ FullStep(r) PROVE FALSE
  BY <1>1, <1>2
  DEF PipelineStep, StartPipeline, MintGeneration, Advance, NodeFails, PipelineDies,
      HandOverToFull, FailNode, EnsureFailed, DrainBus, FullStep, BeginFull,
      EndChunking, FailFull, Resumes, Holds
<1>3. ASSUME NEW t \in Tasks, DeliverCancel(t) \/ (FinalizeStep(t) /\ t # u)
      PROVE  FALSE
  BY <1>1, <1>3
  DEF DeliverCancel, FinalizeStep, GuardGeneration, SaveGraph, RecheckGeneration,
      MarkIndexing, PublishFinalized, Holds
<1>4. ASSUME NEW o \in Ops, BeginOp(o) \/ OpProgress(o) PROVE FALSE
  BY <1>1, <1>4
  DEF BeginOp, OpProgress, AcquireClaim, PurgeVectors, WipeArtefacts, ResetPaper,
      ResetRun, ClearRun, Reschedule, RemoveGraphFiles, UnlinkPdf, DeleteRow,
      ReleaseClaim, OpStep, GiveUp
<1>5. ASSUME NEW a \in Aborters, AbortStep(a) PROVE FALSE
  BY <1>1, <1>5
  DEF AbortStep, AbortPipeline, UnregisterPipeline, AbortFull, EndAbort
<1> QED
  BY <1>1, <1>2, <1>3, <1>4, <1>5 DEF CreateFromUpload, QueueUpload, RepairStatus

\* Every step keeps an INDEXING paper with the task that publishes its event, in
\* the bus or in the hands of the handler, unless publish or handler fails.
LEMMA OwnerStep ==
    ASSUME IndexingWatchdogEnabled, TypeOK, LoopOwner, IndexingHasOwner, [Next]_vars
    PROVE  IndexingHasOwner'
<1>1. CASE /\ UNCHANGED <<bus, rag, abandoned>>
           /\ status' = status \/ status' # "indexing"
           /\ \A t \in Tasks : pc[t] = "publish" => pc'[t] = "publish"
  BY <1>1 DEF IndexingHasOwner
<1>2. ASSUME NEW t \in Tasks, FinalizeStep(t) PROVE IndexingHasOwner'
  <2>1. CASE MarkIndexing(t)
    BY <2>1
    DEF MarkIndexing, Breaks, FinalizeFails, Goto, Holds, TypeOK, TaskTypes,
        RagTypes, snapshot, IndexingHasOwner
  <2>2. CASE PublishFinalized(t)
    BY <2>2, TaskFacts
    DEF PublishFinalized, TypeOK, RagTypes, IndexingHasOwner
  <2>3. CASE GuardGeneration(t) \/ SaveGraph(t) \/ RecheckGeneration(t)
    BY <1>1, <2>3
    DEF GuardGeneration, SaveGraph, RecheckGeneration, Breaks, FinalizeFails, Goto,
        Holds, TypeOK, TaskTypes, rowVars, snapshot, ragVars
  <2> QED
    BY <1>2, <2>1, <2>2, <2>3 DEF FinalizeStep
<1>3. CASE RagStep
  <2>1. CASE TakeEvent
    BY <2>1 DEF TakeEvent, Exists, rowVars, taskVars, IndexingHasOwner
  <2>2. CASE BeginIndexing \/ EndIndexing
    BY <2>2
    DEF BeginIndexing, EndIndexing, TypeOK, RagTypes, taskVars, IndexingHasOwner
  <2>3. CASE ReadForPromotion
    BY <2>3
    DEF ReadForPromotion, Promotable, rowVars, TypeOK, RagTypes, taskVars,
        IndexingHasOwner
  <2>4. CASE WritePromotion
    BY <2>4
    DEF WritePromotion, Persist, SaveStatus, Exists, TerminalReady, snapshot,
        IndexingHasOwner
  <2>5. CASE HandlerDies
    BY <2>5 DEF HandlerDies, IndexingHasOwner
  <2> QED
    BY <1>3, <2>1, <2>2, <2>3, <2>4, <2>5 DEF RagStep
<1>4. CASE DogKills
  BY <1>4
  DEF DogKills, Revoked, rowVars, TypeOK, RagTypes, IndexingHasOwner
<1>5. ASSUME NEW a \in Aborters, AbortStep(a) PROVE IndexingHasOwner'
  BY <1>5
  DEF AbortStep, AbortPipeline, UnregisterPipeline, AbortFull, EndAbort, Revoked,
      rowVars, ragVars, taskVars, TypeOK, RagTypes, IndexingHasOwner
<1>6. CASE CrashRestart
  BY <1>6
  DEF CrashRestart, ColdBoot, SaveStatus, rowVars, OrphanStatuses, IndexingHasOwner
<1>7. ASSUME NEW r \in Runs, PipelineStep(r) \/ FullStep(r) PROVE IndexingHasOwner'
  <2>1. UNCHANGED <<bus, rag, abandoned>> /\ (status' = status \/ status' # "indexing")
    BY <1>7
    DEF PipelineStep, StartPipeline, MintGeneration, Advance, NodeFails, PipelineDies,
        HandOverToFull, FailNode, EnsureFailed, DrainBus, FullStep, BeginFull,
        EndChunking, FailFull, SaveStatus, Persist, Exists, ragVars, snapshot,
        rowVars
  <2> QED
    BY <1>1, <1>7, <2>1, PublishAlone
<1>8. CASE CreateFromUpload \/ QueueUpload \/ Age \/ RepairStatus \/ ExpireClaim
  BY <1>1, <1>8, PublishAlone
  DEF CreateFromUpload, QueueUpload, Age, RepairStatus, ExpireClaim, SaveStatus,
      Persist, ragVars, rowVars, snapshot, taskVars
<1>9. CASE DogLists \/ DogRenews \/ DogCondemns \/ DogReads \/ DogWrites
             \/ IndexingWatchdogStep
  BY <1>1, <1>9
  DEF DogLists, DogRenews, DogCondemns, DogReads, DogWrites, IndexingWatchdogStep,
      IndexingWatchdogReads, IndexingWatchdogWrites, SaveStatus, Persist, ragVars,
      rowVars, snapshot, taskVars
<1>10. ASSUME NEW o \in Ops, BeginOp(o) \/ OpProgress(o) PROVE IndexingHasOwner'
  <2>1. UNCHANGED <<bus, rag, abandoned>> /\ (status' = status \/ status' # "indexing")
    BY <1>10
    DEF BeginOp, OpProgress, AcquireClaim, PurgeVectors, WipeArtefacts, ResetPaper,
        ResetRun, ClearRun, Reschedule, RemoveGraphFiles, UnlinkPdf, DeleteRow,
        ReleaseClaim, SaveStatus, ragVars, rowVars, snapshot
  <2>2. BeginOp(o) => UNCHANGED pc
    BY DEF BeginOp, taskVars
  <2> QED
    BY <1>1, <1>10, <2>1, <2>2, PublishAlone
<1>11. ASSUME NEW t \in Tasks, DeliverCancel(t) PROVE IndexingHasOwner'
  <2>1. UNCHANGED <<bus, rag, abandoned>> /\ UNCHANGED status
    BY <1>11 DEF DeliverCancel, ragVars, rowVars
  <2> QED
    BY <1>1, <1>11, <2>1, PublishAlone
<1>12. CASE UNCHANGED vars
  BY <1>1, <1>12 DEF vars, rowVars, ragVars, taskVars
<1> QED
  BY <1>2, <1>3, <1>4, <1>5, <1>6, <1>7, <1>8, <1>9, <1>10, <1>11, <1>12
  DEF Next, DogStep

\* No wipe, kill or revocation leaves an INDEXING paper that nobody will promote,
\* and no restart does as long as the cold boot of the indexing watchdog runs:
\* only a publish or a handler that fails does, wherever else there are faults.
THEOREM IndexingOwned ==
    ASSUME IndexingWatchdogEnabled
    PROVE  Spec => []IndexingHasOwner
<1>1. Init => IndexingHasOwner
  BY DEF Init, IndexingHasOwner
<1>2. TypeOK /\ LoopOwner /\ IndexingHasOwner /\ [Next]_vars => IndexingHasOwner'
  BY OwnerStep
<1> QED
  BY <1>1, <1>2, LoopOwned, TypeCorrect, PTL DEF Spec

-----------------------------------------------------------------------------
(* The graph of an INDEXING paper.                                         *)

\* Between the disk write of finalize and its status write the store holds the
\* graph of that very run.
Saved == \A t \in Tasks : pc[t] \in {"recheck", "commit"} => file = RunOf(t)

\* Whoever changes the store holds the loop, so no other task is in finalize.
LEMMA SavedStep ==
    ASSUME TypeOK, LoopOwner, Saved, [Next]_vars
    PROVE  Saved'
<1>1. CASE UNCHANGED <<pc, file>>
  BY <1>1 DEF Saved
<1>2. ASSUME NEW t \in Tasks, FinalizeStep(t) PROVE Saved'
  BY <1>2, PcFacts
  DEF FinalizeStep, GuardGeneration, SaveGraph, Breaks, RecheckGeneration,
      MarkIndexing, PublishFinalized, FinalizeFails, Finish, Goto, Holds, diskVars,
      TypeOK, TaskTypes, LoopOwner, TaskOwnsLoop, Saved
<1>3. ASSUME NEW o \in Ops, WipeArtefacts(o) \/ RemoveGraphFiles(o) PROVE Saved'
  BY <1>3, PcFacts, OwnerFacts
  DEF WipeArtefacts, RemoveGraphFiles, OpStep, GiveUp, taskVars, LoopOwner,
      TaskOwnsLoop, Saved
<1>4. CASE /\ UNCHANGED file
           /\ \E t \in Tasks : \E next \in TaskPcs \ {"recheck", "commit"} :
                pc' = [pc EXCEPT ![t] = next]
  BY <1>4 DEF TypeOK, TaskTypes, Saved
<1>5. ASSUME NEW r \in Runs, PipelineStep(r) PROVE Saved'
  <2>1. CASE Advance(r)
    <3>1. PcAfter[pc[Pipe(r)]] \in TaskPcs \ {"recheck", "commit"}
      BY <2>1, NodeFacts, PcFacts, LiveFacts DEF Advance, Resumes
    <3> QED
      BY <1>4, <2>1, <3>1, TaskFacts, PcFacts DEF Advance, Finish, Goto, diskVars
  <2>2. CASE HandOverToFull(r)
    BY <2>2, TaskFacts
    DEF HandOverToFull, diskVars, TypeOK, TaskTypes, Saved
  <2> QED
    BY <1>4, <1>5, <2>1, <2>2, TaskFacts, PcFacts
    DEF PipelineStep, StartPipeline, MintGeneration, NodeFails, PipelineDies,
        FailNode, EnsureFailed, DrainBus, Finish, Goto, diskVars
<1>6. ASSUME NEW r \in Runs, FullStep(r) PROVE Saved'
  BY <1>4, <1>6, TaskFacts, PcFacts, LiveFacts
  DEF FullStep, BeginFull, EndChunking, FailFull, Finish, Goto, diskVars
<1>7. ASSUME NEW t \in Tasks, DeliverCancel(t) PROVE Saved'
  BY <1>4, <1>7, PcFacts DEF DeliverCancel, Finish, diskVars
<1>8. CASE QueueUpload \/ \E o \in Ops : Reschedule(o)
  BY <1>1, <1>4, <1>8, TaskFacts, PcFacts
  DEF QueueUpload, Reschedule, Schedule, taskVars, diskVars
<1>9. CASE CrashRestart
  BY <1>9, PcFacts, LiveFacts DEF CrashRestart, Live, Saved, diskVars
<1> QED
  BY <1>1, <1>2, <1>3, <1>5, <1>6, <1>7, <1>8, <1>9
  DEF Next, vars, taskVars, diskVars, RagStep, DogStep, IndexingWatchdogStep,
      CreateFromUpload, TakeEvent, BeginIndexing, EndIndexing, ReadForPromotion,
      WritePromotion, HandlerDies, Age, DogLists, DogRenews, DogCondemns, DogKills,
      DogReads, DogWrites, IndexingWatchdogReads, IndexingWatchdogWrites,
      RepairStatus, AbortStep, AbortPipeline, UnregisterPipeline, AbortFull,
      EndAbort, BeginOp, OpProgress, AcquireClaim, PurgeVectors, ResetPaper, ResetRun,
      ClearRun, UnlinkPdf, DeleteRow, ReleaseClaim, ExpireClaim

\* A request comes into a stretch that destroys by its own hand.
LEMMA HoldByOwnHand ==
    ASSUME TypeOK, [Next]_vars, NEW o \in Ops, opPc'[o] \in OpHoldPcs
    PROVE  OpProgress(o) \/ UNCHANGED opPc[o]
<1>1. CASE UNCHANGED opPc
  BY <1>1
<1>2. ASSUME NEW p \in Ops, BeginOp(p) \/ OpProgress(p)
      PROVE  OpProgress(o) \/ UNCHANGED opPc[o]
  BY <1>2, OpHoldFacts, OpFacts
  DEF BeginOp, OpProgress, AcquireClaim, PurgeVectors, WipeArtefacts, ResetPaper,
      ResetRun, ClearRun, Reschedule, OpStep, GiveUp, RemoveGraphFiles, UnlinkPdf,
      DeleteRow, ReleaseClaim, OpAt, TypeOK, OpTypes
<1>3. ASSUME NEW a \in Aborters, AbortStep(a) PROVE UNCHANGED opPc[o]
  BY <1>3, OpHoldFacts, OpFacts
  DEF AbortStep, AbortPipeline, UnregisterPipeline, AbortFull, EndAbort, OpAt,
      AfterAbort, opVars, TypeOK, OpTypes
<1>4. CASE DogKills \/ CrashRestart
  BY <1>4, OwnerFacts, OpHoldFacts, OpFacts DEF DogKills, CrashRestart, TypeOK, OpTypes
<1> QED
  BY <1>1, <1>2, <1>3, <1>4
  DEF Next, vars, opVars, PipelineStep, StartPipeline, MintGeneration, Advance,
      NodeFails, PipelineDies, HandOverToFull, FailNode, EnsureFailed, DrainBus,
      FullStep, BeginFull, EndChunking, FailFull, FinalizeStep, GuardGeneration,
      SaveGraph, Breaks, RecheckGeneration, MarkIndexing, PublishFinalized,
      DeliverCancel, RagStep, TakeEvent, BeginIndexing, EndIndexing,
      ReadForPromotion, WritePromotion, HandlerDies, Age, DogStep, DogLists,
      DogRenews, DogCondemns, DogReads, DogWrites, IndexingWatchdogStep,
      IndexingWatchdogReads, IndexingWatchdogWrites, RepairStatus, CreateFromUpload,
      QueueUpload, ExpireClaim

\* A paper becomes INDEXING by mark_indexing alone.
LEMMA IndexingByFinalize ==
    ASSUME [Next]_vars
    PROVE  \/ status' = status \/ status' # "indexing"
           \/ \E t \in Tasks : MarkIndexing(t)
BY
DEF Next, vars, rowVars, snapshot, SaveStatus, Persist, TerminalReady, OrphanStatuses,
       PipelineStep, StartPipeline, MintGeneration, Advance, NodeFails, PipelineDies,
       HandOverToFull, FailNode, EnsureFailed, DrainBus, FullStep, BeginFull,
       EndChunking, FailFull, FinalizeStep, GuardGeneration, SaveGraph,
       RecheckGeneration, PublishFinalized, DeliverCancel, RagStep, TakeEvent,
       BeginIndexing, EndIndexing, ReadForPromotion, WritePromotion, HandlerDies, Age,
       DogStep, DogLists, DogRenews, DogCondemns, DogKills, DogReads, DogWrites,
       IndexingWatchdogStep, IndexingWatchdogReads, IndexingWatchdogWrites,
       RepairStatus, CreateFromUpload, QueueUpload, AbortStep, AbortPipeline,
       UnregisterPipeline, AbortFull, EndAbort, BeginOp, OpProgress, AcquireClaim,
       PurgeVectors, WipeArtefacts, ResetPaper, ResetRun, ClearRun, Reschedule,
       RemoveGraphFiles, UnlinkPdf, DeleteRow, ReleaseClaim, ExpireClaim, CrashRestart,
       ColdBoot

\* Between the first reset of a reextract and its end the paper is not INDEXING.
ResetStands ==
    \A o \in Ops : opPc[o] \in {"requeue", "clear", "schedule"} => status # "indexing"

\* Only finalize writes INDEXING, and it cannot while a request holds the loop.
LEMMA ResetStandsStep ==
    ASSUME TypeOK, LoopOwner, ResetStands, [Next]_vars
    PROVE  ResetStands'
<1> SUFFICES ASSUME NEW o \in Ops, opPc'[o] \in {"requeue", "clear", "schedule"}
             PROVE  status' # "indexing"
  BY DEF ResetStands
<1>1. CASE OpProgress(o)
  BY <1>1, OpFacts
  DEF OpProgress, AcquireClaim, PurgeVectors, WipeArtefacts, ResetPaper, ResetRun,
      ClearRun, Reschedule, RemoveGraphFiles, UnlinkPdf, DeleteRow, ReleaseClaim,
      OpStep, GiveUp, OpAt, Succeeds, SaveStatus, rowVars, snapshot, TypeOK, OpTypes,
      ResetStands
<1>2. ASSUME UNCHANGED opPc[o], ~OpProgress(o) PROVE status' # "indexing"
  <2>1. loop = o /\ o \notin Tasks /\ status # "indexing"
    BY <1>2, OwnerFacts, OpHoldFacts DEF LoopOwner, OpOwnsLoop, ResetStands
  <2>2. ASSUME NEW t \in Tasks, MarkIndexing(t) PROVE FALSE
    BY <2>1, <2>2 DEF MarkIndexing, Holds
  <2> QED
    BY <2>1, <2>2, IndexingByFinalize
<1> QED
  BY <1>1, <1>2, HoldByOwnHand, OpHoldFacts

\* INDEXING is written only after the graph, and every wipe that takes the graph
\* takes the status too unless a fault stops it.
LEMMA GraphStep ==
    ASSUME "wipe" \notin Faults, IndexingWatchdogEnabled,
           TypeOK, LoopOwner, Saved, ResetStands, IndexingHasGraph, [Next]_vars
    PROVE  IndexingHasGraph'
<1>1. CASE /\ UNCHANGED file /\ (UNCHANGED status \/ status' # "indexing")
           /\ \A o \in Ops : opPc'[o] = opPc[o] \/ opPc[o] \notin OpHoldPcs
  BY <1>1, OpHoldFacts DEF IndexingHasGraph, Wiping
<1>2. ASSUME NEW t \in Tasks, FinalizeStep(t) PROVE IndexingHasGraph'
  <2>1. CASE SaveGraph(t)
    BY <2>1, TaskFacts, ConstantsAssumption
    DEF SaveGraph, rowVars, opVars, Wiping, ConstantsAssumption, IndexingHasGraph
  <2>2. CASE MarkIndexing(t) /\ SaveStatus("indexing", "indexing")
    BY <2>2, TaskFacts, ConstantsAssumption
    DEF MarkIndexing, Holds, Saved, diskVars, ConstantsAssumption, IndexingHasGraph
  <2>3. CASE MarkIndexing(t) /\ UNCHANGED snapshot
    BY <1>1, <2>3 DEF MarkIndexing, diskVars, snapshot, opVars
  <2>4. CASE GuardGeneration(t) \/ RecheckGeneration(t) \/ PublishFinalized(t)
    BY <1>1, <2>4
    DEF GuardGeneration, RecheckGeneration, PublishFinalized, diskVars, rowVars, opVars
  <2> QED
    BY <1>2, <2>1, <2>2, <2>3, <2>4 DEF FinalizeStep, MarkIndexing
<1>3. ASSUME NEW o \in Ops, OpProgress(o) PROVE IndexingHasGraph'
  <2> USE OpFacts DEF TypeOK, OpTypes, OpAt
  <2>1. CASE WipeArtefacts(o) \/ RemoveGraphFiles(o) \/ UnlinkPdf(o)
    BY <2>1
    DEF WipeArtefacts, RemoveGraphFiles, UnlinkPdf, OpStep, IndexingHasGraph, Wiping
  <2>2. CASE ResetPaper(o)
    <3>1. CASE Exists
      BY <2>2, <3>1
      DEF ResetPaper, ResetRun, ClearRun, OpStep, Succeeds, IndexingHasGraph
    <3> QED
      BY <2>2, <3>1
      DEF ResetPaper, ResetRun, ClearRun, GiveUp, Succeeds, Exists, IndexingHasGraph
  <2>3. CASE ResetRun(o) \/ ClearRun(o) \/ Reschedule(o)
    BY <2>3
    DEF ResetRun, ClearRun, Reschedule, OpStep, GiveUp, SaveStatus, rowVars,
        snapshot, ResetStands, IndexingHasGraph
  <2>4. CASE DeleteRow(o)
    BY <2>4 DEF DeleteRow, IndexingHasGraph
  <2>5. CASE AcquireClaim(o) \/ PurgeVectors(o) \/ ReleaseClaim(o)
    BY <1>1, <2>5, OpHoldFacts
    DEF AcquireClaim, PurgeVectors, ReleaseClaim, diskVars, rowVars, snapshot
  <2> QED
    BY <1>3, <2>1, <2>2, <2>3, <2>4, <2>5 DEF OpProgress
<1>4. ASSUME NEW a \in Aborters, AbortStep(a) PROVE IndexingHasGraph'
  BY <1>1, <1>4, OpHoldFacts, OwnerFacts
  DEF AbortStep, AbortPipeline, UnregisterPipeline, AbortFull, EndAbort, OpAt,
      diskVars, rowVars, snapshot, opVars, TypeOK, OpTypes, Aborters
<1>5. CASE CrashRestart
  BY <1>5
  DEF CrashRestart, ColdBoot, SaveStatus, rowVars, snapshot, OrphanStatuses,
      IndexingHasGraph
<1>6. ASSUME NEW o \in Ops, BeginOp(o) PROVE IndexingHasGraph'
  BY <1>1, <1>6, OpHoldFacts
  DEF BeginOp, OpAt, diskVars, rowVars, snapshot, opVars, TypeOK, OpTypes
<1>7. CASE DogKills
  BY <1>1, <1>7, OwnerFacts
  DEF DogKills, diskVars, rowVars, snapshot, opVars, TypeOK, OpTypes
<1>8. CASE CreateFromUpload \/ QueueUpload \/ Age \/ RepairStatus \/ ExpireClaim
  BY <1>1, <1>8
  DEF CreateFromUpload, QueueUpload, Age, RepairStatus, ExpireClaim, SaveStatus,
      Persist, snapshot, opVars, rowVars, diskVars
<1>9. CASE DogLists \/ DogRenews \/ DogCondemns \/ DogReads \/ DogWrites
             \/ IndexingWatchdogStep
  BY <1>1, <1>9
  DEF DogLists, DogRenews, DogCondemns, DogReads, DogWrites, IndexingWatchdogStep,
      IndexingWatchdogReads, IndexingWatchdogWrites, SaveStatus, Persist, snapshot,
      opVars, rowVars, diskVars
<1>10. CASE RagStep
  BY <1>1, <1>10
  DEF RagStep, TakeEvent, BeginIndexing, EndIndexing, ReadForPromotion,
      WritePromotion, HandlerDies, SaveStatus, Persist, snapshot, TerminalReady,
      opVars, rowVars, diskVars
<1>11. ASSUME NEW r \in Runs, PipelineStep(r) \/ FullStep(r) PROVE IndexingHasGraph'
  BY <1>1, <1>11
  DEF PipelineStep, StartPipeline, MintGeneration, Advance, NodeFails, PipelineDies,
      HandOverToFull, FailNode, EnsureFailed, DrainBus, FullStep, BeginFull,
      EndChunking, FailFull, SaveStatus, Persist, snapshot, opVars, rowVars,
      diskVars
<1>12. ASSUME NEW t \in Tasks, DeliverCancel(t) PROVE IndexingHasGraph'
  BY <1>1, <1>12 DEF DeliverCancel, opVars, rowVars, snapshot, diskVars
<1>13. CASE UNCHANGED vars
  BY <1>1, <1>13 DEF vars, opVars, rowVars, snapshot, diskVars
<1> QED
  BY <1>2, <1>3, <1>4, <1>5, <1>6, <1>7, <1>8, <1>9, <1>10, <1>11, <1>12, <1>13
  DEF Next, DogStep

\* As long as no step of a wipe fails before the first reset, an INDEXING paper has
\* its graph, though finalize, the handler and the second reset may fail (the cold
\* boot of the indexing watchdog settles what a crash in a wipe leaves).
THEOREM IndexingBacked ==
    ASSUME "wipe" \notin Faults, IndexingWatchdogEnabled
    PROVE  Spec => []IndexingHasGraph
<1>1. Init => Saved /\ ResetStands /\ IndexingHasGraph
  BY OpFacts DEF Init, Saved, ResetStands, IndexingHasGraph
<1>2. TypeOK /\ LoopOwner /\ Saved /\ [Next]_vars => Saved'
  BY SavedStep
<1>3. TypeOK /\ LoopOwner /\ ResetStands /\ [Next]_vars => ResetStands'
  BY ResetStandsStep
<1>4. TypeOK /\ LoopOwner /\ Saved /\ ResetStands /\ IndexingHasGraph /\ [Next]_vars
        => IndexingHasGraph'
  BY GraphStep
<1> QED
  BY <1>1, <1>2, <1>3, <1>4, LoopOwned, TypeCorrect, PTL DEF Spec

-----------------------------------------------------------------------------
(* Deletion.                                                               *)

\* The generation token names a run only while there is a row,
RowNamed == gen # NoRun => Exists

\* a task that is about to write without looking has seen the row,
WritersHaveRow == \A t \in Tasks : pc[t] \in {"mint", "save", "commit"} => Exists

\* no wipe starts before the upload request has ended,
UploadFirst ==
    /\ upload # "done" => \A o \in Ops : opPc[o] = "idle"
    /\ upload = "created" => Exists

\* and the cascade takes graph, PDF and row in this order.
CascadeOrder ==
    \A o \in Ops : /\ opPc[o] = "requeue" => Exists
                   /\ opPc[o] \in {"rm_pdf", "rm_row"} => file = NoRun
                   /\ opPc[o] = "rm_row" => ~pdf

RowLives ==
    RowNamed /\ WritersHaveRow /\ UploadFirst /\ CascadeOrder /\ DeleteLeavesNothing

\* The row goes by delete_paper alone, and nothing but an upload makes one.
LEMMA RowComesAndGoes ==
    ASSUME TypeOK, RowLives, [Next]_vars
    PROVE  /\ Exists => Exists' \/ \E o \in Ops : DeleteRow(o)
           /\ ~Exists => ~Exists' \/ CreateFromUpload
<1> USE DEF Exists
<1>1. CASE UNCHANGED status
  BY <1>1
<1>2. ASSUME NEW r \in Runs, PipelineStep(r)
      PROVE  UNCHANGED status \/ (Exists /\ Exists')
  BY <1>2
  DEF PipelineStep, StartPipeline, MintGeneration, Advance, NodeFails, PipelineDies,
      HandOverToFull, FailNode, EnsureFailed, DrainBus, SaveStatus, Persist,
      snapshot, rowVars
<1>3. ASSUME NEW r \in Runs, FullStep(r)
      PROVE  UNCHANGED status \/ (Exists /\ Exists')
  BY <1>3
  DEF FullStep, BeginFull, EndChunking, FailFull, SaveStatus, Persist, snapshot,
      rowVars
<1>4. ASSUME NEW t \in Tasks, FinalizeStep(t) \/ DeliverCancel(t)
      PROVE  UNCHANGED status \/ (Exists /\ Exists')
  BY <1>4
  DEF FinalizeStep, GuardGeneration, SaveGraph, Breaks, RecheckGeneration,
      MarkIndexing, PublishFinalized, DeliverCancel, SaveStatus, Holds, RowLives,
      WritersHaveRow, rowVars, snapshot
<1>5. ASSUME RagStep \/ DogStep \/ IndexingWatchdogStep \/ RepairStatus \/ QueueUpload
      PROVE  UNCHANGED status \/ (Exists /\ Exists')
  BY <1>5
  DEF RagStep, TakeEvent, BeginIndexing, EndIndexing, ReadForPromotion,
      WritePromotion, HandlerDies, DogStep, DogLists, DogRenews, DogCondemns,
      DogKills, DogReads, DogWrites, IndexingWatchdogStep, IndexingWatchdogReads,
      IndexingWatchdogWrites, RepairStatus, QueueUpload, SaveStatus, Persist,
      snapshot, TerminalReady, rowVars
<1>6. ASSUME NEW o \in Ops, OpProgress(o), ~DeleteRow(o)
      PROVE  UNCHANGED status \/ (Exists /\ Exists')
  BY <1>6, OpFacts
  DEF OpProgress, AcquireClaim, PurgeVectors, WipeArtefacts, ResetPaper, ResetRun,
      ClearRun, Reschedule, OpStep, GiveUp, RemoveGraphFiles, UnlinkPdf,
      ReleaseClaim, OpAt, Succeeds, SaveStatus, rowVars, snapshot, TypeOK, OpTypes,
      RowLives, CascadeOrder
<1>7. ASSUME NEW o \in Ops, DeleteRow(o) PROVE ~Exists => ~Exists'
  BY <1>7 DEF DeleteRow, rowVars, snapshot
<1>8. ASSUME CrashRestart PROVE UNCHANGED status \/ (Exists /\ Exists')
  BY <1>8 DEF CrashRestart, ColdBoot, SaveStatus, rowVars, snapshot, OrphanStatuses
<1>9. CASE CreateFromUpload
  BY <1>9 DEF CreateFromUpload
<1> QED
  BY <1>1, <1>2, <1>3, <1>4, <1>5, <1>6, <1>7, <1>8, <1>9
  DEF Next, vars, rowVars, snapshot, Age, AbortStep, AbortPipeline,
      UnregisterPipeline, AbortFull, EndAbort, BeginOp, ExpireClaim

\* The token is written by the pipeline that has just seen the row, and goes
\* with it.
LEMMA RowNamedStep ==
    ASSUME TypeOK, RowLives, [Next]_vars
    PROVE  RowNamed'
<1>1. CASE \E o \in Ops : DeleteRow(o)
  BY <1>1 DEF DeleteRow, rowVars, snapshot, RowLives, RowNamed, Exists
<1>2. CASE gen' = gen \/ gen' = NoRun
  BY <1>1, <1>2, RowComesAndGoes DEF RowLives, RowNamed
<1>3. ASSUME NEW r \in Runs, MintGeneration(r) PROVE RowNamed'
  BY <1>3, TaskFacts
  DEF MintGeneration, Holds, RowLives, RowNamed, WritersHaveRow, Exists
<1> QED
  BY <1>2, <1>3
  DEF Next, vars, rowVars, snapshot, PipelineStep, StartPipeline, Advance,
      NodeFails, PipelineDies, HandOverToFull, FailNode, EnsureFailed, DrainBus,
      FullStep, BeginFull, EndChunking, FailFull, FinalizeStep, GuardGeneration,
      SaveGraph, Breaks, RecheckGeneration, MarkIndexing, PublishFinalized,
      DeliverCancel, RagStep, TakeEvent, BeginIndexing, EndIndexing,
      ReadForPromotion, WritePromotion, HandlerDies, Age, DogStep, DogLists,
      DogRenews, DogCondemns, DogKills, DogReads, DogWrites, IndexingWatchdogStep,
      IndexingWatchdogReads, IndexingWatchdogWrites, RepairStatus, CreateFromUpload,
      QueueUpload, AbortStep, AbortPipeline, UnregisterPipeline, AbortFull,
      EndAbort, BeginOp, OpProgress, AcquireClaim, PurgeVectors, WipeArtefacts,
      ResetPaper, ResetRun, ClearRun, Reschedule, OpStep, GiveUp, RemoveGraphFiles,
      UnlinkPdf, DeleteRow, ReleaseClaim, ExpireClaim, CrashRestart, ColdBoot

\* The row cannot go while a task holds the loop, and a task that takes it up
\* looks first.
LEMMA WritersStep ==
    ASSUME TypeOK, LoopOwner, RowLives, [Next]_vars
    PROVE  WritersHaveRow'
<1>1. CASE \E o \in Ops : DeleteRow(o)
  BY <1>1, PcFacts, OwnerFacts
  DEF DeleteRow, taskVars, LoopOwner, TaskOwnsLoop, WritersHaveRow
<1>2. CASE \A t \in Tasks : pc'[t] \in {"mint", "save", "commit"} => pc'[t] = pc[t]
  BY <1>1, <1>2, RowComesAndGoes DEF RowLives, WritersHaveRow
<1>3. CASE \E t \in Tasks : \E next \in TaskPcs \ {"mint", "save", "commit"} :
             pc' = [pc EXCEPT ![t] = next]
  BY <1>2, <1>3 DEF TypeOK, TaskTypes
<1>4. CASE UNCHANGED pc
  BY <1>2, <1>4
<1>5. ASSUME NEW r \in Runs, PipelineStep(r) PROVE WritersHaveRow'
  <2>1. CASE StartPipeline(r) /\ pc' = [pc EXCEPT ![Pipe(r)] = "mint"] /\ Exists'
    BY <2>1, RowComesAndGoes DEF WritersHaveRow, Exists
  <2>2. CASE Advance(r)
    <3>1. PcAfter[pc[Pipe(r)]] \in TaskPcs \ {"mint", "save", "commit"}
      BY <2>2, NodeFacts, PcFacts, LiveFacts DEF Advance, Resumes
    <3> QED
      BY <1>3, <2>2, <3>1, TaskFacts, PcFacts DEF Advance, Finish, Goto
  <2>3. CASE HandOverToFull(r)
    BY <1>2, <2>3, TaskFacts DEF HandOverToFull, TypeOK, TaskTypes
  <2> QED
    BY <1>3, <1>5, <2>1, <2>2, <2>3, TaskFacts, PcFacts
    DEF PipelineStep, StartPipeline, MintGeneration, NodeFails, PipelineDies,
        FailNode, EnsureFailed, DrainBus, Finish, Goto, SaveStatus, Exists
<1>6. ASSUME NEW r \in Runs, FullStep(r) PROVE WritersHaveRow'
  BY <1>3, <1>6, TaskFacts, PcFacts, LiveFacts
  DEF FullStep, BeginFull, EndChunking, FailFull, Finish, Goto
<1>7. ASSUME NEW t \in Tasks, FinalizeStep(t) PROVE WritersHaveRow'
  <2>1. CASE Exists /\ UNCHANGED status
    BY <2>1 DEF WritersHaveRow, Exists
  <2>2. CASE GuardGeneration(t)
    BY <1>3, <2>1, <2>2, TaskFacts, PcFacts, ConstantsAssumption
    DEF GuardGeneration, Writable, FinalizeFails, Goto, rowVars, snapshot,
        ConstantsAssumption, RowLives, RowNamed
  <2>3. CASE RecheckGeneration(t)
    BY <1>3, <2>1, <2>3, PcFacts
    DEF RecheckGeneration, Committable, Breaks, FinalizeFails, Goto, rowVars, snapshot
  <2> QED
    BY <1>3, <1>7, <2>2, <2>3, PcFacts
    DEF FinalizeStep, SaveGraph, Breaks, FinalizeFails, MarkIndexing, PublishFinalized,
        Finish, Goto
<1>8. ASSUME NEW t \in Tasks, DeliverCancel(t) PROVE WritersHaveRow'
  BY <1>3, <1>8, PcFacts DEF DeliverCancel, Finish
<1>9. CASE QueueUpload \/ \E o \in Ops : Reschedule(o)
  BY <1>3, <1>4, <1>9, TaskFacts, PcFacts
  DEF QueueUpload, Reschedule, Schedule, taskVars
<1>10. CASE CrashRestart
  BY <1>10, PcFacts, LiveFacts DEF CrashRestart, Live, WritersHaveRow
<1> QED
  BY <1>4, <1>5, <1>6, <1>7, <1>8, <1>9, <1>10
  DEF Next, vars, taskVars, RagStep, DogStep, IndexingWatchdogStep,
      CreateFromUpload, TakeEvent, BeginIndexing, EndIndexing, ReadForPromotion,
      WritePromotion, HandlerDies, Age, DogLists, DogRenews, DogCondemns, DogKills,
      DogReads, DogWrites, IndexingWatchdogReads, IndexingWatchdogWrites,
      RepairStatus, AbortStep, AbortPipeline, UnregisterPipeline, AbortFull,
      EndAbort, BeginOp, OpProgress, AcquireClaim, PurgeVectors, WipeArtefacts,
      ResetPaper, ResetRun, ClearRun, RemoveGraphFiles, UnlinkPdf, DeleteRow,
      ReleaseClaim, ExpireClaim

\* A wipe begins after the upload has ended, and only a wipe deletes.
LEMMA UploadStep ==
    ASSUME TypeOK, RowLives, [Next]_vars
    PROVE  UploadFirst'
<1> USE DEF UploadFirst, RowLives
<1>1. ASSUME NEW o \in Ops, OpProgress(o) PROVE upload = "done" /\ upload' = "done"
  BY <1>1, OpFacts
  DEF OpProgress, AcquireClaim, PurgeVectors, WipeArtefacts, ResetPaper, ResetRun,
      ClearRun, Reschedule, OpStep, GiveUp, RemoveGraphFiles, UnlinkPdf, DeleteRow,
      ReleaseClaim, TypeOK
<1>2. ASSUME NEW o \in Ops, BeginOp(o) PROVE upload = "done" /\ upload' = "done"
  BY <1>2 DEF BeginOp
<1>3. ASSUME NEW a \in Aborters, AbortStep(a)
      PROVE  upload' = "done" \/ (a = Dog /\ UNCHANGED upload)
  BY <1>3
  DEF AbortStep, AbortPipeline, UnregisterPipeline, AbortFull, EndAbort, Aborters
<1>4. ASSUME NEW a \in Aborters, AbortStep(a), a = Dog
      PROVE  /\ \A o \in Ops : opPc'[o] = opPc[o]
             /\ UNCHANGED status
  BY <1>4, OwnerFacts, OpFacts
  DEF AbortStep, AbortPipeline, UnregisterPipeline, AbortFull, EndAbort, OpAt,
      rowVars, snapshot, opVars, TypeOK, OpTypes
<1>5. CASE CreateFromUpload \/ QueueUpload
  BY <1>5 DEF CreateFromUpload, QueueUpload, opVars, Exists
<1>6. CASE DogKills
  BY <1>6, OwnerFacts
  DEF DogKills, rowVars, snapshot, opVars, Exists, TypeOK, OpTypes
<1>7. CASE CrashRestart
  BY <1>7, RowComesAndGoes, OpFacts DEF CrashRestart
<1>8. CASE UNCHANGED <<upload, opPc>>
  <2>1. CASE \E o \in Ops : OpProgress(o)
    BY <1>1, <2>1
  <2>2. CASE CreateFromUpload
    BY <1>5, <2>2
  <2> QED
    BY <1>8, <2>1, <2>2, RowComesAndGoes DEF OpProgress
<1> QED
  BY <1>1, <1>2, <1>3, <1>4, <1>5, <1>6, <1>7, <1>8
  DEF Next, vars, opVars, Exists, PipelineStep, StartPipeline, MintGeneration,
      Advance, NodeFails, PipelineDies, HandOverToFull, FailNode, EnsureFailed,
      DrainBus, FullStep, BeginFull, EndChunking, FailFull, FinalizeStep,
      GuardGeneration, SaveGraph, Breaks, RecheckGeneration, MarkIndexing,
      PublishFinalized, DeliverCancel, RagStep, TakeEvent, BeginIndexing,
      EndIndexing, ReadForPromotion, WritePromotion, HandlerDies, Age, DogStep,
      DogLists, DogRenews, DogCondemns, DogReads, DogWrites, IndexingWatchdogStep,
      IndexingWatchdogReads, IndexingWatchdogWrites, RepairStatus, ExpireClaim

\* While a request destroys it holds the loop: store, PDF and its own progress
\* change by its own hand, or it is over.
LEMMA LoopQuiet ==
    ASSUME TypeOK, LoopOwner, [Next]_vars,
           NEW o \in Ops, opPc[o] \in OpHoldPcs, opPc'[o] \in OpHoldPcs
    PROVE  OpProgress(o) \/ UNCHANGED <<file, pdf, opPc[o]>>
<1>1. loop = o /\ o \notin Tasks /\ o # Free
  BY OwnerFacts DEF LoopOwner, OpOwnsLoop
<1>2. CASE UNCHANGED <<file, pdf, opPc>>
  BY <1>2
<1>3. ASSUME NEW p \in Ops, BeginOp(p) \/ OpProgress(p) PROVE OpProgress(o)
  BY <1>1, <1>3, OpHoldFacts
  DEF BeginOp, OpProgress, AcquireClaim, PurgeVectors, WipeArtefacts, ResetPaper,
      ResetRun, ClearRun, Reschedule, OpStep, GiveUp, RemoveGraphFiles, UnlinkPdf,
      DeleteRow, ReleaseClaim
<1>4. ASSUME NEW t \in Tasks, FinalizeStep(t) PROVE FALSE
  BY <1>1, <1>4
  DEF FinalizeStep, GuardGeneration, SaveGraph, Breaks, RecheckGeneration,
      MarkIndexing, PublishFinalized, Holds
<1>5. ASSUME NEW a \in Aborters, AbortStep(a) PROVE FALSE
  BY <1>1, <1>5
  DEF AbortStep, AbortPipeline, UnregisterPipeline, AbortFull, EndAbort
<1>6. CASE DogKills
  BY <1>6, OwnerFacts DEF DogKills, diskVars, TypeOK, OpTypes
<1>7. CASE CrashRestart
  BY <1>7, OpHoldFacts, OpFacts DEF CrashRestart
<1>8. CASE CreateFromUpload
  BY <1>1, <1>8 DEF CreateFromUpload
<1> QED
  BY <1>2, <1>3, <1>4, <1>5, <1>6, <1>7, <1>8
  DEF Next, vars, opVars, diskVars, PipelineStep, StartPipeline, MintGeneration,
      Advance, NodeFails, PipelineDies, HandOverToFull, FailNode, EnsureFailed,
      DrainBus, FullStep, BeginFull, EndChunking, FailFull, DeliverCancel, RagStep,
      TakeEvent, BeginIndexing, EndIndexing, ReadForPromotion, WritePromotion,
      HandlerDies, Age, DogStep, DogLists, DogRenews, DogCondemns, DogReads,
      DogWrites, IndexingWatchdogStep, IndexingWatchdogReads,
      IndexingWatchdogWrites, RepairStatus, QueueUpload, ExpireClaim

\* The cascade keeps its order, whatever fails.
LEMMA CascadeStep ==
    ASSUME TypeOK, LoopOwner, RowLives, [Next]_vars
    PROVE  CascadeOrder'
<1> SUFFICES ASSUME NEW o \in Ops, opPc'[o] \in {"requeue", "rm_pdf", "rm_row"}
             PROVE  /\ opPc'[o] = "requeue" => Exists'
                    /\ opPc'[o] \in {"rm_pdf", "rm_row"} => file' = NoRun
                    /\ opPc'[o] = "rm_row" => ~pdf'
  BY DEF CascadeOrder
<1>1. CASE OpProgress(o)
  BY <1>1, OpFacts
  DEF OpProgress, AcquireClaim, PurgeVectors, WipeArtefacts, ResetPaper, ResetRun,
      ClearRun, Reschedule, OpStep, GiveUp, RemoveGraphFiles, UnlinkPdf, DeleteRow,
      ReleaseClaim, OpAt, Succeeds, Exists, TypeOK, OpTypes, RowLives, CascadeOrder
<1>2. CASE UNCHANGED <<file, pdf, opPc[o]>> /\ opPc[o] \in OpHoldPcs /\ ~OpProgress(o)
  <2>1. ASSUME Exists, NEW p \in Ops, DeleteRow(p), opPc[o] = "requeue" PROVE FALSE
    BY <1>2, <2>1 DEF DeleteRow, LoopOwner, OpOwnsLoop
  <2> QED
    BY <1>2, <2>1, RowComesAndGoes DEF RowLives, CascadeOrder
<1> QED
  BY <1>1, <1>2, OpHoldFacts, LoopQuiet, HoldByOwnHand

\* Only finalize fills the store and only an upload writes a PDF; the upload is
\* over one step after its row was created.
LEMMA StoreWriters ==
    ASSUME TypeOK, [Next]_vars
    PROVE  /\ file' \in {file, NoRun} \/ \E t \in Tasks : SaveGraph(t)
           /\ CreateFromUpload \/ pdf' = pdf \/ pdf' = FALSE
           /\ upload' = "done" => upload \in {"created", "done"}
           /\ upload = "done" => upload' = "done"
<1>1. CASE UNCHANGED <<diskVars, upload>>
  BY <1>1 DEF diskVars
<1>2. CASE CreateFromUpload
  BY <1>2 DEF CreateFromUpload
<1>5. CASE QueueUpload \/ CrashRestart \/ EndIndexing
  BY <1>5 DEF QueueUpload, CrashRestart, EndIndexing, diskVars
<1>3. ASSUME NEW t \in Tasks, SaveGraph(t)
      PROVE  UNCHANGED <<pdf, upload>>
  BY <1>3 DEF SaveGraph, Breaks
<1>4. ASSUME NEW o \in Ops, OpProgress(o)
      PROVE  file' \in {file, NoRun} /\ pdf' \in {pdf, FALSE} /\ UNCHANGED upload
  BY <1>4
  DEF OpProgress, AcquireClaim, PurgeVectors, WipeArtefacts, ResetPaper, ResetRun,
      ClearRun, Reschedule, OpStep, GiveUp, RemoveGraphFiles, UnlinkPdf, DeleteRow,
      ReleaseClaim, diskVars, TypeOK, DiskTypes
<1> QED
  BY <1>1, <1>2, <1>3, <1>4, <1>5
  DEF Next, vars, PipelineStep, StartPipeline, MintGeneration, Advance, NodeFails,
      PipelineDies, HandOverToFull, FailNode, EnsureFailed, DrainBus, FullStep,
      BeginFull, EndChunking, FailFull, FinalizeStep, GuardGeneration,
      RecheckGeneration, Breaks, MarkIndexing, PublishFinalized, DeliverCancel,
      RagStep, TakeEvent, BeginIndexing, ReadForPromotion, WritePromotion,
      HandlerDies, Age, DogStep, DogLists, DogRenews, DogCondemns, DogKills,
      DogReads, DogWrites, IndexingWatchdogStep, IndexingWatchdogReads,
      IndexingWatchdogWrites, RepairStatus, AbortStep, AbortPipeline,
      UnregisterPipeline, AbortFull, EndAbort, BeginOp, ExpireClaim

\* The row goes last, and what went before it does not come back.
LEMMA NothingLeftStep ==
    ASSUME TypeOK, LoopOwner, RowLives, [Next]_vars
    PROVE  DeleteLeavesNothing'
<1> SUFFICES ASSUME ~Exists', upload' = "done" PROVE file' = NoRun /\ ~pdf'
  BY DEF DeleteLeavesNothing, Exists
<1>1. CASE \E o \in Ops : DeleteRow(o)
  BY <1>1 DEF DeleteRow, RowLives, CascadeOrder
<1>2. CASE ~Exists
  <2>1. upload = "done" /\ file = NoRun /\ pdf = FALSE
    BY <1>2, StoreWriters
    DEF RowLives, UploadFirst, DeleteLeavesNothing, Exists, TypeOK, DiskTypes
  <2>2. ~CreateFromUpload
    BY <2>1 DEF CreateFromUpload
  <2>3. \A t \in Tasks : ~SaveGraph(t)
    BY <1>2 DEF SaveGraph, Breaks, Holds, RowLives, WritersHaveRow
  <2> QED
    BY <2>1, <2>2, <2>3, StoreWriters DEF TypeOK, DiskTypes
<1> QED
  BY <1>1, <1>2, RowComesAndGoes

\* The strengthening is inductive beside the types and the owner of the loop.
LEMMA RowLivesAlways == Spec => []RowLives
<1>1. Init => RowLives
  <2> SUFFICES ASSUME Init PROVE RowLives
    OBVIOUS
  <2>1. RowNamed /\ UploadFirst /\ DeleteLeavesNothing
    BY OpFacts DEF Init, RowNamed, UploadFirst, DeleteLeavesNothing
  <2>2. WritersHaveRow
    BY DEF Init, WritersHaveRow
  <2>3. CascadeOrder
    BY OpFacts DEF Init, CascadeOrder
  <2> QED
    BY <2>1, <2>2, <2>3 DEF RowLives
<1>2. TypeOK /\ LoopOwner /\ RowLives /\ [Next]_vars => RowLives'
  BY RowNamedStep, WritersStep, UploadStep, CascadeStep, NothingLeftStep DEF RowLives
<1> QED
  BY <1>1, <1>2, LoopOwned, TypeCorrect, PTL DEF Spec

\* However the disk, the database or the process fails, and whoever writes late:
\* once delete_paper has removed the row, neither graph nor PDF is left.
THEOREM DeleteIsComplete == Spec => []DeleteLeavesNothing
  BY RowLivesAlways, PTL DEF RowLives

\* No task, handler, watchdog or request brings a deleted row back.
THEOREM DeleteIsFinal == Spec => NoResurrection
<1>1. TypeOK /\ RowLives /\ [Next]_vars
        => [status = "absent" /\ upload = "done" => status' = "absent"]_vars
  BY RowComesAndGoes DEF CreateFromUpload, Exists
<1> QED
  BY <1>1, RowLivesAlways, TypeCorrect, PTL DEF Spec, NoResurrection

-----------------------------------------------------------------------------
(* One run at a time, and no worker under a wipe.                          *)

\* A request that has claimed the paper and not yet given it back.
UnderWay(o) == opPc[o] \in OpPcs \ {"idle", "claim", "release"}

\* A full extraction at work is the registered one, and the only one that lives:
\* so nobody else's finally block takes its entry away.
FullTracked ==
    \A r \in Runs : Working(Full(r)) =>
        fullReg = r /\ \A q \in Runs : Live(Full(q)) => q = r

\* Where an abort has dealt with the pipeline, and where with the full extraction.
PastPipe == {"await_pipe", "await_head", "await_full", "purge"} \cup OpHoldPcs
PastFull == {"await_full", "purge"} \cup OpHoldPcs

\* What an abort has cancelled is not at work, and nothing takes its place while
\* the request is under way.
AbortBites ==
    \A o \in Ops, r \in Runs :
        /\ opPc[o] \in PastPipe => ~Working(Pipe(r))
        /\ opPc[o] \in PastFull => ~Working(Full(r))

\* No task lives before the upload request has queued the first one.
NoneBeforeUpload == upload # "done" => \A t \in Tasks : ~Live(t)

RunsApart == FullTracked /\ AbortBites /\ NoneBeforeUpload /\ OneRun

\* The control points named above.
LEMMA PastFacts ==
    /\ PastFull \subseteq PastPipe /\ PastPipe \subseteq OpPcs
    /\ PastPipe \cap {"idle", "claim", "release", "abort"} = {}
    /\ {"await_pipe", "await_head"} \cap PastFull = {}
    /\ OpHoldPcs \cup {"await_full", "purge"} \subseteq PastFull
    /\ {"await_pipe", "await_head", "await_full", "purge"} \subseteq PastPipe
BY OpHoldFacts, OpFacts DEF PastPipe, PastFull, OpPcs, AbortPcs, OpHoldPcs

\* Who schedules a run, and who starts a full extraction.
Queues == QueueUpload \/ \E o \in Ops : Reschedule(o)
Starts(t) == \E r \in Runs : t = Full(r) /\ HandOverToFull(r) /\ FullTask = NoRun

\* A step that brings task t neither to life nor back to work.
NoNewLife(t) == (Live(t)' => Live(t)) /\ (Working(t)' => Working(t))

\* A task that moves on brings nobody to life,
LEMMA LifeGoto ==
    ASSUME TypeOK, NEW t \in Tasks, NEW u \in Tasks, NEW next, Live(u), Goto(u, next)
    PROVE  NoNewLife(t)
BY DEF TypeOK, TaskTypes, Goto, Live, Working, NoNewLife

\* and neither does one that ends.
LEMMA LifeFinish ==
    ASSUME TypeOK, NEW t \in Tasks, NEW u \in Tasks, Finish(u)
    PROVE  NoNewLife(t)
BY DEF TypeOK, TaskTypes, Finish, Live, Working, NoNewLife

\* A task comes to life by these three hands alone, and whoever is at work was at
\* work before or has just come to life.
LEMMA LifeBegins ==
    ASSUME TypeOK, [Next]_vars, NEW t \in Tasks
    PROVE  NoNewLife(t) \/ Queues \/ Starts(t)
<1>1. CASE UNCHANGED <<pc, cancelled>>
  BY <1>1 DEF Live, Working, NoNewLife
<1>2. CASE UNCHANGED pc /\ cancelled \subseteq cancelled'
  BY <1>2 DEF Live, Working, NoNewLife
<1>5. CASE CrashRestart
  BY <1>5 DEF CrashRestart, TypeOK, TaskTypes, Live, Working, NoNewLife
<1>6. ASSUME NEW r \in Runs, PipelineStep(r)
      PROVE  NoNewLife(t) \/ Starts(t)
  <2>1. CASE HandOverToFull(r)
    BY <2>1, TaskFacts, LiveFacts
    DEF HandOverToFull, Resumes, Starts, TypeOK, TaskTypes, Live, Working, NoNewLife
  <2>2. CASE MintGeneration(r) \/ Advance(r) \/ NodeFails(r)
    BY <2>2, TaskFacts, LiveFacts, PcFacts, LifeGoto, LifeFinish
    DEF MintGeneration, Advance, NodeFails, Resumes, Holds, Live
  <2>3. CASE StartPipeline(r) \/ PipelineDies(r) \/ FailNode(r) \/ EnsureFailed(r)
               \/ DrainBus(r)
    BY <2>3, TaskFacts, LiveFacts, LifeGoto, LifeFinish
    DEF StartPipeline, PipelineDies, FailNode, EnsureFailed, DrainBus, Resumes, Live
  <2> QED
    BY <1>6, <2>1, <2>2, <2>3 DEF PipelineStep
<1>7. ASSUME NEW r \in Runs, FullStep(r)
      PROVE  NoNewLife(t)
  BY <1>7, TaskFacts, LiveFacts, PcFacts, LifeGoto, LifeFinish
  DEF FullStep, BeginFull, EndChunking, FailFull, Resumes, Holds, Live
<1>8. ASSUME NEW u \in Tasks, FinalizeStep(u)
      PROVE  NoNewLife(t)
  BY <1>8, LiveFacts, PcFacts, LifeGoto, LifeFinish
  DEF FinalizeStep, GuardGeneration, SaveGraph, Breaks, RecheckGeneration,
      MarkIndexing, PublishFinalized, FinalizeFails, Holds, Live
<1>9. ASSUME NEW u \in Tasks, DeliverCancel(u)
      PROVE  NoNewLife(t)
  <2>1. CASE pc[u] = "queued"
    BY <1>9, <2>1 DEF DeliverCancel, TypeOK, TaskTypes, Live, Working, NoNewLife
  <2> QED
    BY <1>9, <2>1, LifeGoto, LifeFinish DEF DeliverCancel
<1> QED
  BY <1>1, <1>2, <1>5, <1>6, <1>7, <1>8, <1>9
  DEF Next, vars, taskVars, Queues, RagStep, DogStep, IndexingWatchdogStep,
      CreateFromUpload, TakeEvent, BeginIndexing, EndIndexing, ReadForPromotion,
      WritePromotion, HandlerDies, Age, DogLists, DogRenews, DogCondemns, DogKills,
      DogReads, DogWrites, IndexingWatchdogReads, IndexingWatchdogWrites,
      RepairStatus, AbortStep, AbortPipeline, UnregisterPipeline, AbortFull,
      EndAbort, BeginOp, OpProgress, AcquireClaim, PurgeVectors, WipeArtefacts,
      ResetPaper, ResetRun, ClearRun, RemoveGraphFiles, UnlinkPdf, DeleteRow,
      ReleaseClaim, ExpireClaim

\* Whom schedule_paper_pipeline brings to life: the pipeline of one run.
LEMMA LifeQueued ==
    ASSUME TypeOK, Queues
    PROVE  \/ \A t \in Tasks : NoNewLife(t)
           \/ \E r \in Runs : \A t \in Tasks : t = Pipe(r) \/ NoNewLife(t)
<1>1. ASSUME NEW r \in Runs, Schedule(r)
      PROVE  \A t \in Tasks : t = Pipe(r) \/ NoNewLife(t)
  BY <1>1, TaskFacts DEF Schedule, TypeOK, TaskTypes, Live, Working, NoNewLife
<1>2. CASE UNCHANGED taskVars
  BY <1>2
  DEF taskVars, Live, Working, NoNewLife, Queues, QueueUpload, ResetRun, ClearRun,
      Reschedule, OpStep, GiveUp
<1> QED
  BY <1>1, <1>2
  DEF Queues, QueueUpload, ResetRun, ClearRun, Reschedule, OpStep, GiveUp

\* A request comes past the pipeline, and past the full extraction, by its own
\* abort.
LEMMA PastByAbort ==
    ASSUME TypeOK, [Next]_vars, NEW o \in Ops
    PROVE  /\ opPc'[o] \in PastPipe => opPc[o] \in PastPipe \/ AbortPipeline(o)
           /\ opPc'[o] \in PastFull => opPc[o] \in PastFull \/ AbortFull(o)
<1> USE PastFacts
<1>1. CASE UNCHANGED opPc
  BY <1>1
<1>2. ASSUME NEW p \in Ops, BeginOp(p) \/ OpProgress(p)
      PROVE  opPc'[o] \in PastPipe => opPc'[o] = opPc[o] \/ opPc[o] \in PastFull
  BY <1>2, OpFacts, OpHoldFacts
  DEF BeginOp, OpProgress, AcquireClaim, PurgeVectors, WipeArtefacts, ResetPaper,
      ResetRun, ClearRun, Reschedule, OpStep, GiveUp, RemoveGraphFiles, UnlinkPdf,
      DeleteRow, ReleaseClaim, OpAt, TypeOK, OpTypes
<1>3. ASSUME NEW a \in Aborters, AbortStep(a)
      PROVE  \/ UNCHANGED opPc[o] \/ AbortPipeline(o) \/ AbortFull(o)
             \/ UnregisterPipeline(o) \/ EndAbort(o)
  BY <1>3, OpFacts
  DEF AbortStep, AbortPipeline, UnregisterPipeline, AbortFull, EndAbort, OpAt,
      opVars, TypeOK, OpTypes
<1>4. CASE AbortPipeline(o) \/ AbortFull(o) \/ UnregisterPipeline(o) \/ EndAbort(o)
  BY <1>4, OpFacts
  DEF AbortPipeline, UnregisterPipeline, AbortFull, EndAbort, OpAt, TypeOK, OpTypes
<1>5. CASE DogKills \/ CrashRestart
  BY <1>5, OwnerFacts, OpFacts DEF DogKills, CrashRestart, TypeOK, OpTypes
<1> QED
  BY <1>1, <1>2, <1>3, <1>4, <1>5
  DEF Next, vars, opVars, PipelineStep, StartPipeline, MintGeneration, Advance,
      NodeFails, PipelineDies, HandOverToFull, FailNode, EnsureFailed, DrainBus,
      FullStep, BeginFull, EndChunking, FailFull, FinalizeStep, GuardGeneration,
      SaveGraph, Breaks, RecheckGeneration, MarkIndexing, PublishFinalized,
      DeliverCancel, RagStep, TakeEvent, BeginIndexing, EndIndexing,
      ReadForPromotion, WritePromotion, HandlerDies, Age, DogStep, DogLists,
      DogRenews, DogCondemns, DogReads, DogWrites, IndexingWatchdogStep,
      IndexingWatchdogReads, IndexingWatchdogWrites, RepairStatus, CreateFromUpload,
      QueueUpload, ExpireClaim

\* The entry of a full extraction goes when an abort cancels it, or when a full
\* extraction that lives ends.
LEMMA EntryGoes ==
    ASSUME TypeOK, [Next]_vars, NEW r \in Runs, fullReg = r, Live(Full(r))
    PROVE  \/ fullReg' = r \/ ~Working(Full(r))'
           \/ \E q \in Runs : Live(Full(q)) /\ (q = r => ~Working(Full(r))')
<1>1. CASE UNCHANGED fullReg
  BY <1>1
<1>2. ASSUME NEW t \in Tasks, Finish(t), Live(t)
      PROVE  \/ fullReg' = r
             \/ \E q \in Runs : Live(Full(q)) /\ (q = r => ~Working(Full(r))')
  BY <1>2, TaskFacts DEF Finish, TypeOK, TaskTypes, Live, Working
<1>3. ASSUME NEW q \in Runs, PipelineStep(q)
      PROVE  fullReg' = r
  BY <1>3, TaskFacts, ConstantsAssumption
  DEF PipelineStep, StartPipeline, MintGeneration, Advance, NodeFails, PipelineDies,
      HandOverToFull, FailNode, EnsureFailed, DrainBus, Finish, Goto, FullTask,
      ConstantsAssumption
<1>4. ASSUME NEW q \in Runs, FullStep(q)
      PROVE  (Finish(Full(q)) /\ Live(Full(q))) \/ fullReg' = r
  BY <1>4, LiveFacts, PcFacts
  DEF FullStep, BeginFull, EndChunking, FailFull, Goto, Resumes, Holds, Live
<1>5. ASSUME NEW t \in Tasks, FinalizeStep(t) \/ DeliverCancel(t)
      PROVE  (Finish(t) /\ Live(t)) \/ fullReg' = r
  BY <1>5, LiveFacts, PcFacts
  DEF FinalizeStep, GuardGeneration, SaveGraph, Breaks, RecheckGeneration,
      MarkIndexing, PublishFinalized, DeliverCancel, FinalizeFails, Goto, Holds,
      Live
<1>6. ASSUME NEW a \in Aborters, AbortStep(a)
      PROVE  fullReg' = r \/ ~Working(Full(r))'
  BY <1>6, ConstantsAssumption
  DEF AbortStep, AbortPipeline, UnregisterPipeline, AbortFull, EndAbort, FullTask,
      taskVars, Working, ConstantsAssumption
<1>7. CASE Queues
  BY <1>7
  DEF Queues, QueueUpload, ResetRun, ClearRun, Reschedule, OpStep, GiveUp, Schedule,
      taskVars
<1>8. CASE CrashRestart
  BY <1>8, TaskFacts DEF CrashRestart, Working, Live, TypeOK, TaskTypes
<1> QED
  BY <1>1, <1>2, <1>3, <1>4, <1>5, <1>6, <1>7, <1>8, TaskFacts
  DEF Next, vars, taskVars, Queues, RagStep, DogStep, IndexingWatchdogStep,
      CreateFromUpload, TakeEvent, BeginIndexing, EndIndexing, ReadForPromotion,
      WritePromotion, HandlerDies, Age, DogLists, DogRenews, DogCondemns, DogKills,
      DogReads, DogWrites, IndexingWatchdogReads, IndexingWatchdogWrites,
      RepairStatus, BeginOp, OpProgress, AcquireClaim, PurgeVectors, WipeArtefacts,
      ResetPaper, ResetRun, ClearRun, RemoveGraphFiles, UnlinkPdf, DeleteRow,
      ReleaseClaim, ExpireClaim

\* At most one request is under way.
OneUnderWay == \A o, p \in Ops : UnderWay(o) /\ UnderWay(p) => o = p

\* When a run is scheduled nobody is at work.
LEMMA QueuedAlone ==
    ASSUME TypeOK, RunsApart, Queues
    PROVE  \A t \in Tasks : ~Working(t)
<1>1. CASE QueueUpload
  BY <1>1 DEF QueueUpload, RunsApart, NoneBeforeUpload, Working
<1>2. ASSUME NEW o \in Ops, Reschedule(o) PROVE \A t \in Tasks : ~Working(t)
  <2>1. opPc[o] \in PastPipe /\ opPc[o] \in PastFull
    BY <1>2, PastFacts, OpHoldFacts DEF Reschedule
  <2> QED
    BY <2>1, TaskFacts DEF RunsApart, AbortBites
<1> QED
  BY <1>1, <1>2 DEF Queues

\* A full extraction at work stays the registered one and the only one.
LEMMA FullTrackedStep ==
    ASSUME TypeOK, RunsApart, [Next]_vars
    PROVE  FullTracked'
<1> SUFFICES ASSUME NEW r \in Runs, Working(Full(r))'
             PROVE  fullReg' = r /\ \A q \in Runs : Live(Full(q))' => q = r
  BY DEF FullTracked
<1> USE TaskFacts
<1>1. \A q \in Runs : NoNewLife(Full(q)) \/ Starts(Full(q))
  <2>1. \A q, p \in Runs : Full(q) # Pipe(p)
    OBVIOUS
  <2> QED
    BY <2>1, LifeBegins, LifeQueued
<1>2. ASSUME NEW q \in Runs, Starts(Full(q))
      PROVE  /\ HandOverToFull(q) /\ fullReg' = q
             /\ \A p \in Runs : ~Live(Full(p)) \/ p = q
  <2>1. HandOverToFull(q) /\ FullTask = NoRun
    BY <1>2 DEF Starts
  <2>2. ASSUME NEW p \in Runs, p # q, Live(Full(p)) PROVE FALSE
    <3>1. Full(p) \notin cancelled
      BY <2>1, <2>2 DEF HandOverToFull, EarlierEnded
    <3>2. FullTask = p
      BY <2>2, <3>1, ConstantsAssumption
      DEF RunsApart, FullTracked, Working, FullTask, ConstantsAssumption
    <3> QED
      BY <2>1, <3>2, ConstantsAssumption DEF ConstantsAssumption
  <2> QED
    BY <2>1, <2>2 DEF HandOverToFull
<1>3. CASE Starts(Full(r))
  <2>1. ASSUME NEW q \in Runs, Live(Full(q))' PROVE q = r
    <3>1. CASE Starts(Full(q))
      BY <1>2, <1>3, <3>1
    <3> QED
      BY <1>1, <1>2, <1>3, <2>1, <3>1 DEF NoNewLife
  <2> QED
    BY <1>2, <1>3, <2>1
<1>4. CASE ~Starts(Full(r))
  <2>1. Working(Full(r)) /\ Live(Full(r))
    BY <1>1, <1>4 DEF NoNewLife, Working
  <2>2. fullReg = r /\ \A q \in Runs : Live(Full(q)) => q = r
    BY <2>1 DEF RunsApart, FullTracked
  <2>3. fullReg' = r
    BY <2>1, <2>2, EntryGoes
  <2>4. \A q \in Runs : ~Starts(Full(q))
    BY <1>2, <1>4, <2>1
  <2> QED
    BY <1>1, <2>2, <2>3, <2>4 DEF NoNewLife
<1> QED
  BY <1>3, <1>4

\* A start has a pipeline at work behind it.
LEMMA StartedByPipeline ==
    ASSUME NEW r \in Runs, HandOverToFull(r)
    PROVE  Working(Pipe(r)) /\ UNCHANGED opPc
BY LiveFacts DEF HandOverToFull, Resumes, Working, Live, opVars

\* No other run is scheduled behind an abort.
LEMMA QueuesElsewhere ==
    ASSUME TypeOK, UploadFirst, OneUnderWay, Queues, NEW o \in Ops,
    opPc'[o] \in PastPipe
    PROVE  FALSE
<1>1. CASE QueueUpload
  BY <1>1, PastFacts DEF QueueUpload, UploadFirst, opVars
<1>2. ASSUME NEW p \in Ops, Reschedule(p) PROVE FALSE
  <2>1. p # o /\ opPc[o] = opPc'[o]
    BY <1>2, PastFacts, OpFacts DEF Reschedule, OpAt, TypeOK, OpTypes
  <2>2. UnderWay(o) /\ UnderWay(p)
    BY <1>2, <2>1, PastFacts, OpFacts DEF Reschedule, UnderWay
  <2> QED
    BY <2>1, <2>2 DEF OneUnderWay
<1> QED
  BY <1>1, <1>2 DEF Queues

\* What an abort has cancelled stays out of work.
LEMMA AbortBitesStep ==
    ASSUME TypeOK, RegistryTracks, UploadFirst, RunsApart, OneUnderWay, [Next]_vars
    PROVE  AbortBites'
<1> SUFFICES ASSUME NEW o \in Ops, NEW r \in Runs
             PROVE  /\ opPc'[o] \in PastPipe => ~Working(Pipe(r))'
                    /\ opPc'[o] \in PastFull => ~Working(Full(r))'
  BY DEF AbortBites
<1> USE TaskFacts
<1>1. ASSUME opPc'[o] \in PastPipe, Working(Pipe(r))' PROVE FALSE
  <2>1. ~Queues
    BY <1>1, QueuesElsewhere
  <2>2. ~Starts(Pipe(r))
    BY DEF Starts
  <2>3. Working(Pipe(r))
    BY <1>1, <2>1, <2>2, LifeBegins DEF NoNewLife
  <2>4. AbortPipeline(o)
    BY <1>1, <2>3, PastByAbort DEF RunsApart, AbortBites
  <2>5. PipelineTask = r
    BY <2>3, ConstantsAssumption
    DEF RegistryTracks, PipelineTask, Working, ConstantsAssumption
  <2> QED
    BY <1>1, <2>4, <2>5, ConstantsAssumption
    DEF AbortPipeline, Working, ConstantsAssumption
<1>2. ASSUME opPc'[o] \in PastFull, Working(Full(r))' PROVE FALSE
  <2>1. ~Queues
    BY <1>2, PastFacts, QueuesElsewhere
  <2>2. ASSUME Starts(Full(r)) PROVE FALSE
    <3>1. Working(Pipe(r)) /\ opPc[o] \in PastPipe
      BY <1>2, <2>2, PastFacts, StartedByPipeline DEF Starts
    <3> QED
      BY <3>1 DEF RunsApart, AbortBites
  <2>3. Working(Full(r))
    BY <1>2, <2>1, <2>2, LifeBegins DEF NoNewLife
  <2>4. AbortFull(o)
    BY <1>2, <2>3, PastByAbort DEF RunsApart, AbortBites
  <2>5. FullTask = r
    BY <2>3, ConstantsAssumption
    DEF RunsApart, FullTracked, FullTask, Working, ConstantsAssumption
  <2> QED
    BY <1>2, <2>4, <2>5, ConstantsAssumption
    DEF AbortFull, Working, ConstantsAssumption
<1> QED
  BY <1>1, <1>2

\* The upload queues the first task, and a wipe that queues one comes later.
LEMMA NoneBeforeStep ==
    ASSUME TypeOK, UploadFirst, RunsApart, [Next]_vars
    PROVE  NoneBeforeUpload'
<1> SUFFICES ASSUME upload' # "done", NEW t \in Tasks, Live(t)' PROVE FALSE
  BY DEF NoneBeforeUpload
<1>1. upload # "done" /\ ~Queues
  <2>1. upload # "done"
    BY StoreWriters DEF TypeOK
  <2>2. ASSUME NEW o \in Ops, Reschedule(o) PROVE FALSE
    BY <2>1, <2>2 DEF Reschedule, UploadFirst
  <2> QED
    BY <2>1, <2>2 DEF Queues, QueueUpload
<1>2. ~Live(t) /\ \A r \in Runs : ~Live(Pipe(r))
  BY <1>1, TaskFacts DEF RunsApart, NoneBeforeUpload
<1>3. ~Starts(t)
  BY <1>2, StartedByPipeline DEF Starts, Working
<1> QED
  BY <1>1, <1>2, <1>3, LifeBegins DEF NoNewLife

\* Who comes to life belongs to the run that is at work.
LEMMA OneRunStep ==
    ASSUME TypeOK, RunsApart, [Next]_vars
    PROVE  OneRun'
<1> SUFFICES ASSUME NEW t \in Tasks, NEW u \in Tasks, Working(t)', Working(u)'
             PROVE  RunOf(t) = RunOf(u)
  BY DEF OneRun
<1>1. CASE Queues
  BY <1>1, QueuedAlone, LifeQueued DEF NoNewLife
<1>2. ASSUME ~Queues, NEW v \in Tasks, Working(v)'
      PROVE  \E w \in Tasks : Working(w) /\ RunOf(w) = RunOf(v)
  BY <1>2, LifeBegins, StartedByPipeline, TaskFacts DEF NoNewLife, Starts
<1> QED
  BY <1>1, <1>2 DEF RunsApart, OneRun

\* The strengthening holds as long as two wipes do not overlap.
LEMMA RunsApartAlways ==
    Spec /\ []OneUnderWay => []RunsApart
<1>1. Init => RunsApart
  BY TaskFacts, PastFacts, OpFacts
  DEF Init, RunsApart, FullTracked, AbortBites, NoneBeforeUpload, OneRun, Working, Live
<1>2. TypeOK /\ RegistryTracks /\ RowLives /\ OneUnderWay /\ RunsApart /\ [Next]_vars
        => RunsApart'
  BY FullTrackedStep, AbortBitesStep, NoneBeforeStep, OneRunStep
  DEF RunsApart, RowLives
<1> QED
  BY <1>1, <1>2, TypeCorrect, RegistryCorrect, RowLivesAlways, PTL DEF Spec

\* The 409 of the documentation makes it so.
LEMMA WipesApart ==
    ASSUME IsFiniteSet(Ops)
    PROVE  OneWipe => OneUnderWay
<1> SUFFICES ASSUME OneWipe, NEW o \in Ops, NEW p \in Ops, UnderWay(o), UnderWay(p), o # p
             PROVE  FALSE
  BY DEF OneUnderWay
<1>1. IsFiniteSet(Wipers) /\ {o, p} \subseteq Wipers
  BY FS_Subset DEF UnderWay, Wipers
<1>2. Cardinality({o, p}) = 2
  <2>1. IsFiniteSet({o}) /\ Cardinality({o}) = 1
    BY FS_Singleton
  <2>2. Cardinality({o} \cup {p}) = 2
    BY <2>1, FS_AddElement, p \notin {o}
  <2>3. {o, p} = {o} \cup {p}
    OBVIOUS
  <2> QED
    BY <2>2, <2>3
<1> QED
  BY <1>1, <1>2, FS_Subset, FS_CardinalityType DEF OneWipe

\* Two tasks that may still write the paper belong to one run, whatever is
\* replaced, aborted, killed or lost in a crash, as long as two wipes do not
\* overlap.
THEOREM RunsNeverMix ==
    ASSUME IsFiniteSet(Ops)
    PROVE  Spec /\ []OneWipe => []OneRun
<1>1. RunsApart => OneRun
  BY DEF RunsApart
<1> QED
  BY <1>1, RunsApartAlways, WipesApart, PTL

\* No task of the paper is at work while a reextract or a delete destroys its
\* artefacts, as long as two wipes do not overlap.
THEOREM WipesAlone ==
    ASSUME IsFiniteSet(Ops)
    PROVE  Spec /\ []OneWipe => []WipeFindsNoWorker
<1>1. RunsApart => WipeFindsNoWorker
  BY PastFacts, TaskFacts DEF RunsApart, AbortBites, WipeFindsNoWorker
<1> QED
  BY <1>1, RunsApartAlways, WipesApart, PTL

\* Neither a second run nor a worker under a wipe comes from anything but a claim
\* that runs out or is evicted under a request that works: where none does, the
\* gate and the claim keep them apart, for any number of requests.
THEOREM ApartWhileClaimed ==
    Spec /\ [](lostClaim = {}) => []OneRun /\ []WipeFindsNoWorker
<1>1. Claimed /\ lostClaim = {} => OneUnderWay
  BY DEF Claimed, Wipers, OneUnderWay, UnderWay
<1>2. Init => Claimed
  BY OpFacts DEF Init, Claimed, Wipers
<1>3. TypeOK /\ Claimed /\ [Next]_vars => Claimed'
  BY ClaimedStep
<1>4. RunsApart => OneRun /\ WipeFindsNoWorker
  BY PastFacts, TaskFacts DEF RunsApart, AbortBites, WipeFindsNoWorker
<1> QED
  BY <1>1, <1>2, <1>3, <1>4, RunsApartAlways, TypeCorrect, PTL DEF Spec

-----------------------------------------------------------------------------
(* The two tables.                                                         *)

\* A tombstone that leaves the stage alone was read from rows set apart: it has seen
\* the stage "failed" beside a pending or processing paper.
TombstoneKnows == dog.pc = "write" /\ ~dog.stage => dog.apart

\* There is a run row only beside a papers row, and none before the upload.
RunRowHasPaper == (hasRun => Exists) /\ (upload = "start" => ~Exists)

RowsAgree == DualTable /\ TombstoneKnows /\ RunRowHasPaper

\* The stages that fit each status.
LEMMA ContractFacts ==
    /\ ContractStages("pending") = {NoStage}
    /\ ContractStages("processing") = ProcessingStages
    /\ ContractStages("indexing") = {"indexing"} /\ ContractStages("failed") = {"failed"}
    /\ \A st \in TerminalReady : ContractStages(st) = {"ready"}
    /\ \A point \in NodePcs : StageAfter[point] \in ProcessingStages
    /\ "failed" \notin ProcessingStages \cup {NoStage}
BY DEF ContractStages, TerminalReady, NodePcs, StageAfter, ProcessingStages, NoStage

\* What a step leaves in the two rows: a pair that fits, or it is one of four.
LEMMA PairsFit ==
    ASSUME TypeOK, [Next]_vars
    PROVE  \/ UNCHANGED <<status, stage, hasRun, apart>>
           \/ hasRun' /\ Exists' /\ stage' \in ContractStages(status')
           \/ DogWrites \/ CreateFromUpload
           \/ \E o \in Ops : ResetPaper(o) \/ DeleteRow(o)
<1> DEFINE Fits == hasRun' /\ Exists' /\ stage' \in ContractStages(status')
           Kept == UNCHANGED <<status, stage, hasRun, apart>>
<1>0. /\ SaveStatus("pending", NoStage) => Fits
      /\ \A sg \in ProcessingStages : SaveStatus("processing", sg) => Fits
      /\ SaveStatus("indexing", "indexing") => Fits
      /\ SaveStatus("failed", "failed") => Fits
      /\ \A st \in TerminalReady : SaveStatus(st, "ready") => Fits
  BY ContractFacts DEF SaveStatus, Exists, TerminalReady
<1>1. "ingesting" \in ProcessingStages /\ "extracting" \in ProcessingStages
      /\ "ready_with_warnings" \in TerminalReady
  BY DEF ProcessingStages, TerminalReady
<1> HIDE DEF Fits, Kept
<1>2. ASSUME NEW r \in Runs, PipelineStep(r) PROVE Fits \/ Kept
  <2>1. CASE Advance(r)
    <3>1. StageAfter[pc[Pipe(r)]] \in ProcessingStages
      BY <2>1, ContractFacts DEF Advance, Resumes
    <3> QED
      BY <1>0, <2>1, <3>1 DEF Advance, snapshot, Kept
  <2>2. CASE MintGeneration(r) \/ NodeFails(r) \/ PipelineDies(r) \/ HandOverToFull(r)
               \/ DrainBus(r)
    BY <2>2
    DEF MintGeneration, NodeFails, PipelineDies, HandOverToFull, DrainBus, rowVars, Kept
  <2>3. CASE StartPipeline(r) \/ FailNode(r) \/ EnsureFailed(r)
    BY <1>0, <1>1, <2>3
    DEF StartPipeline, FailNode, EnsureFailed, Persist, snapshot, Kept
  <2> QED
    BY <1>2, <2>1, <2>2, <2>3 DEF PipelineStep
<1>3. ASSUME NEW r \in Runs, FullStep(r) PROVE Fits \/ Kept
  BY <1>0, <1>1, <1>3
  DEF FullStep, BeginFull, EndChunking, FailFull, Persist, snapshot, rowVars, Kept
<1>4. ASSUME NEW t \in Tasks, FinalizeStep(t) \/ DeliverCancel(t) PROVE Fits \/ Kept
  BY <1>0, <1>4
  DEF FinalizeStep, GuardGeneration, SaveGraph, Breaks, RecheckGeneration,
      MarkIndexing, PublishFinalized, DeliverCancel, rowVars, snapshot, Kept
<1>5. ASSUME RagStep \/ IndexingWatchdogStep \/ RepairStatus \/ QueueUpload \/ CrashRestart
      PROVE  Fits \/ Kept
  BY <1>0, <1>1, <1>5
  DEF RagStep, TakeEvent, BeginIndexing, EndIndexing, ReadForPromotion,
      WritePromotion, HandlerDies, IndexingWatchdogStep, IndexingWatchdogReads,
      IndexingWatchdogWrites, RepairStatus, QueueUpload, Persist, snapshot,
      CrashRestart, ColdBoot, rowVars, Kept
<1>6. ASSUME NEW o \in Ops, BeginOp(o) \/ OpProgress(o), ~ResetPaper(o), ~DeleteRow(o)
      PROVE  Fits \/ Kept
  BY <1>0, <1>6
  DEF BeginOp, OpProgress, AcquireClaim, PurgeVectors, WipeArtefacts, ResetRun,
      ClearRun, Reschedule, OpStep, GiveUp, RemoveGraphFiles, UnlinkPdf,
      ReleaseClaim, rowVars, snapshot, Kept
<1>7. ASSUME Age \/ DogStep \/ ExpireClaim, ~DogWrites PROVE Kept
  BY <1>7
  DEF Age, DogStep, DogLists, DogRenews, DogCondemns, DogKills, DogReads,
      ExpireClaim, rowVars, snapshot, Kept
<1>8. ASSUME NEW a \in Aborters, AbortStep(a) PROVE Kept
  BY <1>8
  DEF AbortStep, AbortPipeline, UnregisterPipeline, AbortFull, EndAbort, rowVars,
      snapshot, Kept
<1>9. UNCHANGED vars => Kept
  BY DEF vars, rowVars, snapshot, Kept
<1> QED
  BY <1>2, <1>3, <1>4, <1>5, <1>6, <1>7, <1>8, <1>9 DEF Next, Fits, Kept

\* The row of the papers table is there first and goes last.
LEMMA RunRowStep ==
    ASSUME TypeOK, RowLives, RunRowHasPaper, [Next]_vars
    PROVE  RunRowHasPaper'
<1>1. hasRun' => Exists'
  BY PairsFit, RowComesAndGoes
  DEF RunRowHasPaper, DogWrites, CreateFromUpload, ResetPaper, ResetRun, ClearRun,
      DeleteRow, Exists,
      rowVars, snapshot
<1>2. upload' = "start" => upload = "start" /\ ~CreateFromUpload
  <2>1. ASSUME NEW o \in Ops, BeginOp(o) \/ OpProgress(o) PROVE UNCHANGED upload
    BY <2>1
    DEF BeginOp, OpProgress, AcquireClaim, PurgeVectors, WipeArtefacts, ResetPaper,
        ResetRun, ClearRun, Reschedule, OpStep, GiveUp, RemoveGraphFiles, UnlinkPdf,
        DeleteRow, ReleaseClaim
  <2>2. ASSUME NEW a \in Aborters, AbortStep(a) PROVE UNCHANGED upload
    BY <2>2 DEF AbortStep, AbortPipeline, UnregisterPipeline, AbortFull, EndAbort
  <2>3. CASE CreateFromUpload \/ QueueUpload \/ CrashRestart
    BY <2>3 DEF CreateFromUpload, QueueUpload, CrashRestart
  <2>4. CASE UNCHANGED upload
    BY <2>4 DEF CreateFromUpload
  <2> QED
    BY <2>1, <2>2, <2>3, <2>4
    DEF Next, vars, PipelineStep, StartPipeline, MintGeneration, Advance, NodeFails,
        PipelineDies, HandOverToFull, FailNode, EnsureFailed, DrainBus, FullStep,
        BeginFull, EndChunking, FailFull, FinalizeStep, GuardGeneration, SaveGraph,
        Breaks, RecheckGeneration, MarkIndexing, PublishFinalized, DeliverCancel,
        RagStep, TakeEvent, BeginIndexing, EndIndexing, ReadForPromotion,
        WritePromotion, HandlerDies, Age, DogStep, DogLists, DogRenews, DogCondemns,
        DogKills, DogReads, DogWrites, IndexingWatchdogStep, IndexingWatchdogReads,
        IndexingWatchdogWrites, RepairStatus, ExpireClaim
<1> QED
  BY <1>1, <1>2, RowComesAndGoes DEF RunRowHasPaper

\* The watchdog reads a pair that fits, or knows that it was set apart.
LEMMA TombstoneStep ==
    ASSUME TypeOK, RowsAgree, [Next]_vars
    PROVE  TombstoneKnows'
<1>1. CASE UNCHANGED dog
  BY <1>1 DEF RowsAgree, TombstoneKnows
<1>2. CASE DogReads
  <2>1. CASE dog' = IdleDog
    BY <2>1 DEF IdleDog, TombstoneKnows
  <2>2. CASE dog' # IdleDog
    <3>1. /\ dog'.stage = (stage # "failed") /\ dog'.apart = apart
          /\ hasRun /\ status \in OrphanStatuses
      BY <1>2, <2>2 DEF DogReads
    <3>2. apart \/ stage \in ContractStages(status)
      BY <3>1 DEF RowsAgree, DualTable
    <3> QED
      BY <3>1, <3>2, ContractFacts
      DEF OrphanStatuses, TombstoneKnows, TypeOK, RowTypes
  <2> QED
    BY <2>1, <2>2
<1>3. CASE DogLists \/ DogRenews \/ DogCondemns \/ DogKills \/ DogWrites \/ CrashRestart
  BY <1>3
  DEF DogLists, DogRenews, DogCondemns, DogKills, DogWrites, CrashRestart, DogAt,
      IdleDog,
      TombstoneKnows, TypeOK, ThreadTypes
<1>4. ASSUME NEW o \in Ops, BeginOp(o) \/ OpProgress(o) PROVE UNCHANGED dog
  BY <1>4
  DEF BeginOp, OpProgress, AcquireClaim, PurgeVectors, WipeArtefacts, ResetPaper,
      ResetRun, ClearRun, Reschedule, OpStep, GiveUp, RemoveGraphFiles, UnlinkPdf,
      DeleteRow, ReleaseClaim
<1> QED
  BY <1>1, <1>2, <1>3, <1>4
  DEF Next, vars, PipelineStep, StartPipeline, MintGeneration, Advance, NodeFails,
      PipelineDies, HandOverToFull, FailNode, EnsureFailed, DrainBus, FullStep,
      BeginFull, EndChunking, FailFull, FinalizeStep, GuardGeneration, SaveGraph,
      Breaks, RecheckGeneration, MarkIndexing, PublishFinalized, DeliverCancel,
      RagStep, TakeEvent, BeginIndexing, EndIndexing, ReadForPromotion,
      WritePromotion, HandlerDies, Age, DogStep, IndexingWatchdogStep,
      IndexingWatchdogReads, IndexingWatchdogWrites, RepairStatus, CreateFromUpload,
      QueueUpload, AbortStep, AbortPipeline, UnregisterPipeline, AbortFull,
      EndAbort, ExpireClaim

\* A step that does not write a fitting pair finds one, or sets the rows apart.
LEMMA DualTableStep ==
    ASSUME TypeOK, RowsAgree, [Next]_vars
    PROVE  DualTable'
<1> SUFFICES ASSUME hasRun', ~apart' PROVE stage' \in ContractStages(status')
  BY DEF DualTable
<1>1. hasRun /\ ~apart => stage \in ContractStages(status)
  BY DEF RowsAgree, DualTable
<1>2. CASE DogWrites
  BY <1>1, <1>2, ContractFacts
  DEF DogWrites, RowsAgree, TombstoneKnows, RunRowHasPaper, TypeOK, ThreadTypes
<1>3. CASE CreateFromUpload
  BY <1>3 DEF CreateFromUpload, RowsAgree, RunRowHasPaper
<1>4. ASSUME NEW o \in Ops, ResetPaper(o) PROVE stage' \in ContractStages(status')
  BY <1>1, <1>4 DEF ResetPaper
<1>5. ASSUME NEW o \in Ops, DeleteRow(o) PROVE stage' \in ContractStages(status')
  <2>1. UNCHANGED <<status, stage, hasRun, apart>>
    BY <1>5 DEF DeleteRow, rowVars
  <2> QED
    BY <1>1, <2>1
<1> QED
  BY <1>1, <1>2, <1>3, <1>4, <1>5, PairsFit

\* The two rows tell the same story for any number of runs, requests, kills, faults
\* and crashes, from any write of both rows until the first reset of a reextract:
\* whatever the reset's second transaction, the watchdog that read between the two,
\* the process or a late writer do, no other step sets the tables apart.
THEOREM TablesAgree == Spec => []DualTable
<1>1. Init => RowsAgree
  BY DEF Init, IdleDog, RowsAgree, DualTable, TombstoneKnows, RunRowHasPaper, Exists
<1>2. TypeOK /\ RowLives /\ RowsAgree /\ [Next]_vars => RowsAgree'
  BY DualTableStep, TombstoneStep, RunRowStep DEF RowsAgree
<1>3. RowsAgree => DualTable
  BY DEF RowsAgree
<1> QED
  BY <1>1, <1>2, <1>3, RowLivesAlways, TypeCorrect, PTL DEF Spec
=============================================================================
