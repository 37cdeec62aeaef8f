CONSTANTS
    Answers <- MCAnswers
    MaxDelta = 3
    OldRun = OldRun
    NewRun = NewRun
    Straggler = Straggler
    NoIndex = NoIndex
    MaxQuestions = 2
    MaxCites = 1
    Pipelines = {p1, p2}
    Dogs = {d1}
    Clients = {c1}
    MaxVersion = 2
    ChunkCount = 3
    Attempts = 2
    Concurrency = 2
    Rpm = 2
    MaxRepairs = 2
    HeuristicFallback = TRUE
    MaxRefiners = 4
    MaxReextracts = 1
SPECIFICATION MCSpec
INVARIANTS
    StreamIndependentOfSplit
    EvidenceTold
    BusDelivers
    ServedIsCurrent
    ThinReportsTold
    ExtractionEndsHonestly
    HeadOfThisText
    FallbackTold
CHECK_DEADLOCK FALSE
