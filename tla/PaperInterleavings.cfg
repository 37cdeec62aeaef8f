\* An upload, a reextract or a delete, and the processing watchdog; faults
\* everywhere but in the removal of the artefacts.
SPECIFICATION Spec
CONSTANTS
    Runs = {r1, r2}
    Ops = {o1}
    WatchdogEnabled = TRUE
    IndexingWatchdogEnabled = FALSE
    Faults = {"requeue", "finalize", "promote"}
    MaxCrashes = 0
    NoRun = NoRun
    NoOp = NoOp
    Dog = Dog
    Free = Free
SYMMETRY Symmetry
\* Every request and task ends: the system really stops.
CHECK_DEADLOCK FALSE
INVARIANTS
    TypeOK
    RegistryTracks
    OneRun
    WipeFindsNoWorker
    IndexingHasOwner
    IndexingHasGraph
    DualTable
