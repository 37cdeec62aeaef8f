\* Liveness across one crash; a request may repeat its failing steps at will, so
\* the steps of a wipe do not fail here (README, section 3).
SPECIFICATION FairSpec
CONSTANTS
    Runs = {r1}
    Ops = {o1}
    WatchdogEnabled = TRUE
    IndexingWatchdogEnabled = TRUE
    Faults = {"finalize", "promote"}
    MaxCrashes = 1
    NoRun = NoRun
    NoOp = NoOp
    Dog = Dog
    Free = Free
\* Every request and task ends: the system really stops.
CHECK_DEADLOCK FALSE
PROPERTIES
    RowSettles
    WipeEnds
    TasksEnd
