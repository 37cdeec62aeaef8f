\* Two requests, whose claims run out or are evicted; faults everywhere, one
\* crash with a cold boot.
SPECIFICATION Spec
CONSTANTS
    Runs = {r1}
    Ops = {o1, o2}
    WatchdogEnabled = TRUE
    IndexingWatchdogEnabled = TRUE
    Faults = {"wipe", "requeue", "finalize", "promote"}
    MaxCrashes = 1
    NoRun = NoRun
    NoOp = NoOp
    Dog = Dog
    Free = Free
SYMMETRY Symmetry
\* Every request and task ends: the system really stops.
CHECK_DEADLOCK FALSE
INVARIANTS DeleteLeavesNothing ClaimExcludes
PROPERTY NoResurrection
