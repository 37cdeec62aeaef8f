\* Violated: see the findings in README.md.
SPECIFICATION Spec
CONSTANTS
    Runs = {r1, r2}
    Ops = {o1}
    WatchdogEnabled = FALSE
    IndexingWatchdogEnabled = TRUE
    Faults = {}
    MaxCrashes = 0
    NoRun = NoRun
    NoOp = NoOp
    Dog = Dog
    Free = Free
SYMMETRY Symmetry
\* Every request and task ends: the system really stops.
CHECK_DEADLOCK FALSE
PROPERTY ReadyIsIndexed
