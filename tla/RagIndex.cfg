\* Two runs, a reextract and a delete, two faults of any kind, a crash.
CONSTANTS
    r1 = r1  r2 = r2
    Runs <- MCRuns
    NoRun = NoRun
    Others = {}
    Attempts = 1
    MaxRevoked = 2
    MaxCrashes = 1
    MaxReextracts = 1
    MaxFaults = 2
    Faults = {"timeout", "upsert", "delete", "purge", "ack", "cascade"}
SPECIFICATION Spec
INVARIANTS ActiveComplete NothingForgotten
PROPERTIES LivingIndexKept AckedUnlessMissed
SYMMETRY Symmetry
CHECK_DEADLOCK FALSE
