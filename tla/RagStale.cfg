\* Violated: see the findings in README.md.
CONSTANTS
    r1 = r1  r2 = r2
    Runs <- MCRuns
    NoRun = NoRun
    Others = {}
    Attempts = 1
    MaxRevoked = 4
    MaxCrashes = 0
    MaxReextracts = 1
    MaxFaults = 0
    Faults = {}
SPECIFICATION Spec
PROPERTY NoStaleActivation
CHECK_DEADLOCK FALSE
