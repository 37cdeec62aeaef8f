\* Violated: see the findings in README.md.
CONSTANTS
    r1 = r1  r2 = r2
    Runs <- MCRuns
    NoRun = NoRun
    Others = {}
    Attempts = 3
    MaxRevoked = 4
    MaxCrashes = 0
    MaxReextracts = 0
    MaxFaults = 3
    Faults = {"delete"}
SPECIFICATION Spec
PROPERTY AckedMeansGone
CHECK_DEADLOCK FALSE
