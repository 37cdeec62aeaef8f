\* One run; runs of other papers fill the bounded set of revoked runs.
CONSTANTS
    r1 = r1  r2 = r2
    Runs <- MCRuns
    NoRun = NoRun
    Others = {x1, x2}
    Attempts = 1
    MaxRevoked = 2
    MaxCrashes = 1
    MaxReextracts = 0
    MaxFaults = 2
    Faults = {"timeout", "upsert", "delete", "ack"}
SPECIFICATION FairSpec
PROPERTIES SweepsEnd GhostsVanish
CHECK_DEADLOCK FALSE
