CONSTANTS
    r1 = r1  r2 = r2  r3 = r3
    w1 = w1  w2 = w2
    Requests <- MCRequests
    Workers = {w1, w2}
    Home <- HomeTwo
    AdvisoryLock = TRUE
    MaxEvictions = 2
    NoOwner = NoOwner
SPECIFICATION FairSpec
INVARIANT TypeOK
PROPERTIES ImplementsLock LivingClaimKept Answered
CHECK_DEADLOCK FALSE
