SPECIFICATION FairSpec
CONSTANTS
    Key = {k1}
    Caller = {c1, c2}
    MaxTime = 3
    MaxCopies = 1
INVARIANTS TypeOK LiveDeadlineInHeap NeverOversleeps
PROPERTIES ExpiresOnlyDueKeys DeadlinesFire StopReturns
