SPECIFICATION Spec
CONSTANTS
    Conn = {c1, c2}
    Worker = {w1, w2}
    SaveEvery = 2
    MaxTicks = 3
CHECK_DEADLOCK FALSE
INVARIANTS TypeOK BackgroundThreadsOutlived ConnectionsOutlived
PROPERTIES TasksGetRun ShutdownCompletes
