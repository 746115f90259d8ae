SPECIFICATION Spec
CONSTANTS
    Key = {k1}
    Val = {}
    None = None
    Op = {"INCR"}
    Conn = {c1, c2}
    MaxWrites = 2
    MaxSessions = 2
    MaxLosses = 1
    MaxCommands = 2
INVARIANTS TypeOK OnlyMixedLinesMissing
PROPERTIES AppliesOnlyAsReplica Reconnects OnlyRecvBlocksReplicaOf
CHECK_DEADLOCK FALSE
