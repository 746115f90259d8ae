SPECIFICATION Spec
CONSTANTS
    Key = {k1}
    Val = {1}
    None = None
    Op = {"SET"}
    Conn = {c1}
    MaxWrites = 1
    MaxSessions = 1
    MaxLosses = 0
    MaxCommands = 2
PROPERTY ReplicaOfReturns
CHECK_DEADLOCK FALSE
