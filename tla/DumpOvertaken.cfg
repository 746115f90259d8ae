SPECIFICATION Spec
CONSTANTS
    Key = {k1}
    Val = {1}
    None = None
    Op = {"SET", "DEL"}
    Conn = {c1}
    MaxWrites = 2
    MaxSessions = 1
    MaxLosses = 0
    MaxCommands = 1
INVARIANT Converges
CHECK_DEADLOCK FALSE
