SPECIFICATION Spec
CONSTANTS
    Key = {k1}
    Capacity = 0
    MaxLL = 1
    MaxTime = 3
    MaxCopies = 1
    Conn = {c1}
    Busy = {k1}
    BusyOp = {"SET", "SETEX", "DEL"}
    Op <- Commands
    PlainValue <- Plain
    TtlValue <- Ttl
    Seconds = {1, 2}
PROPERTY SweeperSparesPlainValues
