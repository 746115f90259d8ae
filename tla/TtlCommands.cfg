SPECIFICATION FairSpec
CONSTANTS
    Key = {k1, k2}
    Capacity = 1
    MaxLL = 0
    MaxTime = 2
    MaxCopies = 2
    Conn = {c1, c2}
    Busy = {k1}
    BusyOp = {"SET", "SETEX", "GET", "DEL", "INCR", "TTL", "EXPIRE", "PERSIST"}
    Op <- Commands
    PlainValue <- Plain
    TtlValue <- Plain
    Seconds = {0, 1, 2}
INVARIANT TypeOK
PROPERTY TtlEndsKey ImplementsExpiryManager
