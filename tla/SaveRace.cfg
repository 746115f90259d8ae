SPECIFICATION Spec
CONSTANTS
    Key = {k1, k2}
    Conn = {c1, c2}
    KeysOf <- Own
    Op = {"SET", "SAVE"}
    Val = {1, 2}
    AppendOnlyModes = {TRUE}
    TimerSaves = FALSE
    OpenOutcomes = {TRUE}
    TornTail = FALSE
    MaxWrites = 3
    MaxCrashes = 1
INVARIANT PerKeyConsistent
