SPECIFICATION Spec
CONSTANTS
    Key = {k1, k2}
    Conn = {c1, c2}
    KeysOf <- Shared
    Op = {"SET", "DEL", "INCR", "SAVE"}
    Val <- WithText
    AppendOnlyModes = {TRUE, FALSE}
    TimerSaves = TRUE
    OpenOutcomes = {TRUE, FALSE}
    TornTail = FALSE
    MaxWrites = 2
    MaxCrashes = 1
INVARIANTS TypeOK CrashConsistent
SYMMETRY KeySymmetry
