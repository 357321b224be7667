SPECIFICATION FairSpec
CONSTANTS
    i1 = i1
    Caller = {c1, c2}
    Instance = {i1}
    Home <- OneProcess
    Key = {k1, k2}
    MaxVersion = 3
    Absent = {1}
    PositiveTtl = {1}
    NegativeTtl = {1}
    Singleflight = TRUE
    Faults = {"get", "load", "write", "set", "delete", "crash"}
    None = None
INVARIANTS TypeOK FlightIntegrity
PROPERTIES CallsReturn EventuallyFresh
