SPECIFICATION Spec
CONSTANTS
    i1 = i1
    Caller = {c1, c2}
    Instance = {i1}
    Home <- OneProcess
    Key = {k1}
    MaxVersion = 1
    Absent = {1}
    PositiveTtl = {2}
    NegativeTtl = {}
    Singleflight = TRUE
    Faults = {}
    None = None
INVARIANT NoStaleSet
