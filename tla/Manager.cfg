SPECIFICATION Spec
CONSTANTS
    Caller = {p1, p2}
    Token <- Tokens
    Name <- Names
    Options <- SomeOptions
    Defaults <- SomeDefaults
    Text <- Texts
    Parts = 10
    HalfRange = 128
    NaN = NaN
    None = None
INVARIANTS TypeOK NoNameLost NameOnce TtlBackstop OneSlot CachesApart SweepExact NamesApart
SYMMETRY Callers
CHECK_DEADLOCK FALSE
