SPECIFICATION HistorySpec
CONSTANTS
    Primary = {p1, p2}
    Field = {f1}
    AliasValue = {a1}
    Value = {v1}
    None = None
    Ttl = {1}
    PerMs = 1
    Client = {c1}
INVARIANT NeverWrongRecord
