SPECIFICATION HistorySpec
CONSTANTS
    Primary = {p1}
    Field = {f1}
    AliasValue = {a1}
    Value = {v1}
    None = None
    Ttl = {1, 2}
    PerMs = 1
    Client = {c1}
INVARIANT EvictByAliasDeletes
