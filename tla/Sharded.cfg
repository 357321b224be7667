SPECIFICATION FairSpec
CONSTANTS
    Primary = {p1, p2}
    Field = {f1}
    AliasValue = {a1, a2}
    Value = {v1}
    None = None
    Ttl = {2}
    PerMs = 1
    Client = {c1, c2}
INVARIANTS TypeOK RecordSynced
PROPERTIES AliasOnlyByPut EvictKeepsForeign SelfHeals
