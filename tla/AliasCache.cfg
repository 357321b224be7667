SPECIFICATION FairSpec
CONSTANTS
    Primary = {p1, p2}
    Field = {f1}
    AliasValue = {a1, a2}
    Marker = Marker
    Value <- Content
    None = None
    Caller = {c1, c2}
    PositiveTtl = {1}
    NegativeTtl = {1}
    Faults = {"load", "write", "set", "delete"}
INVARIANTS CacheTypeOK NoDanglingAlias OneAliasPerField FlightIntegrity
PROPERTY QuietConverges
