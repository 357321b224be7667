SPECIFICATION FairSpec
CONSTANTS
    Primary = {p1, p2}
    Field = {f1}
    AliasValue = {a1, a2}
    Marker = Marker
    Value <- Content
    None = None
    Caller = {c1}
    PositiveTtl = {2}
    NegativeTtl = {}
    Faults = {}
PROPERTY BoundedStaleness
