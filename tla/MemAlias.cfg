SPECIFICATION StoreSpec
CONSTANTS
    Primary = {p1, p2}
    Field = {f1, f2}
    AliasValue = {a1, a2}
    Value = {v1, v2}
    None = None
    Ttl = {0, 1, 2}
    PerMs = 1
    Key = {k1, k2}
    Caller = {c1, c2}
    PlainTtl = {0, 1, 2}
    MaxNow = 4
SYMMETRY Perms
INVARIANTS TypeOK Whole
PROPERTIES StoredSpec PurgeSparesLive
