SPECIFICATION Spec
CONSTANTS
    Primary = {p1, p2}
    Field = {f1, f2}
    AliasValue = {a1, a2}
    Value = {v1, v2}
    None = None
    Ttl = {0, 1, 2}
    PerMs = 1
SYMMETRY Perms
INVARIANTS TypeOK Agree Synced
PROPERTY GroupSpec
