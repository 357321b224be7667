SPECIFICATION Spec
CONSTANTS
    Primary = {p1, p2}
    Field = {f1, f2}
    AliasValue = {a1, a2}
    Value = {v1}
    None = None
    Ttl = {1, 2}
    PerMs = 2
SYMMETRY Perms
INVARIANT NeverForever
