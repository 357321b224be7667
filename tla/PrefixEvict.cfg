SPECIFICATION FairSpec
CONSTANTS
    x1 = x1
    x2 = x2
    x3 = x3
    x4 = x4
    u = u
    raw = raw
    n1 = n1
    n2 = n2
    s1 = s1
    s2 = s2
    s3 = s3
    Name = {x1, x2, x3, x4}
    Key <- MCKey
    Prefix = {u, raw}
    Begins <- MCBegins
    Runes <- MCRunes
    Node = {n1, n2}
    Slot = {s1, s2, s3}
    SlotOf <- MCSlotOf
    NodeOf <- MCNodeOf
    Faults = {"scan", "delete"}
INVARIANTS TypeOK Complete CountExact
PROPERTIES SparesOthers Returns
