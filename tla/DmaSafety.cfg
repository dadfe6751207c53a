SPECIFICATION Spec
CONSTANTS
    Clients = {c1, c2}
    Addrs = {a1, a2}
    Data = {d1, d2}
    Coherent = FALSE
    MaxKills = 1
    MaxTimeouts = 1
    Torn = Torn
    None = None
SYMMETRY Symmetry
INVARIANTS TypeOK ReadIntegrity WriteIntegrity QuietUnlessKilled NoLostCompletion
PROPERTY ImplementsMemory
CHECK_DEADLOCK FALSE
