SPECIFICATION Spec
CONSTANTS
    Clients = {c1, c2}
    Addrs = {a1, a2}
    Data = {d1, d2}
    Coherent = TRUE
    MaxKills = 1
    MaxTimeouts = 0
    Torn = Torn
    None = None
INVARIANT ReadsSpecifiedBlock
