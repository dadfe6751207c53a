SPECIFICATION FairSpec
CONSTANTS
    Clients = {c1, c2}
    Addrs = {a1}
    Data = {d1}
    Coherent = TRUE
    MaxKills = 1
    MaxTimeouts = 0
    Torn = Torn
    None = None
PROPERTY EveryCallReturns
