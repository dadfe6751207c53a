SPECIFICATION FairSpec
CONSTANTS
    Clients = {c1, c2}
    Addrs = {a1}
    Data = {d1}
    Coherent = TRUE
    MaxKills = 0
    MaxTimeouts = 1
    Torn = Torn
    None = None
PROPERTY DeadlineAvoidsDeadlock
CHECK_DEADLOCK FALSE
