SPECIFICATION FairSpec
CONSTANTS
    Handles = {h1}
    Threads = {t1, t2}
    Bits = {b1}
    N_EVENT_READERS = 1
    None = None
PROPERTY EventReachesReader
