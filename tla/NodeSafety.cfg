SPECIFICATION Spec
CONSTANTS
    Handles = {h1, h2, h3}
    Threads = {t1}
    Bits = {b1}
    N_EVENT_READERS = 2
    None = None
INVARIANTS TypeOK SlotsAccounted ExclusiveLock NoStaleEvents NoLostWakeup NoEventLost
SYMMETRY Symmetry
