SPECIFICATION FairSpec
CONSTANTS
    Devs = {d1}
    Files = {f1, f2}
    MAX_BOARDS = 1
    Faults <- AllFaults
    None = None
INVARIANTS TypeOK ClientsSafe IsrSafe SysfsSafe HardwareReturned ModuleOutlivesBoards
PROPERTY RemoveFinishes
