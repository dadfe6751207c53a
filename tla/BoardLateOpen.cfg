SPECIFICATION Spec
CONSTANTS
    Devs = {d1}
    Files = {f1}
    MAX_BOARDS = 1
    Faults = {}
    None = None
INVARIANT OpenChecksLive
