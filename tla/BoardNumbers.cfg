SPECIFICATION Spec
CONSTANTS
    Devs = {d1, d2, d3}
    Files = {}
    MAX_BOARDS = 2
    Faults = {}
    None = None
INVARIANT BoardsDistinct
SYMMETRY Symmetry
CONSTRAINT NoActivity
