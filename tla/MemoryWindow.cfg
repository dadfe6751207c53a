SPECIFICATION Spec
CONSTANTS
    Threads = {t1, t2}
    Bases = {2, 3}
    Lengths = {4, 7}
    Align = 2
    BufferSize = 8
    MAX_DMA_TRANSFER = 5
    Counts = {0, 2, 5}
INVARIANTS TypeOK TransferInArea DataAtPosition ReadFillsBuffer NothingSkipped
SYMMETRY Symmetry
