SPECIFICATION Spec
CONSTANTS
    Radix = 8
    PROM_MAX_LENGTH = 26
    MAX_MINORS_PER_BOARD = 3
    Magic <- MagicBytes
    BaseBytes = 1
    LengthBytes = 1
    ExtBytes = 2
    Chars <- SomeChars
    Configs <- SmallConfigs
    DefaultConfig <- Default
    Bodies <- AnyBytes
    Fill = {0, 7}
    None = None
INVARIANTS TypeOK WalksAgree NodesMatchOpen DestroysOwnNodes RoundTrip OpensAsConfigured DamageDetected
CHECK_DEADLOCK FALSE
