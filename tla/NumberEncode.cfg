SPECIFICATION Spec
CONSTANTS
    D = 2
    LOG = 3
    SIZE_MAX = 6
    Bits = 4
    MaxWords = 3
    MaxDigits = 3
    Precs = {0, 2, 4}
    Bases = {2, 3}
CHECK_DEADLOCK FALSE
PROPERTY
    EncodeAsDocumented
