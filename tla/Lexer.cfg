SPECIFICATION Spec
CONSTANTS
    Chars <- Char
    Limit <- MCLimit
CHECK_DEADLOCK FALSE
INVARIANTS
    TypeOK
    SemicolonsAsDocumented
    LongestWords
    PositionsRight
