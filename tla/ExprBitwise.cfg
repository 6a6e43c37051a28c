SPECIFICATION Spec
CONSTANTS
    Tokens <- Tokens2
    Limit <- Limit2
    Endings <- Endings1
CHECK_DEADLOCK FALSE
INVARIANT
    GroupedAsDocumented
