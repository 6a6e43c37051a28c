SPECIFICATION Spec
CONSTANTS
    Tokens <- Tokens1
    Limit <- Limit1
    Endings <- Endings1
CHECK_DEADLOCK FALSE
INVARIANTS
    GroupedAsDocumented
    NothingRefused
