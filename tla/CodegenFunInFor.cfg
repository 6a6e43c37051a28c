SPECIFICATION Spec
CONSTANTS
    x = x
    y = y
    NoName = NoName
    Ident = {x, y}
    Exprs <- Exprs1
    Stmts <- Stmts1
    Headers <- Headers1
    Signatures <- Functions1
    MaxStmts = 5
CHECK_DEADLOCK FALSE
INVARIANT
    FunStmtIsAssignment
