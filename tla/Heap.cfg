SPECIFICATION Spec
CONSTANTS
    o1 = o1
    o2 = o2
    o3 = o3
    o4 = o4
    x = x
    y = y
    Nil = Nil
    None = None
    Free = Free
    Obj = {o1, o2, o3, o4}
    Global = {x}
    Bounds <- MCBounds
SYMMETRY Symmetry
CHECK_DEADLOCK FALSE
INVARIANTS
    TypeOK
    CountsExact
    TasksSound
    WeakListsSound
    OnlyCyclesLeak
PROPERTIES
    ForgetsTheDead
    StringsImmutable
