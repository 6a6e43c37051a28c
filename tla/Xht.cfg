SPECIFICATION Spec
CONSTANTS
    k1 = k1
    k2 = k2
    k3 = k3
    k4 = k4
    v1 = v1
    Nil = Nil
    Absent = Absent
    Key = {k1, k2, k3, k4}
    Val = {Nil, v1}
    Hash <- MCHash4
    Widths = {8, 64}
CHECK_DEADLOCK FALSE
INVARIANTS
    TypeOK
    WellChained
    RoomLeft
PROPERTY
    MapSpec
