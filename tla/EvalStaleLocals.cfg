SPECIFICATION Spec
CONSTANTS
    main = main
    one = one
    rest = rest
    mod = mod
    va = va
    vb = vb
    l0 = l0
    l1 = l1
    l2 = l2
    A = A
    B = B
    Nil = Nil
    None = None
    Failed = Failed
    Require = Require
    Native = {Require}
    List = {l0, l1, l2}
    Chunk = {A, B}
    Value <- MCValue
    Func <- MCFunc
    Items <- MCItems
    Loads <- StaleLoads
    Shape <- Shape3
    Slack = 0
    MaxFrames = 3
    MaxPads = 1
INVARIANT
    OffsetsAsDocumented
