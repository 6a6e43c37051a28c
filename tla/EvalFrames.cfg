SPECIFICATION FairSpec
CONSTANTS
    main = main
    one = one
    rest = rest
    mod = mod
    va = va
    vb = vb
    l0 = l0
    l1 = l1
    l2 = l2
    A = A
    B = B
    Nil = Nil
    None = None
    Failed = Failed
    Require = Require
    Native = {Require}
    List = {l0, l1, l2}
    Chunk = {A, B}
    Value <- MCValue
    Func <- MCFunc
    Items <- MCItems
    Loads <- DeepLoads
    Shape <- ShapeRoomy
    Slack = 1
    MaxFrames = 3
    MaxPads = 2
INVARIANTS
    OuterAwaitsRequire
    LocalsSound
PROPERTIES
    FramesSpec
    ErrorsReachTheDriver
