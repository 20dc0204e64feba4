CONSTANTS
    nil = nil
    main = main
    globals = globals
    registry = registry
    t1 = t1
    d1 = d1
    d2 = d2
    f1 = f1
    p1 = p1
    u1 = u1
    co = co
    str1 = str1
    str2 = str2
    weakmeta = weakmeta
    gcmeta = gcmeta
    Table = {globals, registry, weakmeta, gcmeta, t1}
    Udata = {d1, d2}
    Function = {f1}
    Proto = {p1}
    Upval = {u1}
    Thread = {main, co}
    String = {str1, str2}
    Metas = {weakmeta, gcmeta}
    Mode <- MCMode
    Finalizing = {gcmeta}
    ProtoOf <- MCProtoOf
    LiteralOf <- MCLiteralOf
    Hash <- MCHash
    Worlds <- MCWorlds
    NReg = 2
    SweepMax = 4
SPECIFICATION Spec
INVARIANTS
    NothingLiveFreed
    AssertionsHold
    TriColour
PROPERTIES
    FinalizedInOrder
    Collected
