------------------------------ MODULE MCLuaGC -------------------------------
EXTENDS LuaGC

CONSTANTS t1, d1, d2, f1, p1, u1, co, str1, str2, weakmeta, gcmeta

MCMode == weakmeta :> {"k"} @@ gcmeta :> {}
MCProtoOf == f1 :> p1
MCLiteralOf == p1 :> str1
MCHash == str1 :> 0 @@ str2 :> 1

MCWorlds ==
    LET World(objects, uses, watch) ==
            [objects |-> objects, size |-> 1, regs |-> 1, uses |-> uses, watch |-> watch]
    IN  {World({t1, d1, weakmeta, gcmeta}, {"keys"}, nil),
         World({d1, d2, gcmeta}, {}, d1),
         World({d1, gcmeta}, {"collectgarbage"}, d1),
         World({t1, d1}, {"metatables"}, nil),
         World({f1, p1, u1, co}, {}, u1),
         World({str1, str2}, {"collectgarbage"}, str1)}
=============================================================================
