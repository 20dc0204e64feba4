----------------------------- MODULE MCLuaCalls -----------------------------
EXTENDS LuaCalls

CONSTANTS c1, c2

MCPrograms ==
    {[co |-> {c1}, fns |-> CFunction, ccalls |-> 3],
     [co |-> {c1, c2}, fns |-> {"resume", "yield"}, ccalls |-> 4]}
=============================================================================
