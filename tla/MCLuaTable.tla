----------------------------- MODULE MCLuaTable -----------------------------
EXTENDS LuaTable

CONSTANTS a, b, s

\* The words of a double, added, for the numbers.  In four nodes a and b
\* collide, and the one that has to move is in the place of s.
MCHash ==
    [k \in Key |-> CASE k = 1 -> 1072693248 [] k = 2 -> 1073741824 [] k = 3 -> 1074266112
                     [] k = 4 -> 1074790400 [] k = a -> 3 [] k = b -> 6 [] k = s -> 3]

MCKeySets == {{1, 2, 3, 4}, {1, a, b, s}}
=============================================================================
