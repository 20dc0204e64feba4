-------------------------------- MODULE MCBox --------------------------------
(***************************************************************************)
(* Graphs of three nodes: a root with up to two fields, and two others     *)
(* with one.                                                               *)
(***************************************************************************)
EXTENDS Box, Relation

CONSTANT Texts  \* the strings that occur

MCValues == {String(s) : s \in Texts} \cup {Boolean(FALSE)} \cup {Ref(i) : i \in Node}
MCKeys == {String("a"), Number(1)}
MCFields(n) ==
    {<<>>}
      \cup {<<<<k, v>>>> : k \in MCKeys, v \in MCValues}
      \cup (IF n < 2 THEN {} ELSE
            {<<<<k, v>>, <<l, w>>>> : k \in MCKeys, v \in MCValues, l \in MCKeys, w \in MCValues})

\* No key occurs twice.
MCProper(fields) == Len(fields) < 2 \/ fields[1][1] /= fields[2][1]

MCEdges(h) ==
    [p \in Node \X Node |-> \E x \in Range(h[p[1]].fields) : x[2] = Ref(p[2])]

\* An object with a __pack method is part of a cycle.  Entity.__pack leaves
\* parent out "to avoid circularity" (server/game/felt/Entity.lua:6).
MCCallCycle(h) ==
    LET closure == TransitiveClosure(MCEdges(h), Node)
    IN  \E i \in Node : h[i].kind = "call" /\ closure[i, i]

MCOthers ==
    [kind : {"table", "call"}, fields : MCFields(1)] \cup [kind : {"pack"}, fields : {<<>>}]

MCHeaps ==
    {h \in {<<r, x, y>> : r \in [kind : {"table"}, fields : {s \in MCFields(2) : MCProper(s)}],
                          x \in MCOthers, y \in MCOthers} :
        ~MCCallCycle(h)}

MCRoots == {Ref(1), Nil, Number(1), Boolean(TRUE)} \cup {String(s) : s \in Texts}
=============================================================================
