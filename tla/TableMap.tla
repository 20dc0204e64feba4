------------------------------ MODULE TableMap ------------------------------
(***************************************************************************)
(* What a Lua table promises: a map from keys to values in which nil means *)
(* absent, and a traversal (next, pairs) that visits every field once.     *)
(* "The behavior of next is undefined if, during the traversal, you assign *)
(* any value to a non-existent field in the table.  You may however modify *)
(* existing fields.  In particular, you may clear existing fields."        *)
(***************************************************************************)
CONSTANTS Key, Value, nil

VARIABLES
    map,    \* the value of each key
    on,     \* a traversal is going on
    seen    \* the keys it has visited that are still there

mapVars == <<map, on, seen>>

Present == {k \in Key : map[k] /= nil}

MapInit ==
    /\ map \in [Key -> Value \cup {nil}]
    /\ on = FALSE /\ seen = {}

\* An assignment; the traversal ends if the field does not exist.
Assign(k, v) ==
    /\ map' = [map EXCEPT ![k] = v]
    /\ on' = (on /\ map[k] /= nil)
    /\ seen' = IF ~on' THEN {} ELSE IF v = nil THEN seen \ {k} ELSE seen

Begin == ~on /\ on' = TRUE /\ UNCHANGED <<map, seen>>

Visit(k) == on /\ k \in Present \ seen /\ seen' = seen \cup {k} /\ UNCHANGED <<map, on>>

\* The traversal ends when no field is left.
End == on /\ Present \subseteq seen /\ on' = FALSE /\ seen' = {} /\ UNCHANGED map

MapNext ==
    \/ \E k \in Key, v \in Value \cup {nil} : Assign(k, v)
    \/ Begin
    \/ \E k \in Key : Visit(k)
    \/ End

MapSpec == MapInit /\ [][MapNext]_mapVars
=============================================================================
