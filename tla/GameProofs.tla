----------------------------- MODULE GameProofs ------------------------------
(***************************************************************************)
(* What each method of the server's game does to its tables, and an        *)
(* invariant of them, for every set of players and entities, every set of  *)
(* box scripts and every bound on ids.                                     *)
(***************************************************************************)
EXTENDS Game, SequenceLemmas

\* Parts of the state a method leaves alone.
SameRegistry(t, s) == t.id = s.id /\ t.objects = s.objects /\ t.r_objects = s.r_objects
SameTree(t, s)     == t.parent = s.parent /\ t.children = s.children
SameHands(t, s)    == t.held = s.held /\ t.held_by = s.held_by
SameRest(t, s)     == t.count = s.count /\ t.opened = s.opened /\ t.raised = s.raised

-----------------------------------------------------------------------------
(***************************************************************************)
(* What each elementary method does to the tables, and that it keeps their *)
(* types.                                                                  *)
(***************************************************************************)

LEMMA RefToType ==
    ASSUME NEW s \in State, NEW o \in Object \cup {nil}
    PROVE  RefTo(s, o) \in Ref
BY GameAssumption DEF State, RefTo, Ref, NilRef, Registered

LEMMA FixedRefs == NilRef \in Ref /\ GameRef \in Ref
BY DEF NilRef, GameRef, Ref

LEMMA SendFields ==
    ASSUME NEW s \in State, NEW self \in Ref, NEW method \in Method, NEW arg \in Ref,
           NEW t, t = Send(s, self, method, arg)
    PROVE  /\ t \in State
           /\ SameRegistry(t, s) /\ SameTree(t, s) /\ SameHands(t, s) /\ SameRest(t, s)
<1>1. [self |-> self, method |-> method, arg |-> arg] \in Message
  BY DEF Message
<1>2. Append(s.out, [self |-> self, method |-> method, arg |-> arg]) \in Seq(Message)
  BY <1>1 DEF State
<1> QED
  BY <1>2 DEF State, Send, SameRegistry, SameTree, SameHands, SameRest

LEMMA RaiseFields ==
    ASSUME NEW s \in State, NEW t, t = Raise(s)
    PROVE  /\ t \in State
           /\ SameRegistry(t, s) /\ SameTree(t, s) /\ SameHands(t, s)
           /\ t.count = s.count /\ t.opened = s.opened
BY DEF State, Raise, SameRegistry, SameTree, SameHands

LEMMA SetHeldFields ==
    ASSUME NEW s \in State, NEW p \in Player, NEW e \in Object \cup {nil},
           NEW t, t = SetHeld(s, p, e)
    PROVE  /\ t \in State
           /\ SameRegistry(t, s) /\ SameTree(t, s) /\ SameRest(t, s)
           /\ t.held = [s.held EXCEPT ![p] = e]
           /\ t.held_by = s.held_by
<1> DEFINE u == [s EXCEPT !.held[p] = e]
<1>1. /\ u \in State
      /\ SameRegistry(u, s) /\ SameTree(u, s) /\ SameRest(u, s)
      /\ u.held = [s.held EXCEPT ![p] = e]
      /\ u.held_by = s.held_by
  BY DEF State, SameRegistry, SameTree, SameRest
<1>2. t = Send(u, RefTo(u, p), "set held", RefTo(u, e))
  BY DEF SetHeld
<1> HIDE DEF u
<1>3. RefTo(u, p) \in Ref /\ RefTo(u, e) \in Ref
  BY <1>1, RefToType DEF Object
<1>4. /\ t \in State
      /\ SameRegistry(t, u) /\ SameTree(t, u) /\ SameHands(t, u) /\ SameRest(t, u)
  BY <1>1, <1>2, <1>3, SendFields DEF Method
<1> QED
  BY <1>1, <1>4 DEF SameRegistry, SameTree, SameHands, SameRest

LEMMA SetHeldByFields ==
    ASSUME NEW s \in State, NEW e \in Object, NEW p \in Player \cup {nil},
           NEW t, t = SetHeldBy(s, e, p)
    PROVE  /\ t \in State
           /\ SameRegistry(t, s) /\ SameTree(t, s) /\ SameRest(t, s)
           /\ t.held = s.held
           /\ t.held_by = [s.held_by EXCEPT ![e] = p]
<1> DEFINE u == [s EXCEPT !.held_by[e] = p]
<1>1. /\ u \in State
      /\ SameRegistry(u, s) /\ SameTree(u, s) /\ SameRest(u, s)
      /\ u.held = s.held
      /\ u.held_by = [s.held_by EXCEPT ![e] = p]
  BY DEF State, SameRegistry, SameTree, SameRest
<1>2. t = Send(u, RefTo(u, e), "set held_by", RefTo(u, p))
  BY DEF SetHeldBy
<1> HIDE DEF u
<1>3. RefTo(u, p) \in Ref /\ RefTo(u, e) \in Ref
  BY <1>1, RefToType DEF Object
<1>4. /\ t \in State
      /\ SameRegistry(t, u) /\ SameTree(t, u) /\ SameHands(t, u) /\ SameRest(t, u)
  BY <1>1, <1>2, <1>3, SendFields DEF Method
<1> QED
  BY <1>1, <1>4 DEF SameRegistry, SameTree, SameHands, SameRest

(***************************************************************************)
(* The tree of entities: x is listed by its parent and nowhere else, once. *)
(***************************************************************************)
TreeOK(s) ==
    \A e \in Entity : /\ Range(s.children[e]) = {x \in Entity : s.parent[x] = e}
                      /\ IsInjective(s.children[e])

LEMMA EntityRemoveFields ==
    ASSUME NEW s \in State, TreeOK(s), NEW e \in Entity, s.parent[e] \in Entity,
           NEW t, t = EntityRemove(s, s.parent[e], e)
    PROVE  /\ t \in State
           /\ TreeOK(t)
           /\ SameRegistry(t, s) /\ SameHands(t, s) /\ SameRest(t, s)
           /\ t.out = s.out
           /\ t.parent = [s.parent EXCEPT ![e] = nil]
           /\ t.children = [s.children EXCEPT ![s.parent[e]] =
                                                 RemoveFirst(s.children[s.parent[e]], e)]
<1> DEFINE old == s.parent[e]
           q == RemoveFirst(s.children[old], e)
<1>1. s.children[old] \in Seq(Entity) /\ IsInjective(s.children[old])
      /\ Range(s.children[old]) = {x \in Entity : s.parent[x] = old}
  BY DEF State, TreeOK
<1>2. q \in Seq(Entity) /\ IsInjective(q) /\ Range(q) = Range(s.children[old]) \ {e}
  BY <1>1, RemoveFirstProperties
<1> HIDE DEF q
<1>3. t = [s EXCEPT !.parent = [s.parent EXCEPT ![e] = nil],
                    !.children = [s.children EXCEPT ![old] = q]]
  BY DEF EntityRemove, State, q
<1>4. /\ t \in State
      /\ SameRegistry(t, s) /\ SameHands(t, s) /\ SameRest(t, s)
      /\ t.out = s.out
      /\ t.parent = [s.parent EXCEPT ![e] = nil]
      /\ t.children = [s.children EXCEPT ![old] = q]
  <2>1. [s.parent EXCEPT ![e] = nil] \in [Entity -> Entity \cup {nil}]
    BY DEF State
  <2>2. [s.children EXCEPT ![old] = q] \in [Entity -> Seq(Entity)]
    BY <1>2 DEF State
  <2> QED
    BY <2>1, <2>2, <1>3 DEF State, SameRegistry, SameHands, SameRest
<1>5. TreeOK(t)
  <2> SUFFICES ASSUME NEW y \in Entity
               PROVE  /\ Range(t.children[y]) = {x \in Entity : t.parent[x] = y}
                      /\ IsInjective(t.children[y])
    BY DEF TreeOK
  <2>1. {x \in Entity : t.parent[x] = y} = {x \in Entity : s.parent[x] = y} \ {e}
    BY <1>4, GameAssumption DEF State, Object
  <2>2. CASE y = old
    BY <2>1, <2>2, <1>1, <1>2, <1>4 DEF State
  <2>3. CASE y /= old
    <3>1. t.children[y] = s.children[y] /\ e \notin {x \in Entity : s.parent[x] = y}
      BY <2>3, <1>4 DEF State
    <3> QED
      BY <3>1, <2>1 DEF TreeOK
  <2> QED
    BY <2>2, <2>3
<1>6. t.children = [s.children EXCEPT ![s.parent[e]] =
                                          RemoveFirst(s.children[s.parent[e]], e)]
  BY <1>4 DEF q
<1> QED
  BY <1>4, <1>5, <1>6

LEMMA MoveToFields ==
    ASSUME NEW s \in State, TreeOK(s), NEW e \in Entity, NEW to \in Entity \cup {nil},
           NEW t, t = MoveTo(s, e, to)
    PROVE  /\ t \in State
           /\ TreeOK(t)
           /\ SameRegistry(t, s) /\ SameHands(t, s) /\ SameRest(t, s)
           /\ t.parent = [s.parent EXCEPT ![e] = to]
           /\ \A x \in Entity : x /= to /\ x /= s.parent[e] => t.children[x] = s.children[x]
           /\ to /= nil /\ to /= s.parent[e] => t.children[to] = Append(s.children[to], e)
<1> DEFINE old == s.parent[e]
           u == IF old /= nil /\ old /= to THEN EntityRemove(s, old, e) ELSE s
           v == IF to /= nil /\ u.parent[e] /= to
                THEN [u EXCEPT !.children[to] = Append(@, e)] ELSE u
           w == [v EXCEPT !.parent[e] = to]
<1>1. old \in Entity \cup {nil} /\ nil \notin Entity
  BY GameAssumption DEF State, Object
<1>2. /\ u \in State /\ TreeOK(u)
      /\ SameRegistry(u, s) /\ SameHands(u, s) /\ SameRest(u, s)
      /\ u.parent = IF old /= to THEN [s.parent EXCEPT ![e] = nil] ELSE s.parent
      /\ \A x \in Entity : x /= old => u.children[x] = s.children[x]
  <2>1. CASE old /= nil /\ old /= to
    <3>1. u = EntityRemove(s, old, e)
      BY <2>1
    <3> HIDE DEF u
    <3>2. /\ u \in State /\ TreeOK(u)
          /\ SameRegistry(u, s) /\ SameHands(u, s) /\ SameRest(u, s)
          /\ u.parent = [s.parent EXCEPT ![e] = nil]
          /\ u.children = [s.children EXCEPT ![old] = RemoveFirst(s.children[old], e)]
      BY <2>1, <1>1, <3>1, EntityRemoveFields
    <3> QED
      BY <2>1, <3>2 DEF State
  <2>2. CASE ~(old /= nil /\ old /= to)
    <3>1. old /= to => s.parent = [s.parent EXCEPT ![e] = nil]
      BY <2>2 DEF State
    <3> QED
      BY <2>2, <3>1 DEF SameRegistry, SameHands, SameRest
  <2> QED
    BY <2>1, <2>2
<1> HIDE DEF u
<1>3. CASE to = nil \/ to = old
  <2>1. v = u
    BY <1>2, <1>3 DEF State
  <2>2. w.parent = [s.parent EXCEPT ![e] = to] /\ w.parent = u.parent
    <3>1. w.parent = [u.parent EXCEPT ![e] = to]
      BY <2>1, <1>2 DEF State
    <3>2. u.parent[e] = to
      BY <1>2, <1>3 DEF State
    <3>3. w.parent = u.parent
      BY <3>1, <3>2, <1>2 DEF State
    <3>4. u.parent = [s.parent EXCEPT ![e] = to]
      <4>1. CASE to = old
        BY <4>1, <1>2 DEF State
      <4>2. CASE to /= old
        BY <4>2, <1>2, <1>3
      <4> QED
        BY <4>1, <4>2
    <3> QED
      BY <3>3, <3>4
  <2>3. w \in State /\ SameRegistry(w, u) /\ SameHands(w, u) /\ SameRest(w, u)
        /\ w.children = u.children
    BY <2>1, <1>2 DEF State, SameRegistry, SameHands, SameRest
  <2>4. TreeOK(w)
    <3> HIDE DEF w
    <3> QED
      BY <2>2, <2>3, <1>2 DEF TreeOK
  <2>5. t = Send(w, RefTo(w, e), "moveto", RefTo(w, to))
    BY DEF MoveTo, u
  <2> HIDE DEF w
  <2>6. RefTo(w, e) \in Ref /\ RefTo(w, to) \in Ref
    BY <2>3, RefToType DEF Object
  <2>7. /\ t \in State
        /\ SameRegistry(t, w) /\ SameTree(t, w) /\ SameHands(t, w) /\ SameRest(t, w)
    BY <2>3, <2>5, <2>6, SendFields DEF Method
  <2> QED
    BY <1>2, <1>3, <2>2, <2>3, <2>4, <2>7
       DEF TreeOK, SameRegistry, SameTree, SameHands, SameRest
<1>4. CASE to /= nil /\ to /= old
  <2>1. v = [u EXCEPT !.children[to] = Append(@, e)]
    BY <1>2, <1>4 DEF State
  <2>2. u.children[to] \in Seq(Entity) /\ IsInjective(u.children[to])
        /\ Range(u.children[to]) = {x \in Entity : u.parent[x] = to}
        /\ e \notin Range(u.children[to])
    BY <1>1, <1>2, <1>4 DEF State, TreeOK
  <2> DEFINE q == Append(u.children[to], e)
  <2>3. q \in Seq(Entity) /\ IsInjective(q) /\ Range(q) = Range(u.children[to]) \cup {e}
    BY <2>2, AppendNewProperties
  <2> HIDE DEF q
  <2>4. w = [u EXCEPT !.children = [u.children EXCEPT ![to] = q],
                      !.parent = [u.parent EXCEPT ![e] = to]]
    BY <1>2, <2>1 DEF State, q
  <2>5. t = Send(w, RefTo(w, e), "moveto", RefTo(w, to))
    BY DEF MoveTo, u
  <2> HIDE DEF w
  <2>6. /\ w \in State /\ SameRegistry(w, u) /\ SameHands(w, u) /\ SameRest(w, u)
        /\ w.parent = [u.parent EXCEPT ![e] = to]
        /\ w.children = [u.children EXCEPT ![to] = q]
    BY <1>2, <1>4, <2>3, <2>4 DEF State, SameRegistry, SameHands, SameRest
  <2>7. w.parent = [s.parent EXCEPT ![e] = to]
    BY <2>6, <1>2 DEF State
  <2>8. TreeOK(w)
    <3> SUFFICES ASSUME NEW y \in Entity
                 PROVE  /\ Range(w.children[y]) = {x \in Entity : w.parent[x] = y}
                        /\ IsInjective(w.children[y])
      BY DEF TreeOK
    <3>1. CASE y = to
      <4>1. {x \in Entity : w.parent[x] = y} = {x \in Entity : u.parent[x] = to} \cup {e}
        BY <3>1, <2>6, <1>2 DEF State
      <4> QED
        BY <4>1, <3>1, <2>2, <2>3, <2>6, <1>2 DEF State
    <3>2. CASE y /= to
      <4>1. {x \in Entity : w.parent[x] = y} = {x \in Entity : u.parent[x] = y}
        BY <3>2, <2>6, <1>1, <1>2, <1>4 DEF State
      <4>2. w.children[y] = u.children[y]
        BY <3>2, <2>6, <1>2 DEF State
      <4> QED
        BY <4>1, <4>2, <1>2 DEF TreeOK
    <3> QED
      BY <3>1, <3>2
  <2>9. RefTo(w, e) \in Ref /\ RefTo(w, to) \in Ref
    BY <2>6, RefToType DEF Object
  <2>10. /\ t \in State
         /\ SameRegistry(t, w) /\ SameTree(t, w) /\ SameHands(t, w) /\ SameRest(t, w)
    BY <2>5, <2>6, <2>9, SendFields DEF Method
  <2>11. TreeOK(t)
    BY <2>8, <2>10 DEF TreeOK, SameTree
  <2>12. t.children[to] = Append(s.children[to], e)
    BY <2>6, <2>10, <1>2, <1>4 DEF State, SameTree, q
  <2>13. ASSUME NEW x \in Entity, x /= to, x /= old PROVE t.children[x] = s.children[x]
    BY <2>13, <2>6, <2>10, <1>2 DEF State, SameTree
  <2> QED
    BY <1>2, <2>6, <2>7, <2>10, <2>11, <2>12, <2>13
       DEF SameRegistry, SameTree, SameHands, SameRest
<1> QED
  BY <1>3, <1>4

LEMMA AddObjectFields ==
    ASSUME NEW s \in State, NEW o \in Object, NEW i \in Id,
           NEW t, t = AddObject(s, o, i)
    PROVE  /\ t \in State
           /\ SameTree(t, s) /\ SameHands(t, s) /\ SameRest(t, s)
           /\ \A x \in Object : t.id[x] = IF x = o THEN i ELSE s.id[x]
           /\ \A x \in Object : t.r_objects[x] = IF x = o THEN i ELSE s.r_objects[x]
           /\ \A j \in Id : t.objects[j] = IF j = i THEN o ELSE s.objects[j]
<1> DEFINE u == [s EXCEPT !.id[o] = i]
           v == Send(u, GameRef, "addObject", RefTo(u, o))
<1>1. /\ u \in State
      /\ SameTree(u, s) /\ SameHands(u, s) /\ SameRest(u, s)
      /\ u.id = [s.id EXCEPT ![o] = i]
      /\ u.objects = s.objects /\ u.r_objects = s.r_objects
  BY DEF State, SameTree, SameHands, SameRest
<1>2. t = [v EXCEPT !.objects[i] = o, !.r_objects[o] = i]
  BY DEF AddObject
<1> HIDE DEF u
<1>3. RefTo(u, o) \in Ref
  BY <1>1, RefToType
<1>4. /\ v \in State
      /\ SameRegistry(v, u) /\ SameTree(v, u) /\ SameHands(v, u) /\ SameRest(v, u)
  BY <1>1, <1>3, FixedRefs, SendFields DEF Method
<1> HIDE DEF v
<1>5. /\ t \in State
      /\ SameTree(t, v) /\ SameHands(t, v) /\ SameRest(t, v)
      /\ t.id = v.id
      /\ t.objects = [v.objects EXCEPT ![i] = o]
      /\ t.r_objects = [v.r_objects EXCEPT ![o] = i]
  <2>1. [v.objects EXCEPT ![i] = o] \in [Id -> Object \cup {nil}]
    BY <1>4 DEF State
  <2>2. [v.r_objects EXCEPT ![o] = i] \in [Object -> Id \cup {0}]
    BY <1>4 DEF State
  <2>3. t = [v EXCEPT !.objects = [v.objects EXCEPT ![i] = o],
                      !.r_objects = [v.r_objects EXCEPT ![o] = i]]
    BY <1>2, <1>4 DEF State
  <2> QED
    BY <2>1, <2>2, <2>3, <1>4 DEF State, SameTree, SameHands, SameRest
<1>6. SameTree(t, s) /\ SameHands(t, s) /\ SameRest(t, s)
  BY <1>1, <1>4, <1>5 DEF SameTree, SameHands, SameRest
<1>7. \A x \in Object : t.id[x] = IF x = o THEN i ELSE s.id[x]
  BY <1>1, <1>4, <1>5 DEF State, SameRegistry
<1>8. \A x \in Object : t.r_objects[x] = IF x = o THEN i ELSE s.r_objects[x]
  BY <1>1, <1>4, <1>5 DEF State, SameRegistry
<1>9. \A j \in Id : t.objects[j] = IF j = i THEN o ELSE s.objects[j]
  BY <1>1, <1>4, <1>5 DEF State, SameRegistry
<1> QED
  BY <1>5, <1>6, <1>7, <1>8, <1>9

LEMMA DeleteObjectFields ==
    ASSUME NEW s \in State, NEW o \in Object,
           NEW t, t = DeleteObject(s, o)
    PROVE  /\ t \in State
           /\ SameTree(t, s) /\ SameHands(t, s) /\ SameRest(t, s)
           /\ t.id = s.id
           /\ t.objects = [s.objects EXCEPT ![s.id[o]] = nil]
           /\ t.r_objects = [s.r_objects EXCEPT ![o] = 0]
<1> DEFINE v == Send(s, GameRef, "deleteObject", RefTo(s, o))
<1>2. t = [v EXCEPT !.objects[s.id[o]] = nil, !.r_objects[o] = 0]
  BY DEF DeleteObject
<1>3. RefTo(s, o) \in Ref
  BY RefToType
<1>4. /\ v \in State
      /\ SameRegistry(v, s) /\ SameTree(v, s) /\ SameHands(v, s) /\ SameRest(v, s)
  BY <1>3, FixedRefs, SendFields DEF Method
<1> HIDE DEF v
<1>5. /\ t \in State
      /\ SameTree(t, v) /\ SameHands(t, v) /\ SameRest(t, v)
      /\ t.id = v.id
      /\ t.objects = [v.objects EXCEPT ![s.id[o]] = nil]
      /\ t.r_objects = [v.r_objects EXCEPT ![o] = 0]
  <2>1. [v.objects EXCEPT ![s.id[o]] = nil] \in [Id -> Object \cup {nil}]
    BY <1>4 DEF State
  <2>2. [v.r_objects EXCEPT ![o] = 0] \in [Object -> Id \cup {0}]
    BY <1>4 DEF State
  <2>3. t = [v EXCEPT !.objects = [v.objects EXCEPT ![s.id[o]] = nil],
                      !.r_objects = [v.r_objects EXCEPT ![o] = 0]]
    BY <1>2, <1>4 DEF State
  <2> QED
    BY <2>1, <2>2, <2>3, <1>4 DEF State, SameTree, SameHands, SameRest
<1> QED
  BY <1>4, <1>5 DEF SameRegistry, SameTree, SameHands, SameRest

-----------------------------------------------------------------------------
(***************************************************************************)
(* The inductive invariant, as a predicate of a game state and the set of  *)
(* players online, so that it can be followed through the methods a        *)
(* handler calls.                                                          *)
(***************************************************************************)

HandsOK(s, on) ==
    /\ \A p \in Player, e \in Entity : s.held[p] = e <=> s.held_by[e] = p
    /\ \A p \in Player : s.held[p] /= nil =>
          p \in on /\ s.held[p] \in Tokens /\ s.r_objects[s.held[p]] /= 0

RegistryOK(s) ==
    /\ \A i \in Id : s.objects[i] /= nil => s.r_objects[s.objects[i]] = i
    /\ \A o \in Object : s.r_objects[o] /= 0 =>
          s.objects[s.r_objects[o]] = o /\ s.r_objects[o] = s.id[o]

(***************************************************************************)
(* Where an entity of each class can be.  Fields and boards are the only   *)
(* parents, and a field has none: this order of the classes is why no drop *)
(* closes a cycle, and why piles have no children.                         *)
(***************************************************************************)
PlacesOK(s) ==
    \A e \in Entity :
        /\ s.r_objects[e] = 0 => s.parent[e] = nil
        /\ s.parent[e] \in Fields \cup Boards \cup {nil}
        /\ s.parent[e] /= nil => s.r_objects[s.parent[e]] /= 0
        /\ e \in Fields => s.parent[e] = nil
        /\ e \in Boards \cup Boxes => s.parent[e] \in Fields \cup {nil}
        /\ e \in Pieces /\ s.r_objects[e] /= 0 => s.parent[e] /= nil

\* A box that was not opened is on its field, and its contents do not exist.
BoxesOK(s) ==
    \A b \in Boxes : b \notin s.opened =>
        /\ s.r_objects[b] /= 0
        /\ s.parent[b] \in Entity
        /\ \A e \in Range(Contents[b]) : s.id[e] = 0

GInv(s, on) ==
    /\ s \in State
    /\ TreeOK(s)
    /\ HandsOK(s, on)
    /\ RegistryOK(s)
    /\ PlacesOK(s)
    /\ BoxesOK(s)

\* From s to t, hands other than player p's were left alone.
OwnHand(s, t, p) ==
    \A e \in Entity : \/ t.held_by[e] = s.held_by[e]
                      \/ s.held_by[e] \in {nil, p} /\ t.held_by[e] \in {nil, p}

\* From s to t, what no hand held has kept its place and its registration.
Stays(t, s) ==
    \A e \in Entity \ Boxes : s.r_objects[e] /= 0 /\ s.held_by[e] = nil =>
        t.parent[e] = s.parent[e] /\ t.r_objects[e] /= 0

Live(s)    == {x \in Stones : s.r_objects[x] /= 0}
Stocked(s) == {e \in Piles : s.r_objects[e] /= 0}

\* From s to t, a stone may have left a pile or entered one, and new piles may
\* have been registered.
Moved(t, s) ==
    /\ Stocked(s) \subseteq Stocked(t)
    /\ \/ Live(t) = Live(s) /\ t.count = s.count
       \/ /\ Stocked(t) = Stocked(s)
          /\ \E x \in Stones, e \in Stocked(s) :
                \/ /\ x \in Live(s) /\ Live(t) = Live(s) \ {x}
                   /\ t.count = [s.count EXCEPT ![e] = s.count[e] + 1]
                \/ /\ x \notin Live(s) /\ Live(t) = Live(s) \cup {x}
                   /\ t.count = [s.count EXCEPT ![e] = s.count[e] - 1]

Effect(t, s) == Stays(t, s) /\ Moved(t, s)

LEMMA EffectThen ==
    ASSUME NEW s, NEW t, NEW u, Effect(u, s),
           t.r_objects = u.r_objects, t.parent = u.parent, t.count = u.count
    PROVE  Effect(t, s)
<1>1. Stays(t, s)
  BY DEF Effect, Stays
<1>2. Live(t) = Live(u) /\ Stocked(t) = Stocked(u)
  BY DEF Live, Stocked
<1> QED
  BY <1>1, <1>2 DEF Effect, Moved

LEMMA EffectSame ==
    ASSUME NEW s, NEW t,
           t.r_objects = s.r_objects, t.parent = s.parent, t.count = s.count
    PROVE  Effect(t, s)
BY DEF Effect, Stays, Moved, Live, Stocked

\* Only what hands held has moved.
LEMMA EffectTree ==
    ASSUME NEW s, NEW t, t.r_objects = s.r_objects, t.count = s.count,
           \A e \in Entity : s.held_by[e] = nil => t.parent[e] = s.parent[e]
    PROVE  Effect(t, s)
<1>1. Stays(t, s)
  BY DEF Stays
<1>2. Moved(t, s)
  BY DEF Moved, Live, Stocked
<1> QED
  BY <1>1, <1>2 DEF Effect

LEMMA OwnHandTrans ==
    ASSUME NEW s, NEW t, NEW u, NEW p, OwnHand(s, t, p), OwnHand(t, u, p)
    PROVE  OwnHand(s, u, p)
BY DEF OwnHand

\* The invariant does not depend on what was broadcast or counted.
LEMMA GInvSame ==
    ASSUME NEW s, NEW t \in State, NEW on, NEW p, GInv(s, on),
           SameRegistry(t, s), SameTree(t, s), SameHands(t, s), t.opened = s.opened
    PROVE  GInv(t, on) /\ OwnHand(s, t, p)
<1>1. TreeOK(t)
  BY DEF GInv, TreeOK, SameTree
<1>2. HandsOK(t, on)
  BY DEF GInv, HandsOK, SameHands, SameRegistry
<1>3. RegistryOK(t) /\ PlacesOK(t) /\ BoxesOK(t)
  BY DEF GInv, RegistryOK, PlacesOK, BoxesOK, SameTree, SameRegistry
<1> QED
  BY <1>1, <1>2, <1>3 DEF GInv, OwnHand, SameHands

\* Players may come online while the invariant holds.
LEMMA GInvMoreOnline ==
    ASSUME NEW s, NEW on, NEW p, GInv(s, on)
    PROVE  GInv(s, on \cup {p})
BY DEF GInv, HandsOK

-----------------------------------------------------------------------------
(***************************************************************************)
(* Every method keeps the invariant.                                       *)
(***************************************************************************)

LEMMA TokenPickupInv ==
    ASSUME NEW s, NEW on, GInv(s, on), NEW p \in Player, p \in on,
           NEW e \in Tokens, s.r_objects[e] /= 0,
           NEW t, t = TokenPickup(s, e, p)
    PROVE  /\ GInv(t, on) /\ OwnHand(s, t, p)
           /\ SameRegistry(t, s) /\ SameTree(t, s) /\ SameRest(t, s)
<1>0. s \in State /\ e \in Entity /\ nil \notin Entity /\ nil \notin Player
      /\ e \in Object \cup {nil} /\ e \in Object
  BY GameAssumption DEF GInv, Tokens, Pieces, Stones, Piles, Object
<1>1. CASE s.held_by[e] /= nil \/ s.held[p] /= nil
  BY <1>1 DEF TokenPickup, OwnHand, SameRegistry, SameTree, SameRest
<1>2. CASE s.held_by[e] = nil /\ s.held[p] = nil
  <2> DEFINE u == SetHeld(s, p, e)
             v == SetHeldBy(u, e, p)
  <2>1. t = v
    BY <1>2 DEF TokenPickup, PlayerPickup
  <2>2. /\ u \in State
        /\ SameRegistry(u, s) /\ SameTree(u, s) /\ SameRest(u, s)
        /\ u.held = [s.held EXCEPT ![p] = e] /\ u.held_by = s.held_by
    BY <1>0, SetHeldFields
  <2> HIDE DEF u
  <2>3. /\ v \in State
        /\ SameRegistry(v, u) /\ SameTree(v, u) /\ SameRest(v, u)
        /\ v.held = u.held /\ v.held_by = [u.held_by EXCEPT ![e] = p]
    BY <1>0, <2>2, SetHeldByFields
  <2> HIDE DEF v
  <2>4. t \in State
    BY <2>1, <2>3
  <2>5. /\ SameRegistry(t, s) /\ SameTree(t, s) /\ SameRest(t, s)
        /\ t.held = [s.held EXCEPT ![p] = e]
        /\ t.held_by = [s.held_by EXCEPT ![e] = p]
    BY <2>1, <2>2, <2>3 DEF SameRegistry, SameTree, SameRest
  <2>6. HandsOK(t, on)
    <3>1. ASSUME NEW q \in Player, NEW x \in Entity
          PROVE  t.held[q] = x <=> t.held_by[x] = q
      <4>1. x \in Object
        BY DEF Object
      <4> QED
        BY <1>0, <1>2, <2>5, <4>1 DEF GInv, HandsOK, State
    <3>2. ASSUME NEW q \in Player, t.held[q] /= nil
          PROVE  q \in on /\ t.held[q] \in Tokens /\ t.r_objects[t.held[q]] /= 0
      BY <1>0, <1>2, <2>5, <3>2 DEF GInv, HandsOK, State, SameRegistry
    <3> QED
      BY <3>1, <3>2 DEF HandsOK
  <2>7. TreeOK(t) /\ RegistryOK(t) /\ PlacesOK(t) /\ BoxesOK(t)
    BY <2>5 DEF GInv, TreeOK, RegistryOK, PlacesOK, BoxesOK, SameTree, SameRegistry, SameRest
  <2>8. OwnHand(s, t, p)
    BY <1>0, <1>2, <2>5 DEF OwnHand, State
  <2> QED
    BY <2>4, <2>5, <2>6, <2>7, <2>8 DEF GInv
<1> QED
  BY <1>1, <1>2

\* Player.drop of item e onto entity "onto": the hand is empty, e is moved.
LEMMA PlayerDropFields ==
    ASSUME NEW s \in State, TreeOK(s), NEW p \in Player, NEW onto \in Entity,
           NEW e \in Entity, s.held[p] = e,
           NEW t, t = PlayerDrop(s, p, onto)
    PROVE  /\ t \in State /\ TreeOK(t)
           /\ SameRegistry(t, s) /\ SameRest(t, s)
           /\ t.held = [s.held EXCEPT ![p] = nil]
           /\ t.held_by = [s.held_by EXCEPT ![e] = nil]
           /\ t.parent = [s.parent EXCEPT ![e] = onto]
           /\ \A x \in Entity : x /= onto /\ x /= s.parent[e] => t.children[x] = s.children[x]
           /\ onto /= s.parent[e] => t.children[onto] = Append(s.children[onto], e)
<1> DEFINE u == SetHeld(s, p, nil)
           v == SetHeldBy(u, e, nil)
           w == MoveTo(v, e, onto)
<1>0. s \in State /\ e \in Entity /\ e \in Object /\ nil \notin Entity
  BY GameAssumption DEF Object
<1>1. t = w
  BY <1>0 DEF PlayerDrop
<1>2. /\ u \in State
      /\ SameRegistry(u, s) /\ SameTree(u, s) /\ SameRest(u, s)
      /\ u.held = [s.held EXCEPT ![p] = nil] /\ u.held_by = s.held_by
  BY <1>0, SetHeldFields
<1> HIDE DEF u
<1>3. /\ v \in State
      /\ SameRegistry(v, u) /\ SameTree(v, u) /\ SameRest(v, u)
      /\ v.held = u.held /\ v.held_by = [u.held_by EXCEPT ![e] = nil]
  BY <1>0, <1>2, SetHeldByFields
<1> HIDE DEF v
<1>4. TreeOK(v) /\ v.parent = s.parent /\ v.children = s.children
  BY <1>2, <1>3 DEF TreeOK, SameTree
<1>5. /\ w \in State /\ TreeOK(w)
      /\ SameRegistry(w, v) /\ SameHands(w, v) /\ SameRest(w, v)
      /\ w.parent = [v.parent EXCEPT ![e] = onto]
      /\ \A x \in Entity : x /= onto /\ x /= v.parent[e] => w.children[x] = v.children[x]
      /\ onto /= nil /\ onto /= v.parent[e] => w.children[onto] = Append(v.children[onto], e)
  BY <1>0, <1>3, <1>4, MoveToFields
<1> HIDE DEF w
<1>6. t \in State
  BY <1>1, <1>5
<1>7. TreeOK(t)
  BY <1>1, <1>5
<1>8. /\ SameRegistry(t, s) /\ SameRest(t, s)
      /\ t.held = [s.held EXCEPT ![p] = nil]
      /\ t.held_by = [s.held_by EXCEPT ![e] = nil]
  BY <1>1, <1>2, <1>3, <1>5 DEF SameRegistry, SameHands, SameRest
<1>9. /\ t.parent = [s.parent EXCEPT ![e] = onto]
      /\ \A x \in Entity : x /= onto /\ x /= s.parent[e] => t.children[x] = s.children[x]
      /\ onto /= s.parent[e] => t.children[onto] = Append(s.children[onto], e)
  BY <1>0, <1>1, <1>4, <1>5
<1> QED
  BY <1>0, <1>6, <1>7, <1>8, <1>9

\* Emptying the hand of p keeps the two hand tables in agreement.
LEMMA EmptyHand ==
    ASSUME NEW s \in State, NEW t, NEW on, NEW p \in Player, NEW e \in Entity,
           HandsOK(s, on), s.held[p] = e,
           t.held = [s.held EXCEPT ![p] = nil],
           t.held_by = [s.held_by EXCEPT ![e] = nil],
           t.r_objects = s.r_objects
    PROVE  HandsOK(t, on) /\ HandsOK(t, on \ {p}) /\ OwnHand(s, t, p)
<1>0. nil \notin Entity /\ nil \notin Player
  BY GameAssumption DEF Object
<1>1. ASSUME NEW q \in Player, NEW x \in Entity
      PROVE  t.held[q] = x <=> t.held_by[x] = q
  <2>1. x \in Object
    BY DEF Object
  <2> QED
    BY <1>0, <2>1 DEF HandsOK, State
<1>2. ASSUME NEW q \in Player, t.held[q] /= nil
      PROVE  q \in on /\ q /= p /\ t.held[q] \in Tokens /\ t.r_objects[t.held[q]] /= 0
  BY <1>0, <1>2 DEF HandsOK, State
<1>3. OwnHand(s, t, p)
  <2>1. Entity \subseteq Object
    BY DEF Object
  <2> QED
    BY <1>0, <2>1 DEF OwnHand, HandsOK, State
<1> QED
  BY <1>1, <1>2, <1>3 DEF HandsOK

\* No player is in a hand, so Board.drop does nothing or drops.
LEMMA BoardDropCases ==
    ASSUME NEW s, NEW on, GInv(s, on), NEW p \in Player, NEW e \in Entity
    PROVE  /\ s.held[p] \in Entity \cup {nil}
           /\ s.held[p] = e \/ s.held[p] = nil => BoardDrop(s, e, p) = s
           /\ s.held[p] /= e /\ s.held[p] /= nil => BoardDrop(s, e, p) = PlayerDrop(s, p, e)
<1>1. s.held[p] \notin Player /\ s.held[p] \in Entity \cup {nil}
  BY GameAssumption DEF GInv, HandsOK, Object, Tokens, Pieces, Stones, Piles
<1> QED
  BY <1>1 DEF BoardDrop

LEMMA BoardDropInv ==
    ASSUME NEW s, NEW on, GInv(s, on), NEW p \in Player,
           NEW b \in Fields \cup Boards, s.r_objects[b] /= 0,
           NEW t, t = BoardDrop(s, b, p)
    PROVE  /\ GInv(t, on) /\ OwnHand(s, t, p) /\ SameRegistry(t, s) /\ SameRest(t, s)
           /\ Effect(t, s)
<1>0. s \in State /\ b \in Entity /\ nil \notin Entity
  BY GameAssumption DEF GInv, Fields, Boards, Object
<1>1. CASE s.held[p] = b \/ s.held[p] = nil
  BY <1>0, <1>1, BoardDropCases, EffectSame DEF OwnHand, SameRegistry, SameRest
<1>2. CASE s.held[p] /= b /\ s.held[p] /= nil
  <2> DEFINE e == s.held[p]
  <2>1. t = PlayerDrop(s, p, b)
    BY <1>0, <1>2, BoardDropCases
  <2>2. /\ e \in Entity
        /\ t \in State /\ TreeOK(t)
        /\ SameRegistry(t, s) /\ SameRest(t, s)
        /\ t.held = [s.held EXCEPT ![p] = nil]
        /\ t.held_by = [s.held_by EXCEPT ![e] = nil]
        /\ t.parent = [s.parent EXCEPT ![e] = b]
    <3>1. TreeOK(s) /\ s.held[p] \in Entity
      BY <1>0, <1>2, BoardDropCases DEF GInv
    <3> HIDE DEF e
    <3>2. e \in Entity
      BY <3>1 DEF e
    <3> QED
      BY <1>0, <2>1, <3>1, <3>2, PlayerDropFields DEF e
  <2>3. HandsOK(t, on) /\ OwnHand(s, t, p)
    BY <1>0, <2>2, EmptyHand DEF GInv, SameRegistry
  <2>4. e \in Tokens /\ s.r_objects[e] /= 0
    BY <1>2 DEF GInv, HandsOK
  <2>5. PlacesOK(t)
    <3>1. e \notin Fields /\ e \notin Boards /\ e \notin Boxes
      BY <2>4 DEF Tokens, Pieces, Stones, Piles, Fields, Boards, Boxes
    <3> QED
      BY <1>0, <2>2, <2>4, <3>1 DEF GInv, PlacesOK, SameRegistry, State
  <2>6. BoxesOK(t)
    BY <1>0, <2>2 DEF GInv, BoxesOK, SameRegistry, SameRest, State
  <2>7. RegistryOK(t)
    BY <2>2 DEF GInv, RegistryOK, SameRegistry
  <2>8. Effect(t, s)
    <3>1. s.held_by[e] = p /\ p /= nil
      BY <2>2, GameAssumption DEF GInv, HandsOK, Object
    <3>2. \A x \in Entity : s.held_by[x] = nil => t.parent[x] = s.parent[x]
      BY <1>0, <2>2, <3>1 DEF State
    <3> QED
      BY <2>2, <3>2, EffectTree DEF SameRegistry, SameRest
  <2> QED
    BY <2>2, <2>3, <2>5, <2>6, <2>7, <2>8 DEF GInv
<1> QED
  BY <1>1, <1>2

LEMMA PlayerDisconnectInv ==
    ASSUME NEW s, NEW on, GInv(s, on), NEW p \in Player,
           NEW t, t = PlayerDisconnect(s, p)
    PROVE  /\ GInv(t, on \ {p}) /\ OwnHand(s, t, p)
           /\ SameRegistry(t, s) /\ SameTree(t, s) /\ SameRest(t, s)
<1>0. s \in State /\ nil \notin Entity
  BY GameAssumption DEF GInv, Object
<1>1. CASE s.held[p] = nil
  <2>1. t = s
    BY <1>1 DEF PlayerDisconnect
  <2>2. /\ t \in State
        /\ SameRegistry(t, s) /\ SameTree(t, s) /\ SameHands(t, s) /\ SameRest(t, s)
    BY <1>0, <2>1 DEF SameRegistry, SameTree, SameHands, SameRest
  <2>3. GInv(s, on \ {p})
    BY <1>1 DEF GInv, HandsOK
  <2> QED
    BY <2>2, <2>3, GInvSame DEF SameRest
<1>2. CASE s.held[p] /= nil
  <2> DEFINE e == s.held[p]
             u == SetHeldBy(s, e, nil)
             v == SetHeld(u, p, nil)
  <2>0. e \in Entity /\ e \in Object
    BY <1>0, <1>2 DEF GInv, HandsOK, Tokens, Pieces, Stones, Piles, Object
  <2>1. t = v
    BY <1>2 DEF PlayerDisconnect
  <2> HIDE DEF e
  <2>2. /\ u \in State
        /\ SameRegistry(u, s) /\ SameTree(u, s) /\ SameRest(u, s)
        /\ u.held = s.held /\ u.held_by = [s.held_by EXCEPT ![e] = nil]
    BY <1>0, <2>0, SetHeldByFields
  <2> HIDE DEF u
  <2>3. /\ v \in State
        /\ SameRegistry(v, u) /\ SameTree(v, u) /\ SameRest(v, u)
        /\ v.held = [u.held EXCEPT ![p] = nil] /\ v.held_by = u.held_by
    BY <2>2, SetHeldFields
  <2> HIDE DEF v
  <2>4. t \in State
    BY <2>1, <2>3
  <2>5. /\ SameRegistry(t, s) /\ SameTree(t, s) /\ SameRest(t, s)
        /\ t.held = [s.held EXCEPT ![p] = nil]
        /\ t.held_by = [s.held_by EXCEPT ![e] = nil]
    BY <2>1, <2>2, <2>3 DEF SameRegistry, SameTree, SameRest
  <2>6. HandsOK(t, on \ {p}) /\ OwnHand(s, t, p)
    BY <1>0, <2>0, <2>5, EmptyHand DEF GInv, SameRegistry, e
  <2>7. TreeOK(t) /\ RegistryOK(t) /\ PlacesOK(t) /\ BoxesOK(t)
    BY <2>5 DEF GInv, TreeOK, RegistryOK, PlacesOK, BoxesOK, SameTree, SameRegistry, SameRest
  <2> QED
    BY <2>4, <2>5, <2>6, <2>7 DEF GInv
<1> QED
  BY <1>1, <1>2

LEMMA PieceDropInv ==
    ASSUME NEW s, NEW on, GInv(s, on), NEW p \in Player, p \in on,
           NEW e \in Pieces, s.r_objects[e] /= 0,
           NEW t, t = PieceDrop(s, e, p)
    PROVE  GInv(t, on) /\ OwnHand(s, t, p) /\ Effect(t, s)
<1> DEFINE b == s.parent[e]
           u == BoardDrop(s, b, p)
<1>0. e \in Entity /\ e \in Tokens /\ b \in Fields \cup Boards /\ s.r_objects[b] /= 0
  BY DEF GInv, PlacesOK, Pieces, Tokens
<1>1. b /= nil
  BY GameAssumption, <1>0 DEF Fields, Boards, Object
<1>2. CASE Class[b] /= "chess.Board"
  <2>1. t = s
    BY <1>1, <1>2 DEF PieceDrop
  <2> QED
    BY <2>1, EffectSame DEF OwnHand
<1>3. CASE Class[b] = "chess.Board"
  <2>1. t = TokenPickup(u, e, p)
    BY <1>1, <1>3 DEF PieceDrop
  <2>2. GInv(u, on) /\ OwnHand(s, u, p) /\ SameRegistry(u, s) /\ Effect(u, s)
    BY <1>0, BoardDropInv
  <2> HIDE DEF u
  <2>3. /\ GInv(t, on) /\ OwnHand(u, t, p)
        /\ SameRegistry(t, u) /\ SameTree(t, u) /\ SameRest(t, u)
    BY <1>0, <2>1, <2>2, TokenPickupInv DEF SameRegistry
  <2>4. Effect(t, s)
    BY <2>2, <2>3, EffectThen DEF SameRegistry, SameTree, SameRest
  <2> QED
    BY <2>2, <2>3, <2>4, OwnHandTrans
<1> QED
  BY <1>2, <1>3

\* Between dispatches a pile has no children.
LEMMA PileEmpty ==
    ASSUME NEW s \in State, TreeOK(s), PlacesOK(s), NEW e \in Piles
    PROVE  s.children[e] = <<>>
<1>1. e \in Entity /\ e \notin Fields \cup Boards /\ e /= nil
  BY GameAssumption DEF Piles, Fields, Boards, Object
<1>2. Range(s.children[e]) = {}
  BY <1>1 DEF TreeOK, PlacesOK
<1>3. s.children[e] \in Seq(Entity)
  BY <1>1 DEF State
<1>4. Len(s.children[e]) = 0
  <2> SUFFICES ASSUME Len(s.children[e]) /= 0 PROVE FALSE
    OBVIOUS
  <2>1. 1 \in DOMAIN s.children[e]
    BY <1>3
  <2> QED
    BY <1>2, <2>1 DEF Range
<1> QED
  BY <1>3, <1>4

LEMMA PileDropInv ==
    ASSUME NEW s, NEW on, GInv(s, on), NEW p \in Player,
           NEW e \in Piles, s.r_objects[e] /= 0, NEW t, t = PileDrop(s, e, p)
    PROVE  GInv(t, on) /\ OwnHand(s, t, p) /\ Effect(t, s)
<1>0. s \in State /\ e \in Entity /\ nil \notin Entity /\ e \notin Stones
  BY GameAssumption DEF GInv, Object, Piles, Stones
<1>1. s.children[e] = <<>>
  BY <1>0, PileEmpty DEF GInv
<1>2. CASE s.held[p] /= nil /\ s.held[p] \notin Stones
  <2>1. t = s
    BY <1>2 DEF PileDrop
  <2> QED
    BY <2>1, EffectSame DEF OwnHand
<1>3. CASE s.held[p] = nil
  <2>1. t = Raise(s)
    BY <1>0, <1>1, <1>3, BoardDropCases DEF PileDrop
  <2>2. /\ t \in State /\ t.count = s.count /\ t.opened = s.opened
        /\ SameRegistry(t, s) /\ SameTree(t, s) /\ SameHands(t, s)
    BY <1>0, <2>1, RaiseFields
  <2>3. Effect(t, s)
    BY <2>2, EffectSame DEF SameRegistry, SameTree
  <2> QED
    BY <2>2, <2>3, GInvSame
<1>4. CASE s.held[p] /= nil /\ s.held[p] \in Stones
  <2> DEFINE x == s.held[p]
             u == PlayerDrop(s, p, e)
             v == MoveTo(u, x, nil)
             w == DeleteObject(v, x)
  <2>1. /\ x \in Entity
        /\ u \in State /\ TreeOK(u)
        /\ SameRegistry(u, s) /\ SameRest(u, s)
        /\ u.held = [s.held EXCEPT ![p] = nil]
        /\ u.held_by = [s.held_by EXCEPT ![x] = nil]
        /\ u.parent = [s.parent EXCEPT ![x] = e]
        /\ e /= s.parent[x] => u.children[e] = Append(s.children[e], x)
    <3>1. TreeOK(s) /\ s.held[p] \in Entity
      BY <1>4 DEF GInv, Stones
    <3>2. u = PlayerDrop(s, p, e)
      OBVIOUS
    <3> HIDE DEF u
    <3> QED
      BY <1>0, <3>1, <3>2, PlayerDropFields
  <2>2. e /= s.parent[x]
    <3>1. e \notin Fields \cup Boards
      BY DEF Piles, Fields, Boards
    <3> QED
      BY <1>0, <2>1, <3>1 DEF GInv, PlacesOK
  <2>3. u.children[e] = <<x>>
    BY <1>1, <2>1, <2>2
  <2>4. t = [w EXCEPT !.count[e] = @ + 1]
    <3>1. BoardDrop(s, e, p) = u
      BY <1>0, <1>4, BoardDropCases
    <3>2. u.children[e] /= <<>> /\ u.children[e][1] = x
      BY <2>3
    <3>3. PileDrop(s, e, p) = [Delete(u, x) EXCEPT !.count[e] = @ + 1]
      <4> HIDE DEF u
      <4> QED
        BY <1>4, <3>1, <3>2 DEF PileDrop
    <3> QED
      BY <3>3 DEF Delete
  <2>5. HandsOK(u, on) /\ OwnHand(s, u, p)
    BY <1>0, <2>1, EmptyHand DEF GInv, SameRegistry
  <2> HIDE DEF u, x
  <2>6. /\ v \in State /\ TreeOK(v)
        /\ SameRegistry(v, u) /\ SameHands(v, u) /\ SameRest(v, u)
        /\ v.parent = [u.parent EXCEPT ![x] = nil]
    <3>1. PICK to \in Entity \cup {nil} : to = nil
      OBVIOUS
    <3>2. v = MoveTo(u, x, to)
      BY <3>1
    <3> HIDE DEF v, w
    <3>3. u \in State /\ TreeOK(u) /\ x \in Entity /\ to \in Entity \cup {nil}
      BY <2>1
    <3>4. /\ v \in State /\ TreeOK(v)
          /\ SameRegistry(v, u) /\ SameHands(v, u) /\ SameRest(v, u)
          /\ v.parent = [u.parent EXCEPT ![x] = to]
      BY ONLY <3>2, <3>3, MoveToFields
    <3> QED
      BY <3>1, <3>4
  <2> HIDE DEF v
  <2>7. /\ w \in State
        /\ SameTree(w, v) /\ SameHands(w, v) /\ SameRest(w, v)
        /\ w.id = v.id
        /\ w.objects = [v.objects EXCEPT ![v.id[x]] = nil]
        /\ w.r_objects = [v.r_objects EXCEPT ![x] = 0]
    BY <2>1, <2>6, DeleteObjectFields DEF Object
  <2> HIDE DEF w
  <2>8. /\ t \in State
        /\ SameRegistry(t, w) /\ SameTree(t, w) /\ SameHands(t, w) /\ t.opened = w.opened
    <3>1. [w.count EXCEPT ![e] = w.count[e] + 1] \in [Piles -> Nat]
      BY <2>7 DEF State
    <3>2. t = [w EXCEPT !.count = [w.count EXCEPT ![e] = w.count[e] + 1]]
      BY <2>4, <2>7 DEF State
    <3> QED
      BY <3>1, <3>2, <2>7 DEF State, SameRegistry, SameTree, SameHands
  <2>9. /\ t.held = u.held /\ t.held_by = u.held_by /\ t.opened = s.opened
        /\ t.id = s.id
        /\ t.objects = [s.objects EXCEPT ![s.id[x]] = nil]
        /\ t.r_objects = [s.r_objects EXCEPT ![x] = 0]
    BY <2>1, <2>6, <2>7, <2>8 DEF SameRegistry, SameHands, SameRest
  <2>10. t.parent = [s.parent EXCEPT ![x] = nil]
    BY <2>1, <2>6, <2>7, <2>8, <1>0 DEF State, SameTree
  <2>11. TreeOK(t)
    BY <2>6, <2>7, <2>8 DEF TreeOK, SameTree
  <2>12. HandsOK(t, on)
    <3>1. u.held_by[x] = nil
      BY <1>0, <2>1 DEF State, Object
    <3>2. \A q \in Player : u.held[q] /= x
      BY <2>1, <2>5, <3>1, GameAssumption DEF HandsOK, Object
    <3>3. u.r_objects = s.r_objects
      BY <2>1 DEF SameRegistry
    <3>4. ASSUME NEW q \in Player, t.held[q] /= nil
          PROVE  q \in on /\ t.held[q] \in Tokens /\ t.r_objects[t.held[q]] /= 0
      <4>1. q \in on /\ t.held[q] \in Tokens /\ s.r_objects[t.held[q]] /= 0 /\ t.held[q] /= x
        BY <3>2, <3>3, <3>4, <2>5, <2>9 DEF HandsOK
      <4>2. t.held[q] \in Object
        BY <4>1 DEF Tokens, Pieces, Stones, Piles, Object
      <4> QED
        BY <1>0, <2>9, <4>1, <4>2 DEF State
    <3> QED
      BY <2>5, <2>9, <3>4 DEF HandsOK
  <2>13. RegistryOK(t)
    <3>1. s.r_objects[x] /= 0
      BY <1>4 DEF GInv, HandsOK, x
    <3>2. x \in Object
      BY <2>1 DEF Object
    <3> QED
      BY <1>0, <2>9, <3>1, <3>2 DEF GInv, RegistryOK, State
  <2>14. x \in Stones /\ x \notin Fields \cup Boards \cup Boxes \cup Pieces
    BY <1>4 DEF x, Stones, Fields, Boards, Boxes, Pieces
  <2>15. PlacesOK(t)
    BY <1>0, <2>1, <2>9, <2>10, <2>14 DEF GInv, PlacesOK, State, Object, Fields, Boards
  <2>16. BoxesOK(t)
    BY <1>0, <2>1, <2>9, <2>10, <2>14 DEF GInv, BoxesOK, State, Object, Boxes
  <2>17. OwnHand(s, t, p)
    BY <2>5, <2>9 DEF OwnHand
  <2>18. Effect(t, s)
    <3>1. t.count = [s.count EXCEPT ![e] = s.count[e] + 1]
      <4>1. w.count = s.count
        BY <2>1, <2>6, <2>7 DEF SameRest
      <4>2. t.count = [w.count EXCEPT ![e] = w.count[e] + 1]
        BY <2>4, <2>7 DEF State
      <4> QED
        BY <4>1, <4>2
    <3>2. s.r_objects[x] /= 0 /\ s.held_by[x] = p /\ p /= nil
      BY <1>4, <2>1, GameAssumption DEF GInv, HandsOK, x, Object
    <3>3. \A y \in Object : t.r_objects[y] = IF y = x THEN 0 ELSE s.r_objects[y]
      BY <1>0, <2>9 DEF State
    <3>4. Stays(t, s)
      BY <1>0, <2>1, <2>10, <3>2, <3>3 DEF Stays, State, Object
    <3>5. Stones \subseteq Object /\ Piles \subseteq Object /\ x \notin Piles
      BY <2>14 DEF Stones, Piles, Object
    <3>6. Stocked(t) = Stocked(s) /\ e \in Stocked(s)
      BY <3>3, <3>5 DEF Stocked
    <3>7. Live(t) = Live(s) \ {x} /\ x \in Live(s)
      BY <2>14, <3>2, <3>3, <3>5 DEF Live
    <3>8. Moved(t, s)
      BY <2>14, <3>1, <3>6, <3>7 DEF Moved
    <3> QED
      BY <3>4, <3>8 DEF Effect
  <2> QED
    BY <2>8, <2>11, <2>12, <2>13, <2>15, <2>16, <2>17, <2>18 DEF GInv
<1> QED
  BY <1>2, <1>3, <1>4

\* A new object is registered under an id that is free.
LEMMA AddObjectRegistry ==
    ASSUME NEW s \in State, RegistryOK(s),
           NEW o \in Object, s.id[o] = 0, NEW i \in Id, s.objects[i] = nil,
           NEW t, t = AddObject(s, o, i)
    PROVE  RegistryOK(t) /\ s.r_objects[o] = 0
<1>5. i /= 0
  BY DEF Id
<1>6. /\ t \in State
      /\ \A x \in Object : t.id[x] = IF x = o THEN i ELSE s.id[x]
      /\ \A x \in Object : t.r_objects[x] = IF x = o THEN i ELSE s.r_objects[x]
      /\ \A j \in Id : t.objects[j] = IF j = i THEN o ELSE s.objects[j]
  BY AddObjectFields
<1>7. s.r_objects[o] = 0
  BY DEF RegistryOK
<1>0. nil \notin Object
  BY GameAssumption
<1>1. ASSUME NEW j \in Id, t.objects[j] /= nil PROVE t.r_objects[t.objects[j]] = j
  <2>1. CASE j = i
    BY <2>1, <1>5, <1>6 DEF State
  <2>2. CASE j /= i
    <3>1. t.objects[j] = s.objects[j] /\ s.objects[j] \in Object
      BY <2>2, <1>1, <1>5, <1>6 DEF State
    <3>2. s.r_objects[s.objects[j]] = j
      BY <1>1, <3>1 DEF GInv, RegistryOK
    <3>3. j /= 0
      BY DEF Id
    <3> QED
      BY <3>1, <3>2, <3>3, <1>5, <1>6, <1>7 DEF State
  <2> QED
    BY <2>1, <2>2
<1>2. ASSUME NEW x \in Object, t.r_objects[x] /= 0
      PROVE  t.objects[t.r_objects[x]] = x /\ t.r_objects[x] = t.id[x]
  <2>1. CASE x = o
    BY <2>1, <1>5, <1>6 DEF State
  <2>2. CASE x /= o
    <3>1. t.r_objects[x] = s.r_objects[x] /\ t.id[x] = s.id[x]
      BY <2>2, <1>5, <1>6 DEF State
    <3>2. s.objects[s.r_objects[x]] = x /\ s.r_objects[x] = s.id[x]
      BY <1>2, <3>1 DEF GInv, RegistryOK
    <3>3. s.r_objects[x] \in Id /\ s.r_objects[x] /= i
      BY <1>0, <1>2, <3>1, <3>2, <1>5 DEF State
    <3> QED
      BY <3>1, <3>2, <3>3, <1>5, <1>6 DEF State
  <2> QED
    BY <2>1, <2>2
<1> QED
  BY <1>1, <1>2 DEF RegistryOK

\* Players and stones that are only registered take no place.
LEMMA AddObjectPlaces ==
    ASSUME NEW s \in State, RegistryOK(s), PlacesOK(s), BoxesOK(s),
           NEW o \in Player \cup Stones, s.id[o] = 0, NEW i \in Id, s.objects[i] = nil,
           NEW t, t = AddObject(s, o, i)
    PROVE  PlacesOK(t) /\ BoxesOK(t)
<1>0. o \in Object /\ i /= 0
  BY DEF Object, Stones, Id
<1>1. /\ t \in State
      /\ SameTree(t, s) /\ SameHands(t, s) /\ SameRest(t, s)
      /\ \A x \in Object : t.id[x] = IF x = o THEN i ELSE s.id[x]
      /\ \A x \in Object : t.r_objects[x] = IF x = o THEN i ELSE s.r_objects[x]
      /\ \A j \in Id : t.objects[j] = IF j = i THEN o ELSE s.objects[j]
  BY <1>0, AddObjectFields
<1>2. s.r_objects[o] = 0
  BY <1>0 DEF RegistryOK
<1>6. ASSUME NEW e \in Entity
      PROVE  /\ s.r_objects[e] /= 0 => t.r_objects[e] /= 0
             /\ e \notin Stones => t.r_objects[e] = s.r_objects[e] /\ t.id[e] = s.id[e]
             /\ t.r_objects[e] = 0 => s.r_objects[e] = 0
  BY <1>0, <1>1, <1>2, GameAssumption DEF State, Object
<1>7. PlacesOK(t)
  <2> SUFFICES ASSUME NEW e \in Entity
        PROVE  /\ t.r_objects[e] = 0 => t.parent[e] = nil
               /\ t.parent[e] \in Fields \cup Boards \cup {nil}
               /\ t.parent[e] /= nil => t.r_objects[t.parent[e]] /= 0
               /\ e \in Fields => t.parent[e] = nil
               /\ e \in Boards \cup Boxes => t.parent[e] \in Fields \cup {nil}
               /\ e \in Pieces /\ t.r_objects[e] /= 0 => t.parent[e] /= nil
    BY DEF PlacesOK
  <2>1. t.parent = s.parent
    BY <1>1 DEF SameTree
  <2>2. s.parent[e] \in Entity \cup {nil}
    BY DEF State
  <2>3. e \in Pieces => e \notin Stones
    BY DEF Pieces, Stones
  <2> QED
    BY <1>6, <2>1, <2>2, <2>3 DEF PlacesOK
<1>8. BoxesOK(t)
  <2> SUFFICES ASSUME NEW b \in Boxes, b \notin t.opened
        PROVE  /\ t.r_objects[b] /= 0
               /\ t.parent[b] \in Entity
               /\ \A e \in Range(Contents[b]) : t.id[e] = 0
    BY DEF BoxesOK
  <2>1. b \in Entity /\ b \notin s.opened /\ t.parent = s.parent
    BY <1>1 DEF Boxes, SameRest, SameTree
  <2>2. Contents[b] \in Scripts /\ Contents[b] \in Seq(Entity)
    BY ScriptAssumption DEF Scripts
  <2>3. Range(Contents[b]) \subseteq Entity /\ Range(Contents[b]) \cap Stones = {}
    BY <2>2, ScriptAssumption DEF Range
  <2> QED
    BY <1>6, <2>1, <2>3 DEF BoxesOK
<1> QED
  BY <1>7, <1>8

\* Registering a new player or a new stone under an id from a border.
LEMMA AddObjectInv ==
    ASSUME NEW s, NEW on, GInv(s, on), NEW p,
           NEW o \in Player \cup Stones, s.id[o] = 0,
           NEW i \in BordersNext(Occupied(s)),
           NEW t, t = AddObject(s, o, i)
    PROVE  /\ GInv(t, on) /\ OwnHand(s, t, p) /\ SameRest(t, s) /\ SameTree(t, s)
           /\ s.r_objects[o] = 0 /\ t.r_objects[o] /= 0
           /\ \A x \in Object : x /= o => t.r_objects[x] = s.r_objects[x]
<1>0. s \in State /\ o \in Object /\ i \in Id /\ s.objects[i] = nil
  BY DEF GInv, Object, Stones, BordersNext, Occupied
<1>1. /\ t \in State
      /\ SameTree(t, s) /\ SameHands(t, s) /\ SameRest(t, s)
      /\ \A x \in Object : t.id[x] = IF x = o THEN i ELSE s.id[x]
      /\ \A x \in Object : t.r_objects[x] = IF x = o THEN i ELSE s.r_objects[x]
      /\ \A j \in Id : t.objects[j] = IF j = i THEN o ELSE s.objects[j]
  BY <1>0, AddObjectFields
<1>a. i /= 0
  BY <1>0 DEF Id
<1>2. s.r_objects[o] = 0
  BY <1>0 DEF GInv, RegistryOK
<1>3. TreeOK(t)
  BY <1>1 DEF GInv, TreeOK, SameTree
<1>4. HandsOK(t, on)
  <2>1. ASSUME NEW q \in Player, t.held[q] /= nil
        PROVE  q \in on /\ t.held[q] \in Tokens /\ t.r_objects[t.held[q]] /= 0
    <3>1. q \in on /\ t.held[q] \in Tokens /\ s.r_objects[t.held[q]] /= 0
      BY <1>1, <2>1 DEF GInv, HandsOK, SameHands
    <3>2. t.held[q] \in Object
      BY <3>1 DEF Tokens, Pieces, Stones, Piles, Object
    <3> QED
      BY <1>0, <1>a, <1>1, <3>1, <3>2 DEF State
  <2> QED
    BY <1>1, <2>1 DEF GInv, HandsOK, SameHands
<1>5. RegistryOK(t)
  BY <1>0, AddObjectRegistry DEF GInv
<1>6. PlacesOK(t) /\ BoxesOK(t)
  BY <1>0, AddObjectPlaces DEF GInv
<1>9. OwnHand(s, t, p)
  BY <1>1 DEF OwnHand, SameHands
<1> QED
  BY <1>0, <1>a, <1>1, <1>2, <1>3, <1>4, <1>5, <1>6, <1>9 DEF GInv, State

LEMMA AddPlayerInv ==
    ASSUME NEW s, NEW on, GInv(s, on), NEW p \in Player, NEW i \in PlayerIds(s, p),
           NEW t, t = AddPlayer(s, p, i)
    PROVE  GInv(t, on \cup {p}) /\ OwnHand(s, t, p) /\ Effect(t, s)
<1> DEFINE u == IF s.id[p] = 0 THEN AddObject(s, p, i) ELSE s
<1>1. GInv(u, on) /\ OwnHand(s, u, p) /\ Effect(u, s)
  <2>1. CASE s.id[p] = 0
    <3>1. i \in BordersNext(Occupied(s)) /\ u = AddObject(s, p, i)
      BY <2>1 DEF PlayerIds
    <3> HIDE DEF u
    <3>2. /\ GInv(u, on) /\ OwnHand(s, u, p) /\ SameRest(u, s) /\ SameTree(u, s)
          /\ \A x \in Object : x /= p => u.r_objects[x] = s.r_objects[x]
      BY <2>1, <3>1, AddObjectInv
    <3>3. \A x \in Entity : u.r_objects[x] = s.r_objects[x]
      BY <3>2, GameAssumption DEF Object
    <3>4. Stays(u, s)
      BY <3>2, <3>3 DEF Stays, SameTree
    <3>5. Stocked(u) = Stocked(s) /\ Live(u) = Live(s) /\ u.count = s.count
      BY <3>2, <3>3 DEF Stocked, Live, Stones, Piles, SameRest
    <3> QED
      BY <3>2, <3>4, <3>5 DEF Effect, Moved
  <2>2. CASE s.id[p] /= 0
    BY <2>2, EffectSame DEF OwnHand
  <2> QED
    BY <2>1, <2>2
<1>2. t = Send(u, GameRef, "addPlayer", RefTo(u, p))
  BY DEF AddPlayer
<1> HIDE DEF u
<1>3. u \in State /\ RefTo(u, p) \in Ref
  BY <1>1, RefToType DEF GInv, Object
<1>4. /\ t \in State
      /\ SameRegistry(t, u) /\ SameTree(t, u) /\ SameHands(t, u) /\ SameRest(t, u)
  BY <1>2, <1>3, FixedRefs, SendFields DEF Method
<1>5. GInv(t, on) /\ OwnHand(u, t, p)
  BY <1>1, <1>4, GInvSame DEF SameRest
<1>6. Effect(t, s)
  BY <1>1, <1>4, EffectThen DEF SameRegistry, SameTree, SameRest
<1> QED
  BY <1>1, <1>5, <1>6, GInvMoreOnline, OwnHandTrans

LEMMA TakeItemInv ==
    ASSUME NEW s, NEW on, GInv(s, on), NEW p \in Player, p \in on, NEW e \in Piles,
           NEW x \in Stones, s.id[x] = 0, NEW i \in BordersNext(Occupied(s)),
           s.r_objects[e] /= 0, NEW t, t = TakeItem(s, e, p, x, i)
    PROVE  GInv(t, on) /\ OwnHand(s, t, p) /\ Effect(t, s)
<1>1. CASE ~(s.count[e] > 0)
  <2>1. t = s
    BY <1>1 DEF TakeItem
  <2> QED
    BY <2>1, EffectSame DEF OwnHand
<1>2. CASE s.count[e] > 0
  <2> DEFINE u == AddObject(s, x, i)
             v == TokenPickup(u, x, p)
  <2>1. t = [v EXCEPT !.count[e] = @ - 1]
    BY <1>2 DEF TakeItem
  <2>2. /\ GInv(u, on) /\ OwnHand(s, u, p) /\ SameRest(u, s) /\ SameTree(u, s)
        /\ s.r_objects[x] = 0 /\ u.r_objects[x] /= 0
        /\ \A y \in Object : y /= x => u.r_objects[y] = s.r_objects[y]
    BY AddObjectInv
  <2> HIDE DEF u
  <2>3. /\ GInv(v, on) /\ OwnHand(u, v, p)
        /\ SameRegistry(v, u) /\ SameTree(v, u) /\ SameRest(v, u)
    BY <2>2, TokenPickupInv DEF Tokens
  <2> HIDE DEF v
  <2>4. v.count = s.count
    BY <2>2, <2>3 DEF SameRest
  <2>5. [v.count EXCEPT ![e] = v.count[e] - 1] \in [Piles -> Nat]
    BY <1>2, <2>3, <2>4 DEF GInv, State
  <2>6. t = [v EXCEPT !.count = [v.count EXCEPT ![e] = v.count[e] - 1]]
    BY <2>1, <2>3 DEF GInv, State
  <2>7. /\ t \in State
        /\ SameRegistry(t, v) /\ SameTree(t, v) /\ SameHands(t, v)
        /\ t.opened = v.opened /\ t.count = [v.count EXCEPT ![e] = v.count[e] - 1]
    BY <2>3, <2>5, <2>6 DEF GInv, State, SameRegistry, SameTree, SameHands
  <2>8. GInv(t, on) /\ OwnHand(v, t, p)
    BY <2>3, <2>7, GInvSame
  <2>9. Effect(t, s)
    <3>1. t.count = [s.count EXCEPT ![e] = s.count[e] - 1]
      BY <2>4, <2>7
    <3>2. t.r_objects = u.r_objects /\ t.parent = s.parent
      BY <2>2, <2>3, <2>7 DEF SameRegistry, SameTree
    <3>3. Stones \subseteq Object /\ Piles \subseteq Object /\ x \notin Piles
          /\ Entity \subseteq Object
      BY DEF Stones, Piles, Object
    <3>4. Stays(t, s)
      BY <2>2, <3>2, <3>3 DEF Stays
    <3>5. Stocked(t) = Stocked(s) /\ e \in Stocked(s)
      BY <2>2, <3>2, <3>3 DEF Stocked
    <3>6. Live(t) = Live(s) \cup {x} /\ x \notin Live(s)
      BY <2>2, <3>2, <3>3 DEF Live
    <3>7. Moved(t, s)
      BY <3>1, <3>5, <3>6 DEF Moved
    <3> QED
      BY <3>4, <3>7 DEF Effect
  <2> QED
    BY <2>2, <2>3, <2>8, <2>9, OwnHandTrans
<1> QED
  BY <1>1, <1>2

-----------------------------------------------------------------------------
(***************************************************************************)
(* Box scripts.                                                            *)
(***************************************************************************)

LEMMA ScriptFacts ==
    ASSUME NEW c \in Scripts
    PROVE  /\ c \in Seq(Entity)
           /\ DOMAIN c = 1..Len(c) /\ Len(c) \in Nat
           /\ \A k \in 1..Len(c) : c[k] \in Range(c)
           /\ Range(c) \subseteq Entity
           /\ Range(c) \cap Stones = {}
           /\ \A e \in Range(c) : Home[e] \in Range(c) \cup {nil}
           /\ \A e \in Entity : Home[e] \in Range(c) => e \in Range(c)
<1>1. c \in Seq(Entity)
  BY ScriptAssumption DEF Scripts
<1>2. DOMAIN c = 1..Len(c) /\ Len(c) \in Nat
  BY <1>1
<1>3. \A k \in 1..Len(c) : c[k] \in Range(c)
  BY <1>2 DEF Range
<1>4. Range(c) \subseteq Entity
  BY <1>1 DEF Range
<1> QED
  BY <1>1, <1>2, <1>3, <1>4, ScriptAssumption

LEMMA ScriptIdsFacts ==
    ASSUME NEW s, NEW c \in Scripts, NEW ids \in ScriptIds(s, c)
    PROVE  /\ ids \in [Range(c) -> Id]
           /\ \A e \in Range(c) : s.objects[ids[e]] = nil
           /\ \A e \in Range(c), f \in Range(c) : ids[e] = ids[f] => e = f
<1>1. ids \in [Range(c) -> Id \ Occupied(s)]
  BY DEF ScriptIds
<1>2. \A k \in DOMAIN c : \A j \in 1..(k - 1) : ids[c[k]] /= ids[c[j]]
  BY DEF ScriptIds, BordersNext
<1>3. ASSUME NEW e \in Range(c), NEW f \in Range(c), ids[e] = ids[f] PROVE e = f
  <2>1. PICK k \in 1..Len(c), j \in 1..Len(c) : e = c[k] /\ f = c[j]
    BY ScriptFacts DEF Range
  <2>2. ~(j < k)
    <3> SUFFICES ASSUME j < k PROVE FALSE
      OBVIOUS
    <3>1. k \in DOMAIN c /\ j \in 1..(k - 1)
      BY ScriptFacts
    <3> QED
      BY <1>2, <1>3, <2>1, <3>1
  <2>3. ~(k < j)
    <3> SUFFICES ASSUME k < j PROVE FALSE
      OBVIOUS
    <3>1. j \in DOMAIN c /\ k \in 1..(j - 1)
      BY ScriptFacts
    <3> QED
      BY <1>2, <1>3, <2>1, <3>1
  <2>4. k = j
    BY <2>2, <2>3, ScriptFacts
  <2> QED
    BY <2>1, <2>4
<1>4. \A e \in Range(c) : s.objects[ids[e]] = nil
  BY <1>1 DEF Occupied
<1> QED
  BY <1>1, <1>3, <1>4

LEMMA ScriptMessagesType ==
    ASSUME NEW c \in Scripts, NEW ids \in [Range(c) -> Id]
    PROVE  ScriptMessages(c, ids) \in Seq(Message)
<1> DEFINE m(k) == ScriptMessages(c, ids)[k]
           ref(x) == [tag |-> "O", id |-> ids[x], obj |-> x]
<1>1. ASSUME NEW x \in Range(c) PROVE ref(x) \in Ref /\ [ref(x) EXCEPT !.tag = "C"] \in Ref
  BY ScriptFacts DEF Ref, Object
<1>2. ASSUME NEW k \in 1..(2 * Len(c)) PROVE c[(k + 1) \div 2] \in Range(c)
  <2>1. Len(c) \in Nat
    BY ScriptFacts
  <2>2. (k + 1) \div 2 \in 1..Len(c)
    BY <2>1
  <2> QED
    BY <2>2, ScriptFacts
<1>3. ASSUME NEW k \in 1..(2 * Len(c))
      PROVE  (LET e == c[(k + 1) \div 2]
              IN  CASE k % 2 = 1 -> [self |-> GameRef, method |-> "addObject",
                                     arg |-> [ref(e) EXCEPT !.tag = "C"]]
                    [] k % 2 = 0 /\ Home[e] = nil
                                 -> [self |-> GameRef, method |-> "addObject", arg |-> ref(e)]
                    [] OTHER -> [self |-> ref(e), method |-> "moveto", arg |-> ref(Home[e])])
             \in Message
  <2> DEFINE e == c[(k + 1) \div 2]
  <2>1. e \in Range(c) /\ Home[e] \in Range(c) \cup {nil}
    BY <1>2, ScriptFacts
  <2>2. ref(e) \in Ref /\ [ref(e) EXCEPT !.tag = "C"] \in Ref /\ GameRef \in Ref
    BY <1>1, <2>1, FixedRefs
  <2>3. k % 2 = 1 \/ k % 2 = 0
    BY ScriptFacts
  <2> HIDE DEF e, ref
  <2>4. CASE k % 2 = 1
    BY <2>2, <2>4 DEF Message, Method, e
  <2>5. CASE k % 2 = 0 /\ Home[e] = nil
    BY <2>2, <2>5 DEF Message, Method, e
  <2>6. CASE k % 2 = 0 /\ Home[e] /= nil
    <3>1. ref(Home[e]) \in Ref
      BY <1>1, <2>1, <2>6
    <3> QED
      BY <2>2, <2>6, <3>1 DEF Message, Method, e
  <2> QED
    BY <2>3, <2>4, <2>5, <2>6
<1>4. 2 * Len(c) \in Nat
  BY ScriptFacts
<1>5. ScriptMessages(c, ids) \in [1..(2 * Len(c)) -> Message]
  BY <1>3, Zenon DEF ScriptMessages
<1> QED
  BY <1>4, <1>5

\* What a script does to the tables.
LEMMA RunScriptFields ==
    ASSUME NEW s \in State, NEW c \in Scripts, NEW ids \in ScriptIds(s, c),
           NEW t, t = RunScript(s, c, ids)
    PROVE  /\ t \in State
           /\ SameHands(t, s) /\ SameRest(t, s)
           /\ \A o \in Object : t.id[o] = IF o \in Range(c) THEN ids[o] ELSE s.id[o]
           /\ \A o \in Object :
                 t.r_objects[o] = IF o \in Range(c) THEN ids[o] ELSE s.r_objects[o]
           /\ \A i \in Id : (\A e \in Range(c) : ids[e] /= i) => t.objects[i] = s.objects[i]
           /\ \A e \in Range(c) : t.objects[ids[e]] = e
           /\ \A e \in Entity : t.parent[e] = IF e \in Range(c) THEN Home[e] ELSE s.parent[e]
           /\ \A e \in Entity :
                 t.children[e] = IF e \in Range(c) THEN Layout[e] ELSE s.children[e]
<1> DEFINE id1  == [o \in Object |-> IF o \in Range(c) THEN ids[o] ELSE s.id[o]]
           r1   == [o \in Object |-> IF o \in Range(c) THEN ids[o] ELSE s.r_objects[o]]
           at(i) == CHOOSE e \in Range(c) : ids[e] = i
           ob1  == [i \in Id |-> IF \E e \in Range(c) : ids[e] = i THEN at(i) ELSE s.objects[i]]
           pa1  == [e \in Entity |-> IF e \in Range(c) THEN Home[e] ELSE s.parent[e]]
           ch1  == [e \in Entity |-> IF e \in Range(c) THEN Layout[e] ELSE s.children[e]]
           out1 == s.out \o ScriptMessages(c, ids)
<1>1. /\ ids \in [Range(c) -> Id]
      /\ \A e \in Range(c), f \in Range(c) : ids[e] = ids[f] => e = f
  BY ScriptIdsFacts
<1>2. Range(c) \subseteq Entity /\ Range(c) \subseteq Object
  BY ScriptFacts DEF Object
<1>3. id1 \in [Object -> Id \cup {0}] /\ r1 \in [Object -> Id \cup {0}]
  BY <1>1, <1>2 DEF State
<1>4. \A i \in Id : (\E e \in Range(c) : ids[e] = i) => at(i) \in Range(c) /\ ids[at(i)] = i
  OBVIOUS
<1>5. ob1 \in [Id -> Object \cup {nil}]
  <2> HIDE DEF at
  <2> QED
    BY <1>2, <1>4 DEF State
<1>6. \A e \in Range(c) : ob1[ids[e]] = e
  <2> SUFFICES ASSUME NEW e \in Range(c) PROVE ob1[ids[e]] = e
    OBVIOUS
  <2>1. ids[e] \in Id
    BY <1>1
  <2>2. at(ids[e]) \in Range(c) /\ ids[at(ids[e])] = ids[e]
    BY <1>4, <2>1
  <2>3. ob1[ids[e]] = at(ids[e])
    BY <2>1
  <2> HIDE DEF at, ob1
  <2> QED
    BY <1>1, <2>2, <2>3
<1>7. pa1 \in [Entity -> Entity \cup {nil}] /\ ch1 \in [Entity -> Seq(Entity)]
  BY ScriptAssumption DEF State
<1>8. out1 \in Seq(Message)
  BY <1>1, ScriptMessagesType, ConcatProperties DEF State
<1>9. t = [s EXCEPT !.id = id1, !.r_objects = r1, !.objects = ob1, !.parent = pa1,
                    !.children = ch1, !.out = out1]
  BY DEF RunScript, State
<1>10. /\ \A o \in Object : id1[o] = IF o \in Range(c) THEN ids[o] ELSE s.id[o]
       /\ \A o \in Object : r1[o] = IF o \in Range(c) THEN ids[o] ELSE s.r_objects[o]
       /\ \A i \in Id : (\A e \in Range(c) : ids[e] /= i) => ob1[i] = s.objects[i]
       /\ \A e \in Entity : pa1[e] = IF e \in Range(c) THEN Home[e] ELSE s.parent[e]
       /\ \A e \in Entity : ch1[e] = IF e \in Range(c) THEN Layout[e] ELSE s.children[e]
  OBVIOUS
<1> HIDE DEF id1, r1, ob1, pa1, ch1, out1
<1>11. /\ t \in State
       /\ SameHands(t, s) /\ SameRest(t, s)
       /\ t.id = id1 /\ t.r_objects = r1 /\ t.objects = ob1
       /\ t.parent = pa1 /\ t.children = ch1
  BY <1>3, <1>5, <1>7, <1>8, <1>9 DEF State, SameHands, SameRest
<1> QED
  BY <1>6, <1>10, <1>11

\* What has a place is registered, and so is the place.
Rooted(s) ==
    \A e \in Entity : /\ s.r_objects[e] = 0 => s.parent[e] = nil
                      /\ s.parent[e] /= nil => s.r_objects[s.parent[e]] /= 0

\* A script extends the tree and the registry.
LEMMA RunScriptTables ==
    ASSUME NEW s \in State, TreeOK(s), RegistryOK(s), Rooted(s), NEW c \in Scripts,
           NEW ids \in ScriptIds(s, c),
           \A e \in Range(c) : s.id[e] = 0,
           NEW t, t = RunScript(s, c, ids)
    PROVE  /\ TreeOK(t) /\ RegistryOK(t)
           /\ \A e \in Range(c) : s.r_objects[e] = 0 /\ s.parent[e] = nil /\ ids[e] /= 0
           /\ \A e \in Entity : s.parent[e] \notin Range(c)
<1>0. s \in State /\ nil \notin Object /\ nil \notin Entity /\ Player \cap Entity = {}
  BY GameAssumption DEF Object
<1>1. /\ t \in State
      /\ SameHands(t, s) /\ SameRest(t, s)
      /\ \A o \in Object : t.id[o] = IF o \in Range(c) THEN ids[o] ELSE s.id[o]
      /\ \A o \in Object :
            t.r_objects[o] = IF o \in Range(c) THEN ids[o] ELSE s.r_objects[o]
      /\ \A i \in Id : (\A e \in Range(c) : ids[e] /= i) => t.objects[i] = s.objects[i]
      /\ \A e \in Range(c) : t.objects[ids[e]] = e
      /\ \A e \in Entity : t.parent[e] = IF e \in Range(c) THEN Home[e] ELSE s.parent[e]
      /\ \A e \in Entity :
            t.children[e] = IF e \in Range(c) THEN Layout[e] ELSE s.children[e]
  <2>1. t = RunScript(s, c, ids)
    OBVIOUS
  <2> QED
    BY ONLY <1>0, <2>1, RunScriptFields, c \in Scripts, ids \in ScriptIds(s, c)
<1>2. /\ Range(c) \subseteq Entity /\ Range(c) \subseteq Object
      /\ Range(c) \cap Stones = {}
      /\ \A e \in Range(c) : Home[e] \in Range(c) \cup {nil}
      /\ \A e \in Entity : Home[e] \in Range(c) => e \in Range(c)
  BY ScriptFacts DEF Object
<1>3. /\ ids \in [Range(c) -> Id]
      /\ \A e \in Range(c) : s.objects[ids[e]] = nil
      /\ \A e \in Range(c), f \in Range(c) : ids[e] = ids[f] => e = f
  BY ScriptIdsFacts
<1>4. \A e \in Range(c) : s.r_objects[e] = 0 /\ s.parent[e] = nil
  BY <1>2 DEF RegistryOK, Rooted
<1>5. \A e \in Range(c) : ids[e] /= 0
  BY <1>3 DEF Id
<1>6. \A e \in Entity : s.parent[e] \notin Range(c)
  BY <1>0, <1>2, <1>4 DEF Rooted
<1>7. TreeOK(t)
  <2> SUFFICES ASSUME NEW e \in Entity
               PROVE  /\ Range(t.children[e]) = {x \in Entity : t.parent[x] = e}
                      /\ IsInjective(t.children[e])
    BY DEF TreeOK
  <2>1. CASE e \in Range(c)
    <3>1. t.children[e] = Layout[e]
      BY <1>1, <2>1
    <3>2. \A x \in Entity : t.parent[x] = e <=> Home[x] = e
      BY <1>1, <1>2, <1>6, <2>1
    <3>3. Range(Layout[e]) = {x \in Entity : Home[x] = e} /\ IsInjective(Layout[e])
      BY ScriptAssumption
    <3> QED
      BY <3>1, <3>2, <3>3
  <2>2. CASE e \notin Range(c)
    <3>1. t.children[e] = s.children[e]
      BY <1>1, <2>2
    <3>2. \A x \in Entity : t.parent[x] = e <=> s.parent[x] = e
      BY <1>0, <1>1, <1>2, <1>4, <2>2
    <3>3. Range(s.children[e]) = {x \in Entity : s.parent[x] = e}
          /\ IsInjective(s.children[e])
      BY DEF TreeOK
    <3> QED
      BY <3>1, <3>2, <3>3
  <2> QED
    BY <2>1, <2>2
<1>8. RegistryOK(t)
  <2>1. ASSUME NEW i \in Id, t.objects[i] /= nil PROVE t.r_objects[t.objects[i]] = i
    <3>1. CASE \E e \in Range(c) : ids[e] = i
      <4>1. PICK e \in Range(c) : ids[e] = i
        BY <3>1
      <4> QED
        BY <4>1, <1>1, <1>2
    <3>2. CASE ~ \E e \in Range(c) : ids[e] = i
      <4>1. t.objects[i] = s.objects[i] /\ s.objects[i] \in Object
        <5>1. t.objects[i] = s.objects[i]
          BY <3>2, <1>1
        <5> QED
          BY <5>1, <2>1, <1>0 DEF State
      <4>2. s.r_objects[s.objects[i]] = i /\ i /= 0
        BY <2>1, <4>1 DEF RegistryOK, Id
      <4> QED
        BY <4>1, <4>2, <1>1, <1>4
    <3> QED
      BY <3>1, <3>2
  <2>2. ASSUME NEW x \in Object, t.r_objects[x] /= 0
        PROVE  t.objects[t.r_objects[x]] = x /\ t.r_objects[x] = t.id[x]
    <3>1. CASE x \in Range(c)
      BY <3>1, <1>1
    <3>2. CASE x \notin Range(c)
      <4>1. t.r_objects[x] = s.r_objects[x] /\ t.id[x] = s.id[x]
        BY <3>2, <1>1
      <4>2. s.objects[s.r_objects[x]] = x /\ s.r_objects[x] = s.id[x]
        BY <2>2, <4>1 DEF RegistryOK
      <4>3. s.r_objects[x] \in Id /\ \A e \in Range(c) : ids[e] /= s.r_objects[x]
        BY <2>2, <4>1, <4>2, <1>0, <1>3 DEF State
      <4> QED
        BY <4>1, <4>2, <4>3, <1>1
    <3> QED
      BY <3>1, <3>2
  <2> QED
    BY <2>1, <2>2 DEF RegistryOK
<1> QED
  BY <1>4, <1>5, <1>6, <1>7, <1>8

LEMMA RunScriptPlaces ==
    ASSUME NEW s \in State, TreeOK(s), RegistryOK(s), PlacesOK(s), NEW c \in Scripts,
           NEW ids \in ScriptIds(s, c),
           \A e \in Range(c) : s.id[e] = 0,
           NEW t, t = RunScript(s, c, ids)
    PROVE  PlacesOK(t)
<1>0. s \in State /\ nil \notin Object /\ nil \notin Entity /\ Player \cap Entity = {}
  BY GameAssumption DEF Object
<1>1. /\ t \in State
      /\ SameHands(t, s) /\ SameRest(t, s)
      /\ \A o \in Object : t.id[o] = IF o \in Range(c) THEN ids[o] ELSE s.id[o]
      /\ \A o \in Object :
            t.r_objects[o] = IF o \in Range(c) THEN ids[o] ELSE s.r_objects[o]
      /\ \A i \in Id : (\A e \in Range(c) : ids[e] /= i) => t.objects[i] = s.objects[i]
      /\ \A e \in Range(c) : t.objects[ids[e]] = e
      /\ \A e \in Entity : t.parent[e] = IF e \in Range(c) THEN Home[e] ELSE s.parent[e]
      /\ \A e \in Entity :
            t.children[e] = IF e \in Range(c) THEN Layout[e] ELSE s.children[e]
  <2>1. t = RunScript(s, c, ids)
    OBVIOUS
  <2> QED
    BY ONLY <1>0, <2>1, RunScriptFields, c \in Scripts, ids \in ScriptIds(s, c)
<1>2. /\ Range(c) \subseteq Entity /\ Range(c) \subseteq Object
      /\ Range(c) \cap Stones = {}
      /\ \A e \in Range(c) : Home[e] \in Range(c) \cup {nil}
      /\ \A e \in Entity : Home[e] \in Range(c) => e \in Range(c)
  BY ScriptFacts DEF Object
<1>3. /\ ids \in [Range(c) -> Id]
      /\ \A e \in Range(c) : s.objects[ids[e]] = nil
      /\ \A e \in Range(c), f \in Range(c) : ids[e] = ids[f] => e = f
  BY ScriptIdsFacts
<1>4. /\ TreeOK(t) /\ RegistryOK(t)
      /\ \A e \in Range(c) : s.r_objects[e] = 0 /\ s.parent[e] = nil
      /\ \A e \in Range(c) : ids[e] /= 0
      /\ \A e \in Entity : s.parent[e] \notin Range(c)
  <2>1. TreeOK(s) /\ RegistryOK(s) /\ Rooted(s)
    BY DEF PlacesOK, Rooted
  <2> QED
    BY <1>0, <2>1, RunScriptTables
<1>5. PlacesOK(t)
  <2> SUFFICES ASSUME NEW e \in Entity
        PROVE  /\ t.r_objects[e] = 0 => t.parent[e] = nil
               /\ t.parent[e] \in Fields \cup Boards \cup {nil}
               /\ t.parent[e] /= nil => t.r_objects[t.parent[e]] /= 0
               /\ e \in Fields => t.parent[e] = nil
               /\ e \in Boards \cup Boxes => t.parent[e] \in Fields \cup {nil}
               /\ e \in Pieces /\ t.r_objects[e] /= 0 => t.parent[e] /= nil
    BY DEF PlacesOK
  <2>0. e \in Object
    BY DEF Object
  <2>1. CASE e \in Range(c)
    <3>1. t.r_objects[e] /= 0 /\ t.parent[e] = Home[e]
      BY <2>0, <2>1, <1>1, <1>4
    <3>2. Home[e] /= nil => t.r_objects[Home[e]] /= 0
      BY <2>1, <1>1, <1>2, <1>4
    <3>3. e \notin Stones
      BY <2>1, <1>2
    <3>4. e \in Fields \cup Boards \cup Boxes \cup Piles \cup Pieces
      BY <3>3, GameAssumption
         DEF ClassName, Fields, Boards, Boxes, Piles, Pieces, Stones
    <3>5. /\ e \in Boxes \cup Boards \cup Piles => Home[e] \in Fields
          /\ e \in Pieces => Home[e] \in Fields \cup Boards
          /\ e \in Fields => Home[e] = nil
      BY ScriptAssumption
    <3>6. e \in Pieces => Home[e] /= nil
      BY <3>5, <1>0 DEF Fields, Boards
    <3> QED
      BY <3>1, <3>2, <3>4, <3>5, <3>6
  <2>2. CASE e \notin Range(c)
    <3>1. t.r_objects[e] = s.r_objects[e] /\ t.parent[e] = s.parent[e]
      BY <2>0, <2>2, <1>1
    <3>2. s.parent[e] /= nil => t.r_objects[s.parent[e]] = s.r_objects[s.parent[e]]
      BY <1>0, <1>1, <1>4 DEF State, Object
    <3> QED
      BY <3>1, <3>2 DEF PlacesOK
  <2> QED
    BY <2>1, <2>2
<1> QED
  BY <1>5

\* The invariant without its part about boxes, which opening a box suspends.
GInvExceptBoxes(s, on) ==
    /\ s \in State
    /\ TreeOK(s)
    /\ HandsOK(s, on)
    /\ RegistryOK(s)
    /\ PlacesOK(s)

LEMMA RunScriptInv ==
    ASSUME NEW s, NEW on, GInvExceptBoxes(s, on), NEW c \in Scripts,
           NEW ids \in ScriptIds(s, c),
           \A e \in Range(c) : s.id[e] = 0,
           NEW t, t = RunScript(s, c, ids)
    PROVE  GInvExceptBoxes(t, on)
<1>0. s \in State /\ nil \notin Object /\ nil \notin Entity /\ Player \cap Entity = {}
  BY GameAssumption DEF GInvExceptBoxes, Object
<1>1. /\ t \in State
      /\ SameHands(t, s) /\ SameRest(t, s)
      /\ \A o \in Object : t.id[o] = IF o \in Range(c) THEN ids[o] ELSE s.id[o]
      /\ \A o \in Object :
            t.r_objects[o] = IF o \in Range(c) THEN ids[o] ELSE s.r_objects[o]
      /\ \A i \in Id : (\A e \in Range(c) : ids[e] /= i) => t.objects[i] = s.objects[i]
      /\ \A e \in Range(c) : t.objects[ids[e]] = e
      /\ \A e \in Entity : t.parent[e] = IF e \in Range(c) THEN Home[e] ELSE s.parent[e]
      /\ \A e \in Entity :
            t.children[e] = IF e \in Range(c) THEN Layout[e] ELSE s.children[e]
  <2>1. t = RunScript(s, c, ids)
    OBVIOUS
  <2> QED
    BY ONLY <1>0, <2>1, RunScriptFields, c \in Scripts, ids \in ScriptIds(s, c)
<1>2. /\ Range(c) \subseteq Entity /\ Range(c) \subseteq Object
      /\ Range(c) \cap Stones = {}
      /\ \A e \in Range(c) : Home[e] \in Range(c) \cup {nil}
      /\ \A e \in Entity : Home[e] \in Range(c) => e \in Range(c)
  BY ScriptFacts DEF Object
<1>3. /\ ids \in [Range(c) -> Id]
      /\ \A e \in Range(c) : s.objects[ids[e]] = nil
      /\ \A e \in Range(c), f \in Range(c) : ids[e] = ids[f] => e = f
  BY ScriptIdsFacts
<1>4. /\ TreeOK(t) /\ RegistryOK(t)
      /\ \A e \in Range(c) : s.r_objects[e] = 0 /\ s.parent[e] = nil
      /\ \A e \in Range(c) : ids[e] /= 0
      /\ \A e \in Entity : s.parent[e] \notin Range(c)
  <2>1. TreeOK(s) /\ RegistryOK(s) /\ Rooted(s)
    BY DEF GInvExceptBoxes, PlacesOK, Rooted
  <2> QED
    BY <1>0, <2>1, RunScriptTables
<1>8. HandsOK(t, on)
  <2>1. ASSUME NEW q \in Player, t.held[q] /= nil
        PROVE  q \in on /\ t.held[q] \in Tokens /\ t.r_objects[t.held[q]] /= 0
    <3>1. q \in on /\ t.held[q] \in Tokens /\ s.r_objects[t.held[q]] /= 0
      BY <1>1, <2>1 DEF GInvExceptBoxes, HandsOK, SameHands
    <3>2. t.held[q] \in Object
      BY <3>1 DEF Tokens, Pieces, Stones, Piles, Object
    <3> QED
      BY <1>1, <1>4, <3>1, <3>2
  <2> QED
    BY <1>1, <2>1 DEF GInvExceptBoxes, HandsOK, SameHands
<1>10. PlacesOK(t)
  BY <1>0, RunScriptPlaces DEF GInvExceptBoxes
<1> QED
  BY <1>1, <1>4, <1>8, <1>10 DEF GInvExceptBoxes

\* Opening a box, step by step: its script runs, and it leaves its field.
LEMMA OpenBoxTables ==
    ASSUME NEW s \in State, TreeOK(s), RegistryOK(s), PlacesOK(s), BoxesOK(s),
           NEW b \in Boxes, b \notin s.opened, NEW c, c = Contents[b],
           NEW ids \in ScriptIds(s, c), NEW u, u = RunScript(s, c, ids),
           NEW t, t = OpenBox(s, b, ids)
    PROVE  /\ t \in State /\ TreeOK(t) /\ RegistryOK(t) /\ PlacesOK(t) /\ BoxesOK(t)
           /\ SameRegistry(t, u) /\ SameHands(t, u) /\ t.out = u.out
           /\ t.count = s.count /\ t.opened = s.opened \cup {b}
           /\ \A e \in Entity : t.parent[e] = IF e = b THEN nil ELSE u.parent[e]
<1> DEFINE v == [u EXCEPT !.opened = @ \cup {b}]
<1>0. /\ b \in Entity /\ b \in Object /\ nil \notin Entity
      /\ s.r_objects[b] /= 0 /\ s.id[b] /= 0
      /\ s.parent[b] \in Entity
      /\ \A e \in Range(c) : s.id[e] = 0
  BY GameAssumption DEF BoxesOK, RegistryOK, Boxes, Object
<1>1. c \in Scripts /\ b \notin Range(c)
  BY <1>0 DEF Scripts
<1>2. t = EntityRemove(v, u.parent[b], b)
  BY DEF OpenBox
<1>3. Rooted(s)
  BY DEF PlacesOK, Rooted
<1>4. /\ TreeOK(u) /\ RegistryOK(u)
      /\ \A e \in Range(c) : s.r_objects[e] = 0 /\ s.parent[e] = nil /\ ids[e] /= 0
      /\ \A e \in Entity : s.parent[e] \notin Range(c)
  BY <1>0, <1>1, <1>3, RunScriptTables
<1>5. /\ u \in State
      /\ SameHands(u, s) /\ SameRest(u, s)
      /\ \A o \in Object : u.id[o] = IF o \in Range(c) THEN ids[o] ELSE s.id[o]
      /\ \A o \in Object :
            u.r_objects[o] = IF o \in Range(c) THEN ids[o] ELSE s.r_objects[o]
      /\ \A i \in Id : (\A e \in Range(c) : ids[e] /= i) => u.objects[i] = s.objects[i]
      /\ \A e \in Range(c) : u.objects[ids[e]] = e
      /\ \A e \in Entity : u.parent[e] = IF e \in Range(c) THEN Home[e] ELSE s.parent[e]
      /\ \A e \in Entity :
            u.children[e] = IF e \in Range(c) THEN Layout[e] ELSE s.children[e]
  BY <1>1, RunScriptFields
<1>6. PlacesOK(u)
  BY <1>0, <1>1, RunScriptPlaces
<1>7. /\ v \in State
      /\ SameRegistry(v, u) /\ SameTree(v, u) /\ SameHands(v, u)
      /\ v.count = u.count /\ v.opened = u.opened \cup {b} /\ v.out = u.out
  BY <1>5 DEF State, SameRegistry, SameTree, SameHands
<1> HIDE DEF v
<1>8. TreeOK(v) /\ v.parent[b] = s.parent[b] /\ u.parent[b] = v.parent[b]
  BY <1>0, <1>1, <1>4, <1>5, <1>7 DEF TreeOK, SameTree
<1>9. /\ t \in State /\ TreeOK(t)
      /\ SameRegistry(t, v) /\ SameHands(t, v) /\ SameRest(t, v)
      /\ t.out = v.out
      /\ t.parent = [v.parent EXCEPT ![b] = nil]
  <2>1. t = EntityRemove(v, v.parent[b], b) /\ v.parent[b] \in Entity /\ b \in Entity
    BY <1>0, <1>2, <1>8
  <2>2. v \in State /\ TreeOK(v)
    BY <1>7, <1>8
  <2>3. /\ t \in State /\ TreeOK(t)
        /\ SameRegistry(t, v) /\ SameHands(t, v) /\ SameRest(t, v)
        /\ t.out = v.out
        /\ t.parent = [v.parent EXCEPT ![b] = nil]
        /\ t.children = [v.children EXCEPT ![v.parent[b]] =
                                              RemoveFirst(v.children[v.parent[b]], b)]
    BY ONLY <2>1, <2>2, EntityRemoveFields
  <2> QED
    BY <2>3
<1>10. /\ SameRegistry(t, u) /\ SameHands(t, u)
       /\ t.count = s.count /\ t.opened = s.opened \cup {b}
       /\ \A e \in Entity : t.parent[e] = IF e = b THEN nil ELSE u.parent[e]
  BY <1>0, <1>5, <1>7, <1>9
     DEF SameRegistry, SameHands, SameRest, SameTree, State
<1>12. RegistryOK(t)
  BY <1>4, <1>10 DEF RegistryOK, SameRegistry
<1>13. PlacesOK(t)
  <2>1. b \notin Pieces
    BY DEF Boxes, Pieces
  <2> QED
    BY <1>6, <1>10, <2>1 DEF PlacesOK, SameRegistry
<1>14. BoxesOK(t)
  <2> SUFFICES ASSUME NEW d \in Boxes, d \notin t.opened
        PROVE  /\ t.r_objects[d] /= 0
               /\ t.parent[d] \in Entity
               /\ \A e \in Range(Contents[d]) : t.id[e] = 0
    BY DEF BoxesOK
  <2>1. d \in Entity /\ d \in Object /\ d /= b /\ d \notin s.opened
    BY <1>10 DEF Boxes, Object
  <2>2. s.r_objects[d] /= 0 /\ s.id[d] /= 0 /\ s.parent[d] \in Entity
        /\ \A e \in Range(Contents[d]) : s.id[e] = 0
    BY <2>1 DEF BoxesOK, RegistryOK
  <2>3. d \notin Range(c)
    BY <1>0, <2>2
  <2>4. t.id = u.id /\ t.r_objects = u.r_objects
    BY <1>10 DEF SameRegistry
  <2>5. t.r_objects[d] /= 0 /\ t.parent[d] \in Entity
    <3>1. u.r_objects[d] = s.r_objects[d] /\ u.parent[d] = s.parent[d]
      BY <1>5, <2>1, <2>3
    <3> QED
      BY <1>10, <2>1, <2>2, <2>4, <3>1
  <2>6. ASSUME NEW e \in Range(Contents[d]) PROVE t.id[e] = 0
    <3>1. e \notin Range(c)
      BY <2>1, ScriptAssumption
    <3>2. e \in Object
      <4>1. Contents[d] \in Scripts
        BY DEF Scripts
      <4> QED
        BY <4>1, ScriptFacts DEF Object
    <3>3. u.id[e] = s.id[e]
      BY <1>5, <3>1, <3>2
    <3> QED
      BY <2>2, <2>4, <3>3
  <2> QED
    BY <2>5, <2>6
<1> QED
  BY <1>7, <1>9, <1>10, <1>12, <1>13, <1>14

LEMMA OpenBoxInv ==
    ASSUME NEW s, NEW on, GInv(s, on), NEW p, NEW b \in Boxes,
           NEW ids \in OpenIds(s, b), NEW t, t = OpenBox(s, b, ids)
    PROVE  GInv(t, on) /\ OwnHand(s, t, p) /\ Effect(t, s)
<1>1. CASE b \in s.opened
  BY <1>1, EffectSame DEF OpenBox, OwnHand
<1>2. CASE b \notin s.opened
  <2>0. PICK c : c = Contents[b]
    OBVIOUS
  <2>1. PICK u : u = RunScript(s, c, ids)
    OBVIOUS
  <2>2. ids \in ScriptIds(s, c) /\ c \in Scripts
    BY <1>2, <2>0 DEF OpenIds, Scripts
  <2>3. s \in State /\ TreeOK(s) /\ RegistryOK(s) /\ PlacesOK(s) /\ BoxesOK(s)
    BY DEF GInv
  <2>4. \A e \in Range(c) : s.id[e] = 0
    BY <1>2, <2>0, <2>3 DEF BoxesOK
  <2>5. /\ SameHands(u, s) /\ SameRest(u, s)
        /\ \A o \in Object : u.id[o] = IF o \in Range(c) THEN ids[o] ELSE s.id[o]
        /\ \A o \in Object :
              u.r_objects[o] = IF o \in Range(c) THEN ids[o] ELSE s.r_objects[o]
        /\ \A e \in Entity : u.parent[e] = IF e \in Range(c) THEN Home[e] ELSE s.parent[e]
    BY <2>1, <2>2, <2>3, RunScriptFields
  <2>6. GInvExceptBoxes(u, on)
    <3>1. GInvExceptBoxes(s, on)
      BY DEF GInv, GInvExceptBoxes
    <3> QED
      BY <2>1, <2>2, <2>4, <3>1, RunScriptInv
  <2>10. /\ t \in State /\ TreeOK(t) /\ RegistryOK(t) /\ PlacesOK(t) /\ BoxesOK(t)
         /\ SameRegistry(t, u) /\ SameHands(t, u) /\ t.out = u.out
         /\ t.count = s.count /\ t.opened = s.opened \cup {b}
         /\ \A e \in Entity : t.parent[e] = IF e = b THEN nil ELSE u.parent[e]
    BY <1>2, <2>0, <2>1, <2>2, <2>3, OpenBoxTables
  <2>11. HandsOK(t, on)
    BY <2>6, <2>10 DEF GInvExceptBoxes, HandsOK, SameHands, SameRegistry
  <2>15. OwnHand(s, t, p)
    BY <2>5, <2>10 DEF OwnHand, SameHands
  <2>16. Effect(t, s)
    <3>1. /\ Range(c) \subseteq Entity /\ Range(c) \cap Stones = {}
          /\ \A e \in Range(c) : ids[e] \in Id
      BY <2>2, ScriptFacts, ScriptIdsFacts
    <3>2. \A e \in Range(c) : ids[e] /= 0
      BY <3>1 DEF Id
    <3>3. \A e \in Range(c) : s.r_objects[e] = 0
      BY <2>3, <2>4, <3>1 DEF RegistryOK, Object
    <3>4. \A e \in Entity :
             t.r_objects[e] = IF e \in Range(c) THEN ids[e] ELSE s.r_objects[e]
      BY <2>5, <2>10 DEF SameRegistry, Object
    <3>5. Stays(t, s)
      BY <2>5, <2>10, <3>2, <3>3, <3>4 DEF Stays, Boxes
    <3>6. Live(t) = Live(s) /\ Stocked(s) \subseteq Stocked(t)
      BY <3>1, <3>2, <3>4 DEF Live, Stocked, Stones, Piles
    <3> QED
      BY <2>10, <3>5, <3>6 DEF Effect, Moved
  <2> QED
    BY <2>10, <2>11, <2>15, <2>16 DEF GInv
<1> QED
  BY <1>1, <1>2

LEMMA NewGameInv == GInvExceptBoxes(NewGame, {})
<1>0. nil \notin Entity /\ nil \notin Player
  BY GameAssumption DEF Object
<1>1. <<>> \in Seq(Entity) /\ <<>> \in Seq(Message) /\ PileCount \in Nat
  BY GameAssumption
<1>2. NewGame \in State
  BY <1>1 DEF NewGame, State
<1>3. \A e \in Entity : NewGame.children[e] = <<>> /\ NewGame.parent[e] = nil
                        /\ NewGame.held_by[e] = nil
  BY DEF NewGame, Object
<1>4. \A o \in Object : NewGame.id[o] = 0 /\ NewGame.r_objects[o] = 0
  BY DEF NewGame
<1>5. (\A i \in Id : NewGame.objects[i] = nil) /\ \A p \in Player : NewGame.held[p] = nil
  BY DEF NewGame
<1>6. TreeOK(NewGame)
  <2>1. Range(<<>>) = {} /\ IsInjective(<<>>)
    BY DEF Range, IsInjective
  <2> QED
    BY <1>0, <1>3, <2>1 DEF TreeOK
<1>7. HandsOK(NewGame, {})
  BY <1>0, <1>3, <1>5 DEF HandsOK
<1>8. RegistryOK(NewGame) /\ PlacesOK(NewGame)
  BY <1>3, <1>4, <1>5 DEF RegistryOK, PlacesOK, Object
<1> QED
  BY <1>2, <1>6, <1>7, <1>8 DEF GInvExceptBoxes

\* The game once server.start has run the gameboxes script.
LEMMA StartInv ==
    ASSUME NEW ids \in ScriptIds(NewGame, Start), NEW s, s = RunScript(NewGame, Start, ids)
    PROVE  GInv(s, {}) /\ \A e \in Entity : s.r_objects[e] /= 0 => e \in Range(Start)
<1>2. Start \in Scripts /\ NewGame \in State
  BY NewGameInv DEF Scripts, GInvExceptBoxes
<1>3. \A o \in Object : NewGame.id[o] = 0 /\ NewGame.r_objects[o] = 0
  BY DEF NewGame
<1>4. Range(Start) \subseteq Entity
  BY <1>2, ScriptFacts
<1>5. GInvExceptBoxes(s, {})
  <2>1. \A e \in Range(Start) : NewGame.id[e] = 0
    BY <1>3, <1>4 DEF Object
  <2> QED
    BY <1>2, <2>1, NewGameInv, RunScriptInv
<1>6. /\ SameHands(s, NewGame) /\ SameRest(s, NewGame)
      /\ \A o \in Object : s.id[o] = IF o \in Range(Start) THEN ids[o] ELSE NewGame.id[o]
      /\ \A o \in Object :
            s.r_objects[o] = IF o \in Range(Start) THEN ids[o] ELSE NewGame.r_objects[o]
      /\ \A e \in Entity :
            s.parent[e] = IF e \in Range(Start) THEN Home[e] ELSE NewGame.parent[e]
  <2>1. ids \in ScriptIds(NewGame, Start) /\ s = RunScript(NewGame, Start, ids)
    OBVIOUS
  <2> QED
    BY ONLY <1>2, <2>1, RunScriptFields
<1>7. BoxesOK(s)
  <2> SUFFICES ASSUME NEW b \in Boxes
        PROVE  /\ s.r_objects[b] /= 0
               /\ s.parent[b] \in Entity
               /\ \A e \in Range(Contents[b]) : s.id[e] = 0
    BY DEF BoxesOK
  <2>1. b \in Range(Start) /\ b \in Entity /\ b \in Object
    BY ScriptAssumption DEF Boxes, Object
  <2>2. ids[b] \in Id
    BY <1>2, <2>1, ScriptIdsFacts
  <2>3. s.r_objects[b] /= 0
    BY <1>6, <2>1, <2>2 DEF Id
  <2>4. s.parent[b] \in Entity
    <3>1. Home[b] \in Fields
      BY <2>1, ScriptAssumption
    <3> QED
      BY <1>6, <2>1, <3>1 DEF Fields
  <2>5. ASSUME NEW e \in Range(Contents[b]) PROVE s.id[e] = 0
    <3>1. e \notin Range(Start)
      BY ScriptAssumption
    <3>2. e \in Object
      <4>1. Contents[b] \in Scripts
        BY DEF Scripts
      <4> QED
        BY <4>1, ScriptFacts DEF Object
    <3> QED
      BY <1>3, <1>6, <3>1, <3>2
  <2> QED
    BY <2>3, <2>4, <2>5
<1>8. \A e \in Entity : s.r_objects[e] /= 0 => e \in Range(Start)
  BY <1>3, <1>6 DEF Object
<1> QED
  BY <1>5, <1>7, <1>8 DEF GInv, GInvExceptBoxes

-----------------------------------------------------------------------------
(***************************************************************************)
(* The stones.  Only finitely many entities are registered, because ids    *)
(* are, so the stones can be counted.                                      *)
(***************************************************************************)

StockOK(s) ==
    /\ Total(Cardinality(Live(s)), s.count, Stocked(s)) = PileCount * Cardinality(Stocked(s))
    /\ \A e \in Piles \ Stocked(s) : s.count[e] = PileCount

LEMMA FinitelyMany ==
    ASSUME NEW s \in State, RegistryOK(s)
    PROVE  /\ IsFiniteSet(Live(s)) /\ Cardinality(Live(s)) \in Nat
           /\ IsFiniteSet(Stocked(s)) /\ Cardinality(Stocked(s)) \in Nat
<1> DEFINE R == {s.objects[i] : i \in Id}
           f == [i \in Id |-> s.objects[i]]
<1>1. IsFiniteSet(Id)
  BY FS_Interval, GameAssumption DEF Id
<1>2. f \in Surjection(Id, R)
  BY DEF Surjection
<1>3. IsFiniteSet(R)
  BY <1>1, <1>2, FS_Surjection
<1>4. Live(s) \subseteq R /\ Stocked(s) \subseteq R
  <2>1. \A o \in Object : s.r_objects[o] /= 0 => s.r_objects[o] \in Id
    BY DEF State
  <2> QED
    BY <2>1 DEF RegistryOK, Live, Stocked, Stones, Piles, Object
<1>5. IsFiniteSet(Live(s)) /\ IsFiniteSet(Stocked(s))
  <2> HIDE DEF R
  <2> QED
    BY <1>3, <1>4, FS_Subset
<1> QED
  BY <1>5, FS_CardinalityType

\* What a pile gives is registered, what it takes is not any more.
LEMMA StockKept ==
    ASSUME NEW s \in State, NEW t \in State, RegistryOK(s), RegistryOK(t),
           StockOK(s), Effect(t, s)
    PROVE  StockOK(t)
<1> DEFINE b == Cardinality(Live(s))
           c == Cardinality(Live(t))
           S == Stocked(s)
           T == Stocked(t)
<1>0. S \subseteq Piles /\ T \subseteq Piles /\ PileCount \in Int
      /\ s.count \in [Piles -> Nat] /\ t.count \in [Piles -> Nat]
  BY GameAssumption DEF Stocked, State
<1>1. /\ IsFiniteSet(Live(s)) /\ IsFiniteSet(Live(t)) /\ b \in Int /\ c \in Int
      /\ IsFiniteSet(S) /\ IsFiniteSet(T) /\ Cardinality(S) \in Int
  BY FinitelyMany
<1>2. Total(b, s.count, S) = PileCount * Cardinality(S)
      /\ \A e \in Piles \ S : s.count[e] = PileCount
  BY DEF StockOK
<1> SUFFICES /\ Total(c, t.count, T) = PileCount * Cardinality(T)
             /\ \A e \in Piles \ T : t.count[e] = PileCount
  BY DEF StockOK
<1>3. CASE S \subseteq T /\ Live(t) = Live(s) /\ t.count = s.count
  <2> DEFINE N == T \ S
             k == s.count
  <2>1. /\ IsFiniteSet(N) /\ S \cap N = {} /\ T = S \cup N
        /\ (\A x \in S : k[x] \in Int) /\ \A x \in N : k[x] = PileCount
    <3>1. IsFiniteSet(N)
      BY <1>1, FS_Subset
    <3>2. \A x \in S : k[x] \in Int
      BY <1>0
    <3>3. \A x \in N : k[x] = PileCount
      BY <1>0, <1>2
    <3>4. S \cap N = {} /\ T = S \cup N
      BY <1>3
    <3> QED
      BY <3>1, <3>2, <3>3, <3>4
  <2>2. Cardinality(N) \in Int /\ Cardinality(T) = Cardinality(S) + Cardinality(N)
    <3>1. Cardinality(S \cup N) = Cardinality(S) + Cardinality(N) - Cardinality(S \cap N)
      BY ONLY <1>1, <2>1, FS_Union
    <3>2. Cardinality(S \cap N) = 0 /\ Cardinality(N) \in Nat
      <4>1. Cardinality({}) = 0
        BY FS_EmptySet
      <4>2. Cardinality(N) \in Nat
        BY <2>1, FS_CardinalityType
      <4> HIDE DEF N, S
      <4> QED
        BY <2>1, <4>1, <4>2
    <3> HIDE DEF N, S, T
    <3> QED
      BY <1>1, <2>1, <3>1, <3>2
  <2> HIDE DEF N, S, T, b, c, k
  <2>3. Total(b, k, S \cup N) = Total(b, k, S) + PileCount * Cardinality(N)
    BY ONLY <1>0, <1>1, <2>1, TotalMore
  <2>4. PileCount * (Cardinality(S) + Cardinality(N))
           = PileCount * Cardinality(S) + PileCount * Cardinality(N)
    BY <1>0, <1>1, <2>2
  <2>5. b = c /\ t.count = k
    BY <1>3 DEF b, c, k
  <2> QED
    BY <1>0, <1>2, <1>3, <2>1, <2>2, <2>3, <2>4, <2>5 DEF k
<1>4. ASSUME NEW x \in Stones, NEW e \in S, T = S, NEW d \in {1, -1},
             c = b - d, t.count = [s.count EXCEPT ![e] = s.count[e] + d]
      PROVE  /\ Total(c, t.count, T) = PileCount * Cardinality(T)
             /\ \A y \in Piles \ T : t.count[y] = PileCount
  <2> DEFINE f == s.count
             h == t.count
  <2>1. SameBut(f, h, S, e)
    BY <1>0, <1>4 DEF SameBut
  <2>2. h[e] - f[e] = d /\ c - b = -d /\ d \in Int
    BY <1>0, <1>1, <1>4
  <2>3. \A y \in Piles \ T : h[y] = f[y]
    BY <1>0, <1>4
  <2> HIDE DEF S, T, b, c, f, h
  <2>4. Total(c, h, S) = Total(b, f, S) + (c - b) + (h[e] - f[e])
    <3>1. IsFiniteSet(S) /\ b \in Int /\ c \in Int /\ e \in S
      BY <1>1
    <3> QED
      BY ONLY <3>1, <2>1, TotalChange
  <2>5. Total(b, f, S) = PileCount * Cardinality(S) /\ Total(b, f, S) \in Int
    BY <1>0, <1>1, <1>2 DEF f
  <2>6. Total(c, h, T) = PileCount * Cardinality(T)
    BY <1>4, <2>2, <2>4, <2>5
  <2> QED
    BY <1>2, <1>4, <2>3, <2>6 DEF f, h
<1>5. CASE T = S /\ \E x \in Stones, e \in S :
                \/ /\ x \in Live(s) /\ Live(t) = Live(s) \ {x}
                   /\ t.count = [s.count EXCEPT ![e] = s.count[e] + 1]
                \/ /\ x \notin Live(s) /\ Live(t) = Live(s) \cup {x}
                   /\ t.count = [s.count EXCEPT ![e] = s.count[e] - 1]
  <2>1. PICK x \in Stones, e \in S :
                \/ /\ x \in Live(s) /\ Live(t) = Live(s) \ {x}
                   /\ t.count = [s.count EXCEPT ![e] = s.count[e] + 1]
                \/ /\ x \notin Live(s) /\ Live(t) = Live(s) \cup {x}
                   /\ t.count = [s.count EXCEPT ![e] = s.count[e] - 1]
    BY <1>5
  <2>2. CASE /\ x \in Live(s) /\ Live(t) = Live(s) \ {x}
             /\ t.count = [s.count EXCEPT ![e] = s.count[e] + 1]
    <3>1. c = b - 1
      BY <1>1, <2>2, FS_RemoveElement
    <3> HIDE DEF S, T, b, c
    <3> QED
      BY <1>4, <1>5, <2>2, <3>1
  <2>3. CASE /\ x \notin Live(s) /\ Live(t) = Live(s) \cup {x}
             /\ t.count = [s.count EXCEPT ![e] = s.count[e] - 1]
    <3>1. c = b - (-1)
      BY <1>1, <2>3, FS_AddElement
    <3>2. s.count[e] - 1 = s.count[e] + (-1)
      BY <1>0
    <3> HIDE DEF S, T, b, c
    <3> QED
      BY <1>4, <1>5, <2>3, <3>1, <3>2
  <2> QED
    BY <2>1, <2>2, <2>3
<1> QED
  BY <1>3, <1>5 DEF Effect, Moved

LEMMA StockInv ==
    ASSUME NEW s, NEW t, NEW on, NEW off, GInv(s, on), GInv(t, off),
           StockOK(s), Effect(t, s)
    PROVE  StockOK(t)
BY StockKept DEF GInv

\* Before the first script nothing is registered.
LEMMA NewGameStock == StockOK(NewGame)
<1>1. Live(NewGame) = {} /\ Stocked(NewGame) = {} /\ Cardinality({}) = 0
  <2>1. Cardinality({}) = 0
    BY FS_EmptySet
  <2> QED
    BY <2>1 DEF Live, Stocked, NewGame, Stones, Piles, Object
<1>2. Total(0, NewGame.count, {}) = 0
  BY TotalEmpty
<1>3. \A e \in Piles : NewGame.count[e] = PileCount
  BY DEF NewGame
<1>4. PileCount * 0 = 0
  BY GameAssumption
<1> QED
  BY <1>1, <1>2, <1>3, <1>4 DEF StockOK
=============================================================================
