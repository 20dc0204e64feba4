-------------------------------- MODULE Game --------------------------------
(***************************************************************************)
(* The authoritative game state kept by the server (server/Game.lua and    *)
(* the classes under server/game/), and the methods that change it.        *)
(*                                                                         *)
(* A method is an operator from game states to game states, because the    *)
(* code composes methods: Pile.drop calls Board.drop, which calls          *)
(* Player.drop, which calls Entity.moveto.  Every method runs to its end   *)
(* inside one server.dispatch, so Table and Felt turn each one a client    *)
(* may invoke into a single action.  Besides the tables of the Lua code, a *)
(* state has two fields for the dispatch under way: "out", the messages it *)
(* has broadcast so far, and "raised", whether it ended in a Lua error.    *)
(*                                                                         *)
(* Coordinates and text messages (server.message) are left out.            *)
(***************************************************************************)
EXTENDS Naturals, FiniteSets, SequencesExt

CONSTANTS
    Player,     \* the players that may log in, one per name
    Entity,     \* every entity of the session: fields, boards, pieces, ...
    nil,        \* Lua's nil
    Class,      \* the class of each entity
    Home,       \* the entity a box script adds each entity to, or nil
    Layout,     \* the entities a box script adds to each entity, in order
    Contents,   \* what each box's script creates, in order of creation
    Start,      \* what server.start creates through the gameboxes script
    PileCount,  \* the count a Pile is constructed with
    MaxId       \* bound on object ids

ClassName == {"felt.Field", "chess.Board", "go.Board", "chess.Piece",
              "go.Piece", "felt.Pile", "gameboxes.Box"}

Fields == {e \in Entity : Class[e] = "felt.Field"}
Boards == {e \in Entity : Class[e] \in {"chess.Board", "go.Board"}}
Pieces == {e \in Entity : Class[e] = "chess.Piece"}
Stones == {e \in Entity : Class[e] = "go.Piece"}
Piles  == {e \in Entity : Class[e] = "felt.Pile"}
Boxes  == {e \in Entity : Class[e] = "gameboxes.Box"}

\* The classes that mix in Token, and those that mix in Board.
Tokens     == Pieces \cup Stones \cup Piles
Droppables == Fields \cup Boards \cup Pieces \cup Piles

Object == Player \cup Entity
Id     == 1..MaxId

\* The object the messages about the whole game are sent to.
GameObject == "game"

Scripts == {Start} \cup {Contents[b] : b \in Boxes}

(***************************************************************************)
(* What the box scripts of the repository look like: a script creates      *)
(* distinct entities, adds each to one it created before, fields to none;  *)
(* stones come from piles only; the boxes are those server.start creates;  *)
(* no two scripts create the same entity.                                  *)
(***************************************************************************)
ASSUME GameAssumption ==
    /\ nil \notin Object \cup {GameObject}
    /\ Player \cap Entity = {}
    /\ PileCount \in Nat
    /\ MaxId \in Nat
    /\ Class \in [Entity -> ClassName]

ASSUME ScriptAssumption ==
    /\ Home \in [Entity -> Entity \cup {nil}]
    /\ \A e \in Entity :
          /\ e \in Boxes \cup Boards \cup Piles => Home[e] \in Fields
          /\ e \in Pieces => Home[e] \in Fields \cup Boards
          /\ e \in Fields \cup Stones => Home[e] = nil
    /\ Layout \in [Entity -> Seq(Entity)]
    /\ \A e \in Entity : Range(Layout[e]) = {x \in Entity : Home[x] = e}
    /\ \A e \in Entity : IsInjective(Layout[e])
    /\ Contents \in [Boxes -> Seq(Entity)]
    /\ Start \in Seq(Entity)
    /\ \A c \in Scripts :
          /\ IsInjective(c)
          /\ Range(c) \cap Stones = {}
          /\ \A k \in DOMAIN c : Home[c[k]] /= nil => \E j \in 1..(k - 1) : c[j] = Home[c[k]]
          /\ \A e \in Entity : e \in Range(c) /\ Home[e] /= nil <=> Home[e] \in Range(c)
    /\ Boxes \subseteq Range(Start)
    /\ \A b \in Boxes :
          /\ Range(Contents[b]) \cap Range(Start) = {}
          /\ \A d \in Boxes : b = d \/ Range(Contents[b]) \cap Range(Contents[d]) = {}

-----------------------------------------------------------------------------
(***************************************************************************)
(* Messages.  box.pack writes an object the recipient knows (one that is   *)
(* in r_objects) as a reference "O" to its id, any other as a constructor  *)
(* call "C" carrying its fields, and nil as "N".  The obj of an "O" is not *)
(* on the wire: it records which object the sender meant.                  *)
(***************************************************************************)

Ref == [tag : {"O", "C", "N"}, id : Id \cup {0}, obj : Object \cup {nil, GameObject}]

Method == {"addObject", "deleteObject", "addPlayer", "set held", "set held_by", "moveto"}

Message == [self : Ref, method : Method, arg : Ref]

NilRef  == [tag |-> "N", id |-> 0, obj |-> nil]
GameRef == [tag |-> "O", id |-> 0, obj |-> GameObject]

(***************************************************************************)
(* State.  An object with id 0 has not been constructed; r_objects maps an *)
(* object that is not registered to 0.                                     *)
(***************************************************************************)
State == [id        : [Object -> Id \cup {0}],
          objects   : [Id -> Object \cup {nil}],
          r_objects : [Object -> Id \cup {0}],
          parent    : [Entity -> Entity \cup {nil}],
          children  : [Entity -> Seq(Entity)],
          held      : [Player -> Object \cup {nil}],
          held_by   : [Object -> Player \cup {nil}],
          count     : [Piles -> Nat],
          opened    : SUBSET Boxes,
          out       : Seq(Message),
          raised    : BOOLEAN]

\* Game.__init, before server.start opens the gameboxes script.
NewGame == [id        |-> [o \in Object |-> 0],
            objects   |-> [i \in Id |-> nil],
            r_objects |-> [o \in Object |-> 0],
            parent    |-> [e \in Entity |-> nil],
            children  |-> [e \in Entity |-> <<>>],
            held      |-> [p \in Player |-> nil],
            held_by   |-> [o \in Object |-> nil],
            count     |-> [e \in Piles |-> PileCount],
            opened    |-> {},
            out       |-> <<>>,
            raised    |-> FALSE]

Registered(s, o) == s.r_objects[o] /= 0

RefTo(s, o) ==
    IF o = nil THEN NilRef
    ELSE IF Registered(s, o) THEN [tag |-> "O", id |-> s.r_objects[o], obj |-> o]
    ELSE [tag |-> "C", id |-> s.id[o], obj |-> o]

\* server.send: every client's ClientWorker.send packs the message at once.
Send(s, self, method, arg) ==
    [s EXCEPT !.out = Append(@, [self |-> self, method |-> method, arg |-> arg])]

\* A Lua error unwinds to the xpcall in ClientWorker.receiveOne; what the
\* handler had changed by then stays changed.
Raise(s) == [s EXCEPT !.raised = TRUE]

-----------------------------------------------------------------------------
(***************************************************************************)
(* The object registry.  A new object's id is #objects+1.  Deleting leaves *)
(* holes, and # is then any border of the table: any occupied index whose  *)
(* successor is free (0 counts as occupied).                               *)
(***************************************************************************)

Occupied(s) == {i \in Id : s.objects[i] /= nil}

\* Mutant: ids are counted, not taken from a border of the table.
BordersNextCounting(used) == {Cardinality(used) + 1} \cap Id

BordersNext(used) == {i \in Id \ used : i = 1 \/ i - 1 \in used}

\* Mutant: the object is registered before it is announced.
AddObjectRegistersFirst(s, o, i) ==
    LET t == [s EXCEPT !.id[o] = i, !.objects[i] = o, !.r_objects[o] = i]
    IN  Send(t, GameRef, "addObject", RefTo(t, o))

AddObject(s, o, i) ==
    LET t == [s EXCEPT !.id[o] = i]
        u == Send(t, GameRef, "addObject", RefTo(t, o))
    IN  [u EXCEPT !.objects[i] = o, !.r_objects[o] = i]

DeleteObject(s, o) ==
    LET t == Send(s, GameRef, "deleteObject", RefTo(s, o))
    IN  [t EXCEPT !.objects[s.id[o]] = nil, !.r_objects[o] = 0]

\* The ids addPlayer may give player p: a returning player keeps its own.
PlayerIds(s, p) == IF s.id[p] = 0 THEN BordersNext(Occupied(s)) ELSE {s.id[p]}

\* Game.addPlayer: a returning player's object is kept, a new one is built.
AddPlayer(s, p, i) ==
    LET t == IF s.id[p] = 0 THEN AddObject(s, p, i) ELSE s
    IN  Send(t, GameRef, "addPlayer", RefTo(t, p))

-----------------------------------------------------------------------------
(***************************************************************************)
(* Entities and players.                                                   *)
(***************************************************************************)

\* Object.set on the two fields that are set during play.
SetHeld(s, p, e) ==
    LET t == [s EXCEPT !.held[p] = e]
    IN  Send(t, RefTo(t, p), "set held", RefTo(t, e))

SetHeldBy(s, e, p) ==
    LET t == [s EXCEPT !.held_by[e] = p]
    IN  Send(t, RefTo(t, e), "set held_by", RefTo(t, p))

\* Entity.remove
EntityRemove(s, from, child) ==
    [s EXCEPT !.parent[child] = nil,
              !.children[from] = RemoveFirst(@, child)]

\* Mutant: moving within the same parent lists the child again.
MoveToAppends(s, e, to) ==
    LET old == s.parent[e]
        t == IF old /= nil /\ old /= to THEN EntityRemove(s, old, e) ELSE s
        u == IF to /= nil THEN [t EXCEPT !.children[to] = Append(@, e)] ELSE t
        v == [u EXCEPT !.parent[e] = to]
    IN  Send(v, RefTo(v, e), "moveto", RefTo(v, to))

\* Entity.moveto
MoveTo(s, e, to) ==
    LET old == s.parent[e]
        t == IF old /= nil /\ old /= to THEN EntityRemove(s, old, e) ELSE s
        u == IF to /= nil /\ t.parent[e] /= to
             THEN [t EXCEPT !.children[to] = Append(@, e)] ELSE t
        v == [u EXCEPT !.parent[e] = to]
    IN  Send(v, RefTo(v, e), "moveto", RefTo(v, to))

\* Mutant: the entity is unregistered but stays in its parent's list.
DeleteInPlace(s, e) == DeleteObject(s, e)

\* Entity.delete, for an entity without children: only stones are deleted.
Delete(s, e) == DeleteObject(MoveTo(s, e, nil), e)

\* Mutant: picking a token up takes it off its place.
PlayerPickupLifts(s, p, e) == MoveTo(SetHeldBy(SetHeld(s, p, e), e, p), e, nil)

PlayerPickup(s, p, e) == SetHeldBy(SetHeld(s, p, e), e, p)

\* Mutant: the dropped item still names its former holder.
PlayerDropKeepsHeldBy(s, p, onto) ==
    LET item == s.held[p]
    IN  IF item = nil THEN Raise(s)
        ELSE MoveTo(SetHeld(s, p, nil), item, onto)

PlayerDrop(s, p, onto) ==
    LET item == s.held[p]
    IN  IF item = nil THEN Raise(s)
        ELSE MoveTo(SetHeldBy(SetHeld(s, p, nil), item, nil), item, onto)

\* Mutant: a leaving player keeps what it holds.
PlayerDisconnectKeepsHand(s, p) == s

PlayerDisconnect(s, p) ==
    IF s.held[p] /= nil THEN SetHeld(SetHeldBy(s, s.held[p], nil), p, nil) ELSE s

-----------------------------------------------------------------------------
(***************************************************************************)
(* The methods clients invoke.                                             *)
(***************************************************************************)

\* Mutant: a token may be taken out of someone else's hand.
TokenPickupSteals(s, e, p) == IF s.held[p] /= nil THEN s ELSE PlayerPickup(s, p, e)

TokenPickup(s, e, p) ==
    IF s.held_by[e] /= nil \/ s.held[p] /= nil THEN s ELSE PlayerPickup(s, p, e)

\* Board.drop computes where to put the item from the item's size, which a
\* player in a hand (see Felt) does not have.
BoardDrop(s, e, p) ==
    CASE s.held[p] = e \/ s.held[p] = nil -> s
      [] s.held[p] \in Player            -> Raise(s)
      [] OTHER                           -> PlayerDrop(s, p, e)

\* Mutant: chess.Piece inherits Board.drop.
PieceDropInherited(s, e, p) == BoardDrop(s, e, p)

\* chess.Piece overrides Board.drop: swap places with the dropped item.
PieceDrop(s, e, p) ==
    CASE s.parent[e] = nil -> Raise(s)
      [] s.parent[e] /= nil /\ Class[s.parent[e]] /= "chess.Board" -> s
      [] OTHER -> TokenPickup(BoardDrop(s, s.parent[e], p), e, p)

\* Pile.drop, for the piles of the go box, configured to hold stones.
PileDrop(s, e, p) ==
    IF s.held[p] /= nil /\ s.held[p] \notin Stones THEN s
    ELSE LET t == BoardDrop(s, e, p)
         IN  IF t.children[e] = <<>> THEN Raise(t)
             ELSE [Delete(t, t.children[e][1]) EXCEPT !.count[e] = @ + 1]

\* The drop method of each class.
Drop(s, e, p) ==
    CASE e \in Pieces -> PieceDrop(s, e, p)
      [] e \in Piles  -> PileDrop(s, e, p)
      [] OTHER        -> BoardDrop(s, e, p)

\* Mutant: a stone the player cannot hold is not counted as taken.
TakeItemIfPickedUp(s, e, p, x, i) ==
    LET t == TokenPickup(AddObject(s, x, i), x, p)
    IN  IF s.count[e] = 0 THEN s
        ELSE IF t.held[p] = x THEN [t EXCEPT !.count[e] = @ - 1] ELSE t

\* Pile.takeItem: the stone constructed is x, the id it gets is i.
TakeItem(s, e, p, x, i) ==
    IF s.count[e] > 0
    THEN [TokenPickup(AddObject(s, x, i), x, p) EXCEPT !.count[e] = @ - 1]
    ELSE s

(***************************************************************************)
(* Box scripts.  A script constructs its entities one by one; ids[e] is    *)
(* the id entity e gets.  Two broadcasts per entity: the registration, and *)
(* for a field the second registration by Game.addField, for any other     *)
(* entity the moveto by Entity.add.                                        *)
(***************************************************************************)

ScriptIds(s, c) ==
    {ids \in [Range(c) -> Id \ Occupied(s)] :
        \A k \in DOMAIN c :
            ids[c[k]] \in BordersNext(Occupied(s) \cup {ids[c[j]] : j \in 1..(k - 1)})}

ScriptMessages(c, ids) ==
    [k \in 1..(2 * Len(c)) |->
        LET e == c[(k + 1) \div 2]
            ref(x) == [tag |-> "O", id |-> ids[x], obj |-> x]
        IN  CASE k % 2 = 1   -> [self |-> GameRef, method |-> "addObject",
                                 arg |-> [ref(e) EXCEPT !.tag = "C"]]
              [] k % 2 = 0 /\ Home[e] = nil
                             -> [self |-> GameRef, method |-> "addObject", arg |-> ref(e)]
              [] OTHER       -> [self |-> ref(e), method |-> "moveto", arg |-> ref(Home[e])]]

RunScript(s, c, ids) ==
    [s EXCEPT
        !.id        = [o \in Object |-> IF o \in Range(c) THEN ids[o] ELSE @[o]],
        !.r_objects = [o \in Object |-> IF o \in Range(c) THEN ids[o] ELSE @[o]],
        !.objects   = [i \in Id |-> IF \E e \in Range(c) : ids[e] = i
                                    THEN CHOOSE e \in Range(c) : ids[e] = i ELSE @[i]],
        !.parent    = [e \in Entity |-> IF e \in Range(c) THEN Home[e] ELSE @[e]],
        !.children  = [e \in Entity |-> IF e \in Range(c) THEN Layout[e] ELSE @[e]],
        !.out       = @ \o ScriptMessages(c, ids)]

\* The ids the entities in box b may get when it is opened.
OpenIds(s, b) == IF b \in s.opened THEN {<<>>} ELSE ScriptIds(s, Contents[b])

\* Box.open
OpenBox(s, b, ids) ==
    IF b \in s.opened THEN s
    ELSE LET t == RunScript(s, Contents[b], ids)
         IN  EntityRemove([t EXCEPT !.opened = @ \cup {b}], t.parent[b], b)
=============================================================================
