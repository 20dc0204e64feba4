------------------------------- MODULE Table --------------------------------
(***************************************************************************)
(* The game table as the server sees it: players log in and leave, and     *)
(* each request a client sends is one server.dispatch, run to its end      *)
(* before the next one.  The network and the clients' replicas are left    *)
(* out: what remains is the order in which the server happens to serve the *)
(* players, which is arbitrary.  A request names any registered entity     *)
(* that has the method, whether or not it is the one that was clicked.     *)
(* Felt, which models the clients too, is shown to implement this module   *)
(* as long as ids are not reused.                                          *)
(***************************************************************************)
EXTENDS Game

VARIABLES
    game,       \* the server's Game object and everything it registers
    online      \* the players with an entry in the server's _players table

vars == <<game, online>>

\* Mutant: the error of a dispatch is left to the next one.
FlushKeepsError(s) == [s EXCEPT !.out = <<>>]

\* The broadcasts of a finished dispatch have left the server.
Flush(s) == [s EXCEPT !.out = <<>>, !.raised = FALSE]

(***************************************************************************)
(* The end of a dispatch for player p: if the handler raised an error,     *)
(* ClientWorker.receiveOne disconnects the client that sent the request.   *)
(***************************************************************************)
Finish(s, p) ==
    IF s.raised
    THEN /\ game' = Flush(PlayerDisconnect(s, p))
         /\ online' = online \ {p}
    ELSE /\ game' = Flush(s)
         /\ online' = online

Init ==
    /\ \E ids \in ScriptIds(NewGame, Start) : game = Flush(RunScript(NewGame, Start, ids))
    /\ online = {}

\* server.api.login of a name not in use
Login(p) ==
    /\ p \notin online
    /\ \E i \in PlayerIds(game, p) : game' = Flush(AddPlayer(game, p, i))
    /\ online' = online \cup {p}

\* server.unregister of a logged-in client whose socket was closed
Leave(p) ==
    /\ p \in online
    /\ game' = Flush(PlayerDisconnect(game, p))
    /\ online' = online \ {p}

RequestPickup(p, e) ==
    /\ p \in online
    /\ e \in Tokens /\ Registered(game, e)
    /\ Finish(TokenPickup(game, e, p), p)

RequestDrop(p, e) ==
    /\ p \in online
    /\ e \in Droppables /\ Registered(game, e)
    /\ Finish(Drop(game, e, p), p)

RequestTakeItem(p, e) ==
    /\ p \in online
    /\ e \in Piles /\ Registered(game, e)
    /\ \E x \in Stones, i \in BordersNext(Occupied(game)) :
          /\ game.id[x] = 0
          /\ Finish(TakeItem(game, e, p, x, i), p)

RequestOpen(p, b) ==
    /\ p \in online
    /\ b \in Boxes /\ Registered(game, b)
    /\ \E ids \in OpenIds(game, b) : Finish(OpenBox(game, b, ids), p)

Next ==
    \/ \E p \in Player : Login(p) \/ Leave(p)
    \/ \E p \in Player, e \in Entity :
          \/ RequestPickup(p, e)
          \/ RequestDrop(p, e)
          \/ RequestTakeItem(p, e)
          \/ RequestOpen(p, e)

Spec == Init /\ [][Next]_vars
-----------------------------------------------------------------------------
(***************************************************************************)
(* Properties.                                                             *)
(***************************************************************************)

\* Every field of the game state has its type, and no dispatch leaves a
\* broadcast or an error behind.
TypeOK ==
    /\ game \in State
    /\ game.out = <<>>
    /\ game.raised = FALSE
    /\ online \subseteq Player

(***************************************************************************)
(* Player.held and Token.held_by are two copies of one relation, set by    *)
(* separate assignments in pickup, drop and disconnect: after every        *)
(* dispatch they agree, so nobody holds two things and nothing is in two   *)
(* hands.                                                                  *)
(***************************************************************************)
HandsAgree ==
    \A p \in Player, e \in Entity : game.held[p] = e <=> game.held_by[e] = p

(***************************************************************************)
(* What a player holds is a token that still exists, and the player is     *)
(* connected: disconnecting, being kicked and feeding a stone to a pile    *)
(* all empty the hand.                                                     *)
(***************************************************************************)
HandsLive ==
    \A p \in Player : game.held[p] /= nil =>
        /\ p \in online
        /\ game.held[p] \in Tokens
        /\ Registered(game, game.held[p])

(***************************************************************************)
(* The id table and the reverse table of server/Game.lua are inverses of   *)
(* each other, holes left by deletions and reused ids included: addObject  *)
(* never trips over its "object ID collision" assertion.                   *)
(***************************************************************************)
RegistryInverse ==
    /\ \A i \in Id : game.objects[i] /= nil => game.r_objects[game.objects[i]] = i
    /\ \A o \in Object : Registered(game, o) =>
          /\ game.objects[game.r_objects[o]] = o
          /\ game.r_objects[o] = game.id[o]

(***************************************************************************)
(* Entity.moveto keeps parent links and child lists consistent: an entity  *)
(* is listed by its parent, exactly once, and by nobody else.              *)
(***************************************************************************)
TreeConsistent ==
    \A e \in Entity :
        /\ \A x \in Entity : x \in Range(game.children[e]) <=> game.parent[x] = e
        /\ IsInjective(game.children[e])

(***************************************************************************)
(* No sequence of drops produces "a cycle in the widget graph"             *)
(* (server/game/felt/Board.lua:10-11), although Board.drop only refuses to *)
(* drop an item onto itself: no set of entities is closed under parent.    *)
(***************************************************************************)
WidgetGraphAcyclic ==
    \A S \in SUBSET Entity : S /= {} => \E e \in S : game.parent[e] \notin S

(***************************************************************************)
(* Between dispatches a pile has no children and every piece has a parent: *)
(* so children[1] in Pile.drop is the stone just dropped, and self.parent  *)
(* in chess.Piece.drop is never nil.                                       *)
(***************************************************************************)
PlacesReady ==
    /\ \A e \in Piles : game.children[e] = <<>>
    /\ \A e \in Pieces : Registered(game, e) => game.parent[e] /= nil

(***************************************************************************)
(* Stones are neither lost nor forged by takeItem and drop: those in the   *)
(* piles and those registered add up to what the open boxes supplied.      *)
(***************************************************************************)
StonesConserved ==
    LET live == {x \in Stones : Registered(game, x)}
        piles == {e \in Piles : Registered(game, e)}
    IN  FoldFunctionOnSet(+, Cardinality(live), game.count, piles)
            = PileCount * Cardinality(piles)

\* "No grabbing pieces out of someone else's hand" (Token.lua:6): a token in
\* a hand only leaves it for the table, never straight for another hand.
NoStealing ==
    [][\A e \in Entity : game.held_by[e] /= nil =>
          game'.held_by[e] \in {nil, game.held_by[e]}]_vars

(***************************************************************************)
(* An entity that has been placed changes its place, or leaves the game,   *)
(* only from a player's hand; an opened box leaves its field by itself.    *)
(***************************************************************************)
MovesFromHand ==
    [][\A e \in Entity \ Boxes : Registered(game, e) =>
          (game'.parent[e] /= game.parent[e] \/ ~Registered(game', e)
              => game.held_by[e] /= nil)]_vars
=============================================================================
