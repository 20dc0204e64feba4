-------------------------------- MODULE Felt --------------------------------
(***************************************************************************)
(* The whole system: one server, and a client per player that keeps a      *)
(* replica of the game and sends the server what the user clicked.         *)
(*                                                                         *)
(* A connection is two FIFO queues.  inbox[p] is everything between        *)
(* server.send and the client's DispatchMessage: the sendq of the          *)
(* ClientWorker, the TCP stream and what the client has not read.          *)
(* outbox[p] is everything between client.send and server.dispatch.  A     *)
(* client sees the game only through its inbox, so it clicks on what the   *)
(* game looked like some messages ago.                                     *)
(*                                                                         *)
(* Text messages change no replica and are left out.  The connection       *)
(* itself (sockets, the select loop, rejected logins) is left out.         *)
(***************************************************************************)
EXTENDS Game

CONSTANTS
    MaxRequests,    \* bound on the requests a client has in flight
    MaxLag          \* bound on a client's inbox when the server acts again

ASSUME BoundsAssumption == MaxRequests \in Nat \ {0} /\ MaxLag \in Nat

VARIABLES
    game,       \* the server's game
    online,     \* the players with an entry in the server's _players table
    clients,    \* the players whose client is running
    replica,    \* each client's copy of the game
    inbox,      \* messages on their way to each client
    outbox      \* requests on their way from each client

vars == <<game, online, clients, replica, inbox, outbox>>

T == INSTANCE Table WITH game <- game, online <- online

-----------------------------------------------------------------------------
(***************************************************************************)
(* The client's replica.  "joined" says whether the game has arrived;      *)
(* "scene" is the set of entities with graphics in a Qt scene, hence the   *)
(* ones the user can click.  Child lists are left out: after an object has *)
(* been built the client only writes them.                                 *)
(***************************************************************************)

Replica == [joined  : BOOLEAN,
            objects : [Id -> Object \cup {nil}],
            players : SUBSET Player,
            parent  : [Entity -> Entity \cup {nil}],
            held    : [Player -> Object \cup {nil}],
            scene   : SUBSET Entity]

NoReplica == [joined  |-> FALSE,
              objects |-> [i \in Id |-> nil],
              players |-> {},
              parent  |-> [e \in Entity |-> nil],
              held    |-> [p \in Player |-> nil],
              scene   |-> {}]

\* Field.initGraphics and showChildren: a field's scene shows everything on
\* the field, what is on its boards included.
Shown(s, placed) == {e \in Fields : Registered(s, e)} \cup placed

(***************************************************************************)
(* The boxed game, as the new client unpacks it.  Parents are not packed:  *)
(* Entity.__init on the client rebuilds them from the child lists.         *)
(***************************************************************************)
Snapshot(s) ==
    LET holds(e, x) == x \in Range(s.children[e])
        placed == {x \in Entity : \E e \in Entity : holds(e, x)}
    IN  [joined  |-> TRUE,
         objects |-> s.objects,
         players |-> {p \in Player : s.id[p] /= 0},
         parent  |-> [x \in Entity |-> IF x \in placed THEN CHOOSE e \in Entity : holds(e, x)
                                       ELSE nil],
         held    |-> s.held,
         scene   |-> Shown(s, placed)]

GameMessage(s) == [self |-> NilRef, method |-> "game", arg |-> Snapshot(s)]

\* What box.unpack makes of a reference: the object registered under an id,
\* or an object built and registered on the spot.
Resolve(r, ref) ==
    CASE ref.tag = "N"                  -> nil
      [] ref.tag = "C"                  -> ref.obj
      [] ref.tag = "O" /\ ref.id = 0    -> GameObject
      [] ref.tag = "O" /\ ref.id \in Id -> r.objects[ref.id]

\* The errors a client can run into while it handles message m: no game yet,
\* an id it does not know, a method the object does not have, a widget that
\* is on no scene, a widget that is deleted while it is still on another.
Fails(r, m) ==
    /\ m.method /= "game"
    /\ LET self == Resolve(r, m.self)
           arg  == Resolve(r, m.arg)
       IN  \/ ~r.joined
           \/ m.self.tag = "O" /\ self = nil
           \/ m.arg.tag = "O" /\ arg = nil
           \/ m.method = "moveto"
                /\ \/ self \notin Entity
                   \/ arg /= nil /\ r.parent[self] /= arg /\ arg \notin r.scene
           \/ m.method = "deleteObject" /\ arg \in Entity /\ r.parent[arg] /= nil

\* Entity.moveto on the client
ClientMoveTo(r, e, to) ==
    [r EXCEPT !.parent[e] = to,
              !.scene = IF to /= nil /\ r.parent[e] /= to THEN @ \cup {e} ELSE @]

\* Object.__unpack on the client, and the addObject message that carried it.
ClientAddObject(r, o, i) ==
    [r EXCEPT !.objects[i] = o,
              !.scene = IF o \in Fields THEN @ \cup {o} ELSE @]

ClientDeleteObject(r, o, i) ==
    [r EXCEPT !.objects[i] = nil, !.scene = @ \ {o}]

ClientAddPlayer(r, p) == [r EXCEPT !.players = @ \cup {p}]

\* Object.set on the client.  It never looks at held_by.
ClientSet(r, key, o, value) ==
    CASE key = "set held"    -> [r EXCEPT !.held[o] = value]
      [] key = "set held_by" -> r

\* DispatchMessage for a message that does not fail.
Apply(r, m) ==
    IF m.method = "game" THEN m.arg
    ELSE LET self == Resolve(r, m.self)
             arg  == Resolve(r, m.arg)
         IN  CASE m.method = "addObject"    -> ClientAddObject(r, arg, m.arg.id)
               [] m.method = "deleteObject" -> ClientDeleteObject(r, arg, m.arg.id)
               [] m.method = "addPlayer"    -> ClientAddPlayer(r, arg)
               [] m.method = "moveto"       -> ClientMoveTo(r, self, arg)
               [] OTHER                     -> ClientSet(r, m.method, self, arg)

-----------------------------------------------------------------------------
(***************************************************************************)
(* Requests.  As in messages, obj is not on the wire: it records what the  *)
(* user clicked.                                                           *)
(***************************************************************************)

RequestMethod == {"pickup", "drop", "takeItem", "open"}

Request == [id : Id, obj : Entity, method : RequestMethod]

(***************************************************************************)
(* What the user can ask for.  Of the actions bound to the same mouse      *)
(* event, the one declared last is taken: a left click on a pile takes a   *)
(* stone, and a click with the shift key picks the pile up.                *)
(***************************************************************************)
LeftClick(e)  == CASE e \in Pieces \cup Stones -> {"pickup"}
                   [] e \in Piles              -> {"pickup", "takeItem"}
                   [] e \in Boxes              -> {"open"}
                   [] OTHER                    -> {}

\* The context menu offers the actions that have a name, whatever the
\* client thinks its player holds.
MenuActions(e) == CASE e \in Pieces \cup Stones -> {"pickup"}
                    [] e \in Piles              -> {"pickup", "takeItem"}
                    [] e \in Boxes              -> {"open"}
                    [] OTHER                    -> {}

\* mousePressEvent: with something in the hand a left click is a drop.
MouseActions(r, p, e) ==
    IF r.held[p] = nil THEN LeftClick(e)
    ELSE IF e \in Droppables \ Fields THEN {"drop"} ELSE {}

\* The same for a click on the background of a field.
FieldActions(r, p, e) == IF e \in Fields /\ r.held[p] /= nil THEN {"drop"} ELSE {}

Clicks(r, p, e) == MouseActions(r, p, e) \cup FieldActions(r, p, e) \cup MenuActions(e)

(***************************************************************************)
(* The states a request may lead to.  Stones are the only objects that are *)
(* deleted and pickup is their only method, so pickup is the only one that *)
(* may find some other object under the id: a player's pickup then puts    *)
(* the requesting player in its hand.                                      *)
(***************************************************************************)
Invoke(s, o, m, p) ==
    CASE m = "pickup" /\ o \in Tokens -> {TokenPickup(s, o, p)}
      [] m = "pickup" /\ o \in Player -> {PlayerPickup(s, o, p)}
      [] m = "drop"                   -> {Drop(s, o, p)}
      [] m = "takeItem"               -> {TakeItem(s, o, p, x, i) :
                                            x \in {y \in Stones : s.id[y] = 0},
                                            i \in BordersNext(Occupied(s))}
      [] m = "open"                   -> {OpenBox(s, o, ids) : ids \in OpenIds(s, o)}
      [] OTHER                        -> {Raise(s)}

\* What a dispatch that led to state s adds to the inbox of client q.
Queued(s, q) == inbox[q] \o s.out

\* The broadcasts of a dispatch go to every client in _players.
Broadcast(s, to) ==
    inbox' = [q \in Player |-> IF q \in to THEN Queued(s, q) ELSE <<>>]

\* Mutant: the player object is not told.
UnregisterForgetsPlayer(s, p) ==
    /\ game' = T!Flush(s)
    /\ online' = online \ {p}
    /\ clients' = clients \ {p}
    /\ replica' = [replica EXCEPT ![p] = NoReplica]
    /\ outbox' = [outbox EXCEPT ![p] = <<>>]
    /\ Broadcast(s, clients \ {p})

\* server.unregister, after a dispatch or a failed read or write left the
\* game in state s.  What is still queued for the client is lost.
Unregister(s, p) ==
    LET t == PlayerDisconnect(s, p)
    IN  /\ game' = T!Flush(t)
        /\ online' = online \ {p}
        /\ clients' = clients \ {p}
        /\ replica' = [replica EXCEPT ![p] = NoReplica]
        /\ outbox' = [outbox EXCEPT ![p] = <<>>]
        /\ Broadcast(t, clients \ {p})

\* The client's process ends; the server has yet to find out.  Of the
\* requests in flight some may never have been written to the socket.
ClientGone(p) ==
    /\ clients' = clients \ {p}
    /\ replica' = [replica EXCEPT ![p] = NoReplica]
    /\ inbox' = [inbox EXCEPT ![p] = <<>>]
    /\ \E n \in 0..Len(outbox[p]) : outbox' = [outbox EXCEPT ![p] = SubSeq(@, 1, n)]
    /\ UNCHANGED <<game, online>>

MayAct == \A p \in clients : Len(inbox[p]) <= MaxLag
-----------------------------------------------------------------------------
(***************************************************************************)
(* Actions.                                                                *)
(***************************************************************************)

Init ==
    /\ T!Init
    /\ clients = {}
    /\ replica = [p \in Player |-> NoReplica]
    /\ inbox = [p \in Player |-> <<>>]
    /\ outbox = [p \in Player |-> <<>>]

\* Mutant: the game is boxed before the new player is added to it.
LoginSnapshotFirst(p) ==
    /\ MayAct
    /\ p \notin online
    /\ \E i \in PlayerIds(game, p) :
          LET s == AddPlayer(game, p, i)
          IN  /\ game' = T!Flush(s)
              /\ inbox' = [q \in Player |->
                    CASE q = p -> <<GameMessage(game)>>
                      [] q \in clients \ {p} -> Queued(s, q)
                      [] OTHER -> <<>>]
    /\ online' = online \cup {p}
    /\ clients' = clients \cup {p}
    /\ UNCHANGED <<replica, outbox>>

\* A client connects, and server.api.login accepts it.  The new player is
\* announced to the others, and the new client gets the whole game.
Login(p) ==
    /\ MayAct
    /\ p \notin online
    /\ \E i \in PlayerIds(game, p) :
          LET s == AddPlayer(game, p, i)
          IN  /\ game' = T!Flush(s)
              /\ inbox' = [q \in Player |->
                    CASE q = p -> <<GameMessage(s)>>
                      [] q \in clients \ {p} -> Queued(s, q)
                      [] OTHER -> <<>>]
    /\ online' = online \cup {p}
    /\ clients' = clients \cup {p}
    /\ UNCHANGED <<replica, outbox>>

\* ServerReader: a message that fails ends the client.
Receive(p) ==
    /\ p \in clients
    /\ inbox[p] /= <<>>
    /\ IF Fails(replica[p], Head(inbox[p]))
       THEN ClientGone(p)
       ELSE /\ replica' = [replica EXCEPT ![p] = Apply(@, Head(inbox[p]))]
            /\ inbox' = [inbox EXCEPT ![p] = Tail(@)]
            /\ UNCHANGED <<game, online, clients, outbox>>

\* The user clicks an entity on screen.
Click(p, e) ==
    /\ p \in clients
    /\ e \in replica[p].scene
    /\ Len(outbox[p]) < MaxRequests
    /\ \E m \in Clicks(replica[p], p, e), i \in Id :
          /\ replica[p].objects[i] = e
          /\ outbox' = [outbox EXCEPT ![p] = Append(@, [id |-> i, obj |-> e, method |-> m])]
    /\ UNCHANGED <<game, online, clients, replica, inbox>>

\* receiveOne: unpack one request, dispatch it, and disconnect the client if
\* that raised an error.
Serve(p) ==
    /\ MayAct
    /\ p \in online
    /\ outbox[p] /= <<>>
    /\ LET request == Head(outbox[p])
           o == game.objects[request.id]
       IN  IF o = nil THEN Unregister(game, p)
           ELSE \E s \in Invoke(game, o, request.method, p) :
                   IF s.raised THEN Unregister(s, p)
                   ELSE /\ game' = T!Flush(s)
                        /\ Broadcast(s, clients)
                        /\ outbox' = [outbox EXCEPT ![p] = Tail(@)]
                        /\ UNCHANGED <<online, clients, replica>>

\* The user closes the client, or it crashes.
Quit(p) == p \in clients /\ ClientGone(p)

\* The server finds the connection closed, when it next reads or writes.
Cull(p) ==
    /\ p \in online \ clients
    /\ Unregister(game, p)

Next ==
    \E p \in Player : \/ Login(p)
                      \/ Receive(p)
                      \/ \E e \in Entity : Click(p, e)
                      \/ Serve(p)
                      \/ Quit(p)
                      \/ Cull(p)

Spec == Init /\ [][Next]_vars
-----------------------------------------------------------------------------
(***************************************************************************)
(* Properties.                                                             *)
(***************************************************************************)

\* Queues and replicas have their types, and a running client is known to
\* the server.
TypeOK ==
    /\ clients \subseteq online /\ online \subseteq Player
    /\ replica \in [Player -> Replica]
    /\ \A p \in Player : /\ Len(outbox[p]) <= MaxRequests
                         /\ Range(outbox[p]) \subseteq Request

\* Client p's replica once it has handled the next n messages.
After(p, n) == FoldLeft(Apply, replica[p], SubSeq(inbox[p], 1, n))

(***************************************************************************)
(* A client will not fail on any message that is on its way to it, and     *)
(* every reference in it will resolve to the object the server meant,      *)
(* although ids are reused: an object is introduced before it is           *)
(* mentioned, and forgotten before its id names another.  Only addObject   *)
(* builds objects on the client.                                           *)
(***************************************************************************)
MessagesResolve ==
    \A p \in clients : \A n \in DOMAIN inbox[p] :
        LET m == inbox[p][n]
            r == After(p, n - 1)
        IN  /\ ~Fails(r, m)
            /\ m.method /= "game" =>
                  \A ref \in {m.self, m.arg} :
                      /\ Resolve(r, ref) = ref.obj
                      /\ ref.tag = "C" => m.method = "addObject"

\* Two copies of the game agree on what exists, who plays, who holds what,
\* and where the given entities are.
Agree(r, s, placed) ==
    /\ r.joined
    /\ r.objects = s.objects
    /\ r.players = {p \in Player : s.id[p] /= 0}
    /\ r.held = s.held
    /\ \A e \in placed : Registered(s, e) => r.parent[e] = s.parent[e]

(***************************************************************************)
(* Once a client has handled what is on its way to it, it has the server's *)
(* game, whenever it joined.  Boxes are excepted: Box.open takes a box off *)
(* its field without a broadcast.                                          *)
(***************************************************************************)
ReplicasConverge ==
    \A p \in clients : Agree(After(p, Len(inbox[p])), game, Entity \ Boxes)

\* "This will automatically assign it a unique ID"
\* (server/game/felt/Object.lua:13-14): a request never reaches an object
\* other than the one that was clicked.
RequestsHitTarget ==
    \A p \in clients : outbox[p] /= <<>> =>
        game.objects[Head(outbox[p]).id] \in {nil, Head(outbox[p]).obj}

(***************************************************************************)
(* "RMIs on objects in the game world, which it will pcall and then think  *)
(* no more of" (doc/SERVER:23): whatever the user clicks, the server does  *)
(* not disconnect a client that is running.                                *)
(***************************************************************************)
ClicksAreHarmless == [][clients \subseteq online']_vars

(***************************************************************************)
(* The server's half of every behaviour is one of Table's: requests that   *)
(* were overtaken by others, clients that vanish with requests in flight   *)
(* and players who come back leave the server in states Table describes,   *)
(* so what is proved of Table holds of the running system.                 *)
(***************************************************************************)
ImplementsTable == T!Spec
=============================================================================
