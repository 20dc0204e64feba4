------------------------------- MODULE Session -------------------------------
(***************************************************************************)
(* Connections: the server's main loop (server/Server.lua), the worker it  *)
(* keeps for each socket (server/ClientWorker.lua) and the client's end of *)
(* the connection (client/Client.lua).  The game is left out except for    *)
(* one bit per player object: whether it has been told to disconnect since *)
(* it last logged in.                                                      *)
(*                                                                         *)
(* server.step reads and writes sockets that an earlier select found       *)
(* ready, one message each, and any of those reads may close a connection. *)
(* Reads block: a client that has written half a message stops the whole   *)
(* server until it writes the rest or closes.                              *)
(***************************************************************************)
EXTENDS Integers, FiniteSets, SequencesExt

CONSTANTS
    Conn,        \* connections, one per run of a client
    Name,        \* strings that players and workers are called
    nil,         \* Lua's nil
    AddressName, \* "client:<address>" for each connection; some share an address
    LoginName,   \* the name each connection's client logs in with
    BadPass,     \* the connections whose client has the wrong password
    MaxMessages  \* bound on the messages each client sends after its login

ASSUME SessionAssumption ==
    /\ nil \notin Conn \cup Name
    /\ AddressName \in [Conn -> Name]
    /\ LoginName \in [Conn -> Name]
    /\ BadPass \subseteq Conn
    /\ MaxMessages \in [Conn -> Nat]

VARIABLES
    peer,       \* the client's end of each connection
    backlog,    \* connections the server has not accepted yet
    wire,       \* the messages on their way from each client
    whole,      \* FALSE if the last of them is still being written
    sent,       \* the messages each client has sent while it ran, login included
    sockets,    \* _sockets, in the order in which they were accepted
    workers,    \* the sockets with an entry in _clients
    name,       \* the name of the worker of each connection that has had one
    player,     \* the name of the player object of each worker that has one
    players,    \* _players
    active,     \* the player objects that have not been disconnected
    sendq,      \* the number of messages in each worker's sendq
    phase,      \* where server.step is
    rr,         \* sockets select found readable and step has not yet read
    wr          \* sockets select found writable and step has not yet served

clientVars == <<peer, backlog, wire, whole, sent>>
serverVars == <<sockets, workers, name, player, players, active, sendq, phase, rr, wr>>
vars == <<clientVars, serverVars>>

Peer  == {"none", "open", "closed"}
Kind  == {"login", "chat", "rmi"}
Phase == {"accept", "select", "read", "write", "dead"}

-----------------------------------------------------------------------------
(***************************************************************************)
(* The client's end.                                                       *)
(***************************************************************************)

\* client.connect; the login is the first thing client.step writes.
Connect(c) ==
    /\ peer[c] = "none" /\ phase /= "dead"
    /\ peer' = [peer EXCEPT ![c] = "open"]
    /\ backlog' = Append(backlog, c)
    /\ UNCHANGED <<wire, whole, sent, serverVars>>

\* ServerWriter writes the first part of a message.  A client clicks and
\* chats once it has been sent the game.
BeginMessage(c, kind) ==
    /\ peer[c] = "open"
    /\ whole[c]
    /\ IF kind = "login"
       THEN sent[c] = 0
       ELSE players[LoginName[c]] = c /\ sent[c] <= MaxMessages[c]
    /\ wire' = [wire EXCEPT ![c] = Append(@, kind)]
    /\ whole' = [whole EXCEPT ![c] = FALSE]
    /\ sent' = [sent EXCEPT ![c] = @ + 1]
    /\ UNCHANGED <<peer, backlog, serverVars>>

\* ServerWriter writes the rest of it.
EndMessage(c) ==
    /\ peer[c] = "open"
    /\ ~whole[c]
    /\ whole' = [whole EXCEPT ![c] = TRUE]
    /\ UNCHANGED <<peer, backlog, wire, sent, serverVars>>

\* client.disconnect, or the end of the process, perhaps amid a message, or a
\* connection that was reset.
Close(c) ==
    /\ peer[c] = "open"
    /\ peer' = [peer EXCEPT ![c] = "closed"]
    /\ sent' = [sent EXCEPT ![c] = 0]
    /\ UNCHANGED <<backlog, wire, whole, serverVars>>

-----------------------------------------------------------------------------
(***************************************************************************)
(* What the server's loop calls.                                           *)
(***************************************************************************)

\* server.send: one more message for every logged-in client.
Sent(q, roster) == [c \in Conn |-> IF \E n \in Name : roster[n] = c THEN q[c] + 1 ELSE q[c]]

\* An error that nothing catches ends server.loop and the program, and with it
\* every connection.
Stop ==
    /\ phase' = "dead"
    /\ peer' = [c \in Conn |-> IF peer[c] = "none" THEN "none" ELSE "closed"]

\* Mutant: the player object is not told that its client has gone.
UnregisterSilently(c, rest) ==
    /\ workers' = workers \ {c}
    /\ players' = [players EXCEPT ![name[c]] = nil]
    /\ sockets' = RemoveFirst(sockets, c)
    /\ peer' = [peer EXCEPT ![c] = "closed"]
    /\ wire' = [wire EXCEPT ![c] = <<>>]
    /\ whole' = [whole EXCEPT ![c] = TRUE]
    /\ sendq' = [sendq EXCEPT ![c] = 0]
    /\ UNCHANGED <<name, player, active>>

(***************************************************************************)
(* ClientWorker.disconnect and server.unregister.  If the worker's name is *)
(* in _players, the worker's player object is told, which broadcasts a     *)
(* message.  A worker that has not logged in has no player object: if its  *)
(* client:<address> is in _players all the same, the call is an error, and *)
(* the socket stays open and in _sockets, with rest yet to be read from    *)
(* it, but without a worker.  This error ends in the xpcall of receiveOne  *)
(* or sendOne, whose handler can do no better.  Otherwise the client finds *)
(* the connection closed.                                                  *)
(***************************************************************************)
Unregister(c, rest) ==
    LET n      == name[c]
        listed == players[n] /= nil
    IN  /\ workers' = workers \ {c}
        /\ \/ /\ listed /\ player[c] = nil
              /\ sendq' = [sendq EXCEPT ![c] = 0]
              /\ wire' = [wire EXCEPT ![c] = rest]
              /\ UNCHANGED <<players, active, sockets, peer, whole>>
           \/ /\ listed => player[c] /= nil
              /\ sendq' = [IF listed THEN Sent(sendq, players) ELSE sendq EXCEPT ![c] = 0]
              /\ active' = IF listed THEN active \ {player[c]} ELSE active
              /\ players' = [players EXCEPT ![n] = nil]
              /\ sockets' = RemoveFirst(sockets, c)
              /\ peer' = [peer EXCEPT ![c] = "closed"]
              /\ wire' = [wire EXCEPT ![c] = <<>>]
              /\ whole' = [whole EXCEPT ![c] = TRUE]
        /\ UNCHANGED <<name, player>>

\* The player is added, and everyone who is logged in is sent what follows.
Join(c) ==
    LET n == LoginName[c]
    IN  /\ name' = [name EXCEPT ![c] = n]
        /\ player' = [player EXCEPT ![c] = n]
        /\ players' = [players EXCEPT ![n] = c]
        /\ active' = active \cup {n}
        /\ sendq' = Sent(Sent(sendq, players'), players')
        /\ wire' = [wire EXCEPT ![c] = Tail(@)]
        /\ UNCHANGED <<sockets, workers, peer, whole>>

\* Mutant: the name is not checked.
LoginTakesOver(c) == IF c \in BadPass THEN Unregister(c, Tail(wire[c])) ELSE Join(c)

\* Mutant: the connection that has the name is closed, not the new one.
LoginEvicts(c) ==
    LET d == players[LoginName[c]]
    IN  IF d /= nil THEN Unregister(d, wire[d]) ELSE LoginTakesOver(c)

(***************************************************************************)
(* server.api.login.  An accepted client is sent the game, and the others  *)
(* the new player; then everyone is sent that it has joined.               *)
(***************************************************************************)
Login(c) ==
    IF c \in BadPass \/ players[LoginName[c]] /= nil
    THEN Unregister(c, Tail(wire[c]))
    ELSE Join(c)

\* server.api.chat, or an RMI that went well: at least one broadcast.
Handle(c) ==
    /\ sendq' = Sent(sendq, players)
    /\ wire' = [wire EXCEPT ![c] = Tail(@)]
    /\ UNCHANGED <<sockets, workers, name, player, players, active, peer, whole>>

\* The next message of c has arrived completely.
Arrived(c) == wire[c] /= <<>> /\ (whole[c] \/ Len(wire[c]) > 1)

Readable(c) == wire[c] /= <<>> \/ peer[c] = "closed"

-----------------------------------------------------------------------------
(***************************************************************************)
(* server.step.                                                            *)
(***************************************************************************)

Init ==
    /\ peer = [c \in Conn |-> "none"]
    /\ backlog = <<>>
    /\ wire = [c \in Conn |-> <<>>]
    /\ whole = [c \in Conn |-> TRUE]
    /\ sent = [c \in Conn |-> 0]
    /\ sockets = <<>>
    /\ workers = {}
    /\ name = [c \in Conn |-> nil]
    /\ player = [c \in Conn |-> nil]
    /\ players = [n \in Name |-> nil]
    /\ active = {}
    /\ sendq = [c \in Conn |-> 0]
    /\ phase = "accept"
    /\ rr = <<>>
    /\ wr = <<>>

\* server.register.  The worker asks for the address of its peer; if the
\* connection was reset while it was waiting, there is none, and the error that
\* this leads to is not caught.
Register(c) ==
    /\ sockets' = Append(sockets, c)
    /\ \/ /\ workers' = workers \cup {c}
          /\ name' = [name EXCEPT ![c] = AddressName[c]]
          /\ phase' = "select"
          /\ UNCHANGED peer
       \/ /\ peer[c] = "closed"
          /\ Stop
          /\ UNCHANGED <<workers, name>>

\* _socket:accept
Accept ==
    /\ phase = "accept"
    /\ IF backlog = <<>>
       THEN phase' = "select" /\ UNCHANGED <<peer, backlog, sockets, workers, name>>
       ELSE Register(Head(backlog)) /\ backlog' = Tail(backlog)
    /\ UNCHANGED <<wire, whole, sent, player, players, active, sendq, rr, wr>>

\* What is returned of the list q: its elements in T, in the order of q.
Keep(q, T) ==
    LET kept[i \in 0..Len(q)] ==
            IF i = 0 THEN <<>>
            ELSE IF q[i] \in T THEN Append(kept[i - 1], q[i]) ELSE kept[i - 1]
    IN  kept[Len(q)]

CanRead == {c \in Conn : Readable(c)}

\* Mutant: only the sockets that can be read are offered for writing.
SelectReadableOnly ==
    /\ phase = "select"
    /\ phase' = "read"
    /\ rr' = Keep(sockets, CanRead)
    /\ wr' = Keep(sockets, CanRead)
    /\ UNCHANGED <<clientVars, sockets, workers, name, player, players, active, sendq>>

\* Every socket is writable: the model does not fill the send buffers.
Select ==
    /\ phase = "select"
    /\ phase' = "read"
    /\ rr' = Keep(sockets, CanRead)
    /\ wr' = sockets
    /\ UNCHANGED <<clientVars, sockets, workers, name, player, players, active, sendq>>

\* Mutant: an error is logged and otherwise ignored.
ReceiveOneIgnoresErrors ==
    /\ phase = "read"
    /\ rr /= <<>>
    /\ LET c == Head(rr)
       IN  \/ /\ ~Arrived(c) /\ peer[c] = "closed"
              /\ UNCHANGED <<peer, wire, whole, sockets, workers, name, player, players,
                             active, sendq>>
           \/ /\ Arrived(c)
              /\ IF Head(wire[c]) = "login" THEN Login(c) ELSE Handle(c)
    /\ rr' = Tail(rr)
    /\ UNCHANGED <<backlog, sent, phase, wr>>

(***************************************************************************)
(* receiveOne for the next readable socket.  It blocks until a message has *)
(* arrived or the connection is closed, and disconnects the client on any  *)
(* error: a closed connection, or an RMI that fails.  Calling it for a     *)
(* socket without a worker is an error of the loop itself.                 *)
(***************************************************************************)
ReceiveOne ==
    /\ phase = "read"
    /\ rr /= <<>>
    /\ LET c == Head(rr)
       IN  \/ /\ c \in workers /\ ~Arrived(c) /\ peer[c] = "closed"
              /\ Unregister(c, wire[c])
              /\ UNCHANGED phase
           \/ /\ c \in workers /\ Arrived(c)
              /\ CASE Head(wire[c]) = "login" -> Login(c)
                   [] Head(wire[c]) = "chat"  -> Handle(c)
                   [] Head(wire[c]) = "rmi"   -> Handle(c) \/ Unregister(c, Tail(wire[c]))
              /\ UNCHANGED phase
           \/ /\ c \notin workers
              /\ Stop
              /\ UNCHANGED <<wire, whole, sockets, workers, name, player, players, active,
                             sendq>>
    /\ rr' = Tail(rr)
    /\ UNCHANGED <<backlog, sent, wr>>

EndRead ==
    /\ phase = "read"
    /\ rr = <<>>
    /\ phase' = "write"
    /\ UNCHANGED <<clientVars, sockets, workers, name, player, players, active, sendq, rr, wr>>

(***************************************************************************)
(* sendOne for the next writable socket, unless its client was culled      *)
(* while step was reading.  Sending to a closed connection may go          *)
(* unnoticed.                                                              *)
(***************************************************************************)
SendOne ==
    /\ phase = "write"
    /\ wr /= <<>>
    /\ LET c == Head(wr)
       IN  \/ /\ c \in workers /\ sendq[c] > 0
              /\ sendq' = [sendq EXCEPT ![c] = @ - 1]
              /\ UNCHANGED <<peer, wire, whole, sockets, workers, name, player, players, active>>
           \/ /\ c \in workers /\ sendq[c] > 0 /\ peer[c] = "closed"
              /\ Unregister(c, wire[c])
           \/ /\ c \notin workers \/ sendq[c] = 0
              /\ UNCHANGED <<peer, wire, whole, sockets, workers, name, player, players,
                             active, sendq>>
    /\ wr' = Tail(wr)
    /\ UNCHANGED <<backlog, sent, phase, rr>>

EndWrite ==
    /\ phase = "write"
    /\ wr = <<>>
    /\ phase' = "accept"
    /\ UNCHANGED <<clientVars, sockets, workers, name, player, players, active, sendq, rr, wr>>

Step == Accept \/ Select \/ ReceiveOne \/ EndRead \/ SendOne \/ EndWrite

Next ==
    \/ Step
    \/ \E c \in Conn : \/ Connect(c)
                       \/ \E kind \in Kind : BeginMessage(c, kind)
                       \/ EndMessage(c)
                       \/ Close(c)

(***************************************************************************)
(* server.loop calls step for ever, unless an error ends it, and a client  *)
(* that has begun to write a message goes on writing whenever client.step  *)
(* runs.  Nothing makes a client connect, log in, speak or leave.          *)
(***************************************************************************)
Fairness == WF_vars(Step) /\ \A c \in Conn : WF_vars(EndMessage(c))

Spec == Init /\ [][Next]_vars /\ Fairness
-----------------------------------------------------------------------------
(***************************************************************************)
(* Properties.                                                             *)
(***************************************************************************)

\* Every variable has its type, and no queue overflows its bound.
TypeOK ==
    /\ peer \in [Conn -> Peer]
    /\ \A c \in Conn : Range(wire[c]) \subseteq Kind
    /\ whole \in [Conn -> BOOLEAN]
    /\ \A c \in Conn : sent[c] \in 0..MaxMessages[c] + 1
    /\ Range(sockets) \cup workers \cup Range(rr) \cup Range(wr) \subseteq Conn
    /\ name \in [Conn -> Name \cup {nil}]
    /\ player \in [Conn -> Name \cup {nil}]
    /\ players \in [Name -> Conn \cup {nil}]
    /\ active \subseteq Name
    /\ sendq \in [Conn -> Nat]
    /\ phase \in Phase

\* A client has logged in under the name that c's worker has before its login.
AddressTaken(c) == \E d \in Conn : player[d] = AddressName[c]

(***************************************************************************)
(* The server's records of who is there agree whatever happens in a step:  *)
(* a worker has a socket, a name in _players belongs to a worker of that   *)
(* name, and the player object is active exactly while the name is in      *)
(* _players.  Only a connection that has never logged in can be left with  *)
(* a socket and no worker, and while the loop goes on only if a client has *)
(* logged in under its client:<address> (Server.lua:112).                  *)
(***************************************************************************)
RosterConsistent ==
    /\ workers \subseteq Range(sockets) /\ IsInjective(sockets)
    /\ \A c \in Range(sockets) \ workers :
          player[c] = nil /\ (AddressTaken(c) \/ phase = "dead")
    /\ \A n \in Name : players[n] /= nil =>
          players[n] \in workers /\ name[players[n]] = n /\ player[players[n]] = n
    /\ active = {n \in Name : players[n] /= nil}

(***************************************************************************)
(* step uses _clients[sock] unchecked while it reads (Server.lua:54).  No  *)
(* read of the same step takes away a socket that is still to be read: the *)
(* sockets without a worker are those left so by an error in unregister.   *)
(* Nothing but these, and connections reset before they had a worker, ends *)
(* the loop.                                                               *)
(***************************************************************************)
ReadableHaveWorkers ==
    LET Orphans == Range(sockets) \ workers
    IN  /\ \A c \in Range(rr) : c \in workers \/ (c \in Orphans /\ AddressTaken(c))
        /\ phase = "dead" => \E c \in Orphans : AddressTaken(c) \/ name[c] = nil

(***************************************************************************)
(* "If something goes wrong (corrupt message received, socket closed), the *)
(* ClientReader closes the socket" (doc/SERVER:25).  The code does not, in *)
(* an instance where a player is called as a connection is before login.   *)
(***************************************************************************)
ErrorsClose == phase /= "dead" => Range(sockets) \subseteq workers

\* "Name already in use": a name passes from one connection to another only
\* after the first one was unregistered.
NamesNotTakenOver ==
    [][\A n \in Name : players[n] /= nil => players'[n] \in {nil, players[n]}]_vars

\* A connection that was closed does not haunt the server: its socket is
\* removed, and with it the player's claim to the name, unless the loop ends.
ClosedAreCulled ==
    \A c \in Conn : peer[c] = "closed" ~>
        (c \notin Range(backlog) \cup Range(sockets) \cup workers \/ phase = "dead")

\* What is queued for a client is sent, if the client stays and the server's end
\* closes no connections: a step sends each client one message, however many
\* its reads have queued.
QueuesDrain == \A c \in Conn : sendq[c] > 0 ~> (sendq[c] = 0 \/ peer[c] = "closed")
=============================================================================
