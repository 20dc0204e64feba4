-------------------------------- MODULE Wire --------------------------------
(***************************************************************************)
(* One connection as a stream of bytes: how messages are cut into bytes    *)
(* and put together again by ServerReader and ServerWriter on the client   *)
(* (client/Client.lua) and by receiveOne and sendOne on the server         *)
(* (server/ClientWorker.lua).                                              *)
(*                                                                         *)
(* A message is its length in base ten, a newline and that many bytes.     *)
(* The socket buffers are bounded, so that a send may find room for part   *)
(* of a message only.  The client's calls have a time-out, except once it  *)
(* has read a header: ServerReader then makes the socket block, and it     *)
(* still does when ServerWriter uses it in the same step.  The server's    *)
(* calls always block.                                                     *)
(***************************************************************************)
EXTENDS Integers, SequencesExt

CONSTANTS
    Base,             \* the base of the headers' numbers; ten in the code
    Sizes,            \* the lengths of messages
    ByeSize,          \* the length of the message client.disconnect sends
    Settings,         \* how large the buffers may be, and what may go wrong
    TimeoutInHeader,  \* whether a read may time out within a header
    MaxUp,            \* bound on the requests of the client
    MaxDown           \* bound on the messages for it

ASSUME WireAssumption ==
    /\ Base \in Nat \ {0, 1}
    /\ Sizes \cup {ByeSize} \subseteq Nat \ {0}
    /\ Settings \subseteq [up : Nat \ 0..2, down : Nat \ 0..2, fails : BOOLEAN]
    /\ TimeoutInHeader \in BOOLEAN
    /\ MaxUp \in Nat
    /\ MaxDown \in Nat

VARIABLES
    setting,  \* the bytes that fit between client and server, and between
              \* server and client, and whether the client may raise an
              \* error on a message; it never changes
    up,       \* the bytes between client and server
    down,     \* the bytes between server and client
    requests, \* the lengths of the messages the client has queued so far
    casts,    \* the lengths of the messages queued for it so far
    client,   \* client.step: where it is, and its buffers
    server,   \* server.step, as far as this connection is concerned
    heard     \* what each end has handed to box.unpack so far

vars == <<setting, up, down, requests, casts, client, server, heard>>

-----------------------------------------------------------------------------
(***************************************************************************)
(* Messages and bytes.  A byte of a body is told by its place in it; it is *)
(* neither a digit nor a newline.                                          *)
(***************************************************************************)

Digit(d) == <<"digit", d, 0>>
Newline == <<"newline", 0, 0>>
Body(id, size) == [i \in 1..size |-> <<"body", id, i>>]

\* tostring(#buf)
Digits(n) ==
    LET D[m \in 0..n] == IF m < Base THEN <<Digit(m)>>
                         ELSE Append(D[m \div Base], Digit(m % Base))
    IN  D[n]

\* string.format("%d\n%s", #buf, buf)
Frame(id, size) == Digits(size) \o <<Newline>> \o Body(id, size)

\* tonumber
IsNumber(line) == line /= <<>> /\ \A i \in DOMAIN line : line[i][1] = "digit"
Number(line) == FoldLeft(LAMBDA n, byte : Base * n + byte[2], 0, line)

\* The place of the first newline, 0 if there is none.
LineEnd(bytes) == SelectInSeq(bytes, LAMBDA byte : byte = Newline)

First(n, bytes) == SubSeq(bytes, 1, n)
Rest(n, bytes) == SubSeq(bytes, n + 1, Len(bytes))
Least(m, n) == IF m < n THEN m ELSE n

Room(buffer, cap) == cap - Len(buffer)

-----------------------------------------------------------------------------
(***************************************************************************)
(* The client.  Its pc is "read" in ServerReader, "body" in ServerReader's *)
(* second receive, "write" in ServerWriter and "closed" when it has        *)
(* disconnected.  Its sendq are the requests it has not taken yet.         *)
(***************************************************************************)

Init ==
    /\ setting \in Settings
    /\ up = <<>>
    /\ down = <<>>
    /\ requests = <<>>
    /\ casts = <<>>
    /\ client = [pc |-> "read", blocking |-> FALSE, taken |-> 0, sendbuf |-> <<>>,
                 need |-> 0, data |-> <<>>]
    /\ server = [pc |-> "select", writable |-> FALSE, taken |-> 0, sendbuf |-> <<>>,
                 need |-> 0, data |-> <<>>]
    /\ heard = [client |-> <<>>, server |-> <<>>]

\* client.send: the user does something between two steps.
Ask(size) ==
    /\ client.pc = "read"
    /\ Len(requests) < MaxUp
    /\ requests' = Append(requests, size)
    /\ UNCHANGED <<setting, up, down, casts, client, server, heard>>

(***************************************************************************)
(* client.disconnect, after an error in ServerReader.  The parting message *)
(* is sent with a time-out, as far as it fits, whatever else is on its way.*)
(***************************************************************************)
Disconnect ==
    /\ client' = [client EXCEPT !.pc = "closed"]
    /\ up' = up \o First(Least(Room(up, setting.up), Len(Frame(0, ByeSize))), Frame(0, ByeSize))

(***************************************************************************)
(* receive("*l") times out.  What it has read of the line is lost:         *)
(* ServerReader ignores the third result of receive.                       *)
(***************************************************************************)
ReadTimesOut ==
    /\ client.pc = "read"
    /\ LET end == LineEnd(down)
           part == IF end > 0 THEN end - 1 ELSE Len(down)
       IN  \E n \in 0..part :
              /\ TimeoutInHeader \/ (n = 0 /\ (end > 0 \/ down = <<>>))
              /\ down' = Rest(n, down)
    /\ client' = [client EXCEPT !.pc = "write", !.blocking = FALSE]
    /\ UNCHANGED <<setting, up, requests, casts, server, heard>>

\* receive("*l") returns a line.
ReadHeader ==
    /\ client.pc = "read"
    /\ LineEnd(down) > 0
    /\ LET line == First(LineEnd(down) - 1, down)
       IN  IF IsNumber(line)
           THEN /\ client' = [client EXCEPT !.pc = "body", !.blocking = TRUE,
                                            !.need = Number(line), !.data = <<>>]
                /\ up' = up
           ELSE Disconnect
    /\ down' = Rest(LineEnd(down), down)
    /\ UNCHANGED <<setting, requests, casts, server, heard>>

\* receive(n) takes what there is of the body.
ReadBody ==
    /\ client.pc = "body"
    /\ Len(client.data) < client.need
    /\ down /= <<>>
    /\ LET n == Least(client.need - Len(client.data), Len(down))
       IN  /\ client' = [client EXCEPT !.data = @ \o First(n, down)]
           /\ down' = Rest(n, down)
    /\ UNCHANGED <<setting, up, requests, casts, server, heard>>

\* receive(n) returns.  box.unpack or DispatchMessage may raise an error.
DispatchMessage ==
    /\ client.pc = "body"
    /\ Len(client.data) = client.need
    /\ heard' = [heard EXCEPT !.client = Append(@, client.data)]
    /\ \/ client' = [client EXCEPT !.pc = "write"] /\ up' = up
       \/ setting.fails /\ Disconnect
    /\ UNCHANGED <<setting, down, requests, casts, server>>

\* Mutant: the next message is taken although the last one is not all sent.
TakeMessageEarly ==
    /\ client.pc = "write"
    /\ client.taken < Len(requests)
    /\ client' = [client EXCEPT !.sendbuf = Frame(client.taken + 1, requests[client.taken + 1]),
                                !.taken = @ + 1]
    /\ UNCHANGED <<setting, up, down, requests, casts, server, heard>>

\* ServerWriter has nothing left to send and takes the next message, if any.
TakeMessage ==
    /\ client.pc = "write"
    /\ client.sendbuf = <<>>
    /\ client' = IF client.taken = Len(requests)
                 THEN [client EXCEPT !.pc = "read"]
                 ELSE [client EXCEPT !.sendbuf = Frame(client.taken + 1, requests[client.taken + 1]),
                                     !.taken = @ + 1]
    /\ UNCHANGED <<setting, up, down, requests, casts, server, heard>>

\* Mutant: the last byte that was sent is sent again.
SendBytesTwice ==
    /\ client.pc = "write"
    /\ client.sendbuf /= <<>>
    /\ LET n == Least(Room(up, setting.up), Len(client.sendbuf))
           rest == IF n = Len(client.sendbuf) THEN <<>> ELSE Rest(n - 1, client.sendbuf)
       IN  /\ n > 0
           /\ up' = up \o First(n, client.sendbuf)
           /\ client' = [client EXCEPT !.sendbuf = rest,
                                       !.pc = IF rest = <<>> THEN "read" ELSE "write"]
    /\ UNCHANGED <<setting, down, requests, casts, server, heard>>

\* send puts what fits into the buffer, and returns when all has gone.
SendBytes ==
    /\ client.pc = "write"
    /\ client.sendbuf /= <<>>
    /\ LET n == Least(Room(up, setting.up), Len(client.sendbuf))
           rest == Rest(n, client.sendbuf)
       IN  /\ n > 0
           /\ up' = up \o First(n, client.sendbuf)
           /\ client' = [client EXCEPT !.sendbuf = rest,
                                       !.pc = IF rest = <<>> THEN "read" ELSE "write"]
    /\ UNCHANGED <<setting, down, requests, casts, server, heard>>

\* send times out; the rest of the message is kept for the next step.
SendTimesOut ==
    /\ client.pc = "write"
    /\ client.sendbuf /= <<>>
    /\ Room(up, setting.up) = 0
    /\ ~client.blocking
    /\ client' = [client EXCEPT !.pc = "read"]
    /\ UNCHANGED <<setting, up, down, requests, casts, server, heard>>

ClientStep ==
    \/ ReadTimesOut \/ ReadHeader \/ ReadBody \/ DispatchMessage
    \/ TakeMessage \/ SendBytes \/ SendTimesOut

-----------------------------------------------------------------------------
(***************************************************************************)
(* The server.  Its pc is "select" in socket.select, "read" and "body" in  *)
(* receiveOne's two calls of receive, "others" when it is done reading     *)
(* from this client, "write" in sendOne and "closed" when it has           *)
(* disconnected the client.                                                *)
(***************************************************************************)

\* socket.select; a connection the client has closed is readable, too.
Select ==
    /\ server.pc = "select"
    /\ server' = [server EXCEPT
          !.pc = IF up /= <<>> \/ client.pc = "closed" THEN "read" ELSE "others",
          !.writable = Room(down, setting.down) > 0]
    /\ UNCHANGED <<setting, up, down, requests, casts, client, heard>>

\* server.send: what other clients asked for is broadcast to this one.
Broadcast(size) ==
    /\ server.pc = "others"
    /\ Len(casts) < MaxDown
    /\ casts' = Append(casts, size)
    /\ UNCHANGED <<setting, up, down, requests, client, server, heard>>

\* receiveOne reads a header; one that is malformed ends the connection.
ReceiveHeader ==
    /\ server.pc = "read"
    /\ LineEnd(up) > 0
    /\ LET line == First(LineEnd(up) - 1, up)
       IN  IF IsNumber(line)
           THEN /\ server' = [server EXCEPT !.pc = "body", !.need = Number(line), !.data = <<>>]
                /\ client' = client
           ELSE /\ server' = [server EXCEPT !.pc = "closed"]
                /\ client' = [client EXCEPT !.pc = "closed"]
    /\ up' = Rest(LineEnd(up), up)
    /\ UNCHANGED <<setting, down, requests, casts, heard>>

\* receiveOne takes what there is of the body.
ReceiveBody ==
    /\ server.pc = "body"
    /\ Len(server.data) < server.need
    /\ up /= <<>>
    /\ LET n == Least(server.need - Len(server.data), Len(up))
       IN  /\ server' = [server EXCEPT !.data = @ \o First(n, up)]
           /\ up' = Rest(n, up)
    /\ UNCHANGED <<setting, down, requests, casts, client, heard>>

\* receiveOne hands the body to box.unpack and dispatches the message.
Dispatch ==
    /\ server.pc = "body"
    /\ Len(server.data) = server.need
    /\ heard' = [heard EXCEPT !.server = Append(@, server.data)]
    /\ server' = [server EXCEPT !.pc = "others"]
    /\ UNCHANGED <<setting, up, down, requests, casts, client>>

\* sendOne, if the socket was writable; it takes a message off the sendq.
SendOne ==
    /\ server.pc = "others"
    /\ server' = IF server.writable /\ server.taken < Len(casts)
                 THEN [server EXCEPT !.pc = "write", !.taken = @ + 1,
                          !.sendbuf = Frame(server.taken + 1, casts[server.taken + 1])]
                 ELSE [server EXCEPT !.pc = "select"]
    /\ UNCHANGED <<setting, up, down, requests, casts, client, heard>>

\* send blocks until the whole message has gone.
Send ==
    /\ server.pc = "write"
    /\ LET n == Least(Room(down, setting.down), Len(server.sendbuf))
           rest == Rest(n, server.sendbuf)
       IN  /\ n > 0
           /\ down' = down \o First(n, server.sendbuf)
           /\ server' = [server EXCEPT !.sendbuf = rest,
                                       !.pc = IF rest = <<>> THEN "select" ELSE "write"]
    /\ UNCHANGED <<setting, up, requests, casts, client, heard>>

\* receive or send finds that the client has closed the connection: the
\* client is unregistered.
NoticeClosed ==
    /\ client.pc = "closed"
    /\ \/ server.pc = "read" /\ LineEnd(up) = 0
       \/ server.pc = "body" /\ Len(server.data) < server.need /\ up = <<>>
       \/ server.pc = "write"
    /\ server' = [server EXCEPT !.pc = "closed"]
    /\ UNCHANGED <<setting, up, down, requests, casts, client, heard>>

ServerStep ==
    \/ Select \/ ReceiveHeader \/ ReceiveBody \/ Dispatch
    \/ SendOne \/ Send \/ NoticeClosed

\* Both ends have closed the connection.
Over ==
    /\ client.pc = "closed"
    /\ server.pc = "closed"
    /\ UNCHANGED vars

Next ==
    \/ ClientStep
    \/ ServerStep
    \/ \E size \in Sizes : Ask(size) \/ Broadcast(size)
    \/ Over

(***************************************************************************)
(* The client's program calls client.step for ever and server.loop calls   *)
(* server.step for ever.  What was sent arrives some time: the client does *)
(* not always time out before it has read a line that is there.            *)
(***************************************************************************)
Spec ==
    /\ Init
    /\ [][Next]_vars
    /\ WF_vars(ClientStep)
    /\ WF_vars(ServerStep)
    /\ SF_vars(ReadHeader)
-----------------------------------------------------------------------------
(***************************************************************************)
(* Properties.                                                             *)
(***************************************************************************)

Bytes == {Digit(d) : d \in 0..Base - 1} \cup {Newline} \cup ({"body"} \X Nat \X Nat)

(***************************************************************************)
(* Every variable has its type, and no buffer holds more than fits.        *)
(***************************************************************************)
TypeOK ==
    /\ setting \in Settings
    /\ up \in Seq(Bytes) /\ Len(up) <= setting.up
    /\ down \in Seq(Bytes) /\ Len(down) <= setting.down
    /\ requests \in Seq(Sizes) /\ Len(requests) <= MaxUp
    /\ casts \in Seq(Sizes) /\ Len(casts) <= MaxDown
    /\ client.pc \in {"read", "body", "write", "closed"}
    /\ server.pc \in {"select", "read", "body", "others", "write", "closed"}
    /\ client.blocking \in BOOLEAN /\ server.writable \in BOOLEAN
    /\ \A e \in {client, server} :
          /\ {e.taken, e.need} \subseteq Nat
          /\ {e.sendbuf, e.data} \subseteq Seq(Bytes)

(***************************************************************************)
(* What the server hands to box.unpack is what the client packed, message  *)
(* by message and in order, although ServerWriter sends messages in pieces *)
(* over several steps.  "A message consists of a length in bytes, a        *)
(* newline, and then that many bytes of data." (lib/socket-helpers.lua:2)  *)
(***************************************************************************)
ServerUnderstands ==
    \A i \in DOMAIN heard.server :
        \/ i <= Len(requests) /\ heard.server[i] = Body(i, requests[i])
        \/ i > client.taken /\ heard.server[i] = Body(0, ByeSize)

\* Likewise what the client hands to box.unpack.
ClientUnderstands ==
    /\ Len(heard.client) <= Len(casts)
    /\ \A i \in DOMAIN heard.client : heard.client[i] = Body(i, casts[i])

\* Neither end ever takes bytes for another message than the one written.
BothUnderstand == ServerUnderstands /\ ClientUnderstands

(***************************************************************************)
(* Every request is dispatched and every broadcast reaches the client,     *)
(* unless the client fails on a message: neither end ever hangs up because *)
(* it takes part of a message for a header, and the two never wait for     *)
(* each other for ever.                                                    *)
(***************************************************************************)
AllDelivered ==
    LET failed == setting.fails /\ client.pc = "closed"
    IN  /\ \A i \in 1..MaxUp : Len(requests) >= i ~> (Len(heard.server) >= i \/ failed)
        /\ \A i \in 1..MaxDown : Len(casts) >= i ~> (Len(heard.client) >= i \/ failed)
=============================================================================
