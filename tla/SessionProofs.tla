--------------------------- MODULE SessionProofs ----------------------------
(***************************************************************************)
(* Proofs about Session, for every set of connections, names and passwords *)
(* and any number of messages.                                             *)
(***************************************************************************)
EXTENDS Session, SequenceLemmas

-----------------------------------------------------------------------------
(***************************************************************************)
(* The inductive invariant.                                                *)
(***************************************************************************)

\* The variables keep their types, and no client sends more than its share.
Types ==
    /\ peer \in [Conn -> Peer]
    /\ backlog \in Seq(Conn)
    /\ wire \in [Conn -> Seq(Kind)]
    /\ whole \in [Conn -> BOOLEAN]
    /\ sent \in [Conn -> Nat]
    /\ \A c \in Conn : sent[c] <= MaxMessages[c] + 1
    /\ sockets \in Seq(Conn)
    /\ workers \subseteq Conn
    /\ name \in [Conn -> Name \cup {nil}]
    /\ player \in [Conn -> Name \cup {nil}]
    /\ players \in [Name -> Conn \cup {nil}]
    /\ active \subseteq Name
    /\ sendq \in [Conn -> Nat]
    /\ phase \in Phase
    /\ rr \in Seq(Conn)
    /\ wr \in Seq(Conn)

\* A connection is new when it is accepted: it waits once, and has not had a
\* socket, a worker or a player.
AcceptedOnce ==
    /\ IsInjective(backlog)
    /\ \A c \in Range(backlog) : peer[c] /= "none"
    /\ \A c \in Conn : peer[c] = "none" \/ c \in Range(backlog) =>
          c \notin Range(sockets) /\ name[c] = nil /\ player[c] = nil

\* A worker has the name of its address until its client logs in, and then that
\* of its player, which _players has for it as long as there is the worker.
OwnNames ==
    /\ \A c \in Conn : player[c] \in {nil, LoginName[c]}
    /\ \A c \in workers :
          /\ name[c] = IF player[c] = nil THEN AddressName[c] ELSE player[c]
          /\ player[c] /= nil => players[player[c]] = c

\* No socket is read twice in a step, and none outside the reading phase.
ReadOnce ==
    /\ IsInjective(rr)
    /\ phase \notin {"read", "dead"} => rr = <<>>

Inv == Types /\ AcceptedOnce /\ OwnNames /\ ReadOnce /\ RosterConsistent /\ ReadableHaveWorkers

-----------------------------------------------------------------------------
(***************************************************************************)
(* What select returns.                                                    *)
(***************************************************************************)

\* f[i] is what is kept of the first i elements of q.
KeepSteps(f, q, T) ==
    /\ f[0] = <<>>
    /\ \A i \in 1..Len(q) :
          f[i] = IF q[i] \in T THEN Append(f[i - 1], q[i]) ELSE f[i - 1]

\* Keep is the result of going through the list from its first element on.
LEMMA KeepRecursion ==
    ASSUME NEW S, NEW q \in Seq(S), NEW T
    PROVE  \E f \in [0..Len(q) -> Seq(S)] : KeepSteps(f, q, T) /\ Keep(q, T) = f[Len(q)]
<1> DEFINE n == Len(q)
           step == [i \in 1..n |-> [r \in Seq(S) |-> IF q[i] \in T THEN Append(r, q[i]) ELSE r]]
           Val(f, i) == IF i = 0 THEN <<>>
                        ELSE IF q[i] \in T THEN Append(f[i - 1], q[i]) ELSE f[i - 1]
           g == CHOOSE h : h = [i \in 0..n |-> Val(h, i)]
<1>1. step \in [1..n -> [Seq(S) -> Seq(S)]] /\ n \in Nat /\ <<>> \in Seq(S)
  OBVIOUS
<1>2. PICK f \in [0..n -> Seq(S)] : f[0] = <<>> /\ \A i \in 1..n : f[i] = step[i][f[i - 1]]
  <2> DEFINE U == Seq(S)
             a == <<>>
  <2>1. step \in [1..n -> [U -> U]] /\ n \in Nat /\ a \in U
    BY <1>1
  <2> HIDE DEF step, n, U, a
  <2>2. \E f \in [0..n -> U] : f[0] = a /\ \A i \in 1..n : f[i] = step[i][f[i - 1]]
    BY <2>1, Recursion
  <2> QED
    BY <2>2 DEF U, a
<1>3. Keep(q, T) = g[n]
  BY DEF Keep
<1> HIDE DEF step, n, g
<1>4. ASSUME NEW i \in 0..n PROVE f[i] = Val(f, i)
  <2>1. CASE i = 0
    BY <2>1, <1>2
  <2>2. CASE i /= 0
    <3>1. i \in 1..n /\ i - 1 \in 0..n
      BY <2>2, <1>1
    <3>2. f[i - 1] \in Seq(S) /\ f[i] = step[i][f[i - 1]]
      BY <3>1, <1>2
    <3>3. step[i][f[i - 1]] = IF q[i] \in T THEN Append(f[i - 1], q[i]) ELSE f[i - 1]
      BY <3>1, <3>2 DEF step
    <3> QED
      BY <3>2, <3>3, <2>2
  <2> QED
    BY <2>1, <2>2
<1>5. \A i \in 0..n : g[i] = Val(g, i)
  <2> HIDE DEF Val
  <2>1. f = [i \in 0..n |-> Val(f, i)]
    BY <1>4
  <2>2. g = [i \in 0..n |-> Val(g, i)]
    BY <2>1 DEF g
  <2> QED
    BY <2>2
<1>6. ASSUME NEW i \in 0..n PROVE g[i] = f[i]
  <2> DEFINE E == {j \in 0..n : g[j] = f[j]}
  <2>1. 0 \in E
    BY <1>1, <1>4, <1>5
  <2>2. ASSUME NEW k \in 0..n, k \in E, k < n PROVE k + 1 \in E
    <3>1. k + 1 \in 0..n /\ k = (k + 1) - 1 /\ k + 1 /= 0
      BY <2>2, <1>1
    <3>2. Val(g, k + 1) = Val(f, k + 1)
      BY <2>2, <3>1
    <3> QED
      BY <3>1, <3>2, <1>4, <1>5
  <2>3. 0..n \subseteq E
    <3> HIDE DEF E
    <3> QED
      BY <2>1, <2>2, <1>1, Induction
  <2> QED
    BY <2>3
<1>7. Keep(q, T) = f[n]
  BY <1>3, <1>6, <1>1
<1>8. ASSUME NEW i \in 1..n
      PROVE  f[i] = IF q[i] \in T THEN Append(f[i - 1], q[i]) ELSE f[i - 1]
  <2>1. i \in 0..n /\ i /= 0
    BY <1>1
  <2>2. f[i] = Val(f, i)
    <3> HIDE DEF Val
    <3> QED
      BY <2>1, <1>4
  <2> QED
    BY <2>1, <2>2
<1>9. f[0] = <<>>
  BY <1>2
<1> QED
  BY <1>7, <1>8, <1>9 DEF n, KeepSteps

\* select returns sockets it was given, in their order and each once, and just
\* those that can be read.
LEMMA KeepProperties ==
    ASSUME NEW S, NEW q \in Seq(S), NEW T, IsInjective(q)
    PROVE  /\ Keep(q, T) \in Seq(S)
           /\ Range(Keep(q, T)) = Range(q) \cap T
           /\ IsInjective(Keep(q, T))
<1> DEFINE n == Len(q)
           First(k) == {q[i] : i \in 1..k} \cap T
<1>1. PICK f \in [0..n -> Seq(S)] : KeepSteps(f, q, T) /\ Keep(q, T) = f[n]
  BY KeepRecursion
<1> DEFINE E == {k \in 0..n : Range(f[k]) = First(k) /\ IsInjective(f[k])}
<1>2. n \in Nat /\ q \in [1..n -> S]
  BY LenProperties
<1> HIDE DEF n
<1>3. 0 \in E
  <2>1. First(0) = {}
    OBVIOUS
  <2>2. Range(<<>>) = {} /\ IsInjective(<<>>)
    BY DEF Range, IsInjective
  <2> QED
    BY <1>1, <1>2, <2>1, <2>2 DEF KeepSteps
<1>4. ASSUME NEW k \in 0..n, k \in E, k < n PROVE k + 1 \in E
  <2>1. k + 1 \in 1..n /\ (k + 1) - 1 = k /\ q[k + 1] \in S /\ f[k] \in Seq(S)
    BY <1>4, <1>2, <1>1
  <2>2. \A i \in 1..k : q[i] /= q[k + 1]
    BY <2>1, <1>2 DEF IsInjective
  <2>3. q[k + 1] \notin First(k)
    BY <2>2
  <2>4. First(k + 1) = First(k) \cup ({q[k + 1]} \cap T)
    BY <2>1
  <2>5. f[k + 1] = IF q[k + 1] \in T THEN Append(f[k], q[k + 1]) ELSE f[k]
    BY <2>1, <1>1 DEF n, KeepSteps
  <2>6. Range(f[k]) = First(k) /\ IsInjective(f[k])
    BY <1>4
  <2> HIDE DEF First
  <2>7. CASE q[k + 1] \in T
    <3> DEFINE p == f[k]
               e == q[k + 1]
    <3>1. p \in Seq(S) /\ e \in S /\ IsInjective(p) /\ e \notin Range(p)
      BY <2>1, <2>3, <2>6
    <3> HIDE DEF p, e
    <3>2. Range(Append(p, e)) = Range(p) \cup {e} /\ IsInjective(Append(p, e))
      BY <3>1, AppendNewProperties
    <3>3. k + 1 \in 0..n /\ f[k + 1] = Append(p, e) /\ Range(p) = First(k)
      BY <2>7, <2>1, <2>5, <2>6 DEF p, e
    <3>4. First(k + 1) = First(k) \cup {e}
      BY <2>7, <2>4 DEF e
    <3> QED
      BY <3>2, <3>3, <3>4
  <2>8. CASE q[k + 1] \notin T
    <3>1. First(k + 1) = First(k)
      BY <2>8, <2>4
    <3>2. f[k + 1] = f[k] /\ k + 1 \in 0..n
      BY <2>8, <2>1, <2>5
    <3> QED
      BY <3>1, <3>2, <2>6
  <2> QED
    BY <2>7, <2>8
<1>5. n \in E
  <2>1. \A k \in 0..n : k \in E /\ k < n => k + 1 \in E
    BY <1>4
  <2> HIDE DEF E
  <2>2. 0..n \subseteq E
    BY <1>2, <1>3, <2>1, Induction
  <2> QED
    BY <2>2, <1>2
<1>6. First(n) = Range(q) \cap T
  BY <1>2 DEF Range
<1> HIDE DEF First
<1> QED
  BY <1>1, <1>2, <1>5, <1>6

\* Going on with the next socket: the one just read is not in the rest.
LEMMA TailProperties ==
    ASSUME NEW S, NEW q \in Seq(S), q /= <<>>, IsInjective(q)
    PROVE  /\ Tail(q) \in Seq(S)
           /\ Head(q) \in Range(q)
           /\ Range(Tail(q)) = Range(q) \ {Head(q)}
           /\ IsInjective(Tail(q))
<1>1. Tail(q) \in Seq(S) /\ Len(Tail(q)) = Len(q) - 1 /\ Len(q) \in Nat
      /\ 1 \in 1..Len(q) /\ Head(q) = q[1] /\ DOMAIN q = 1..Len(q)
  OBVIOUS
<1>2. \A i \in 1..Len(Tail(q)) : Tail(q)[i] = IF i < 1 THEN q[i] ELSE q[i + 1]
  OBVIOUS
<1> DEFINE r == Tail(q)
<1> HIDE DEF r
<1>3. r \in Seq(S) /\ Len(r) = Len(q) - 1
      /\ \A i \in 1..Len(r) : r[i] = IF i < 1 THEN q[i] ELSE q[i + 1]
  BY <1>1, <1>2 DEF r
<1>4. Range(r) = Range(q) \ {q[1]} /\ IsInjective(r)
  BY <1>1, <1>3, SkipEntry
<1> QED
  BY <1>1, <1>4 DEF r, Range

-----------------------------------------------------------------------------
(***************************************************************************)
(* What the methods of the server do to its records.                       *)
(***************************************************************************)

\* server.send keeps the queues countable.
LEMMA SentType ==
    ASSUME NEW q \in [Conn -> Nat], NEW roster
    PROVE  Sent(q, roster) \in [Conn -> Nat]
BY DEF Sent

\* The state the handler of a message of c may change, as one handler leaves it
\* for the next: nobody else loses a socket or a worker, no connection becomes
\* one that never was, and no player object is taken away.
Handled(c) ==
    /\ peer' \in [Conn -> Peer]
    /\ \A d \in Conn : peer'[d] = "none" => peer[d] = "none"
    /\ wire' \in [Conn -> Seq(Kind)]
    /\ whole' \in [Conn -> BOOLEAN]
    /\ sockets' \in Seq(Conn)
    /\ Range(sockets') \in {Range(sockets), Range(sockets) \ {c}}
    /\ workers' \in {workers, workers \ {c}}
    /\ name' \in [Conn -> Name \cup {nil}]
    /\ player' \in [Conn -> Name \cup {nil}]
    /\ \A d \in Conn : d /= c => name'[d] = name[d]
    /\ \A d \in Conn : d /= c \/ player[d] /= nil => player'[d] = player[d]
    /\ players' \in [Name -> Conn \cup {nil}]
    /\ active' \subseteq Name
    /\ sendq' \in [Conn -> Nat]
    /\ OwnNames'
    /\ RosterConsistent'
    /\ \A n \in Name : players[n] /= nil => players'[n] \in {nil, players[n]}

(***************************************************************************)
(* server.unregister removes a worker from every record: its name, which   *)
(* is its own, leaves _players with it.  A worker that has no player keeps *)
(* its socket if there is a player of its name; it is then AddressTaken.   *)
(***************************************************************************)
LEMMA UnregisterHandles ==
    ASSUME Inv, phase /= "dead", NEW c \in workers, NEW rest \in Seq(Kind), Unregister(c, rest)
    PROVE  Handled(c)
<1> USE DEF Inv, Types
<1> DEFINE n == name[c]
<1>1. /\ c \in Conn /\ c /= nil
      /\ n = IF player[c] = nil THEN AddressName[c] ELSE player[c]
      /\ n \in Name /\ n /= nil
      /\ player[c] /= nil => players[n] = c
  BY SessionAssumption DEF OwnNames
<1>2. name' = name /\ player' = player /\ workers' = workers \ {c}
  BY DEF Unregister
<1>3. \A d \in workers : players[n] = nil \/ player[c] /= nil => d = c \/ player[d] /= n
  BY <1>1, SessionAssumption DEF OwnNames
<1>4. CASE players[n] /= nil /\ player[c] = nil
  <2>1. /\ wire' = [wire EXCEPT ![c] = rest]
        /\ sendq' = [sendq EXCEPT ![c] = 0]
        /\ UNCHANGED <<players, active, sockets, peer, whole>>
    BY <1>4 DEF Unregister
  <2>2. players[n] \in Conn /\ player[players[n]] = AddressName[c] /\ players[n] /= c
    BY <1>1, <1>4 DEF RosterConsistent
  <2>3. AddressTaken(c)'
    BY <1>2, <2>2 DEF AddressTaken
  <2>4. \A d \in Conn : AddressTaken(d) => AddressTaken(d)'
    BY <1>2 DEF AddressTaken
  <2>5. \A m \in Name : players[m] /= c
    BY <1>1, <1>4, SessionAssumption DEF RosterConsistent
  <2>6. RosterConsistent'
    <3>1. workers' \subseteq Range(sockets') /\ IsInjective(sockets')
      BY <1>2, <2>1 DEF RosterConsistent
    <3>2. ASSUME NEW d \in Range(sockets'), d \notin workers'
          PROVE  player'[d] = nil /\ (AddressTaken(d)' \/ phase' = "dead")
      <4>1. d \in Conn
        BY <2>1, RangeOfSeq
      <4>2. CASE d = c
        BY <4>2, <1>2, <1>4, <2>3
      <4>3. CASE d /= c
        BY <4>1, <4>3, <3>2, <1>2, <2>1, <2>4 DEF RosterConsistent
      <4> QED
        BY <4>2, <4>3
    <3>3. ASSUME NEW m \in Name, players'[m] /= nil
          PROVE  /\ players'[m] \in workers'
                 /\ name'[players'[m]] = m /\ player'[players'[m]] = m
      BY <3>3, <1>2, <2>1, <2>5 DEF RosterConsistent
    <3>4. active' = {m \in Name : players'[m] /= nil}
      BY <2>1 DEF RosterConsistent
    <3> QED
      BY <3>1, <3>2, <3>3, <3>4 DEF RosterConsistent
  <2>7. OwnNames'
    BY <1>2, <2>1 DEF OwnNames
  <2> QED
    BY <1>1, <1>2, <2>1, <2>6, <2>7 DEF Handled
<1>5. CASE ~(players[n] /= nil /\ player[c] = nil)
  <2>1. /\ sockets' = RemoveFirst(sockets, c)
        /\ peer' = [peer EXCEPT ![c] = "closed"]
        /\ wire' = [wire EXCEPT ![c] = <<>>]
        /\ whole' = [whole EXCEPT ![c] = TRUE]
        /\ players' = [players EXCEPT ![n] = nil]
        /\ active' = IF players[n] /= nil THEN active \ {player[c]} ELSE active
        /\ sendq' = [IF players[n] /= nil THEN Sent(sendq, players) ELSE sendq EXCEPT ![c] = 0]
    BY <1>5 DEF Unregister
  <2>2. sendq' \in [Conn -> Nat]
    <3>1. Sent(sendq, players) \in [Conn -> Nat]
      BY SentType
    <3>2. [Sent(sendq, players) EXCEPT ![c] = 0] \in [Conn -> Nat]
      BY <3>1
    <3> QED
      BY <2>1, <3>2
  <2>3. /\ sockets' \in Seq(Conn)
        /\ Range(sockets') = Range(sockets) \ {c}
        /\ IsInjective(sockets')
    <3>1. sockets \in Seq(Conn) /\ IsInjective(sockets)
      BY DEF RosterConsistent
    <3> QED
      BY <2>1, <3>1, RemoveFirstProperties
  <2>4. /\ players' \in [Name -> Conn \cup {nil}]
        /\ \A m \in Name : players'[m] = IF m = n THEN nil ELSE players[m]
    BY <2>1, <1>1
  <2>5. active' = {m \in Name : players'[m] /= nil}
    <3>1. active = {m \in Name : players[m] /= nil}
      BY DEF RosterConsistent
    <3>2. players[n] /= nil => player[c] = n
      BY <1>1, <1>5
    <3> QED
      BY <2>1, <2>4, <3>1, <3>2
  <2>6. \A m \in Name : players[m] = c => m = n
    BY <1>1 DEF RosterConsistent
  <2>7. \A d \in Conn : AddressTaken(d) => AddressTaken(d)'
    BY <1>2 DEF AddressTaken
  <2>8. RosterConsistent'
    <3>1. workers' \subseteq Range(sockets')
      BY <1>2, <2>3 DEF RosterConsistent
    <3>2. ASSUME NEW d \in Range(sockets'), d \notin workers'
          PROVE  player'[d] = nil /\ (AddressTaken(d)' \/ phase' = "dead")
      <4>1. d \in Conn /\ d \in Range(sockets) /\ d \notin workers
        BY <3>2, <1>2, <2>3, RangeOfSeq
      <4> QED
        BY <4>1, <1>2, <2>7 DEF RosterConsistent
    <3>3. ASSUME NEW m \in Name, players'[m] /= nil
          PROVE  /\ players'[m] \in workers'
                 /\ name'[players'[m]] = m /\ player'[players'[m]] = m
      <4>1. m /= n /\ players'[m] = players[m] /\ players[m] /= c
        BY <3>3, <2>4, <2>6
      <4> QED
        BY <4>1, <3>3, <1>2 DEF RosterConsistent
    <3> QED
      BY <3>1, <3>2, <3>3, <2>3, <2>5 DEF RosterConsistent
  <2>9. OwnNames'
    <3>1. ASSUME NEW d \in workers', player'[d] /= nil
          PROVE  players'[player'[d]] = d
      <4>1. d \in workers /\ d \in Conn /\ d /= c /\ player'[d] = player[d]
        BY <1>2
      <4>2. player[d] \in Name /\ players[player[d]] = d /\ player[d] /= n
        BY <4>1, <3>1, <1>3, <1>5 DEF OwnNames
      <4> QED
        BY <4>1, <4>2, <2>4
    <3> QED
      BY <3>1, <1>2 DEF OwnNames
  <2>10. peer' \in [Conn -> Peer] /\ \A d \in Conn : peer'[d] = "none" => peer[d] = "none"
    BY <2>1 DEF Peer
  <2>11. wire' \in [Conn -> Seq(Kind)] /\ whole' \in [Conn -> BOOLEAN]
    BY <2>1
  <2> QED
    BY <1>2, <2>2, <2>3, <2>4, <2>5, <2>8, <2>9, <2>10, <2>11 DEF Handled
<1> QED
  BY <1>4, <1>5

\* A login that is accepted takes a name nobody has, so that its worker has not
\* logged in before.
LEMMA JoinHandles ==
    ASSUME Inv, phase /= "dead", NEW c \in workers, wire[c] /= <<>>,
           players[LoginName[c]] = nil, Join(c)
    PROVE  Handled(c)
<1> USE DEF Inv, Types
<1> DEFINE n == LoginName[c]
<1>0. c \in Conn /\ n \in Name /\ c /= nil /\ n /= nil
  BY SessionAssumption
<1>1. /\ name' = [name EXCEPT ![c] = n]
      /\ player' = [player EXCEPT ![c] = n]
      /\ players' = [players EXCEPT ![n] = c]
      /\ active' = active \cup {n}
      /\ sendq' = Sent(Sent(sendq, players'), players')
      /\ wire' = [wire EXCEPT ![c] = Tail(@)]
      /\ UNCHANGED <<sockets, workers, peer, whole>>
  BY DEF Join
<1>2. player[c] = nil
  BY <1>0 DEF OwnNames
<1>3. sendq' \in [Conn -> Nat]
  BY <1>1, SentType
<1>4. wire' \in [Conn -> Seq(Kind)]
  <2>1. Tail(wire[c]) \in Seq(Kind)
    BY <1>0
  <2> QED
    BY <2>1, <1>1
<1>5. /\ name' \in [Conn -> Name \cup {nil}]
      /\ player' \in [Conn -> Name \cup {nil}]
      /\ players' \in [Name -> Conn \cup {nil}]
      /\ active' \subseteq Name
  BY <1>0, <1>1
<1>6. \A d \in Conn : d /= c => name'[d] = name[d] /\ player'[d] = player[d]
  BY <1>1
<1>7. \A m \in Name : players[m] /= nil => m /= n /\ players[m] /= c
  BY <1>0, <1>2, SessionAssumption DEF RosterConsistent
<1>8. OwnNames'
  <2>1. \A d \in Conn : player'[d] \in {nil, LoginName[d]}
    BY <1>0, <1>1 DEF OwnNames
  <2>2. ASSUME NEW d \in workers'
        PROVE  /\ name'[d] = IF player'[d] = nil THEN AddressName[d] ELSE player'[d]
               /\ player'[d] /= nil => players'[player'[d]] = d
    <3>1. CASE d = c
      BY <3>1, <1>0, <1>1
    <3>2. CASE d /= c
      <4>1. d \in workers /\ d \in Conn /\ name'[d] = name[d] /\ player'[d] = player[d]
        BY <3>2, <1>1
      <4>2. player[d] /= nil => player[d] \in Name /\ players[player[d]] = d /\ d /= nil
        BY <4>1, SessionAssumption DEF OwnNames
      <4>3. player[d] /= nil => players'[player[d]] = d
        BY <4>2, <1>1, <1>7
      <4> QED
        BY <4>1, <4>3 DEF OwnNames
    <3> QED
      BY <3>1, <3>2
  <2> QED
    BY <2>1, <2>2 DEF OwnNames
<1>9. RosterConsistent'
  <2>1. ASSUME NEW m \in Name, players'[m] /= nil
        PROVE  /\ players'[m] \in workers'
               /\ name'[players'[m]] = m /\ player'[players'[m]] = m
    <3>1. CASE m = n
      BY <3>1, <1>0, <1>1
    <3>2. CASE m /= n
      <4>1. players'[m] = players[m] /\ players[m] /= nil /\ players[m] /= c
        BY <3>2, <2>1, <1>1, <1>7
      <4> QED
        BY <4>1, <1>1 DEF RosterConsistent
    <3> QED
      BY <3>1, <3>2
  <2>2. active' = {m \in Name : players'[m] /= nil}
    BY <1>0, <1>1 DEF RosterConsistent
  <2>3. \A d \in Conn : AddressTaken(d) => AddressTaken(d)'
    <3> SUFFICES ASSUME NEW d \in Conn, NEW e \in Conn, player[e] = AddressName[d]
                 PROVE  player'[e] = AddressName[d]
      BY DEF AddressTaken
    <3>1. e /= c
      BY <1>2, SessionAssumption
    <3> QED
      BY <1>6, <3>1
  <2>4. ASSUME NEW d \in Range(sockets'), d \notin workers'
        PROVE  player'[d] = nil /\ (AddressTaken(d)' \/ phase' = "dead")
    <3>1. d \in Conn /\ d \in Range(sockets) /\ d \notin workers /\ d /= c
      BY <2>4, <1>1, RangeOfSeq
    <3> QED
      BY <3>1, <2>3, <1>1 DEF RosterConsistent
  <2>5. workers' \subseteq Range(sockets') /\ IsInjective(sockets')
    BY <1>1 DEF RosterConsistent
  <2> QED
    BY <2>1, <2>2, <2>4, <2>5 DEF RosterConsistent
<1>10. \A m \in Name : players[m] /= nil => players'[m] \in {nil, players[m]}
  BY <1>1, <1>7
<1> QED
  BY <1>1, <1>2, <1>3, <1>4, <1>5, <1>8, <1>9, <1>10, <1>6 DEF Handled

\* server.api.login joins the client, or disconnects it.
LEMMA LoginHandles ==
    ASSUME Inv, phase /= "dead", NEW c \in workers, wire[c] /= <<>>, Login(c)
    PROVE  Handled(c)
<1>1. Tail(wire[c]) \in Seq(Kind)
  BY DEF Inv, Types
<1>2. CASE c \in BadPass \/ players[LoginName[c]] /= nil
  BY <1>1, <1>2, UnregisterHandles DEF Login
<1>3. CASE ~(c \in BadPass \/ players[LoginName[c]] /= nil)
  BY <1>3, JoinHandles DEF Login
<1> QED
  BY <1>2, <1>3

\* What leaves all records alone but the wire and the queues handles c.
LEMMA QuietHandles ==
    ASSUME Inv, phase /= "dead", NEW c \in Conn,
           UNCHANGED <<peer, whole, sockets, workers, name, player, players, active>>,
           wire' \in [Conn -> Seq(Kind)], sendq' \in [Conn -> Nat]
    PROVE  Handled(c)
<1> USE DEF Inv, Types
<1>1. OwnNames'
  BY DEF OwnNames
<1>2. \A d \in Conn : AddressTaken(d) => AddressTaken(d)'
  BY DEF AddressTaken
<1>3. \A d \in Range(sockets) \ workers : player[d] = nil /\ d \in Conn /\ AddressTaken(d)
  BY RangeOfSeq DEF RosterConsistent
<1>4. RosterConsistent'
  BY <1>2, <1>3 DEF RosterConsistent
<1> QED
  BY <1>1, <1>4 DEF Handled

\* Any other message that goes well only fills the queues.
LEMMA HandleHandles ==
    ASSUME Inv, phase /= "dead", NEW c \in Conn, wire[c] /= <<>>, Handle(c)
    PROVE  Handled(c)
<1>1. sendq' \in [Conn -> Nat]
  BY SentType DEF Handle, Inv, Types
<1>2. wire' \in [Conn -> Seq(Kind)]
  <2>1. Tail(wire[c]) \in Seq(Kind)
    BY DEF Inv, Types
  <2> QED
    BY <2>1 DEF Handle, Inv, Types
<1> QED
  BY <1>1, <1>2, QuietHandles DEF Handle

-----------------------------------------------------------------------------
(***************************************************************************)
(* The invariant holds.                                                    *)
(***************************************************************************)

\* The server starts with empty records.
LEMMA InitInv == Init => Inv
<1> SUFFICES ASSUME Init PROVE Inv
  OBVIOUS
<1> USE SessionAssumption DEF Init
<1>1. Range(<<>>) = {} /\ IsInjective(<<>>)
  BY DEF Range, IsInjective
<1>2. Types
  BY DEF Types, Peer, Kind, Phase
<1>3. AcceptedOnce /\ OwnNames /\ ReadOnce
  BY <1>1 DEF AcceptedOnce, OwnNames, ReadOnce
<1>4. RosterConsistent /\ ReadableHaveWorkers
  BY <1>1 DEF RosterConsistent, ReadableHaveWorkers
<1> QED
  BY <1>2, <1>3, <1>4 DEF Inv

\* The two invariants speak of the server's records only.
LEMMA RosterUnchanged ==
    ASSUME Inv, UNCHANGED <<sockets, workers, name, player, players, active>>,
           phase' = "dead" <=> phase = "dead",
           Range(rr') \subseteq Range(rr)
    PROVE  RosterConsistent' /\ ReadableHaveWorkers'
<1>1. \A d \in Conn : AddressTaken(d)' <=> AddressTaken(d)
  BY DEF AddressTaken
<1>2. Range(sockets) \subseteq Conn
  BY RangeOfSeq DEF Inv, Types
<1>3. RosterConsistent'
  BY <1>1, <1>2 DEF Inv, RosterConsistent
<1>4. ReadableHaveWorkers'
  BY <1>1, <1>2 DEF Inv, ReadableHaveWorkers
<1> QED
  BY <1>3, <1>4

\* What a client does leaves the server's records alone.
LEMMA ClientInv ==
    ASSUME Inv, NEW c \in Conn,
           \/ Connect(c) \/ EndMessage(c) \/ Close(c)
           \/ \E kind \in Kind : BeginMessage(c, kind)
    PROVE  Inv' /\ UNCHANGED players
<1> USE DEF Inv
<1>1. UNCHANGED serverVars
  BY DEF Connect, EndMessage, Close, BeginMessage
<1>2. ReadOnce' /\ OwnNames' /\ RosterConsistent' /\ ReadableHaveWorkers'
  BY <1>1, RosterUnchanged DEF serverVars, ReadOnce, OwnNames
<1>3. CASE Connect(c)
  <2>1. /\ c \notin Range(backlog) /\ c \notin Range(sockets)
        /\ name[c] = nil /\ player[c] = nil
    BY <1>3 DEF Connect, AcceptedOnce
  <2>2. backlog \in Seq(Conn) /\ IsInjective(backlog) /\ backlog' = Append(backlog, c)
    BY <1>3 DEF Connect, AcceptedOnce, Types
  <2>3. backlog' \in Seq(Conn) /\ Range(backlog') = Range(backlog) \cup {c} /\ IsInjective(backlog')
    BY <2>1, <2>2, AppendNewProperties
  <2>4. /\ peer' = [peer EXCEPT ![c] = "open"]
        /\ UNCHANGED <<wire, whole, sent>>
    BY <1>3 DEF Connect
  <2>5. Types'
    BY <1>1, <2>3, <2>4 DEF Types, serverVars, Peer
  <2>6. \A d \in Conn : peer'[d] = IF d = c THEN "open" ELSE peer[d]
    BY <2>4 DEF Types
  <2>7. Range(backlog) \subseteq Conn
    BY RangeOfSeq DEF Types
  <2>8. AcceptedOnce'
    BY <1>1, <2>1, <2>3, <2>6, <2>7 DEF AcceptedOnce, serverVars
  <2> QED
    BY <1>1, <1>2, <2>5, <2>8 DEF serverVars
<1>4. CASE EndMessage(c) \/ Close(c)
  <2>1. UNCHANGED <<backlog, wire>>
    BY <1>4 DEF EndMessage, Close
  <2>2. peer' \in [Conn -> Peer] /\ \A d \in Conn : peer'[d] = "none" <=> peer[d] = "none"
    BY <1>4 DEF EndMessage, Close, Types, Peer
  <2>3. whole' \in [Conn -> BOOLEAN]
    BY <1>4 DEF EndMessage, Close, Types
  <2>4. sent' \in [Conn -> Nat] /\ \A d \in Conn : sent'[d] <= MaxMessages[d] + 1
    <3>1. \A d \in Conn : MaxMessages[d] \in Nat
      BY SessionAssumption
    <3>2. sent' = sent \/ sent' = [sent EXCEPT ![c] = 0]
      BY <1>4 DEF EndMessage, Close
    <3>3. sent \in [Conn -> Nat] /\ \A d \in Conn : sent[d] <= MaxMessages[d] + 1
      BY DEF Types
    <3>4. CASE sent' = sent
      BY <3>3, <3>4
    <3>5. CASE sent' = [sent EXCEPT ![c] = 0]
      BY <3>1, <3>3, <3>5
    <3> QED
      BY <3>2, <3>4, <3>5
  <2>5. Types'
    BY <1>1, <2>1, <2>2, <2>3, <2>4 DEF Types, serverVars
  <2>6. Range(backlog) \subseteq Conn
    BY RangeOfSeq DEF Types
  <2>7. AcceptedOnce'
    BY <1>1, <2>1, <2>2, <2>6 DEF AcceptedOnce, serverVars
  <2> QED
    BY <1>1, <1>2, <2>5, <2>7 DEF serverVars
<1>5. CASE \E kind \in Kind : BeginMessage(c, kind)
  <2>1. PICK kind \in Kind : BeginMessage(c, kind)
    BY <1>5
  <2>2. wire' \in [Conn -> Seq(Kind)]
    <3>1. wire[c] \in Seq(Kind)
      BY DEF Types
    <3>2. Append(wire[c], kind) \in Seq(Kind)
      BY <3>1
    <3> QED
      BY <2>1, <3>2 DEF BeginMessage, Types
  <2>3. sent' \in [Conn -> Nat] /\ \A d \in Conn : sent'[d] <= MaxMessages[d] + 1
    <3>1. MaxMessages[c] \in Nat
      BY SessionAssumption
    <3>2. sent' = [sent EXCEPT ![c] = @ + 1] /\ (sent[c] = 0 \/ sent[c] <= MaxMessages[c])
      BY <2>1 DEF BeginMessage
    <3>3. sent \in [Conn -> Nat] /\ \A d \in Conn : sent[d] <= MaxMessages[d] + 1
      BY DEF Types
    <3> QED
      BY <3>1, <3>2, <3>3
  <2>4. Types'
    BY <1>1, <2>1, <2>2, <2>3 DEF Types, BeginMessage, serverVars
  <2>5. AcceptedOnce'
    BY <1>1, <2>1 DEF AcceptedOnce, BeginMessage, serverVars
  <2> QED
    BY <1>1, <1>2, <2>4, <2>5 DEF serverVars
<1> QED
  BY <1>3, <1>4, <1>5

\* server.register: the accepted connection is new to every record.
LEMMA RegisterInv ==
    ASSUME Inv, Accept, backlog /= <<>>
    PROVE  Inv' /\ UNCHANGED players
<1> USE DEF Inv
<1> DEFINE c == Head(backlog)
<1>1. /\ UNCHANGED <<wire, whole, sent, player, players, active, sendq, rr, wr>>
      /\ phase = "accept" /\ Register(c) /\ backlog' = Tail(backlog)
  BY DEF Accept
<1>2. /\ Tail(backlog) \in Seq(Conn)
      /\ c \in Range(backlog)
      /\ Range(Tail(backlog)) = Range(backlog) \ {c}
      /\ IsInjective(Tail(backlog))
  BY TailProperties DEF Types, AcceptedOnce
<1>3. c \in Conn
  BY DEF Types
<1> HIDE DEF c
<1>4. /\ Range(sockets) \subseteq Conn /\ workers \subseteq Range(sockets)
      /\ c \notin Range(sockets) /\ peer[c] /= "none" /\ name[c] = nil /\ player[c] = nil
      /\ rr = <<>> /\ Range(<<>>) = {} /\ Range(backlog) \subseteq Conn
  BY <1>1, <1>2, <1>3, RangeOfSeq DEF Types, RosterConsistent, AcceptedOnce, ReadOnce, Range
<1>5. sockets' \in Seq(Conn) /\ Range(sockets') = Range(sockets) \cup {c} /\ IsInjective(sockets')
  <2>1. sockets' = Append(sockets, c)
    BY <1>1 DEF Register
  <2>2. sockets \in Seq(Conn) /\ IsInjective(sockets)
    BY DEF Types, RosterConsistent
  <2> QED
    BY <1>3, <1>4, <2>1, <2>2, AppendNewProperties
<1>6. \A d \in Conn : AddressTaken(d)' <=> AddressTaken(d)
  BY <1>1 DEF AddressTaken
<1>7. /\ name' \in [Conn -> Name \cup {nil}] /\ \A d \in Conn : d /= c => name'[d] = name[d]
      /\ workers' \in {workers, workers \cup {c}}
      /\ peer' \in [Conn -> Peer] /\ \A d \in Conn : peer'[d] = "none" <=> peer[d] = "none"
      /\ phase' \in {"select", "dead"}
  <2>1. AddressName[c] \in Name
    BY <1>3, SessionAssumption
  <2> QED
    BY <1>1, <2>1 DEF Register, Stop, Types, Peer
<1>8. /\ c \in workers' => name'[c] = AddressName[c]
      /\ c \notin workers' => name' = name /\ phase' = "dead"
      /\ phase' = "dead" => c \notin workers'
  <2>1. c \notin workers
    BY <1>4
  <2> QED
    BY <1>1, <1>3, <2>1 DEF Register, Stop, Types
<1>9. Types'
  BY <1>1, <1>2, <1>5, <1>7, <1>3 DEF Types, Phase
<1>10. AcceptedOnce' /\ ReadOnce'
  <2>1. \A d \in Range(backlog') : d \in Range(backlog) /\ d /= c
    BY <1>1, <1>2
  <2>2. AcceptedOnce'
    BY <1>1, <1>2, <1>4, <1>5, <1>7, <2>1 DEF AcceptedOnce
  <2> QED
    BY <1>1, <1>4, <2>2 DEF ReadOnce
<1>11. OwnNames'
  <2>1. ASSUME NEW d \in workers'
        PROVE  /\ name'[d] = IF player'[d] = nil THEN AddressName[d] ELSE player'[d]
               /\ player'[d] /= nil => players'[player'[d]] = d
    <3>1. CASE d = c
      BY <3>1, <2>1, <1>1, <1>4, <1>8
    <3>2. CASE d /= c
      BY <3>2, <2>1, <1>1, <1>4, <1>7 DEF OwnNames
    <3> QED
      BY <3>1, <3>2
  <2> QED
    BY <2>1, <1>1 DEF OwnNames
<1>12. RosterConsistent'
  <2>1. workers' \subseteq Range(sockets') /\ IsInjective(sockets')
    BY <1>4, <1>5, <1>7
  <2>2. ASSUME NEW d \in Range(sockets'), d \notin workers'
        PROVE  player'[d] = nil /\ (AddressTaken(d)' \/ phase' = "dead")
    <3>1. CASE d = c
      BY <3>1, <2>2, <1>1, <1>4, <1>8
    <3>2. CASE d /= c
      <4>1. d \in Conn /\ d \in Range(sockets) /\ d \notin workers
        BY <3>2, <2>2, <1>4, <1>5, <1>7
      <4> QED
        BY <4>1, <1>1, <1>6 DEF RosterConsistent
    <3> QED
      BY <3>1, <3>2
  <2>3. ASSUME NEW m \in Name, players'[m] /= nil
        PROVE  /\ players'[m] \in workers'
               /\ name'[players'[m]] = m /\ player'[players'[m]] = m
    <3>1. players[m] \in workers /\ name[players[m]] = m /\ player[players[m]] = m
      BY <2>3, <1>1 DEF RosterConsistent
    <3>2. players[m] \in Conn /\ players[m] /= c
      BY <3>1, <1>4
    <3> QED
      BY <3>1, <3>2, <1>1, <1>7
  <2>4. active' = {m \in Name : players'[m] /= nil}
    BY <1>1 DEF RosterConsistent
  <2> QED
    BY <2>1, <2>2, <2>3, <2>4 DEF RosterConsistent
<1>13. ReadableHaveWorkers'
  <2>1. rr' = <<>>
    BY <1>1, <1>4
  <2>2. phase' = "dead" => c \in Range(sockets') \ workers' /\ name'[c] = nil
    BY <1>4, <1>5, <1>8
  <2> QED
    BY <2>1, <2>2, <1>4 DEF ReadableHaveWorkers
<1> QED
  BY <1>1, <1>9, <1>10, <1>11, <1>12, <1>13

\* accept: a connection is registered if there is one.
LEMMA AcceptInv ==
    ASSUME Inv, Accept
    PROVE  Inv' /\ UNCHANGED players
<1>1. CASE backlog = <<>>
  <2>1. /\ UNCHANGED <<peer, backlog, sockets, workers, name>>
        /\ phase = "accept" /\ phase' = "select"
        /\ UNCHANGED <<wire, whole, sent, player, players, active, sendq, rr, wr>>
    BY <1>1 DEF Accept
  <2>2. Types' /\ AcceptedOnce' /\ OwnNames' /\ ReadOnce'
    BY <2>1 DEF Inv, Types, Phase, AcceptedOnce, OwnNames, ReadOnce
  <2>3. RosterConsistent' /\ ReadableHaveWorkers'
    BY <2>1, RosterUnchanged
  <2> QED
    BY <2>1, <2>2, <2>3 DEF Inv
<1> QED
  BY <1>1, RegisterInv

\* What select returns are sockets of the server.
LEMMA SelectInv ==
    ASSUME Inv, Select
    PROVE  Inv' /\ UNCHANGED players
<1> USE DEF Inv
<1>1. /\ UNCHANGED <<clientVars, sockets, workers, name, player, players, active, sendq>>
      /\ phase = "select" /\ phase' = "read" /\ rr' = Keep(sockets, CanRead) /\ wr' = sockets
  BY DEF Select
<1>2. sockets \in Seq(Conn) /\ IsInjective(sockets)
  BY DEF Types, RosterConsistent
<1>3. rr' \in Seq(Conn) /\ Range(rr') \subseteq Range(sockets) /\ IsInjective(rr')
  BY <1>1, <1>2, KeepProperties
<1>4. Types'
  BY <1>1, <1>2, <1>3 DEF Types, clientVars, Phase
<1>5. AcceptedOnce' /\ OwnNames' /\ ReadOnce'
  BY <1>1, <1>3 DEF AcceptedOnce, OwnNames, ReadOnce, clientVars
<1>6. \A d \in Conn : AddressTaken(d)' <=> AddressTaken(d)
  BY <1>1 DEF AddressTaken
<1>7. \A d \in Range(sockets) \ workers : d \in Conn /\ player[d] = nil /\ AddressTaken(d)'
  BY <1>1, <1>6, RangeOfSeq DEF RosterConsistent, Types
<1>8. RosterConsistent'
  BY <1>1, <1>7 DEF RosterConsistent
<1>9. ReadableHaveWorkers'
  BY <1>1, <1>3, <1>7 DEF ReadableHaveWorkers
<1> QED
  BY <1>1, <1>4, <1>5, <1>8, <1>9

\* What is left to be read after a message of c was handled: others keep their
\* sockets, with or without a worker, and a player that was added stays so.
LEMMA ReadableAfter ==
    ASSUME Inv, NEW c \in Conn, Handled(c), UNCHANGED phase, phase /= "dead",
           Range(rr') \subseteq Range(rr) \ {c}
    PROVE  ReadableHaveWorkers'
<1>1. ASSUME NEW d \in Range(rr')
      PROVE  d \in workers' \/ (d \in Range(sockets') \ workers' /\ AddressTaken(d)')
  <2>1. d \in Range(rr) /\ d /= c
    OBVIOUS
  <2>2. d \in Conn
    BY <2>1, RangeOfSeq DEF Inv, Types
  <2>3. CASE d \in workers
    BY <2>1, <2>3 DEF Handled
  <2>4. CASE d \notin workers
    <3>1. d \in Range(sockets) /\ AddressTaken(d)
      BY <2>1, <2>4 DEF Inv, ReadableHaveWorkers
    <3>2. PICK e \in Conn : player[e] = AddressName[d]
      BY <3>1 DEF AddressTaken
    <3>3. player'[e] = AddressName[d]
      BY <3>2, <2>2, SessionAssumption DEF Handled
    <3>4. d \in Range(sockets') /\ d \notin workers'
      BY <2>1, <2>4, <3>1 DEF Handled
    <3> QED
      BY <3>3, <3>4 DEF AddressTaken
  <2> QED
    BY <2>3, <2>4
<1> QED
  BY <1>1 DEF ReadableHaveWorkers

\* Handling a message of a worker keeps what is known of the connections.
LEMMA AcceptedAfter ==
    ASSUME Inv, NEW c \in workers, Handled(c), UNCHANGED backlog
    PROVE  AcceptedOnce'
<1>1. c \in Conn /\ c \in Range(sockets)
  BY DEF Inv, Types, RosterConsistent
<1>2. c \notin Range(backlog) /\ peer[c] /= "none"
  BY <1>1 DEF Inv, AcceptedOnce
<1>3. Range(backlog) \subseteq Conn
  BY RangeOfSeq DEF Inv, Types
<1> QED
  BY <1>2, <1>3 DEF Handled, Inv, AcceptedOnce

\* receiveOne: a read may take away the socket or the worker of the connection
\* it reads, which is not read again in this step, and of no other.
LEMMA ReceiveOneInv ==
    ASSUME Inv, ReceiveOne
    PROVE  Inv' /\ \A n \in Name : players[n] /= nil => players'[n] \in {nil, players[n]}
<1> USE DEF Inv
<1> DEFINE c == Head(rr)
<1>1. UNCHANGED <<backlog, sent, wr>> /\ rr' = Tail(rr) /\ phase = "read" /\ rr /= <<>>
  BY DEF ReceiveOne
<1>2. rr \in Seq(Conn) /\ IsInjective(rr)
  BY DEF Types, ReadOnce
<1>3. /\ rr' \in Seq(Conn) /\ c \in Range(rr)
      /\ Range(rr') = Range(rr) \ {c}
      /\ IsInjective(rr')
  BY <1>1, <1>2, TailProperties
<1>4. c \in Conn
  BY <1>1, <1>2
<1>5. CASE c \in workers
  <2>1. UNCHANGED phase /\ Handled(c)
    <3> HIDE DEF c
    <3>1. ASSUME NEW rest \in Seq(Kind), Unregister(c, rest) PROVE Handled(c)
      BY <3>1, <1>1, <1>5, UnregisterHandles
    <3>2. ASSUME Login(c), wire[c] /= <<>> PROVE Handled(c)
      BY <3>2, <1>1, <1>5, LoginHandles
    <3>3. ASSUME Handle(c), wire[c] /= <<>> PROVE Handled(c)
      BY <3>3, <1>1, <1>4, HandleHandles
    <3>4. /\ wire[c] \in Seq(Kind)
          /\ wire[c] /= <<>> => Head(wire[c]) \in Kind /\ Tail(wire[c]) \in Seq(Kind)
      BY <1>4 DEF Types
    <3>5. /\ UNCHANGED phase
          /\ \/ Unregister(c, wire[c])
             \/ wire[c] /= <<>> /\ (Login(c) \/ Handle(c) \/ Unregister(c, Tail(wire[c])))
      BY <1>5, <3>4 DEF ReceiveOne, Arrived, Kind, c
    <3> QED
      BY <3>1, <3>2, <3>3, <3>4, <3>5
  <2> HIDE DEF c
  <2>2. Types'
    BY <1>1, <1>3, <2>1 DEF Types, Handled
  <2>3. AcceptedOnce'
    BY <1>1, <1>5, <2>1, AcceptedAfter
  <2>4. ReadOnce'
    BY <1>1, <1>3, <2>1 DEF ReadOnce
  <2>5. ReadableHaveWorkers'
    BY <1>1, <1>3, <1>4, <2>1, ReadableAfter
  <2> QED
    BY <2>1, <2>2, <2>3, <2>4, <2>5 DEF Handled
<1>6. CASE c \notin workers
  <2>1. Stop /\ UNCHANGED <<wire, whole, sockets, workers, name, player, players, active, sendq>>
    BY <1>6 DEF ReceiveOne
  <2> HIDE DEF c
  <2>2. /\ peer' \in [Conn -> Peer] /\ phase' = "dead"
        /\ \A d \in Conn : peer'[d] = "none" <=> peer[d] = "none"
    BY <2>1 DEF Stop, Types, Peer
  <2>3. Types'
    BY <1>1, <1>3, <2>1, <2>2 DEF Types, Phase
  <2>4. Range(backlog) \subseteq Conn /\ Range(sockets) \subseteq Conn
    BY RangeOfSeq DEF Types
  <2>5. AcceptedOnce' /\ OwnNames' /\ ReadOnce'
    BY <1>1, <1>3, <2>1, <2>2, <2>4 DEF AcceptedOnce, OwnNames, ReadOnce
  <2>6. \A d \in Conn : AddressTaken(d)' <=> AddressTaken(d)
    BY <2>1 DEF AddressTaken
  <2>7. RosterConsistent'
    BY <2>1, <2>2, <2>4, <2>6 DEF RosterConsistent
  <2>8. c \in Range(sockets) \ workers /\ AddressTaken(c)
    BY <1>3, <1>6 DEF ReadableHaveWorkers
  <2>9. ReadableHaveWorkers'
    BY <1>3, <2>1, <2>2, <2>4, <2>6, <2>8 DEF ReadableHaveWorkers
  <2> QED
    BY <2>1, <2>3, <2>5, <2>7, <2>9
<1> QED
  BY <1>5, <1>6

\* sendOne: an unregistered client is found out while nothing is being read.
LEMMA SendOneInv ==
    ASSUME Inv, SendOne
    PROVE  Inv' /\ \A n \in Name : players[n] /= nil => players'[n] \in {nil, players[n]}
<1> USE DEF Inv
<1> DEFINE c == Head(wr)
<1>1. UNCHANGED <<backlog, sent, phase, rr>> /\ wr' = Tail(wr)
      /\ phase = "write" /\ wr /= <<>>
  BY DEF SendOne
<1>2. c \in Conn /\ wr' \in Seq(Conn)
  BY <1>1 DEF Types
<1>3. rr = <<>> /\ Range(rr') \subseteq Range(rr) \ {c}
  <2>1. rr = <<>> /\ Range(<<>>) = {}
    BY <1>1 DEF ReadOnce, Range
  <2> QED
    BY <1>1, <2>1
<1> HIDE DEF c
<1>4. CASE c \in workers
  <2>1. Handled(c)
    <3>1. wire[c] \in Seq(Kind)
      BY <1>2 DEF Types
    <3>2. CASE Unregister(c, wire[c])
      BY <3>1, <3>2, <1>1, <1>4, UnregisterHandles
    <3>3. CASE /\ UNCHANGED <<peer, wire, whole, sockets, workers, name, player, players, active>>
               /\ sendq' \in [Conn -> Nat]
      <4>1. wire' \in [Conn -> Seq(Kind)]
        BY <3>3 DEF Types
      <4> QED
        BY <3>3, <4>1, <1>1, <1>2, QuietHandles
    <3>4. \/ Unregister(c, wire[c])
          \/ /\ UNCHANGED <<peer, wire, whole, sockets, workers, name, player, players, active>>
             /\ sendq' = sendq \/ (sendq[c] > 0 /\ sendq' = [sendq EXCEPT ![c] = @ - 1])
      BY DEF SendOne, c
    <3>5. sendq[c] > 0 => [sendq EXCEPT ![c] = @ - 1] \in [Conn -> Nat]
      BY <1>2 DEF Types
    <3> QED
      BY <3>2, <3>3, <3>4, <3>5 DEF Types
  <2>2. Types'
    BY <1>1, <1>2, <2>1 DEF Types, Handled
  <2>3. AcceptedOnce'
    BY <1>1, <1>4, <2>1, AcceptedAfter
  <2>4. ReadOnce'
    BY <1>1 DEF ReadOnce
  <2>5. ReadableHaveWorkers'
    BY <1>1, <1>2, <1>3, <2>1, ReadableAfter
  <2> QED
    BY <2>1, <2>2, <2>3, <2>4, <2>5 DEF Handled
<1>5. CASE c \notin workers
  <2>1. UNCHANGED <<peer, wire, whole, sockets, workers, name, player, players, active, sendq>>
    BY <1>5 DEF SendOne, c
  <2>2. Types' /\ AcceptedOnce' /\ OwnNames' /\ ReadOnce'
    BY <1>1, <1>2, <2>1 DEF Types, AcceptedOnce, OwnNames, ReadOnce
  <2>3. RosterConsistent' /\ ReadableHaveWorkers'
    BY <1>1, <2>1, RosterUnchanged
  <2> QED
    BY <2>1, <2>2, <2>3
<1> QED
  BY <1>4, <1>5

\* Every step keeps the invariant, and takes a name away from a connection only
\* by unregistering it.
LEMMA NextInv ==
    Inv /\ [Next]_vars =>
       Inv' /\ \A n \in Name : players[n] /= nil => players'[n] \in {nil, players[n]}
<1> SUFFICES ASSUME Inv, [Next]_vars
             PROVE  Inv' /\ \A n \in Name : players[n] /= nil => players'[n] \in {nil, players[n]}
  OBVIOUS
<1>1. CASE \E c \in Conn : \/ Connect(c) \/ EndMessage(c) \/ Close(c)
                           \/ \E kind \in Kind : BeginMessage(c, kind)
  BY <1>1, ClientInv
<1>2. CASE Accept
  BY <1>2, AcceptInv
<1>3. CASE Select
  BY <1>3, SelectInv
<1>4. CASE ReceiveOne
  BY <1>4, ReceiveOneInv
<1>5. CASE SendOne
  BY <1>5, SendOneInv
<1>6. CASE EndRead \/ EndWrite
  <2>1. /\ UNCHANGED <<clientVars, sockets, workers, name, player, players, active, sendq, rr, wr>>
        /\ phase /= "dead" /\ phase' \in {"write", "accept"}
        /\ rr = <<>>
    BY <1>6 DEF EndRead, EndWrite, Inv, ReadOnce
  <2>2. Types'
    BY <2>1 DEF Inv, Types, clientVars, Phase
  <2>3. AcceptedOnce' /\ OwnNames' /\ ReadOnce'
    BY <2>1 DEF Inv, AcceptedOnce, OwnNames, ReadOnce, clientVars
  <2>4. RosterConsistent' /\ ReadableHaveWorkers'
    BY <2>1, RosterUnchanged
  <2> QED
    BY <2>1, <2>2, <2>3, <2>4 DEF Inv
<1>7. CASE UNCHANGED vars
  <2>1. UNCHANGED <<clientVars, serverVars>>
    BY <1>7 DEF vars
  <2>2. Types'
    BY <2>1 DEF Inv, Types, clientVars, serverVars
  <2>3. AcceptedOnce' /\ OwnNames' /\ ReadOnce'
    BY <2>1 DEF Inv, AcceptedOnce, OwnNames, ReadOnce, clientVars, serverVars
  <2>4. RosterConsistent' /\ ReadableHaveWorkers'
    BY <2>1, RosterUnchanged DEF serverVars
  <2> QED
    BY <2>1, <2>2, <2>3, <2>4 DEF Inv, serverVars
<1> QED
  BY <1>1, <1>2, <1>3, <1>4, <1>5, <1>6, <1>7 DEF Next, Step

-----------------------------------------------------------------------------
(***************************************************************************)
(* The theorems.                                                           *)
(***************************************************************************)

\* The invariant the following theorems rest on.
THEOREM Invariance == Spec => []Inv
<1>1. Init => Inv
  BY InitInv
<1>2. Inv /\ [Next]_vars => Inv'
  BY NextInv
<1> QED
  BY <1>1, <1>2, PTL DEF Spec

\* Whatever the clients and the loop of the server do, every variable keeps its
\* type, and no client is counted to have sent more than the model's bound.
THEOREM TypeCorrect == Spec => []TypeOK
<1>1. Inv => TypeOK
  <2> SUFFICES ASSUME Inv PROVE TypeOK
    OBVIOUS
  <2> USE DEF Inv, Types
  <2>1. \A c \in Conn : Range(wire[c]) \subseteq Kind
    BY RangeOfSeq
  <2>2. Range(sockets) \cup workers \cup Range(rr) \cup Range(wr) \subseteq Conn
    BY RangeOfSeq
  <2>3. \A c \in Conn : sent[c] \in 0..MaxMessages[c] + 1
    BY SessionAssumption
  <2> QED
    BY <2>1, <2>2, <2>3 DEF TypeOK
<1> QED
  BY <1>1, Invariance, PTL

\* _sockets, _clients, the names of the workers and _players agree in every
\* state of the server, whatever the players are called: a socket loses its
\* worker only by an error in unregister, for a connection that has not logged
\* in and whose client:<address> a player took for a name.
THEOREM RosterAlwaysConsistent == Spec => []RosterConsistent
<1>1. Inv => RosterConsistent
  BY DEF Inv
<1> QED
  BY <1>1, Invariance, PTL

\* A read takes no socket away from a later read of the same step: server.step
\* finds no worker for a socket only if unregister left it so in an earlier
\* step, and nothing else but a reset before the worker was made ends the loop.
THEOREM ReadableAlwaysHaveWorkers == Spec => []ReadableHaveWorkers
<1>1. Inv => ReadableHaveWorkers
  BY DEF Inv
<1> QED
  BY <1>1, Invariance, PTL

\* Where no player is called client:<address>, every socket has its worker as
\* long as the loop goes on, and so has every socket that is still to be read.
THEOREM WorkersIfNamesApart ==
    ASSUME \A c, d \in Conn : LoginName[c] /= AddressName[d]
    PROVE  Spec => [](phase /= "dead" => Range(sockets) = workers /\ Range(rr) \subseteq workers)
<1>1. Inv => (phase /= "dead" => Range(sockets) = workers /\ Range(rr) \subseteq workers)
  <2> SUFFICES ASSUME Inv, phase /= "dead"
               PROVE  Range(sockets) = workers /\ Range(rr) \subseteq workers
    OBVIOUS
  <2>1. \A d \in Conn : ~AddressTaken(d)
    BY SessionAssumption DEF Inv, OwnNames, AddressTaken
  <2>2. Range(sockets) \subseteq Conn
    BY RangeOfSeq DEF Inv, Types
  <2> QED
    BY <2>1, <2>2 DEF Inv, RosterConsistent, ReadableHaveWorkers
<1> QED
  BY <1>1, Invariance, PTL

\* A login never takes a name away from the connection that has it.
THEOREM NamesNeverTakenOver == Spec => NamesNotTakenOver
<1> DEFINE A == \A n \in Name : players[n] /= nil => players'[n] \in {nil, players[n]}
<1>1. Inv /\ [Next]_vars => [A]_vars
  BY NextInv
<1> QED
  BY <1>1, Invariance, PTL DEF Spec, NamesNotTakenOver
=============================================================================
