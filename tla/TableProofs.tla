---------------------------- MODULE TableProofs -----------------------------
(***************************************************************************)
(* Proofs about Table, for every set of players and entities, every set of *)
(* box scripts and every bound on ids.                                     *)
(***************************************************************************)
EXTENDS Table, GameProofs

-----------------------------------------------------------------------------
(***************************************************************************)
(* The theorems.                                                           *)
(***************************************************************************)

Inv == /\ GInv(game, online)
       /\ StockOK(game)
       /\ game.out = <<>>
       /\ game.raised = FALSE
       /\ online \subseteq Player

\* A step of the table leaves every hand but one player's alone.
HandStep == \E p \in Player : OwnHand(game, game', p)

LEMMA FlushFields ==
    ASSUME NEW s, NEW on, GInv(s, on), NEW p
    PROVE  /\ GInv(Flush(s), on) /\ OwnHand(s, Flush(s), p)
           /\ SameRegistry(Flush(s), s) /\ SameTree(Flush(s), s) /\ Flush(s).count = s.count
           /\ Flush(s).out = <<>> /\ Flush(s).raised = FALSE
<1> DEFINE t == Flush(s)
<1>1. /\ t \in State /\ t.out = <<>> /\ t.raised = FALSE /\ t.count = s.count
      /\ SameRegistry(t, s) /\ SameTree(t, s) /\ SameHands(t, s) /\ t.opened = s.opened
  <2>1. <<>> \in Seq(Message)
    OBVIOUS
  <2> QED
    BY <2>1 DEF GInv, Flush, State, SameRegistry, SameTree, SameHands
<1> HIDE DEF t
<1>2. GInv(t, on) /\ OwnHand(s, t, p)
  BY <1>1, GInvSame
<1> QED
  BY <1>1, <1>2 DEF t

LEMMA FinishInv ==
    ASSUME Inv, NEW s, NEW p \in Player, GInv(s, online), OwnHand(game, s, p),
           Effect(s, game), Finish(s, p)
    PROVE  Inv' /\ OwnHand(game, game', p) /\ Effect(game', game)
<1>1. CASE s.raised
  <2> DEFINE t == PlayerDisconnect(s, p)
  <2>1. game' = Flush(t) /\ online' = online \ {p}
    BY <1>1 DEF Finish
  <2>2. /\ GInv(t, online \ {p}) /\ OwnHand(s, t, p)
        /\ SameRegistry(t, s) /\ SameTree(t, s) /\ SameRest(t, s)
    BY PlayerDisconnectInv
  <2> HIDE DEF t
  <2>3. /\ GInv(game', online') /\ OwnHand(t, game', p)
        /\ SameRegistry(game', t) /\ SameTree(game', t) /\ game'.count = t.count
        /\ game'.out = <<>> /\ game'.raised = FALSE
    BY <2>1, <2>2, FlushFields
  <2>4. OwnHand(game, t, p)
    BY <2>2, OwnHandTrans
  <2>5. OwnHand(game, game', p)
    BY <2>3, <2>4, OwnHandTrans
  <2>6. Effect(game', game)
    BY <2>2, <2>3, EffectThen DEF SameRegistry, SameTree, SameRest
  <2> QED
    BY <2>1, <2>3, <2>5, <2>6, StockInv DEF Inv
<1>2. CASE ~s.raised
  <2>1. game' = Flush(s) /\ online' = online
    BY <1>2 DEF Finish
  <2>2. /\ GInv(game', online') /\ OwnHand(s, game', p)
        /\ SameRegistry(game', s) /\ SameTree(game', s) /\ game'.count = s.count
        /\ game'.out = <<>> /\ game'.raised = FALSE
    BY <2>1, FlushFields
  <2>3. Effect(game', game)
    BY <2>2, EffectThen DEF SameRegistry, SameTree
  <2> QED
    BY <2>1, <2>2, <2>3, OwnHandTrans, StockInv DEF Inv
<1> QED
  BY <1>1, <1>2

LEMMA InitInv == Init => Inv
<1> SUFFICES ASSUME Init PROVE Inv
  OBVIOUS
<1>1. PICK ids \in ScriptIds(NewGame, Start) : game = Flush(RunScript(NewGame, Start, ids))
  BY DEF Init
<1> DEFINE s == RunScript(NewGame, Start, ids)
<1>2. Start \in Scripts /\ NewGame \in State
  BY NewGameInv DEF Scripts, GInvExceptBoxes
<1>6. /\ SameRest(s, NewGame)
      /\ \A o \in Object :
            s.r_objects[o] = IF o \in Range(Start) THEN ids[o] ELSE NewGame.r_objects[o]
  BY ONLY <1>2, ids \in ScriptIds(NewGame, Start), RunScriptFields
<1>8. GInv(s, {})
  BY StartInv
<1> HIDE DEF s
<1>9. online = {} /\ game = Flush(s)
  BY <1>1 DEF Init, s
<1>10. /\ GInv(game, {}) /\ game.out = <<>> /\ game.raised = FALSE
       /\ SameRegistry(game, s) /\ SameTree(game, s) /\ game.count = s.count
  BY <1>8, <1>9, FlushFields
<1>11. StockOK(game)
  <2>1. Range(Start) \cap Stones = {} /\ \A o \in Object : NewGame.r_objects[o] = 0
    BY <1>2, ScriptFacts DEF NewGame
  <2>2. Effect(s, NewGame)
    <3>1. Stays(s, NewGame)
      BY <2>1 DEF Stays, Object
    <3>2. Live(s) = Live(NewGame)
      BY <1>6, <2>1 DEF Live, Stones, Object
    <3>3. Stocked(NewGame) = {}
      BY <2>1 DEF Stocked, Piles, Object
    <3> QED
      BY <1>6, <3>1, <3>2, <3>3 DEF Effect, Moved, SameRest
  <2>3. Effect(game, NewGame)
    BY <1>10, <2>2, EffectThen DEF SameRegistry, SameTree
  <2> QED
    BY <1>2, <1>10, <2>3, NewGameInv, NewGameStock, StockKept DEF GInv, GInvExceptBoxes
<1> QED
  BY <1>9, <1>10, <1>11 DEF Inv

LEMMA NextInv ==
    Inv /\ [Next]_vars =>
        Inv' /\ (HandStep \/ UNCHANGED game) /\ Effect(game', game)
<1> SUFFICES ASSUME Inv, [Next]_vars
             PROVE  Inv' /\ (HandStep \/ UNCHANGED game) /\ Effect(game', game)
  OBVIOUS
<1>0. GInv(game, online) /\ StockOK(game) /\ online \subseteq Player
  BY DEF Inv
<1>1. ASSUME NEW p \in Player, Login(p)
      PROVE  Inv' /\ HandStep /\ Effect(game', game)
  <2>1. PICK i \in PlayerIds(game, p) : game' = Flush(AddPlayer(game, p, i))
    BY <1>1 DEF Login
  <2> DEFINE s == AddPlayer(game, p, i)
  <2>2. GInv(s, online \cup {p}) /\ OwnHand(game, s, p) /\ Effect(s, game)
    BY <1>0, AddPlayerInv
  <2>3. game' = Flush(s) /\ online' = online \cup {p}
    BY <1>1, <2>1 DEF Login
  <2> HIDE DEF s
  <2>4. /\ GInv(game', online') /\ OwnHand(s, game', p)
        /\ SameRegistry(game', s) /\ SameTree(game', s) /\ game'.count = s.count
        /\ game'.out = <<>> /\ game'.raised = FALSE
    BY <2>2, <2>3, FlushFields
  <2>5. Effect(game', game)
    BY <2>2, <2>4, EffectThen DEF SameRegistry, SameTree
  <2>6. StockOK(game')
    BY <1>0, <2>4, <2>5, StockInv
  <2> QED
    BY <1>0, <2>2, <2>3, <2>4, <2>5, <2>6, OwnHandTrans DEF Inv, HandStep
<1>2. ASSUME NEW p \in Player, Leave(p)
      PROVE  Inv' /\ HandStep /\ Effect(game', game)
  <2> DEFINE s == PlayerDisconnect(game, p)
  <2>1. /\ GInv(s, online \ {p}) /\ OwnHand(game, s, p)
        /\ SameRegistry(s, game) /\ SameTree(s, game) /\ SameRest(s, game)
    BY <1>0, PlayerDisconnectInv
  <2>2. game' = Flush(s) /\ online' = online \ {p}
    BY <1>2 DEF Leave
  <2> HIDE DEF s
  <2>3. /\ GInv(game', online') /\ OwnHand(s, game', p)
        /\ SameRegistry(game', s) /\ SameTree(game', s) /\ game'.count = s.count
        /\ game'.out = <<>> /\ game'.raised = FALSE
    BY <2>1, <2>2, FlushFields
  <2>4. Effect(game', game)
    BY <2>1, <2>3, EffectSame DEF SameRegistry, SameTree, SameRest
  <2>5. StockOK(game')
    BY <1>0, <2>3, <2>4, StockInv
  <2> QED
    BY <1>0, <2>1, <2>2, <2>3, <2>4, <2>5, OwnHandTrans DEF Inv, HandStep
<1>3. ASSUME NEW p \in Player, NEW e \in Entity, RequestPickup(p, e)
      PROVE  Inv' /\ HandStep /\ Effect(game', game)
  <2> DEFINE s == TokenPickup(game, e, p)
  <2>1. p \in online /\ e \in Tokens /\ game.r_objects[e] /= 0 /\ Finish(s, p)
    BY <1>3 DEF RequestPickup, Registered
  <2>2. /\ GInv(s, online) /\ OwnHand(game, s, p)
        /\ SameRegistry(s, game) /\ SameTree(s, game) /\ SameRest(s, game)
    BY <1>0, <2>1, TokenPickupInv
  <2>3. Effect(s, game)
    BY <2>2, EffectSame DEF SameRegistry, SameTree, SameRest
  <2> HIDE DEF s
  <2> QED
    BY <2>1, <2>2, <2>3, FinishInv DEF HandStep
<1>4. ASSUME NEW p \in Player, NEW e \in Entity, RequestDrop(p, e)
      PROVE  Inv' /\ HandStep /\ Effect(game', game)
  <2> DEFINE s == Drop(game, e, p)
  <2>1. p \in online /\ e \in Droppables /\ game.r_objects[e] /= 0 /\ Finish(s, p)
    BY <1>4 DEF RequestDrop, Registered
  <2>2. GInv(s, online) /\ OwnHand(game, s, p) /\ Effect(s, game)
    <3>1. CASE e \in Pieces
      <4>0. e \notin Piles
        BY <3>1 DEF Piles, Pieces
      <4>1. s = PieceDrop(game, e, p)
        BY <3>1, <4>0 DEF Drop
      <4> HIDE DEF s
      <4> QED
        BY <1>0, <2>1, <3>1, <4>1, PieceDropInv
    <3>2. CASE e \in Piles
      <4>1. e \notin Pieces
        BY <3>2 DEF Piles, Pieces
      <4>2. s = PileDrop(game, e, p)
        BY <3>2, <4>1 DEF Drop
      <4> HIDE DEF s
      <4> QED
        BY <1>0, <2>1, <3>2, <4>2, PileDropInv
    <3>3. CASE e \notin Pieces /\ e \notin Piles
      <4>1. s = BoardDrop(game, e, p)
        BY <3>3 DEF Drop
      <4>2. e \in Fields \cup Boards
        BY <2>1, <3>3 DEF Droppables
      <4> HIDE DEF s
      <4> QED
        BY <1>0, <2>1, <4>1, <4>2, BoardDropInv
    <3> QED
      BY <3>1, <3>2, <3>3
  <2> HIDE DEF s
  <2> QED
    BY <2>1, <2>2, FinishInv DEF HandStep
<1>5. ASSUME NEW p \in Player, NEW e \in Entity, RequestTakeItem(p, e)
      PROVE  Inv' /\ HandStep /\ Effect(game', game)
  <2>1. PICK x \in Stones, i \in BordersNext(Occupied(game)) :
            game.id[x] = 0 /\ Finish(TakeItem(game, e, p, x, i), p)
    BY <1>5 DEF RequestTakeItem
  <2> DEFINE s == TakeItem(game, e, p, x, i)
  <2>2. p \in online /\ e \in Piles /\ game.r_objects[e] /= 0
    BY <1>5 DEF RequestTakeItem, Registered
  <2>3. GInv(s, online) /\ OwnHand(game, s, p) /\ Effect(s, game)
    BY <1>0, <2>1, <2>2, TakeItemInv
  <2> HIDE DEF s
  <2>4. Finish(s, p)
    BY <2>1 DEF s
  <2> QED
    BY <2>3, <2>4, FinishInv DEF HandStep
<1>6. ASSUME NEW p \in Player, NEW b \in Entity, RequestOpen(p, b)
      PROVE  Inv' /\ HandStep /\ Effect(game', game)
  <2>1. b \in Boxes
    BY <1>6 DEF RequestOpen
  <2>2. PICK ids \in OpenIds(game, b) : Finish(OpenBox(game, b, ids), p)
    BY <1>6 DEF RequestOpen
  <2> DEFINE s == OpenBox(game, b, ids)
  <2>3. GInv(s, online) /\ OwnHand(game, s, p) /\ Effect(s, game)
    BY <1>0, <2>1, OpenBoxInv
  <2> HIDE DEF s
  <2>4. Finish(s, p)
    BY <2>2 DEF s
  <2> QED
    BY <2>3, <2>4, FinishInv DEF HandStep
<1>7. CASE UNCHANGED vars
  BY <1>0, <1>7, EffectSame DEF Inv, vars
<1> QED
  BY <1>1, <1>2, <1>3, <1>4, <1>5, <1>6, <1>7 DEF Next

\* The inductive invariant holds in every reachable state.
THEOREM Invariance == Spec => []Inv
<1>1. Init => Inv
  BY InitInv
<1>2. Inv /\ [Next]_vars => Inv'
  BY NextInv
<1> QED
  BY <1>1, <1>2, PTL DEF Spec

\* Every field of the game state keeps its type, and every dispatch clears
\* what it broadcast and raised, whatever the players do.
THEOREM TypeCorrect == Spec => []TypeOK
<1>1. Inv => TypeOK
  BY DEF Inv, GInv, TypeOK
<1> QED
  BY <1>1, Invariance, PTL

\* Player.held and Token.held_by agree after every dispatch.
THEOREM HandsAlwaysAgree == Spec => []HandsAgree
<1>1. Inv => HandsAgree
  BY DEF Inv, GInv, HandsOK, HandsAgree
<1> QED
  BY <1>1, Invariance, PTL

\* A hand is empty or holds a registered token, and belongs to a connected
\* player.
THEOREM HandsAlwaysLive == Spec => []HandsLive
<1>1. Inv => HandsLive
  BY DEF Inv, GInv, HandsOK, HandsLive, Registered
<1> QED
  BY <1>1, Invariance, PTL

\* The two tables of server/Game.lua stay inverses of each other, whichever
\* borders the length operator returns.
THEOREM RegistryAlwaysInverse == Spec => []RegistryInverse
<1>1. Inv => RegistryInverse
  BY DEF Inv, GInv, RegistryOK, RegistryInverse, Registered
<1> QED
  BY <1>1, Invariance, PTL

\* Parent links and child lists agree after every dispatch.
THEOREM TreeAlwaysConsistent == Spec => []TreeConsistent
<1>1. Inv => TreeConsistent
  BY DEF Inv, GInv, TreeOK, TreeConsistent
<1> QED
  BY <1>1, Invariance, PTL

\* Piles are empty and pieces are placed between dispatches: the two facts
\* Pile.drop and chess.Piece.drop take for granted.
THEOREM PlacesAlwaysReady == Spec => []PlacesReady
<1>1. Inv => PlacesReady
  <2> SUFFICES ASSUME Inv PROVE PlacesReady
    OBVIOUS
  <2>1. GInv(game, online)
    BY DEF Inv
  <2>2. ASSUME NEW e \in Piles PROVE game.children[e] = <<>>
    BY <2>1, PileEmpty DEF GInv
  <2>3. ASSUME NEW e \in Pieces, Registered(game, e) PROVE game.parent[e] /= nil
    BY <2>1, <2>3 DEF GInv, PlacesOK, Pieces, Registered
  <2> QED
    BY <2>2, <2>3 DEF PlacesReady
<1> QED
  BY <1>1, Invariance, PTL

\* No sequence of drops closes a cycle in the widget graph, for any set of
\* entities of the classes the repository ships.
THEOREM WidgetGraphAlwaysAcyclic == Spec => []WidgetGraphAcyclic
<1>1. Inv => WidgetGraphAcyclic
  <2> SUFFICES ASSUME Inv, NEW S \in SUBSET Entity, S /= {}
               PROVE  \E e \in S : game.parent[e] \notin S
    BY DEF WidgetGraphAcyclic
  <2>1. PlacesOK(game) /\ nil \notin Entity
    BY GameAssumption DEF Inv, GInv, Object
  <2>2. PICK x \in S : TRUE
    OBVIOUS
  <2>3. \A e \in Entity :
           /\ game.parent[e] \in Fields \cup Boards \cup {nil}
           /\ e \in Fields => game.parent[e] = nil
           /\ e \in Boards => game.parent[e] \in Fields \cup {nil}
    BY <2>1 DEF PlacesOK
  <2>4. S \subseteq Entity /\ nil \notin S
    BY <2>1
  <2> QED
    BY <2>2, <2>3, <2>4, Zenon
<1> QED
  BY <1>1, Invariance, PTL

\* No step takes a token out of one hand and puts it into another.
THEOREM NobodySteals == Spec => NoStealing
<1> DEFINE A == \A e \in Entity : game.held_by[e] /= nil =>
                    game'.held_by[e] \in {nil, game.held_by[e]}
<1>1. Inv /\ [Next]_vars => [A]_vars
  <2>1. HandStep => A
    BY DEF HandStep, OwnHand
  <2>2. UNCHANGED game => A
    OBVIOUS
  <2> HIDE DEF A
  <2> QED
    BY <2>1, <2>2, NextInv
<1> QED
  BY <1>1, Invariance, PTL DEF Spec, NoStealing

\* The stones in the piles and those in play add up to what the boxes supplied,
\* for any number of piles and stones.
THEOREM StonesAlwaysConserved == Spec => []StonesConserved
<1>1. Inv => StonesConserved
  BY DEF Inv, StockOK, StonesConserved, Total, Live, Stocked, Registered
<1> QED
  BY <1>1, Invariance, PTL

\* What has been placed moves, or leaves the game, only from a hand.
THEOREM EverythingMovesFromHand == Spec => MovesFromHand
<1> DEFINE A == \A e \in Entity \ Boxes : Registered(game, e) =>
                    (game'.parent[e] /= game.parent[e] \/ ~Registered(game', e)
                        => game.held_by[e] /= nil)
<1>1. Inv /\ [Next]_vars => [A]_vars
  <2>1. Effect(game', game) => A
    BY DEF Effect, Stays, Registered
  <2> HIDE DEF A
  <2> QED
    BY <2>1, NextInv
<1> QED
  BY <1>1, Invariance, PTL DEF Spec, MovesFromHand
=============================================================================
