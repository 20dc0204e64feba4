# Felt: a verification project

Felt is a program for playing board games over a network: a server keeps the
game, and a Qt client for each player shows it and sends the server what the
player clicks. Both are written in Lua, and the repository holds the interpreter
that runs them, in C. This directory holds TLA+ models of the program and of the
core of the interpreter, the configurations that model-check them with TLC, and
proofs of the most important properties that TLAPS checks. `PROJECT.json` lists components, runs, mutants, the lines every
definition models, the findings, the hazards and the theorems.

## 1. The system

| part | state | operations | code |
| --- | --- | --- | --- |
| game and registry | `objects` (id to object), `r_objects` (object to id), fields, players | `addObject`, `deleteObject`, `addPlayer`, `addField`, `openGame` | `server/Game.lua`, `server/game/felt/Object.lua` |
| entities | `parent`, `children`; tokens `held_by`; piles `count`; players `held` | `moveto`, `remove`, `delete`, `pickup`, `drop`, `takeItem`, `disconnect`, `set` | `server/game/felt/*.lua` |
| game boxes | `opened` | `open`, which runs a script that creates and places entities | `server/game/{gameboxes,chess,go}/*.lua` |
| server | `_sockets`, `_clients`, `_players` | `step` (accept, select, read, write), `send`, `register`, `unregister`, `dispatch`, `login`, `chat` | `server/Server.lua` |
| client worker | `sendq`, `name`, `player` | `receiveOne`, `sendOne`, `send`, `sendNow`, `disconnect` | `server/ClientWorker.lua` |
| client connection | `_sendq`, `_sendbuf` | `connect`, `disconnect`, `step`, `ServerReader`, `ServerWriter` | `client/Client.lua` |
| client replica | a copy of the game, Qt items and scenes | `__unpack`, `addObject`, `deleteObject`, `addPlayer`, `moveto`, `delete`, `set`; mouse events and menus | `client/Game.lua`, `client/game/felt/*.lua` |
| box | none | `pack`, `unpack` | `lib/box/*.lua` |
| class system | class tables | `class`, `mixin`, `trait`, `new` | `lib/Object.lua` |

The interpreter, under `src/lua/src`, whose semantics the rest takes for granted:

| part | state | operations | code |
| --- | --- | --- | --- |
| garbage collector | colours, lists of gray, weak and finalizable objects, the sweep's place, the string table | `singlestep`, `luaC_fullgc`, barriers, creation of every type of object, `lua_close` | `lgc.c`, `lfunc.c`, `lstring.c`, `lstate.c` |
| tables | array part, nodes, free pointer | `luaH_get`, `luaH_set`, `rehash`, `luaH_next`, `luaH_getn` | `ltable.c` |
| calls | CallInfos, `nCcalls`, `errfunc`, status of coroutines | `luaD_call`, `luaD_pcall`, `luaD_throw`, `lua_resume`, `lua_yield` | `ldo.c`, `lbaselib.c` |
| compiler | function states, jump lists, registers | one rule per construct; `luaK_*`; `luaU_dump`, `luaU_undump` | `lparser.c`, `lcode.c`, `ldump.c`, `lundump.c`, `ldebug.c` |
| virtual machine | stack, frames, upvalues | one per instruction | `lvm.c`, `ldo.c`, `lfunc.c` |
| libraries | captures; the range being sorted | `find`, `match`, `gmatch`, `gsub`, `sort` | `lstrlib.c`, `ltablib.c` |

How they interact. A click becomes a remote method invocation (RMI): the client
sends an object id and a method name. `receiveOne` reads one such message and
dispatches it to its end, so handlers never interleave with each other. A
handler changes the game and broadcasts each change to every logged-in client
with `server.send`, which packs the message at once and appends it to each
client's `sendq`. An object the clients know is packed as its id, a new one in
full. A client that logs in is sent the whole game and then the broadcasts that
follow. A Lua error in a handler unwinds to `receiveOne`, which disconnects the
client; what the handler had done by then stays done.

What is hard:

- a click is about a replica some messages old, so requests arrive late: the
  token is in another hand by now, the hand is empty, the object is deleted,
  or its id means another object;
- clients join, vanish and come back at any point, holding tokens and with
  requests in flight;
- one fact is kept in several places (two hand tables, two id tables, parent
  links and child lists, and all of it again in every client), each updated by
  its own assignment and message;
- ids come from the length of a table with holes;
- the server's loop reads and writes sockets with blocking calls, on the basis
  of a `select` that earlier reads of the same round may have made obsolete;
- in the interpreter, the collector runs in small steps between any two
  operations of a program that changes the graph under it; tables are changed
  while they are traversed; errors unwind C calls, coroutines and handlers at
  once; and the compiler decides in one pass where values and jumps go.

What makes each part correct: *game and entities* - the copies of a fact agree
after every dispatch, nothing is held by nobody or twice, the widget graph is a
forest, stones are conserved; *protocol* - a client can make sense of every
message and ends up with the server's game; *sessions* - the server's tables
agree, names are exclusive, closed connections go away, queues drain;
*connection* - messages arrive unbroken and in order; *box* - unpacking is the
inverse of packing; *collector* - what can be used is never freed, and the rest is
in the end; *tables* - they are maps, and a traversal visits each field once;
*calls* - the two stacks and the counters agree whatever fails; *compiler and
machine* - a program does what the manual says; *libraries* - matches and orders
are those the manual defines.

## 2. Modules

| module | what it is |
| --- | --- |
| `Game` | the server's game state as a record, and its methods as operators from states to states |
| `Table` | the state machine of the server's game: logins, departures, and one action per request |
| `GameProofs` | TLAPS proofs about the methods of `Game`, which the next two proof modules share |
| `TableProofs` | TLAPS proofs about `Table` |
| `Felt` | server, network and clients: `Game` plus a replica, an inbox and an outbox per player; implements `Table` |
| `FeltProofs` | TLAPS proofs about `Felt`: understanding, convergence, refinement |
| `Session` | sockets, workers, the select loop, login and disconnection |
| `SessionProofs` | proofs about `Session` |
| `Wire` | one connection as a stream of bytes, with bounded buffers and time-outs |
| `WireProofs` | proofs about `Wire` |
| `Box` | packing and unpacking graphs of Lua values |
| `MCBoxes` | small chess and go boxes for TLC |
| `LuaGC` | the incremental collector beside a program that may do anything with what it holds |
| `LuaTable` | a table with its array part and chained nodes; implements `TableMap` |
| `TableMap` | what a table promises: a map, and traversals |
| `LuaTableProofs` | proofs about `LuaTable` |
| `LuaCalls` | CallInfos, C stack, protected calls, error functions, coroutines |
| `LuaCallsProofs` | proofs about `LuaCalls` |
| `LuaValues` | values and arithmetic that the next five share |
| `LuaCode`, `LuaParser` | code generator and parser, from tokens to a prototype |
| `LuaChunk` | writing and reading precompiled chunks |
| `LuaLanguage` | the manual's semantics as an evaluator of syntax trees: the reference |
| `LuaVM` | the virtual machine, running what the parser made of a program |
| `LuaPattern` | the matcher and the functions that use it |
| `LuaPatternLanguage` | what the manual says a pattern matches: the reference |
| `LuaSort`, `LuaLib` | `table.sort`, one step per comparison; both libraries together |
| `SequenceLemmas` | proved lemmas that the proofs share: least numbers, induction, recursion, sequences, sums |
| `MCTable`, `MCFelt`, `MCSession`, `MCWire`, `MCBox`, `MCLua...` | the instances TLC checks |

**Game.** Methods are operators because the code composes them: `Pile.drop`
calls `Board.drop`, which calls `Player.drop`, which calls `Entity.moveto`. Two
fields stand for the dispatch under way: `out`, the messages broadcast so far,
and `raised`, whether a Lua error ended it. An object with id 0 has not been
constructed. `BordersNext` is what `#objects+1` may be: any free id after an
occupied one. A box script is a sequence of entities (`Contents`, `Start`), each
with the entity it is added to (`Home`); `ScriptAssumption` states what the
scripts of the repository have in common, among it that an entity is created
before what is placed on it, and TLC evaluates it on every instance. Only stones are ever deleted and they have no children, so `Delete`
has no recursion. `PileCount` is the count a pile is constructed with. The go
box leaves it at `math.huge`; a finite count is a bound that also exercises the
empty pile. A hand may hold a player object: `Player.pickup` takes what it is
given, and in `Felt` a late request can give it a player. Positions and messages
that only carry text are left out.

**Table.** Each action is a whole dispatch: the handler, and, if it raised an
error, the disconnection that follows (`Finish`). A request may name any
registered entity that has the method, so it covers clicks on a stale screen.

**Felt.** `inbox[p]` is all that lies between `server.send` and the client's
`DispatchMessage`, `outbox[p]` all between `client.send` and
`server.dispatch`. Messages carry, besides the id that is on the wire, the
object the sender meant, so that a reference that resolves to another object
can be recognised. `Fails` collects the ways a client can fail on a message;
`Clicks` is what the mouse and the context menu offer. A client that quits
leaves requests behind, perhaps not all of them (`ClientGone`), and the server
goes on serving these until it notices (`Cull`). After a disconnection by the
server the client is taken to be gone at once: what it still reads or sends
affects nobody else. Only a stone's id can be stale and only `pickup` can be
asked of a stone, so `Invoke` has one misdirected case that is not an error on
the spot besides picking up another token: a player object's own `pickup`, which
puts the *requesting player* into that player's hand. `Felt` follows this state
too (see `BoardDrop`).

**Session.** `server.step` is split where other processes can act: accept,
select, one `receiveOne` per readable socket, one `sendOne` per writable one.
A message reaches the server in two parts, and a read blocks until the second
has arrived or the connection is closed. `AddressName` is the name
`client:<address>` a worker has before login (`ClientWorker.lua:11`), a string like
any other: connections may share it, and a player may be called so. `player` is the
worker's field of that name, reduced to the name of the player object, and `active`
the player objects that have not been told to disconnect. `Unregister` has both
outcomes of `server.unregister`. For a worker without a player, in whose name there
is a player, `client.player:disconnect()` (`Server.lua:113`) is an error, after
`_clients[sock]` was cleared and before the socket is closed; the `xpcall` around the
dispatch swallows it. When `step` comes to read that socket, it indexes nil
(`Server.lua:54`), which nothing catches: `Stop` ends the loop (`phase = "dead"`)
and with it all connections. `Register` can end it too: `__init` concatenates
`getpeername()`, which is nil if the peer has reset the connection while it waited
to be accepted. What LuaSocket does there is taken from its interface; `Close` covers
both kinds of end of a connection. (Logging cannot raise: `ui.message` has a
`pcall`.) The number of broadcasts of a dispatch is taken to be one (two for a login).

**Wire.** What `Felt` and `Session` take for granted: that messages arrive whole.
`up` and `down` are the bytes in the socket buffers, at most `setting.up` and
`setting.down`; a byte of a body is identified by its message and place, so a buffer
that mixes two messages can be recognised. `client.step` and `server.step` are
split at every call of `receive` and `send`, and these into pieces when they
get or place part of what they want. `blocking` is the `settimeout(-1)` that
`ServerReader` leaves behind for `ServerWriter`. `TimeoutInHeader` says whether
a time-out may strike while part of a header has arrived; `setting.fails`,
whether `box.unpack` or the dispatch of a message may raise an error in the client,
after which it says goodbye and closes. `heard` is history: what was handed to
`box.unpack`.

**Box.** `DoPack` and `DoUnpack` are recursive operators that thread the tables
of back references through, as the code does by assignment. The packed string is
a sequence of tags, numbers and texts, and tables of contents count these; so
`ReadToc` has to find its way with lengths, as the code does with bytes. An
object's `__pack` is one of the two there are: the server's makes a constructor
call, the client's adds the object to the known ones and packs it again.
`unpack.C` turns the constructor's table into the object, since nothing else
refers to that table.

**LuaGC.** The variable `g` is `global_State` with all objects. An action is one
operation of the running program (create an object, read or write a reference,
capture a register, resume, yield, return), each with the barrier its code
calls, or one `singlestep` of the collector; `luaC_fullgc` and `lua_close` are
split at their steps as well. Tables have one entry, closures one upvalue and
prototypes one constant, so that marking an object is one step, as in the code;
that tables are traversed whole is why more entries would add nothing. How many
steps a `luaC_checkGC` takes depends on sizes and is left open. `born`, the order
in which userdata were created, is history.

**LuaTable.** `t` holds the array part and the nodes with key, value, next and
the mark of a dead key, and the place where the search for a free node goes on.
`Set` is `luaH_set` with the rehash it may cause. A value is its own key, so that
a value in the wrong place shows. `M` maps it to `TableMap`: the value of a key
is what `luaH_get` returns.

**LuaCalls.** `cs` is the C stack, reduced to the activations that matter, and `th`
gives each thread its CallInfos, counters, error function and status. An error is
an activation (`raise`) that first calls the error function and then unwinds to
the last `luaD_pcall` or `lua_resume`. Which function calls what, fails or yields
is left to the program.

**LuaCode, LuaParser, LuaChunk, LuaVM.** The functions of the code generator and
the parser are operators on function states and expression descriptors, named as
in the code; jump lists are threaded through the instructions and packed as there.
Instructions are records, and their operands keep the limits that matter
(`MAXINDEXRK`, `MAXARG_C`, `LFIELDS_PER_FLUSH`), as constants small enough to be
exceeded. A behaviour of `LuaVM` loads one program, from tokens or from a chunk,
perhaps cut off, and executes it, one instruction per step. What compiles tokens and
what reads chunks are parameters of the machine; the configurations give them
`luaY_parser` and `luaU_undump`. `RunsAsWritten` compares the end of the program
with what `LuaLanguage` makes of its tree. A list count stored as a raw word after
`OP_SETLIST` is kept apart from instructions. Left out: line numbers, the fixed limits on locals, upvalues,
registers and levels, the range of a jump, division and fractions, strings as
numbers and their order, hooks, coroutines, environments, userdata and catching
errors.

**LuaPattern, LuaSort, LuaLib.** The recursion of `match` is an operator that
returns the end of the match and the captures, undone where the code undoes them;
each attempt of `str_find_aux`, `gmatch_aux` or `str_gsub` at one place is a step.
Pointers are offsets, and strings have their terminator. `auxsort` is split at
each comparison, because with a Lua function as order the answer may be anything,
or an error.

## 3. Runs

| run | instance | checks |
| --- | --- | --- |
| `table` | 2 players; chess box with board and 2 pieces, go table with 1 bowl, 1 stone | `TypeOK`, `HandsAgree`, `HandsLive`, `TreeConsistent`, `PlacesReady`, `RegistryInverse`, `StonesConserved`, `WidgetGraphAcyclic`, `MovesFromHand`, `NoStealing` |
| `felt_go` | 2 clients, field, bowl, 2 stones | `MessagesResolve`, `ReplicasConverge` |
| `felt_chess` | 2 clients, chess box with board and piece | `ImplementsTable` |
| `session` | 3 connections, 2 for one name, which is also the default name of one's worker; one plays | `RosterConsistent`, `ReadableHaveWorkers`, `NamesNotTakenOver`, `ClosedAreCulled`, `QueuesDrain` |
| `wire` | 2 messages each way, of 1 and 3 bytes; a request does not fit into its buffer, or a broadcast does not fit and the client may fail | `BothUnderstand`, `AllDelivered` |
| `box` | all graphs of a root table with two fields and two nodes with one | `RoundTrip` |
| `lua_gc` | 6 programs with 2 to 4 objects besides the main thread, globals and registry | `NothingLiveFreed`, `AssertionsHold`, `TriColour`, `FinalizedInOrder`, `Collected` |
| `lua_table` | 4 integer keys, or one and 3 that collide; tables built with room for 0 to 4 | `AssertionsHold`, `LengthIsBorder`, `ImplementsMap` |
| `lua_calls` | one coroutine and all functions, or two that resume each other | `StacksAgree`, `CCallsCounted`, `HandlersNest`, `StatusTrue` |
| `lua_compile` | some 11700 programs | `RunsAsWritten`, `CutChunksRejected`, `AssertionsHold`, `UpvaluesLive` |
| `lua_lib` | patterns of up to 3 items, replacements, malformed patterns; arrays of up to 6 | `MatchesAsPromised`, `TextKept`, `SortsAndKeeps` |
| `lua_boolean` | conditions with constants | `RunsAsWritten`, which the code violates |

The other modules' `TypeOK` documents their state and is an invariant of no run.

`MessagesResolve` and `ReplicasConverge` look ahead: they say what *will* happen
when a client handles all that is on its way to it, so they constrain the order
of every broadcast relative to registration, deletion and login.
`ImplementsTable` says that the server's half of `Felt` is a behaviour of
`Table`: what is proved of `Table` holds of the system with its clients, where
nothing is deleted. It does not hold on the go table: there a request
can reach a player object (section 4), and section 5 says that nothing else goes
wrong. `ImplementsMap` says the same of `LuaTable`
and `TableMap`.

Bounds. `MaxId` is the number of objects of the instance, so that running out of
ids is no restriction; an id that is reused shows up with one stone put back and
one taken. The set of stones bounds how often a stone is taken. Two pieces are
enough for a cycle of two, and the proof covers the longer ones; two players are
enough for every race over one token, and a third would only watch. `MaxRequests = 1` and
`MaxLag` of 1 or 2 in `Felt` still let a client click while it has not seen the
effects of what was served, and let others act in between. `felt_go` starts with
its box open, since the effects of opening one are what `felt_chess` is about.
In `Session`, two connections for one name are a reconnection that races its
predecessor, and `MaxMessages` bounds what a client sends after its login: one
message of one client lets queues grow while the others come and go. The second
connection's `client:<address>` is the name the first two log in with, so that its
worker can be lost to the error above; the other two share an address nobody is
called by, and while the loop goes on the properties hold for them without exception.

In `Wire`, headers are in base two, so that a header of two digits belongs to a
message of three bytes. The buffers of `wire` are smaller than a message in one
direction and hold everything in the other. With both smaller
than a message the two ends can wait for each other for ever, and TLC reports
the deadlock; real buffers hold hundreds of requests. In `Box`, three nodes
give sharing, a cycle that does not include the root, and back references whose
numbers depend on what was counted before.

In `LuaGC` each program of `MCWorlds` has just the objects for one of the
interactions of the collector: weak keys with finalizers, two finalizers in one
cycle, a full collection in the middle of a cycle, metatables and environments,
a closure over a register of a coroutine, and two strings in a table that grows
and shrinks. In `LuaTable`, hashes are chosen so that a colliding key has to move
one that is not in its main position; `MaxInt` is so small that the search for a
border overflows. `LuaCalls` has limits of three or four nested C calls, with two
more for error handling, and five CallInfos, so that both overflow, also in
handlers. In `lua_compile` the constants of an instruction overflow at the third
constant, and a list is flushed after two items. The programs are every condition
of up to three operands and a family with five, in five contexts, every
arithmetic expression of two operators, every assignment to two or three of five
left sides, a closure in each kind of loop with each way out, and one or more for
every other construct; conditions over constants are left to `lua_boolean`.
`lua_lib` takes all well-formed sequences of up to three out of twelve items on
four subjects, all classes, and all texts of up to three characters as pattern.

Symmetry (players, stones) is used in runs without liveness properties only.

Deadlock is checked in every run but `session`, where an error can end the server. That
the loop is not stuck before is what `ClosedAreCulled` and `QueuesDrain` say there.

Fairness, in `Session`: the server's loop goes on until an error ends it
(`server.loop` never returns), and a client that has begun a message goes on writing it, as
`ServerWriter` does on every `client.step`. Nothing makes a client connect, log
in, speak or leave. Without the second assumption the blocking read in
`receiveOne` stops the server for good, which is one of the hazards listed.

In `Wire`: both loops go on, and the client does not time out every time before
it has read a line that is there (strong fairness of `ReadHeader`), since what
was sent arrives some time.

In `LuaGC`: a program that goes on allocating lets the collector go on, since
every `luaC_checkGC` above the threshold takes a step; so the collector advances
again and again, until `lua_close`. In `LuaLib`: a function that was called runs.
Nothing is assumed of how an order function answers, and termination is stated
only for `<`.

Every property of a passing run has a mutant in `PROJECT.json`: a definition of
the model changed the way a plausible bug would change the code, under which
TLC finds the property violated.

## 4. What disagrees

1. `lua_boolean`: `luaK_goiftrue` compiles a constant `false` as a bare jump
   (`src/lua/src/lcode.c:547`), which takes over the jumps that were to land there,
   with the values they carry. `((nil and nil) or false) and e` gives nil for any
   constant `e` (which one TLC's trace ends in depends on the search), and
   `((1 or false) and true) or false` gives 1; by the manual's rules (2.5.3) they
   are false and true.

Five more are statements of Felt's own documents. Each has a configuration to run
by hand, in which TLC finds the property named violated:

2. `MCFeltUnique.cfg`, `RequestsHitTarget`: ids are not unique over time
   (`server/Game.lua:44`, against the comment in
   `server/game/felt/Object.lua:13-14`). A late click on a deleted stone reaches
   whatever has its id now.
3. `MCFeltClicks.cfg`, `ClicksAreHarmless`: clicking a bowl twice while holding one
   stone disconnects the player (`server/game/felt/Pile.lua:20`, against
   `doc/SERVER:23`): the second drop finds an empty hand.
4. `MCWireHeader.cfg`, `BothUnderstand`: a read that times out within a header
   loses part of it (`client/Client.lua:130`), and the client mistakes the rest
   for the header.
5. `MCBoxStrings.cfg`, `RoundTrip`: the string "n" is packed as a back reference
   (`lib/box/pack.lua:17`, against `lib/box/init.lua:43`). A player called "n"
   cannot log in.
6. `MCSessionNames.cfg`, `ErrorsClose`: with a player called `client:<address>`, a
   connection from that address that fails before its login keeps its socket
   (`server/Server.lua:113`, against `doc/SERVER:25`, "if something goes wrong (corrupt
   message received, socket closed), the ClientReader closes the socket"). It has lost
   its worker, so the next read of it ends the server (`server/Server.lua:54`).

Seen in the code while modelling, without a run of its own; the models follow
the code, or leave the case out as said here:

- an opened box leaves its field on the server only
  (`server/game/gameboxes/Box.lua:10`, against `doc/SERVER:3`), which is why
  `ReplicasConverge` leaves boxes out;
- a connection that is reset before it is accepted ends the server
  (`server/ClientWorker.lua:11`, outside any `pcall`); `Register` has this case;
- a connection that never logs in is never dropped (against `doc/SERVER:7`);
  `Session` has no such time-out;
- a client that disconnects writes its goodbye into a request that is half sent
  (`client/Client.lua:55`), so `wire` lets the client fail only where all
  requests fit into its buffer;
- an object with a `__pack` method that is part of a cycle cannot be unpacked
  (`lib/box/unpack.lua:89`, against `lib/box/init.lua:63`). No class of the
  repository sends one, and the graphs of `box` have none;
- userdata whose finalizers have not run when `luaC_fullgc` starts another cycle
  stay black in it; `TriColour` excepts them, and `marktmu` makes up for it;
- the assertion of `luaC_barrierf` that the collector is not in `GCSfinalize`
  (`lgc.c:665`) can fail for a userdata that waits for its finalizer and that the
  program finds as a key of a weak table; the barrier does no harm then, and
  `AssertionsHold` excepts it;
- a memory error in `resize` after the array part has grown (`ltable.c:304`) would
  hide integer keys in the hash part; memory errors are not modelled;
- an overflow of the CallInfos that is caught too near to the limit leaves the
  array enlarged (`ldo.c:75`) until an outer call catches something;
  `HandlersNest` allows for it;
- `luaV_settable` sets the key before it looks for a `__newindex` handler
  (`lvm.c:140`), so that `t[nil] = v` raises an error where the manual (2.8) would
  call the handler; no program of `lua_compile` does this;
- an order function that contradicts itself can make `sort` swap the slot after the
  array into it (`ltablib.c:227`), or go on for ever;
- a replacement that ends in `%` adds a NUL (`lstrlib.c`, `add_s`), and a malformed
  pattern is an error only if the matcher gets to the malformed part.

The comment about cycles in `server/game/felt/Board.lua:10-11` promises a check
against dropping an item onto its children that `drop` does not make. With the
classes the repository ships no cycle can arise all the same:
`WidgetGraphAcyclic` holds, and is proved.

## 5. Proofs

What follows is proved for every value of the constants. The assumptions are
those the modules name (`GameAssumption`, `ScriptAssumption`,
`BoundsAssumption`, `SessionAssumption`, `WireAssumption`, `CallsAssumption`,
`TableAssumption` of `LuaTable`), and
what a theorem assumes itself; nothing else.

**SequenceLemmas.** The induction principles of the library take an operator, which
the provers cannot instantiate; here they take a set instead (`Induction`,
`SetInduction`): a set that contains 0 and is closed under successor up to n
contains `0..n`. From these follow that a function defined by recursion over
numbers exists (`Recursion`), what `RemoveFirst` and `Append` do to a list
without repeats, and the laws of sums over finite sets (`Total...`): that
`FoldFunctionOnSet` may take any element first, and what changing one summand or adding
equal ones does.

**Table** (`GameProofs`, `TableProofs`): all its properties, `TypeOK`, `HandsAgree`,
`HandsLive`, `RegistryInverse`, `TreeConsistent`, `PlacesReady`,
`WidgetGraphAcyclic`, `StonesConserved`, `MovesFromHand` and `NoStealing`.
None of these invariants is inductive alone. For instance, `Pile.drop` deletes
`children[1]`, so hands stay live only if piles are empty between dispatches,
which follows from where each class can be, which needs the tree to be
consistent; and `DeleteObject` clears `objects[id]`, so registrations survive
only if the tables are inverses. The inductive invariant `Inv` is the
conjunction

- `State`: types;
- `TreeOK`: child lists are exactly the inverse of `parent`, without repeats;
- `HandsOK`: hand tables agree, hands hold registered tokens of connected players;
- `RegistryOK`: the id tables are inverses, and agree with the objects' ids;
- `PlacesOK`: what is registered is on something registered, only fields and
  boards carry anything, boards and boxes are on fields, pieces are on something;
- `BoxesOK`: an unopened box is on its field and its contents do not exist;
- `StockOK`: the sum, and that a pile that was not created yet is full;

with nothing left in `out` and `raised`. It is stated for a game state and a set
of players (`GInv(s, on)`), because handlers compose: one lemma per operator of
`Game` says which fields it leaves alone, one per method that it preserves
`GInv`, and `NextInv` has one step per action. Acyclicity follows from
`PlacesOK`: along `parent`, an entity is followed by a board or a field, a board
by a field, and a field by nothing. The same lemmas say what a method may do to hands
(`OwnHand`), places and stones (`Effect`), from which the two action properties
and `StonesConserved` follow. Only finitely many entities are ever registered,
because ids are bounded, so the sum makes sense whatever the set of entities.

**Felt** (`FeltProofs`): `MessagesResolve`, `ReplicasConverge` and `TypeOK`, with ids
reused, late requests, and clients that come and go. Both properties look ahead over
a whole inbox, and a dispatch appends to it the messages of methods that call each
other, so the proof is about single methods. `Sync(r, s, ...)` says that a replica
has everything of a game state `s`, boxes aside. A method that leads from `s` to `t`
`Tells` the clients when its messages take every replica in step with `s` to one in
step with `t`, without a failure, a message that means something else on the way, or
an id of anything but a stone passing to another object (`Keeps`). `Tells` composes
(`Played`), as the methods do: `PileDrop` is a `BoardDrop` and a `Delete`. A box script is followed message
by message, through states in which a part of it exists (`Half`). `Leads` carries this
over to inboxes: the invariant is that what is on its way to a client leads it to the
server's game (`AllCatchUp`). That needs

- `Good`, the part of `Table`'s invariant that survives here. It is weaker, because a
  late pickup can put a player into a player's hand; then the tokens' side of the hand
  tables says nothing, and what a method does with such a hand is shown case by case;
- `Asked`: requests under way that were meant for anything but a stone still mean what
  they meant. A stone's id may mean anything, or nothing.

From the same invariant: the server in `Felt` takes only steps of `Table`, or one other,
`Misled`: there are stones, and a pickup reaches a player
(`AlmostImplementsTable`); so without stones `Felt` implements `Table`
(`ImplementsTableWithoutStones`). `T!` brings `Felt` a second copy of `Game`, with the
same constants; that its operators are the same is proved definition by definition
(`SameMethods`, `SameScripts`).

**Session** (`SessionProofs`): `RosterConsistent`, `ReadableHaveWorkers` and
`NamesNotTakenOver`, for all names, those workers have before login included.
Besides the first two the invariant needs `AcceptedOnce` (a connection is accepted at
most once, and has had no worker or player before), `OwnNames` (a worker has the name
of its address, or that of its player, and then is the entry of that name in
`_players`, so that unregistering one worker cannot take away the entry of another)
and `ReadOnce` (no socket is read twice in a round: `unregister` takes it off the list
it may still be on). The exceptions in the two properties are the sockets that the
error in `unregister` left without a worker; the proof shows that each of them needs
a player who logged in under that `client:<address>`. So `WorkersIfNamesApart`: if no
client logs in under such a name, a running server has a worker for every socket.

**Wire** (`WireProofs`): `TypeOK` and `BothUnderstand`, for every base of the headers'
numbers and every size of messages and buffers. What an end writes is a stream of
frames. `Holds(bytes, k, ms)` says that bytes are those of all messages of `ms` but the
first k, and `Reads` that a reader has handed k messages to `box.unpack` and the bytes
still to come, less what it has of the one it is reading, are those of the others.
Sending a piece and timing out only move bytes from the sender's buffer to the socket,
and reading a piece moves them on; a new message is put behind (`ReadsMore`). A reader
whose socket has a newline has the header of the next message in front, because digits
are no newlines, and gets the length that was written (`HeaderRead`); that `tonumber`
inverts `tostring` is an induction over `Number`'s fold and `Digits`' quotients.

- `UpInv`, from the client to the server, is inductive whatever times out. Its one
  exception is `BrokenOff`: the client has said goodbye within a request, after which
  the server may take anything for a message (`ServerAlwaysUnderstands`).
- `DownInv`, from the server to the client, is inductive when no read times out within
  a header; finding 4 shows that it must be assumed (`BothAlwaysUnderstand`).
- Where no message makes the client fail, either, `BrokenOff` cannot arise, because
  neither end ever finds a header malformed: nobody hangs up, and `BothUnderstand` holds
  without exception (`NobodyHangsUp`).

That the two ends do not wait for each other for ever is not part of this; with both
buffers smaller than a message they can.

**LuaCalls** (`LuaCallsProofs`): all its properties,
`StacksAgree`, `CCallsCounted`, `HandlersNest` and `StatusTrue`. `luaD_throw` cuts the C stack
down to an activation far below the innermost one, and restores only what that
activation saved. An invariant about the running function is therefore not
inductive; what has to be known is, of every activation, what its thread will look like
when it is the innermost one again. `Good` says that there is a sequence of such
snapshots, one per activation, in which each follows from the one before
(`Link`), that an activation of `luaD_pcall` has saved the one before its own, that the
threads that wait agree with theirs, and that coroutines that are not on the C
stack are idle. One lemma says what a call, a return, a throw, a resume and a yield
do to the sequence; the four properties are read off it by induction over the
stack.

**LuaTable** (`LuaTableProofs`): `TypeOK` and all its properties, `AssertionsHold`,
`LengthIsBorder` and `ImplementsMap`, for any keys, hash function, programs and sizes.
The assumption is that integer keys are neither pointers nor strings. The invariant is
`Good(t)`, with `LoopAt` for a loop over the table.

- `Shaped`: there are functions that give each node its chain, `c`, and its distance
  from the end, `p`, so that a node with a `next` has the chain of its successor
  and a distance one larger, and no two nodes have the same chain and distance
  (`Linked`). A node without a key is alone (`FreeAlone`); one with a key is on the chain
  of its main position, whose own key belongs there (`Home`). Of the nodes
  with the same key all but the first are dead (`DeadBehind`): `newkey` may put a key
  that has died and comes back before its dead node. A walk finds the
  member of a set that is furthest from the end of its chain (`WalkIs`), so that
  neither a search nor an insertion needs an induction over chains. Each of `newkey`'s
  three ways to insert changes `c` and `p` in its own way (`ReuseShape`, `InsertShape`,
  `MoveShape`).
- `Parts`: no key of a node is an index of the array, and every node from `lastfree` on
  has a key. That is why a rehash leaves room: the table it makes has as many nodes as it
  counted keys, each re-insertion puts one of them into a node, so that one without a key is
  left for the next, and it lies below `lastfree` (`RoomIs`, `FillIs`, `RehashIs`).
- From this `SetFieldIs`: an assignment changes the value of its key, no other, and fails no
  assertion.
- `LoopAt`: `next` still finds the last key, and the fields up to it are those the
  loop has got. Assignments to existing fields and collections leave every key in
  its place (`PutKeeps`, `CollectIs`), and what is behind an index changes only by the field
  that is cleared (`KeptBehind`).
- `#`: each of `luaH_getn`'s three searches keeps a present index below an absent one
  (`SearchIs`, `UnboundSearchIs`, `LinearIs`).

Model-checked only:

- liveness, here and in `Session`, `Wire`, `LuaGC` and `LuaLib`: it rests on fairness and
  `ENABLED`;
- `Box`, `LuaVM` with the compiler, and the libraries: their operators are recursive
  (`RECURSIVE`), which takes the arithmetic prover away;
- `LuaGC`: not done. Its invariant has to say what every half-done mark leaves behind, in
  `gray`, `grayagain`, `weak` and the open upvalues, and `PropagateAll`, `Listed` and
  `Reachable` fold over sets of objects, so that most of the proof is about those folds.

## 6. Not modelled, and the plan

Not modelled: the GTK interface under `ui/`, the cards, dice, hands and spinners
of the previous class system and `mixins/`, none of which the programs load;
start-up code and stateless utilities; third-party code. `server.stop` is never
called. Keyboard and hover events are bound by no class. In `Wire` the farewell
message of `sendNow` is left out, in `Box` the `"raw"` answer of `__pack`, which
no class gives, and the rounding of numbers by `tostring`.

Of the interpreter: the lexer, which deals in characters; the C API and the
libraries other than those named, most of them wrappers around libc; `loadlib.c`,
which loads shared objects; the debug interface and the programs `lua` and `luac`.
Memory errors are left out everywhere.

Next, in this order:

1. Proofs: `NothingLiveFreed` of `LuaGC`.
2. `Grid`: the snapping arithmetic of `Board.drop`, against the set of squares
   of the board; `Classes`: what `mixin` and `ACTION` copy and share.
