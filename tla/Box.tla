-------------------------------- MODULE Box --------------------------------
(***************************************************************************)
(* Serialisation (lib/box): a graph of Lua values is packed into a string  *)
(* and unpacked again at the other end of a connection.                    *)
(*                                                                         *)
(* The string is a sequence of characters of three kinds: tags, numbers    *)
(* and texts.  A number in base ten (with the ":" that ends an entry of a  *)
(* table of contents) and a text count as one character each; numbers have *)
(* no more digits than tostring prints.                                    *)
(***************************************************************************)
EXTENDS Integers, SequencesExt

CONSTANTS
    Node,       \* the tables and objects of the sender
    Heaps,      \* what they may contain
    Roots       \* the values that may be sent

(***************************************************************************)
(* A value is a primitive or a reference to a node.  A node is a table, an *)
(* object whose __pack method says "call" (game/felt/Object.lua on the     *)
(* server), or one whose __pack says "pack" (the same on the client).  Its *)
(* fields are pairs of key and value, in the order of pairs().             *)
(***************************************************************************)
Kind == {"table", "call", "pack"}
Nil == <<"nil">>
Boolean(b) == <<"boolean", b>>
Number(n) == <<"number", n>>
String(s) == <<"string", s>>
Ref(i) == <<"node", i>>

IsNode(v) == v[1] = "node"

ASSUME BoxAssumption ==
    /\ Node \subseteq Nat \ {0}
    /\ \A h \in Heaps : \A i \in Node : h[i].kind \in Kind

VARIABLES
    pc,     \* "idle", "composed", "sent" or "received"
    heap,   \* the sender's nodes
    root,   \* what is sent
    objs,   \* the nodes the sender knows the receiver to have
    buf,    \* the packed string
    result  \* what the receiver has made of it

vars == <<pc, heap, root, objs, buf, result>>

Tag(t) == <<"tag", t>>
Num(n) == <<"num", n>>
Text(s) == <<"text", s>>

-----------------------------------------------------------------------------
(***************************************************************************)
(* pack.lua.  The state of a call of box.pack: n is the next index for a   *)
(* back reference, refs the indices given so far (0 for none), objs the    *)
(* objects to be sent as ids.                                              *)
(***************************************************************************)

\* refs[obj].  The table has its own counter under the key "n".
BackReference(v, st) ==
    IF IsNode(v) THEN st.refs[v[2]] ELSE IF v = String("n") THEN st.n ELSE 0

\* refs[obj] = refs.n; refs.n = refs.n + 1
Register(i, st) == [st EXCEPT !.refs[i] = st.n, !.n = @ + 1]

\* maketoc and table.concat
WithToc(parts) ==
    <<Num(Len(parts))>> \o [i \in DOMAIN parts |-> Num(Len(parts[i]))] \o FlattenSeq(parts)

PackPrimitive(v) ==
    CASE v[1] = "nil"     -> <<Tag("n")>>
      [] v[1] = "boolean" -> <<Tag(IF v[2] THEN "t" ELSE "f")>>
      [] v[1] = "number"  -> <<Tag("N"), Num(v[2])>>
      [] v[1] = "string"  -> <<Tag("S"), Text(v[2])>>

\* The values of a table in the order in which they are packed.
KeysAndValues(fields) == FlattenSeq(fields)

RECURSIVE DoPack(_, _)

\* Packs several values, one after the other.
PackAll(values, st) ==
    FoldLeft(LAMBDA acc, v : LET p == DoPack(v, acc.st)
                             IN  [parts |-> Append(acc.parts, p.bytes), st |-> p.st],
             [parts |-> <<>>, st |-> st], values)

\* pack["table"]
PackTable(fields, st) ==
    LET all == PackAll(KeysAndValues(fields), st)
    IN  [bytes |-> <<Tag("T")>> \o WithToc(all.parts), st |-> all.st]

(***************************************************************************)
(* pack["metamethod"] for "call".  __pack makes a table for the            *)
(* constructor, which takes an index, too; nothing else can refer to it.   *)
(***************************************************************************)
PackCall(fields, st) ==
    LET class == DoPack(String("class"), st)
        ctor == PackTable(fields, [class.st EXCEPT !.n = @ + 1])
    IN  [bytes |-> <<Tag("C")>> \o WithToc(<<class.bytes, ctor.bytes>>), st |-> ctor.st]

\* do_pack and getpackmethod
DoPack(v, st) ==
    LET i == v[2]
    IN  CASE BackReference(v, st) /= 0 ->
               [bytes |-> <<Tag("R"), Num(BackReference(v, st))>>, st |-> st]
          [] BackReference(v, st) = 0 /\ ~IsNode(v) ->
               [bytes |-> PackPrimitive(v), st |-> st]
          [] BackReference(v, st) = 0 /\ IsNode(v) ->
               IF i \in st.objs
               THEN [bytes |-> <<Tag("O"), Num(i)>>, st |-> st]
               ELSE CASE heap[i].kind = "table" -> PackTable(heap[i].fields, Register(i, st))
                      [] heap[i].kind = "call"  -> PackCall(heap[i].fields, Register(i, st))
                      [] heap[i].kind = "pack"  -> DoPack(v, [st EXCEPT !.objs = @ \cup {i}])

\* box.pack
Packed == DoPack(root, [n |-> 1, refs |-> [i \in Node |-> 0], objs |-> objs])

-----------------------------------------------------------------------------
(***************************************************************************)
(* unpack.lua.  The state of a call of box.unpack: nodes are the tables    *)
(* and objects made so far, refs the values back references stand for, and *)
(* failed says whether an error was raised.                                *)
(***************************************************************************)

New(k) == <<"new", k>>
Known(i) == <<"known", i>>
Marker == Boolean(FALSE)

Fail(st) == [val |-> Nil, st |-> [st EXCEPT !.failed = TRUE]]

\* readtoc: each entry is as long as the table of contents says.
ReadToc(toc) ==
    LET size == toc[1][2]
        offs[i \in 1..size + 1] ==
            IF i = 1 THEN size + 2 ELSE offs[i - 1] + toc[i][2]
    IN  [i \in 1..size |-> SubSeq(toc, offs[i], offs[i + 1] - 1)]

\* T[data[i]] = data[i+1] for every odd i, a later one overwriting.
Assign(data) ==
    LET odd == {i \in DOMAIN data : i % 2 = 1}
        last == {i \in odd : \A j \in odd : data[j] = data[i] => j <= i}
    IN  {<<data[i], data[i + 1]>> : i \in last}

RECURSIVE DoUnpack(_, _)

\* Unpacks several strings, one after the other.
UnpackAll(parts, st) ==
    FoldLeft(LAMBDA acc, part : LET u == DoUnpack(part, acc.st)
                                IN  [data |-> Append(acc.data, u.val), st |-> u.st],
             [data |-> <<>>, st |-> st], parts)

\* Mutant: the table is cached when it is complete.
UnpackTableLate(rest, st) ==
    LET all == UnpackAll(ReadToc(rest), st)
        k == Len(all.st.nodes) + 1
    IN  [val |-> New(k),
         st |-> [all.st EXCEPT !.refs = Append(@, New(k)),
                               !.nodes = Append(@, [kind |-> "table", fields |-> Assign(all.data)])]]

\* unpack.T
UnpackTable(rest, st) ==
    LET k == Len(st.nodes) + 1
        all == UnpackAll(ReadToc(rest),
                  [st EXCEPT !.refs = Append(@, New(k)),
                             !.nodes = Append(@, [kind |-> "table", fields |-> {}])])
    IN  [val |-> New(k), st |-> [all.st EXCEPT !.nodes[k].fields = Assign(all.data)]]

(***************************************************************************)
(* unpack.C.  The back reference is a marker until the object exists.      *)
(* The object takes over the fields of the constructor's table.            *)
(***************************************************************************)
UnpackCall(rest, st) ==
    LET r == Len(st.refs) + 1
        all == UnpackAll(ReadToc(rest), [st EXCEPT !.refs = Append(@, Marker)])
        arg == all.data[2]
    IN  IF all.st.failed
        THEN Fail(all.st)
        ELSE [val |-> arg, st |-> [all.st EXCEPT !.refs[r] = arg,
                                                 !.nodes[arg[2]].kind = "call"]]

\* do_unpack, getunpackmethod and the methods for primitives and references
DoUnpack(string, st) ==
    LET tag == string[1][2]
        arg == string[2][2]
        Value(v) == [val |-> v, st |-> st]
    IN  CASE tag = "n" -> Value(Nil)
          [] tag = "t" -> Value(Boolean(TRUE))
          [] tag = "f" -> Value(Boolean(FALSE))
          [] tag = "N" -> Value(Number(arg))
          [] tag = "S" -> Value(String(arg))
          [] tag = "O" -> Value(Known(arg))
          [] tag = "R" -> IF arg > Len(st.refs) \/ st.refs[arg] = Marker
                          THEN Fail(st) ELSE Value(st.refs[arg])
          [] tag = "T" -> UnpackTable(Tail(string), st)
          [] tag = "C" -> UnpackCall(Tail(string), st)

\* box.unpack
Unpacked == DoUnpack(buf, [refs |-> <<>>, nodes |-> <<>>, failed |-> FALSE])
-----------------------------------------------------------------------------
NoResult == [val |-> Nil, st |-> [refs |-> <<>>, nodes |-> <<>>, failed |-> FALSE]]
NoHeap == [i \in Node |-> [kind |-> "table", fields |-> <<>>]]

Init ==
    /\ pc = "idle"
    /\ heap = NoHeap
    /\ root = Nil
    /\ objs = {}
    /\ buf = <<>>
    /\ result = NoResult

\* A message is composed: any value, any set of objects known to be there.
Compose ==
    /\ pc = "idle"
    /\ pc' = "composed"
    /\ root' \in Roots
    /\ heap' \in IF IsNode(root') THEN Heaps ELSE {NoHeap}
    /\ objs' \in SUBSET {i \in Node : heap'[i].kind /= "table"}
    /\ UNCHANGED <<buf, result>>

Send ==
    /\ pc = "composed"
    /\ pc' = "sent"
    /\ buf' = Packed.bytes
    /\ objs' = Packed.st.objs
    /\ UNCHANGED <<heap, root, result>>

Receive ==
    /\ pc = "sent"
    /\ pc' = "received"
    /\ result' = Unpacked
    /\ UNCHANGED <<heap, root, objs, buf>>

Forget ==
    /\ pc = "received"
    /\ pc' = "idle"
    /\ heap' = NoHeap
    /\ root' = Nil
    /\ objs' = {}
    /\ buf' = <<>>
    /\ result' = NoResult

Next == Compose \/ Send \/ Receive \/ Forget

Spec == Init /\ [][Next]_vars
-----------------------------------------------------------------------------
(***************************************************************************)
(* Properties.                                                             *)
(***************************************************************************)

\* What a value of the receiver stands for, if f says which node of the
\* sender each of its nodes is.
Original(v, f) ==
    CASE v[1] = "new"   -> Ref(f[v[2]])
      [] v[1] = "known" -> Ref(v[2])
      [] OTHER          -> v

(***************************************************************************)
(* box.unpack "returns the originally packed object" (lib/box/init.lua:17):*)
(* the graphs are the same, with what was shared still shared and cycles   *)
(* still cycles, and objects the receiver has are its own.                 *)
(***************************************************************************)
RoundTrip ==
    pc = "received" =>
        LET nodes == result.st.nodes
        IN  /\ ~result.st.failed
            /\ \E f \in [DOMAIN nodes -> Node] :
                  /\ IsInjective(f)
                  /\ Original(result.val, f) = root
                  /\ \A k \in DOMAIN nodes :
                        /\ nodes[k].kind = heap[f[k]].kind
                        /\ {<<Original(p[1], f), Original(p[2], f)>> : p \in nodes[k].fields}
                              = Range(heap[f[k]].fields)
=============================================================================
