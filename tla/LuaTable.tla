------------------------------ MODULE LuaTable ------------------------------
(***************************************************************************)
(* The tables of the Lua interpreter (ltable.c).  A table has an array     *)
(* part and a hash part, a chained scatter table with Brent's variation:   *)
(* a colliding node that is not in its main position makes room for the    *)
(* new key.  When no node is free, rehash chooses new sizes for both parts.*)
(*                                                                         *)
(* The registry of objects, the replicas and all entities of Felt are such *)
(* tables; the server counts objects and players with #, and walks them    *)
(* with pairs and ipairs while callbacks change them.                      *)
(***************************************************************************)
EXTENDS Integers, SequencesExt

CONSTANTS
    nil,
    MaxKey,     \* the integers used as keys are 1..MaxKey
    Pointer,    \* keys hashed by address
    Str,        \* keys hashed by content
    Hash,       \* the hash of each key
    KeySets,    \* programs: the keys that one uses
    ASizes, HSizes, \* the size hints of a constructor
    MaxBits,    \* the array part has at most 2^MaxBits elements; MAXBITS
    MaxInt      \* where unbound_search stops doubling; MAX_INT

Key == (1..MaxKey) \cup Pointer \cup Str

\* The only value used for a key is the key itself, so that a value in the
\* wrong place shows.
Value == Key

ASSUME TableAssumption ==
    /\ nil \notin Key
    /\ (Pointer \cup Str) \cap Nat = {}
    /\ MaxKey \in Nat /\ MaxBits \in Nat /\ MaxInt \in Nat \ {0}
    /\ Hash \in [Key -> Nat]
    /\ KeySets \subseteq SUBSET Key
    /\ ASizes \subseteq Nat /\ HSizes \subseteq Nat

VARIABLES
    t,      \* the table
    used,   \* the keys of the program; they never change
    on,     \* the program is in a loop over the table,
    last,   \* the key of its last iteration
    seen    \* and the keys it got that are still there (history)

vars == <<t, used, on, last, seen>>

-----------------------------------------------------------------------------
(***************************************************************************)
(* Nodes.  next is the index of the next node of the chain, 0 for the end. *)
(* A table without nodes shares dummynode.                                 *)
(***************************************************************************)

FreeNode == [key |-> nil, dead |-> FALSE, val |-> nil, next |-> 0]
Node(k, v, next) == [key |-> k, dead |-> FALSE, val |-> v, next |-> next]

twoto[i \in Nat] == IF i = 0 THEN 1 ELSE 2 * twoto[i - 1]

CeilLog2(x) == CHOOSE i \in 0..x : twoto[i] >= x /\ \A j \in 0..(i - 1) : twoto[j] < x

SetNodeVector(size) ==
    IF size = 0 THEN <<>> ELSE [i \in 1..twoto[CeilLog2(size)] |-> FreeNode]

\* hashnum, hashpointer and hashstr; sizes are powers of two.
MainPosition(s, k) ==
    LET size == Len(s.node)
    IN  (Hash[k] % (IF k \in Str \/ size = 1 THEN size ELSE size - 1)) + 1

\* The first node of the chain of k that is one of nodes, 0 if there is none.
Walk(s, k, nodes) ==
    LET walk[i \in 0..Len(s.node)] ==
            IF i = 0 \/ i \in nodes THEN i ELSE walk[s.node[i].next]
    IN  IF s.node = <<>> THEN 0 ELSE walk[MainPosition(s, k)]

Find(s, k) == Walk(s, k, {i \in DOMAIN s.node : s.node[i].key = k /\ ~s.node[i].dead})

InArray(s, k) == k \in 1..Len(s.array)

\* luaH_get
Get(s, k) ==
    IF InArray(s, k) THEN s.array[k]
    ELSE IF Find(s, k) = 0 THEN nil ELSE s.node[Find(s, k)].val

-----------------------------------------------------------------------------
(***************************************************************************)
(* Insertion.                                                              *)
(***************************************************************************)

\* getfreepos; what lies above lastfree has been used before.
FreePos(s) == LET free == {i \in 1..(s.lastfree - 1) : s.node[i].key = nil}
              IN  IF free = {} THEN 0 ELSE Max(free)

Occupied(s, k) == s.node = <<>> \/ s.node[MainPosition(s, k)].val /= nil

LuaAssert(s, ok) == IF ok THEN s ELSE [s EXCEPT !.failed = TRUE]

(***************************************************************************)
(* newkey, when a node is free.  A node without a value is used again      *)
(* together with its place in a chain.                                     *)
(***************************************************************************)
NewKey(s, k, v) ==
    LET mp == MainPosition(s, k)
        n == FreePos(s)
        othern == MainPosition(s, s.node[mp].key)
        previous == Walk(s, s.node[mp].key, {i \in DOMAIN s.node : s.node[i].next = mp})
        moved == [s EXCEPT !.lastfree = n]
    IN  IF ~Occupied(s, k) THEN [s EXCEPT !.node[mp] = Node(k, v, @.next)]
        ELSE IF n = 0 THEN [s EXCEPT !.failed = TRUE]
        ELSE IF othern /= mp
             THEN [moved EXCEPT !.node[previous].next = n, !.node[n] = s.node[mp],
                                !.node[mp] = Node(k, v, 0)]
             ELSE [moved EXCEPT !.node[n] = Node(k, v, s.node[mp].next), !.node[mp].next = n]

\* luaH_set and luaH_setnum with the assignment that follows, for a key that
\* is present or finds a free node.
Put(s, k, v) ==
    IF InArray(s, k) THEN [s EXCEPT !.array[k] = v]
    ELSE IF Find(s, k) /= 0 THEN [s EXCEPT !.node[Find(s, k)].val = v]
    ELSE NewKey(s, k, v)

-----------------------------------------------------------------------------
(***************************************************************************)
(* Rehash.                                                                 *)
(***************************************************************************)

UsedArray(s) == {i \in DOMAIN s.array : s.array[i] /= nil}
UsedNodes(s) == {i \in DOMAIN s.node : s.node[i].val /= nil}

\* numusearray, numusehash and countint: the integer keys, with the new one
ArrayKeys(s, k) ==
    (UsedArray(s) \cup {s.node[i].key : i \in UsedNodes(s)} \cup {k})
        \cap (1..twoto[MaxBits])

\* computesizes: the largest n of which more than half would be used, a power
\* of two, and how many keys that makes.
ComputeSizes(keys) ==
    LET below(i) == Cardinality({k \in keys : k <= twoto[i]})
        slice(i) == {k \in keys : CeilLog2(k) = i}
        fit == {i \in 0..MaxBits : slice(i) /= {} /\ 2 * below(i) > twoto[i]}
    IN  IF fit = {} THEN [n |-> 0, na |-> 0] ELSE [n |-> twoto[Max(fit)], na |-> below(Max(fit))]

\* The table with new vectors, as long as nothing is re-inserted
Emptied(s, nasize, nhsize) ==
    [array |-> [i \in 1..nasize |-> IF i <= Len(s.array) THEN s.array[i] ELSE nil],
     node |-> SetNodeVector(nhsize), lastfree |-> Len(SetNodeVector(nhsize)) + 1,
     failed |-> s.failed]

\* Re-insertion of the fields with a value
Fill(s, fields) ==
    FoldLeft(LAMBDA u, x : IF x.val = nil THEN u ELSE Put(u, x.key, x.val), s, fields)

\* Mutant: the array part is cut off without its elements.
ResizeTruncated(s, nasize, nhsize) == Fill(Emptied(s, nasize, nhsize), Reverse(s.node))

\* resize: first the elements of the array that are cut off, then the nodes
\* from the last to the first
Resize(s, nasize, nhsize) ==
    LET cut == [i \in 1..(Len(s.array) - nasize) |->
                   [key |-> nasize + i, val |-> s.array[nasize + i]]]
    IN  Fill(Fill(Emptied(s, nasize, nhsize), cut), Reverse(s.node))

\* Mutant: the new key is not counted.
RehashWithout(s, k) ==
    LET total == Cardinality(UsedArray(s)) + Cardinality(UsedNodes(s))
        sizes == ComputeSizes(ArrayKeys(s, k) \ {k})
    IN  Resize(s, sizes.n, total - sizes.na)

Rehash(s, k) ==
    LET total == Cardinality(UsedArray(s)) + Cardinality(UsedNodes(s)) + 1
        sizes == ComputeSizes(ArrayKeys(s, k))
    IN  Resize(LuaAssert(s, sizes.n \div 2 <= sizes.na /\ sizes.na <= sizes.n),
               sizes.n, total - sizes.na)

\* luaH_set with the assignment
SetField(s, k, v) ==
    IF ~InArray(s, k) /\ Find(s, k) = 0 /\ Occupied(s, k) /\ FreePos(s) = 0
    THEN Put(Rehash(s, k), k, v) ELSE Put(s, k, v)

\* luaH_new, and luaH_resizearray and the assignments of OP_SETLIST
New(narray, nhash) ==
    LET node == SetNodeVector(nhash)
    IN  [array |-> [i \in 1..narray |-> nil], node |-> node, lastfree |-> Len(node) + 1,
         failed |-> FALSE]

SetList(s, list) ==
    LET long == IF Len(list) > Len(s.array) THEN Resize(s, Len(list), Len(s.node)) ELSE s
    IN  [long EXCEPT !.array = [i \in DOMAIN @ |-> IF i <= Len(list) THEN list[i] ELSE @[i]]]

-----------------------------------------------------------------------------
(***************************************************************************)
(* The length operator.                                                    *)
(***************************************************************************)

\* luaH_getnum; no integer above MaxKey is ever used.
GetNum(s, i) == IF i \in Key THEN Get(s, i) ELSE nil

\* The binary search for a border between a present i and an absent j
Search(s, i, j) ==
    LET search[x \in (0..j) \X (0..j)] ==
            IF x[2] - x[1] <= 1 THEN x[1]
            ELSE LET m == (x[1] + x[2]) \div 2
                 IN  search[IF GetNum(s, m) = nil THEN <<x[1], m>> ELSE <<m, x[2]>>]
    IN  search[<<i, j>>]

Linear(s) == CHOOSE n \in 0..MaxKey : GetNum(s, n + 1) = nil /\ \A m \in 1..n : GetNum(s, m) /= nil

\* unbound_search: (first + 1), twice that, and so on, until one is absent or
\* too large
UnboundSearch(s, first) ==
    LET double(e) == (first + 1) * twoto[e]
        large == {e \in 1..MaxKey : double(e) > MaxInt}
        stop == Min({e \in 0..MaxKey : GetNum(s, double(e)) = nil} \cup large)
    IN  IF stop \in large THEN Linear(s)
        ELSE Search(s, IF stop = 0 THEN first ELSE double(stop - 1), double(stop))

\* Mutant: the hash part is left out.
GetNArray(s) ==
    LET j == Len(s.array)
    IN  IF j > 0 /\ s.array[j] = nil THEN Search(s, 0, j) ELSE j

\* luaH_getn
GetN(s) ==
    LET j == Len(s.array)
    IN  IF j > 0 /\ s.array[j] = nil THEN Search(s, 0, j)
        ELSE IF s.node = <<>> THEN j ELSE UnboundSearch(s, j)

-----------------------------------------------------------------------------
(***************************************************************************)
(* Traversal.                                                              *)
(***************************************************************************)

\* findindex, -1 for a key that is not there; a dead key will do.
FindIndex(s, k) ==
    IF k = nil THEN 0
    ELSE IF InArray(s, k) THEN k
    ELSE LET i == Walk(s, k, {n \in DOMAIN s.node : s.node[n].key = k})
         IN  IF i = 0 THEN -1 ELSE Len(s.array) + i

FieldAt(s, i) ==
    IF i <= Len(s.array) THEN [key |-> i, val |-> s.array[i]]
    ELSE [key |-> s.node[i - Len(s.array)].key, val |-> s.node[i - Len(s.array)].val]

\* luaH_next: the key after k, nil at the end
NextKey(s, k) ==
    LET rest == {i \in (FindIndex(s, k) + 1)..(Len(s.array) + Len(s.node)) : FieldAt(s, i).val /= nil}
    IN  IF rest = {} THEN nil ELSE FieldAt(s, Min(rest)).key

-----------------------------------------------------------------------------
(***************************************************************************)
(* The state machine.                                                      *)
(***************************************************************************)

\* A constructor with a list of values.
Init ==
    /\ used \in KeySets
    /\ \E na \in ASizes, nh \in HSizes : \E list \in [1..na -> BOOLEAN] :
          t = SetList(New(na, nh), [i \in 1..na |-> IF list[i] /\ i \in used THEN i ELSE nil])
    /\ on = FALSE /\ last = nil /\ seen = {}

\* An assignment.  One to a field that does not exist ends the loop, as far
\* as anything is promised for it.
Set(k, v) ==
    /\ t' = SetField(t, k, v)
    /\ on' = (on /\ Get(t, k) /= nil)
    /\ last' = IF on' THEN last ELSE nil
    /\ seen' = IF ~on' THEN {} ELSE IF v = nil THEN seen \ {k} ELSE seen

Pairs == ~on /\ on' = TRUE /\ UNCHANGED <<t, last, seen>>

\* next; an unknown key raises an error.
Iterate ==
    /\ on
    /\ last' = NextKey(t, last)
    /\ on' = (last' /= nil)
    /\ seen' = IF on' THEN seen \cup {last'} ELSE {}
    /\ t' = LuaAssert(t, FindIndex(t, last) >= 0)

\* traversetable and removeentry: the collector marks the keys of empty nodes
\* as dead.
Collect ==
    /\ t' = [t EXCEPT !.node = [i \in DOMAIN @ |->
                IF @[i].val = nil /\ @[i].key \in Pointer \cup Str
                THEN [@[i] EXCEPT !.dead = TRUE] ELSE @[i]]]
    /\ t' /= t
    /\ UNCHANGED <<on, last, seen>>

Next ==
    /\ \/ \E k \in used : \E v \in {k, nil} : Set(k, v)
       \/ Pairs \/ Iterate \/ Collect
    /\ UNCHANGED used

Spec == Init /\ [][Next]_vars

-----------------------------------------------------------------------------
(***************************************************************************)
(* Properties.                                                             *)
(***************************************************************************)

\* The shape of a table: a power of two nodes, chains without a cycle, and no
\* key in two places.
TypeOK ==
    /\ t.array \in Seq(Value \cup {nil})
    /\ t.lastfree \in 0..(Len(t.node) + 1)
    /\ t.node = <<>> \/ \E i \in 0..Len(t.node) : Len(t.node) = twoto[i]
    /\ \A i \in DOMAIN t.node :
          /\ t.node[i].key \in Key \cup {nil} /\ t.node[i].val \in Value \cup {nil}
          /\ t.node[i].next \in (0..Len(t.node)) \ {i}
    /\ on \in BOOLEAN /\ last \in Key \cup {nil} /\ seen \subseteq Key
    /\ \A i, j \in UsedNodes(t) : t.node[i].key = t.node[j].key => i = j

\* The assertions of ltable.c hold, inserting the old elements into a table
\* that has been resized never resizes it again, and next knows every key a
\* loop got from it.
AssertionsHold == ~t.failed

\* "#t is defined to be any integer index n such that t[n] is not nil and
\* t[n+1] is nil; moreover, if t[1] is nil, n can be zero" (manual, 2.5.5).
LengthIsBorder ==
    LET n == GetN(t)
    IN  (n = 0 \/ GetNum(t, n) /= nil) /\ GetNum(t, n + 1) = nil

M == INSTANCE TableMap WITH map <- [k \in Key |-> Get(t, k)], on <- on, seen <- seen

\* The table implements the map and the traversal of TableMap, through every
\* collision, rehash and collection.
ImplementsMap == M!MapSpec
=============================================================================
