------------------------------- MODULE LuaGC --------------------------------
(***************************************************************************)
(* The incremental garbage collector of the Lua interpreter that runs the  *)
(* server and the client (lgc.c), with the parts of lfunc.c, lstring.c,    *)
(* lstate.c, lapi.c and lvm.c that create objects, change references and   *)
(* call its barriers.                                                      *)
(*                                                                         *)
(* The variable g is the global_State with all objects.  The running       *)
(* program is whatever can be done with the values in the registers of the *)
(* current thread.  luaC_checkGC runs collector steps between two          *)
(* operations of the program; how many is a matter of the sizes of objects *)
(* and is left open.  A table has one entry, a closure one upvalue and a   *)
(* prototype one constant.                                                 *)
(***************************************************************************)
EXTENDS Integers, SequencesExt

CONSTANTS
    nil,
    Table, Udata, Function, Proto, Upval, Thread, String,  \* the objects, by type
    main,       \* the main thread
    globals,    \* its table of globals
    registry,   \* the registry; nothing but its metatables is looked at
    Metas,      \* the metatables in the registry
    Mode,       \* the __mode field of each
    Finalizing, \* those with a __gc field
    ProtoOf,    \* the prototype of each closure
    LiteralOf,  \* the constant of each prototype
    Hash,       \* the hash of each string
    Worlds,     \* programs: the objects they may create or find in the registry,
                \* how many registers they use, whether they call collectgarbage,
                \* use any table as metatable or environment, and use objects as
                \* keys, the least size of the string table, and an object to
                \* watch, if any
    NReg,       \* registers per thread
    SweepMax    \* objects per step of the sweep; GCSWEEPMAX

Object == Table \cup Udata \cup Function \cup Proto \cup Upval \cup Thread \cup String
Value == (Table \cup Udata \cup Function \cup Thread \cup String) \cup {nil}
Reg == 1..NReg

ASSUME GCAssumption ==
    /\ nil \notin Object
    /\ main \in Thread
    /\ {globals, registry} \cup Metas \subseteq Table
    /\ Mode \in [Metas -> SUBSET {"k", "v"}]
    /\ Finalizing \subseteq Metas
    /\ ProtoOf \in [Function -> Proto]
    /\ LiteralOf \in [Proto -> String]
    /\ Hash \in [String -> Nat]
    /\ Worlds \subseteq [objects : SUBSET Object, size : Nat \ {0}, regs : 1..NReg, watch : Object \cup {nil},
                    uses : SUBSET {"collectgarbage", "metatables", "keys"}]
    /\ NReg \in Nat \ {0}
    /\ SweepMax \in Nat \ {0}

VARIABLES
    world,  \* the element of Worlds the program is in; it never changes
    g       \* the global state

vars == <<world, g>>

-----------------------------------------------------------------------------
(***************************************************************************)
(* Colours and lists.                                                      *)
(***************************************************************************)

Flip(white) == IF white = "white0" THEN "white1" ELSE "white0"

IsWhite(s, o) == s.colour[o] \in {"white0", "white1"}
IsDead(s, o) == s.colour[o] = Flip(s.white)
MakeWhite(s, o) == [s EXCEPT !.colour[o] = s.white]

\* A set in some order.
Listed(S) == FoldSet(LAMBDA x, seq : <<x>> \o seq, <<>>, S)

\* What is allocated is in one of the collector's lists.
Allocated(s) ==
    Range(s.rootgc) \cup Range(s.tmudata) \cup s.strings
        \cup UNION {Range(s.open[th]) : th \in Thread}

\* Userdata are linked behind the main thread, everything else in front.
LinkFront(s, o) == [s EXCEPT !.rootgc = <<o>> \o @, !.colour[o] = s.white]
LinkUdata(s, o) ==
    [s EXCEPT !.rootgc = InsertAt(@, SelectInSeq(@, LAMBDA x : x = main) + 1, o),
              !.colour[o] = s.white]

\* A failed lua_assert.
LuaAssert(s, ok) == IF ok THEN s ELSE [s EXCEPT !.failed = TRUE]

\* The value an upvalue refers to: a register if it is open.
UpvalValue(s, u) == IF s.at[u] = nil THEN s.cell[u] ELSE s.stack[s.at[u].th][s.at[u].level]

-----------------------------------------------------------------------------
(***************************************************************************)
(* Marking.                                                                *)
(***************************************************************************)

\* white2gray, and the gray list for what has something to traverse.
MarkGray(s, o) ==
    [LuaAssert(s, ~IsDead(s, o)) EXCEPT
        !.colour[o] = "gray", !.gray = IF o \in String \cup Upval THEN @ ELSE <<o>> \o @]

MarkTable(s, t) == IF t = nil \/ ~IsWhite(s, t) THEN s ELSE MarkGray(s, t)

MarkUdata(s, u) ==
    MarkTable(MarkTable([MarkGray(s, u) EXCEPT !.colour[u] = "black", !.gray = s.gray],
                        s.meta[u]), s.env[u])

\* markvalue
MarkValue(s, v) ==
    IF v = nil \/ ~IsWhite(s, v) THEN s
    ELSE IF v \in Udata THEN MarkUdata(s, v) ELSE MarkGray(s, v)

\* Mutant: an open upvalue turns black like a closed one.
MarkUpvalBlack(s, u) ==
    [MarkValue(MarkGray(s, u), UpvalValue(s, u)) EXCEPT !.colour[u] = "black"]

\* An open upvalue is never black.
MarkUpval(s, u) ==
    LET t == MarkValue(MarkGray(s, u), UpvalValue(s, u))
    IN  IF s.at[u] = nil THEN [t EXCEPT !.colour[u] = "black"] ELSE t

ReallyMarkObject(s, o) == IF o \in Upval THEN MarkUpval(s, o) ELSE MarkValue(s, o)

MarkObject(s, o) == IF o = nil \/ ~IsWhite(s, o) THEN s ELSE ReallyMarkObject(s, o)
MarkAll(s, seq) == FoldLeft(MarkObject, s, seq)

WeakMode(s, t) == IF s.meta[t] \in Metas THEN Mode[s.meta[t]] ELSE {}

\* What traversetable, traverseclosure, traversestack and traverseproto mark.
Children(s, o) ==
    CASE o \in Table ->
            <<s.meta[o]>> \o (IF s.val[o] = nil THEN <<>>
                              ELSE <<IF "k" \in WeakMode(s, o) THEN nil ELSE s.key[o],
                                     IF "v" \in WeakMode(s, o) THEN nil ELSE s.val[o]>>)
                 \o (IF o = registry THEN Listed(Metas \cap world.objects) ELSE <<>>)
      [] o \in Function -> <<s.env[o], ProtoOf[o], s.upval[o]>>
      [] o \in Thread -> <<globals>> \o s.stack[o]
      [] o \in Proto -> <<LiteralOf[o]>>
      [] OTHER -> <<>>

\* Mutant: a thread turns black although its registers have no barrier.
PropagateMarkThread(s) ==
    LET o == Head(s.gray)
    IN  MarkAll([s EXCEPT !.gray = Tail(@), !.colour[o] = "black"], Children(s, o))

\* propagatemark: a weak table stays gray, and so does a thread.
PropagateMark(s) ==
    LET o == Head(s.gray)
        t == [s EXCEPT !.gray = Tail(@), !.colour[o] = "black"]
        u == CASE o \in Thread -> [t EXCEPT !.colour[o] = "gray", !.grayagain = <<o>> \o @]
               [] o \in Table /\ WeakMode(s, o) /= {} ->
                    [t EXCEPT !.colour[o] = "gray", !.weak = <<o>> \o @]
               [] OTHER -> t
    IN  MarkAll(u, Children(s, o))

\* propagateall; no object is traversed twice.
PropagateAll(s) ==
    FoldSet(LAMBDA o, t : IF t.gray = <<>> THEN t ELSE PropagateMark(t), s, Object)

MarkRoot(s) ==
    [MarkAll([s EXCEPT !.gray = <<>>, !.grayagain = <<>>, !.weak = <<>>],
             <<main, globals, registry, s.mt>>) EXCEPT !.gcstate = "propagate"]

\* remarkupvals: open upvalues of threads that may be dead
RemarkUpvals(s) ==
    FoldSet(LAMBDA u, t : IF t.colour[u] = "gray" THEN MarkValue(t, UpvalValue(t, u)) ELSE t,
            s, UNION {Range(s.open[th]) : th \in Thread})

\* Mutant: they are put in front of tmudata.
SeparateUdataFront(s, all) ==
    LET dead == SelectSeq(s.rootgc, LAMBDA o :
                    o \in Udata /\ (all \/ IsWhite(s, o)) /\ o \notin s.finalized)
        called == SelectSeq(dead, LAMBDA o : s.meta[o] \in Finalizing)
    IN  [s EXCEPT !.finalized = @ \cup Range(dead),
                  !.tmudata = Reverse(called) \o @,
                  !.rootgc = SelectSeq(@, LAMBDA o : o \notin Range(called))]

(***************************************************************************)
(* luaC_separateudata moves userdata with a finalizer to the end of        *)
(* tmudata; all others need none.                                          *)
(***************************************************************************)
SeparateUdata(s, all) ==
    LET dead == SelectSeq(s.rootgc, LAMBDA o :
                    o \in Udata /\ (all \/ IsWhite(s, o)) /\ o \notin s.finalized)
        called == SelectSeq(dead, LAMBDA o : s.meta[o] \in Finalizing)
    IN  [s EXCEPT !.finalized = @ \cup Range(dead),
                  !.tmudata = @ \o called,
                  !.rootgc = SelectSeq(@, LAMBDA o : o \notin Range(called))]

MarkTmu(s) == FoldLeft(LAMBDA t, u : ReallyMarkObject(MakeWhite(t, u), u), s, s.tmudata)

\* iscleared; strings behave as values and get marked.
IsCleared(s, o, iskey) ==
    /\ o \notin String \cup {nil}
    /\ IsWhite(s, o) \/ (o \in Udata /\ ~iskey /\ o \in s.finalized)

\* cleartable, one table
ClearEntry(s, t) ==
    IF s.val[t] /= nil /\ (IsCleared(s, s.key[t], TRUE) \/ IsCleared(s, s.val[t], FALSE))
    THEN [s EXCEPT !.key[t] = nil, !.val[t] = nil]
    ELSE FoldLeft(LAMBDA u, x : IF x \in String /\ IsWhite(u, x)
                                THEN [u EXCEPT !.colour[x] = "gray"] ELSE u,
                  s, IF s.val[t] = nil THEN <<>> ELSE <<s.key[t], s.val[t]>>)

Atomic(s) ==
    LET s1 == PropagateAll(RemarkUpvals(s))
        s2 == PropagateAll(MarkAll([s1 EXCEPT !.gray = s1.weak, !.weak = <<>>], <<s1.cur, s1.mt>>))
        s3 == PropagateAll([s2 EXCEPT !.gray = s2.grayagain, !.grayagain = <<>>])
        s4 == PropagateAll(MarkTmu(SeparateUdata(s3, FALSE)))
        s5 == FoldLeft(ClearEntry, s4, s4.weak)
    IN  [s5 EXCEPT !.white = Flip(@), !.sweepstrgc = 0, !.sweepgc = nil, !.gcstate = "sweepstring"]

-----------------------------------------------------------------------------
(***************************************************************************)
(* Barriers.                                                               *)
(***************************************************************************)

Marking(s) == s.gcstate \notin {"finalize", "pause"}

\* The program can find a userdata that waits for its finalizer, black, as a
\* weak key; the assertion about the phase does not hold for such a one.
BarrierF(s, o, v) ==
    LET t == LuaAssert(s, /\ Marking(s) \/ o \in Range(s.tmudata)
                          /\ ~IsDead(s, v) /\ ~IsDead(s, o))
    IN  IF s.gcstate = "propagate" THEN ReallyMarkObject(t, v) ELSE MakeWhite(t, o)

BarrierBack(s, t) ==
    [LuaAssert(s, Marking(s) /\ ~IsDead(s, t)) EXCEPT
        !.colour[t] = "gray", !.grayagain = <<t>> \o @]

Crosses(s, o, v) == v /= nil /\ IsWhite(s, v) /\ s.colour[o] = "black"

\* luaC_barrier and luaC_objbarrier
Barrier(s, o, v) == IF Crosses(s, o, v) THEN BarrierF(s, o, v) ELSE s
\* luaC_barriert and luaC_objbarriert
BarrierT(s, t, v) == IF Crosses(s, t, v) THEN BarrierBack(s, t) ELSE s

-----------------------------------------------------------------------------
(***************************************************************************)
(* Upvalues.                                                               *)
(***************************************************************************)

\* luaC_linkupval
LinkUpval(s, u) ==
    LET t == [s EXCEPT !.rootgc = <<u>> \o @]
    IN  IF s.colour[u] /= "gray" THEN t
        ELSE IF s.gcstate = "propagate"
             THEN Barrier([t EXCEPT !.colour[u] = "black"], u, t.cell[u])
             ELSE MakeWhite(LuaAssert(t, Marking(t)), u)

\* luaF_close, one upvalue: one that is dead is freed.
CloseUpval(s, u) ==
    LET t == [LuaAssert(s, s.colour[u] /= "black") EXCEPT
                !.open[s.at[u].th] = SelectSeq(@, LAMBDA x : x /= u),
                !.at[u] = nil, !.cell[u] = UpvalValue(s, u)]
    IN  IF IsDead(s, u) THEN [t EXCEPT !.cell[u] = nil, !.colour[u] = nil] ELSE LinkUpval(t, u)

\* luaF_close; the list of open upvalues is sorted by level.
Close(s, th, level) ==
    FoldLeft(CloseUpval, s, SelectSeq(s.open[th], LAMBDA u : s.at[u].level >= level))

\* luaF_findupval: the upvalue for a register is shared; a dead one is resurrected.
OpenAt(s, th, level) == {u \in Range(s.open[th]) : s.at[u].level = level}
FindUpval(s, th, level, fresh) ==
    LET found == OpenAt(s, th, level)
        above == Len(SelectSeq(s.open[th], LAMBDA u : s.at[u].level > level))
    IN  IF found /= {}
        THEN LET u == CHOOSE x \in found : TRUE
             IN  [state |-> IF IsDead(s, u) THEN MakeWhite(s, u) ELSE s, uv |-> u]
        ELSE [state |-> [s EXCEPT !.open[th] = InsertAt(@, above + 1, fresh),
                                  !.at[fresh] = [th |-> th, level |-> level],
                                  !.colour[fresh] = s.white],
              uv |-> fresh]

-----------------------------------------------------------------------------
(***************************************************************************)
(* Sweeping.  What is freed loses its contents.                            *)
(***************************************************************************)

Empty(s, o) ==
    CASE o \in Table -> [s EXCEPT !.meta[o] = nil, !.key[o] = nil, !.val[o] = nil]
      [] o \in Udata -> [s EXCEPT !.meta[o] = nil, !.env[o] = nil, !.finalized = @ \ {o}]
      [] o \in Function -> [s EXCEPT !.env[o] = nil, !.upval[o] = nil]
      [] o \in Upval -> [s EXCEPT !.cell[o] = nil, !.at[o] = nil]
      [] o \in Thread -> [s EXCEPT !.stack[o] = [i \in Reg |-> nil]]
      [] OTHER -> s

\* freeobj; luaE_freethread closes the thread's upvalues first.
FreeObj(s, o) ==
    LET t == IF o \in Thread THEN Close(s, o, 1) ELSE s
    IN  [Empty(t, o) EXCEPT !.colour[o] = nil]

\* sweepwholelist of the open upvalues of a thread
SweepOpen(s, th) ==
    LET dead == {u \in Range(s.open[th]) : IsDead(s, u)}
        t == [s EXCEPT !.open[th] = SelectSeq(@, LAMBDA u : u \notin dead),
                       !.colour = [o \in Object |->
                            IF o \in Range(s.open[th]) \ dead THEN s.white ELSE @[o]]]
    IN  FoldSet(LAMBDA u, x : FreeObj(x, u), t, dead)

\* Mutant: the open upvalues of a thread are not swept.
SweepOneShallow(s) ==
    LET i == IF s.sweepgc = nil THEN 1 ELSE SelectInSeq(s.rootgc, LAMBDA x : x = s.sweepgc) + 1
        curr == s.rootgc[i]
    IN  IF i > Len(s.rootgc) THEN s
        ELSE IF ~IsDead(s, curr) \/ curr = main
             THEN [MakeWhite(s, curr) EXCEPT !.sweepgc = curr]
             ELSE FreeObj([s EXCEPT !.rootgc = RemoveAt(@, i)], curr)

\* sweeplist, one object.  sweepgc is the object whose link comes next, nil
\* for the head of the list.  The main thread is fixed.
SweepOne(s) ==
    LET i == IF s.sweepgc = nil THEN 1 ELSE SelectInSeq(s.rootgc, LAMBDA x : x = s.sweepgc) + 1
        curr == s.rootgc[i]
        t == IF curr \in Thread THEN SweepOpen(s, curr) ELSE s
    IN  IF i > Len(s.rootgc) THEN s
        ELSE IF ~IsDead(s, curr) \/ curr = main
             THEN [MakeWhite(t, curr) EXCEPT !.sweepgc = curr]
             ELSE FreeObj([t EXCEPT !.rootgc = RemoveAt(@, i)], curr)

Swept(s) == s.rootgc /= <<>> /\ s.sweepgc = Last(s.rootgc)

Bucket(s, x) == Hash[x] % s.size

\* luaS_resize; not while the buckets are being swept
Resize(s, size) == IF s.gcstate = "sweepstring" THEN s ELSE [s EXCEPT !.size = size]

\* checkSizes; the least size is that of the world.
CheckSizes(s) ==
    IF 4 * Cardinality(s.strings) < s.size /\ s.size > world.size
    THEN Resize(s, s.size \div 2) ELSE s

SweepString(s) ==
    LET here == {x \in s.strings : Bucket(s, x) = s.sweepstrgc}
        dead == {x \in here : IsDead(s, x)}
    IN  [s EXCEPT !.strings = @ \ dead,
                  !.colour = [o \in Object |-> IF o \in dead THEN nil
                                               ELSE IF o \in here THEN s.white ELSE @[o]],
                  !.sweepstrgc = @ + 1,
                  !.gcstate = IF s.sweepstrgc + 1 >= s.size THEN "sweep" ELSE @]

Sweep(s) ==
    LET t == FoldLeft(LAMBDA x, i : SweepOne(x), s, [i \in 1..SweepMax |-> i])
    IN  IF Swept(t) THEN [CheckSizes(t) EXCEPT !.gcstate = "finalize"] ELSE t

(***************************************************************************)
(* GCTM.  The finalizer gets the userdata; keep says whether it stores it  *)
(* in a global variable.  An error in the finalizer changes nothing here.  *)
(***************************************************************************)
GCTM(s, keep) ==
    LET u == Head(s.tmudata)
        t == MakeWhite(LinkUdata([s EXCEPT !.tmudata = Tail(@)], u), u)
        called == [t EXCEPT !.calls = Append(@, u)]
    IN  IF s.meta[u] \notin Finalizing THEN t
        ELSE IF keep THEN BarrierT([called EXCEPT !.key[globals] = nil, !.val[globals] = u],
                                   globals, u)
        ELSE called

-----------------------------------------------------------------------------
(***************************************************************************)
(* The state machine.                                                      *)
(***************************************************************************)

Initial(w) ==
    LET first == {globals, registry} \cup (Metas \cap w.objects)
    IN  [gcstate |-> "pause", white |-> "white0",
         colour |-> [o \in Object |-> IF o \in first \cup {main} THEN "white0" ELSE nil],
         rootgc |-> Listed(first) \o <<main>>, sweepgc |-> nil, sweepstrgc |-> 0,
         gray |-> <<>>, grayagain |-> <<>>, weak |-> <<>>,
         tmudata |-> <<>>, finalized |-> {}, calls |-> <<>>,
         strings |-> {}, size |-> w.size,
         open |-> [th \in Thread |-> <<>>], at |-> [u \in Upval |-> nil],
         cell |-> [u \in Upval |-> nil],
         meta |-> [o \in Table \cup Udata |-> nil], env |-> [o \in Function \cup Udata |-> nil],
         key |-> [t \in Table |-> nil], val |-> [t \in Table |-> nil],
         upval |-> [f \in Function |-> nil],
         stack |-> [th \in Thread |-> [i \in Reg |-> nil]],
         mt |-> nil, cur |-> main, full |-> "no", born |-> <<>>, failed |-> FALSE]

Init ==
    /\ world \in Worlds
    /\ g = Initial(world)

Fresh(S) == (S \cap world.objects) \ Allocated(g)

\* What the program has at hand: registers and a global variable.
Held == {g.stack[g.cur][i] : i \in 1..world.regs} \cup {g.val[globals]}
Tables == (Held \cap Table) \cup {globals}

\* The program runs between two steps of the collector.
Running == g.gcstate /= "closed" /\ g.full = "no"

Do(s) == Running /\ g' = s /\ UNCHANGED world
SetReg(s, i, v) == [s EXCEPT !.stack[s.cur][i] = v]

NewTable(i) == \E t \in Fresh(Table) : Do(SetReg(LinkFront(g, t), i, t))

\* luaS_newudata; born is the order in which userdata get created.
NewUdata(i) ==
    \E u \in Fresh(Udata) :
        Do(SetReg([LinkUdata(g, u) EXCEPT !.env[u] = globals,
                     !.born = Append(SelectSeq(@, LAMBDA x : x /= u), u),
                     !.calls = SelectSeq(@, LAMBDA x : x /= u)], i, u))

\* Mutant: a dead string is found and returned as it is.
InternDead(s, x) ==
    IF x \in s.strings THEN s
    ELSE LET t == [s EXCEPT !.strings = @ \cup {x}, !.colour[x] = s.white]
         IN  IF Cardinality(t.strings) > s.size THEN Resize(t, 2 * s.size) ELSE t

\* luaS_newlstr: a string that is still in the table is used again, and a
\* dead one is resurrected.
Intern(s, x) ==
    IF x \in s.strings THEN (IF IsDead(s, x) THEN MakeWhite(s, x) ELSE s)
    ELSE LET t == [s EXCEPT !.strings = @ \cup {x}, !.colour[x] = s.white]
         IN  IF Cardinality(t.strings) > s.size THEN Resize(t, 2 * s.size) ELSE t

NewString(i) == \E x \in String \cap world.objects : Do(SetReg(Intern(g, x), i, x))

\* A chunk is loaded, with its constant, and a closure over register level
\* is made of it.
NewClosure(i, level) ==
    \E f \in Fresh(Function) : \E u \in Fresh(Upval) \cup OpenAt(g, g.cur, level) :
        /\ ProtoOf[f] \in Fresh(Proto)
        /\ LET s == Intern(LinkFront(g, ProtoOf[f]), LiteralOf[ProtoOf[f]])
               found == FindUpval(LinkFront(s, f), g.cur, level, u)
           IN  Do(SetReg([found.state EXCEPT !.env[f] = globals, !.upval[f] = found.uv], i, f))

NewThread(i) == \E th \in Fresh(Thread) : Do(SetReg(LinkFront(g, th), i, th))

\* A register gets what the program can reach from the others.
Loads ==
    {nil} \cup Held \cup {g.val[t] : t \in Tables} \cup {g.key[t] : t \in {x \in Tables : g.val[x] /= nil}}
        \cup {UpvalValue(g, g.upval[f]) : f \in Held \cap Function}
Load(i) == \E v \in Loads \ {g.stack[g.cur][i]} : Do(SetReg(g, i, v))

\* luaV_settable and luaH_set.  A nil key stands for one that is no object; the
\* key of an entry without a value is never used.
SetTable(t, k, v) ==
    Do(BarrierT(BarrierT([g EXCEPT !.key[t] = IF v = nil THEN nil ELSE k, !.val[t] = v], t, k), t, v))

\* lua_setmetatable; a table that is not in the registry has no __mode or __gc.
SetMetatable(o, m) ==
    LET s == [g EXCEPT !.meta[o] = m]
    IN  Do(IF o \in Table THEN BarrierT(s, o, m) ELSE Barrier(s, o, m))

\* __mode is a matter of tables, __gc of userdata; for any other table see
\* "metatables".
Suits(o, m) == IF o \in Table THEN Mode[m] /= {} ELSE m \in Finalizing

\* lua_setmetatable of a basic type
SetBasicMetatable(m) == Do([g EXCEPT !.mt = m])

\* lua_setfenv
SetFenv(o, t) == Do(Barrier([g EXCEPT !.env[o] = t], o, t))

\* OP_SETUPVAL
SetUpval(f, v) ==
    LET u == g.upval[f]
    IN  IF g.at[u] = nil THEN Do(Barrier([g EXCEPT !.cell[u] = v], u, v))
        ELSE Do(Barrier([g EXCEPT !.stack[g.at[u].th][g.at[u].level] = v], u, v))

\* OP_CLOSE, or the end of a block
CloseFrom(level) == g.open[g.cur] /= <<>> /\ Do(Close(g, g.cur, level))

\* coroutine.resume and yield, which move a value between the stacks
Resume(th, v) ==
    /\ g.cur = main /\ th \in (Held \cap Thread) \ {main}
    /\ Do([g EXCEPT !.cur = th, !.stack[th][1] = v])
Yield(v) == g.cur /= main /\ Do([g EXCEPT !.cur = main, !.stack[main][1] = v])

Program ==
    \/ \E i \in 1..world.regs :
          NewTable(i) \/ NewUdata(i) \/ NewString(i) \/ NewThread(i) \/ Load(i) \/ CloseFrom(i)
    \/ \E i, level \in 1..world.regs : NewClosure(i, level)
    \/ \E t \in Tables, v \in Held : \E k \in IF "keys" \in world.uses THEN Held ELSE {nil} :
          SetTable(t, k, v)
    \/ \E o \in Held \cap (Table \cup Udata) : \E m \in (Metas \cap world.objects) \ {g.meta[o]} :
          Suits(o, m) /\ SetMetatable(o, m)
    \/ /\ "metatables" \in world.uses
       /\ \E t \in Held \cap Table :
             \/ \E o \in Held \cap (Table \cup Udata) : SetMetatable(o, t)
             \/ SetBasicMetatable(t)
             \/ \E o \in Held \cap (Function \cup Udata) : SetFenv(o, t)
    \/ \E f \in Held \cap Function : \E v \in Held : SetUpval(f, v)
    \/ \E v \in Held : (\E th \in Thread : Resume(th, v)) \/ Yield(v)

(***************************************************************************)
(* singlestep.  A full collection runs its steps without the program in    *)
(* between: it first finishes the sweep, and skips the finalizers.         *)
(***************************************************************************)
SingleStep(s) ==
    CASE s.gcstate = "pause" -> {MarkRoot(s)}
      [] s.gcstate = "propagate" -> {IF s.gray /= <<>> THEN PropagateMark(s) ELSE Atomic(s)}
      [] s.gcstate = "sweepstring" -> {SweepString(s)}
      [] s.gcstate = "sweep" -> {Sweep(s)}
      [] s.gcstate = "finalize" ->
            IF s.tmudata /= <<>> THEN {GCTM(s, keep) : keep \in BOOLEAN}
            ELSE {[s EXCEPT !.gcstate = "pause"]}
      [] OTHER -> {}

Step ==
    /\ g.full = "no"
    /\ g' \in SingleStep(g)
    /\ UNCHANGED world

\* luaC_fullgc
FullGC ==
    "collectgarbage" \in world.uses /\ Do([IF g.gcstate \in {"pause", "propagate"}
        THEN [g EXCEPT !.sweepstrgc = 0, !.sweepgc = nil, !.gray = <<>>, !.grayagain = <<>>,
                       !.weak = <<>>, !.gcstate = "sweepstring"]
        ELSE g EXCEPT !.full = "finish"])

FullStep ==
    /\ g.full /= "no"
    /\ IF g.full = "finish" /\ g.gcstate = "finalize"
       THEN g' = [MarkRoot(g) EXCEPT !.full = "collect"]
       ELSE \E s \in SingleStep(g) :
              g' = IF s.full = "collect" /\ s.gcstate = "pause" THEN [s EXCEPT !.full = "no"] ELSE s
    /\ UNCHANGED world

(***************************************************************************)
(* lua_close: all finalizers are called, and then everything is freed.     *)
(***************************************************************************)
CloseState ==
    LET s == SeparateUdata(Close(g, main, 1), TRUE)
        t == FoldLeft(LAMBDA x, u : GCTM(x, FALSE), s, s.tmudata)
    IN  Do([[Initial(world) EXCEPT !.gcstate = "closed", !.colour = [o \in Object |-> nil],
               !.rootgc = <<>>] EXCEPT
               !.calls = t.calls, !.born = g.born, !.failed = t.failed])

Closed == g.gcstate = "closed" /\ UNCHANGED vars

Next == Program \/ Step \/ FullGC \/ FullStep \/ CloseState \/ Closed

(***************************************************************************)
(* Every luaC_checkGC above the threshold takes a step: a program that     *)
(* goes on allocating lets the collector go on.  A step is always possible *)
(* until lua_close, so that weak fairness of Step and FullStep says that   *)
(* they are taken again and again; Advances holds of both.                 *)
(***************************************************************************)
Advances ==
    \/ g'.gcstate /= g.gcstate
    \/ g.gray /= <<>> /\ Head(g.gray) \notin Range(g'.gray)
    \/ g'.sweepstrgc /= g.sweepstrgc
    \/ g'.sweepgc /= g.sweepgc \/ Len(g'.rootgc) < Len(g.rootgc)
    \/ Len(g'.tmudata) < Len(g.tmudata)

Fairness == []<>(g.gcstate = "closed") \/ []<><<Advances>>_vars

Spec == Init /\ [][Next]_vars /\ Fairness
-----------------------------------------------------------------------------
(***************************************************************************)
(* Properties.                                                             *)
(***************************************************************************)

Roots(s) == {main, globals, registry, s.mt, s.cur} \cup Range(s.tmudata)

Strong(s, o) ==
    (Range(Children(s, o)) \cup (IF o \in Udata THEN {s.meta[o], s.env[o]} ELSE {})
        \cup (IF o \in Upval THEN {UpvalValue(s, o)} ELSE {})) \ {nil}

\* What the program can get at, now or later.
Reachable(s) ==
    FoldSet(LAMBDA o, S : S \cup UNION {Strong(s, x) : x \in S}, Roots(s) \ {nil}, world.objects)

\* The types of the collector's lists and of what objects refer to.
TypeOK ==
    /\ g.gcstate \in {"pause", "propagate", "sweepstring", "sweep", "finalize", "closed"}
    /\ g.white \in {"white0", "white1"}
    /\ g.colour \in [Object -> {"white0", "white1", "gray", "black", nil}]
    /\ g.stack \in [Thread -> [Reg -> Value]]
    /\ g.cur \in Thread /\ g.full \in {"no", "finish", "collect"}
    /\ IsInjective(g.rootgc) /\ IsInjective(g.tmudata)
    /\ \A o \in Object : o \in Allocated(g) <=> g.colour[o] /= nil

(***************************************************************************)
(* The collector never frees what the program can still get at: by a       *)
(* strong path, or from a weak table it can reach.                         *)
(***************************************************************************)
NothingLiveFreed ==
    g.gcstate /= "closed" =>
        LET live == Reachable(g)
        IN  /\ live \subseteq Allocated(g)
            /\ \A t \in live \cap Table : {g.key[t], g.val[t]} \subseteq Allocated(g) \cup {nil}

(***************************************************************************)
(* The assertions of the collector hold (lua_assert in lgc.c and lfunc.c): *)
(* no dead object is marked or linked, barriers only fire while there are  *)
(* black objects to protect, save for userdata that wait for a finalizer,  *)
(* and no open upvalue is black.                                           *)
(***************************************************************************)
AssertionsHold == ~g.failed

(***************************************************************************)
(* The invariant the barriers are for: while marking, a black object       *)
(* refers to no white one, userdata left over from the last cycle          *)
(* excepted; and after the atomic step nothing that can be reached is      *)
(* dead, but for the main thread, which is never freed.                    *)
(***************************************************************************)
TriColour ==
    /\ g.gcstate = "propagate" =>
          \A o \in Allocated(g) \ Range(g.tmudata) : g.colour[o] = "black" => \A v \in Strong(g, o) : ~IsWhite(g, v)
    /\ g.gcstate \in {"sweepstring", "sweep"} => \A o \in Reachable(g) : ~IsDead(g, o) \/ o = main

(***************************************************************************)
(* A userdata is finalized once, and those found dead in one cycle in the  *)
(* order the manual gives (2.10.1): "At the end of each garbage-collection *)
(* cycle, the finalizers for userdata are called in reverse order of their *)
(* creation, among those collected in that cycle."                         *)
(***************************************************************************)
Age(u) == SelectInSeq(g.born, LAMBDA x : x = u)
FinalizedInOrder ==
    [][/\ IsInjective(g'.calls)
       /\ Range(g'.calls) \cap Range(g'.tmudata) = {}
       /\ LET old == Len(g.tmudata)
          IN  \A i, j \in DOMAIN g'.tmudata :
                 (old < i /\ i < j) => Age(g'.tmudata[j]) < Age(g'.tmudata[i])]_vars

\* What the program cannot get at any more is freed some time, if the
\* program goes on: nothing is kept for ever by a stale mark.
Collected ==
    LET garbage == /\ world.watch /= nil /\ g.colour[world.watch] /= nil
                   /\ world.watch \notin Reachable(g)
    IN  garbage ~> ~garbage
=============================================================================
