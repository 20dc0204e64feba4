------------------------------- MODULE LuaVM -------------------------------
(***************************************************************************)
(* The virtual machine of the Lua interpreter that Felt ships              *)
(* (src/src/lua/src/lvm.c, with the call frames of ldo.c and the upvalues  *)
(* of lfunc.c), running what the parser and the code generator made of a   *)
(* program.  Loading a chunk is one step, and so is every instruction; an  *)
(* instruction that calls a metamethod or an iterator runs that call to    *)
(* its end, as luaD_call does.                                             *)
(*                                                                         *)
(* The machine L: the stack, its top, the call frames, the closures, the   *)
(* upvalues (open on a stack slot, or closed with a value), the tables,    *)
(* the globals, what was shown through the host function "probe", and the  *)
(* first error.  The stack is not reallocated and has room for every       *)
(* program; errors are not caught; environments, hooks, coroutines, the    *)
(* collector's barriers and userdata are left out.                         *)
(***************************************************************************)
EXTENDS LuaChunk, LuaLanguage

CONSTANTS Parser(_),   \* what compiles the tokens of a chunk: luaY_parser
          Reader(_),   \* what reads a precompiled chunk: luaU_undump
          Programs,   \* the programs to run: sets of trees of LuaLanguage
          Precompiled,\* those that are also run from a precompiled chunk
          Args,       \* the arguments of the main chunk
          StackSize   \* number of stack slots

ASSUME MachineAssumption == StackSize \in Nat \ {0}

VARIABLES src,     \* the program
          status,  \* "source", "run", "done", "error" or "syntax"
          parsed,  \* what the parser returned
          L        \* the machine

vars == <<src, status, parsed, L>>

-----------------------------------------------------------------------------
(* The current frame, its function and its instruction. *)

Frame(M) == M.ci[Len(M.ci)]

RECURSIVE ProtoAt(_, _)
ProtoAt(p, path) == IF path = <<>> THEN p ELSE ProtoAt(p.p[path[1]], Tail(path))

Proto(M, cl) == ProtoAt(M.main, M.clos[cl].path)
Cl(M) == M.clos[Frame(M).cl]
P(M) == Proto(M, Frame(M).cl)
Ins(M) == P(M).code[Frame(M).pc + 1]
CiTop(M) == Frame(M).base + P(M).maxstack

Slot(M, x) == Frame(M).base + x
R(M, x) == M.stack[Slot(M, x)]
K(M, x) == P(M).k[x + 1]
RK(M, x) == IF ISK(x) THEN K(M, x - BITRK) ELSE R(M, x)

SetSlot(M, i, v) == [M EXCEPT !.stack[i] = v]
SetR(M, x, v) == SetSlot(M, Slot(M, x), v)
Skip(M, n) == [M EXCEPT !.ci[Len(M.ci)].pc = @ + n]
Raise(M, msg) == IF M.err = "" THEN [M EXCEPT !.err = msg] ELSE M

-----------------------------------------------------------------------------
(* Upvalues. *)

Upvalue(M, u) == IF M.upv[u].open THEN M.stack[M.upv[u].at] ELSE M.upv[u].v

SetUpvalue(M, u, v) ==
  IF M.upv[u].open THEN SetSlot(M, M.upv[u].at, v) ELSE [M EXCEPT !.upv[u].v = v]

(* The open upvalue of a slot, or a new one. *)
luaF_findupval(M, level) ==
  LET found == {u \in DOMAIN M.upv : M.upv[u].open /\ M.upv[u].at = level}
  IN IF found # {} THEN [m |-> M, u |-> Min(found)]
     ELSE [m |-> [M EXCEPT !.upv = Append(@, [open |-> TRUE, at |-> level, v |-> Nil])],
           u |-> Len(M.upv) + 1]

luaF_close(M, level) ==
  [M EXCEPT !.upv = [u \in DOMAIN @ |->
     IF @[u].open /\ @[u].at >= level
     THEN [open |-> FALSE, at |-> 0, v |-> M.stack[@[u].at]] ELSE @[u]]]

-----------------------------------------------------------------------------
(* Calls and returns. *)

(* The extra arguments stay below the new base; the old-style table arg is *)
(* made only for a function that never uses "...".                         *)
adjust_varargs(M, p, func) ==
  LET actual == M.top - func - 1
      n == p.numparams
      count == Max({actual, n})
      nvar == count - n
      top == func + 1 + count
      fixed == func + 1
      arg == [k \in {Num(i) : i \in {i \in 1..nvar : M.stack[func + n + i] # Nil}} |->
                M.stack[func + n + k[2]]] @@ (Str("n") :> Num(nvar))
      needs == "NEEDS" \in p.vararg
      st == [i \in DOMAIN M.stack |->
               CASE i \in M.top..top-1 -> Nil
                 [] i \in top..top+n-1 ->
                      IF i - top < actual THEN M.stack[fixed + i - top] ELSE Nil
                 [] i = top + n /\ needs -> <<"tab", Len(M.heap) + 1>>
                 [] i \in fixed..fixed+n-1 -> Nil
                 [] OTHER -> M.stack[i]]
  IN [m |-> [M EXCEPT !.stack = st, !.top = top + n + (IF needs THEN 1 ELSE 0),
                      !.heap = IF needs THEN Append(@, [map |-> arg, mt |-> 0]) ELSE @],
      base |-> top]

(* Results go where the function was; nil fills up to the wanted number. *)
MoveResults(M, func, first, wanted) ==
  LET have == M.top - first
      n == IF wanted = LUA_MULTRET THEN have ELSE wanted
  IN [M EXCEPT !.top = func + n,
               !.stack = [i \in DOMAIN @ |->
                  IF i \in func..func+n-1
                  THEN IF i - func < have THEN @[first + i - func] ELSE Nil
                  ELSE @[i]]]

luaD_poscall(M, first) ==
  LET f == Frame(M)
  IN MoveResults([M EXCEPT !.ci = SubSeq(@, 1, Len(@) - 1)], f.func, first, f.nres)

(* The host functions: probe returns its arguments, setmetatable its first. *)
CallHost(M, func, nres) ==
  LET args == [i \in 1..M.top-func-1 |-> M.stack[func + i]]
      shown == [M EXCEPT !.out = Append(@, [i \in DOMAIN args |-> Show(args[i])])]
      meta == [M EXCEPT !.heap[args[1][2]].mt = args[2][2], !.top = func + 2]
  IN MoveResults(IF M.stack[func][2] = "probe" THEN shown ELSE meta,
                 func, func + 1, nres)

luaD_precallLua(M, func, nres, fresh) ==
  LET cl == M.stack[func][2]
      p == Proto(M, cl)
      plain == [m |-> [M EXCEPT !.top = Min({@, func + 1 + p.numparams})],
                base |-> func + 1]
      a == IF p.vararg = {} THEN plain ELSE adjust_varargs(M, p, func)
      citop == a.base + p.maxstack
  IN [a.m EXCEPT !.ci = Append(@, [cl |-> cl, func |-> func, base |-> a.base, pc |-> 0,
                                   nres |-> nres, fresh |-> fresh]),
                 !.stack = [i \in DOMAIN @ |->
                              IF i \in a.m.top..citop-1 THEN Nil ELSE @[i]],
                 !.top = citop]

(* The metamethod __call takes the function's place, with it as argument. *)
tryfuncTM(M, func) ==
  LET tm == MetaOf(M.heap, M.stack[func], "__call")
  IN [M EXCEPT !.top = @ + 1,
               !.stack = [i \in DOMAIN @ |-> IF i = func THEN tm
                                             ELSE IF i \in func+1..M.top THEN @[i - 1]
                                             ELSE @[i]]]

RECURSIVE luaD_precall(_, _, _, _), luaV_execute(_), Until(_, _)

luaD_precall(M, func, nres, fresh) ==
  LET f == M.stack[func]
      tm == MetaOf(M.heap, f, "__call")
  IN CASE f[1] = "fun" -> luaD_precallLua(M, func, nres, fresh)
       [] f[1] = "cfun" -> CallHost(M, func, nres)
       [] tm[1] \in {"fun", "cfun"} -> luaD_precall(tryfuncTM(M, func), func, nres, fresh)
       [] OTHER -> Raise(M, "call")

(* Run until the frames above depth have returned. *)
Until(M, depth) == IF M.err # "" \/ Len(M.ci) = depth THEN M
                   ELSE Until(luaV_execute(M), depth)

luaD_call(M, func, nres) == Until(luaD_precall(M, func, nres, TRUE), Len(M.ci))

-----------------------------------------------------------------------------
(* Metamethods. *)

Push(M, vs) ==
  [M EXCEPT !.top = @ + Len(vs),
            !.stack = [i \in DOMAIN @ |-> IF i \in M.top..M.top+Len(vs)-1
                                          THEN vs[i - M.top + 1] ELSE @[i]]]

(* The result is left above the top, where the caller reads it. *)
callTMres(M, f, p1, p2) ==
  LET r == luaD_call(Push(M, <<f, p1, p2>>), M.top, 1)
  IN [r EXCEPT !.top = @ - 1]

callTM(M, f, p1, p2, p3) == luaD_call(Push(M, <<f, p1, p2, p3>>), M.top, 0)

TMResult(M) == M.stack[M.top]

RECURSIVE luaV_gettable(_, _, _, _, _), luaV_settable(_, _, _, _, _)

luaV_gettable(M, t, key, val, loop) ==
  LET tm == MetaOf(M.heap, t, "__index")
      res == At(M.heap[t[2]].map, key)
      r == callTMres(M, tm, t, key)
  IN IF loop = 0 THEN Raise(M, "loop")
     ELSE IF t[1] = "tab" /\ (res # Nil \/ tm = Nil) THEN SetSlot(M, val, res)
     ELSE IF tm = Nil THEN Raise(M, "index")
     ELSE IF tm[1] \in {"fun", "cfun"} THEN SetSlot(r, val, TMResult(r))
     ELSE luaV_gettable(M, tm, key, val, loop - 1)

luaV_settable(M, t, key, v, loop) ==
  LET tm == MetaOf(M.heap, t, "__newindex")
      old == At(M.heap[t[2]].map, key)
  IN IF loop = 0 THEN Raise(M, "loop")
     ELSE IF t[1] = "tab" /\ key \in {Nil, Num(NaN)} THEN Raise(M, "key")
     ELSE IF t[1] = "tab" /\ (old # Nil \/ tm = Nil)
     THEN [M EXCEPT !.heap[t[2]].map = Put(@, key, v)]
     ELSE IF tm = Nil THEN Raise(M, "index")
     ELSE IF tm[1] \in {"fun", "cfun"} THEN callTM(M, tm, t, key, v)
     ELSE luaV_settable(M, tm, key, v, loop - 1)

call_binTM(M, p1, p2, res, event, msg) ==
  LET tm1 == MetaOf(M.heap, p1, event)
      tm == IF tm1 = Nil THEN MetaOf(M.heap, p2, event) ELSE tm1
      r == callTMres(M, tm, p1, p2)
  IN IF tm = Nil THEN Raise(M, msg) ELSE SetSlot(r, res, TMResult(r))

(* Comparisons return the machine and the truth value. *)
MB(M, b) == [m |-> M, b |-> b]
CallCompTM(M, tm, p1, p2) ==
  LET r == callTMres(M, tm, p1, p2) IN MB(r, ~IsFalse(TMResult(r)))

get_compTM(M, t1, t2, event) ==
  LET tm1 == MetaOf(M.heap, t1, event)
      tm2 == MetaOf(M.heap, t2, event)
  IN IF M.heap[t1[2]].mt = M.heap[t2[2]].mt \/ tm1 = tm2 THEN tm1 ELSE Nil

luaV_equalval(M, t1, t2) ==
  LET tm == get_compTM(M, t1, t2, "__eq")
  IN IF t1[1] # t2[1] THEN MB(M, FALSE)
     ELSE IF t1[1] # "tab" \/ t1 = t2 THEN MB(M, RawEqual(t1, t2))
     ELSE IF tm = Nil THEN MB(M, FALSE) ELSE CallCompTM(M, tm, t1, t2)

OrderTM(M, p1, p2, event) ==
  LET tm == MetaOf(M.heap, p1, event)
  IN IF tm = MetaOf(M.heap, p2, event) THEN tm ELSE Nil

luaV_lessthan(M, l, r) ==
  LET tm == OrderTM(M, l, r, "__lt")
  IN IF l[1] # r[1] THEN MB(Raise(M, "compare"), FALSE)
     ELSE IF IsNum(l) THEN MB(M, Less(l, r))
     ELSE IF tm # Nil THEN CallCompTM(M, tm, l, r)
     ELSE MB(Raise(M, "compare"), FALSE)

lessequal(M, l, r) ==
  LET le == OrderTM(M, l, r, "__le")
      lt == OrderTM(M, r, l, "__lt")
      c == CallCompTM(M, lt, r, l)
  IN IF l[1] # r[1] THEN MB(Raise(M, "compare"), FALSE)
     ELSE IF IsNum(l) THEN MB(M, LessEqual(l, r))
     ELSE IF le # Nil THEN CallCompTM(M, le, l, r)
     ELSE IF lt # Nil THEN MB(c.m, ~c.b)
     ELSE MB(Raise(M, "compare"), FALSE)

(* Concatenation from the right: as many strings as possible at once, or a *)
(* metamethod on the last two operands.                                    *)
RECURSIVE Glue(_, _, _), luaV_concat(_, _, _)
Glue(M, from, to) == IF from > to THEN ""
                     ELSE ToText(M.stack[from]) \o Glue(M, from + 1, to)

luaV_concat(M, total, last) ==
  LET top == Slot(M, last + 1)
      x == M.stack[top - 2]
      y == M.stack[top - 1]
      text(i) == IsText(M.stack[top - i])
      n == IF ToText(y) = "" THEN 2
           ELSE Max({m \in 2..total : \A i \in 1..m : text(i)})
      tm == call_binTM(M, x, y, top - 2, "__concat", "concat")
      glued == SetSlot(M, top - n, Str(Glue(M, top - n, top - 1)))
  IN IF total <= 1 \/ M.err # "" THEN M
     ELSE IF ~(IsText(x) /\ IsText(y)) THEN luaV_concat(tm, total - 1, last - 1)
     ELSE luaV_concat(glued, total - n + 1, last - n + 1)

Arith(M, ra, x, y, op) ==
  IF IsNum(x) /\ IsNum(y) THEN SetR(M, ra, Num(Numeric(op, x[2], y[2])))
  ELSE call_binTM(M, x, y, Slot(M, ra),
                  CASE op = "ADD" -> "__add" [] op = "SUB" -> "__sub"
                    [] op = "MUL" -> "__mul" [] op = "MOD" -> "__mod"
                    [] op = "POW" -> "__pow" [] op = "UNM" -> "__unm", "arith")

-----------------------------------------------------------------------------
(* The instructions with more to them than one assignment.  M is the       *)
(* machine with pc already past the instruction i.                         *)

TestJump(r, expected, j) ==
  Skip(r.m, IF r.b = expected THEN j.b + 1 ELSE 1)

(* Mutant: the top stays at the results although their number is fixed. *)
CallLeavesTop(M, i) ==
  LET ra == Slot(M, i.a)
      N == IF i.b # 0 THEN [M EXCEPT !.top = ra + i.b] ELSE M
  IN luaD_precall(N, ra, i.c - 1, FALSE)

OP_CALL(M, i) ==
  LET ra == Slot(M, i.a)
      N == IF i.b # 0 THEN [M EXCEPT !.top = ra + i.b] ELSE M
      r == luaD_precall(N, ra, i.c - 1, FALSE)
  IN IF Len(r.ci) = Len(M.ci) /\ i.c - 1 >= 0 THEN [r EXCEPT !.top = CiTop(r)] ELSE r

(* The new frame takes the place of the caller's. *)
OP_TAILCALL(M, i) ==
  LET ra == Slot(M, i.a)
      N == IF i.b # 0 THEN [M EXCEPT !.top = ra + i.b] ELSE M
      r == luaD_precall(N, ra, LUA_MULTRET, FALSE)
      c == luaF_close(r, Frame(M).base)
      o == Frame(M)
      n == Frame(r)
      size == r.top - n.func
  IN IF Len(r.ci) = Len(M.ci) THEN r
     ELSE [c EXCEPT !.ci = Append(SubSeq(@, 1, Len(@) - 2),
                                  [o EXCEPT !.cl = n.cl, !.pc = 0,
                                            !.base = o.func + (n.base - n.func)]),
                    !.stack = [k \in DOMAIN @ |->
                                 IF k \in o.func..o.func+size-1
                                 THEN @[n.func + k - o.func] ELSE @[k]],
                    !.top = o.func + size]

(* Mutant: the upvalues of the function that returns are left open. *)
ReturnLeavesOpen(M, i) ==
  LET ra == Slot(M, i.a)
      N == IF i.b # 0 THEN [M EXCEPT !.top = ra + i.b - 1] ELSE M
      f == Frame(M)
      r == luaD_poscall(N, ra)
  IN IF f.fresh \/ f.nres = LUA_MULTRET THEN r ELSE [r EXCEPT !.top = CiTop(r)]

OP_RETURN(M, i) ==
  LET ra == Slot(M, i.a)
      N == IF i.b # 0 THEN [M EXCEPT !.top = ra + i.b - 1] ELSE M
      f == Frame(M)
      r == luaD_poscall(luaF_close(N, f.base), ra)
  IN IF f.fresh \/ f.nres = LUA_MULTRET THEN r ELSE [r EXCEPT !.top = CiTop(r)]

OP_FORLOOP(M, i) ==
  LET idx == R(M, i.a)[2] + R(M, i.a + 2)[2]
      lim == R(M, i.a + 1)[2]
      goes == IF 0 < R(M, i.a + 2)[2] THEN idx <= lim ELSE lim <= idx
  IN IF goes THEN Skip(SetR(SetR(M, i.a, Num(idx)), i.a + 3, Num(idx)), i.b) ELSE M

OP_FORPREP(M, i) ==
  IF \A x \in 0..2 : IsNum(R(M, i.a + x))
  THEN Skip(SetR(M, i.a, Num(R(M, i.a)[2] - R(M, i.a + 2)[2])), i.b)
  ELSE Raise(M, "for")

OP_TFORLOOP(M, i) ==
  LET cb == Slot(M, i.a + 3)
      args == [M EXCEPT !.top = cb + 3,
                        !.stack = [k \in DOMAIN @ |->
                                     IF k \in cb..cb+2 THEN @[k - 3] ELSE @[k]]]
      r == luaD_call(args, cb, i.c)
      N == [r EXCEPT !.top = CiTop(r)]
  IN IF r.err # "" THEN r
     ELSE IF N.stack[cb] = Nil THEN Skip(N, 1)
     ELSE Skip(SetSlot(N, cb - 1, N.stack[cb]), P(N).code[Frame(N).pc + 1].b + 1)

OP_SETLIST(M, i) ==
  LET n == IF i.b = 0 THEN M.top - Slot(M, i.a) - 1 ELSE i.b
      c == IF i.c = 0 THEN Ins(M).c ELSE i.c
      first == (c - 1) * LFIELDS_PER_FLUSH
      vals == [k \in {Num(first + j) : j \in 1..n} |-> R(M, i.a + k[2] - first)]
      set(t) == [k \in {k \in DOMAIN t \cup DOMAIN vals :
                          k \in DOMAIN vals => vals[k] # Nil} |->
                   IF k \in DOMAIN vals THEN vals[k] ELSE t[k]]
      N == [M EXCEPT !.heap[R(M, i.a)[2]].map = set(@),
                     !.top = IF i.b = 0 THEN CiTop(M) ELSE @]
  IN IF i.c = 0 THEN Skip(N, 1) ELSE N

RECURSIVE Capture(_, _, _)
Capture(M, nup, ups) ==
  LET i == Ins(M)
      f == luaF_findupval(M, Slot(M, i.b))
  IN IF nup = 0 THEN [m |-> M, ups |-> ups]
     ELSE IF i.op = "GETUPVAL"
     THEN Capture(Skip(M, 1), nup - 1, Append(ups, Cl(M).ups[i.b + 1]))
     ELSE Capture(Skip(f.m, 1), nup - 1, Append(ups, f.u))

OP_CLOSURE(M, i) ==
  LET c == Capture(M, P(M).p[i.b + 1].nups, <<>>)
      new == [path |-> Append(Cl(M).path, i.b + 1), ups |-> c.ups]
  IN SetR([c.m EXCEPT !.clos = Append(@, new)], i.a, <<"fun", Len(M.clos) + 1>>)

OP_VARARG(M, i) ==
  LET f == Frame(M)
      n == f.base - f.func - P(M).numparams - 1
      b == IF i.b = 0 THEN n ELSE i.b - 1
      ra == Slot(M, i.a)
  IN [M EXCEPT !.top = IF i.b = 0 THEN ra + n ELSE @,
               !.stack = [k \in DOMAIN @ |->
                  IF k \in ra..ra+b-1
                  THEN IF k - ra < n THEN @[f.base - n + k - ra] ELSE Nil
                  ELSE @[k]]]

(* The other instructions, in groups; M and i as above. *)

Moves(M, i) ==
  LET ra == Slot(M, i.a)
  IN CASE i.op = "MOVE" -> SetSlot(M, ra, R(M, i.b))
       [] i.op = "LOADK" -> SetSlot(M, ra, K(M, i.b))
       [] i.op = "LOADBOOL" -> Skip(SetSlot(M, ra, Bool(i.b = 1)), i.c)
       [] i.op = "LOADNIL" -> [M EXCEPT !.stack = [k \in DOMAIN @ |->
                                 IF k \in ra..Slot(M, i.b) THEN Nil ELSE @[k]]]

Accesses(M, i) ==
  LET ra == Slot(M, i.a)
      rb == R(M, i.b)
  IN CASE i.op = "GETUPVAL" -> SetSlot(M, ra, Upvalue(M, Cl(M).ups[i.b + 1]))
       [] i.op = "SETUPVAL" -> SetUpvalue(M, Cl(M).ups[i.b + 1], R(M, i.a))
       [] i.op = "GETGLOBAL" -> SetSlot(M, ra, At(M.glob, K(M, i.b)))
       [] i.op = "SETGLOBAL" -> [M EXCEPT !.glob = Put(@, K(M, i.b), R(M, i.a))]
       [] i.op = "GETTABLE" -> luaV_gettable(M, rb, RK(M, i.c), ra, MAXTAGLOOP)
       [] i.op = "SETTABLE" ->
            luaV_settable(M, R(M, i.a), RK(M, i.b), RK(M, i.c), MAXTAGLOOP)
       [] i.op = "NEWTABLE" -> SetSlot([M EXCEPT !.heap = Append(@, NewTable)], ra,
                                       <<"tab", Len(M.heap) + 1>>)
       [] i.op = "SELF" ->
            luaV_gettable(SetSlot(M, ra + 1, rb), rb, RK(M, i.c), ra, MAXTAGLOOP)

Operators(M, i) ==
  LET ra == Slot(M, i.a)
      rb == R(M, i.b)
  IN CASE i.op \in {"ADD", "SUB", "MUL", "MOD", "POW"} ->
            Arith(M, i.a, RK(M, i.b), RK(M, i.c), i.op)
       [] i.op = "UNM" -> Arith(M, i.a, rb, rb, "UNM")
       [] i.op = "NOT" -> SetSlot(M, ra, Bool(IsFalse(rb)))
       [] i.op = "LEN" -> IF rb[1] = "tab"
                          THEN SetSlot(M, ra, Num(Border(M.heap[rb[2]].map)))
                          ELSE Raise(M, "length")
       [] i.op = "CONCAT" -> LET N == luaV_concat(M, i.c - i.b + 1, i.c)
                             IN SetSlot(N, ra, R(N, i.b))

(* A comparison or test is followed by the jump it takes or skips. *)
Tests(M, i) ==
  LET rb == R(M, i.b)
      b == RK(M, i.b)
      c == RK(M, i.c)
      set == IF IsFalse(rb) = (i.c = 0) THEN SetR(M, i.a, rb) ELSE M
  IN CASE i.op = "EQ" -> TestJump(luaV_equalval(M, b, c), i.a = 1, Ins(M))
       [] i.op = "LT" -> TestJump(luaV_lessthan(M, b, c), i.a = 1, Ins(M))
       [] i.op = "LE" -> TestJump(lessequal(M, b, c), i.a = 1, Ins(M))
       [] i.op = "TEST" -> TestJump(MB(M, IsFalse(R(M, i.a))), i.c = 0, Ins(M))
       [] i.op = "TESTSET" -> TestJump(MB(set, IsFalse(rb)), i.c = 0, Ins(M))

(* One instruction. *)
luaV_execute(M0) ==
  LET i == Ins(M0)
      M == Skip(M0, 1)
  IN CASE i.op \in {"MOVE", "LOADK", "LOADBOOL", "LOADNIL"} -> Moves(M, i)
       [] i.op \in {"GETUPVAL", "SETUPVAL", "GETGLOBAL", "SETGLOBAL", "GETTABLE",
                    "SETTABLE", "NEWTABLE", "SELF"} -> Accesses(M, i)
       [] i.op \in {"ADD", "SUB", "MUL", "MOD", "POW", "UNM", "NOT", "LEN", "CONCAT"} ->
            Operators(M, i)
       [] i.op = "JMP" -> Skip(M, i.b)
       [] i.op \in {"EQ", "LT", "LE", "TEST", "TESTSET"} -> Tests(M, i)
       [] i.op = "CALL" -> OP_CALL(M, i)
       [] i.op = "TAILCALL" -> OP_TAILCALL(M, i)
       [] i.op = "RETURN" -> OP_RETURN(M, i)
       [] i.op = "FORLOOP" -> OP_FORLOOP(M, i)
       [] i.op = "FORPREP" -> OP_FORPREP(M, i)
       [] i.op = "TFORLOOP" -> OP_TFORLOOP(M, i)
       [] i.op = "SETLIST" -> OP_SETLIST(M, i)
       [] i.op = "CLOSE" -> luaF_close(M, Slot(M, i.a))
       [] i.op = "CLOSURE" -> OP_CLOSURE(M, i)
       [] i.op = "VARARG" -> OP_VARARG(M, i)

-----------------------------------------------------------------------------
NoMachine == [main |-> <<>>]

Init == /\ src \in Programs
        /\ status = "source"
        /\ parsed = [err |-> "", ok |-> TRUE, whole |-> TRUE]
        /\ L = NoMachine

(* The main function of a chunk is called with its arguments. *)
Start(proto) ==
  LET M == [main |-> proto, top |-> 1 + Len(Args), ci |-> <<>>,
            stack |-> [i \in 0..StackSize-1 |->
                         IF i = 0 THEN <<"fun", 1>>
                         ELSE IF i <= Len(Args) THEN Args[i] ELSE Nil],
            clos |-> <<[path |-> <<>>, ups |-> <<>>]>>, upv |-> <<>>, heap |-> <<>>,
            glob |-> Hosts, out |-> <<>>, err |-> ""]
  IN luaD_precall(M, 0, LUA_MULTRET, TRUE)

(* lua_load and lua_call.  f_parser chooses the parser or the reader by the *)
(* first character of the chunk; r is what that returned.                  *)
f_parser(r, whole) ==
  /\ status = "source"
  /\ parsed' = [err |-> r.err, ok |-> r.ok, whole |-> whole]
  /\ status' = IF r.err = "" THEN "run" ELSE "syntax"
  /\ L' = IF r.err = "" THEN Start(r.proto) ELSE L
  /\ UNCHANGED src

Load == f_parser(Parser(Tokens(src)), TRUE)

(* The program comes as a precompiled chunk, whole or cut off after n items. *)
LoadChunk(strip) ==
  LET r == Parser(Tokens(src))
      binary == luaU_dump(r.proto, strip)
  IN /\ src \in Precompiled /\ r.err = ""
     /\ \/ f_parser(Reader(binary), TRUE)
        \/ \E n \in 0..Len(binary)-1 : f_parser(Reader(SubSeq(binary, 1, n)), FALSE)

Execute ==
  /\ status = "run"
  /\ L' = luaV_execute(L)
  /\ status' = IF L'.err # "" THEN "error" ELSE IF L'.ci = <<>> THEN "done" ELSE "run"
  /\ UNCHANGED <<src, parsed>>

Ended == status \in {"done", "error", "syntax"} /\ UNCHANGED vars

Next == Load \/ (\E strip \in BOOLEAN : LoadChunk(strip)) \/ Execute \/ Ended

Spec == Init /\ [][Next]_vars


-----------------------------------------------------------------------------
(* The compiled program does what the language's reference says: it is     *)
(* rejected if it is not a program, and otherwise it ends the same way,    *)
(* returns the same values and shows the same on the way (lparser.c,       *)
(* lcode.c and lvm.c together against the manual).  Stated of the step in  *)
(* which a program ends.                                                   *)
Ending ==
  [end |-> status,
   vs |-> IF status = "done" THEN [i \in 1..L.top |-> Show(L.stack[i - 1])] ELSE <<>>,
   out |-> IF status = "syntax" THEN <<>> ELSE L.out]
RunsAsWritten ==
  [][(status \in {"done", "error", "syntax"} /\ parsed.whole)'
       => Ending' = Outcome(src, Args)]_vars

(* A precompiled chunk that is cut off anywhere is rejected as a whole     *)
(* (LoadBlock): nothing of it runs.                                        *)
CutChunksRejected == ~parsed.whole => status = "syntax" /\ L = NoMachine

(* Every lua_assert of the parser and the code generator holds, the        *)
(* check of the finished code in close_func included, and so do the        *)
(* assertions at the head of luaV_execute's loop: outside an open call the *)
(* top of the stack is the top of the frame.                               *)
AssertionsHold ==
  /\ parsed.ok
  /\ status = "run" =>
       /\ Frame(L).base <= L.top /\ L.top <= StackSize
       /\ L.top = CiTop(L) \/ luaG_checkopenop(Ins(L))

(* An open upvalue points into a frame that is still active, at most one   *)
(* of them to each slot: a local that a closure has captured is closed     *)
(* before its slot is used for anything else (luaF_close at OP_CLOSE,      *)
(* OP_RETURN and OP_TAILCALL).                                             *)
UpvaluesLive ==
  status = "run" =>
    \A u \in DOMAIN L.upv : L.upv[u].open =>
      /\ \E f \in DOMAIN L.ci :
           /\ L.ci[f].base <= L.upv[u].at
           /\ L.upv[u].at < L.ci[f].base + Proto(L, L.ci[f].cl).maxstack
      /\ \A w \in DOMAIN L.upv : L.upv[w].open /\ L.upv[w].at = L.upv[u].at => w = u
=============================================================================
