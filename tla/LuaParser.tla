----------------------------- MODULE LuaParser -----------------------------
(***************************************************************************)
(* The parser of the Lua interpreter that Felt ships                       *)
(* (src/src/lua/src/lparser.c): one pass over the tokens of a chunk that   *)
(* drives the code generator, and the checker of the finished code         *)
(* (symbexec, ldebug.c), which close_func asserts.                         *)
(*                                                                         *)
(* The parser's state P holds the function states of the functions being   *)
(* compiled, innermost last, the tokens left, and the first syntax error   *)
(* ("" when there is none).  A rule that yields an expression returns      *)
(* [p, e].  A token is a tuple: its kind, and its value if it has one.     *)
(*                                                                         *)
(* Left out: line numbers and the other debug information, and the limits  *)
(* of 200 locals, 60 upvalues, 250 registers and 200 nested levels.        *)
(***************************************************************************)
EXTENDS LuaCode

Cur(P) == P.fs[Len(P.fs)]
Upd(P, fs) == [P EXCEPT !.fs[Len(P.fs)] = fs]
PE(P, r) == [p |-> Upd(P, r.fs), e |-> r.e]
Kind(P) == P.ts[1][1]
luaX_next(P) == [P EXCEPT !.ts = Tail(@)]
Fail(P, msg) == IF P.err = "" THEN [P EXCEPT !.err = msg] ELSE P

checknext(P, t) == IF Kind(P) = t THEN luaX_next(P) ELSE Fail(P, t \o " expected")

testnext(P, t) == IF Kind(P) = t THEN luaX_next(P) ELSE P

-----------------------------------------------------------------------------
(* Variables.  actvar names the active locals and, behind them, the ones   *)
(* that are declared but not yet active.                                   *)

new_localvar(fs, name, n) ==
  [fs EXCEPT !.actvar = Append(SubSeq(@, 1, fs.nactvar + n), name)]

adjustlocalvars(fs, nvars) == [fs EXCEPT !.nactvar = @ + nvars]

removevars(fs, tolevel) == [fs EXCEPT !.nactvar = tolevel]

(* The upvalue a name already has here, or a new one. *)
indexupvalue(fs, name, var) ==
  LET new == [name |-> name, k |-> var.k, info |-> var.info]
      same == {i \in DOMAIN fs.upvalues : /\ fs.upvalues[i].k = var.k
                                          /\ fs.upvalues[i].info = var.info}
  IN IF same # {}
     THEN FR(lua_assert(fs, fs.upvalues[Min(same)].name = name), Min(same) - 1)
     ELSE FR(lua_assert([fs EXCEPT !.upvalues = Append(@, new)],
                        var.k \in {"VLOCAL", "VUPVAL"}),
             Len(fs.upvalues))

searchvar(fs, n) == Max({-1} \cup {i \in 0..fs.nactvar-1 : fs.actvar[i + 1] = n})

(* The innermost block that was open before the local came to life. *)
markupval(fs, level) ==
  LET outer == {i \in DOMAIN fs.bl : fs.bl[i].nactvar <= level}
  IN IF outer = {} THEN fs ELSE [fs EXCEPT !.bl[Max(outer)].upval = TRUE]

RECURSIVE singlevaraux(_, _, _, _)
singlevaraux(fss, level, n, base) ==
  IF level = 0 THEN [fss |-> fss, var |-> init_exp("VGLOBAL", NO_REG)]
  ELSE LET v == searchvar(fss[level], n)
           up == singlevaraux(fss, level - 1, n, FALSE)
           i == indexupvalue(up.fss[level], n, up.var)
       IN IF v >= 0
          THEN [fss |-> IF base THEN fss
                        ELSE [fss EXCEPT ![level] = markupval(@, v)],
                var |-> init_exp("VLOCAL", v)]
          ELSE IF up.var.k = "VGLOBAL" THEN up
          ELSE [fss |-> [up.fss EXCEPT ![level] = i.fs],
                var |-> init_exp("VUPVAL", i.r)]

singlevar(P) ==
  LET n == P.ts[1][2]
      r == singlevaraux(P.fs, Len(P.fs), n, TRUE)
      q == luaX_next([P EXCEPT !.fs = r.fss])
      k == luaK_stringK(Cur(q), n)
  IN IF r.var.k = "VGLOBAL" THEN PE(q, FE(k.fs, [r.var EXCEPT !.info = k.r]))
     ELSE [p |-> q, e |-> r.var]

adjust_assign(fs, nvars, nexps, e) ==
  LET extra == nvars - nexps
      open == Max({0, extra + 1})
      some == luaK_setreturns(fs, e, open)
      closed == IF e.k = "VVOID" THEN fs ELSE luaK_exp2nextreg(fs, e).fs
  IN IF hasmultret(e)
     THEN IF open > 1 THEN luaK_reserveregs(some, open - 1) ELSE some
     ELSE IF extra > 0
     THEN luaK_nil(luaK_reserveregs(closed, extra), closed.freereg, extra)
     ELSE closed

-----------------------------------------------------------------------------
(* Blocks and functions. *)

enterblock(fs, isbreakable) ==
  lua_assert([fs EXCEPT !.bl = Append(@, [breaklist |-> NO_JUMP, upval |-> FALSE,
                                          isbreakable |-> isbreakable,
                                          nactvar |-> fs.nactvar])],
             fs.freereg = fs.nactvar)

leaveblock(fs) ==
  LET bl == fs.bl[Len(fs.bl)]
      out == removevars([fs EXCEPT !.bl = SubSeq(@, 1, Len(@) - 1)], bl.nactvar)
      close == IF bl.upval THEN luaK_code(out, "CLOSE", bl.nactvar, 0, 0) ELSE out
      ok == lua_assert(close, ~(bl.isbreakable /\ bl.upval))
  IN luaK_patchtohere([ok EXCEPT !.freereg = ok.nactvar], bl.breaklist)

EmptyFunc ==
  [code |-> <<>>, k |-> <<>>, p |-> <<>>, upvalues |-> <<>>, actvar |-> <<>>,
   bl |-> <<>>, freereg |-> 0, nactvar |-> 0, jpc |-> NO_JUMP, lasttarget |-> -1,
   maxstack |-> 2, numparams |-> 0, vararg |-> {}, ok |-> TRUE]

open_func(P) == [P EXCEPT !.fs = Append(@, EmptyFunc)]

(* The checks of luaG_checkcode on a finished prototype: every register,   *)
(* constant, upvalue, prototype and jump target an instruction names       *)
(* exists, a test is followed by a jump, and an open call by its user.     *)
OpArgs == [op \in {"MOVE", "LOADNIL", "UNM", "NOT", "LEN"} |-> <<"R", "N">>]
       @@ [op \in {"GETTABLE", "SELF"} |-> <<"R", "K">>]
       @@ [op \in {"SETTABLE", "ADD", "SUB", "MUL", "MOD", "POW", "EQ", "LT", "LE"}
             |-> <<"K", "K">>]
       @@ [op \in {"GETUPVAL", "RETURN", "VARARG"} |-> <<"U", "N">>]
       @@ [op \in {"LOADBOOL", "NEWTABLE", "CALL", "TAILCALL", "SETLIST"}
             |-> <<"U", "U">>]
       @@ [op \in {"TEST", "TESTSET"} |-> <<"R", "U">>]
       @@ ("CONCAT" :> <<"R", "R">>) @@ ("TFORLOOP" :> <<"N", "U">>)
       @@ ("CLOSE" :> <<"N", "N">>) @@ ("SETUPVAL" :> <<"U", "N">>)

luaG_checkopenop(i) ==
  i.op \in {"CALL", "TAILCALL", "RETURN", "SETLIST"} /\ i.b = 0

checkArgMode(pt, r, mode) ==
  CASE mode = "N" -> r = 0
    [] mode = "U" -> TRUE
    [] mode = "R" -> r < pt.maxstack
    [] mode = "K" -> IF ISK(r) THEN r - BITRK < Len(pt.k) ELSE r < pt.maxstack

(* Positions that hold the count of an OP_SETLIST, not an instruction. *)
Counts(pt) == {i \in 1..Len(pt.code) : pt.code[i].op = "COUNT"}

(* The check of the instruction at i, a position counted from one. *)
symbexec(pt, i) ==
  LET ins == pt.code[i]
      size == Len(pt.code)
      reg(r) == r < pt.maxstack
      open == luaG_checkopenop(pt.code[i + 1])
      dest == i + ins.b
  IN /\ reg(ins.a)
     /\ ins.op \in DOMAIN OpArgs =>
          /\ checkArgMode(pt, ins.b, OpArgs[ins.op][1])
          /\ checkArgMode(pt, ins.c, OpArgs[ins.op][2])
     /\ ins.op \in {"LOADK", "GETGLOBAL", "SETGLOBAL"} => ins.b < Len(pt.k)
     /\ ins.op \in {"JMP", "FORLOOP", "FORPREP"} =>
          0 <= dest /\ dest < size /\ dest + 1 \notin Counts(pt)
     /\ ins.op \in TestMode => i + 1 < size /\ pt.code[i + 1].op = "JMP"
     /\ CASE ins.op = "LOADBOOL" ->
               ins.c = 1 => /\ i + 1 < size
                            /\ ~(pt.code[i + 1].op = "SETLIST" /\ pt.code[i + 1].c = 0)
          [] ins.op \in {"GETUPVAL", "SETUPVAL"} -> ins.b < pt.nups
          [] ins.op \in {"GETGLOBAL", "SETGLOBAL"} -> pt.k[ins.b + 1][1] = "str"
          [] ins.op = "SELF" -> reg(ins.a + 1)
          [] ins.op = "CONCAT" -> ins.b < ins.c
          [] ins.op = "TFORLOOP" -> ins.c >= 1 /\ reg(ins.a + 2 + ins.c)
          [] ins.op \in {"FORLOOP", "FORPREP"} -> reg(ins.a + 3)
          [] ins.op \in {"CALL", "TAILCALL"} ->
               /\ ins.b # 0 => reg(ins.a + ins.b - 1)
               /\ ins.c = 0 => open
               /\ ins.c > 1 => reg(ins.a + ins.c - 2)
          [] ins.op = "RETURN" -> ins.b > 1 => reg(ins.a + ins.b - 2)
          [] ins.op = "SETLIST" ->
               /\ ins.b > 0 => reg(ins.a + ins.b)
               /\ ins.c = 0 => i + 1 < size
          [] ins.op = "CLOSURE" ->
               /\ ins.b < Len(pt.p)
               /\ i + pt.p[ins.b + 1].nups <= size
               /\ \A j \in 1..pt.p[ins.b + 1].nups :
                    pt.code[i + j].op \in {"GETUPVAL", "MOVE"}
          [] ins.op = "VARARG" ->
               /\ "IS" \in pt.vararg /\ "NEEDS" \notin pt.vararg
               /\ ins.b = 0 => open
               /\ reg(ins.a + ins.b - 2)
          [] OTHER -> TRUE

luaG_checkcode(pt) ==
  /\ pt.numparams + (IF "HAS" \in pt.vararg THEN 1 ELSE 0) <= pt.maxstack
  /\ "NEEDS" \in pt.vararg => "HAS" \in pt.vararg
  /\ Len(pt.upvalues) <= pt.nups
  /\ Len(pt.code) > 0 /\ pt.code[Len(pt.code)].op = "RETURN"
  /\ \A i \in 1..Len(pt.code) : i \notin Counts(pt) => symbexec(pt, i)

(* The finished function, taken off the list of open ones. *)
close_func(P) ==
  LET fs == luaK_ret(removevars(Cur(P), 0), 0, 0)
      pt == [code |-> fs.code, k |-> fs.k, p |-> fs.p, nups |-> Len(fs.upvalues),
             numparams |-> fs.numparams, vararg |-> fs.vararg,
             maxstack |-> fs.maxstack, source |-> "@chunk",
             upvalues |-> [i \in DOMAIN fs.upvalues |-> fs.upvalues[i].name]]
  IN [p |-> [P EXCEPT !.fs = SubSeq(@, 1, Len(@) - 1)], proto |-> pt,
      upvalues |-> fs.upvalues,
      ok |-> fs.ok /\ fs.bl = <<>> /\ luaG_checkcode(pt)]

RECURSIVE CodeUpvalues(_, _)
CodeUpvalues(fs, ups) ==
  IF ups = <<>> THEN fs
  ELSE CodeUpvalues(luaK_code(fs, IF ups[1].k = "VLOCAL" THEN "MOVE" ELSE "GETUPVAL",
                              0, ups[1].info, 0), Tail(ups))

pushclosure(func) ==
  LET fs == [Cur(func.p) EXCEPT !.p = Append(@, func.proto), !.ok = @ /\ func.ok]
      c == luaK_code(fs, "CLOSURE", 0, Len(fs.p) - 1, 0)
  IN [p |-> Upd(func.p, CodeUpvalues(c, func.upvalues)),
      e |-> init_exp("VRELOCABLE", LastPc(c))]

-----------------------------------------------------------------------------
(* Expressions. *)

RECURSIVE subexpr(_, _), chunk(_)

expr(P) == subexpr(P, 0)

ExprOn(Op(_, _), q) == PE(q.p, Op(Cur(q.p), q.e))

codestring(P) ==
  LET k == luaK_stringK(Cur(P), P.ts[1][2])
  IN PE(luaX_next(P), FE(k.fs, init_exp("VK", k.r)))

checkname(P) == codestring(P)

field(q) ==
  LET any == ExprOn(luaK_exp2anyreg, q)
      key == checkname(luaX_next(any.p))
  IN PE(key.p, luaK_indexed(Cur(key.p), any.e, key.e))

yindex(P) ==
  LET q == ExprOn(luaK_exp2val, expr(luaX_next(P)))
  IN [q EXCEPT !.p = checknext(q.p, "]")]

(* A constructor's control record cc: the table's register t, the last     *)
(* list item v, the numbers of record and list items, the pending ones.    *)
recfield(P, cc) ==
  LET key == IF Kind(P) = "NAME" THEN checkname(P) ELSE yindex(P)
      eq == checknext(key.p, "=")
      rk == luaK_exp2RK(Cur(eq), key.e)
      val == expr(Upd(eq, rk.fs))
      rv == luaK_exp2RK(Cur(val.p), val.e)
      set == luaK_code(rv.fs, "SETTABLE", cc.t, rk.r, rv.r)
  IN [p |-> Upd(val.p, [set EXCEPT !.freereg = Cur(P).freereg]),
      cc |-> [cc EXCEPT !.nh = @ + 1]]

closelistfield(fs, cc) ==
  LET next == luaK_exp2nextreg(fs, cc.v).fs
      void == [cc EXCEPT !.v.k = "VVOID"]
  IN IF cc.v.k = "VVOID" THEN [fs |-> fs, cc |-> cc]
     ELSE IF cc.tostore = LFIELDS_PER_FLUSH
     THEN [fs |-> luaK_setlist(next, cc.t, cc.na, cc.tostore),
           cc |-> [void EXCEPT !.tostore = 0]]
     ELSE [fs |-> next, cc |-> void]

lastlistfield(fs, cc) ==
  LET next == IF cc.v.k = "VVOID" THEN fs ELSE luaK_exp2nextreg(fs, cc.v).fs
  IN IF cc.tostore = 0 THEN [fs |-> fs, cc |-> cc]
     ELSE IF hasmultret(cc.v)
     THEN [fs |-> luaK_setlist(luaK_setmultret(fs, cc.v), cc.t, cc.na, LUA_MULTRET),
           cc |-> [cc EXCEPT !.na = @ - 1]]
     ELSE [fs |-> luaK_setlist(next, cc.t, cc.na, cc.tostore), cc |-> cc]

listfield(P, cc) ==
  LET q == expr(P)
  IN [p |-> q.p, cc |-> [cc EXCEPT !.v = q.e, !.na = @ + 1, !.tostore = @ + 1]]

RECURSIVE Fields(_, _)
Fields(P, cc) ==
  IF Kind(P) = "}" THEN [p |-> P, cc |-> cc]
  ELSE LET cl == closelistfield(lua_assert(Cur(P), cc.v.k = "VVOID" \/ cc.tostore > 0),
                                cc)
           p == Upd(P, cl.fs)
           isrec == Kind(P) = "[" \/ (Kind(P) = "NAME" /\ P.ts[2][1] = "=")
           r == IF isrec THEN recfield(p, cl.cc) ELSE listfield(p, cl.cc)
       IN IF Kind(r.p) = "," THEN Fields(luaX_next(r.p), r.cc) ELSE r

(* The "floating point byte" of a size, rounded up (luaO_int2fb). *)
int2fb(x) ==
  LET ceil(e) == (x + 2^e - 1) \div 2^e
      e == Min({e \in 0..20 : ceil(e) < 16})
  IN IF x < 8 THEN x ELSE (e + 1) * 8 + ceil(e) - 8

constructor(P) ==
  LET new == luaK_code(Cur(P), "NEWTABLE", 0, 0, 0)
      t == luaK_exp2nextreg(new, init_exp("VRELOCABLE", LastPc(new)))
      r == Fields(checknext(Upd(P, t.fs), "{"),
                  [t |-> t.e.info, v |-> init_exp("VVOID", 0),
                   na |-> 0, nh |-> 0, tostore |-> 0])
      last == lastlistfield(Cur(r.p), r.cc)
  IN [p |-> Upd(checknext(r.p, "}"),
                [last.fs EXCEPT !.code[Pc(new)].b = int2fb(last.cc.na),
                                !.code[Pc(new)].c = int2fb(last.cc.nh)]),
      e |-> t.e]

RECURSIVE Params(_, _)
Params(P, n) ==
  LET fs == Cur(P)
      dots == [new_localvar(fs, "arg", n) EXCEPT !.vararg = {"HAS", "NEEDS", "IS"}]
      named == Upd(luaX_next(P), new_localvar(fs, P.ts[1][2], n))
  IN CASE Kind(P) = "..." -> [p |-> Upd(luaX_next(P), dots), n |-> n + 1]
       [] Kind(P) = "NAME" -> IF Kind(named) = "," THEN Params(luaX_next(named), n + 1)
                              ELSE [p |-> named, n |-> n + 1]
       [] OTHER -> [p |-> P, n |-> n]

parlist(P) ==
  LET r == Params(P, 0)
      fs == adjustlocalvars(Cur(r.p), r.n)
      hasarg == IF "HAS" \in fs.vararg THEN 1 ELSE 0
  IN Upd(r.p, luaK_reserveregs([fs EXCEPT !.numparams = fs.nactvar - hasarg],
                               fs.nactvar))

body(P, needself) ==
  LET new == checknext(open_func(P), "(")
      self == IF needself
              THEN Upd(new, adjustlocalvars(new_localvar(Cur(new), "self", 0), 1))
              ELSE new
      b == chunk(checknext(parlist(self), ")"))
  IN pushclosure(close_func(checknext(b, "end")))

RECURSIVE MoreExps(_, _)
MoreExps(q, n) ==
  IF Kind(q.p) # "," THEN [p |-> q.p, e |-> q.e, n |-> n]
  ELSE MoreExps(expr(luaX_next(ExprOn(luaK_exp2nextreg, q).p)), n + 1)

explist1(P) == MoreExps(expr(P), 1)

funcargs(q) ==
  LET P == q.p
      list == explist1(luaX_next(P))
      args == CASE Kind(P) = "(" /\ P.ts[2][1] = ")" ->
                     [p |-> luaX_next(P), e |-> init_exp("VVOID", 0)]
                [] Kind(P) = "(" ->
                     [p |-> Upd(list.p, luaK_setmultret(Cur(list.p), list.e)),
                      e |-> list.e]
                [] Kind(P) = "{" -> constructor(P)
                [] Kind(P) = "STRING" -> codestring(P)
      after == IF Kind(P) = "(" THEN checknext(args.p, ")") ELSE args.p
      base == q.e.info
      fs == lua_assert(Cur(after), q.e.k = "VNONRELOC")
      closed == IF args.e.k = "VVOID" \/ hasmultret(args.e) THEN fs
                ELSE luaK_exp2nextreg(fs, args.e).fs
      nparams == IF hasmultret(args.e) THEN LUA_MULTRET
                 ELSE closed.freereg - (base + 1)
      call == luaK_code(closed, "CALL", base, nparams + 1, 2)
  IN [p |-> Upd(after, [call EXCEPT !.freereg = base + 1]),
      e |-> init_exp("VCALL", LastPc(call))]

prefixexp(P) ==
  LET q == expr(luaX_next(P))
  IN CASE Kind(P) = "(" ->
            ExprOn(luaK_dischargevars, [q EXCEPT !.p = checknext(q.p, ")")])
       [] Kind(P) = "NAME" -> singlevar(P)
       [] OTHER -> [p |-> Fail(luaX_next(P), "unexpected symbol"),
                    e |-> init_exp("VNIL", 0)]

RECURSIVE Trailers(_)
Trailers(q) ==
  LET any == ExprOn(luaK_exp2anyreg, q)
      key == yindex(any.p)
      name == checkname(luaX_next(q.p))
      self == PE(name.p, luaK_self(Cur(name.p), q.e, name.e))
  IN CASE Kind(q.p) = "." -> Trailers(field(q))
       [] Kind(q.p) = "[" ->
            Trailers(PE(key.p, luaK_indexed(Cur(key.p), any.e, key.e)))
       [] Kind(q.p) = ":" -> Trailers(funcargs(self))
       [] Kind(q.p) \in {"(", "STRING", "{"} ->
            Trailers(funcargs(ExprOn(luaK_exp2nextreg, q)))
       [] OTHER -> q

primaryexp(P) == Trailers(prefixexp(P))

simpleexp(P) ==
  LET fs == Cur(P)
      plain(e) == [p |-> luaX_next(P), e |-> e]
      va == luaK_code([fs EXCEPT !.vararg = @ \ {"NEEDS"}], "VARARG", 0, 1, 0)
  IN CASE Kind(P) = "NUMBER" ->
            plain([init_exp("VKNUM", 0) EXCEPT !.nval = P.ts[1][2]])
       [] Kind(P) = "STRING" -> codestring(P)
       [] Kind(P) = "nil" -> plain(init_exp("VNIL", 0))
       [] Kind(P) = "true" -> plain(init_exp("VTRUE", 0))
       [] Kind(P) = "false" -> plain(init_exp("VFALSE", 0))
       [] Kind(P) = "..." ->
            [p |-> LET Q == luaX_next(Upd(P, va))
                   IN IF fs.vararg = {} THEN Fail(Q, "no varargs") ELSE Q,
             e |-> init_exp("VVARARG", LastPc(va))]
       [] Kind(P) = "{" -> constructor(P)
       [] Kind(P) = "function" -> body(luaX_next(P), FALSE)
       [] OTHER -> primaryexp(P)

priority ==
  [o \in {"+", "-"} |-> <<6, 6>>] @@ [o \in {"*", "%"} |-> <<7, 7>>]
  @@ ("^" :> <<10, 9>>) @@ (".." :> <<5, 4>>)
  @@ [o \in {"==", "~=", "<", "<=", ">", ">="} |-> <<3, 3>>]
  @@ ("and" :> <<2, 2>>) @@ ("or" :> <<1, 1>>)
UNARY_PRIORITY == 8

RECURSIVE Binary(_, _)
Binary(q, limit) ==
  LET op == Kind(q.p)
  IN IF op \notin DOMAIN priority THEN q
     ELSE IF priority[op][1] <= limit THEN q
     ELSE LET v == PE(luaX_next(q.p), luaK_infix(Cur(q.p), op, q.e))
              v2 == subexpr(v.p, priority[op][2])
          IN Binary(PE(v2.p, luaK_posfix(Cur(v2.p), op, v.e, v2.e)), limit)

subexpr(P, limit) ==
  LET operand == subexpr(luaX_next(P), UNARY_PRIORITY)
      unary == PE(operand.p, luaK_prefix(Cur(operand.p), Kind(P), operand.e))
  IN Binary(IF Kind(P) \in {"not", "-", "#"} THEN unary ELSE simpleexp(P), limit)

-----------------------------------------------------------------------------
(* Statements. *)

block_follow(t) == t \in {"else", "elseif", "end", "until", "EOS"}

block(P) ==
  LET c == chunk(Upd(P, enterblock(Cur(P), FALSE)))
      bl == Cur(c).bl[Len(Cur(c).bl)]
  IN Upd(c, leaveblock(lua_assert(Cur(c), bl.breaklist = NO_JUMP)))

(* Assigned tables and keys that live in the register of a local that is   *)
(* assigned in the same statement are redirected to a copy of it.          *)
check_conflict(fs, lhs, v) ==
  LET extra == fs.freereg
      hit(i) == lhs[i].k = "VINDEXED" /\ v.info \in {lhs[i].info, lhs[i].aux}
      safe(x) == IF x = v.info THEN extra ELSE x
  IN IF \E i \in DOMAIN lhs : hit(i)
     THEN [fs |-> luaK_reserveregs(luaK_code(fs, "MOVE", extra, v.info, 0), 1),
           lhs |-> [i \in DOMAIN lhs |->
                      IF hit(i) THEN [lhs[i] EXCEPT !.info = safe(@), !.aux = safe(@)]
                      ELSE lhs[i]]]
     ELSE [fs |-> fs, lhs |-> lhs]

(* The variables before the last one are assigned from the registers that  *)
(* hold the values, the last variable first.                               *)
RECURSIVE StoreRest(_, _)
StoreRest(fs, lhs) ==
  IF lhs = <<>> THEN fs
  ELSE StoreRest(luaK_storevar(fs, lhs[Len(lhs)],
                               init_exp("VNONRELOC", fs.freereg - 1)),
                 SubSeq(lhs, 1, Len(lhs) - 1))

RECURSIVE assignment(_, _)
assignment(P0, lhs) ==
  LET P == IF lhs[Len(lhs)].k \in {"VLOCAL", "VUPVAL", "VGLOBAL", "VINDEXED"} THEN P0
           ELSE Fail(P0, "syntax error")
      nv == primaryexp(luaX_next(P))
      c == IF nv.e.k = "VLOCAL" THEN check_conflict(Cur(nv.p), lhs, nv.e)
           ELSE [fs |-> Cur(nv.p), lhs |-> lhs]
      q == explist1(checknext(P, "="))
      n == Len(lhs)
      adj == adjust_assign(Cur(q.p), n, q.n, q.e)
      cut == IF q.n > n THEN [adj EXCEPT !.freereg = @ - (q.n - n)] ELSE adj
      one == luaK_setoneret(Cur(q.p), q.e)
      last == luaK_storevar(one.fs, lhs[n], one.e)
  IN IF P.err # "" THEN P
     ELSE IF Kind(P) = "," THEN assignment(Upd(nv.p, c.fs), Append(c.lhs, nv.e))
     ELSE Upd(q.p, IF q.n = n THEN StoreRest(last, SubSeq(lhs, 1, n - 1))
                   ELSE StoreRest(cut, lhs))

cond(P) ==
  LET q == expr(P)
      r == luaK_goiftrue(Cur(q.p), IF q.e.k = "VNIL" THEN [q.e EXCEPT !.k = "VFALSE"]
                                   ELSE q.e)
  IN [p |-> Upd(q.p, r.fs), exit |-> r.e.f]

breakstat(P) ==
  LET fs == Cur(P)
      loops == {i \in DOMAIN fs.bl : fs.bl[i].isbreakable}
      b == Max(loops)
      upval == \E i \in b+1..Len(fs.bl) : fs.bl[i].upval
      close == IF upval THEN luaK_code(fs, "CLOSE", fs.bl[b].nactvar, 0, 0) ELSE fs
      j == luaK_jump(close)
      c == luaK_concat(j.fs, fs.bl[b].breaklist, j.r)
  IN IF loops = {} THEN Fail(P, "no loop to break")
     ELSE Upd(P, [c.fs EXCEPT !.bl[b].breaklist = c.r])

JumpBack(fs, target) == LET j == luaK_jump(fs) IN luaK_patchlist(j.fs, j.r, target)

whilestat(P0) ==
  LET P == Upd(luaX_next(P0), luaK_getlabel(Cur(P0)))
      c == cond(P)
      b == block(checknext(Upd(c.p, enterblock(Cur(c.p), TRUE)), "do"))
      back == checknext(Upd(b, JumpBack(Cur(b), Pc(Cur(P)))), "end")
  IN Upd(back, luaK_patchtohere(leaveblock(Cur(back)), c.exit))

repeatstat(P0) ==
  LET P == Upd(luaX_next(P0), luaK_getlabel(Cur(P0)))
      start == Pc(Cur(P))
      b == chunk(Upd(P, enterblock(enterblock(Cur(P), TRUE), FALSE)))
      c == cond(checknext(b, "until"))
      fs == Cur(c.p)
      brk == Cur(breakstat(c.p))
      closed == IF ~fs.bl[Len(fs.bl)].upval
                THEN luaK_patchlist(leaveblock(fs), c.exit, start)
                ELSE JumpBack(leaveblock(luaK_patchtohere(brk, c.exit)), start)
  IN Upd(c.p, leaveblock(closed))

exp1(P) == ExprOn(luaK_exp2nextreg, expr(P)).p

forbody(P0, base, nvars, isnum) ==
  LET P == checknext(P0, "do")
      ctl == adjustlocalvars(Cur(P), 3)
      prep == IF isnum THEN LET f == luaK_code(ctl, "FORPREP", base, NO_JUMP, 0)
                            IN FR(f, LastPc(f))
              ELSE luaK_jump(ctl)
      scope == luaK_reserveregs(adjustlocalvars(enterblock(prep.fs, FALSE), nvars),
                                nvars)
      b == block(Upd(P, scope))
      here == luaK_patchtohere(leaveblock(Cur(b)), prep.r)
      loop == luaK_code(here, "FORLOOP", base, NO_JUMP, 0)
      tloop == luaK_code(here, "TFORLOOP", base, 0, nvars)
  IN Upd(b, IF isnum THEN luaK_patchlist(loop, LastPc(loop), prep.r + 1)
            ELSE JumpBack(tloop, prep.r + 1))

ControlVars(fs) ==
  new_localvar(new_localvar(new_localvar(fs, "(for a)", 0), "(for b)", 1), "(for c)", 2)

fornum(P, name) ==
  LET fs == new_localvar(ControlVars(Cur(P)), name, 3)
      lim == exp1(checknext(exp1(checknext(Upd(P, fs), "=")), ","))
      k == luaK_numberK(Cur(lim), 1)
      one == luaK_reserveregs(luaK_code(k.fs, "LOADK", k.fs.freereg, k.r, 0), 1)
      step == IF Kind(lim) = "," THEN exp1(luaX_next(lim)) ELSE Upd(lim, one)
  IN forbody(step, Cur(P).freereg, 1, TRUE)

RECURSIVE ForNames(_, _)
ForNames(P, n) ==
  IF Kind(P) # "," THEN [p |-> P, n |-> n]
  ELSE ForNames([Upd(P, new_localvar(Cur(P), P.ts[2][2], n)) EXCEPT
                   !.ts = SubSeq(@, 3, Len(@))], n + 1)

forlist(P, name) ==
  LET r == ForNames(Upd(P, new_localvar(ControlVars(Cur(P)), name, 3)), 4)
      q == explist1(checknext(r.p, "in"))
      adj == luaK_checkstack(adjust_assign(Cur(q.p), 3, q.n, q.e), 3)
  IN forbody(Upd(q.p, adj), Cur(P).freereg, r.n - 3, FALSE)

forstat(P) ==
  LET name == P.ts[2][2]
      q == luaX_next(luaX_next(Upd(P, enterblock(Cur(P), TRUE))))
      f == IF Kind(q) = "=" THEN fornum(q, name) ELSE forlist(q, name)
      e == checknext(f, "end")
  IN Upd(e, leaveblock(Cur(e)))

test_then_block(P) ==
  LET c == cond(luaX_next(P))
  IN [p |-> block(checknext(c.p, "then")), exit |-> c.exit]

RECURSIVE IfTail(_, _)
IfTail(b, escape) ==
  LET P == b.p
      j == luaK_jump(Cur(P))
      esc == luaK_concat(j.fs, escape, j.r)
      past == Upd(P, luaK_patchtohere(esc.fs, b.exit))
      no == luaK_concat(Cur(P), escape, b.exit)
      els == block(luaX_next(past))
  IN CASE Kind(P) = "elseif" -> IfTail(test_then_block(past), esc.r)
       [] Kind(P) = "else" -> Upd(els, luaK_patchtohere(Cur(els), esc.r))
       [] OTHER -> Upd(P, luaK_patchtohere(no.fs, no.r))

ifstat(P) == checknext(IfTail(test_then_block(P), NO_JUMP), "end")

localfunc(P) ==
  LET fs == new_localvar(Cur(P), P.ts[1][2], 0)
      r == adjustlocalvars(luaK_reserveregs(fs, 1), 1)
      b == body(Upd(luaX_next(P), r), FALSE)
  IN Upd(b.p, luaK_storevar(Cur(b.p), init_exp("VLOCAL", fs.freereg), b.e))

RECURSIVE LocalNames(_, _)
LocalNames(P, n) ==
  LET q == luaX_next(Upd(P, new_localvar(Cur(P), P.ts[1][2], n)))
  IN IF Kind(q) = "," THEN LocalNames(luaX_next(q), n + 1)
     ELSE [p |-> q, n |-> n + 1]

localstat(P) ==
  LET r == LocalNames(P, 0)
      q == IF Kind(r.p) = "=" THEN explist1(luaX_next(r.p))
           ELSE [p |-> r.p, e |-> init_exp("VVOID", 0), n |-> 0]
  IN Upd(q.p, adjustlocalvars(adjust_assign(Cur(q.p), r.n, q.n, q.e), r.n))

RECURSIVE funcname(_)
funcname(q) == IF Kind(q.p) \in {".", ":"} THEN funcname(field(q)) ELSE q

funcstat(P) ==
  LET v == funcname(singlevar(luaX_next(P)))
      used == Len(P.ts) - Len(v.p.ts)
      b == body(v.p, \E i \in 1..used : P.ts[i][1] = ":")
  IN Upd(b.p, luaK_storevar(Cur(b.p), v.e, b.e))

exprstat(P) ==
  LET v == primaryexp(P)
  IN IF v.e.k = "VCALL"
     THEN Upd(v.p, [Cur(v.p) EXCEPT !.code[v.e.info + 1].c = 1])
     ELSE assignment(v.p, <<v.e>>)

retstat(P0) ==
  LET P == luaX_next(P0)
      q == explist1(P)
      fs == Cur(q.p)
      open == luaK_setmultret(fs, q.e)
      tail == lua_assert([open EXCEPT !.code[q.e.info + 1].op = "TAILCALL"],
                         open.code[q.e.info + 1].a = fs.nactvar)
      one == luaK_exp2anyreg(fs, q.e)
      all == luaK_exp2nextreg(fs, q.e).fs
  IN IF block_follow(Kind(P)) \/ Kind(P) = ";" THEN Upd(P, luaK_ret(Cur(P), 0, 0))
     ELSE Upd(q.p,
            IF hasmultret(q.e)
            THEN luaK_ret(IF q.e.k = "VCALL" /\ q.n = 1 THEN tail ELSE open,
                          fs.nactvar, LUA_MULTRET)
            ELSE IF q.n = 1 THEN luaK_ret(one.fs, one.e.info, 1)
            ELSE luaK_ret(lua_assert(all, q.n = all.freereg - all.nactvar),
                          all.nactvar, q.n))

statement(P) ==
  CASE Kind(P) = "if" -> ifstat(P)
    [] Kind(P) = "while" -> whilestat(P)
    [] Kind(P) = "do" -> checknext(block(luaX_next(P)), "end")
    [] Kind(P) = "for" -> forstat(P)
    [] Kind(P) = "repeat" -> repeatstat(P)
    [] Kind(P) = "function" -> funcstat(P)
    [] Kind(P) = "local" -> IF P.ts[2][1] = "function"
                            THEN localfunc(luaX_next(luaX_next(P)))
                            ELSE localstat(luaX_next(P))
    [] Kind(P) = "return" -> retstat(P)
    [] Kind(P) = "break" -> breakstat(luaX_next(P))
    [] OTHER -> exprstat(P)

chunk(P) ==
  IF block_follow(Kind(P)) \/ P.err # "" THEN P
  ELSE LET s == testnext(statement(P), ";")
           fs == lua_assert(Cur(s), /\ Cur(s).maxstack >= Cur(s).freereg
                                    /\ Cur(s).freereg >= Cur(s).nactvar)
           next == Upd(s, [fs EXCEPT !.freereg = fs.nactvar])
       IN IF Kind(P) \in {"return", "break"} THEN next ELSE chunk(next)

luaY_parser(tokens) ==
  LET P == chunk([fs |-> <<[EmptyFunc EXCEPT !.vararg = {"IS"}]>>,
                  ts |-> tokens, err |-> ""])
      c == close_func(P)
  IN IF P.err # "" THEN [err |-> P.err, ok |-> TRUE]
     ELSE IF Kind(P) # "EOS" THEN [err |-> "<eof> expected", ok |-> TRUE]
     ELSE [err |-> "", ok |-> c.ok /\ c.upvalues = <<>>, proto |-> c.proto]
=============================================================================
