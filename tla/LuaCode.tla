------------------------------ MODULE LuaCode ------------------------------
(***************************************************************************)
(* The code generator of the Lua interpreter that Felt ships               *)
(* (src/src/lua/src/lcode.c, with the instruction set of lopcodes.h): a    *)
(* function state fs collects the instructions of one function, and an     *)
(* expression descriptor e says where the value of an expression is, or    *)
(* which pending jumps decide it.  A C function that changes fs and e is   *)
(* an operator that returns the record of both; one that returns an int    *)
(* returns the record of fs and that int.  fs.ok is FALSE once a           *)
(* lua_assert of the code has failed.                                      *)
(***************************************************************************)
EXTENDS LuaValues, FiniteSetsExt

CONSTANTS MAXINDEXRK,         \* largest constant index an RK operand can hold
          LFIELDS_PER_FLUSH,  \* list items collected before an OP_SETLIST
          MAXARG_C            \* largest value of the operand C

ASSUME LimitsAssumption == /\ MAXINDEXRK \in Nat
                           /\ LFIELDS_PER_FLUSH \in Nat \ {0}
                           /\ MAXARG_C \in Nat \ {0}

NO_JUMP == -1
NO_REG == 255
BITRK == 256
LUA_MULTRET == -1
ISK(x) == x >= BITRK
RKASK(x) == x + BITRK

-----------------------------------------------------------------------------
(* Instructions.  b holds Bx or sBx in the formats that have them. *)

Instr(op, a, b, c) == [op |-> op, a |-> a, b |-> b, c |-> c]

TestMode == {"EQ", "LT", "LE", "TEST", "TESTSET", "TFORLOOP"}

Pc(fs) == Len(fs.code)
GetCode(fs, e) == fs.code[e.info + 1]

init_exp(k, i) == [k |-> k, info |-> i, aux |-> 0, nval |-> 0,
                   t |-> NO_JUMP, f |-> NO_JUMP]

FE(fs, e) == [fs |-> fs, e |-> e]
FR(fs, r) == [fs |-> fs, r |-> r]
lua_assert(fs, cond) == [fs EXCEPT !.ok = @ /\ cond]

hasjumps(e) == e.t # e.f
isnumeral(e) == e.k = "VKNUM" /\ ~hasjumps(e)
hasmultret(e) == e.k \in {"VCALL", "VVARARG"}

-----------------------------------------------------------------------------
(* Jump lists: each pending OP_JMP holds the offset of the next one. *)

getjump(code, pc) ==
  LET off == code[pc + 1].b IN IF off = NO_JUMP THEN NO_JUMP ELSE pc + 1 + off

RECURSIVE Jumps(_, _)
Jumps(code, list) ==
  IF list = NO_JUMP THEN <<>> ELSE <<list>> \o Jumps(code, getjump(code, list))

JumpSet(code, list) ==
  LET js == Jumps(code, list) IN {js[i] : i \in DOMAIN js}

getjumpcontrol(code, pc) ==
  IF pc >= 1 /\ code[pc].op \in TestMode THEN pc - 1 ELSE pc

MakesValue(code, pc) == code[getjumpcontrol(code, pc) + 1].op = "TESTSET"

need_value(code, list) == \E j \in JumpSet(code, list) : ~MakesValue(code, j)

patchtestreg(i, reg) ==
  IF reg # NO_REG /\ reg # i.b THEN [i EXCEPT !.a = reg]
  ELSE Instr("TEST", i.b, 0, i.c)

PatchTests(code, js, reg) ==
  LET tests == {getjumpcontrol(code, j) : j \in {j \in js : MakesValue(code, j)}}
  IN [i \in DOMAIN code |->
        IF i - 1 \in tests THEN patchtestreg(code[i], reg) ELSE code[i]]

removevalues(fs, list) ==
  [fs EXCEPT !.code = PatchTests(@, JumpSet(@, list), NO_REG)]

patchlistaux(fs, list, vtarget, reg, dtarget) ==
  LET js == JumpSet(fs.code, list)
      dest(j) == IF MakesValue(fs.code, j) THEN vtarget ELSE dtarget
      code == PatchTests(fs.code, js, reg)
  IN lua_assert([fs EXCEPT !.code =
               [i \in DOMAIN code |->
                  IF i - 1 \in js THEN [code[i] EXCEPT !.b = dest(i - 1) - i]
                  ELSE code[i]]],
            \A j \in js : dest(j) # NO_JUMP)

luaK_getlabel(fs) == [fs EXCEPT !.lasttarget = Pc(fs)]

luaK_concat(fs, l1, l2) ==
  IF l2 = NO_JUMP THEN FR(fs, l1)
  ELSE IF l1 = NO_JUMP THEN FR(fs, l2)
  ELSE LET js == Jumps(fs.code, l1)
           last == js[Len(js)]
       IN FR([fs EXCEPT !.code[last + 1].b = l2 - (last + 1)], l1)

luaK_patchtohere(fs, list) ==
  LET c == luaK_concat(fs, fs.jpc, list)
  IN [c.fs EXCEPT !.jpc = c.r, !.lasttarget = Pc(fs)]

luaK_patchlist(fs, list, target) ==
  IF target = Pc(fs) THEN luaK_patchtohere(fs, list)
  ELSE lua_assert(patchlistaux(fs, list, target, NO_REG, target), target < Pc(fs))

-----------------------------------------------------------------------------
(* Emitting.  The address of the new instruction is LastPc(fs). *)

dischargejpc(fs) ==
  [patchlistaux(fs, fs.jpc, Pc(fs), NO_REG, Pc(fs)) EXCEPT !.jpc = NO_JUMP]

luaK_code(fs, op, a, b, c) ==
  LET d == dischargejpc(fs)
  IN [d EXCEPT !.code = Append(@, Instr(op, a, b, c))]

LastPc(fs) == Pc(fs) - 1

(* Mutant: a jump to here does not keep it from joining the last one. *)
NilAnyway(fs, from, n) ==
  LET prev == fs.code[Pc(fs)]
  IN IF Pc(fs) = 0 /\ from >= fs.nactvar THEN fs
     ELSE IF Pc(fs) > 0 /\ prev.op = "LOADNIL" /\ prev.a <= from /\ from <= prev.b + 1
     THEN [fs EXCEPT !.code[Pc(fs)].b = Max({@, from + n - 1})]
     ELSE luaK_code(fs, "LOADNIL", from, from + n - 1, 0)

(* LOADNIL joins the one before it, unless a jump ends here. *)
luaK_nil(fs, from, n) ==
  LET free == Pc(fs) > fs.lasttarget
      prev == fs.code[Pc(fs)]
  IN IF free /\ Pc(fs) = 0 /\ from >= fs.nactvar THEN fs
     ELSE IF /\ free /\ Pc(fs) > 0
             /\ prev.op = "LOADNIL" /\ prev.a <= from /\ from <= prev.b + 1
     THEN [fs EXCEPT !.code[Pc(fs)].b = Max({@, from + n - 1})]
     ELSE luaK_code(fs, "LOADNIL", from, from + n - 1, 0)

luaK_jump(fs) ==
  LET j == luaK_code([fs EXCEPT !.jpc = NO_JUMP], "JMP", 0, NO_JUMP, 0)
  IN luaK_concat(j, LastPc(j), fs.jpc)

luaK_ret(fs, first, nret) == luaK_code(fs, "RETURN", first, nret + 1, 0)

condjump(fs, op, a, b, c) == luaK_jump(luaK_code(fs, op, a, b, c))

-----------------------------------------------------------------------------
(* Registers and constants. *)

luaK_checkstack(fs, n) == [fs EXCEPT !.maxstack = Max({@, fs.freereg + n})]

luaK_reserveregs(fs, n) == [luaK_checkstack(fs, n) EXCEPT !.freereg = @ + n]

freereg(fs, reg) ==
  IF ISK(reg) \/ reg < fs.nactvar THEN fs
  ELSE lua_assert([fs EXCEPT !.freereg = @ - 1], reg = fs.freereg - 1)

freeexp(fs, e) == IF e.k = "VNONRELOC" THEN freereg(fs, e.info) ELSE fs

addk(fs, v) ==
  IF \E i \in DOMAIN fs.k : fs.k[i] = v
  THEN FR(fs, (CHOOSE i \in DOMAIN fs.k : fs.k[i] = v) - 1)
  ELSE FR([fs EXCEPT !.k = Append(@, v)], Len(fs.k))

luaK_stringK(fs, s) == addk(fs, <<"str", s>>)
luaK_numberK(fs, n) == addk(fs, <<"num", n>>)
boolK(fs, b) == addk(fs, <<"bool", b>>)
nilK(fs) == addk(fs, <<"nil">>)

luaK_setreturns(fs, e, nresults) ==
  CASE e.k = "VCALL" -> [fs EXCEPT !.code[e.info + 1].c = nresults + 1]
    [] e.k = "VVARARG" ->
         luaK_reserveregs([fs EXCEPT !.code[e.info + 1].b = nresults + 1,
                                     !.code[e.info + 1].a = fs.freereg], 1)
    [] OTHER -> fs

luaK_setmultret(fs, e) == luaK_setreturns(fs, e, LUA_MULTRET)

luaK_setoneret(fs, e) ==
  CASE e.k = "VCALL" ->
         FE(fs, [e EXCEPT !.k = "VNONRELOC", !.info = GetCode(fs, e).a])
    [] e.k = "VVARARG" ->
         FE([fs EXCEPT !.code[e.info + 1].b = 2], [e EXCEPT !.k = "VRELOCABLE"])
    [] OTHER -> FE(fs, e)

-----------------------------------------------------------------------------
(* Discharging an expression: to a value, to a register, to an operand. *)

Relocatable(fs, e, op, b, c) ==
  LET n == luaK_code(fs, op, 0, b, c)
  IN FE(n, [e EXCEPT !.k = "VRELOCABLE", !.info = LastPc(n)])

luaK_dischargevars(fs, e) ==
  CASE e.k = "VLOCAL" -> FE(fs, [e EXCEPT !.k = "VNONRELOC"])
    [] e.k = "VUPVAL" -> Relocatable(fs, e, "GETUPVAL", e.info, 0)
    [] e.k = "VGLOBAL" -> Relocatable(fs, e, "GETGLOBAL", e.info, 0)
    [] e.k = "VINDEXED" ->
         Relocatable(freereg(freereg(fs, e.aux), e.info), e,
                     "GETTABLE", e.info, e.aux)
    [] hasmultret(e) -> luaK_setoneret(fs, e)
    [] OTHER -> FE(fs, e)

code_label(fs, a, b, jump) == luaK_code(luaK_getlabel(fs), "LOADBOOL", a, b, jump)

discharge2reg(fs0, e0, reg) ==
  LET d == luaK_dischargevars(fs0, e0)
      fs == d.fs
      e == d.e
      num == luaK_numberK(fs, e.nval)
      placed(f) == FE(f, [e EXCEPT !.k = "VNONRELOC", !.info = reg])
  IN CASE e.k = "VNIL" -> placed(luaK_nil(fs, reg, 1))
       [] e.k = "VFALSE" -> placed(luaK_code(fs, "LOADBOOL", reg, 0, 0))
       [] e.k = "VTRUE" -> placed(luaK_code(fs, "LOADBOOL", reg, 1, 0))
       [] e.k = "VK" -> placed(luaK_code(fs, "LOADK", reg, e.info, 0))
       [] e.k = "VKNUM" -> placed(luaK_code(num.fs, "LOADK", reg, num.r, 0))
       [] e.k = "VRELOCABLE" -> placed([fs EXCEPT !.code[e.info + 1].a = reg])
       [] e.k = "VNONRELOC" ->
            placed(IF reg = e.info THEN fs
                   ELSE luaK_code(fs, "MOVE", reg, e.info, 0))
       [] OTHER -> FE(lua_assert(fs, e.k \in {"VVOID", "VJMP"}), e)

discharge2anyreg(fs, e) ==
  IF e.k = "VNONRELOC" THEN FE(fs, e)
  ELSE LET r == luaK_reserveregs(fs, 1) IN discharge2reg(r, e, r.freereg - 1)

(* The two LOADBOOLs that some pending jump of the expression needs. *)
LoadBools(fs, isjmp, reg) ==
  LET fj == IF isjmp THEN FR(fs, NO_JUMP) ELSE luaK_jump(fs)
      pf == code_label(fj.fs, reg, 0, 1)
      pt == code_label(pf, reg, 1, 0)
  IN [fs |-> luaK_patchtohere(pt, fj.r), f |-> LastPc(pf), t |-> LastPc(pt)]

exp2reg(fs0, e0, reg) ==
  LET d == discharge2reg(fs0, e0, reg)
      isjmp == d.e.k = "VJMP"
      c == IF isjmp THEN luaK_concat(d.fs, d.e.t, d.e.info) ELSE FR(d.fs, d.e.t)
      t == c.r
      f == d.e.f
      lb == IF need_value(c.fs.code, t) \/ need_value(c.fs.code, f)
            THEN LoadBools(c.fs, isjmp, reg)
            ELSE [fs |-> c.fs, f |-> NO_JUMP, t |-> NO_JUMP]
      final == luaK_getlabel(lb.fs)
      pf == patchlistaux(final, f, Pc(final), reg, lb.f)
      pt == patchlistaux(pf, t, Pc(final), reg, lb.t)
  IN FE(IF t # f THEN pt ELSE c.fs, init_exp("VNONRELOC", reg))

luaK_exp2nextreg(fs, e) ==
  LET d == luaK_dischargevars(fs, e)
      r == luaK_reserveregs(freeexp(d.fs, d.e), 1)
  IN exp2reg(r, d.e, r.freereg - 1)

luaK_exp2anyreg(fs, e) ==
  LET d == luaK_dischargevars(fs, e)
      inreg == d.e.k = "VNONRELOC"
  IN IF inreg /\ ~hasjumps(d.e) THEN d
     ELSE IF inreg /\ d.e.info >= d.fs.nactvar THEN exp2reg(d.fs, d.e, d.e.info)
     ELSE luaK_exp2nextreg(d.fs, d.e)

luaK_exp2val(fs, e) ==
  IF hasjumps(e) THEN luaK_exp2anyreg(fs, e) ELSE luaK_dischargevars(fs, e)

(* The operand is r: a register, or a constant that fits. *)
luaK_exp2RK(fs, e) ==
  LET v == luaK_exp2val(fs, e)
      k == CASE v.e.k = "VNIL" -> nilK(v.fs)
             [] v.e.k = "VKNUM" -> luaK_numberK(v.fs, v.e.nval)
             [] v.e.k \in {"VTRUE", "VFALSE"} -> boolK(v.fs, v.e.k = "VTRUE")
      asK == [fs |-> k.fs, r |-> RKASK(k.r),
              e |-> [v.e EXCEPT !.k = "VK", !.info = k.r]]
      r == luaK_exp2anyreg(v.fs, v.e)
  IN IF /\ v.e.k \in {"VNIL", "VKNUM", "VTRUE", "VFALSE"}
        /\ Len(v.fs.k) <= MAXINDEXRK
     THEN asK
     ELSE IF v.e.k = "VK" /\ v.e.info <= MAXINDEXRK
     THEN [fs |-> v.fs, e |-> v.e, r |-> RKASK(v.e.info)]
     ELSE [fs |-> r.fs, e |-> r.e, r |-> r.e.info]

luaK_storevar(fs, var, ex) ==
  LET any == luaK_exp2anyreg(fs, ex)
      rk == luaK_exp2RK(fs, ex)
  IN CASE var.k = "VLOCAL" -> exp2reg(freeexp(fs, ex), ex, var.info).fs
       [] var.k = "VUPVAL" ->
            freeexp(luaK_code(any.fs, "SETUPVAL", any.e.info, var.info, 0), any.e)
       [] var.k = "VGLOBAL" ->
            freeexp(luaK_code(any.fs, "SETGLOBAL", any.e.info, var.info, 0), any.e)
       [] var.k = "VINDEXED" ->
            freeexp(luaK_code(rk.fs, "SETTABLE", var.info, var.aux, rk.r), rk.e)
       [] OTHER -> freeexp(lua_assert(fs, FALSE), ex)

luaK_self(fs, e, key) ==
  LET any == luaK_exp2anyreg(fs, e)
      fr == freeexp(any.fs, any.e)
      func == fr.freereg
      rk == luaK_exp2RK(luaK_reserveregs(fr, 2), key)
      self == luaK_code(rk.fs, "SELF", func, any.e.info, rk.r)
  IN FE(freeexp(self, rk.e),
        [any.e EXCEPT !.k = "VNONRELOC", !.info = func])

luaK_indexed(fs, t, key) ==
  LET rk == luaK_exp2RK(fs, key)
  IN FE(rk.fs, [t EXCEPT !.k = "VINDEXED", !.aux = rk.r])

-----------------------------------------------------------------------------
(* Conditions. *)

invertjump(fs, e) ==
  LET at == getjumpcontrol(fs.code, e.info) + 1
  IN lua_assert([fs EXCEPT !.code[at].a = 1 - @],
            fs.code[at].op \in TestMode \ {"TESTSET", "TEST"})

jumponcond(fs, e, cond) ==
  LET not == GetCode(fs, e)
      d == discharge2anyreg(fs, e)
  IN IF e.k = "VRELOCABLE" /\ not.op = "NOT"
     THEN condjump([fs EXCEPT !.code = SubSeq(@, 1, Len(@) - 1)],
                   "TEST", not.b, 0, 1 - cond)
     ELSE condjump(freeexp(d.fs, d.e), "TESTSET", NO_REG, d.e.info, cond)

luaK_goiftrue(fs, e0) ==
  LET d == luaK_dischargevars(fs, e0)
      e == d.e
      j == CASE e.k \in {"VK", "VKNUM", "VTRUE"} -> FR(d.fs, NO_JUMP)
             [] e.k = "VFALSE" -> luaK_jump(d.fs)
             [] e.k = "VJMP" -> FR(invertjump(d.fs, e), e.info)
             [] OTHER -> jumponcond(d.fs, e, 0)
      c == luaK_concat(j.fs, e.f, j.r)
  IN FE(luaK_patchtohere(c.fs, e.t), [e EXCEPT !.f = c.r, !.t = NO_JUMP])

luaK_goiffalse(fs, e0) ==
  LET d == luaK_dischargevars(fs, e0)
      e == d.e
      j == CASE e.k \in {"VNIL", "VFALSE"} -> FR(d.fs, NO_JUMP)
             [] e.k = "VTRUE" -> luaK_jump(d.fs)
             [] e.k = "VJMP" -> FR(d.fs, e.info)
             [] OTHER -> jumponcond(d.fs, e, 1)
      c == luaK_concat(j.fs, e.t, j.r)
  IN FE(luaK_patchtohere(c.fs, e.f), [e EXCEPT !.t = c.r, !.f = NO_JUMP])

codenot(fs, e0) ==
  LET d == luaK_dischargevars(fs, e0)
      e == d.e
      any == discharge2anyreg(d.fs, e)
      r == CASE e.k \in {"VNIL", "VFALSE"} -> FE(d.fs, [e EXCEPT !.k = "VTRUE"])
             [] e.k \in {"VK", "VKNUM", "VTRUE"} ->
                  FE(d.fs, [e EXCEPT !.k = "VFALSE"])
             [] e.k = "VJMP" -> FE(invertjump(d.fs, e), e)
             [] e.k \in {"VRELOCABLE", "VNONRELOC"} ->
                  Relocatable(freeexp(any.fs, any.e), any.e, "NOT", any.e.info, 0)
             [] OTHER -> FE(lua_assert(d.fs, FALSE), e)
  IN FE(removevalues(removevalues(r.fs, r.e.t), r.e.f),
        [r.e EXCEPT !.f = r.e.t, !.t = r.e.f])

-----------------------------------------------------------------------------
(* Operators. *)

(* Folding is refused for a zero divisor and for the length. *)
constfolding(op, e1, e2) ==
  /\ isnumeral(e1) /\ isnumeral(e2)
  /\ op # "LEN"
  /\ ~(op = "MOD" /\ e2.nval = 0)
  /\ Numeric(op, e1.nval, e2.nval) # NaN

codearith(fs, op, e1, e2) ==
  LET unary == op \in {"UNM", "LEN"}
      r2 == IF unary THEN [fs |-> fs, e |-> e2, r |-> 0] ELSE luaK_exp2RK(fs, e2)
      r1 == luaK_exp2RK(r2.fs, e1)
      free == IF r1.r > r2.r THEN freeexp(freeexp(r1.fs, r1.e), r2.e)
              ELSE freeexp(freeexp(r1.fs, r2.e), r1.e)
  IN IF constfolding(op, e1, e2)
     THEN FE(fs, [e1 EXCEPT !.nval = Numeric(op, e1.nval, e2.nval)])
     ELSE Relocatable(free, r1.e, op, r1.r, r2.r)

codecomp(fs, op, cond, e1, e2) ==
  LET r1 == luaK_exp2RK(fs, e1)
      r2 == luaK_exp2RK(r1.fs, e2)
      free == freeexp(freeexp(r2.fs, r2.e), r1.e)
      j == IF cond = 0 /\ op # "EQ" THEN condjump(free, op, 1, r2.r, r1.r)
           ELSE condjump(free, op, cond, r1.r, r2.r)
  IN FE(j.fs, [r1.e EXCEPT !.k = "VJMP", !.info = j.r])

luaK_prefix(fs, op, e) ==
  LET zero == init_exp("VKNUM", 0)
      any == luaK_exp2anyreg(fs, e)
      num == IF isnumeral(e) THEN FE(fs, e) ELSE any
  IN CASE op = "-" -> codearith(num.fs, "UNM", num.e, zero)
       [] op = "not" -> codenot(fs, e)
       [] op = "#" -> codearith(any.fs, "LEN", any.e, zero)

ArithOp == [o \in {"+", "-", "*", "%", "^"} |->
              CASE o = "+" -> "ADD" [] o = "-" -> "SUB" [] o = "*" -> "MUL"
                [] o = "%" -> "MOD" [] o = "^" -> "POW"]

luaK_infix(fs, op, v) ==
  LET rk == luaK_exp2RK(fs, v)
  IN CASE op = "and" -> luaK_goiftrue(fs, v)
       [] op = "or" -> luaK_goiffalse(fs, v)
       [] op = ".." -> luaK_exp2nextreg(fs, v)
       [] op \in DOMAIN ArithOp /\ isnumeral(v) -> FE(fs, v)
       [] OTHER -> FE(rk.fs, rk.e)

Concatenate(fs, e1, e2) ==
  LET v == luaK_exp2val(fs, e2)
      next == luaK_exp2nextreg(v.fs, v.e)
  IN IF v.e.k = "VRELOCABLE" /\ GetCode(v.fs, v.e).op = "CONCAT"
     THEN FE([freeexp(lua_assert(v.fs, e1.info = GetCode(v.fs, v.e).b - 1), e1)
                EXCEPT !.code[v.e.info + 1].b = e1.info],
             [e1 EXCEPT !.k = "VRELOCABLE", !.info = v.e.info])
     ELSE codearith(next.fs, "CONCAT", e1, next.e)

luaK_posfix(fs, op, e1, e2) ==
  LET d == luaK_dischargevars(fs, e2)
      f == luaK_concat(d.fs, d.e.f, e1.f)
      t == luaK_concat(d.fs, d.e.t, e1.t)
  IN CASE op = "and" -> FE(lua_assert(f.fs, e1.t = NO_JUMP), [d.e EXCEPT !.f = f.r])
       [] op = "or" -> FE(lua_assert(t.fs, e1.f = NO_JUMP), [d.e EXCEPT !.t = t.r])
       [] op = ".." -> Concatenate(fs, e1, e2)
       [] op = "==" -> codecomp(fs, "EQ", 1, e1, e2)
       [] op = "~=" -> codecomp(fs, "EQ", 0, e1, e2)
       [] op = "<" -> codecomp(fs, "LT", 1, e1, e2)
       [] op = "<=" -> codecomp(fs, "LE", 1, e1, e2)
       [] op = ">" -> codecomp(fs, "LT", 0, e1, e2)
       [] op = ">=" -> codecomp(fs, "LE", 0, e1, e2)
       [] OTHER -> codearith(fs, ArithOp[op], e1, e2)

(* A count too large for C follows as an instruction of its own. *)
luaK_setlist(fs, base, nelems, tostore) ==
  LET c == (nelems - 1) \div LFIELDS_PER_FLUSH + 1
      b == IF tostore = LUA_MULTRET THEN 0 ELSE tostore
      set == IF c <= MAXARG_C THEN luaK_code(fs, "SETLIST", base, b, c)
             ELSE luaK_code(luaK_code(fs, "SETLIST", base, b, 0), "COUNT", 0, 0, c)
  IN lua_assert([set EXCEPT !.freereg = base + 1], tostore # 0)
=============================================================================
