---------------------------- MODULE LuaLanguage ----------------------------
(***************************************************************************)
(* The language that the interpreter promises, as its manual defines it    *)
(* (src/src/lua/doc/manual.html, sections 2.4 to 2.8): the reference for   *)
(* the compiler and the virtual machine.  A program is a tree of tuples;   *)
(* Outcome evaluates it directly, and Tokens writes it down with as few    *)
(* parentheses as the manual's precedences allow.                          *)
(***************************************************************************)
EXTENDS LuaValues

-----------------------------------------------------------------------------
(* Writing programs down. *)

Precedence == ("or" :> 1) @@ ("and" :> 2)
           @@ [o \in {"<", ">", "<=", ">=", "~=", "=="} |-> 3]
           @@ (".." :> 4) @@ [o \in {"+", "-"} |-> 5] @@ [o \in {"*", "%"} |-> 6]
           @@ ("^" :> 8)
UnaryLevel == 7
RightAssociative == {"..", "^"}

Level(e) == CASE e[1] = "bin" -> Precedence[e[2]]
              [] e[1] = "un" -> UnaryLevel
              [] OTHER -> 9

RECURSIVE Join(_, _), ExpT(_), BlockT(_)
Join(sep, ls) == IF Len(ls) = 0 THEN <<>>
                 ELSE IF Len(ls) = 1 THEN ls[1]
                 ELSE ls[1] \o sep \o Join(sep, Tail(ls))

ListT(es) == Join(<<<<",">>>>, [i \in DOMAIN es |-> ExpT(es[i])])
NamesT(ns) == Join(<<<<",">>>>, [i \in DOMAIN ns |-> <<<<"NAME", ns[i]>>>>])
Parens(ts) == <<<<"(">>>> \o ts \o <<<<")">>>>

(* An operand, in parentheses if it binds less than its place requires. *)
OperandT(e, level) == IF Level(e) < level THEN Parens(ExpT(e)) ELSE ExpT(e)

(* What may be indexed or called without parentheses. *)
PrefixT(e) == IF e[1] \in {"name", "index", "call", "method", "paren"} THEN ExpT(e)
              ELSE Parens(ExpT(e))

(* The function's parts: parameters, "" or "dots" or "arg", body. *)
FuncT(params, va, b) ==
  LET dots == IF va = "" THEN <<>> ELSE <<<<<<"...">>>>>>
      names == [i \in DOMAIN params |-> <<<<"NAME", params[i]>>>>]
  IN Parens(Join(<<<<",">>>>, names \o dots)) \o BlockT(b) \o <<<<"end">>>>

FieldT(f) == IF f[1] = "pos" THEN ExpT(f[2])
             ELSE IF f[2][1] = "str"
             THEN <<<<"NAME", f[2][2]>>, <<"=">>>> \o ExpT(f[3])
             ELSE <<<<"[">>>> \o ExpT(f[2]) \o <<<<"]">>, <<"=">>>> \o ExpT(f[3])

ExpT(e) ==
  CASE e[1] \in {"nil", "true", "false"} -> <<<<e[1]>>>>
    [] e[1] = "num" -> <<<<"NUMBER", e[2]>>>>
    [] e[1] = "str" -> <<<<"STRING", e[2]>>>>
    [] e[1] = "dots" -> <<<<"...">>>>
    [] e[1] = "name" -> <<<<"NAME", e[2]>>>>
    [] e[1] = "paren" -> Parens(ExpT(e[2]))
    [] e[1] = "index" -> PrefixT(e[2]) \o
         (IF e[3][1] = "str" THEN <<<<".">>, <<"NAME", e[3][2]>>>>
          ELSE <<<<"[">>>> \o ExpT(e[3]) \o <<<<"]">>>>)
    [] e[1] = "call" -> PrefixT(e[2]) \o
         (IF Len(e[3]) = 1 /\ e[3][1][1] \in {"str", "tab"} THEN ExpT(e[3][1])
          ELSE Parens(ListT(e[3])))
    [] e[1] = "method" -> PrefixT(e[2]) \o <<<<":">>, <<"NAME", e[3]>>>>
                          \o Parens(ListT(e[4]))
    [] e[1] = "fn" -> <<<<"function">>>> \o FuncT(e[2], e[3], e[4])
    [] e[1] = "tab" -> <<<<"{">>>> \o
         Join(<<<<",">>>>, [i \in DOMAIN e[2] |-> FieldT(e[2][i])]) \o <<<<"}">>>>
    [] e[1] = "un" -> <<<<e[2]>>>> \o OperandT(e[3], UnaryLevel)
    [] e[1] = "bin" ->
         LET p == Precedence[e[2]]
             r == e[2] \in RightAssociative
         IN OperandT(e[3], IF r THEN p + 1 ELSE p) \o <<<<e[2]>>>>
            \o (IF e[4][1] = "un" THEN ExpT(e[4])
                ELSE OperandT(e[4], IF r THEN p ELSE p + 1))

RECURSIVE ElseT(_, _)
ElseT(arms, b) ==
  IF arms = <<>> THEN IF b = <<>> THEN <<>> ELSE <<<<"else">>>> \o BlockT(b)
  ELSE <<<<"elseif">>>> \o ExpT(arms[1][1]) \o <<<<"then">>>> \o BlockT(arms[1][2])
       \o ElseT(Tail(arms), b)

StatT(s) ==
  LET done == <<<<"end">>>>
  IN CASE s[1] = "local" -> <<<<"local">>>> \o NamesT(s[2]) \o
            (IF s[3] = <<>> THEN <<>> ELSE <<<<"=">>>> \o ListT(s[3]))
       [] s[1] = "assign" -> ListT(s[2]) \o <<<<"=">>>> \o ListT(s[3])
       [] s[1] = "exec" -> ExpT(s[2])
       [] s[1] = "do" -> <<<<"do">>>> \o BlockT(s[2]) \o done
       [] s[1] = "while" -> <<<<"while">>>> \o ExpT(s[2]) \o <<<<"do">>>>
                            \o BlockT(s[3]) \o done
       [] s[1] = "repeat" -> <<<<"repeat">>>> \o BlockT(s[2]) \o <<<<"until">>>>
                             \o ExpT(s[3])
       [] s[1] = "if" -> <<<<"if">>>> \o Tail(ElseT(s[2], s[3])) \o done
       [] s[1] = "fornum" -> <<<<"for">>, <<"NAME", s[2]>>, <<"=">>>> \o ListT(s[3])
                             \o <<<<"do">>>> \o BlockT(s[4]) \o done
       [] s[1] = "forin" -> <<<<"for">>>> \o NamesT(s[2]) \o <<<<"in">>>> \o ListT(s[3])
                            \o <<<<"do">>>> \o BlockT(s[4]) \o done
       [] s[1] = "localfn" -> <<<<"local">>, <<"function">>, <<"NAME", s[2]>>>>
                              \o FuncT(s[3][2], s[3][3], s[3][4])
       [] s[1] = "function" -> <<<<"function">>>> \o ExpT(s[2])
                               \o FuncT(s[3][2], s[3][3], s[3][4])
       [] s[1] = "defmethod" -> <<<<"function">>>> \o ExpT(s[2])
                                \o <<<<":">>, <<"NAME", s[3]>>>>
                                \o FuncT(s[4][2], s[4][3], s[4][4])
       [] s[1] = "return" -> <<<<"return">>>> \o ListT(s[2])
       [] s[1] = "break" -> <<<<"break">>>>

BlockT(b) ==
  IF b = <<>> THEN <<>>
  ELSE StatT(b[1]) \o <<<<";">>>> \o BlockT(Tail(b))

Tokens(program) == BlockT(program) \o <<<<"EOS">>>>

-----------------------------------------------------------------------------
(* What is a program at all, beyond the grammar that the trees follow:     *)
(* only variables are assigned to, "..." stands in a function that takes   *)
(* extra arguments, and return and break end their block, a break in a     *)
(* loop.                                                                   *)
RECURSIVE GoodExp(_, _), GoodBlock(_, _, _)
GoodList(es, va) == \A i \in DOMAIN es : GoodExp(es[i], va)

GoodExp(e, va) ==
  CASE e[1] = "dots" -> va
    [] e[1] = "paren" -> GoodExp(e[2], va)
    [] e[1] = "un" -> GoodExp(e[3], va)
    [] e[1] = "bin" -> GoodExp(e[3], va) /\ GoodExp(e[4], va)
    [] e[1] = "index" -> GoodExp(e[2], va) /\ GoodExp(e[3], va)
    [] e[1] \in {"call", "method"} -> GoodExp(e[2], va) /\ GoodList(e[Len(e)], va)
    [] e[1] = "fn" -> GoodBlock(e[4], e[3] # "", FALSE)
    [] e[1] = "tab" -> \A i \in DOMAIN e[2] : GoodList(Tail(e[2][i]), va)
    [] OTHER -> TRUE

GoodStat(s, va, loop) ==
  CASE s[1] = "local" -> GoodList(s[3], va)
    [] s[1] = "assign" -> /\ \A i \in DOMAIN s[2] : s[2][i][1] \in {"name", "index"}
                          /\ GoodList(s[2], va) /\ GoodList(s[3], va)
    [] s[1] = "exec" -> s[2][1] \in {"call", "method"} /\ GoodExp(s[2], va)
    [] s[1] = "do" -> GoodBlock(s[2], va, loop)
    [] s[1] = "while" -> GoodExp(s[2], va) /\ GoodBlock(s[3], va, TRUE)
    [] s[1] = "repeat" -> GoodBlock(s[2], va, TRUE) /\ GoodExp(s[3], va)
    [] s[1] = "if" -> /\ \A i \in DOMAIN s[2] : /\ GoodExp(s[2][i][1], va)
                                               /\ GoodBlock(s[2][i][2], va, loop)
                      /\ GoodBlock(s[3], va, loop)
    [] s[1] \in {"fornum", "forin"} -> GoodList(s[3], va) /\ GoodBlock(s[4], va, TRUE)
    [] s[1] \in {"localfn", "function", "defmethod"} -> GoodExp(s[Len(s)], va)
    [] s[1] = "return" -> GoodList(s[2], va)
    [] s[1] = "break" -> loop

GoodBlock(b, va, loop) ==
  \A i \in DOMAIN b : /\ b[i][1] \in {"return", "break"} => i = Len(b)
                      /\ GoodStat(b[i], va, loop)

-----------------------------------------------------------------------------
(* Evaluating programs.  s is the store: the local variables' cells, the    *)
(* tables, the functions, the globals, what the program has shown through   *)
(* the host function "probe", and the first error.  An environment maps the *)
(* names in scope to cells and holds the extra arguments.                   *)

First(vs) == IF vs = <<>> THEN Nil ELSE vs[1]
Nth(vs, i) == IF i <= Len(vs) THEN vs[i] ELSE Nil
SV(s, v) == [s |-> s, v |-> v]
SVs(s, vs) == [s |-> s, vs |-> vs]
Stop(s, msg) == IF s.err = "" THEN [s EXCEPT !.err = msg] ELSE s

Declare(s, env, names, vs) ==
  [s |-> [s EXCEPT !.cells = @ \o [i \in DOMAIN names |-> Nth(vs, i)]],
   env |-> [env EXCEPT !.vars =
              [x \in {names[i] : i \in DOMAIN names} |->
                 Len(s.cells) + (CHOOSE i \in DOMAIN names : names[i] = x)] @@ @]]

RECURSIVE Eval(_, _, _), EvalList(_, _, _), Call(_, _, _), Exec(_, _, _),
          Get(_, _, _, _), Set(_, _, _, _, _)

MAXTAGLOOP == 3

(* Indexing, with the metamethods "index" and "newindex" (section 2.8). *)
Get(s, o, k, loop) ==
  LET m == MetaOf(s.heap, o, "__index")
      raw == At(s.heap[o[2]].map, k)
      r == Call(s, m, <<o, k>>)
  IN IF loop = 0 THEN SV(Stop(s, "loop"), Nil)
     ELSE IF o[1] = "tab" /\ (raw # Nil \/ m = Nil) THEN SV(s, raw)
     ELSE IF m = Nil THEN SV(Stop(s, "index"), Nil)
     ELSE IF m[1] \in {"fun", "cfun"} THEN SV(r.s, First(r.vs))
     ELSE Get(s, m, k, loop - 1)

Set(s, o, k, v, loop) ==
  LET m == MetaOf(s.heap, o, "__newindex")
      raw == At(s.heap[o[2]].map, k)
  IN IF loop = 0 THEN Stop(s, "loop")
     ELSE IF o[1] = "tab" /\ (raw # Nil \/ m = Nil)
     THEN IF k \in {Nil, Num(NaN)} THEN Stop(s, "key")
          ELSE [s EXCEPT !.heap[o[2]].map = Put(@, k, v)]
     ELSE IF m = Nil THEN Stop(s, "index")
     ELSE IF m[1] \in {"fun", "cfun"} THEN Call(s, m, <<o, k, v>>).s
     ELSE Set(s, m, k, v, loop - 1)

Global(s, x) == At(s.glob, Str(x))

Operator == ("+" :> <<"ADD", "__add">>) @@ ("-" :> <<"SUB", "__sub">>)
         @@ ("*" :> <<"MUL", "__mul">>) @@ ("%" :> <<"MOD", "__mod">>)
         @@ ("^" :> <<"POW", "__pow">>)

(* The handler of a binary event: the first operand's, else the second's. *)
Binop(s, event, x, y, msg) ==
  LET h == IF MetaOf(s.heap, x, event) # Nil THEN MetaOf(s.heap, x, event)
           ELSE MetaOf(s.heap, y, event)
      r == Call(s, h, <<x, y>>)
  IN IF h = Nil THEN SV(Stop(s, msg), Nil) ELSE SV(r.s, First(r.vs))

(* A comparison's handler, only if both operands have the same. *)
CompHandler(s, event, x, y) ==
  LET h == MetaOf(s.heap, x, event)
  IN IF x[1] = y[1] /\ h # Nil /\ h = MetaOf(s.heap, y, event) THEN h ELSE Nil

Truth(r) == SV(r.s, Bool(~IsFalse(First(r.vs))))
Negated(r) == SV(r.s, Bool(IsFalse(r.v)))

Equal(s, x, y) ==
  LET h == CompHandler(s, "__eq", x, y)
  IN IF RawEqual(x, y) THEN SV(s, Bool(TRUE))
     ELSE IF h = Nil THEN SV(s, Bool(FALSE)) ELSE Truth(Call(s, h, <<x, y>>))

LessThan(s, x, y) ==
  LET h == CompHandler(s, "__lt", x, y)
  IN IF IsNum(x) /\ IsNum(y) THEN SV(s, Bool(Less(x, y)))
     ELSE IF h = Nil THEN SV(Stop(s, "compare"), Nil)
     ELSE Truth(Call(s, h, <<x, y>>))

(* "le" falls back on the negation of "lt" with the operands exchanged. *)
NotGreater(s, x, y) ==
  LET h == CompHandler(s, "__le", x, y)
  IN IF IsNum(x) /\ IsNum(y) THEN SV(s, Bool(LessEqual(x, y)))
     ELSE IF h # Nil THEN Truth(Call(s, h, <<x, y>>))
     ELSE Negated(LessThan(s, y, x))

Apply(s, op, x, y) ==
  CASE op \in DOMAIN Operator ->
         IF IsNum(x) /\ IsNum(y)
         THEN SV(s, Num(Numeric(Operator[op][1], x[2], y[2])))
         ELSE Binop(s, Operator[op][2], x, y, "arith")
    [] op = ".." -> IF IsText(x) /\ IsText(y) THEN SV(s, Str(ToText(x) \o ToText(y)))
                    ELSE Binop(s, "__concat", x, y, "concat")
    [] op = "==" -> Equal(s, x, y)
    [] op = "~=" -> Negated(Equal(s, x, y))
    [] op = "<" -> LessThan(s, x, y)
    [] op = ">" -> LessThan(s, y, x)
    [] op = "<=" -> NotGreater(s, x, y)
    [] op = ">=" -> NotGreater(s, y, x)

Unary(s, op, x) ==
  CASE op = "not" -> SV(s, Bool(IsFalse(x)))
    [] op = "-" -> IF IsNum(x) THEN SV(s, Num(Numeric("UNM", x[2], 0)))
                   ELSE Binop(s, "__unm", x, x, "arith")
    [] op = "#" -> IF x[1] = "tab" THEN SV(s, Num(Border(s.heap[x[2]].map)))
                   ELSE SV(Stop(s, "length"), Nil)

(* Calling.  "probe" shows its arguments and returns them all;             *)
(* "setmetatable" returns its first argument.                              *)
Call(s, f, args) ==
  LET fn == s.funs[f[2]]
      extra == SubSeq(args, Len(fn.params) + 1, Len(args))
      argt == [k \in {Num(i) : i \in DOMAIN extra} |-> extra[k[2]]]
              @@ (Str("n") :> Num(Len(extra)))
      ps == Declare(s, [fn.env EXCEPT !.dots = extra], fn.params, args)
      old == fn.va = "arg"
      withArg == Declare(IF old THEN [ps.s EXCEPT !.heap =
                                        Append(@, [map |-> argt, mt |-> 0])]
                         ELSE ps.s, ps.env, <<"arg">>,
                         IF old THEN <<<<"tab", Len(s.heap) + 1>>>> ELSE <<>>)
      b == IF fn.va = "" THEN ps ELSE withArg
      r == Exec(fn.body, b.env, b.s)
      h == MetaOf(s.heap, f, "__call")
  IN IF s.err # "" THEN SVs(s, <<>>)
     ELSE CASE f = <<"cfun", "probe">> ->
                 SVs([s EXCEPT !.out = Append(@, [i \in DOMAIN args |-> Show(args[i])])],
                     args)
            [] f = <<"cfun", "setmetatable">> ->
                 SVs([s EXCEPT !.heap[args[1][2]].mt = args[2][2]], <<args[1]>>)
            [] f[1] = "fun" -> SVs(r.s, r.vs)
            [] h # Nil -> Call(s, h, <<f>> \o args)
            [] OTHER -> SVs(Stop(s, "call"), <<>>)

Closure(s, env, e) ==
  SV([s EXCEPT !.funs = Append(@, [params |-> e[2], va |-> e[3], body |-> e[4],
                                   env |-> env])],
     <<"fun", Len(s.funs) + 1>>)

(* The values of an expression that may have any number of them. *)
Many(e, env, s) ==
  LET f == Eval(e[2], env, s)
      args == EvalList(e[IF e[1] = "call" THEN 3 ELSE 4], env, f.s)
      m == Get(f.s, f.v, Str(e[3]), MAXTAGLOOP)
      margs == EvalList(e[4], env, m.s)
      one == Eval(e, env, s)
  IN CASE e[1] = "call" -> Call(args.s, f.v, args.vs)
       [] e[1] = "method" -> Call(margs.s, m.v, <<f.v>> \o margs.vs)
       [] e[1] = "dots" -> SVs(s, env.dots)
       [] OTHER -> SVs(one.s, <<one.v>>)

EvalList(es, env, s) ==
  IF es = <<>> THEN SVs(s, <<>>)
  ELSE IF Len(es) = 1 THEN Many(es[1], env, s)
  ELSE LET v == Eval(es[1], env, s)
           rest == EvalList(Tail(es), env, v.s)
       IN SVs(rest.s, <<v.v>> \o rest.vs)

(* A constructor's fields from the n-th list item on, into table t. *)
RECURSIVE Fill(_, _, _, _, _)
Fill(fs, t, n, env, s) ==
  LET k == Eval(fs[1][2], env, s)
      v == Eval(fs[1][3], env, k.s)
      many == Many(fs[1][2], env, s)
      one == Eval(fs[1][2], env, s)
      vs == IF Len(fs) = 1 THEN many ELSE SVs(one.s, <<one.v>>)
      listed == [vs.s EXCEPT !.heap[t].map =
                   [x \in {Num(n + i) : i \in {i \in DOMAIN vs.vs : vs.vs[i] # Nil}} |->
                      vs.vs[x[2] - n]] @@ @]
  IN IF fs = <<>> THEN s
     ELSE IF fs[1][1] = "pos" THEN Fill(Tail(fs), t, n + Len(vs.vs), env, listed)
     ELSE Fill(Tail(fs), t, n, env, Set(v.s, <<"tab", t>>, k.v, v.v, 1))

Eval(e, env, s) ==
  LET x == Eval(e[2], env, s)
      k == Eval(e[3], env, x.s)
      a == Eval(e[3], env, s)
      b == Eval(e[4], env, a.s)
      many == Many(e, env, s)
      t == Len(s.heap) + 1
  IN CASE e[1] = "nil" -> SV(s, Nil)
       [] e[1] \in {"true", "false"} -> SV(s, Bool(e[1] = "true"))
       [] e[1] \in {"num", "str"} -> SV(s, e)
       [] e[1] = "name" -> SV(s, IF e[2] \in DOMAIN env.vars
                                 THEN s.cells[env.vars[e[2]]] ELSE Global(s, e[2]))
       [] e[1] = "paren" -> x
       [] e[1] = "index" -> Get(k.s, x.v, k.v, MAXTAGLOOP)
       [] e[1] = "fn" -> Closure(s, env, e)
       [] e[1] = "tab" -> SV(Fill(e[2], t, 0, env,
                                  [s EXCEPT !.heap = Append(@, NewTable)]),
                             <<"tab", t>>)
       [] e[1] = "un" -> Unary(a.s, e[2], a.v)
       [] e[1] = "bin" /\ e[2] = "and" -> IF IsFalse(a.v) THEN a ELSE b
       [] e[1] = "bin" /\ e[2] = "or" -> IF IsFalse(a.v) THEN b ELSE a
       [] e[1] = "bin" -> Apply(b.s, e[2], a.v, b.v)
       [] OTHER -> SV(many.s, First(many.vs))

-----------------------------------------------------------------------------
(* Statements.  Executing a block yields the store, how it ended ("",      *)
(* "break" or "return") and the returned values.                           *)

Done(s) == [s |-> s, sig |-> "", vs |-> <<>>]
AfterLoop(r) == IF r.sig = "break" THEN Done(r.s) ELSE r

(* All tables, keys and values are evaluated before any is assigned; the   *)
(* order of the assignments, which the manual leaves open, is from the     *)
(* last variable to the first.                                             *)
RECURSIVE Targets(_, _, _), Store(_, _, _, _)
Targets(lhs, env, s) ==
  IF lhs = <<>> THEN SVs(s, <<>>)
  ELSE LET o == Eval(lhs[1][2], env, s)
           k == Eval(lhs[1][3], env, o.s)
           here == IF lhs[1][1] = "name" THEN SVs(s, <<lhs[1]>>)
                   ELSE SVs(k.s, <<<<"index", o.v, k.v>>>>)
           rest == Targets(Tail(lhs), env, here.s)
       IN SVs(rest.s, here.vs \o rest.vs)

Store(ts, vs, env, s) ==
  LET n == Len(ts)
      v == Nth(vs, n)
      one == CASE ts[n][1] = "index" -> Set(s, ts[n][2], ts[n][3], v, MAXTAGLOOP)
               [] ts[n][2] \in DOMAIN env.vars ->
                    [s EXCEPT !.cells[env.vars[ts[n][2]]] = v]
               [] OTHER -> [s EXCEPT !.glob = Put(@, Str(ts[n][2]), v)]
  IN IF s.err # "" \/ n = 0 THEN s ELSE Store(SubSeq(ts, 1, n - 1), vs, env, one)

RECURSIVE While(_, _, _, _), Repeat(_, _, _, _), ForNum(_, _, _, _, _, _, _),
          ForIn(_, _, _, _, _, _, _), If(_, _, _, _)

While(c, b, env, s) ==
  LET v == Eval(c, env, s)
      r == Exec(b, env, v.s)
  IN IF v.s.err # "" \/ IsFalse(v.v) THEN Done(v.s)
     ELSE IF r.sig # "" THEN AfterLoop(r) ELSE While(c, b, env, r.s)

(* The condition of repeat sees the block's locals: it is evaluated where  *)
(* the block ends, as its last statement.                                  *)
Repeat(b, c, env, s) ==
  LET r == Exec(b \o <<<<"if", <<<<c, <<<<"break">>>>>>>>, <<>>>>>>, env, s)
  IN IF r.sig # "" \/ r.s.err # "" THEN AfterLoop(r) ELSE Repeat(b, c, env, r.s)

ForNum(x, i, lim, step, b, env, s) ==
  LET d == Declare(s, env, <<x>>, <<Num(i)>>)
      r == Exec(b, d.env, d.s)
  IN IF s.err # "" \/ (step > 0 /\ i > lim) \/ (step <= 0 /\ i < lim) THEN Done(s)
     ELSE IF r.sig # "" THEN AfterLoop(r)
     ELSE ForNum(x, i + step, lim, step, b, env, r.s)

ForIn(xs, f, st, ctl, b, env, s) ==
  LET c == Call(s, f, <<st, ctl>>)
      d == Declare(c.s, env, xs, c.vs)
      r == Exec(b, d.env, d.s)
  IN IF c.s.err # "" \/ First(c.vs) = Nil THEN Done(c.s)
     ELSE IF r.sig # "" THEN AfterLoop(r)
     ELSE ForIn(xs, f, st, First(c.vs), b, env, r.s)

If(arms, b, env, s) ==
  LET v == Eval(arms[1][1], env, s)
  IN IF arms = <<>> THEN Exec(b, env, s)
     ELSE IF v.s.err # "" THEN Done(v.s)
     ELSE IF IsFalse(v.v) THEN If(Tail(arms), b, env, v.s)
     ELSE Exec(arms[1][2], env, v.s)

Statement(st, env, s) ==
  LET call == Many(st[2], env, s)
      lhs == Targets(st[2], env, s)
      vals == EvalList(st[3], env, lhs.s)
      bounds == EvalList(st[3], env, s)
      step == IF Len(st[3]) = 3 THEN Nth(bounds.vs, 3) ELSE Num(1)
      fn == Closure(s, env, st[3])
      o == Eval(st[2], env, fn.s)
      meth == [st[4] EXCEPT ![2] = <<"self">> \o @]
      obj == Eval(st[2], env, s)
      mfn == Closure(obj.s, env, meth)
      rets == EvalList(st[2], env, s)
  IN CASE st[1] = "exec" -> Done(call.s)
       [] st[1] = "assign" -> Done(Store(lhs.vs, vals.vs, env, vals.s))
       [] st[1] = "do" -> Exec(st[2], env, s)
       [] st[1] = "while" -> While(st[2], st[3], env, s)
       [] st[1] = "repeat" -> Repeat(st[2], st[3], env, s)
       [] st[1] = "if" -> If(st[2], st[3], env, s)
       [] st[1] = "fornum" ->
            IF \A v \in {Nth(bounds.vs, 1), Nth(bounds.vs, 2), step} : IsNum(v)
            THEN ForNum(st[2], bounds.vs[1][2], bounds.vs[2][2], step[2], st[4], env,
                        bounds.s)
            ELSE Done(Stop(bounds.s, "for"))
       [] st[1] = "forin" ->
            ForIn(st[2], Nth(bounds.vs, 1), Nth(bounds.vs, 2), Nth(bounds.vs, 3),
                  st[4], env, bounds.s)
       [] st[1] = "function" ->
            Done(Store(Targets(<<st[2]>>, env, fn.s).vs, <<fn.v>>, env, fn.s))
       [] st[1] = "defmethod" ->
            Done(Set(mfn.s, obj.v, Str(st[3]), mfn.v, MAXTAGLOOP))
       [] st[1] = "return" -> [s |-> rets.s, sig |-> "return", vs |-> rets.vs]
       [] st[1] = "break" -> [s |-> s, sig |-> "break", vs |-> <<>>]

(* A declaration is in force for the rest of its block; a local function   *)
(* is in scope in its own body.                                            *)
Exec(b, env, s) ==
  LET st == b[1]
      vs == EvalList(st[3], env, s)
      d == Declare(vs.s, env, st[2], vs.vs)
      d0 == Declare(s, env, <<st[2]>>, <<>>)
      fn == Closure(d0.s, d0.env, st[3])
      r == Statement(st, env, s)
  IN IF b = <<>> \/ s.err # "" THEN Done(s)
     ELSE IF st[1] = "local" THEN Exec(Tail(b), d.env, d.s)
     ELSE IF st[1] = "localfn"
     THEN Exec(Tail(b), d0.env, [fn.s EXCEPT !.cells[Len(d0.s.cells)] = fn.v])
     ELSE IF r.sig # "" THEN r ELSE Exec(Tail(b), env, r.s)

Hosts == [k \in {Str("probe"), Str("setmetatable")} |-> <<"cfun", k[2]>>]

(* How a program ends, what it returns and what it shows on the way. *)
Outcome(program, args) ==
  LET s0 == [cells |-> <<>>, heap |-> <<>>, funs |-> <<>>, glob |-> Hosts,
             out |-> <<>>, err |-> ""]
      r == Exec(program, [vars |-> << >>, dots |-> args], s0)
  IN IF ~GoodBlock(program, TRUE, FALSE) THEN [end |-> "syntax", vs |-> <<>>, out |-> <<>>]
     ELSE IF r.s.err # "" THEN [end |-> "error", vs |-> <<>>, out |-> r.s.out]
     ELSE [end |-> "done", vs |-> [i \in DOMAIN r.vs |-> Show(r.vs[i])],
           out |-> r.s.out]
=============================================================================
