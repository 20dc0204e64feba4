------------------------------ MODULE MCLuaVM ------------------------------
(***************************************************************************)
(* Programs for the compiler and the virtual machine, as trees: every      *)
(* condition, arithmetic expression and multiple assignment of a bounded   *)
(* shape, and a program for each construct of the language.                *)
(***************************************************************************)
EXTENDS LuaVM

N(x) == <<"name", x>>
n(i) == <<"num", i>>
S(s) == <<"str", s>>
True == <<"true">>
False == <<"false">>
None == <<"nil">>
Dots == <<"dots">>
bin(o, a, b) == <<"bin", o, a, b>>
un(o, a) == <<"un", o, a>>
ix(o, k) == <<"index", o, k>>
dot(o, k) == ix(o, S(k))
call(f, as) == <<"call", f, as>>
meth(o, m, as) == <<"method", o, m, as>>
fn(ps, b) == <<"fn", ps, "", b>>
ret(es) == <<"return", es>>
loc(ns, es) == <<"local", ns, es>>
set(ls, es) == <<"assign", ls, es>>
tab(es) == <<"tab", [i \in DOMAIN es |-> <<"pos", es[i]>>]>>
rec(ks, es) == <<"tab", [i \in DOMAIN es |-> <<"key", S(ks[i]), es[i]>>]>>
show(es) == <<"exec", call(N("probe"), es)>>
probe(e) == call(N("probe"), <<e>>)
when(c, a, b) == <<"if", <<<<c, a>>>>, b>>
forn(x, es, b) == <<"fornum", x, es, b>>
forin(xs, es, b) == <<"forin", xs, es, b>>
incr(x) == set(<<N(x)>>, <<bin("+", N(x), n(1))>>)
push(t, e) == set(<<ix(N(t), bin("+", un("#", N(t)), n(1)))>>, <<e>>)

-----------------------------------------------------------------------------
(* Conditions over two locals, a global, a comparison and a call, used as  *)
(* a value, as an initial value, as a branch and as a loop's condition.    *)

Atoms == {N("x"), N("y"), N("g"), bin("<", N("x"), n(2)), probe(N("y"))}
Pairs(as, bs) == {bin(o, a, b) : o \in {"and", "or"}, a \in as, b \in bs}
Small == Pairs(Atoms, Atoms) \cup {un("not", a) : a \in Atoms}
Large == Pairs(Small, Atoms) \cup Pairs(Atoms, Small) \cup {un("not", c) : c \in Small}
Deep == Pairs({N("x"), N("y")}, Pairs({un("not", N("x")), N("y")},
                                      Pairs({bin("==", N("x"), n(1)), N("y")}, Small)))

WithXY(b) == <<loc(<<"x", "y">>, <<n(1), False>>)>> \o b

Uses(c) ==
  {WithXY(<<ret(<<c>>)>>),
   WithXY(<<loc(<<"z", "w">>, <<c, N("x")>>), ret(<<N("z"), N("w")>>)>>),
   WithXY(<<set(<<N("y")>>, <<c>>), when(N("y"), <<ret(<<N("y")>>)>>, <<>>),
            ret(<<>>)>>),
   WithXY(<<when(c, <<show(<<n(1)>>)>>, <<show(<<n(2)>>)>>)>>),
   WithXY(<<<<"while", c, <<show(<<n(1)>>), <<"break">>>>>>, ret(<<n(3)>>)>>)}

Conditions == UNION {Uses(c) : c \in Small \cup Large}
              \cup {WithXY(<<ret(<<c>>)>>) : c \in Deep}

-----------------------------------------------------------------------------
(* Arithmetic: every pair of operators in both nestings, over a local and  *)
(* literals (which are folded), and concatenations of the results.         *)

Operands == {N("x"), n(0), n(3)}
Ops == {"+", "-", "*", "%"}
Comps == {"==", "~=", "<", "<=", ">", ">="}
Terms == {bin(o, a, b) : o \in Ops, a \in Operands, b \in Operands}
         \cup {bin("^", a, n(2)) : a \in Operands} \cup {un("-", a) : a \in Operands}
Arithmetic ==
  {<<loc(<<"x">>, <<n(2)>>), ret(<<e>>)>> :
     e \in {bin(o, a, b) : o \in Ops \cup Comps, a \in Terms, b \in {N("x"), n(3)}}
           \cup {bin(o, b, a) : o \in Ops \cup Comps, a \in Terms, b \in {N("x"), n(3)}}
           \cup {bin("..", a, bin("..", S("-"), b)) : a \in Terms, b \in {N("x"), n(3)}}
           \cup {bin("..", bin("..", a, S("")), b) : a \in Terms, b \in {N("x"), n(3)}}
           \cup {un("-", bin("^", a, n(2))) : a \in Operands}
           \cup {bin("^", n(2), bin("^", N("x"), n(2))), bin("^", N("x"), un("-", n(0)))}}

-----------------------------------------------------------------------------
(* Assignments: two or three variables, tables and keys that depend on     *)
(* each other, and one, two or three values.                               *)

Left == {N("i"), N("t"), N("g"), ix(N("t"), N("i")), ix(N("t"), n(1))}
Values == {<<n(7), N("i")>>, <<N("t"), ix(N("t"), N("i"))>>, <<N("i")>>,
           <<n(4), n(5), probe(n(6))>>, <<call(N("probe"), <<n(8), n(9)>>)>>}
Assignments ==
  {<<loc(<<"i", "t">>, <<n(2), tab(<<n(10), n(20)>>)>>), loc(<<"old">>, <<N("t")>>),
     set(l, v), ret(<<N("i"), N("g"), ix(N("old"), n(1)), ix(N("old"), n(2)),
                      bin("==", N("t"), N("old"))>>)>> :
     l \in {<<a, b>> : a \in Left, b \in Left}
           \cup {<<a, b, c>> : a \in {N("i"), ix(N("t"), N("i"))},
                               b \in Left, c \in {N("t"), N("i")}},
     v \in Values}

-----------------------------------------------------------------------------
(* Closures over the variables of loops, with and without a break. *)

Getter(x) == fn(<<>>, <<ret(<<N(x)>>)>>)
Setter(x) == fn(<<"v">>, <<set(<<N(x)>>, <<N("v")>>)>>)
CallAll == forn("k", <<n(1), un("#", N("fs"))>>, <<show(<<call(ix(N("fs"), N("k")), <<>>)>>)>>)
Brk(c) == when(c, <<<<"break">>>>, <<>>)
Is(x, i) == bin("==", N(x), n(i))

LoopBodies ==
  {<<push("fs", Getter("i")), Brk(Is("i", 2))>>,
   <<loc(<<"j">>, <<N("i")>>), push("fs", Getter("j")),
     set(<<N("j")>>, <<bin("*", N("j"), n(10))>>), Brk(Is("i", 2))>>,
   <<loc(<<"j">>, <<N("i")>>), <<"do", <<loc(<<"l">>, <<N("j")>>), push("fs", Getter("l")),
                                        Brk(Is("j", 2))>>>>, push("fs", Getter("j"))>>,
   <<push("fs", Getter("i")), <<"do", <<loc(<<"i">>, <<n(5)>>), push("fs", Getter("i"))>>>>,
     incr("i")>>}

Closures ==
  {<<loc(<<"fs">>, <<tab(<<>>)>>)>> \o l \o <<CallAll>> :
     l \in {<<forn("i", <<n(1), n(3)>>, b)>> : b \in LoopBodies}
        \cup {<<forn("i", <<n(3), n(1), un("-", n(1))>>, b)>> : b \in LoopBodies}
        \cup {<<forin(<<"i">>, <<fn(<<"s", "c">>, <<when(bin("<", N("c"), N("s")),
                <<ret(<<bin("+", N("c"), n(1))>>)>>, <<>>)>>), n(3), n(0)>>, b)>> :
              b \in LoopBodies}
        \cup {<<loc(<<"i">>, <<n(0)>>), <<"while", bin("<", N("i"), n(3)), <<incr("i")>> \o b>>>> :
              b \in LoopBodies}
        \cup {<<loc(<<"c">>, <<n(0)>>),
                <<"repeat", <<incr("c"), loc(<<"i">>, <<N("c")>>)>> \o b, e>>>> :
              b \in LoopBodies,
              e \in {bin(">", N("i"), n(2)), bin(">", N("c"), n(2)),
                     bin(">", call(fn(<<>>, <<ret(<<N("i")>>)>>), <<>>), n(2))}}}

-----------------------------------------------------------------------------
(* One program or more for each remaining construct. *)

Method(o, m, ps, b) == <<"defmethod", o, m, fn(ps, b)>>
Meta(o, m) == call(N("setmetatable"), <<o, m>>)
Va(ps, b) == <<"fn", ps, "dots", b>>
Id == Va(<<>>, <<ret(<<Dots>>)>>)

Constructs == {
  <<ret(<<Dots>>)>>,
  <<loc(<<"a", "b", "c">>, <<Dots>>), ret(<<N("a"), N("b"), N("c"), <<"paren", Dots>>>>)>>,
  <<loc(<<"a">>, <<Dots, n(1)>>), loc(<<"b", "c">>, <<n(2)>>), ret(<<N("a"), N("b"), N("c")>>)>>,
  <<loc(<<"x">>, <<>>), loc(<<"y", "z">>, <<n(1), None>>), set(<<N("x")>>, <<None>>),
    ret(<<N("x"), N("y"), N("z")>>)>>,
  <<loc(<<"x">>, <<False>>), <<"do", <<loc(<<"y">>, <<n(5)>>)>>>>, when(N("x"), <<loc(<<"a">>, <<>>)>>, <<>>), loc(<<"b">>, <<>>), ret(<<N("b")>>)>>,
  \* constructors that flush, open ones, records, nested ones
  <<loc(<<"t">>, <<tab(<<n(1), n(2), n(3), n(4), n(5)>>)>>), ret(<<un("#", N("t")), ix(N("t"), n(5))>>)>>,
  <<loc(<<"t">>, <<tab(<<n(1), n(2), Dots>>)>>), ret(<<un("#", N("t")), ix(N("t"), n(4))>>)>>,
  <<ret(<<un("#", tab(<<Dots, n(1), probe(n(2))>>)), un("#", tab(<<>>))>>)>>,
  <<loc(<<"t">>, <<rec(<<"a", "b">>, <<n(1), tab(<<N("g"), n(2)>>)>>)>>),
    ret(<<dot(N("t"), "a"), ix(dot(N("t"), "b"), n(2)), dot(N("t"), "c")>>)>>,
  <<loc(<<"k">>, <<S("q")>>),
    loc(<<"t">>, <<<<"tab", <<<<"pos", n(7)>>, <<"key", N("k"), probe(n(8))>>, <<"pos", n(9)>>>>>>>>),
    ret(<<dot(N("t"), "q"), ix(N("t"), n(1)), ix(N("t"), n(2))>>)>>,
  \* calls: nested, open, with a table or a string, as a tail, recursive
  <<ret(<<call(N("probe"), <<n(1), call(N("probe"), <<n(2), Dots>>), <<"paren", Dots>>>>)>>)>>,
  <<show(<<S("s")>>), <<"exec", call(N("probe"), <<tab(<<n(1)>>)>>)>>, ret(<<call(N("probe"), <<Dots>>)>>)>>,
  <<<<"localfn", "f", fn(<<"k">>, <<when(Is("k", 0), <<ret(<<n(1)>>)>>,
       <<ret(<<bin("*", N("k"), call(N("f"), <<bin("-", N("k"), n(1))>>))>>)>>)>>)>>,
    ret(<<call(N("f"), <<n(4)>>)>>)>>,
  <<<<"localfn", "f", fn(<<"k", "r">>, <<loc(<<"h">>, <<Getter("k")>>),
       when(Is("k", 0), <<ret(<<N("r"), call(N("h"), <<>>)>>)>>, <<>>),
       ret(<<call(N("f"), <<bin("-", N("k"), n(1)), N("h")>>)>>)>>)>>,
    loc(<<"h", "v">>, <<call(N("f"), <<n(2)>>)>>), ret(<<call(N("h"), <<>>), N("v")>>)>>,
  <<loc(<<"f">>, <<Va(<<"a">>, <<loc(<<"h">>, <<Getter("a")>>), ret(<<call(N("probe"), <<call(N("h"), <<>>), Dots>>)>>)>>)>>),
    ret(<<call(N("f"), <<n(1), n(2), n(3)>>), call(N("f"), <<>>), <<"paren", call(N("f"), <<n(4), n(5)>>)>>>>)>>,
  <<loc(<<"f">>, <<<<"fn", <<"a">>, "arg", <<ret(<<dot(N("arg"), "n"), ix(N("arg"), n(1)), N("a")>>)>>>>>>),
    ret(<<call(N("f"), <<n(1), n(2), n(3)>>)>>)>>,
  <<loc(<<"f">>, <<<<"fn", <<>>, "arg", <<ret(<<dot(N("arg"), "n")>>)>>>>>>), ret(<<call(N("f"), <<>>), N("arg")>>)>>,
  <<loc(<<"f">>, <<Va(<<"a">>, <<ret(<<N("arg"), N("a"), <<"paren", Dots>>>>)>>)>>), ret(<<call(N("f"), <<n(1), n(2)>>)>>)>>,
  <<<<"function", N("g"), fn(<<"a", "b">>, <<ret(<<N("b"), N("a")>>)>>)>>,
    loc(<<"x", "y", "z">>, <<n(0), call(N("g"), <<n(1)>>)>>), ret(<<N("x"), N("y"), N("z")>>)>>,
  \* upvalues through two levels, shared and written
  <<loc(<<"u">>, <<n(1)>>),
    loc(<<"f">>, <<fn(<<>>, <<loc(<<"w">>, <<n(5)>>), ret(<<fn(<<>>, <<incr("u"), incr("w"), ret(<<N("u"), N("w")>>)>>), Setter("w")>>)>>)>>),
    loc(<<"a", "s">>, <<call(N("f"), <<>>)>>), show(<<call(N("a"), <<>>)>>), <<"exec", call(N("s"), <<n(20)>>)>>,
    ret(<<N("u"), call(N("a"), <<>>)>>)>>,
  <<loc(<<"fs">>, <<tab(<<>>)>>), forn("i", <<n(1), n(2)>>, <<loc(<<"j">>, <<N("i")>>),
      <<"do", <<push("fs", fn(<<>>, <<incr("j"), ret(<<N("j")>>)>>)), push("fs", Getter("j"))>>>>>>), CallAll>>,
  <<loc(<<"f">>, <<>>), <<"do", <<loc(<<"x">>, <<n(1)>>), set(<<N("f")>>, <<Getter("x")>>)>>>>, loc(<<"y">>, <<n(9)>>),
    ret(<<call(N("f"), <<>>), N("y")>>)>>,
  \* methods and metamethods
  <<loc(<<"o">>, <<rec(<<"v">>, <<n(3)>>)>>), Method(N("o"), "add", <<"k">>, <<ret(<<bin("+", dot(N("self"), "v"), N("k"))>>)>>),
    <<"function", dot(N("o"), "id"), Id>>, ret(<<meth(N("o"), "add", <<n(4)>>), call(dot(N("o"), "id"), <<n(1), n(2)>>)>>)>>,
  <<loc(<<"b">>, <<rec(<<"m">>, <<n(1)>>)>>), loc(<<"c">>, <<Meta(tab(<<>>), rec(<<"__index">>, <<N("b")>>))>>),
    loc(<<"o">>, <<Meta(tab(<<>>), rec(<<"__index", "__newindex">>, <<N("c"), fn(<<"t", "k", "v">>, <<show(<<N("k"), N("v")>>)>>)>>))>>),
    set(<<dot(N("o"), "m")>>, <<n(2)>>), ret(<<dot(N("o"), "m"), dot(N("b"), "m"), dot(N("o"), "z")>>)>>,
  <<loc(<<"b">>, <<tab(<<>>)>>), loc(<<"o">>, <<Meta(rec(<<"p">>, <<n(1)>>), rec(<<"__newindex", "__index">>, <<N("b"), fn(<<"t", "k">>, <<ret(<<N("k"), n(1)>>)>>)>>))>>),
    set(<<dot(N("o"), "p"), dot(N("o"), "q")>>, <<n(5), n(6)>>), ret(<<dot(N("o"), "p"), dot(N("b"), "p"), dot(N("b"), "q"), dot(N("o"), "q")>>)>>,
  <<loc(<<"m">>, <<tab(<<>>)>>), loc(<<"o">>, <<Meta(tab(<<>>), N("m"))>>), set(<<dot(N("m"), "__index")>>, <<N("o")>>), ret(<<dot(N("o"), "x")>>)>>,
  <<loc(<<"o">>, <<Meta(tab(<<>>), rec(<<"__call", "__unm">>, <<fn(<<"s", "a">>, <<ret(<<N("a"), bin("==", N("s"), N("a"))>>)>>), fn(<<>>, <<ret(<<n(6)>>)>>)>>))>>),
    ret(<<un("-", N("o")), call(N("o"), <<n(5)>>)>>)>>,
  <<loc(<<"m">>, <<rec(<<"__add", "__concat">>, <<fn(<<"a", "b">>, <<show(<<N("a"), N("b")>>), ret(<<n(1)>>)>>), fn(<<"a", "b">>, <<show(<<N("a"), N("b")>>), ret(<<S("c")>>)>>)>>)>>),
    loc(<<"o">>, <<Meta(tab(<<>>), N("m"))>>), show(<<bin("+", n(2), N("o")), bin("+", N("o"), n(2))>>),
    ret(<<bin("..", S("a"), bin("..", N("o"), bin("..", n(1), S("b")))), bin("..", n(3), bin("..", n(4), N("o")))>>)>>,
  <<loc(<<"m">>, <<rec(<<"__lt", "__eq">>, <<fn(<<"a", "b">>, <<show(<<dot(N("a"), "v"), dot(N("b"), "v")>>), ret(<<bin("<", dot(N("a"), "v"), dot(N("b"), "v"))>>)>>),
       fn(<<"a", "b">>, <<ret(<<n(0)>>)>>)>>)>>),
    loc(<<"p", "q">>, <<Meta(rec(<<"v">>, <<n(1)>>), N("m")), Meta(rec(<<"v">>, <<n(2)>>), N("m"))>>),
    ret(<<bin("<", N("p"), N("q")), bin(">", N("p"), N("q")), bin("<=", N("p"), N("q")), bin(">=", N("p"), N("q")), bin("==", N("p"), N("q")), bin("~=", N("p"), N("q"))>>)>>,
  <<loc(<<"le">>, <<fn(<<"a", "b">>, <<ret(<<None>>)>>)>>), loc(<<"p", "q">>, <<Meta(tab(<<>>), rec(<<"__le">>, <<N("le")>>)), Meta(tab(<<>>), rec(<<"__le">>, <<N("le")>>))>>),
    show(<<bin("<=", N("p"), N("q")), bin("==", N("p"), N("q"))>>), ret(<<bin("<", N("p"), N("q"))>>)>>,
  \* control flow
  <<loc(<<"x">>, <<n(2)>>), <<"if", <<<<Is("x", 1), <<show(<<n(1)>>)>>>>, <<Is("x", 2), <<show(<<n(2)>>), ret(<<N("x")>>)>>>>>>, <<show(<<n(3)>>)>>>>>>,
  <<loc(<<"x">>, <<n(3)>>), <<"if", <<<<Is("x", 1), <<>>>>, <<Is("x", 2), <<show(<<n(2)>>)>>>>>>, <<show(<<n(3)>>)>>>>, ret(<<>>)>>,
  <<forin(<<"a", "b">>, <<fn(<<"s", "c">>, <<when(N("c"), <<ret(<<None>>)>>, <<ret(<<n(1), N("s")>>)>>)>>), n(4)>>, <<show(<<N("a"), N("b")>>)>>), ret(<<N("a")>>)>>,
  <<forn("i", <<n(1), n(0)>>, <<show(<<N("i")>>)>>), forn("i", <<n(2), n(2)>>, <<incr("i"), show(<<N("i")>>)>>)>>,
  <<forn("i", <<n(1), n(2)>>, <<forn("j", <<N("i"), n(2)>>, <<when(Is("j", 2), <<<<"break">>>>, <<>>), show(<<N("i"), N("j")>>)>>)>>)>>,
  <<loc(<<"i">>, <<n(0)>>), <<"while", True, <<incr("i"), <<"repeat", <<loc(<<"d">>, <<N("i")>>), when(Is("d", 2), <<<<"break">>>>, <<>>)>>, Is("d", 1)>>, Brk(Is("i", 3))>>>>, ret(<<N("i")>>)>>,
  \* errors
  <<show(<<n(1)>>), ret(<<bin("+", N("g"), n(1))>>)>>,
  <<show(<<n(1)>>), ret(<<dot(N("g"), "x")>>)>>,
  <<show(<<n(1)>>), <<"exec", call(N("g"), <<n(1)>>)>>>>,
  <<ret(<<bin("<", n(1), True)>>)>>, <<ret(<<bin("..", n(1), None)>>)>>, <<ret(<<un("#", None)>>)>>,
  <<forn("i", <<n(1), None>>, <<>>)>>,
  <<loc(<<"t">>, <<tab(<<>>)>>), set(<<ix(N("t"), None)>>, <<n(1)>>)>>,
  <<loc(<<"t">>, <<tab(<<>>)>>), set(<<ix(N("t"), bin("%", n(1), n(0)))>>, <<n(1)>>)>>,
  <<loc(<<"f">>, <<fn(<<>>, <<ret(<<Dots>>)>>)>>)>>,
  <<<<"break">>>>, <<set(<<probe(n(1))>>, <<n(1)>>)>>,
  <<ret(<<n(1)>>), show(<<n(2)>>)>>, <<<<"while", True, <<<<"break">>, show(<<n(1)>>)>>>>>>,
  <<<<"while", N("g"), <<loc(<<"f">>, <<fn(<<>>, <<<<"break">>>>)>>)>>>>>>,
  <<set(<<N("a"), bin("+", N("b"), n(1))>>, <<n(1)>>)>>, <<<<"exec", N("g")>>>>,
  <<forin(<<"i">>, <<n(1)>>, <<>>)>> }

MCPrograms == Conditions \cup Arithmetic \cup Assignments \cup Closures \cup Constructs

(* Conditions with constants among the operands. *)
Consts == {True, False, None, n(1)}
ConstantPrograms ==
  {<<ret(<<c>>)>> : c \in Pairs(Pairs(Pairs(Consts, Consts), Consts), Consts)}

MCArgs == <<Num(7), Num(8)>>
=============================================================================
