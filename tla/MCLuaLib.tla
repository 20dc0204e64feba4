------------------------------ MODULE MCLuaLib ------------------------------
(***************************************************************************)
(* Calls of the library functions: every well-formed pattern of up to      *)
(* three items, captures around the choices of a repetition, the character *)
(* classes, every short text of pattern characters, and arrays to sort.    *)
(***************************************************************************)
EXTENDS LuaLib

lit(c) == <<"lit", c>>
one(cl, rep) == <<"one", cl, rep>>
A == lit("a")
Dot == <<"any">>
AB == <<"bracket", FALSE, <<<<"range", "a", "b">>>>>>
NotA == <<"bracket", TRUE, <<A>>>>
Open == <<"open">>
Close == <<"close">>
Pos == <<"pos">>
Back(k) == <<"back", k>>
End == <<"end">>
Pattern(is) == [anchor |-> FALSE, items |-> is]
Anchored(is) == [anchor |-> TRUE, items |-> is]

Call(f, s, pt) == [f |-> f, s |-> s, p |-> PatternText(pt), pt |-> <<pt>>, init |-> 1,
                   plain |-> FALSE, repl |-> <<"string", <<<<"cap", 0>>>>>>, max |-> NULL]

-----------------------------------------------------------------------------
Items == {one(A, ""), one(A, "*"), one(AB, "+"), one(AB, "-"), one(Dot, "?"), Open, Close,
          Pos, Back(1), <<"bal", "a", "b">>, <<"front", NotA>>, End}
Short == {is \in UNION {[1..k -> Items] : k \in 0..3} : WellFormed(is)}
Subjects == {<<>>, <<"a">>, <<"a", "b", "a">>, <<"b", "a", "a", "b">>}

Bracketed ==
  {is \in {<<Open, x, Close, y, z>> : x \in {one(A, "*"), one(AB, "-"), one(Dot, "?"), Pos},
                                      y \in Items \ {Open, Close}, z \in Items \ {Open, Close}}
          \cup {<<Open, x, Open, y, Close, Close, z>> :
                  x \in {one(A, "*"), one(Dot, "-")}, y \in {one(A, "?"), one(AB, "*"), Pos},
                  z \in Items \cup {Back(2)}}
          \cup {<<Open, x, Close, y, Open, z, Close>> :
                  x \in {one(A, "*"), one(AB, "-")}, y \in {one(A, "?"), Back(1)},
                  z \in {one(AB, "*"), Back(1), End, Pos}} :
     WellFormed(is) /\ Captures(is) <= LUA_MAXCAPTURES}

Fs == {"find", "match", "gmatch", "gsub"}
Searches == {Call(f, s, Pattern(is)) : f \in {"match", "gmatch"}, s \in Subjects, is \in Short}
            \cup {Call("match", s, Pattern(is)) : s \in {<<"a", "a", "b", "a">>, <<"b", "a", "a">>},
                                                  is \in Bracketed}
            \cup {Call(f, s, Anchored(is)) : f \in {"find", "gsub"}, s \in Subjects,
                                             is \in {x \in Short : Len(x) = 2}}

-----------------------------------------------------------------------------
Parts == {A, lit("]"), lit("^"), lit("-"), lit("%"), <<"range", "a", "c">>, <<"class", "d">>,
          <<"class", "W">>}
Classes ==
  {lit("."), lit("%"), Dot}
  \cup {<<"class", c>> : c \in {"a", "c", "d", "l", "p", "s", "u", "w", "x", "z", "A", "D", "S"}}
  \cup {<<"bracket", no, ps>> : no \in BOOLEAN, ps \in [1..1 -> Parts] \cup [1..2 -> Parts]}
ClassCalls ==
  {Call("match", s, Pattern(<<one(c, "+")>>)) :
     c \in Classes, s \in {<<"a", "1", "%">>, <<"-", "b", "]">>, <<"^", "B", " ">>}}
  \cup {Call("find", <<"a", " ", "1", "b">>, Pattern(<<<<"front", c>>>>)) :
          c \in {x \in Classes : x[1] = "bracket"}}

-----------------------------------------------------------------------------
Texts == UNION {[1..k -> {"a", "b"}] : k \in 0..3}
Plain == {[Call("find", s, Pattern(<<>>)) EXCEPT !.p = t, !.plain = TRUE, !.init = x] :
            s \in {<<"a", "a", "b">>, <<"b", "a", "b", "a", "b">>, <<>>}, t \in Texts,
            x \in {1, 2, -2}}
Places == {[Call(f, s, Pattern(is)) EXCEPT !.init = x] :
             f \in {"find", "match"}, s \in Subjects, x \in -4..5,
             is \in {<<one(A, "")>>, <<one(A, "*"), Pos>>, <<one(lit("b"), ""), End>>}}

-----------------------------------------------------------------------------
a1 == <<"str", <<"a">>>>
Replacements ==
  {<<"string", <<lit("x"), <<"cap", 1>>>>>>, <<"string", <<<<"cap", 2>>, lit("%")>>>>,
   <<"string", <<>>>>,
   <<"table", [k \in {a1, <<"pos", 2>>} |-> IF k = a1 THEN <<"str", <<"x", "y">>>> ELSE <<"pos", 3>>]>>,
   <<"table", [k \in {<<"str", <<"b">>>>} |-> <<"other">>]>>,
   <<"function", [k \in {<<a1>>, <<a1, <<"pos", 2>>>>} |-> <<"str", <<>>>>]>>}
Substitutions ==
  {[Call("gsub", s, Pattern(is)) EXCEPT !.repl = r, !.max = m] :
     s \in Subjects, r \in Replacements, m \in {NULL, 1},
     is \in {<<>>, <<one(A, "")>>, <<one(A, "*")>>, <<Open, one(Dot, ""), Close, Pos>>,
             <<Pos, one(AB, "-")>>, <<Open, one(AB, ""), Close, Open, one(A, "?"), Close>>}}
  \cup {Call("gsub", s, Pattern(is)) : s \in Subjects, is \in Short}

\* Texts that may be malformed patterns.
Raw == UNION {[1..k -> {"a", "(", ")", "%", "[", "]", "-", "^", "$", "*", "b", "1", "f"}] : k \in 1..3}
RawCalls == {[f |-> f, s |-> <<"a", "b">>, p |-> t, pt |-> <<>>, init |-> 1, plain |-> FALSE,
              repl |-> <<"string", <<<<"cap", 0>>>>>>, max |-> NULL] :
               f \in {"gsub", "match"}, t \in Raw}
            \cup {[f |-> f, s |-> <<"a", "a", "b">>, p |-> t, pt |-> <<>>, init |-> 1, plain |-> FALSE,
                   repl |-> <<"string", <<<<"cap", 0>>>>>>, max |-> NULL] :
                    f \in Fs, t \in {<<"(", ")", "(", ")", "(", ")", "(", ")">>,
                                     <<"(", "a", "*", "b">>, <<"(", "a", "(", ")", ")", ")">>,
                                     <<"(", ")", "%", "1">>, <<"%", "f", "[", "b">>,
                                     <<"%", "b", "a">>, <<"[", "^", "]", "%", "]">>}}

MCCalls == Searches \cup ClassCalls \cup Plain \cup Places \cup Substitutions \cup RawCalls

-----------------------------------------------------------------------------
MCArrays == UNION {[1..k -> 1..3] : k \in 0..6}
MCAnyArrays == {<<1, 2, 3, 4>>, <<2, 1, 3, 1, 2>>}
=============================================================================
