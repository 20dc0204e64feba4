----------------------------- MODULE LuaValues -----------------------------
(***************************************************************************)
(* The values of Lua programs, as the interpreter's virtual machine and    *)
(* the language's reference share them: a tuple of the type and the value. *)
(* Tables and functions are numbered; numbers are integers, with NaN for   *)
(* the result of n % 0.  Division, fractions and the conversion of strings *)
(* to numbers are left out.                                                *)
(***************************************************************************)
EXTENDS Integers, Sequences, FiniteSets, TLC

NaN == 1000000007

Nil == <<"nil">>
Bool(b) == <<"bool", b>>
Num(n) == <<"num", n>>
Str(s) == <<"str", s>>

IsFalse(v) == v \in {Nil, Bool(FALSE)}
IsNum(v) == v[1] = "num"
IsText(v) == v[1] \in {"num", "str"}
ToText(v) == IF IsNum(v) THEN ToString(v[2]) ELSE v[2]

RECURSIVE Power(_, _)
Power(x, n) == IF n = 0 THEN 1 ELSE x * Power(x, n - 1)

Numeric(op, x, y) ==
  IF NaN \in {x, y} THEN NaN
  ELSE CASE op = "ADD" -> x + y
         [] op = "SUB" -> x - y
         [] op = "MUL" -> x * y
         [] op = "MOD" -> IF y = 0 THEN NaN
                          ELSE IF y > 0 THEN x % y ELSE -((-x) % (-y))
         [] op = "POW" -> Power(x, y)
         [] op = "UNM" -> -x

RawEqual(v, w) == v = w /\ v # Num(NaN)
Less(v, w) == NaN \notin {v[2], w[2]} /\ v[2] < w[2]
LessEqual(v, w) == NaN \notin {v[2], w[2]} /\ v[2] <= w[2]

(* What a table holds under a key, the table with the key set, its length. *)
At(t, k) == IF k \in DOMAIN t THEN t[k] ELSE Nil
Put(t, k, v) == IF v = Nil THEN [x \in DOMAIN t \ {k} |-> t[x]]
                ELSE [x \in DOMAIN t \cup {k} |-> IF x = k THEN v ELSE t[x]]
Border(t) == CHOOSE n \in 0..Cardinality(DOMAIN t) :
               /\ At(t, Num(n + 1)) = Nil
               /\ n > 0 => At(t, Num(n)) # Nil

(* A table that is new has no metatable (mt = 0). *)
NewTable == [map |-> << >>, mt |-> 0]

(* The metamethod of an event of a value, or Nil. *)
MetaOf(heap, v, event) ==
  IF v[1] # "tab" THEN Nil
  ELSE LET mt == heap[v[2]].mt
       IN IF mt = 0 THEN Nil ELSE At(heap[mt].map, Str(event))

(* How a result is observed: tables and functions by their type only. *)
Show(v) == IF v[1] \in {"tab", "fun", "cfun"} THEN <<v[1]>> ELSE v
=============================================================================
