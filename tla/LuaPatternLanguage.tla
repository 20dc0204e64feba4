------------------------- MODULE LuaPatternLanguage -------------------------
(***************************************************************************)
(* What the reference manual of Lua (src/src/lua/doc/manual.html, section  *)
(* 5.4.1) says of patterns, without saying how to match them.  A pattern   *)
(* is a sequence of items; a way to match it gives every item the number   *)
(* of characters it takes; of all the ways that start at one place the one *)
(* meant is the one in which the first item that differs takes the longest *)
(* possible run, or the shortest if it is marked "-".                      *)
(*                                                                         *)
(* A subject is a sequence of characters; a character is a string of       *)
(* length one, or NUL for the terminator that is read at both ends.        *)
(***************************************************************************)
EXTENDS Integers, Sequences, SequencesExt, FiniteSets, FiniteSetsExt

NUL == "NUL"
ESC == "%"

-----------------------------------------------------------------------------
(* The character set and the classes of ctype.h in the "C" locale. *)

Lowers == <<"a", "b", "c", "d", "e", "f", "g", "h", "i", "j", "k", "l", "m", "n",
            "o", "p", "q", "r", "s", "t", "u", "v", "w", "x", "y", "z">>
Uppers == <<"A", "B", "C", "D", "E", "F", "G", "H", "I", "J", "K", "L", "M", "N",
            "O", "P", "Q", "R", "S", "T", "U", "V", "W", "X", "Y", "Z">>
Digits == <<"0", "1", "2", "3", "4", "5", "6", "7", "8", "9">>
Signs == {<<NUL, 0>>, <<" ", 32>>, <<"$", 36>>, <<"%", 37>>, <<"(", 40>>, <<")", 41>>,
          <<"*", 42>>, <<"+", 43>>, <<"-", 45>>, <<".", 46>>, <<"?", 63>>, <<"[", 91>>,
          <<"]", 93>>, <<"^", 94>>}

Codes == Signs \cup {<<Digits[i], 47 + i>> : i \in 1..10}
               \cup {<<Uppers[i], 64 + i>> : i \in 1..26}
               \cup {<<Lowers[i], 96 + i>> : i \in 1..26}
Chars == {x[1] : x \in Codes}
Code == [c \in Chars |-> (CHOOSE x \in Codes : x[1] = c)[2]]

isdigit(c) == Code[c] \in 48..57
isupper(c) == Code[c] \in 65..90
islower(c) == Code[c] \in 97..122
isalpha(c) == isupper(c) \/ islower(c)
isalnum(c) == isalpha(c) \/ isdigit(c)
isspace(c) == Code[c] \in (9..13) \cup {32}
iscntrl(c) == Code[c] \in 0..31
ispunct(c) == Code[c] \in 33..126 /\ ~isalnum(c)
isxdigit(c) == Code[c] \in (48..57) \cup (65..70) \cup (97..102)
Lower == [c \in Chars |-> IF isupper(c) THEN Lowers[Code[c] - 64] ELSE c]

Specials == {"^", "$", "*", "+", "?", ".", "(", "[", "%", "-"}

-----------------------------------------------------------------------------
(* Classes: <<"lit", c>>, <<"any">>, <<"class", letter>> and <<"bracket",  *)
(* complemented, parts>>, whose parts are literals, classes and ranges     *)
(* <<"range", from, to>>.  Their members, and how they are written.        *)

Named(letter) ==
  CASE letter = "a" -> {c \in Chars : isalpha(c)}
    [] letter = "d" -> {c \in Chars : isdigit(c)}
    [] letter = "l" -> {c \in Chars : islower(c)}
    [] letter = "s" -> {c \in Chars : isspace(c)}
    [] letter = "u" -> {c \in Chars : isupper(c)}
    [] letter = "w" -> {c \in Chars : isalnum(c)}
    [] letter = "p" -> {c \in Chars : ispunct(c)}
    [] letter = "x" -> {c \in Chars : isxdigit(c)}
    [] letter = "c" -> {c \in Chars : iscntrl(c)}
    [] letter = "z" -> {NUL}

PartMembers(q) ==
  CASE q[1] = "lit" -> {q[2]}
    [] q[1] = "any" -> Chars
    [] q[1] = "range" -> {c \in Chars : Code[c] \in Code[q[2]]..Code[q[3]]}
    [] q[1] = "class" -> IF isupper(q[2]) THEN Chars \ Named(Lower[q[2]]) ELSE Named(q[2])

Members(cl) ==
  IF cl[1] = "bracket"
  THEN LET listed == UNION {PartMembers(cl[3][i]) : i \in DOMAIN cl[3]}
       IN  IF cl[2] THEN Chars \ listed ELSE listed
  ELSE PartMembers(cl)

PartText(q, first) ==
  CASE q[1] = "lit" -> IF q[2] \in {ESC, "-", "^"} \/ (q[2] = "]" /\ ~first)
                       THEN <<ESC, q[2]>> ELSE <<q[2]>>
    [] q[1] = "range" -> <<q[2], "-", q[3]>>
    [] q[1] = "class" -> <<ESC, q[2]>>

ClassText(cl) ==
  CASE cl[1] = "lit" -> IF cl[2] \in Specials \cup {")"} THEN <<ESC, cl[2]>> ELSE <<cl[2]>>
    [] cl[1] = "any" -> <<".">>
    [] cl[1] = "class" -> <<ESC, cl[2]>>
    [] cl[1] = "bracket" ->
         <<"[">> \o (IF cl[2] THEN <<"^">> ELSE <<>>)
         \o FlattenSeq([i \in DOMAIN cl[3] |-> PartText(cl[3][i], i = 1)]) \o <<"]">>

-----------------------------------------------------------------------------
(* Items: <<"one", class, repetition>>, the parentheses of a capture       *)
(* <<"open">> and <<"close">>, a position capture <<"pos">>, <<"back", k>>, *)
(* <<"bal", x, y>>, <<"front", class>> and, last, <<"end">>.               *)

ItemText(it) ==
  CASE it[1] = "one" -> ClassText(it[2]) \o (IF it[3] = "" THEN <<>> ELSE <<it[3]>>)
    [] it[1] = "open" -> <<"(">>
    [] it[1] = "close" -> <<")">>
    [] it[1] = "pos" -> <<"(", ")">>
    [] it[1] = "back" -> <<ESC, Digits[it[2] + 1]>>
    [] it[1] = "bal" -> <<ESC, "b", it[2], it[3]>>
    [] it[1] = "front" -> <<ESC, "f">> \o ClassText(it[2])
    [] it[1] = "end" -> <<"$">>

\* A pattern is anchored or not, and its items.
PatternText(pt) == (IF pt.anchor THEN <<"^">> ELSE <<>>)
                   \o FlattenSeq([i \in DOMAIN pt.items |-> ItemText(pt.items[i])])

\* The item that opens capture k, and the one that closes it (0: none).
Opens(items, k) ==
  LET os == {i \in DOMAIN items : items[i][1] \in {"open", "pos"}}
  IN  CHOOSE i \in os : Cardinality({j \in os : j <= i}) = k
Captures(items) == Cardinality({i \in DOMAIN items : items[i][1] \in {"open", "pos"}})
Depth(items, a, b) == Cardinality({i \in a..b : items[i][1] = "open"})
                      - Cardinality({i \in a..b : items[i][1] = "close"})
Closes(items, a) ==
  LET cs == {b \in (a + 1)..Len(items) : Depth(items, a, b) = 0}
  IN  IF cs = {} THEN 0 ELSE Min(cs)

\* Captures are closed, in order, and a reference is to a closed one.
WellFormed(items) ==
  /\ \A i \in DOMAIN items : Depth(items, 1, i) >= 0
  /\ Depth(items, 1, Len(items)) = 0
  /\ \A i \in DOMAIN items :
       /\ items[i][1] = "end" => i = Len(items)
       /\ items[i][1] = "open" => items[i + 1][1] # "close"    \* "()" is <<"pos">>
       /\ items[i][1] = "back" =>
            /\ items[i][2] \in 1..Captures(SubSeq(items, 1, i - 1))
            /\ LET a == Opens(items, items[i][2])
               IN  items[a][1] = "pos" \/ Closes(items, a) < i

-----------------------------------------------------------------------------
(* The ways to match: how many characters each item takes from s, starting *)
(* after the first b characters.                                           *)

Taken(w) == FoldSeq(LAMBDA k, t : k + t, 0, w)
Before(b, w, i) == b + Taken(SubSeq(w, 1, i - 1))     \* where item i begins
CharAt(s, i) == IF i \in DOMAIN s THEN s[i] ELSE NUL

CaptureText(s, b, items, w, k) ==
  LET a == Opens(items, k)
  IN  SubSeq(s, Before(b, w, a) + 1, Before(b, w, Closes(items, a)))

\* The balanced text after the first x of t ends at the first y that closes it.
BalancedEnds(t, x, y) ==
  {k \in 2..Len(t) :
     /\ t[1] = x /\ t[k] = y
     /\ Cardinality({i \in 2..k : t[i] = y})
          = 1 + Cardinality({i \in 2..k : t[i] = x /\ x # y})}

Repetitions(rep, n) ==
  CASE rep = "" -> {1} [] rep = "?" -> 0..1 [] rep = "+" -> 1..n [] rep \in {"*", "-"} -> 0..n

Fits(s, b, items, w, k) ==
  LET i == Len(w) + 1
      it == items[i]
      at == b + Taken(w)
      rest == SubSeq(s, at + 1, Len(s))
  IN  CASE it[1] = "one" ->
             /\ \A j \in 1..k : rest[j] \in Members(it[2])
             /\ k \in Repetitions(it[3], Len(s))
        [] it[1] \in {"open", "close", "pos"} -> k = 0
        [] it[1] = "back" -> /\ items[Opens(items, it[2])][1] = "open"
                             /\ SubSeq(rest, 1, k) = CaptureText(s, b, items, w, it[2])
        [] it[1] = "bal" -> LET es == BalancedEnds(rest, it[2], it[3])
                            IN  es # {} /\ k = Min(es)
        [] it[1] = "front" -> /\ k = 0
                              /\ CharAt(s, at) \notin Members(it[2])
                              /\ CharAt(s, at + 1) \in Members(it[2])
        [] it[1] = "end" -> k = 0 /\ at = Len(s)

Ways(s, b, items) ==
  LET upto[i \in 0..Len(items)] ==
        IF i = 0 THEN {<<>>}
        ELSE UNION {{Append(w, k) : k \in {x \in 0..(Len(s) - b - Taken(w)) :
                                             Fits(s, b, items, w, x)}} : w \in upto[i - 1]}
  IN  upto[Len(items)]

Preferred(items, w, v) ==
  LET i == Min({j \in DOMAIN items : w[j] # v[j]})
  IN  IF items[i][1] = "one" /\ items[i][3] = "-" THEN w[i] < v[i] ELSE w[i] > v[i]

Best(items, ws) == CHOOSE w \in ws : \A v \in ws \ {w} : Preferred(items, w, v)

\* The match meant: where it begins and ends (after so many characters), and
\* its captures; the first one that starts at b or later.
MatchFrom(s, b, w, items) ==
  [b |-> b, e |-> b + Taken(w),
   caps |-> [k \in 1..Captures(items) |->
               IF items[Opens(items, k)][1] = "pos"
               THEN <<"pos", Before(b, w, Opens(items, k)) + 1>>
               ELSE <<"str", CaptureText(s, b, items, w, k)>>]]

FirstMatch(s, b, pt) ==
  LET bs == IF pt.anchor THEN {b} ELSE b..Len(s)
      ways == [x \in bs |-> Ways(s, x, pt.items)]
      hits == {x \in bs : ways[x] # {}}
  IN  IF hits = {} THEN <<>>
      ELSE LET x == Min(hits)
           IN  <<MatchFrom(s, x, Best(pt.items, ways[x]), pt.items)>>

\* All the matches of a search through s: the next one starts where the last
\* one ended, one character further if that one was empty.
RECURSIVE AllMatches(_, _, _)
AllMatches(s, b, pt) ==
  LET m == IF b > Len(s) THEN <<>> ELSE FirstMatch(s, b, pt)
  IN  IF m = <<>> THEN <<>>
      ELSE m \o IF pt.anchor THEN <<>>
                ELSE AllMatches(s, m[1].e + (IF m[1].e = m[1].b THEN 1 ELSE 0), pt)

\* The text matched, and the values a match gives: its captures, or all of it.
Matched(s, m) == SubSeq(s, m.b + 1, m.e)
CaptureValues(s, m) == IF m.caps = <<>> THEN <<<<"str", Matched(s, m)>>>> ELSE m.caps
=============================================================================
