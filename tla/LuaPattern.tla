----------------------------- MODULE LuaPattern -----------------------------
(***************************************************************************)
(* Pattern matching in the string library of the Lua interpreter that Felt *)
(* ships (src/src/lua/src/lstrlib.c): string.find, string.match, the       *)
(* iterator of string.gmatch, and string.gsub.  One attempt to match at    *)
(* one place is one step, the recursion of match() is an operator, and the *)
(* MatchState that match() changes and undoes goes through it.             *)
(*                                                                         *)
(* Pointers are offsets from 0, as in C; a string is followed by its       *)
(* terminator, and reading any further is an error of the evaluation.      *)
(* Patterns and subjects hold no NUL of their own.                         *)
(***************************************************************************)
EXTENDS LuaPatternLanguage

CONSTANTS Calls,           \* the calls to make
          LUA_MAXCAPTURES  \* the size of the array of captures

ASSUME CapturesAssumption == LUA_MAXCAPTURES \in Nat \ {0}

NULL == -1
CAP_UNFINISHED == -1
CAP_POSITION == -2

At(str, i) == IF i = Len(str) THEN NUL ELSE str[i + 1]

-----------------------------------------------------------------------------
(* Single characters. *)

\* The end of a bracket, from the character after "[" or "[^".
RECURSIVE BracketEnd(_, _)
BracketEnd(pat, p) ==
  IF At(pat, p) = NUL THEN NULL
  ELSE LET q == IF At(pat, p) = ESC /\ At(pat, p + 1) # NUL THEN p + 2 ELSE p + 1
       IN  IF At(pat, q) = "]" THEN q + 1 ELSE BracketEnd(pat, q)

\* The end of the class at p, NULL if it has none.
ClassEnd(pat, p) ==
  CASE At(pat, p) = ESC -> IF At(pat, p + 1) = NUL THEN NULL ELSE p + 2
    [] At(pat, p) = "[" -> BracketEnd(pat, IF At(pat, p + 1) = "^" THEN p + 2 ELSE p + 1)
    [] OTHER -> p + 1

MatchClass(c, cl) ==
  LET l == Lower[cl]
      res == CASE l = "a" -> isalpha(c) [] l = "c" -> iscntrl(c) [] l = "d" -> isdigit(c)
               [] l = "l" -> islower(c) [] l = "p" -> ispunct(c) [] l = "s" -> isspace(c)
               [] l = "u" -> isupper(c) [] l = "w" -> isalnum(c) [] l = "x" -> isxdigit(c)
               [] l = "z" -> c = NUL [] OTHER -> cl = c
  IN  IF l \in {"a", "c", "d", "l", "p", "s", "u", "w", "x", "z"} /\ isupper(cl)
      THEN ~res ELSE res

\* Is c listed between p and the "]" at ec?
RECURSIVE Listed(_, _, _, _)
Listed(c, pat, p, ec) ==
  /\ p < ec
  /\ IF At(pat, p) = ESC
     THEN MatchClass(c, At(pat, p + 1)) \/ Listed(c, pat, p + 2, ec)
     ELSE IF At(pat, p + 1) = "-" /\ p + 2 < ec
     THEN \/ Code[c] \in Code[At(pat, p)]..Code[At(pat, p + 2)]
          \/ Listed(c, pat, p + 3, ec)
     ELSE At(pat, p) = c \/ Listed(c, pat, p + 1, ec)

MatchBracketClass(c, pat, p, ec) ==
  IF At(pat, p + 1) = "^" THEN ~Listed(c, pat, p + 2, ec) ELSE Listed(c, pat, p + 1, ec)

SingleMatch(c, pat, p, ep) ==
  CASE At(pat, p) = "." -> TRUE
    [] At(pat, p) = ESC -> MatchClass(c, At(pat, p + 1))
    [] At(pat, p) = "[" -> MatchBracketClass(c, pat, p, ep - 1)
    [] OTHER -> At(pat, p) = c

-----------------------------------------------------------------------------
(* A match in progress: the strings, the number of captures, the captures. *)
(* An outcome: where the match ended or NULL, the state, the error raised. *)

MatchState(s, pat) ==
  [src |-> s, pat |-> pat, level |-> 0,
   capture |-> [l \in 1..LUA_MAXCAPTURES |-> [init |-> 0, len |-> 0]]]

Returns(ms, e) == [e |-> e, ms |-> ms, err |-> ""]
Fails(ms) == Returns(ms, NULL)
Errs(ms, msg) == [e |-> NULL, ms |-> ms, err |-> msg]
NoMatch(r) == r.e = NULL /\ r.err = ""

Here(ms, s, p, ep) == s < Len(ms.src) /\ SingleMatch(At(ms.src, s), ms.pat, p, ep)

\* The capture a reference names, 0 if there is no such closed capture.
CheckCapture(ms, c) ==
  LET l == Code[c] - 48
  IN  IF l < 1 \/ l > ms.level THEN 0
      ELSE IF ms.capture[l].len = CAP_UNFINISHED THEN 0 ELSE l

\* The capture that ")" closes, 0 if all are closed.
CaptureToClose(ms) ==
  Max({0} \cup {l \in 1..ms.level : ms.capture[l].len = CAP_UNFINISHED})

\* The end of a balanced text whose opening character was just passed.
RECURSIVE BalanceEnd(_, _, _, _, _)
BalanceEnd(src, s, b, e, cont) ==
  IF s >= Len(src) THEN NULL
  ELSE IF At(src, s) = e
  THEN IF cont = 1 THEN s + 1 ELSE BalanceEnd(src, s + 1, b, e, cont - 1)
  ELSE BalanceEnd(src, s + 1, b, e, IF At(src, s) = b THEN cont + 1 ELSE cont)

MatchBalance(ms, s, p) ==
  IF At(ms.pat, p) = NUL \/ At(ms.pat, p + 1) = NUL THEN Errs(ms, "unbalanced pattern")
  ELSE IF At(ms.src, s) # At(ms.pat, p) THEN Fails(ms)
  ELSE Returns(ms, BalanceEnd(ms.src, s + 1, At(ms.pat, p), At(ms.pat, p + 1), 1))

\* A capture of a position has length CAP_POSITION, a huge size_t: it never matches.
MatchCapture(ms, s, c) ==
  LET l == CheckCapture(ms, c)
      cap == ms.capture[l]
  IN  IF l = 0 THEN Errs(ms, "invalid capture index")
      ELSE IF /\ cap.len # CAP_POSITION
              /\ Len(ms.src) - s >= cap.len
              /\ SubSeq(ms.src, cap.init + 1, cap.init + cap.len)
                   = SubSeq(ms.src, s + 1, s + cap.len)
      THEN Returns(ms, s + cap.len) ELSE Fails(ms)

Frontier(ms, s, p) ==
  IF At(ms.pat, p) # "[" THEN Errs(ms, "missing [")
  ELSE LET ep == ClassEnd(ms.pat, p)
           previous == IF s = 0 THEN NUL ELSE At(ms.src, s - 1)
       IN  IF ep = NULL THEN Errs(ms, "malformed pattern")
           ELSE IF \/ MatchBracketClass(previous, ms.pat, p, ep - 1)
                   \/ ~MatchBracketClass(At(ms.src, s), ms.pat, p, ep - 1)
           THEN Fails(ms) ELSE Returns(ms, s)

-----------------------------------------------------------------------------
(* match() and the functions that call it back. *)

RECURSIVE Match(_, _, _)

\* Continue at p with the place a part matched up to.
Continue(r, p) == IF r.e = NULL THEN r ELSE Match(r.ms, r.e, p)

StartCapture(ms, s, p, what) ==
  IF ms.level >= LUA_MAXCAPTURES THEN Errs(ms, "too many captures")
  ELSE LET l == ms.level + 1
           r == Match([ms EXCEPT !.level = l, !.capture[l] = [init |-> s, len |-> what]], s, p)
       IN  IF NoMatch(r) THEN [r EXCEPT !.ms.level = @ - 1] ELSE r

\* Mutant: the capture is not marked unfinished again when the match fails.
EndCaptureKept(ms, s, p) ==
  LET l == CaptureToClose(ms)
  IN  IF l = 0 THEN Errs(ms, "invalid pattern capture")
      ELSE Match([ms EXCEPT !.capture[l].len = s - ms.capture[l].init], s, p)

EndCapture(ms, s, p) ==
  LET l == CaptureToClose(ms)
  IN  IF l = 0 THEN Errs(ms, "invalid pattern capture")
      ELSE LET r == Match([ms EXCEPT !.capture[l].len = s - ms.capture[l].init], s, p)
           IN  IF NoMatch(r) THEN [r EXCEPT !.ms.capture[l].len = CAP_UNFINISHED] ELSE r

\* From the longest run of the item, i characters, down to none.
RECURSIVE Shrink(_, _, _, _)
Shrink(ms, s, i, ep) ==
  LET r == Match(ms, s + i, ep + 1)
  IN  IF ~NoMatch(r) \/ i = 0 THEN r ELSE Shrink(r.ms, s, i - 1, ep)

MaxExpand(ms, s, p, ep) ==
  LET runs == {i \in 0..(Len(ms.src) - s) : \A j \in 0..(i - 1) : Here(ms, s + j, p, ep)}
  IN  Shrink(ms, s, Max(runs), ep)

RECURSIVE MinExpand(_, _, _, _)
MinExpand(ms, s, p, ep) ==
  LET r == Match(ms, s, ep + 1)
  IN  IF NoMatch(r) /\ Here(ms, s, p, ep) THEN MinExpand(r.ms, s + 1, p, ep) ELSE r

\* "default": a class, and what follows it.
Item(ms, s, p) ==
  LET ep == ClassEnd(ms.pat, p)
      m == Here(ms, s, p, ep)
      suffix == At(ms.pat, ep)
      one == IF m THEN Match(ms, s + 1, ep + 1) ELSE Fails(ms)
  IN  IF ep = NULL THEN Errs(ms, "malformed pattern")
      ELSE CASE suffix = "?" -> IF NoMatch(one) THEN Match(one.ms, s, ep + 1) ELSE one
             [] suffix = "*" -> MaxExpand(ms, s, p, ep)
             [] suffix = "+" -> IF m THEN MaxExpand(ms, s + 1, p, ep) ELSE Fails(ms)
             [] suffix = "-" -> MinExpand(ms, s, p, ep)
             [] OTHER -> IF m THEN Match(ms, s + 1, ep) ELSE Fails(ms)

Match(ms, s, p) ==
  LET c == At(ms.pat, p)
      d == At(ms.pat, p + 1)
  IN  CASE c = "(" /\ d = ")" -> StartCapture(ms, s, p + 2, CAP_POSITION)
        [] c = "(" /\ d # ")" -> StartCapture(ms, s, p + 1, CAP_UNFINISHED)
        [] c = ")" -> EndCapture(ms, s, p + 1)
        [] c = ESC /\ d = "b" -> Continue(MatchBalance(ms, s, p + 2), p + 4)
        [] c = ESC /\ d = "f" -> Continue(Frontier(ms, s, p + 2), ClassEnd(ms.pat, p + 2))
        [] c = ESC /\ isdigit(d) -> Continue(MatchCapture(ms, s, d), p + 2)
        [] c = NUL -> Returns(ms, s)
        [] c = "$" /\ d = NUL -> IF s = Len(ms.src) THEN Returns(ms, s) ELSE Fails(ms)
        [] OTHER -> Item(ms, s, p)

-----------------------------------------------------------------------------
(* The captures of a match from s to e.  PushOneCapture gives a sequence   *)
(* of one value, or an empty one when the code raises an error.            *)

PushOneCapture(ms, i, s, e) ==
  IF i >= ms.level
  THEN IF i = 0 THEN <<<<"str", SubSeq(ms.src, s + 1, e)>>>> ELSE <<>>
  ELSE LET cap == ms.capture[i + 1]
       IN  CASE cap.len = CAP_UNFINISHED -> <<>>
             [] cap.len = CAP_POSITION -> <<<<"pos", cap.init + 1>>>>
             [] OTHER -> <<<<"str", SubSeq(ms.src, cap.init + 1, cap.init + cap.len)>>>>

PushCaptures(ms, whole, s, e) ==
  LET nlevels == IF ms.level = 0 /\ whole THEN 1 ELSE ms.level
  IN  FlattenSeq([i \in 1..nlevels |-> PushOneCapture(ms, i - 1, s, e)])

AllPushed(ms, values, whole) ==
  Len(values) = (IF ms.level = 0 /\ whole THEN 1 ELSE ms.level)

-----------------------------------------------------------------------------
(* A call: the function f, the subject s, the pattern (its text p, and the *)
(* pattern pt it is the text of, if any), and for find and match the place *)
(* init to start at and plain; for gsub the replacement repl and the       *)
(* largest number of substitutions max, or NULL.                           *)

VARIABLES call,    \* the call
          status,  \* "run", "flush" (gsub, the loop is over), "done" or "error"
          src,     \* the place in the subject
          n,       \* gsub: substitutions made
          out      \* what was found, or the text made by gsub

vars == <<call, status, src, n, out>>

Posrelat(pos, len) == Max({0, IF pos < 0 THEN pos + len + 1 ELSE pos})
StartsAt(c) == Min({Len(c.s), Max({0, Posrelat(c.init, Len(c.s)) - 1})})

Init ==
  /\ call \in Calls
  /\ status = "run"
  /\ src = IF call.f \in {"find", "match"} THEN StartsAt(call) ELSE 0
  /\ n = 0
  /\ out = <<>>

IsPlain(c) == c.f = "find" /\ (c.plain \/ \A i \in DOMAIN c.p : c.p[i] \notin Specials)
Anchor(c) == IF c.f # "gmatch" /\ At(c.p, 0) = "^" THEN 1 ELSE 0

\* Searching p (not empty) in the l1 characters after s1, by its first character.
RECURSIVE MemFind(_, _, _, _)
MemFind(s, s1, l1, p) ==
  LET firsts == {i \in s1..(s1 + l1 - 1) : At(s, i) = p[1]}
      init == Min(firsts)
  IN  IF l1 <= 0 \/ firsts = {} THEN NULL
      ELSE IF SubSeq(s, init + 2, init + Len(p)) = Tail(p) THEN init
      ELSE MemFind(s, init + 1, l1 - (init + 1 - s1), p)

LMemFind(s, s1, p) ==
  LET l1 == Len(s) - s1
  IN  IF p = <<>> THEN s1
      ELSE IF Len(p) > l1 THEN NULL ELSE MemFind(s, s1, l1 - (Len(p) - 1), p)

PlainSearch ==
  /\ status = "run"
  /\ IsPlain(call)
  /\ LET s2 == LMemFind(call.s, src, call.p)
     IN  out' = IF s2 = NULL THEN <<<<"nil">>>>
                ELSE <<<<"pos", s2 + 1>>, <<"pos", s2 + Len(call.p)>>>>
  /\ status' = "done"
  /\ UNCHANGED <<call, src, n>>

Attempt == Match(MatchState(call.s, call.p), src, Anchor(call))

\* luaL_error leaves the function.
Error == status' = "error" /\ out' = <<>> /\ UNCHANGED <<call, src, n>>

\* One turn of the loop of str_find_aux.
FindStep ==
  /\ status = "run"
  /\ call.f \in {"find", "match"} /\ ~IsPlain(call)
  /\ \E r \in {Attempt} :
     \E values \in {PushCaptures(r.ms, call.f = "match", src, r.e)} :
         CASE r.err # "" -> Error
           [] r.err = "" /\ r.e # NULL /\ ~AllPushed(r.ms, values, call.f = "match") -> Error
           [] r.err = "" /\ r.e # NULL /\ AllPushed(r.ms, values, call.f = "match") ->
                /\ out' = (IF call.f = "find" THEN <<<<"pos", src + 1>>, <<"pos", r.e>>>>
                                              ELSE <<>>) \o values
                /\ status' = "done" /\ UNCHANGED <<call, src, n>>
           [] NoMatch(r) /\ src < Len(call.s) /\ Anchor(call) = 0 ->
                src' = src + 1 /\ UNCHANGED <<call, status, n, out>>
           [] NoMatch(r) /\ (src = Len(call.s) \/ Anchor(call) = 1) ->
                out' = <<<<"nil">>>> /\ status' = "done" /\ UNCHANGED <<call, src, n>>

\* One turn of the loop of gmatch_aux; the caller asks for the next match
\* until there is none.
GmatchStep ==
  /\ status = "run" /\ call.f = "gmatch"
  /\ IF src > Len(call.s) THEN status' = "done" /\ UNCHANGED <<call, src, n, out>>
     ELSE \E r \in {Attempt} :
          \E values \in {PushCaptures(r.ms, TRUE, src, r.e)} :
              CASE r.err # "" -> Error
                [] NoMatch(r) -> src' = src + 1 /\ UNCHANGED <<call, status, n, out>>
                [] r.err = "" /\ r.e # NULL /\ ~AllPushed(r.ms, values, TRUE) -> Error
                [] r.err = "" /\ r.e # NULL /\ AllPushed(r.ms, values, TRUE) ->
                     /\ out' = Append(out, values)
                     /\ src' = IF r.e = src THEN r.e + 1 ELSE r.e
                     /\ UNCHANGED <<call, status, n>>

-----------------------------------------------------------------------------
(* Replacements: <<"string", parts>>, written as a text with % marks;      *)
(* <<"table", f>> and <<"function", f>>, which give the value of a capture *)
(* (of all captures) in f, or nothing.                                     *)

NewsText(parts) ==
  FlattenSeq([i \in DOMAIN parts |->
                IF parts[i][1] = "cap" THEN <<ESC, Digits[parts[i][2] + 1]>>
                ELSE IF parts[i][2] = ESC THEN <<ESC, ESC>> ELSE <<parts[i][2]>>])

ValueText(v) == IF v[1] = "pos" THEN <<Digits[v[2] + 1]>> ELSE v[2]

\* The replacement text from place i on: a sequence of one text, or none on error.
RECURSIVE AddS(_, _, _, _, _)
AddS(ms, news, i, s, e) ==
  IF i >= Len(news) THEN <<<<>>>>
  ELSE LET esc == At(news, i) = ESC
           c == At(news, IF esc THEN i + 1 ELSE i)
           cap == PushOneCapture(ms, Code[c] - 49, s, e)
           piece == IF ~esc \/ ~isdigit(c) THEN <<<<c>>>>
                    ELSE IF c = "0" THEN <<SubSeq(ms.src, s + 1, e)>>
                    ELSE IF cap = <<>> THEN <<>> ELSE <<ValueText(cap[1])>>
           rest == AddS(ms, news, IF esc THEN i + 2 ELSE i + 1, s, e)
       IN  IF piece = <<>> \/ rest = <<>> THEN <<>> ELSE <<piece[1] \o rest[1]>>

Reply(f, k) == IF k \in DOMAIN f THEN f[k] ELSE <<"nil">>

\* A value that is not false or nil must be a string or a number.
ReplyText(ms, v, s, e) ==
  CASE v[1] = "nil" -> <<SubSeq(ms.src, s + 1, e)>>
    [] v[1] = "other" -> <<>>
    [] v[1] \in {"str", "pos"} -> <<ValueText(v)>>

AddValue(ms, repl, s, e) ==
  LET one == PushOneCapture(ms, 0, s, e)
      all == PushCaptures(ms, TRUE, s, e)
  IN  CASE repl[1] = "string" -> AddS(ms, NewsText(repl[2]), 0, s, e)
        [] repl[1] = "function" -> IF ~AllPushed(ms, all, TRUE) THEN <<>>
                                   ELSE ReplyText(ms, Reply(repl[2], all), s, e)
        [] repl[1] = "table" -> IF one = <<>> THEN <<>>
                                ELSE ReplyText(ms, Reply(repl[2], one[1]), s, e)

MaxS(c) == IF c.max = NULL THEN Len(c.s) + 1 ELSE c.max

\* The character that a turn ending its match at e copies: none after a match
\* that is not empty, and none at the end.
\* Mutant: an empty match passes the next character by.
CopiedAfterFailure(e) ==
  IF e = NULL /\ src < Len(call.s) THEN <<At(call.s, src)>> ELSE <<>>

Copied(e) == IF e <= src /\ src < Len(call.s) THEN <<At(call.s, src)>> ELSE <<>>

\* One turn of the loop of str_gsub.
GsubStep ==
  /\ status = "run" /\ call.f = "gsub"
  /\ IF n >= MaxS(call) THEN status' = "flush" /\ UNCHANGED <<call, src, n, out>>
     ELSE \E r \in {Attempt} :
          \E new \in {IF r.e = NULL THEN <<<<>>>> ELSE AddValue(r.ms, call.repl, src, r.e)} :
          LET skip == r.e > src
              step == ~skip /\ src < Len(call.s)
          IN  IF r.err # "" \/ new = <<>> THEN Error
              ELSE /\ n' = IF r.e = NULL THEN n ELSE n + 1
                   /\ out' = out \o new[1] \o Copied(r.e)
                   /\ src' = IF skip THEN r.e ELSE IF step THEN src + 1 ELSE src
                   /\ status' = IF (skip \/ step) /\ Anchor(call) = 0 THEN "run" ELSE "flush"
                   /\ UNCHANGED call

GsubEnd ==
  /\ status = "flush"
  /\ out' = out \o SubSeq(call.s, src + 1, Len(call.s))
  /\ status' = "done"
  /\ UNCHANGED <<call, src, n>>

Ended == status \in {"done", "error"} /\ UNCHANGED vars

Next == PlainSearch \/ FindStep \/ GmatchStep \/ GsubStep \/ GsubEnd \/ Ended

Spec == Init /\ [][Next]_vars

-----------------------------------------------------------------------------
(* What the manual promises of each call. *)

\* The text of a replacement for match m; an empty sequence is an error.
Replacement(s, m, repl) ==
  LET values == CaptureValues(s, m)
      reply == Reply(repl[2], IF repl[1] = "table" THEN values[1] ELSE values)
  IN  IF repl[1] = "string"
      THEN IF \E i \in DOMAIN repl[2] : repl[2][i][1] = "cap" /\ repl[2][i][2] > Len(values)
           THEN <<>>
           ELSE <<FlattenSeq([i \in DOMAIN repl[2] |->
                    CASE repl[2][i][1] = "lit" -> <<repl[2][i][2]>>
                      [] repl[2][i] = <<"cap", 0>> -> Matched(s, m)
                      [] OTHER -> ValueText(values[repl[2][i][2]])])>>
      ELSE CASE reply[1] = "nil" -> <<Matched(s, m)>>
             [] reply[1] = "other" -> <<>>
             [] OTHER -> <<ValueText(reply)>>

\* The text between the matches, with the replacements; an empty sequence is an error.
Substituted(s, ms, repl) ==
  LET ends == <<0>> \o [i \in DOMAIN ms |-> ms[i].e]
      new == [i \in DOMAIN ms |-> Replacement(s, ms[i], repl)]
  IN  IF \E i \in DOMAIN ms : new[i] = <<>> THEN <<>>
      ELSE <<FlattenSeq([i \in DOMAIN ms |-> SubSeq(s, ends[i] + 1, ms[i].b) \o new[i][1]])
             \o SubSeq(s, Last(ends) + 1, Len(s))>>

PlainMatches(s, b, p) == {x \in b..(Len(s) - Len(p)) : SubSeq(s, x + 1, x + Len(p)) = p}

\* The status, the results and the number of substitutions of a call.
Expected(c) ==
  LET from == IF c.init > 0 THEN Min({c.init - 1, Len(c.s)})
              ELSE IF c.init = 0 THEN 0 ELSE Max({0, Len(c.s) + c.init})
      found == FirstMatch(c.s, from, c.pt[1])
      all == AllMatches(c.s, 0, c.pt[1])
      some == SubSeq(all, 1, Min({Len(all), MaxS(c)}))
      text == Substituted(c.s, some, c.repl)
      hits == PlainMatches(c.s, from, c.p)
  IN  CASE c.f = "find" /\ c.plain ->
             <<"done", IF hits = {} THEN <<<<"nil">>>>
                       ELSE <<<<"pos", Min(hits) + 1>>, <<"pos", Min(hits) + Len(c.p)>>>>, 0>>
        [] c.f = "find" /\ ~c.plain ->
             <<"done", IF found = <<>> THEN <<<<"nil">>>>
                       ELSE <<<<"pos", found[1].b + 1>>, <<"pos", found[1].e>>>>
                            \o found[1].caps, 0>>
        [] c.f = "match" ->
             <<"done", IF found = <<>> THEN <<<<"nil">>>>
                       ELSE CaptureValues(c.s, found[1]), 0>>
        [] c.f = "gmatch" -> <<"done", [i \in DOMAIN all |-> CaptureValues(c.s, all[i])], 0>>
        [] c.f = "gsub" -> IF text = <<>> THEN <<"error", <<>>, 0>>
                           ELSE <<"done", text[1], Len(some)>>

(***************************************************************************)
(* PROPERTIES                                                              *)
(***************************************************************************)

\* string.find, match, gmatch and gsub give what the manual promises: of all
\* the ways to match the pattern the preferred one at the first place where
\* there is one, with its captures, every match of the subject once, and the
\* subject with those matches replaced.  A capture that match() opened or
\* closed on a path it gave up must not show in the one it returns.  Stated of
\* the step in which the call ends.
MatchesAsPromised ==
  [][(status' \in {"done", "error"} /\ call.pt # <<>>) =>
       LET x == Expected(call)
       IN  /\ status' = x[1]
           /\ status' = "done" => /\ out' = x[2]
                                  /\ call.f = "gsub" => n' = x[3]]_vars

\* For any text given as a pattern, well formed or not: while str_gsub runs
\* with a replacement that keeps the match, the text made so far and the rest
\* of the subject are the subject (an empty match skips no character and
\* repeats none), and the default limit srcl+1 ends no loop early: when it is
\* reached, nothing is left.
TextKept ==
  (call.f = "gsub" /\ call.repl = <<"string", <<<<"cap", 0>>>>>> /\ status # "error") =>
    /\ out \o (IF status = "done" THEN <<>> ELSE SubSeq(call.s, src + 1, Len(call.s))) = call.s
    /\ n > Len(call.s) => src = Len(call.s)
=============================================================================
