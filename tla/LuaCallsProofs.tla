--------------------------- MODULE LuaCallsProofs ---------------------------
(***************************************************************************)
(* Proofs about LuaCalls: the inductive invariant, the actions, all of     *)
(* which leave it true, and the theorems.                                  *)
(*                                                                         *)
(* luaD_throw cuts the C stack down to a frame far below, so an invariant  *)
(* about the running function is not inductive: it has to say what the     *)
(* thread of EVERY activation will look like when that activation is again *)
(* the innermost one.  This is its snapshot.  The snapshots of the C stack *)
(* follow from one another (Link), a frame of luaD_pcall has saved the one *)
(* before it, and the threads that wait agree with theirs.                 *)
(***************************************************************************)
EXTENDS LuaCalls, SequenceLemmas, FiniteSetTheorems

-----------------------------------------------------------------------------
(***************************************************************************)
(* The inductive invariant.                                                *)
(***************************************************************************)

CI == {"lua", "C"}

ThreadRec ==
    [status : {"ok", "yield", "err"}, body : BOOLEAN, ci : Seq(CI), size_ci : Nat,
     nCcalls : Int, baseCcalls : Int, errfunc : BOOLEAN]

Frame ==
    [f : {"call", "parser", "resume", "errormsg"}, th : Thread]
    \cup [f : {"execute"}, th : Thread, n : Nat \ {0}]
    \cup [f : {"C"}, th : Thread, fn : CFunction, done : BOOLEAN]
    \cup [f : {"pcall"}, th : Thread, ef : BOOLEAN, nCcalls : Int, ci : Nat, errfunc : BOOLEAN]
    \cup [f : {"raise"}, th : Thread, status : {"run", "err", "mem", "syntax"}]

\* What an activation finds in its thread while it is the innermost one.
Snapshot == [n : Int, base : Int, ci : Seq(CI), ef : BOOLEAN]

View(t) == [n |-> t.nCcalls, base |-> t.baseCcalls, ci |-> t.ci, ef |-> t.errfunc]

\* y may have called x.
Follows(y, x) ==
    /\ x.f /= "resume" => x.th = y.th
    /\ x.f = "resume" => x.th \in Co /\ y.f = "C" /\ y.fn \in {"resume", "wrap"}
    /\ x.f = "call" =>
          y.f \in {"execute", "parser", "pcall", "errormsg"} \/ (y.f = "C" /\ y.fn = "plain")
    /\ x.f = "execute" => y.f \in {"call", "resume"}
    /\ x.f = "C" => y.f \in {"call", "execute"}
    /\ x.f = "pcall" => y.f = "C" /\ y.fn \in {"pcall", "xpcall", "load"}
    /\ x.f = "parser" => y.f = "pcall"

\* The snapshot w of frame x, from the snapshot v of the frame below it.
Snap(v, x, w) ==
    IF x.f = "resume"
    THEN w = [n |-> v.n + 1, base |-> v.n + 1, ci |-> <<>>, ef |-> FALSE]
    ELSE /\ w.n = IF x.f = "call" THEN v.n + 1 ELSE v.n
         /\ w.base = v.base
         /\ w.ci = v.ci \o Infos(x)
         /\ w.ef = IF x.f = "pcall" THEN x.ef ELSE v.ef
         /\ x.f = "pcall" => x.nCcalls = v.n /\ x.ci = Len(v.ci) /\ x.errfunc = v.ef

\* Only luaD_call and the error it raises at once are as deep as the limit E.
Bounded(x, w, E) ==
    /\ w.base <= w.n /\ w.n <= E
    /\ w.n = E => x.f = "call" \/ (x.f = "raise" /\ x.status = "err")

Link(v, y, x, w, E) == Follows(y, x) /\ Snap(v, x, w) /\ Bounded(x, w, E)

\* lua_cpcall of pmain
Base ==
    [f |-> "pcall", th |-> main, ef |-> FALSE, nCcalls |-> 0, ci |-> 0, errfunc |-> FALSE]

Linked(q, s, E) ==
    /\ q \in Seq(Frame) /\ s \in Seq(Snapshot) /\ Len(q) = Len(s) /\ Len(q) >= 1
    /\ q[1] = Base /\ s[1] = [n |-> 0, base |-> 0, ci |-> <<>>, ef |-> FALSE]
    /\ \A i \in 1..(Len(q) - 1) : Link(s[i], q[i], q[i + 1], s[i + 1], E)
    /\ \A i \in 1..Len(q) : q[i].f = "resume" => \A j \in 1..(i - 1) : q[j].th /= q[i].th

\* The threads that have resumed another one.
Waiting(q, s, T) ==
    \A e \in 1..(Len(q) - 1) :
        q[e + 1].f = "resume" => T[q[e].th].status = "ok" /\ View(T[q[e].th]) = s[e]

\* A coroutine that is not on the C stack.
Idle(t) ==
    /\ t.status = "ok" => t.ci = <<>> /\ ~t.errfunc
    /\ t.status = "yield" =>
          /\ Len(t.ci) >= 2 /\ ~t.errfunc
          /\ t.ci = Append([i \in 1..(Len(t.ci) - 1) |-> "lua"], "C")

Idles(q, T) == \A co \in Co : (\A i \in 1..Len(q) : q[i].th /= co) => Idle(T[co])

\* The C stack q fits the threads T, if t is the record of the running one.
Fits(q, t, T, E) ==
    \E s \in Seq(Snapshot) :
        Linked(q, s, E) /\ Waiting(q, s, T) /\ View(t) = s[Len(q)] /\ t.status = "ok"

Sized(t) == Len(t.ci) < t.size_ci /\ BasicCI <= t.size_ci /\ t.size_ci <= 2 * MaxCalls

Good(q, T, E) ==
    /\ T \in [Thread -> ThreadRec]
    /\ \A L \in Thread : Sized(T[L])
    /\ T[main].status = "ok"
    /\ q \in Seq(Frame)
    /\ Idles(q, T)
    /\ q /= <<>> =>
          /\ Fits(q, T[Last(q).th], T, E)
          /\ Last(q).f = "call" => T[Last(q).th].nCcalls < E

Inv == prog \in Programs /\ Good(cs, th, ErrCCalls) /\ ~failed

-----------------------------------------------------------------------------
(***************************************************************************)
(* The constants, and the frames.                                          *)
(***************************************************************************)

\* What a program may be.
LEMMA ProgramTypes ==
    ASSUME prog \in Programs
    PROVE  /\ prog.co \subseteq Co /\ Callee \subseteq CFunction \cup {"lua"}
           /\ prog.fns \subseteq CFunction
           /\ MaxCCalls \in Nat \ {0} /\ ErrCCalls \in Nat /\ MaxCCalls < ErrCCalls
  BY CallsAssumption DEF Callee, MaxCCalls, ErrCCalls

\* The frames that the actions push are frames.
LEMMA FramesMade ==
    ASSUME NEW L \in Thread
    PROVE  /\ CallFrame(L) \in Frame /\ Parser(L) \in Frame
           /\ ResumeFrame(L) \in Frame /\ ErrorMsg(L) \in Frame
           /\ \A n \in Nat \ {0} : Execute(L, n) \in Frame
           /\ \A fn \in CFunction : CFrame(L, fn) \in Frame
           /\ \A status \in {"run", "err", "mem", "syntax"} : Raise(L, status) \in Frame
  BY DEF Frame, CallFrame, Parser, ResumeFrame, ErrorMsg, Execute, CFrame, Raise

\* What a frame has, by its kind.
LEMMA FrameFields ==
    ASSUME NEW x \in Frame
    PROVE  /\ x.th \in Thread
           /\ x.f \in {"call", "parser", "resume", "errormsg", "execute", "C", "pcall", "raise"}
           /\ x.f = "execute" => x.n \in Nat \ {0}
           /\ x.f = "C" => x.fn \in CFunction
           /\ x.f = "pcall" => x.ef \in BOOLEAN /\ x.nCcalls \in Int /\ x.ci \in Nat
                               /\ x.errfunc \in BOOLEAN
  BY DEF Frame

\* A C function that is done is the same otherwise.
LEMMA FrameDone ==
    ASSUME NEW x \in Frame, x.f = "C"
    PROVE  LET d == [x EXCEPT !.done = TRUE]
           IN  d \in Frame /\ d.f = "C" /\ d.th = x.th /\ d.fn = x.fn
<1>1. x \in [f : {"C"}, th : Thread, fn : CFunction, done : BOOLEAN]
  BY DEF Frame
<1> QED
  BY <1>1 DEF Frame

\* The CallInfos of a frame.
LEMMA InfosTypes ==
    ASSUME NEW x \in Frame
    PROVE  /\ Infos(x) \in Seq(CI)
           /\ x.f = "execute" => Infos(x) = [i \in 1..x.n |-> "lua"] /\ Len(Infos(x)) = x.n
           /\ x.f = "C" => Infos(x) = <<"C">>
           /\ x.f \notin {"execute", "C"} => Infos(x) = <<>>
<1>1. CASE x.f = "execute"
  <2>1. x.n \in Nat
    BY <1>1, FrameFields
  <2> DEFINE e == [i \in 1..x.n |-> "lua"]
  <2>2. e \in Seq(CI) /\ Len(e) = x.n
    BY <2>1 DEF CI
  <2>3. Infos(x) = e
    BY <1>1 DEF Infos
  <2> QED
    BY <1>1, <2>2, <2>3
<1>2. CASE x.f = "C"
  <2>1. Infos(x) = <<"C">>
    BY <1>2 DEF Infos
  <2> QED
    BY <1>2, <2>1 DEF CI
<1>3. CASE x.f \notin {"execute", "C"}
  <2>1. Infos(x) = <<>>
    BY <1>3 DEF Infos
  <2> QED
    BY <1>3, <2>1
<1> QED
  BY <1>1, <1>2, <1>3

-----------------------------------------------------------------------------
(***************************************************************************)
(* The stack of frames and snapshots.                                      *)
(***************************************************************************)

\* Pushing a frame.
LEMMA AppendEnds ==
    ASSUME NEW S, NEW q \in Seq(S), NEW x \in S
    PROVE  Last(Append(q, x)) = x /\ Front(Append(q, x)) = q
<1>1. Len(q) \in Nat
  BY LenProperties
<1> DEFINE a == Append(q, x)
<1>2. a \in Seq(S) /\ Len(a) = Len(q) + 1 /\ a /= <<>> /\ \A i \in 1..Len(q) : a[i] = q[i]
      /\ a[Len(q) + 1] = x
  BY AppendProperties
<1>3. Last(a) = x
  BY <1>2 DEF Last
<1>4. Front(a) = q
  <2> HIDE DEF a
  <2>1. Front(a) = SubSeq(a, 1, Len(q))
    BY <1>1, <1>2 DEF Front
  <2>2. \A i \in 1..Len(q) : a[i] \in S
    BY <1>2, ElementOfSeq
  <2>3. SubSeq(a, 1, Len(q)) \in Seq(S) /\ Len(SubSeq(a, 1, Len(q))) = Len(q)
        /\ \A i \in 1..Len(q) : SubSeq(a, 1, Len(q))[i] = a[1 + i - 1]
    BY <1>1, <2>2, SubSeqProperties
  <2> QED
    BY <1>1, <1>2, <2>1, <2>3, SeqEqual
<1> QED
  BY <1>3, <1>4

\* Popping a frame.
LEMMA FrontEnds ==
    ASSUME NEW S, NEW q \in Seq(S), q /= <<>>
    PROVE  /\ Len(q) \in Nat \ {0} /\ Last(q) \in S
           /\ Front(q) \in Seq(S) /\ Len(Front(q)) = Len(q) - 1
           /\ \A i \in 1..(Len(q) - 1) : Front(q)[i] = q[i]
           /\ Append(Front(q), Last(q)) = q
<1>1. Len(q) \in Nat \ {0}
  BY EmptySeq
<1>2. Last(q) \in S
  BY <1>1, ElementOfSeq DEF Last
<1>3. \A i \in 1..(Len(q) - 1) : q[i] \in S
  BY <1>1, ElementOfSeq
<1> DEFINE p == SubSeq(q, 1, Len(q) - 1)
<1>4. p \in Seq(S) /\ Len(p) = Len(q) - 1 /\ \A i \in 1..(Len(q) - 1) : p[i] = q[1 + i - 1]
  <2>1. PICK k \in Nat : k = Len(q) - 1
    BY <1>1
  <2>2. \A i \in 1..k : q[i] \in S
    BY <1>3, <2>1
  <2>3. SubSeq(q, 1, k) \in Seq(S) /\ Len(SubSeq(q, 1, k)) = k
        /\ \A i \in 1..k : SubSeq(q, 1, k)[i] = q[1 + i - 1]
    BY <2>2, SubSeqProperties
  <2> QED
    BY <2>1, <2>3
<1>5. Front(q) = p
  BY DEF Front
<1> HIDE DEF p
<1>6. \A i \in 1..(Len(q) - 1) : p[i] = q[i]
  BY <1>1, <1>4
<1> DEFINE b == Append(p, Last(q))
<1>7. b \in Seq(S) /\ Len(b) = Len(q) /\ (\A i \in 1..(Len(q) - 1) : b[i] = q[i])
      /\ b[Len(q)] = q[Len(q)]
  <2>1. b \in Seq(S) /\ Len(b) = Len(p) + 1 /\ (\A i \in 1..Len(p) : b[i] = p[i])
        /\ b[Len(p) + 1] = Last(q)
    BY <1>2, <1>4, AppendProperties
  <2> QED
    BY <1>1, <1>4, <1>6, <2>1 DEF Last
<1>8. b = q
  <2> HIDE DEF b
  <2>1. \A i \in 1..Len(q) : b[i] = q[i]
    BY <1>1, <1>7
  <2> QED
    BY <1>7, <2>1, SeqEqual
<1> QED
  BY <1>1, <1>2, <1>4, <1>5, <1>6, <1>8

\* Cutting the C stack down to its first m frames.
LEMMA CutProperties ==
    ASSUME NEW S, NEW q \in Seq(S), NEW m \in 1..Len(q)
    PROVE  LET p == SubSeq(q, 1, m)
           IN  p \in Seq(S) /\ Len(p) = m /\ (\A i \in 1..m : p[i] = q[i]) /\ Last(p) = q[m]
               /\ p /= <<>>
<1> DEFINE p == SubSeq(q, 1, m)
<1>1. Len(q) \in Nat /\ m \in Nat \ {0}
  BY LenProperties
<1>2. \A i \in 1..m : q[i] \in S
  BY <1>1, ElementOfSeq
<1>3. p \in Seq(S) /\ Len(p) = m /\ \A i \in 1..m : p[i] = q[1 + i - 1]
  BY <1>1, <1>2, SubSeqProperties
<1> HIDE DEF p
<1>4. (\A i \in 1..m : p[i] = q[i]) /\ p /= <<>>
  BY <1>1, <1>3, EmptySeq
<1> QED
  BY <1>1, <1>3, <1>4 DEF p, Last

\* What Linked says of the i-th frame and its snapshot.
LEMMA LinkedAt ==
    ASSUME NEW E \in Nat \ {0}, NEW q, NEW s, Linked(q, s, E), NEW i \in 1..Len(q)
    PROVE  /\ q[i] \in Frame /\ s[i] \in Snapshot /\ Bounded(q[i], s[i], E)
           /\ Len(q) \in Nat \ {0} /\ q /= <<>> /\ Last(q) = q[Len(q)] /\ Last(s) = s[Len(q)]
           /\ i >= 2 => Link(s[i - 1], q[i - 1], q[i], s[i], E)
           /\ q[i].f \in {"resume", "C", "execute", "call", "raise", "parser", "errormsg"} => i >= 2
<1>1. q \in Seq(Frame) /\ s \in Seq(Snapshot) /\ Len(q) = Len(s) /\ Len(q) >= 1
      /\ q[1] = Base /\ s[1] = [n |-> 0, base |-> 0, ci |-> <<>>, ef |-> FALSE]
      /\ \A k \in 1..(Len(q) - 1) : Link(s[k], q[k], q[k + 1], s[k + 1], E)
  BY DEF Linked
<1>2. Len(q) \in Nat \ {0} /\ q /= <<>>
  BY <1>1, LenProperties, EmptySeq
<1>3. q[i] \in Frame /\ s[i] \in Snapshot
  BY <1>1, ElementOfSeq
<1>4. i >= 2 => Link(s[i - 1], q[i - 1], q[i], s[i], E)
  <2> SUFFICES ASSUME i >= 2 PROVE Link(s[i - 1], q[i - 1], q[i], s[i], E)
    OBVIOUS
  <2>1. i - 1 \in 1..(Len(q) - 1) /\ (i - 1) + 1 = i
    BY <1>2
  <2> QED
    BY <1>1, <2>1
<1>5. Bounded(q[i], s[i], E)
  <2>1. CASE i = 1
    <3>1. s[i].base = 0 /\ s[i].n = 0
      BY <1>1, <2>1
    <3> QED
      BY <3>1 DEF Bounded
  <2>2. CASE i >= 2
    BY <1>4, <2>2 DEF Link
  <2> QED
    BY <1>2, <2>1, <2>2
<1>6. q[i].f \in {"resume", "C", "execute", "call", "raise", "parser", "errormsg"} => i >= 2
  <2>1. q[1].f = "pcall"
    BY <1>1 DEF Base
  <2> QED
    BY <1>2, <2>1
<1> QED
  BY <1>1, <1>2, <1>3, <1>4, <1>5, <1>6 DEF Last

\* The frames of one thread lie together, above the lua_resume that entered it.
LEMMA Segment ==
    ASSUME NEW E \in Nat \ {0}, NEW q, NEW s, Linked(q, s, E), NEW j \in 1..Len(q)
    PROVE  \E r \in 1..j :
              /\ r = 1 \/ q[r].f = "resume"
              /\ \A k \in (r + 1)..j : q[k].f /= "resume"
              /\ \A k \in r..j : q[k].th = q[j].th
<1> DEFINE P(m, r) == /\ r = 1 \/ q[r].f = "resume"
                      /\ \A k \in (r + 1)..m : q[k].f /= "resume"
                      /\ \A k \in r..m : q[k].th = q[m].th
           A == {m \in 0..Len(q) : m = 0 \/ \E r \in 1..m : P(m, r)}
<1>0. Len(q) \in Nat
  BY LinkedAt
<1>1. 0 \in A
  BY <1>0
<1>2. ASSUME NEW m \in 0..Len(q), m \in A, m < Len(q) PROVE m + 1 \in A
  <2>0. m + 1 \in 1..Len(q)
    BY <1>0, <1>2
  <2>1. CASE m = 0 \/ q[m + 1].f = "resume"
    <3>1. P(m + 1, m + 1)
      BY <2>1, <1>0
    <3> HIDE DEF P
    <3> QED
      BY <2>0, <3>1, <1>0
  <2>2. CASE m /= 0 /\ q[m + 1].f /= "resume"
    <3>1. PICK r \in 1..m : P(m, r)
      BY <1>2, <2>2
    <3>2. Link(s[m], q[m], q[m + 1], s[m + 1], E)
      BY <2>0, <2>2, <1>0 DEF Linked
    <3>3. q[m + 1].th = q[m].th
      BY <2>2, <3>2 DEF Link, Follows
    <3>4. P(m + 1, r)
      <4>1. \A k \in (r + 1)..(m + 1) : q[k].f /= "resume"
        BY <2>2, <3>1, <1>0
      <4>2. \A k \in r..(m + 1) : q[k].th = q[m + 1].th
        BY <3>1, <3>3, <1>0
      <4> QED
        BY <3>1, <4>1, <4>2
    <3> HIDE DEF P
    <3> QED
      BY <2>0, <3>1, <3>4, <1>0
  <2> QED
    BY <2>1, <2>2
<1> HIDE DEF A
<1>3. \A m \in 0..Len(q) : m \in A /\ m < Len(q) => m + 1 \in A
  BY <1>2
<1>4. 0..Len(q) \subseteq A
  BY <1>0, <1>1, <1>3, Induction
<1>5. j \in A
  BY <1>4, <1>0
<1> QED
  BY <1>5, <1>0 DEF A

\* The CallInfos u are v and what has been entered since.
Extends(u, v) == \E c \in Seq(CI) : u = v \o c

\* What is called in a thread leaves the CallInfos below alone.
LEMMA CallInfosGrow ==
    ASSUME NEW E \in Nat \ {0}, NEW q, NEW s, Linked(q, s, E),
           NEW i \in 1..Len(q), NEW j \in i..Len(q),
           \A k \in (i + 1)..j : q[k].f /= "resume"
    PROVE  s[j].base = s[i].base /\ Extends(s[j].ci, s[i].ci)
<1> DEFINE n == j - i
           P(m) == s[i + m].base = s[i].base /\ \E c \in Seq(CI) : s[i + m].ci = s[i].ci \o c
           A == {m \in 0..n : P(m)}
<1>0. Len(q) \in Nat /\ n \in Nat /\ \A k \in 1..Len(q) : s[k] \in Snapshot /\ q[k] \in Frame
  BY LinkedAt
<1>a. s[i].ci \in Seq(CI)
  BY <1>0 DEF Snapshot
<1>1. 0 \in A
  <2>1. s[i].ci = s[i].ci \o <<>> /\ <<>> \in Seq(CI)
    BY <1>a, ConcatEmptySeq, EmptySeq
  <2>2. i + 0 = i
    BY <1>0
  <2>3. P(0)
    <3>1. \E c \in Seq(CI) : s[i].ci = s[i].ci \o c
      BY <2>1
    <3> QED
      BY <2>2, <3>1
  <2> HIDE DEF P
  <2> QED
    BY <2>3, <1>0
<1>2. ASSUME NEW m \in 0..n, m \in A, m < n PROVE m + 1 \in A
  <2>1. PICK c \in Seq(CI) : s[i + m].ci = s[i].ci \o c
    BY <1>2
  <2>2. Link(s[i + m], q[i + m], q[i + m + 1], s[i + m + 1], E) /\ q[i + m + 1].f /= "resume"
    <3>1. i + m \in 1..(Len(q) - 1) /\ i + m + 1 \in (i + 1)..j
      BY <1>0, <1>2
    <3> QED
      BY <3>1 DEF Linked
  <2> DEFINE x == q[i + m + 1]
  <2>3. Infos(x) \in Seq(CI)
    <3>1. i + m + 1 \in 1..Len(q)
      BY <1>0, <1>2
    <3> QED
      BY <1>0, <3>1, InfosTypes
  <2>4. s[i + m + 1].base = s[i + m].base /\ s[i + m + 1].ci = s[i + m].ci \o Infos(x)
    BY <2>2 DEF Link, Snap
  <2>5. (s[i].ci \o c) \o Infos(x) = s[i].ci \o (c \o Infos(x)) /\ c \o Infos(x) \in Seq(CI)
    <3> HIDE DEF x
    <3>1. PICK e \in Seq(CI) : e = Infos(x)
      BY <2>3
    <3>2. PICK v \in Seq(CI) : v = s[i].ci
      BY <1>a
    <3>3. (v \o c) \o e = v \o (c \o e)
      BY ConcatAssociative
    <3>4. c \o e \in Seq(CI)
      BY ConcatProperties
    <3> QED
      BY <3>1, <3>2, <3>3, <3>4
  <2>6. s[i + m].base = s[i].base
    BY <1>2
  <2>7. P(m + 1)
    <3>1. i + (m + 1) = i + m + 1
      BY <1>0
    <3> QED
      BY <2>1, <2>4, <2>5, <2>6, <3>1
  <2> HIDE DEF P
  <2> QED
    BY <2>7, <1>0, <1>2
<1> HIDE DEF A
<1>3. \A m \in 0..n : m \in A /\ m < n => m + 1 \in A
  BY <1>2
<1>4. 0..n \subseteq A
  <2> HIDE DEF n
  <2> QED
    BY <1>0, <1>1, <1>3, Induction
<1>5. n \in A /\ i + n = j
  BY <1>4, <1>0
<1> QED
  BY <1>5 DEF A, Extends

\* A frame and its snapshot on top of the stack.
LEMMA LinkedPush ==
    ASSUME NEW E \in Nat \ {0}, NEW q, NEW s, Linked(q, s, E), NEW x \in Frame, NEW w \in Snapshot,
           Link(Last(s), Last(q), x, w, E),
           x.f = "resume" => \A j \in 1..Len(q) : q[j].th /= x.th
    PROVE  Linked(Append(q, x), Append(s, w), E)
<1>1. q \in Seq(Frame) /\ s \in Seq(Snapshot) /\ Len(q) = Len(s) /\ Len(q) \in Nat \ {0}
  BY LenProperties DEF Linked
<1>2. Last(q) = q[Len(q)] /\ Last(s) = s[Len(q)]
  BY <1>1 DEF Last
<1> DEFINE a == Append(q, x)
           b == Append(s, w)
           n == Len(q)
<1>3. a \in Seq(Frame) /\ Len(a) = n + 1 /\ (\A i \in 1..n : a[i] = q[i]) /\ a[n + 1] = x
  BY <1>1, AppendProperties
<1>4. b \in Seq(Snapshot) /\ Len(b) = n + 1 /\ (\A i \in 1..n : b[i] = s[i]) /\ b[n + 1] = w
  BY <1>1, AppendProperties
<1> HIDE DEF a, b
<1>5. a[1] = Base /\ b[1] = [n |-> 0, base |-> 0, ci |-> <<>>, ef |-> FALSE]
  BY <1>1, <1>3, <1>4 DEF Linked
<1>6. ASSUME NEW i \in 1..(Len(a) - 1) PROVE Link(b[i], a[i], a[i + 1], b[i + 1], E)
  <2>1. CASE i < n
    <3>1. i \in 1..(n - 1) /\ i + 1 \in 1..n
      BY <1>1, <1>3, <2>1
    <3>2. Link(s[i], q[i], q[i + 1], s[i + 1], E)
      BY <3>1 DEF Linked
    <3> QED
      BY <1>1, <1>3, <1>4, <3>1, <3>2
  <2>2. CASE i = n
    BY <1>1, <1>2, <1>3, <1>4, <2>2
  <2> QED
    BY <1>1, <1>3, <2>1, <2>2
<1>7. ASSUME NEW i \in 1..Len(a), a[i].f = "resume", NEW j \in 1..(i - 1) PROVE a[j].th /= a[i].th
  <2>1. CASE i \in 1..n
    <3>1. j \in 1..n /\ q[i].f = "resume"
      BY <1>1, <1>3, <1>7, <2>1
    <3>2. q[j].th /= q[i].th
      BY <2>1, <3>1 DEF Linked
    <3> QED
      BY <1>3, <2>1, <3>1, <3>2
  <2>2. CASE i = n + 1
    BY <1>1, <1>3, <1>7, <2>2
  <2> QED
    BY <1>1, <1>3, <2>1, <2>2
<1>8. Linked(a, b, E)
  <2>1. Len(a) = Len(b) /\ Len(a) >= 1
    BY <1>1, <1>3, <1>4
  <2> QED
    BY <1>3, <1>4, <1>5, <1>6, <1>7, <2>1 DEF Linked
<1> QED
  BY <1>8 DEF a, b

\* The first m frames are such a stack, too.
LEMMA LinkedCut ==
    ASSUME NEW E \in Nat \ {0}, NEW q, NEW s, Linked(q, s, E), NEW m \in 1..Len(q)
    PROVE  Linked(SubSeq(q, 1, m), SubSeq(s, 1, m), E)
<1>1. q \in Seq(Frame) /\ s \in Seq(Snapshot) /\ Len(q) = Len(s) /\ Len(q) \in Nat \ {0}
  BY LenProperties DEF Linked
<1> DEFINE a == SubSeq(q, 1, m)
           b == SubSeq(s, 1, m)
<1>3. a \in Seq(Frame) /\ Len(a) = m /\ (\A i \in 1..m : a[i] = q[i])
  BY <1>1, CutProperties
<1>4. b \in Seq(Snapshot) /\ Len(b) = m /\ (\A i \in 1..m : b[i] = s[i])
  BY <1>1, CutProperties
<1> HIDE DEF a, b
<1>5. a[1] = Base /\ b[1] = [n |-> 0, base |-> 0, ci |-> <<>>, ef |-> FALSE]
  BY <1>1, <1>3, <1>4 DEF Linked
<1>6. ASSUME NEW i \in 1..(Len(a) - 1) PROVE Link(b[i], a[i], a[i + 1], b[i + 1], E)
  <2>1. i \in 1..(Len(q) - 1) /\ i \in 1..m /\ i + 1 \in 1..m
    BY <1>1, <1>3
  <2>2. Link(s[i], q[i], q[i + 1], s[i + 1], E)
    BY <2>1 DEF Linked
  <2> QED
    BY <1>3, <1>4, <2>1, <2>2
<1>7. ASSUME NEW i \in 1..Len(a), a[i].f = "resume", NEW j \in 1..(i - 1) PROVE a[j].th /= a[i].th
  <2>1. i \in 1..Len(q) /\ i \in 1..m /\ j \in 1..m
    BY <1>1, <1>3
  <2>2. q[i].f = "resume"
    BY <1>3, <1>7, <2>1
  <2>3. q[j].th /= q[i].th
    BY <2>1, <2>2 DEF Linked
  <2> QED
    BY <1>3, <2>1, <2>3
<1>8. Linked(a, b, E)
  <2>1. Len(a) = Len(b) /\ Len(a) >= 1
    BY <1>1, <1>3, <1>4
  <2> QED
    BY <1>3, <1>4, <1>5, <1>6, <1>7, <2>1 DEF Linked
<1> QED
  BY <1>8 DEF a, b

-----------------------------------------------------------------------------
(***************************************************************************)
(* Pushing and cutting frames of the running thread.                       *)
(***************************************************************************)

\* What holds of a C stack that fits.
LEMMA FitsTypes ==
    ASSUME NEW E \in Nat \ {0}, NEW q, NEW t, NEW T, Fits(q, t, T, E)
    PROVE  /\ q \in Seq(Frame) /\ q /= <<>> /\ Len(q) \in Nat \ {0}
           /\ Last(q) = q[Len(q)] /\ Last(q) \in Frame /\ Last(q).th \in Thread
           /\ t.status = "ok" /\ View(t) \in Snapshot /\ Bounded(Last(q), View(t), E)
           /\ q[1] = Base
           /\ Last(q).f /= "pcall" => Len(q) >= 2
<1>1. PICK s \in Seq(Snapshot) :
          Linked(q, s, E) /\ Waiting(q, s, T) /\ View(t) = s[Len(q)] /\ t.status = "ok"
  BY DEF Fits
<1>2. q \in Seq(Frame) /\ Len(q) \in Nat \ {0} /\ Len(q) = Len(s) /\ q[1] = Base
  BY <1>1, LenProperties DEF Linked
<1>3. Len(q) \in 1..Len(q)
  BY <1>2
<1>4. q[Len(q)] \in Frame /\ s[Len(q)] \in Snapshot /\ Bounded(q[Len(q)], s[Len(q)], E)
      /\ q /= <<>> /\ Last(q) = q[Len(q)]
  BY <1>1, <1>3, LinkedAt
<1>5. Last(q).f /= "pcall" => Len(q) >= 2
  <2>1. Base.f = "pcall"
    BY DEF Base
  <2> QED
    BY <1>2, <1>4, <2>1
<1> QED
  BY <1>1, <1>2, <1>4, <1>5, FrameFields

\* Calling in the same thread.
LEMMA Push ==
    ASSUME NEW E \in Nat \ {0}, NEW q, NEW t, NEW T, Fits(q, t, T, E),
           NEW x \in Frame, x.f /= "resume",
           NEW u \in ThreadRec, u.status = "ok", Link(View(t), Last(q), x, View(u), E)
    PROVE  Fits(Append(q, x), u, T, E)
<1>1. PICK s \in Seq(Snapshot) :
          Linked(q, s, E) /\ Waiting(q, s, T) /\ View(t) = s[Len(q)] /\ t.status = "ok"
  BY DEF Fits
<1>2. q \in Seq(Frame) /\ Len(q) \in Nat \ {0} /\ Len(q) = Len(s)
  BY <1>1, LenProperties DEF Linked
<1> DEFINE w == View(u)
           a == Append(q, x)
           b == Append(s, w)
<1>3. w \in Snapshot
  BY DEF View, Snapshot, ThreadRec
<1>4. Last(s) = View(t)
  BY <1>1, <1>2 DEF Last
<1>5. Linked(a, b, E)
  <2> HIDE DEF w
  <2>1. Link(Last(s), Last(q), x, w, E)
    BY <1>4 DEF w
  <2> QED
    BY <1>1, <1>3, <2>1, LinkedPush
<1>6. a \in Seq(Frame) /\ Len(a) = Len(q) + 1 /\ (\A i \in 1..Len(q) : a[i] = q[i])
      /\ a[Len(q) + 1] = x
  BY <1>2, AppendProperties
<1>7. b \in Seq(Snapshot) /\ Len(b) = Len(q) + 1 /\ (\A i \in 1..Len(q) : b[i] = s[i])
      /\ b[Len(q) + 1] = w
  <2> HIDE DEF w
  <2> QED
    BY <1>2, <1>3, AppendProperties
<1> HIDE DEF a, b
<1>8. Waiting(a, b, T)
  <2> SUFFICES ASSUME NEW e \in 1..(Len(a) - 1), a[e + 1].f = "resume"
               PROVE  T[a[e].th].status = "ok" /\ View(T[a[e].th]) = b[e]
    BY DEF Waiting
  <2>1. e \in 1..(Len(q) - 1) /\ e + 1 \in 1..Len(q) /\ e \in 1..Len(q)
    BY <1>2, <1>6
  <2>2. q[e + 1].f = "resume" /\ a[e] = q[e] /\ b[e] = s[e]
    BY <1>6, <1>7, <2>1
  <2> QED
    BY <1>1, <2>1, <2>2 DEF Waiting
<1>9. View(u) = b[Len(a)]
  BY <1>6, <1>7
<1>10. Fits(a, u, T, E)
  BY <1>5, <1>7, <1>8, <1>9 DEF Fits
<1> QED
  BY <1>10 DEF a

\* lua_resume: the thread that calls it waits.
LEMMA Enter ==
    ASSUME NEW E \in Nat \ {0}, NEW q, NEW T, Fits(q, T[Last(q).th], T, E),
           NEW x \in Frame, x.f = "resume", \A j \in 1..Len(q) : q[j].th /= x.th,
           NEW u \in ThreadRec, u.status = "ok",
           Link(View(T[Last(q).th]), Last(q), x, View(u), E)
    PROVE  Fits(Append(q, x), u, T, E)
<1> DEFINE t == T[Last(q).th]
<1>1. PICK s \in Seq(Snapshot) :
          Linked(q, s, E) /\ Waiting(q, s, T) /\ View(t) = s[Len(q)] /\ t.status = "ok"
  BY DEF Fits
<1>2. q \in Seq(Frame) /\ Len(q) \in Nat \ {0} /\ Len(q) = Len(s)
  BY <1>1, LenProperties DEF Linked
<1> DEFINE w == View(u)
           a == Append(q, x)
           b == Append(s, w)
<1>3. w \in Snapshot
  BY DEF View, Snapshot, ThreadRec
<1>4. Last(s) = View(t) /\ Last(q) = q[Len(q)]
  BY <1>1, <1>2 DEF Last
<1>5. Linked(a, b, E)
  <2> HIDE DEF w
  <2>1. Link(Last(s), Last(q), x, w, E)
    BY <1>4 DEF w
  <2> QED
    BY <1>1, <1>3, <2>1, LinkedPush
<1>6. a \in Seq(Frame) /\ Len(a) = Len(q) + 1 /\ (\A i \in 1..Len(q) : a[i] = q[i])
      /\ a[Len(q) + 1] = x
  BY <1>2, AppendProperties
<1>7. b \in Seq(Snapshot) /\ Len(b) = Len(q) + 1 /\ (\A i \in 1..Len(q) : b[i] = s[i])
      /\ b[Len(q) + 1] = w
  <2> HIDE DEF w
  <2> QED
    BY <1>2, <1>3, AppendProperties
<1> HIDE DEF a, b
<1>8. Waiting(a, b, T)
  <2> SUFFICES ASSUME NEW e \in 1..(Len(a) - 1), a[e + 1].f = "resume"
               PROVE  T[a[e].th].status = "ok" /\ View(T[a[e].th]) = b[e]
    BY DEF Waiting
  <2>0. a[e] = q[e] /\ b[e] = s[e]
    BY <1>2, <1>6, <1>7
  <2>1. CASE e < Len(q)
    <3>1. e \in 1..(Len(q) - 1) /\ e + 1 \in 1..Len(q)
      BY <1>2, <1>6, <2>1
    <3>2. q[e + 1].f = "resume"
      BY <1>6, <3>1
    <3> QED
      BY <1>1, <2>0, <3>1, <3>2 DEF Waiting
  <2>2. CASE e = Len(q)
    BY <1>1, <1>4, <2>0, <2>2
  <2> QED
    BY <1>2, <1>6, <2>1, <2>2
<1>9. View(u) = b[Len(a)]
  BY <1>6, <1>7
<1>10. Fits(a, u, T, E)
  BY <1>5, <1>7, <1>8, <1>9 DEF Fits
<1> QED
  BY <1>10 DEF a

\* The frames from m + 1 on are gone: the thread of frame m has to look like its
\* snapshot v, from which the snapshot w of frame m + 1 has been made.
CutAt(q, t, T, E, m, v, w) ==
    /\ Link(v, q[m], q[m + 1], w, E) /\ Bounded(q[m], v, E)
    /\ (\A k \in (m + 2)..Len(q) : q[k].f /= "resume") =>
          View(t).base = w.base /\ Extends(View(t).ci, w.ci)
    /\ q[m + 1].f = "resume" => T[q[m].th].status = "ok" /\ View(T[q[m].th]) = v
    /\ m + 1 = Len(q) => View(t) = w
    /\ \A u : u.status = "ok" /\ View(u) = v => Fits(SubSeq(q, 1, m), u, T, E)

LEMMA Cut ==
    ASSUME NEW E \in Nat \ {0}, NEW q, NEW t, NEW T, Fits(q, t, T, E),
           NEW m \in 1..(Len(q) - 1)
    PROVE  \E v \in Snapshot, w \in Snapshot : CutAt(q, t, T, E, m, v, w)
<1>1. PICK s \in Seq(Snapshot) :
          Linked(q, s, E) /\ Waiting(q, s, T) /\ View(t) = s[Len(q)] /\ t.status = "ok"
  BY DEF Fits
<1>2. q \in Seq(Frame) /\ Len(q) \in Nat \ {0} /\ Len(q) = Len(s)
  BY <1>1, LenProperties DEF Linked
<1>3. m \in 1..Len(q) /\ m + 1 \in 1..Len(q)
  BY <1>2
<1> DEFINE a == SubSeq(q, 1, m)
           b == SubSeq(s, 1, m)
<1>4. Linked(a, b, E)
  BY <1>1, <1>3, LinkedCut
<1>5. Len(a) = m /\ (\A i \in 1..m : a[i] = q[i])
  BY <1>2, <1>3, CutProperties
<1>6. b \in Seq(Snapshot) /\ (\A i \in 1..m : b[i] = s[i])
  BY <1>2, <1>3, CutProperties
<1> HIDE DEF a, b
<1>7. Waiting(a, b, T)
  <2> SUFFICES ASSUME NEW e \in 1..(Len(a) - 1), a[e + 1].f = "resume"
               PROVE  T[a[e].th].status = "ok" /\ View(T[a[e].th]) = b[e]
    BY DEF Waiting
  <2>1. e \in 1..(Len(q) - 1) /\ e + 1 \in 1..m /\ e \in 1..m
    BY <1>2, <1>3, <1>5
  <2>2. q[e + 1].f = "resume" /\ a[e] = q[e] /\ b[e] = s[e]
    BY <1>5, <1>6, <2>1
  <2> QED
    BY <1>1, <2>1, <2>2 DEF Waiting
<1>8. \A u : u.status = "ok" /\ View(u) = s[m] => Fits(a, u, T, E)
  BY <1>3, <1>4, <1>5, <1>6, <1>7 DEF Fits
<1>9. s[m] \in Snapshot /\ s[m + 1] \in Snapshot /\ Bounded(q[m], s[m], E)
  BY <1>1, <1>3, LinkedAt
<1>10. Link(s[m], q[m], q[m + 1], s[m + 1], E)
  BY <1>1 DEF Linked
<1>11. (\A k \in (m + 2)..Len(q) : q[k].f /= "resume") =>
          View(t).base = s[m + 1].base /\ Extends(View(t).ci, s[m + 1].ci)
  <2> SUFFICES ASSUME \A k \in (m + 2)..Len(q) : q[k].f /= "resume"
               PROVE  View(t).base = s[m + 1].base /\ Extends(View(t).ci, s[m + 1].ci)
    OBVIOUS
  <2>0. PICK i \in 1..Len(q) : i = m + 1
    BY <1>3
  <2>1. PICK j \in i..Len(q) : i = m + 1 /\ j = Len(q)
    BY <1>2, <2>0
  <2>2. \A k \in (i + 1)..j : q[k].f /= "resume"
    <3>1. i + 1 = m + 2
      BY <2>1
    <3> QED
      BY <2>1, <3>1
  <2>3. s[j].base = s[i].base /\ Extends(s[j].ci, s[i].ci)
    BY <1>1, <2>2, CallInfosGrow
  <2> QED
    BY <1>1, <2>1, <2>3
<1>12. q[m + 1].f = "resume" => T[q[m].th].status = "ok" /\ View(T[q[m].th]) = s[m]
  BY <1>1 DEF Waiting
<1>13. m + 1 = Len(q) => View(t) = s[m + 1]
  BY <1>1
<1> QED
  <2>1. CutAt(q, t, T, E, m, s[m], s[m + 1])
    BY <1>8, <1>9, <1>10, <1>11, <1>12, <1>13 DEF a, CutAt
  <2> QED
    BY <1>9, <2>1

\* A thread with a given snapshot.
LEMMA SnapshotThread ==
    ASSUME NEW v \in Snapshot
    PROVE  \E u \in ThreadRec : u.status = "ok" /\ View(u) = v
<1> DEFINE u == [status |-> "ok", body |-> FALSE, ci |-> v.ci, size_ci |-> 0,
                 nCcalls |-> v.n, baseCcalls |-> v.base, errfunc |-> v.ef]
<1>1. u \in ThreadRec
  BY DEF Snapshot, ThreadRec
<1>2. View(u) = v
  BY DEF Snapshot, View
<1> QED
  BY <1>1, <1>2

\* A C function that is done with its call.
LEMMA MarkDone ==
    ASSUME NEW E \in Nat \ {0}, NEW q, NEW t \in ThreadRec, NEW T, Fits(q, t, T, E),
           Last(q).f = "C"
    PROVE  LET d == [Last(q) EXCEPT !.done = TRUE]
           IN  /\ Fits(Append(Front(q), d), t, T, E) /\ Last(Append(Front(q), d)) = d
               /\ d.f = "C" /\ d.th = Last(q).th /\ d.fn = Last(q).fn /\ d \in Frame
<1> DEFINE x == Last(q)
           d == [Last(q) EXCEPT !.done = TRUE]
           m == Len(q) - 1
<1>1. q \in Seq(Frame) /\ q /= <<>> /\ Len(q) \in Nat /\ Len(q) >= 2 /\ x = q[Len(q)]
      /\ x \in Frame /\ t.status = "ok"
  BY FitsTypes
<1>2. d \in Frame /\ d.f = "C" /\ d.th = x.th /\ d.fn = x.fn
  BY <1>1, FrameDone
<1> HIDE DEF d
<1>3. m \in 1..(Len(q) - 1) /\ m + 1 = Len(q)
  BY <1>1
<1>4. Front(q) = SubSeq(q, 1, m)
  BY DEF Front
<1>5. PICK v \in Snapshot : Link(v, q[m], x, View(t), E)
                            /\ \A u : u.status = "ok" /\ View(u) = v => Fits(Front(q), u, T, E)
  <2> HIDE DEF m
  <2>1. PICK v \in Snapshot, w \in Snapshot : CutAt(q, t, T, E, m, v, w)
    BY <1>3, Cut
  <2> QED
    BY <1>1, <1>3, <1>4, <2>1 DEF CutAt
<1>6. PICK u \in ThreadRec : u.status = "ok" /\ View(u) = v
  BY SnapshotThread
<1>7. Fits(Front(q), u, T, E)
  BY <1>5, <1>6
<1>8. Infos(d) = Infos(x)
  BY <1>2 DEF Infos
<1>9. Last(Front(q)) = q[m]
  BY <1>1, <1>3, FrontEnds DEF Last
<1>10. Link(v, q[m], d, View(t), E)
  <2>1. Follows(q[m], d)
    BY <1>2, <1>5 DEF Link, Follows
  <2>2. Snap(v, d, View(t))
    BY <1>2, <1>5, <1>8 DEF Link, Snap
  <2>3. Bounded(d, View(t), E)
    BY <1>2, <1>5 DEF Link, Bounded
  <2> QED
    BY <2>1, <2>2, <2>3 DEF Link
<1>11. Fits(Append(Front(q), d), t, T, E)
  BY <1>1, <1>2, <1>6, <1>7, <1>9, <1>10, Push
<1>12. Last(Append(Front(q), d)) = d
  <2>1. Front(q) \in Seq(Frame)
    BY <1>1, FrontEnds
  <2> QED
    BY <1>2, <2>1, AppendEnds
<1> QED
  BY <1>2, <1>11, <1>12 DEF d

-----------------------------------------------------------------------------
(***************************************************************************)
(* A handler works on the record t of the running thread L and on the C    *)
(* stack q; the threads are T otherwise.                                   *)
(***************************************************************************)

Works(q, t, L, T, E) ==
    /\ t \in ThreadRec /\ Sized(t) /\ L = Last(q).th
    /\ Fits(q, t, T, E) /\ Idles(q, T)

Threads(T) ==
    T \in [Thread -> ThreadRec] /\ (\A L \in Thread : Sized(T[L])) /\ T[main].status = "ok"

\* Before a step the running thread works on what there is.
LEMMA Starts ==
    ASSUME NEW E \in Nat \ {0}, NEW q, NEW T, Good(q, T, E), q /= <<>>
    PROVE  /\ Threads(T) /\ Works(q, T[Last(q).th], Last(q).th, T, E)
           /\ q \in Seq(Frame) /\ Last(q) \in Frame
           /\ Last(q).f = "call" => T[Last(q).th].nCcalls < E
<1>1. Fits(q, T[Last(q).th], T, E)
  BY DEF Good
<1>2. q \in Seq(Frame) /\ Last(q) \in Frame /\ Last(q).th \in Thread
  BY <1>1, FitsTypes
<1> QED
  BY <1>1, <1>2 DEF Good, Works, Threads

\* The thread that runs is none of those that wait.
LEMMA OthersWait ==
    ASSUME NEW E \in Nat \ {0}, NEW q, NEW s, Linked(q, s, E), NEW e \in 1..(Len(q) - 1),
           q[e + 1].f = "resume"
    PROVE  q[e].th /= Last(q).th
<1>1. Len(q) \in Nat \ {0} /\ Len(q) \in 1..Len(q) /\ Last(q) = q[Len(q)]
  BY LenProperties DEF Linked, Last
<1>2. PICK r \in 1..Len(q) :
          /\ r = 1 \/ q[r].f = "resume"
          /\ \A k \in (r + 1)..Len(q) : q[k].f /= "resume"
          /\ \A k \in r..Len(q) : q[k].th = q[Len(q)].th
  BY <1>1, Segment
<1>3. e + 1 <= r
  <2>1. e + 1 \in 1..Len(q) /\ e + 1 \notin (r + 1)..Len(q)
    BY <1>1, <1>2
  <2> QED
    BY <1>1, <2>1
<1>4. q[r].f = "resume" /\ e \in 1..(r - 1)
  BY <1>1, <1>2, <1>3
<1>5. q[e].th /= q[r].th
  BY <1>4 DEF Linked
<1> QED
  BY <1>1, <1>2, <1>5

\* The threads that a C stack tells about.
LEMMA FitsOthers ==
    ASSUME NEW E \in Nat \ {0}, NEW q, NEW t, NEW T, NEW U, Fits(q, t, T, E),
           \A i \in 1..Len(q) : q[i].th /= Last(q).th => U[q[i].th] = T[q[i].th]
    PROVE  Fits(q, t, U, E)
<1>1. PICK s \in Seq(Snapshot) :
          Linked(q, s, E) /\ Waiting(q, s, T) /\ View(t) = s[Len(q)] /\ t.status = "ok"
  BY DEF Fits
<1>2. Len(q) \in Nat \ {0}
  BY <1>1, LenProperties DEF Linked
<1>3. Waiting(q, s, U)
  <2> SUFFICES ASSUME NEW e \in 1..(Len(q) - 1), q[e + 1].f = "resume"
               PROVE  U[q[e].th].status = "ok" /\ View(U[q[e].th]) = s[e]
    BY DEF Waiting
  <2>1. e \in 1..Len(q)
    BY <1>2
  <2>2. U[q[e].th] = T[q[e].th]
    BY <1>1, <2>1, OthersWait
  <2> QED
    BY <1>1, <2>2 DEF Waiting
<1> QED
  BY <1>1, <1>3 DEF Fits

\* After a step that has come to q and t.
LEMMA Ready ==
    ASSUME NEW E \in Nat \ {0}, NEW q, NEW t, NEW L, NEW T, Threads(T), Works(q, t, L, T, E),
           Last(q).f = "call" => t.nCcalls < E
    PROVE  Good(q, [T EXCEPT ![L] = t], E)
<1> DEFINE U == [T EXCEPT ![L] = t]
<1>1. t \in ThreadRec /\ Sized(t) /\ L = Last(q).th /\ Fits(q, t, T, E) /\ Idles(q, T)
  BY DEF Works
<1>2. q \in Seq(Frame) /\ Last(q) \in Frame /\ L \in Thread /\ t.status = "ok"
      /\ Last(q) = q[Len(q)] /\ Len(q) \in Nat \ {0}
  BY <1>1, FitsTypes
<1>3. U \in [Thread -> ThreadRec] /\ U[L] = t /\ \A M \in Thread : M /= L => U[M] = T[M]
  BY <1>1, <1>2 DEF Threads
<1> HIDE DEF U
<1>4. (\A M \in Thread : Sized(U[M])) /\ U[main].status = "ok"
  <2>1. main \in Thread
    BY DEF Thread
  <2> QED
    BY <1>1, <1>2, <1>3, <2>1 DEF Threads
<1>5. \A i \in 1..Len(q) : q[i].th \in Thread
  BY <1>2, ElementOfSeq, FrameFields
<1>6. Fits(q, t, U, E)
  BY <1>1, <1>3, <1>5, FitsOthers
<1>7. Idles(q, U)
  <2> SUFFICES ASSUME NEW co \in Co, \A i \in 1..Len(q) : q[i].th /= co PROVE Idle(U[co])
    BY DEF Idles
  <2>1. co /= L /\ co \in Thread
    BY <1>1, <1>2 DEF Thread
  <2> QED
    BY <1>1, <1>3, <2>1 DEF Idles
<1>8. Good(q, U, E)
  BY <1>1, <1>2, <1>3, <1>4, <1>6, <1>7 DEF Good
<1> QED
  BY <1>8 DEF U

\* Calling in the running thread.
LEMMA WorksPush ==
    ASSUME NEW E \in Nat \ {0}, NEW q, NEW t, NEW L, NEW T, Works(q, t, L, T, E),
           NEW x \in Frame, x.f /= "resume",
           NEW u \in ThreadRec, Sized(u), u.status = "ok", Link(View(t), Last(q), x, View(u), E)
    PROVE  Works(Append(q, x), u, L, T, E) /\ Last(Append(q, x)) = x
<1>1. Fits(q, t, T, E) /\ Idles(q, T) /\ L = Last(q).th
  BY DEF Works
<1>2. q \in Seq(Frame) /\ Len(q) \in Nat
  BY <1>1, FitsTypes
<1>3. Fits(Append(q, x), u, T, E)
  BY <1>1, Push
<1>4. Last(Append(q, x)) = x
  BY <1>2, AppendEnds
<1>5. x.th = L
  BY <1>1 DEF Link, Follows
<1>6. Idles(Append(q, x), T)
  <2>1. Len(Append(q, x)) = Len(q) + 1 /\ \A i \in 1..Len(q) : Append(q, x)[i] = q[i]
    BY <1>2, AppendProperties
  <2>2. \A i \in 1..Len(q) : i \in 1..Len(Append(q, x))
    BY <1>2, <2>1
  <2> QED
    BY <1>1, <2>1, <2>2 DEF Idles
<1> QED
  BY <1>3, <1>4, <1>5, <1>6 DEF Works

\* The frames above the last lua_resume are those of the running thread.
LEMMA Running ==
    ASSUME NEW E \in Nat \ {0}, NEW q, NEW t, NEW T, Fits(q, t, T, E),
           NEW m \in 1..Len(q), \A k \in (m + 1)..Len(q) : q[k].f /= "resume"
    PROVE  \A k \in m..Len(q) : q[k].th = Last(q).th
<1>1. PICK s \in Seq(Snapshot) : Linked(q, s, E)
  BY DEF Fits
<1>2. Len(q) \in Nat \ {0} /\ Len(q) \in 1..Len(q) /\ Last(q) = q[Len(q)]
  BY <1>1, LenProperties DEF Linked, Last
<1>3. PICK r \in 1..Len(q) :
          /\ r = 1 \/ q[r].f = "resume"
          /\ \A k \in (r + 1)..Len(q) : q[k].f /= "resume"
          /\ \A k \in r..Len(q) : q[k].th = q[Len(q)].th
  BY <1>1, <1>2, Segment
<1>4. r <= m
  BY <1>2, <1>3
<1> QED
  BY <1>2, <1>3, <1>4

\* Leaving activations of the running thread: a normal return or luaD_pcall.
Back(q, t, L, T, E, m, v) ==
    \A u \in ThreadRec :
        Sized(u) /\ u.status = "ok" /\ View(u) = v => Works(SubSeq(q, 1, m), u, L, T, E)

LEMMA WorksCut ==
    ASSUME NEW E \in Nat \ {0}, NEW q, NEW t, NEW L, NEW T, Works(q, t, L, T, E),
           NEW m \in 1..(Len(q) - 1), \A k \in (m + 1)..Len(q) : q[k].f /= "resume"
    PROVE  \E v \in Snapshot, w \in Snapshot :
              CutAt(q, t, T, E, m, v, w) /\ Back(q, t, L, T, E, m, v)
<1>1. Fits(q, t, T, E) /\ Idles(q, T) /\ L = Last(q).th
  BY DEF Works
<1>2. PICK v \in Snapshot, w \in Snapshot : CutAt(q, t, T, E, m, v, w)
  BY <1>1, Cut
<1>3. q \in Seq(Frame) /\ Len(q) \in Nat /\ m \in 1..Len(q)
  BY <1>1, FitsTypes
<1>4. \A k \in m..Len(q) : q[k].th = L
  BY <1>1, <1>3, Running
<1> DEFINE p == SubSeq(q, 1, m)
<1>5. Len(p) = m /\ (\A i \in 1..m : p[i] = q[i]) /\ Last(p) = q[m]
  BY <1>3, CutProperties
<1> HIDE DEF p
<1>6. Idles(p, T)
  <2> SUFFICES ASSUME NEW co \in Co, \A i \in 1..Len(p) : p[i].th /= co PROVE Idle(T[co])
    BY DEF Idles
  <2>1. ASSUME NEW i \in 1..Len(q) PROVE q[i].th /= co
    <3>1. CASE i <= m
      BY <1>3, <1>5, <3>1
    <3>2. CASE i > m
      <4>1. q[i].th = q[m].th
        BY <1>3, <1>4, <3>2
      <4> QED
        BY <1>3, <1>5, <4>1
    <3> QED
      BY <1>3, <3>1, <3>2
  <2> QED
    BY <1>1, <2>1 DEF Idles
<1>7. ASSUME NEW u \in ThreadRec, Sized(u), u.status = "ok", View(u) = v
      PROVE  Works(p, u, L, T, E)
  <2>1. Fits(p, u, T, E)
    BY <1>2, <1>7 DEF CutAt, p
  <2>2. L = Last(p).th
    BY <1>3, <1>4, <1>5
  <2> QED
    BY <1>6, <1>7, <2>1, <2>2 DEF Works
<1>8. Back(q, t, L, T, E, m, v)
  BY <1>7 DEF Back, p
<1> QED
  BY <1>2, <1>8

\* Leaving the innermost activation: v is what it has found.
LEMMA WorksPop ==
    ASSUME NEW E \in Nat \ {0}, NEW q, NEW t, NEW L, NEW T, Works(q, t, L, T, E),
           Len(q) >= 2, Last(q).f /= "resume"
    PROVE  \E v \in Snapshot :
              /\ Link(v, Last(Front(q)), Last(q), View(t), E) /\ Bounded(Last(Front(q)), v, E)
              /\ Last(Front(q)) \in Frame
              /\ \A u \in ThreadRec :
                    Sized(u) /\ u.status = "ok" /\ View(u) = v => Works(Front(q), u, L, T, E)
<1>1. Fits(q, t, T, E)
  BY DEF Works
<1>2. q \in Seq(Frame) /\ Len(q) \in Nat /\ Last(q) = q[Len(q)] /\ q /= <<>>
  BY <1>1, FitsTypes
<1>3. PICK m \in 1..(Len(q) - 1) : m = Len(q) - 1 /\ m + 1 = Len(q)
  BY <1>2
<1>4. \A k \in (m + 1)..Len(q) : q[k].f /= "resume"
  BY <1>2, <1>3
<1>5. PICK v \in Snapshot, w \in Snapshot :
          CutAt(q, t, T, E, m, v, w) /\ Back(q, t, L, T, E, m, v)
  BY <1>4, WorksCut
<1>6. Front(q) = SubSeq(q, 1, m)
  BY <1>3 DEF Front
<1>7. Last(Front(q)) = q[m] /\ q[m] \in Frame
  BY <1>2, <1>3, FrontEnds, ElementOfSeq DEF Last
<1>8. Link(v, q[m], Last(q), View(t), E) /\ Bounded(q[m], v, E)
  BY <1>2, <1>3, <1>5 DEF CutAt
<1> QED
  BY <1>5, <1>6, <1>7, <1>8 DEF Back

\* A frame that changes nothing in its thread.
LEMMA WorksPlain ==
    ASSUME NEW E \in Nat \ {0}, NEW q, NEW t, NEW L, NEW T, Works(q, t, L, T, E),
           NEW x \in Frame, x.f \in {"raise", "errormsg", "parser"}, x.th = L,
           x.f = "parser" => Last(q).f = "pcall",
           t.nCcalls < E \/ (x.f = "raise" /\ x.status = "err"),
           NEW u \in ThreadRec, Sized(u), u.status = "ok", View(u) = View(t)
    PROVE  Works(Append(q, x), u, L, T, E) /\ Last(Append(q, x)) = x
<1>1. Fits(q, t, T, E) /\ L = Last(q).th
  BY DEF Works
<1>2. View(t) \in Snapshot /\ Bounded(Last(q), View(t), E)
  BY <1>1, FitsTypes
<1>3. Infos(x) = <<>>
  BY InfosTypes
<1>4. View(t).ci \o <<>> = View(t).ci
  <2>1. View(t).ci \in Seq(CI)
    BY <1>2 DEF Snapshot
  <2> QED
    BY <2>1, ConcatEmptySeq
<1>5. Follows(Last(q), x)
  BY <1>1 DEF Follows
<1>6. Snap(View(t), x, View(t))
  BY <1>3, <1>4 DEF Snap
<1>7. Bounded(x, View(t), E)
  <2>1. View(t).n = t.nCcalls
    BY DEF View
  <2> QED
    BY <1>2, <2>1 DEF Bounded
<1>8. Link(View(t), Last(q), x, View(u), E)
  BY <1>5, <1>6, <1>7 DEF Link
<1> QED
  BY <1>8, WorksPush

\* An error is raised.
LEMMA WorksRaise ==
    ASSUME NEW E \in Nat \ {0}, NEW q, NEW t, NEW L, NEW T, Works(q, t, L, T, E),
           NEW status \in {"run", "err", "mem", "syntax"}, t.nCcalls < E \/ status = "err",
           NEW u \in ThreadRec, Sized(u), u.status = "ok", View(u) = View(t)
    PROVE  Works(Append(q, Raise(L, status)), u, L, T, E)
           /\ Last(Append(q, Raise(L, status))).f = "raise"
<1>1. L \in Thread
  BY FitsTypes DEF Works
<1> DEFINE x == Raise(L, status)
<1>2. x \in Frame /\ x.f = "raise" /\ x.th = L /\ x.status = status
  BY <1>1, FramesMade DEF Raise
<1> HIDE DEF x
<1>3. Works(Append(q, x), u, L, T, E) /\ Last(Append(q, x)) = x
  BY <1>2, WorksPlain
<1> QED
  BY <1>2, <1>3 DEF x

\* Only luaD_call is as deep as the limit, before its error is raised.
LEMMA Deep ==
    ASSUME NEW E \in Nat \ {0}, NEW q, NEW t, NEW L, NEW T, Works(q, t, L, T, E),
           Last(q).f = "raise" => Last(q).status /= "err"
    PROVE  Last(q).f /= "call" => t.nCcalls < E
<1>1. Bounded(Last(q), View(t), E) /\ View(t) \in Snapshot
  BY FitsTypes DEF Works
<1>2. View(t).n = t.nCcalls /\ t.nCcalls \in Int
  BY <1>1 DEF View, Works, ThreadRec
<1> QED
  BY <1>1, <1>2 DEF Bounded

\* Finish, when nothing has failed or the C function is not wrap, and otherwise.
LEMMA WorksFinish ==
    ASSUME NEW E \in Nat \ {0}, NEW q, NEW t, NEW L, NEW T, Works(q, t, L, T, E),
           Last(q).f = "C", NEW ok \in BOOLEAN
    PROVE  /\ Works(Finish(q, ok), t, L, T, E)
           /\ Last(Finish(q, ok)).f \in {"C", "raise"}
<1>1. Fits(q, t, T, E) /\ Idles(q, T) /\ L = Last(q).th /\ t \in ThreadRec /\ Sized(t)
  BY DEF Works
<1>2. q \in Seq(Frame) /\ Len(q) \in Nat /\ q /= <<>> /\ Last(q) \in Frame /\ Last(q).th \in Thread
      /\ t.status = "ok" /\ Last(q) = q[Len(q)] /\ Len(q) \in Nat \ {0} /\ View(t) \in Snapshot
      /\ Bounded(Last(q), View(t), E)
  BY <1>1, FitsTypes
<1> DEFINE d == [Last(q) EXCEPT !.done = TRUE]
           p == Append(Front(q), d)
<1>3. Fits(p, t, T, E) /\ Last(p) = d /\ d.f = "C" /\ d.th = Last(q).th /\ d.fn = Last(q).fn
      /\ d \in Frame
  BY <1>1, MarkDone
<1>4. Len(p) = Len(q) /\ \A i \in 1..Len(q) : p[i].th = q[i].th
  <2>1. Front(q) \in Seq(Frame) /\ Len(Front(q)) = Len(q) - 1
        /\ \A i \in 1..(Len(q) - 1) : Front(q)[i] = q[i]
    BY <1>2, FrontEnds
  <2> HIDE DEF d
  <2>2. Len(p) = Len(Front(q)) + 1 /\ (\A i \in 1..Len(Front(q)) : p[i] = Front(q)[i])
        /\ p[Len(Front(q)) + 1] = d
    BY <1>3, <2>1, AppendProperties
  <2> HIDE DEF p
  <2>3. ASSUME NEW i \in 1..Len(q) PROVE p[i].th = q[i].th
    <3>1. CASE i = Len(q)
      BY <1>2, <1>3, <2>1, <2>2, <3>1
    <3>2. CASE i < Len(q)
      <4>1. p[i] = q[i]
        BY <1>2, <2>1, <2>2, <3>2
      <4> QED
        BY <4>1
    <3> QED
      BY <1>2, <3>1, <3>2
  <2> QED
    BY <1>2, <2>1, <2>2, <2>3
<1>5. Finish(q, ok) = IF d.fn = "wrap" /\ ~ok THEN Append(p, Raise(d.th, "run")) ELSE p
  BY <1>2, <1>3 DEF Finish
<1> HIDE DEF p, d
<1>6. Idles(p, T)
  BY <1>1, <1>4 DEF Idles
<1>7. Works(p, t, L, T, E)
  BY <1>1, <1>3, <1>6 DEF Works
<1>8. CASE d.fn = "wrap" /\ ~ok
  <2>1. t.nCcalls < E
    BY Deep
  <2>2. d.th = L
    BY <1>1, <1>3
  <2>3. Works(Append(p, Raise(L, "run")), t, L, T, E)
        /\ Last(Append(p, Raise(L, "run"))).f = "raise"
    BY <1>1, <1>2, <1>7, <2>1, WorksRaise
  <2> QED
    BY <1>5, <1>8, <2>2, <2>3
<1>9. CASE ~(d.fn = "wrap" /\ ~ok)
  BY <1>3, <1>5, <1>7, <1>9
<1> QED
  BY <1>8, <1>9

-----------------------------------------------------------------------------
(***************************************************************************)
(* Calls.                                                                  *)
(***************************************************************************)

\* Entering or leaving functions.
LEMMA SetCI ==
    ASSUME NEW t \in ThreadRec, NEW c \in Seq(CI)
    PROVE  LET u == [t EXCEPT !.ci = c]
           IN  /\ u \in ThreadRec /\ u.status = t.status /\ u.ci = c /\ u.size_ci = t.size_ci
               /\ View(u) = [n |-> t.nCcalls, base |-> t.baseCcalls, ci |-> c, ef |-> t.errfunc]
<1> DEFINE u == [t EXCEPT !.ci = c]
<1>1. u \in ThreadRec
  BY DEF ThreadRec
<1>2. /\ u.status = t.status /\ u.ci = c /\ u.size_ci = t.size_ci /\ u.nCcalls = t.nCcalls
      /\ u.baseCcalls = t.baseCcalls /\ u.errfunc = t.errfunc
  BY DEF ThreadRec
<1> HIDE DEF u
<1>3. View(u) = [n |-> t.nCcalls, base |-> t.baseCcalls, ci |-> c, ef |-> t.errfunc]
  BY <1>2 DEF View
<1> QED
  BY <1>1, <1>2, <1>3 DEF u

\* The array of CallInfos has another size.
LEMMA SetSize ==
    ASSUME NEW t \in ThreadRec, NEW n \in Nat
    PROVE  LET u == [t EXCEPT !.size_ci = n]
           IN  u \in ThreadRec /\ u.status = t.status /\ u.ci = t.ci /\ u.size_ci = n
               /\ View(u) = View(t) /\ u.errfunc = t.errfunc
<1> DEFINE u == [t EXCEPT !.size_ci = n]
<1>1. u \in ThreadRec
  BY DEF ThreadRec
<1>2. /\ u.status = t.status /\ u.ci = t.ci /\ u.size_ci = n /\ u.nCcalls = t.nCcalls
      /\ u.baseCcalls = t.baseCcalls /\ u.errfunc = t.errfunc
  BY DEF ThreadRec
<1> HIDE DEF u
<1>3. View(u) = View(t)
  BY <1>2 DEF View
<1> QED
  BY <1>1, <1>2, <1>3 DEF u

\* The number of nested C calls changes.
LEMMA SetCalls ==
    ASSUME NEW t \in ThreadRec, NEW n \in Int
    PROVE  LET u == [t EXCEPT !.nCcalls = n]
           IN  /\ u \in ThreadRec /\ u.status = t.status /\ u.ci = t.ci /\ u.size_ci = t.size_ci
               /\ u.nCcalls = n /\ u.errfunc = t.errfunc
               /\ View(u) = [n |-> n, base |-> t.baseCcalls, ci |-> t.ci, ef |-> t.errfunc]
<1> DEFINE u == [t EXCEPT !.nCcalls = n]
<1>1. u \in ThreadRec
  BY DEF ThreadRec
<1>2. /\ u.status = t.status /\ u.ci = t.ci /\ u.size_ci = t.size_ci /\ u.nCcalls = n
      /\ u.baseCcalls = t.baseCcalls /\ u.errfunc = t.errfunc
  BY DEF ThreadRec
<1> HIDE DEF u
<1>3. View(u) = [n |-> n, base |-> t.baseCcalls, ci |-> t.ci, ef |-> t.errfunc]
  BY <1>2 DEF View
<1> QED
  BY <1>1, <1>2, <1>3 DEF u

\* Another error function.
LEMMA SetErrfunc ==
    ASSUME NEW t \in ThreadRec, NEW ef \in BOOLEAN
    PROVE  LET u == [t EXCEPT !.errfunc = ef]
           IN  /\ u \in ThreadRec /\ u.status = t.status /\ u.ci = t.ci /\ u.size_ci = t.size_ci
               /\ u.nCcalls = t.nCcalls
               /\ View(u) = [n |-> t.nCcalls, base |-> t.baseCcalls, ci |-> t.ci, ef |-> ef]
<1> DEFINE u == [t EXCEPT !.errfunc = ef]
<1>1. u \in ThreadRec
  BY DEF ThreadRec
<1>2. /\ u.status = t.status /\ u.ci = t.ci /\ u.size_ci = t.size_ci /\ u.nCcalls = t.nCcalls
      /\ u.baseCcalls = t.baseCcalls /\ u.errfunc = ef
  BY DEF ThreadRec
<1> HIDE DEF u
<1>3. View(u) = [n |-> t.nCcalls, base |-> t.baseCcalls, ci |-> t.ci, ef |-> ef]
  BY <1>2 DEF View
<1> QED
  BY <1>1, <1>2, <1>3 DEF u

\* A thread whose CallInfos have become c.
With(t, c) == [n |-> t.nCcalls, base |-> t.baseCcalls, ci |-> c, ef |-> t.errfunc]

\* A thread after inc_ci.
Entered(t, kind) == With(t, Append(t.ci, kind))

\* inc_ci: then has been shown to fit the thread with the new CallInfo.
LEMMA IncCIWorks ==
    ASSUME NEW E \in Nat \ {0}, NEW q, NEW t, NEW L, NEW T, Works(q, t, L, T, E), t.nCcalls < E,
           NEW kind \in CI, NEW then,
           \A u \in ThreadRec :
              Sized(u) /\ u.status = "ok" /\ View(u) = Entered(t, kind) => Works(then, u, L, T, E),
           Last(then).f /= "call"
    PROVE  LET r == IncCI([cs |-> q, t |-> t], L, kind, then)
           IN  Works(r.cs, r.t, L, T, E) /\ Last(r.cs).f /= "call"
<1> DEFINE size == 2 * t.size_ci
           small == Len(t.ci) < t.size_ci - 1
           u == [t EXCEPT !.ci = Append(t.ci, kind)]
           v == [u EXCEPT !.size_ci = size]
           w == [t EXCEPT !.size_ci = size]
           r == IncCI([cs |-> q, t |-> t], L, kind, then)
<1>1. t \in ThreadRec /\ Sized(t) /\ t.status = "ok"
  BY FitsTypes DEF Works
<1>2. t.ci \in Seq(CI) /\ t.size_ci \in Nat /\ Len(t.ci) \in Nat
  BY <1>1, LenProperties DEF ThreadRec
<1>3. Append(t.ci, kind) \in Seq(CI) /\ Len(Append(t.ci, kind)) = Len(t.ci) + 1
  BY <1>2, AppendProperties
<1>4. r = IF small THEN [cs |-> then, t |-> u]
          ELSE IF t.size_ci > MaxCalls
               THEN [cs |-> Append(q, Raise(L, "err")), t |-> t]
          ELSE IF size > MaxCalls
               THEN [cs |-> Append(q, Raise(L, "run")), t |-> w]
          ELSE [cs |-> then, t |-> v]
  <2> DEFINE s == [cs |-> q, t |-> t]
             entered == [s EXCEPT !.t.ci = Append(@, kind), !.cs = then]
  <2>1. s.t = t /\ s.cs = q
    OBVIOUS
  <2>2. entered = [cs |-> then, t |-> u]
    <3>1. [s EXCEPT !.t.ci = Append(@, kind)] = [cs |-> q, t |-> u]
      OBVIOUS
    <3>2. entered = [[s EXCEPT !.t.ci = Append(@, kind)] EXCEPT !.cs = then]
      OBVIOUS
    <3> HIDE DEF u, s, entered
    <3> QED
      BY <3>1, <3>2
  <2>3. [entered EXCEPT !.t.size_ci = size] = [cs |-> then, t |-> v]
    <3> HIDE DEF u, s
    <3>1. [[cs |-> then, t |-> u] EXCEPT !.t.size_ci = size]
          = [cs |-> then, t |-> [u EXCEPT !.size_ci = size]]
      OBVIOUS
    <3> HIDE DEF entered
    <3> QED
      BY <2>2, <3>1
  <2>4. [s EXCEPT !.cs = Append(@, Raise(L, "err"))] = [cs |-> Append(q, Raise(L, "err")), t |-> t]
    OBVIOUS
  <2>5. [s EXCEPT !.t.size_ci = size, !.cs = Append(@, Raise(L, "run"))]
        = [cs |-> Append(q, Raise(L, "run")), t |-> w]
    <3> DEFINE a == Append(q, Raise(L, "run"))
    <3>1. [s EXCEPT !.t.size_ci = size] = [cs |-> q, t |-> w]
      OBVIOUS
    <3> DEFINE b == [s EXCEPT !.t.size_ci = size, !.cs = a]
    <3>2. b = [[s EXCEPT !.t.size_ci = size] EXCEPT !.cs = a]
      OBVIOUS
    <3> HIDE DEF w, s, size, a, b
    <3>3. b = [cs |-> a, t |-> w]
      BY <3>1, <3>2
    <3> QED
      BY <2>1, <3>3 DEF a, b
  <2>6. r = IF Len(s.t.ci) < s.t.size_ci - 1 THEN entered
            ELSE IF s.t.size_ci > MaxCalls THEN [s EXCEPT !.cs = Append(@, Raise(L, "err"))]
            ELSE IF 2 * s.t.size_ci > MaxCalls
                 THEN [s EXCEPT !.t.size_ci = 2 * s.t.size_ci, !.cs = Append(@, Raise(L, "run"))]
            ELSE [entered EXCEPT !.t.size_ci = 2 * s.t.size_ci]
    BY DEF IncCI
  <2> HIDE DEF s, entered, u, v, w, r
  <2> QED
    BY <2>1, <2>2, <2>3, <2>4, <2>5, <2>6
<1>5. u \in ThreadRec /\ u.status = "ok" /\ u.ci = Append(t.ci, kind) /\ u.size_ci = t.size_ci
      /\ View(u) = Entered(t, kind)
  BY <1>1, <1>3, SetCI DEF Entered, With
<1>6. v \in ThreadRec /\ v.status = "ok" /\ v.ci = Append(t.ci, kind) /\ v.size_ci = size
      /\ View(v) = Entered(t, kind)
  <2> HIDE DEF u
  <2>1. size \in Nat
    BY <1>2
  <2> HIDE DEF size
  <2> QED
    BY <1>5, <2>1, SetSize
<1>7. w \in ThreadRec /\ w.status = "ok" /\ w.ci = t.ci /\ w.size_ci = size /\ View(w) = View(t)
  <2>1. size \in Nat
    BY <1>2
  <2> HIDE DEF size
  <2> QED
    BY <1>1, <2>1, SetSize
<1> HIDE DEF u, v, w, r
<1>8. CASE small
  <2>1. Sized(u)
    BY <1>1, <1>2, <1>3, <1>5, <1>8 DEF Sized
  <2>2. r.cs = then /\ r.t = u
    BY <1>4, <1>8
  <2> QED
    BY <1>5, <2>1, <2>2 DEF r
<1>9. CASE ~small /\ t.size_ci > MaxCalls
  <2> DEFINE a == Append(q, Raise(L, "err"))
  <2>1. r.cs = a /\ r.t = t
    BY <1>4, <1>9
  <2>2. Works(a, t, L, T, E) /\ Last(a).f = "raise"
    BY <1>1, WorksRaise
  <2> HIDE DEF a
  <2> QED
    BY <2>1, <2>2 DEF r
<1>10. CASE ~small /\ ~(t.size_ci > MaxCalls) /\ size > MaxCalls
  <2> DEFINE a == Append(q, Raise(L, "run"))
  <2>1. r.cs = a /\ r.t = w
    BY <1>4, <1>10
  <2>2. Sized(w)
    BY <1>1, <1>2, <1>7, <1>10, CallsAssumption DEF Sized
  <2>3. Works(a, w, L, T, E) /\ Last(a).f = "raise"
    BY <1>7, <2>2, WorksRaise
  <2> HIDE DEF a
  <2> QED
    BY <2>1, <2>3 DEF r
<1>11. CASE ~small /\ ~(t.size_ci > MaxCalls) /\ ~(size > MaxCalls)
  <2>1. r.cs = then /\ r.t = v
    BY <1>4, <1>11
  <2>2. Sized(v)
    BY <1>1, <1>2, <1>3, <1>6, <1>11, CallsAssumption DEF Sized
  <2> QED
    BY <1>6, <2>1, <2>2 DEF r
<1> QED
  BY <1>8, <1>9, <1>10, <1>11

\* The kinds of the functions.
LEMMA Kinds ==
    ASSUME NEW callee \in CFunction \cup {"lua"}, NEW L \in Thread
    PROVE  /\ Kind(callee) \in CI
           /\ Activation(L, callee) \in Frame /\ Activation(L, callee).th = L
           /\ Activation(L, callee).f = IF callee = "lua" THEN "execute" ELSE "C"
           /\ Infos(Activation(L, callee)) = <<Kind(callee)>>
<1>1. Kind(callee) \in CI
  BY DEF Kind, CI
<1>2. CASE callee = "lua"
  <2> DEFINE x == Execute(L, 1)
  <2>1. x \in Frame
    BY FramesMade
  <2>2. x.f = "execute" /\ x.th = L /\ x.n = 1
    BY DEF Execute
  <2> HIDE DEF x
  <2>3. Infos(x) = [i \in 1..1 |-> "lua"]
    BY <2>1, <2>2, InfosTypes
  <2>4. Infos(x) = <<"lua">>
    BY <2>3
  <2> QED
    BY <1>1, <1>2, <2>1, <2>2, <2>4 DEF Activation, Kind, x
<1>3. CASE callee /= "lua"
  <2> DEFINE x == CFrame(L, callee)
  <2>1. x \in Frame
    BY <1>3, FramesMade
  <2>2. x.f = "C" /\ x.th = L
    BY DEF CFrame
  <2> HIDE DEF x
  <2>3. Infos(x) = <<"C">>
    BY <2>1, <2>2, InfosTypes
  <2> QED
    BY <1>1, <1>3, <2>1, <2>2, <2>3 DEF Activation, Kind, x
<1> QED
  BY <1>2, <1>3

\* A thread after the functions of x have been entered.
After(t, x) == With(t, t.ci \o Infos(x))

\* luaD_precall has entered a function, and its activation is pushed.
LEMMA WorksEntered ==
    ASSUME NEW E \in Nat \ {0}, NEW q, NEW t, NEW L, NEW T, Works(q, t, L, T, E), t.nCcalls < E,
           NEW x \in Frame, x.th = L, x.f \in {"execute", "C"},
           x.f = "execute" => Last(q).f \in {"call", "resume"},
           x.f = "C" => Last(q).f \in {"call", "execute"},
           NEW u \in ThreadRec, Sized(u), u.status = "ok", View(u) = After(t, x)
    PROVE  Works(Append(q, x), u, L, T, E) /\ Last(Append(q, x)) = x
<1>1. Fits(q, t, T, E) /\ L = Last(q).th
  BY DEF Works
<1>2. Bounded(Last(q), View(t), E)
  BY <1>1, FitsTypes
<1>3. View(t).n = t.nCcalls /\ View(t).base = t.baseCcalls /\ View(t).ci = t.ci
      /\ View(t).ef = t.errfunc
  BY DEF View
<1>4. View(u).n = t.nCcalls /\ View(u).base = t.baseCcalls /\ View(u).ci = t.ci \o Infos(x)
      /\ View(u).ef = t.errfunc
  BY DEF After, With
<1>5. Follows(Last(q), x)
  BY <1>1 DEF Follows
<1>6. Snap(View(t), x, View(u))
  BY <1>3, <1>4 DEF Snap
<1>7. Bounded(x, View(u), E)
  BY <1>2, <1>3, <1>4 DEF Bounded
<1>8. Link(View(t), Last(q), x, View(u), E)
  BY <1>5, <1>6, <1>7 DEF Link
<1> QED
  BY <1>8, WorksPush

\* luaD_call
MayCall(x) ==
    x.f \in {"execute", "parser", "pcall", "errormsg"} \/ (x.f = "C" /\ x.fn = "plain")

LEMMA DCallWorks ==
    ASSUME prog \in Programs, NEW q, NEW t, NEW L, NEW T, Works(q, t, L, T, ErrCCalls),
           MayCall(Last(q)), NEW callee \in CFunction \cup {"lua"}
    PROVE  LET r == DCall([cs |-> q, t |-> t], L, callee)
           IN  Works(r.cs, r.t, L, T, ErrCCalls) /\ Last(r.cs).f /= "call"
<1> DEFINE E == ErrCCalls
           n == t.nCcalls + 1
           a == Append(q, CallFrame(L))
           u == [t EXCEPT !.nCcalls = n]
           then == Append(a, Activation(L, callee))
           r == DCall([cs |-> q, t |-> t], L, callee)
<1>0. E \in Nat \ {0} /\ MaxCCalls \in Nat /\ MaxCCalls < E
  BY ProgramTypes
<1>1. t \in ThreadRec /\ Sized(t) /\ Fits(q, t, T, E) /\ L = Last(q).th
  BY DEF Works
<1>2. L \in Thread /\ t.status = "ok" /\ View(t) \in Snapshot /\ Bounded(Last(q), View(t), E)
  <2> HIDE DEF E
  <2> QED
    BY <1>0, <1>1, FitsTypes
<1>3. t.nCcalls \in Int /\ n \in Int /\ t.ci \in Seq(CI)
  BY <1>1 DEF ThreadRec
<1>4. t.nCcalls < E
  <2> HIDE DEF E
  <2>1. Works(q, t, L, T, E)
    BY DEF E
  <2> QED
    BY <1>0, <2>1, Deep DEF MayCall
<1>5. u \in ThreadRec /\ Sized(u) /\ u.status = "ok" /\ u.ci = t.ci /\ u.nCcalls = n
      /\ View(u) = [n |-> n, base |-> t.baseCcalls, ci |-> t.ci, ef |-> t.errfunc]
  <2> HIDE DEF n
  <2>1. u \in ThreadRec /\ u.status = "ok" /\ u.ci = t.ci /\ u.size_ci = t.size_ci /\ u.nCcalls = n
        /\ View(u) = [n |-> n, base |-> t.baseCcalls, ci |-> t.ci, ef |-> t.errfunc]
    BY <1>1, <1>2, <1>3, SetCalls
  <2> QED
    BY <1>1, <2>1 DEF Sized
<1>6. Works(a, u, L, T, E) /\ Last(a).f = "call"
  <2> DEFINE x == CallFrame(L)
  <2>1. x \in Frame /\ x.f = "call" /\ x.th = L
    BY <1>2, FramesMade DEF CallFrame
  <2> HIDE DEF x, u, E
  <2>2. Infos(x) = <<>>
    BY <2>1, InfosTypes
  <2>3. t.ci \o <<>> = t.ci
    BY <1>3, ConcatEmptySeq
  <2>4. Follows(Last(q), x)
    BY <1>1, <2>1 DEF Follows, MayCall
  <2>5. View(t).n = t.nCcalls /\ View(t).base = t.baseCcalls /\ View(t).ci = t.ci
        /\ View(t).ef = t.errfunc
    BY DEF View
  <2>6. Snap(View(t), x, View(u))
    BY <1>5, <2>1, <2>2, <2>3, <2>5 DEF Snap
  <2>7. Bounded(x, View(u), E)
    <3>1. View(u).n = t.nCcalls + 1 /\ View(u).base = View(t).base /\ View(t).base \in Int
      BY <1>2, <1>5, <2>5 DEF Snapshot
    <3> QED
      BY <1>0, <1>2, <1>3, <1>4, <2>1, <2>5, <3>1 DEF Bounded
  <2>8. Link(View(t), Last(q), x, View(u), E)
    BY <2>4, <2>6, <2>7 DEF Link
  <2>9. Works(q, t, L, T, E)
    BY DEF E
  <2>10. Works(Append(q, x), u, L, T, E) /\ Last(Append(q, x)) = x
    BY <1>0, <1>5, <2>1, <2>8, <2>9, WorksPush
  <2> QED
    BY <2>1, <2>10 DEF x
<1>7. r = IF n = MaxCCalls THEN [cs |-> Append(a, Raise(L, "run")), t |-> u]
          ELSE IF n >= ErrCCalls THEN [cs |-> Append(a, Raise(L, "err")), t |-> u]
          ELSE IncCI([cs |-> a, t |-> u], L, Kind(callee), then)
  <2> DEFINE s == [cs |-> q, t |-> t]
             called == [s EXCEPT !.t.nCcalls = n, !.cs = Append(@, CallFrame(L))]
  <2>1. s.t = t /\ s.cs = q
    OBVIOUS
  <2>2. called = [cs |-> a, t |-> u]
    <3>1. [s EXCEPT !.t.nCcalls = n] = [cs |-> q, t |-> u]
      OBVIOUS
    <3>2. called = [[s EXCEPT !.t.nCcalls = n] EXCEPT !.cs = Append(@, CallFrame(L))]
      OBVIOUS
    <3> HIDE DEF u, s, called
    <3> QED
      BY <3>1, <3>2
  <2>3. r = IF s.t.nCcalls + 1 = MaxCCalls
            THEN [called EXCEPT !.cs = Append(@, Raise(L, "run"))]
            ELSE IF s.t.nCcalls + 1 >= ErrCCalls
                 THEN [called EXCEPT !.cs = Append(@, Raise(L, "err"))]
            ELSE IncCI(called, L, Kind(callee), Append(called.cs, Activation(L, callee)))
    BY DEF DCall
  <2>4. called.cs = a
    <3> HIDE DEF called, a, u
    <3> QED
      BY <2>2
  <2>5. \A status : [called EXCEPT !.cs = Append(@, Raise(L, status))]
                    = [cs |-> Append(a, Raise(L, status)), t |-> u]
    <3> HIDE DEF called, a, u
    <3> QED
      BY <2>2
  <2> HIDE DEF s, called, a, u, r
  <2> QED
    BY <2>1, <2>2, <2>3, <2>4, <2>5
<1> HIDE DEF r, a, u
<1>8. CASE n = MaxCCalls
  <2> DEFINE b == Append(a, Raise(L, "run"))
  <2>1. r.cs = b /\ r.t = u
    BY <1>7, <1>8
  <2>2. u.nCcalls < E
    BY <1>0, <1>5, <1>8
  <2>3. Works(b, u, L, T, E) /\ Last(b).f = "raise"
    <3> HIDE DEF E
    <3> QED
      BY <1>0, <1>5, <1>6, <2>2, WorksRaise
  <2> HIDE DEF b
  <2> QED
    BY <2>1, <2>3 DEF r
<1>9. CASE n /= MaxCCalls /\ n >= ErrCCalls
  <2> DEFINE b == Append(a, Raise(L, "err"))
  <2>1. r.cs = b /\ r.t = u
    BY <1>7, <1>9
  <2>2. Works(b, u, L, T, E) /\ Last(b).f = "raise"
    <3> HIDE DEF E
    <3> QED
      BY <1>0, <1>5, <1>6, WorksRaise
  <2> HIDE DEF b
  <2> QED
    BY <2>1, <2>2 DEF r
<1>10. CASE n /= MaxCCalls /\ ~(n >= ErrCCalls)
  <2> DEFINE x == Activation(L, callee)
             k == Kind(callee)
  <2>1. r = IncCI([cs |-> a, t |-> u], L, k, then)
    BY <1>7, <1>10
  <2>2. k \in CI /\ x \in Frame /\ x.th = L /\ x.f \in {"execute", "C"} /\ Infos(x) = <<k>>
    BY <1>2, Kinds
  <2> HIDE DEF x, k, E
  <2>3. Append(u.ci, k) = u.ci \o Infos(x)
    <3>1. Append(t.ci, k) \in Seq(CI) /\ Append(t.ci, k) = t.ci \o <<k>>
      BY <1>3, <2>2, AppendProperties, AppendIsConcat
    <3> QED
      BY <1>5, <2>2, <3>1
  <2>4. u.nCcalls < E
    BY <1>0, <1>3, <1>5, <1>10 DEF E
  <2>5. ASSUME NEW w \in ThreadRec, Sized(w), w.status = "ok", View(w) = Entered(u, k)
        PROVE  Works(Append(a, x), w, L, T, E) /\ Last(Append(a, x)) = x
    <3>1. View(w) = After(u, x)
      BY <2>3, <2>5 DEF Entered, After
    <3>3. x.f = "execute" => Last(a).f \in {"call", "resume"}
      BY <1>6
    <3>4. x.f = "C" => Last(a).f \in {"call", "execute"}
      BY <1>6
    <3>5. E \in Nat \ {0} /\ Works(a, u, L, T, E)
      BY <1>0, <1>6
    <3> QED
      BY <2>2, <2>4, <2>5, <3>1, <3>3, <3>4, <3>5, WorksEntered
  <2>6. Last(then).f /= "call"
    <3>1. a \in Seq(Frame)
      BY <1>0, <1>6, FitsTypes DEF Works
    <3>2. Last(Append(a, x)) = x
      BY <2>2, <3>1, AppendEnds
    <3> QED
      BY <2>2, <3>2 DEF x
  <2>7. \A w \in ThreadRec :
            Sized(w) /\ w.status = "ok" /\ View(w) = Entered(u, k) => Works(then, w, L, T, E)
    BY <2>5 DEF x
  <2> HIDE DEF then
  <2>8. Works(r.cs, r.t, L, T, E) /\ Last(r.cs).f /= "call"
    BY <1>0, <1>6, <2>1, <2>2, <2>4, <2>6, <2>7, IncCIWorks
  <2> QED
    BY <2>8 DEF E, r
<1> QED
  BY <1>3, <1>8, <1>9, <1>10

-----------------------------------------------------------------------------
(***************************************************************************)
(* The invariant at a step.                                                *)
(***************************************************************************)

Stepped == Good(cs', th', ErrCCalls) /\ ~failed'

\* What a handler starts with.
LEMMA Now ==
    ASSUME Inv, cs /= <<>>
    PROVE  /\ ErrCCalls \in Nat \ {0} /\ prog \in Programs /\ ~failed
           /\ Threads(th) /\ Works(cs, th[L0], L0, th, ErrCCalls)
           /\ cs \in Seq(Frame) /\ Len(cs) \in Nat \ {0} /\ Top \in Frame /\ L0 \in Thread
           /\ Top = Last(cs) /\ L0 = Last(cs).th /\ Last(cs) = cs[Len(cs)]
           /\ th[L0] \in ThreadRec /\ Sized(th[L0]) /\ th[L0].status = "ok"
           /\ Here = [cs |-> cs, t |-> th[L0]] /\ Here.cs = cs /\ Here.t = th[L0]
           /\ Top.f = "call" => th[L0].nCcalls < ErrCCalls
           /\ Top.f \notin {"call", "raise"} => th[L0].nCcalls < ErrCCalls
           /\ Top.f /= "pcall" => Len(cs) >= 2
<1> DEFINE E == ErrCCalls
<1>1. E \in Nat \ {0} /\ prog \in Programs /\ Good(cs, th, E) /\ ~failed
  BY ProgramTypes DEF Inv
<1> HIDE DEF E
<1>2. /\ Threads(th) /\ Works(cs, th[Last(cs).th], Last(cs).th, th, E)
      /\ cs \in Seq(Frame) /\ Last(cs) \in Frame
      /\ Last(cs).f = "call" => th[Last(cs).th].nCcalls < E
  BY <1>1, Starts
<1>3. L0 = Last(cs).th /\ Top = Last(cs)
  BY DEF L0, Top
<1>4. Works(cs, th[L0], L0, th, E)
  BY <1>2, <1>3
<1>5. Fits(cs, th[L0], th, E) /\ th[L0] \in ThreadRec /\ Sized(th[L0])
  BY <1>4 DEF Works
<1>6. Len(cs) \in Nat \ {0} /\ L0 \in Thread /\ th[L0].status = "ok" /\ Last(cs) = cs[Len(cs)]
      /\ (Top.f /= "pcall" => Len(cs) >= 2)
  BY <1>1, <1>3, <1>5, FitsTypes
<1>7. Top.f \notin {"call", "raise"} => th[L0].nCcalls < E
  BY <1>1, <1>3, <1>4, Deep
<1>8. Here = [cs |-> cs, t |-> th[L0]] /\ Here.cs = cs /\ Here.t = th[L0]
  BY DEF Here
<1> QED
  BY <1>1, <1>2, <1>3, <1>4, <1>5, <1>6, <1>7, <1>8 DEF E

\* What it comes to.
LEMMA GotoSteps ==
    ASSUME Inv, cs /= <<>>, NEW s, NEW ok, Goto(s, ok), ok = TRUE,
           Works(s.cs, s.t, L0, th, ErrCCalls),
           Last(s.cs).f = "call" => s.t.nCcalls < ErrCCalls
    PROVE  Stepped
<1>1. ErrCCalls \in Nat \ {0} /\ Threads(th) /\ ~failed
  BY Now
<1>2. Good(s.cs, [th EXCEPT ![L0] = s.t], ErrCCalls)
  BY <1>1, Ready
<1>3. cs' = s.cs /\ th' = [th EXCEPT ![L0] = s.t] /\ ~failed'
  BY <1>1 DEF Goto
<1> QED
  BY <1>2, <1>3 DEF Stepped

\* What is beneath the innermost activation.
LEMMA Beneath ==
    ASSUME NEW E \in Nat \ {0}, NEW q, NEW t, NEW L, NEW T, Works(q, t, L, T, E),
           Len(q) >= 2, Last(q).f /= "resume"
    PROVE  \E u \in ThreadRec :
              /\ Works(Front(q), u, L, T, E)
              /\ Link(View(u), Last(Front(q)), Last(q), View(t), E)
              /\ Bounded(Last(Front(q)), View(u), E) /\ Last(Front(q)) \in Frame
              /\ u.status = "ok"
              /\ \A w \in ThreadRec :
                    Sized(w) /\ w.status = "ok" /\ View(w) = View(u) => Works(Front(q), w, L, T, E)
<1>1. Fits(q, t, T, E) /\ t \in ThreadRec /\ Sized(t)
  BY DEF Works
<1>2. Last(q) \in Frame /\ View(t) \in Snapshot
  BY <1>1, FitsTypes
<1>3. PICK v \in Snapshot :
          /\ Link(v, Last(Front(q)), Last(q), View(t), E) /\ Bounded(Last(Front(q)), v, E)
          /\ Last(Front(q)) \in Frame
          /\ \A u \in ThreadRec :
                Sized(u) /\ u.status = "ok" /\ View(u) = v => Works(Front(q), u, L, T, E)
  BY WorksPop
<1> DEFINE u == [status |-> "ok", body |-> FALSE, ci |-> v.ci, size_ci |-> t.size_ci,
                 nCcalls |-> v.n, baseCcalls |-> v.base, errfunc |-> v.ef]
<1>4. u \in ThreadRec /\ View(u) = v
  BY <1>1 DEF Snapshot, ThreadRec, View
<1>5. u.ci = v.ci /\ u.size_ci = t.size_ci /\ u.status = "ok"
  OBVIOUS
<1> HIDE DEF u
<1>6. Len(v.ci) <= Len(t.ci)
  <2>1. t.ci = v.ci \o Infos(Last(q))
    BY <1>3 DEF Link, Snap, View
  <2>2. PICK a \in Seq(CI), b \in Seq(CI) : a = v.ci /\ b = Infos(Last(q))
    BY <1>2, InfosTypes DEF Snapshot
  <2>3. Len(a \o b) = Len(a) + Len(b) /\ Len(a) \in Nat /\ Len(b) \in Nat
    BY ConcatProperties, LenProperties
  <2> QED
    BY <2>1, <2>2, <2>3
<1>7. Sized(u)
  <2>1. Len(v.ci) \in Nat /\ Len(t.ci) \in Nat /\ t.size_ci \in Nat
    BY <1>1, LenProperties DEF Snapshot, ThreadRec
  <2> QED
    BY <1>1, <1>5, <1>6, <2>1 DEF Sized
<1>8. Works(Front(q), u, L, T, E)
  BY <1>3, <1>4, <1>5, <1>7
<1> QED
  BY <1>3, <1>4, <1>5, <1>8

-----------------------------------------------------------------------------
(***************************************************************************)
(* Every action preserves the invariant: calls and returns.                *)
(***************************************************************************)

\* OP_CALL of a C function.
LEMMA CallCSteps ==
    ASSUME Inv, cs /= <<>>, NEW fn \in prog.fns, CallC(fn)
    PROVE  Stepped
<1> DEFINE t == th[L0]
           E == ErrCCalls
           x == CFrame(L0, fn)
           then == Append(cs, x)
           r == IncCI([cs |-> cs, t |-> t], L0, "C", then)
<1>1. Top.f = "execute" /\ Goto(IncCI(Here, L0, "C", then), TRUE)
  BY DEF CallC
<1>2. E \in Nat \ {0} /\ Works(cs, t, L0, th, E) /\ t.nCcalls < E /\ Last(cs) = Top
      /\ cs \in Seq(Frame) /\ L0 \in Thread /\ Here = [cs |-> cs, t |-> t] /\ t \in ThreadRec
  BY <1>1, Now
<1>3. fn \in CFunction
  BY ProgramTypes DEF Inv
<1>4. x \in Frame /\ x.th = L0 /\ x.f = "C"
  BY <1>2, <1>3, FramesMade DEF CFrame
<1> HIDE DEF x, E
<1>5. Infos(x) = <<"C">>
  BY <1>4, InfosTypes
<1>6. Append(t.ci, "C") = t.ci \o Infos(x)
  <2>1. t.ci \in Seq(CI) /\ "C" \in CI
    BY <1>2 DEF ThreadRec, CI
  <2> QED
    BY <1>5, <2>1, AppendIsConcat
<1>7. ASSUME NEW u \in ThreadRec, Sized(u), u.status = "ok", View(u) = Entered(t, "C")
      PROVE  Works(Append(cs, x), u, L0, th, E)
  <2>1. View(u) = After(t, x)
    BY <1>6, <1>7 DEF Entered, After
  <2>2. Last(cs).f = "execute"
    BY <1>1, <1>2
  <2> QED
    BY <1>2, <1>4, <1>7, <2>1, <2>2, WorksEntered
<1>8. Last(Append(cs, x)).f /= "call"
  BY <1>2, <1>4, AppendEnds
<1>9. Works(r.cs, r.t, L0, th, E) /\ Last(r.cs).f /= "call"
  <2>1. "C" \in CI
    BY DEF CI
  <2> HIDE DEF t
  <2> QED
    BY <1>2, <1>7, <1>8, <2>1, IncCIWorks
<1> HIDE DEF r
<1>10. Goto(r, TRUE)
  BY <1>1, <1>2 DEF r
<1> QED
  BY <1>9, <1>10, GotoSteps DEF E

\* luaD_call from C.
LEMMA CallSteps ==
    ASSUME Inv, cs /= <<>>, NEW callee \in Callee, Call(callee)
    PROVE  Stepped
<1> DEFINE r == DCall([cs |-> cs, t |-> th[L0]], L0, callee)
<1>1. MayCall(Top) /\ Goto(DCall(Here, L0, callee), TRUE)
  BY DEF Call, MayCall
<1>2. prog \in Programs /\ Works(cs, th[L0], L0, th, ErrCCalls) /\ Last(cs) = Top
      /\ Here = [cs |-> cs, t |-> th[L0]]
  BY Now
<1>3. callee \in CFunction \cup {"lua"}
  BY ProgramTypes DEF Inv
<1>4. Works(r.cs, r.t, L0, th, ErrCCalls) /\ Last(r.cs).f /= "call"
  BY <1>1, <1>2, <1>3, DCallWorks
<1>5. Goto(r, TRUE)
  BY <1>1, <1>2
<1> HIDE DEF r
<1> QED
  BY <1>4, <1>5, GotoSteps

\* n Lua functions and one more.
LEMMA MoreLua ==
    ASSUME NEW n \in Nat
    PROVE  LET a == [i \in 1..n |-> "lua"]
           IN  /\ a \in Seq(CI) /\ Len(a) = n
               /\ [i \in 1..(n + 1) |-> "lua"] = Append(a, "lua")
               /\ n = 0 => a = <<>>
<1> DEFINE a == [i \in 1..n |-> "lua"]
           b == [i \in 1..(n + 1) |-> "lua"]
           c == Append(a, "lua")
<1>1. a \in Seq(CI) /\ Len(a) = n
  BY DEF CI
<1>2. b \in Seq(CI) /\ Len(b) = n + 1 /\ \A i \in 1..(n + 1) : b[i] = "lua"
  BY DEF CI
<1>3. \A i \in 1..n : a[i] = "lua"
  OBVIOUS
<1> HIDE DEF a, b
<1>4. c \in Seq(CI) /\ Len(c) = n + 1 /\ (\A i \in 1..n : c[i] = a[i]) /\ c[n + 1] = "lua"
  <2>1. "lua" \in CI
    BY DEF CI
  <2> QED
    BY <1>1, <2>1, AppendProperties
<1> HIDE DEF c
<1>5. \A i \in 1..Len(b) : b[i] = c[i]
  BY <1>2, <1>3, <1>4
<1>6. b = c
  BY <1>2, <1>4, <1>5, SeqEqual
<1>7. n = 0 => a = <<>>
  BY <1>1, EmptySeq
<1> QED
  BY <1>1, <1>6, <1>7 DEF a, b, c

\* The Lua functions of luaV_execute are the last ones of the thread.
LEMMA Executing ==
    ASSUME NEW E \in Nat \ {0}, NEW q, NEW t \in ThreadRec, NEW u \in ThreadRec, NEW y,
           NEW x \in Frame, x.f = "execute", Link(View(u), y, x, View(t), E), NEW L \in Thread
    PROVE  /\ Entered(t, "lua") = After(u, Execute(L, x.n + 1))
           /\ t.ci /= <<>> /\ Last(t.ci) = "lua"
           /\ x.n = 1 => With(t, Front(t.ci)) = View(u)
           /\ x.n > 1 => With(t, Front(t.ci)) = After(u, Execute(L, x.n - 1))
           /\ y.f \in {"call", "resume"} /\ u.nCcalls = t.nCcalls
<1> DEFINE lua(n) == [i \in 1..n |-> "lua"]
<1>1. x.n \in Nat \ {0}
  BY FrameFields
<1>2. Infos(x) = lua(x.n)
  BY InfosTypes
<1>3. \A n \in Nat \ {0} : Infos(Execute(L, n)) = lua(n)
  <2>1. ASSUME NEW n \in Nat \ {0} PROVE Infos(Execute(L, n)) = lua(n)
    <3> DEFINE e == Execute(L, n)
    <3>1. e \in Frame
      BY FramesMade
    <3>2. e.f = "execute" /\ e.n = n
      BY DEF Execute
    <3> HIDE DEF e
    <3>3. Infos(e) = lua(e.n)
      BY <3>1, <3>2, InfosTypes
    <3> QED
      BY <3>2, <3>3 DEF e
  <2> QED
    BY <2>1
<1>4. /\ y.f \in {"call", "resume"} /\ u.nCcalls = t.nCcalls /\ u.baseCcalls = t.baseCcalls
      /\ t.ci = u.ci \o Infos(x) /\ u.errfunc = t.errfunc
  <2>1. Follows(y, x) /\ Snap(View(u), x, View(t))
    BY DEF Link
  <2> QED
    BY <2>1 DEF Follows, Snap, View
<1>5. PICK c \in Seq(CI) : c = u.ci
  BY DEF ThreadRec
<1>6. \A n \in Nat : lua(n) \in Seq(CI) /\ Len(lua(n)) = n /\ lua(n + 1) = Append(lua(n), "lua")
                     /\ (n = 0 => lua(n) = <<>>)
  BY MoreLua
<1> HIDE DEF lua
<1>7. \A n \in Nat : Append(c \o lua(n), "lua") = c \o lua(n + 1) /\ c \o lua(n) \in Seq(CI)
  <2>1. ASSUME NEW n \in Nat
        PROVE  Append(c \o lua(n), "lua") = c \o lua(n + 1) /\ c \o lua(n) \in Seq(CI)
    <3>1. PICK b \in Seq(CI) : b = lua(n) /\ lua(n + 1) = Append(b, "lua")
      BY <1>6
    <3>2. PICK k \in Seq(CI) : k = <<"lua">>
      <4>1. "lua" \in CI
        BY DEF CI
      <4>2. <<"lua">> \in Seq(CI)
        BY <4>1
      <4> QED
        BY <4>2
    <3>3. c \o b \in Seq(CI)
      BY ConcatProperties
    <3>4. Append(c \o b, "lua") = (c \o b) \o k /\ Append(b, "lua") = b \o k
      <4>1. "lua" \in CI
        BY DEF CI
      <4> QED
        BY <3>2, <3>3, <4>1, AppendIsConcat
    <3>5. (c \o b) \o k = c \o (b \o k)
      BY ConcatAssociative
    <3> QED
      BY <3>1, <3>3, <3>4, <3>5
  <2> QED
    BY <2>1
<1>8. t.ci = c \o lua(x.n)
  BY <1>2, <1>4, <1>5
<1>9. PICK m \in Nat : x.n = m + 1
  <2>1. x.n - 1 \in Nat /\ x.n = (x.n - 1) + 1
    BY <1>1
  <2> QED
    BY <2>1
<1>10. t.ci = Append(c \o lua(m), "lua") /\ c \o lua(m) \in Seq(CI)
  BY <1>7, <1>8, <1>9
<1>11. t.ci /= <<>> /\ Last(t.ci) = "lua" /\ Front(t.ci) = c \o lua(m)
  <2>1. PICK a \in Seq(CI) : a = c \o lua(m)
    BY <1>10
  <2>2. "lua" \in CI
    BY DEF CI
  <2>3. Last(Append(a, "lua")) = "lua" /\ Front(Append(a, "lua")) = a /\ Append(a, "lua") /= <<>>
    BY <2>2, AppendEnds, AppendProperties
  <2> QED
    BY <1>10, <2>1, <2>3
<1>12. Entered(t, "lua") = After(u, Execute(L, x.n + 1))
  <2>1. Append(t.ci, "lua") = c \o lua(x.n + 1)
    BY <1>1, <1>7, <1>8
  <2>2. Infos(Execute(L, x.n + 1)) = lua(x.n + 1)
    BY <1>1, <1>3
  <2> QED
    BY <1>4, <1>5, <2>1, <2>2 DEF Entered, After, With
<1>13. x.n = 1 => With(t, Front(t.ci)) = View(u)
  <2> SUFFICES ASSUME x.n = 1 PROVE With(t, Front(t.ci)) = View(u)
    OBVIOUS
  <2>1. m = 0
    BY <1>9
  <2>2. lua(m) = <<>>
    BY <1>6, <2>1
  <2>3. c \o <<>> = c
    BY ConcatEmptySeq
  <2> QED
    BY <1>4, <1>5, <1>11, <2>2, <2>3 DEF With, View
<1>14. x.n > 1 => With(t, Front(t.ci)) = After(u, Execute(L, x.n - 1))
  <2> SUFFICES ASSUME x.n > 1 PROVE With(t, Front(t.ci)) = After(u, Execute(L, x.n - 1))
    OBVIOUS
  <2>1. m \in Nat \ {0} /\ x.n - 1 = m
    BY <1>9
  <2>2. Infos(Execute(L, x.n - 1)) = lua(m)
    BY <1>3, <2>1
  <2> QED
    BY <1>4, <1>5, <1>11, <2>2 DEF After, With
<1> QED
  BY <1>4, <1>11, <1>12, <1>13, <1>14

\* OP_CALL of a Lua function.
LEMMA CallLuaSteps ==
    ASSUME Inv, cs /= <<>>, CallLua
    PROVE  Stepped
<1> DEFINE t == th[L0]
           E == ErrCCalls
           x == Execute(L0, Top.n + 1)
           then == Append(Front(cs), x)
           r == IncCI([cs |-> cs, t |-> t], L0, "lua", then)
<1>1. Top.f = "execute" /\ Goto(IncCI(Here, L0, "lua", then), TRUE)
  BY DEF CallLua
<1>2. E \in Nat \ {0} /\ Works(cs, t, L0, th, E) /\ t.nCcalls < E /\ Last(cs) = Top
      /\ cs \in Seq(Frame) /\ L0 \in Thread /\ Here = [cs |-> cs, t |-> t] /\ Len(cs) >= 2
      /\ Top \in Frame /\ t \in ThreadRec
  BY <1>1, Now
<1>3. x \in Frame /\ x.th = L0 /\ x.f = "execute"
  <2>1. Top.n + 1 \in Nat \ {0}
    BY <1>1, <1>2, FrameFields
  <2> QED
    BY <1>2, <2>1, FramesMade DEF Execute
<1> HIDE DEF E
<1>4. PICK u \in ThreadRec :
          /\ Works(Front(cs), u, L0, th, E)
          /\ Link(View(u), Last(Front(cs)), Top, View(t), E)
  <2> HIDE DEF t
  <2> QED
    BY <1>1, <1>2, Beneath
<1>5. Entered(t, "lua") = After(u, x) /\ Last(Front(cs)).f \in {"call", "resume"}
      /\ u.nCcalls = t.nCcalls
  <2> HIDE DEF t
  <2> QED
    BY <1>1, <1>2, <1>4, Executing
<1> HIDE DEF x
<1>6. ASSUME NEW w \in ThreadRec, Sized(w), w.status = "ok", View(w) = Entered(t, "lua")
      PROVE  Works(Append(Front(cs), x), w, L0, th, E)
  <2> HIDE DEF t
  <2> QED
    BY <1>2, <1>3, <1>4, <1>5, <1>6, WorksEntered
<1>7. Last(Append(Front(cs), x)).f /= "call"
  <2>1. Front(cs) \in Seq(Frame)
    BY <1>2, FrontEnds, EmptySeq
  <2> QED
    BY <1>3, <2>1, AppendEnds
<1>8. Works(r.cs, r.t, L0, th, E) /\ Last(r.cs).f /= "call"
  <2>1. "lua" \in CI
    BY DEF CI
  <2> HIDE DEF t
  <2> QED
    BY <1>2, <1>6, <1>7, <2>1, IncCIWorks
<1> HIDE DEF r
<1>9. Goto(r, TRUE)
  BY <1>1, <1>2 DEF r, x
<1> QED
  BY <1>8, <1>9, GotoSteps DEF E

\* The thread after the return of its innermost function.
LEMMA Returned ==
    ASSUME NEW t \in ThreadRec, Sized(t), t.ci /= <<>>
    PROVE  LET w == [t EXCEPT !.ci = Front(@)]
           IN  w \in ThreadRec /\ Sized(w) /\ w.status = t.status /\ View(w) = With(t, Front(t.ci))
               /\ w.nCcalls = t.nCcalls
<1> DEFINE c == Front(t.ci)
           w == [t EXCEPT !.ci = c]
<1>1. t.ci \in Seq(CI)
  BY DEF ThreadRec
<1>2. c \in Seq(CI) /\ Len(c) = Len(t.ci) - 1 /\ Len(t.ci) \in Nat
  BY <1>1, FrontEnds, LenProperties
<1> HIDE DEF c
<1>3. w \in ThreadRec /\ w.status = t.status /\ w.ci = c /\ w.size_ci = t.size_ci
      /\ View(w) = With(t, c)
  BY <1>2, SetCI DEF With
<1>4. w.nCcalls = t.nCcalls
  BY DEF ThreadRec
<1>5. Sized(w)
  <2>1. t.size_ci \in Nat
    BY DEF ThreadRec
  <2> QED
    BY <1>2, <1>3, <2>1 DEF Sized
<1> QED
  BY <1>3, <1>4, <1>5 DEF c

\* OP_RETURN
LEMMA ReturnLuaSteps ==
    ASSUME Inv, cs /= <<>>, ReturnLua
    PROVE  Stepped
<1> DEFINE t == th[L0]
           E == ErrCCalls
           w == [t EXCEPT !.ci = Front(@)]
           q == IF Top.n = 1 THEN Front(cs) ELSE Append(Front(cs), Execute(L0, Top.n - 1))
           s == [cs |-> q, t |-> w]
           r == [Here EXCEPT !.t.ci = Front(@), !.cs = q]
<1>1. Top.f = "execute" /\ Goto(r, Last(t.ci) = "lua")
  BY DEF ReturnLua
<1>2. E \in Nat \ {0} /\ Works(cs, t, L0, th, E) /\ t.nCcalls < E /\ Last(cs) = Top
      /\ cs \in Seq(Frame) /\ L0 \in Thread /\ Here = [cs |-> cs, t |-> t] /\ Len(cs) >= 2
      /\ Top \in Frame /\ t \in ThreadRec /\ Sized(t) /\ t.status = "ok"
  BY <1>1, Now
<1>3. r = s
  <2>1. [Here EXCEPT !.t.ci = Front(@)] = [cs |-> cs, t |-> w]
    BY <1>2
  <2>2. r = [[Here EXCEPT !.t.ci = Front(@)] EXCEPT !.cs = q]
    OBVIOUS
  <2> HIDE DEF r, w, q
  <2> QED
    BY <2>1, <2>2
<1> HIDE DEF r, E
<1>4. PICK u \in ThreadRec :
          /\ Works(Front(cs), u, L0, th, E)
          /\ Link(View(u), Last(Front(cs)), Top, View(t), E)
          /\ \A z \in ThreadRec : Sized(z) /\ z.status = "ok" /\ View(z) = View(u)
                                  => Works(Front(cs), z, L0, th, E)
  <2> HIDE DEF t
  <2> QED
    BY <1>1, <1>2, Beneath
<1>5. /\ t.ci /= <<>> /\ Last(t.ci) = "lua"
      /\ Top.n = 1 => With(t, Front(t.ci)) = View(u)
      /\ Top.n > 1 => With(t, Front(t.ci)) = After(u, Execute(L0, Top.n - 1))
      /\ Last(Front(cs)).f \in {"call", "resume"} /\ u.nCcalls = t.nCcalls
  <2> HIDE DEF t
  <2> QED
    BY <1>1, <1>2, <1>4, Executing
<1>6. w \in ThreadRec /\ Sized(w) /\ w.status = "ok" /\ View(w) = With(t, Front(t.ci))
      /\ w.nCcalls = t.nCcalls
  <2> HIDE DEF t
  <2> QED
    BY <1>2, <1>5, Returned
<1>7. Top.n \in Nat \ {0}
  BY <1>1, <1>2, FrameFields
<1> HIDE DEF w, t
<1>8. Works(q, w, L0, th, E)
  <2>1. CASE Top.n = 1
    BY <1>4, <1>5, <1>6, <2>1
  <2>2. CASE Top.n /= 1
    <3> DEFINE x == Execute(L0, Top.n - 1)
    <3>1. Top.n - 1 \in Nat \ {0} /\ Top.n > 1
      BY <1>7, <2>2
    <3>2. x \in Frame /\ x.th = L0 /\ x.f = "execute"
      BY <1>2, <3>1, FramesMade DEF Execute
    <3> HIDE DEF x
    <3>3. View(w) = After(u, x)
      BY <1>5, <1>6, <3>1 DEF x
    <3>4. Works(Append(Front(cs), x), w, L0, th, E)
      BY <1>2, <1>4, <1>5, <1>6, <3>2, <3>3, WorksEntered
    <3> QED
      BY <2>2, <3>4 DEF x
  <2> QED
    BY <2>1, <2>2
<1> HIDE DEF q
<1>9. s.cs = q /\ s.t = w
  OBVIOUS
<1> HIDE DEF s
<1> QED
  BY <1>1, <1>2, <1>3, <1>5, <1>6, <1>8, <1>9, GotoSteps DEF E, t

\* A C function returns.
LEMMA ReturnCSteps ==
    ASSUME Inv, cs /= <<>>, ReturnC
    PROVE  Stepped
<1> DEFINE t == th[L0]
           E == ErrCCalls
           w == [t EXCEPT !.ci = Front(@)]
           q == Front(cs)
           s == [cs |-> q, t |-> w]
           r == [Here EXCEPT !.t.ci = Front(@), !.cs = Front(@)]
<1>1. Top.f = "C" /\ Goto(r, Last(t.ci) = "C")
  BY DEF ReturnC
<1>2. E \in Nat \ {0} /\ Works(cs, t, L0, th, E) /\ t.nCcalls < E /\ Last(cs) = Top
      /\ Here = [cs |-> cs, t |-> t] /\ Len(cs) >= 2
      /\ Top \in Frame /\ t \in ThreadRec /\ Sized(t) /\ t.status = "ok"
  BY <1>1, Now
<1>3. r = s
  <2>1. [Here EXCEPT !.t.ci = Front(@)] = [cs |-> cs, t |-> w]
    BY <1>2
  <2>2. r = [[Here EXCEPT !.t.ci = Front(@)] EXCEPT !.cs = Front(@)]
    OBVIOUS
  <2> HIDE DEF r, w
  <2> QED
    BY <2>1, <2>2
<1> HIDE DEF r, E
<1>4. PICK u \in ThreadRec :
          /\ Link(View(u), Last(Front(cs)), Top, View(t), E)
          /\ \A z \in ThreadRec : Sized(z) /\ z.status = "ok" /\ View(z) = View(u)
                                  => Works(Front(cs), z, L0, th, E)
  <2> HIDE DEF t
  <2> QED
    BY <1>1, <1>2, Beneath
<1>5. t.ci = u.ci \o <<"C">> /\ u.nCcalls = t.nCcalls /\ u.baseCcalls = t.baseCcalls
      /\ u.errfunc = t.errfunc
  <2>1. Infos(Top) = <<"C">>
    BY <1>1, <1>2, InfosTypes
  <2>2. Snap(View(u), Top, View(t))
    BY <1>4 DEF Link
  <2> QED
    BY <1>1, <2>1, <2>2 DEF Snap, View
<1>6. t.ci /= <<>> /\ Last(t.ci) = "C" /\ Front(t.ci) = u.ci
  <2>1. PICK c \in Seq(CI) : c = u.ci
    BY DEF ThreadRec
  <2>2. "C" \in CI
    BY DEF CI
  <2>3. Append(c, "C") = c \o <<"C">>
    BY <2>2, AppendIsConcat
  <2>4. Last(Append(c, "C")) = "C" /\ Front(Append(c, "C")) = c /\ Append(c, "C") /= <<>>
    BY <2>2, AppendEnds, AppendProperties
  <2> QED
    BY <1>5, <2>1, <2>3, <2>4
<1>7. w \in ThreadRec /\ Sized(w) /\ w.status = "ok" /\ View(w) = With(t, Front(t.ci))
      /\ w.nCcalls = t.nCcalls
  <2> HIDE DEF t
  <2> QED
    BY <1>2, <1>6, Returned
<1> HIDE DEF w, t
<1>8. View(w) = View(u)
  BY <1>5, <1>6, <1>7 DEF With, View
<1>9. Works(q, w, L0, th, E)
  BY <1>4, <1>7, <1>8
<1>10. s.cs = q /\ s.t = w
  OBVIOUS
<1> HIDE DEF s, q
<1> QED
  BY <1>1, <1>2, <1>3, <1>6, <1>7, <1>9, <1>10, GotoSteps DEF E, t

\* luaD_call returns.
LEMMA CallReturnsSteps ==
    ASSUME Inv, cs /= <<>>, CallReturns
    PROVE  Stepped
<1> DEFINE t == th[L0]
           E == ErrCCalls
           w == [t EXCEPT !.nCcalls = @ - 1]
           s == [cs |-> Front(cs), t |-> w]
           r == [PopFrame(Here) EXCEPT !.t.nCcalls = @ - 1]
<1>1. Top.f = "call" /\ Goto(r, TRUE)
  BY DEF CallReturns
<1>2. E \in Nat \ {0} /\ Works(cs, t, L0, th, E) /\ Last(cs) = Top
      /\ Here = [cs |-> cs, t |-> t] /\ Len(cs) >= 2
      /\ Top \in Frame /\ t \in ThreadRec /\ Sized(t) /\ t.status = "ok"
  BY <1>1, Now
<1>3. r = s
  <2>1. PopFrame(Here) = [cs |-> Front(cs), t |-> t]
    BY <1>2 DEF PopFrame
  <2> HIDE DEF t
  <2>2. r = [[cs |-> Front(cs), t |-> t] EXCEPT !.t.nCcalls = @ - 1]
    BY <2>1
  <2> QED
    BY <2>2
<1> HIDE DEF r, E
<1>4. PICK u \in ThreadRec :
          /\ Link(View(u), Last(Front(cs)), Top, View(t), E)
          /\ \A z \in ThreadRec : Sized(z) /\ z.status = "ok" /\ View(z) = View(u)
                                  => Works(Front(cs), z, L0, th, E)
  <2> HIDE DEF t
  <2> QED
    BY <1>1, <1>2, Beneath
<1>5. t.ci = u.ci /\ t.nCcalls = u.nCcalls + 1 /\ u.baseCcalls = t.baseCcalls
      /\ u.errfunc = t.errfunc
  <2>1. Infos(Top) = <<>>
    BY <1>1, <1>2, InfosTypes
  <2>2. Snap(View(u), Top, View(t))
    BY <1>4 DEF Link
  <2>3. u.ci \o <<>> = u.ci
    BY ConcatEmptySeq DEF ThreadRec
  <2> QED
    BY <1>1, <2>1, <2>2, <2>3 DEF Snap, View
<1>6. w \in ThreadRec /\ Sized(w) /\ w.status = "ok" /\ View(w) = View(u)
  <2>1. t.nCcalls - 1 \in Int /\ u.nCcalls \in Int
    BY <1>2 DEF ThreadRec
  <2>2. w \in ThreadRec /\ w.status = t.status /\ w.ci = t.ci /\ w.size_ci = t.size_ci
        /\ View(w) = [n |-> t.nCcalls - 1, base |-> t.baseCcalls, ci |-> t.ci, ef |-> t.errfunc]
    <3> HIDE DEF t
    <3> QED
      BY <1>2, <2>1, SetCalls
  <2>3. t.nCcalls - 1 = u.nCcalls
    BY <1>5, <2>1
  <2> HIDE DEF w, t
  <2>4. View(w) = View(u)
    BY <1>5, <2>2, <2>3 DEF View
  <2> QED
    BY <1>2, <2>2, <2>4 DEF Sized
<1> HIDE DEF w, t
<1>7. Works(Front(cs), w, L0, th, E)
  BY <1>4, <1>6
<1>8. Last(Front(cs)).f /= "call"
  BY <1>1, <1>4 DEF Link, Follows
<1>9. s.cs = Front(cs) /\ s.t = w
  OBVIOUS
<1> HIDE DEF s
<1> QED
  BY <1>1, <1>3, <1>7, <1>8, <1>9, GotoSteps DEF E

\* An activation that has changed nothing in its thread.
LEMMA PlainReturns ==
    ASSUME NEW E \in Nat \ {0}, NEW q, NEW t, NEW L, NEW T, Works(q, t, L, T, E),
           Last(q).f \in {"raise", "errormsg", "parser"}
    PROVE  /\ Works(Front(q), t, L, T, E)
           /\ Last(q).f = "parser" => Last(Front(q)).f = "pcall"
<1>1. Fits(q, t, T, E) /\ t \in ThreadRec /\ Sized(t)
  BY DEF Works
<1>2. Last(q) \in Frame /\ Len(q) >= 2 /\ t.status = "ok"
  BY <1>1, FitsTypes
<1>3. PICK u \in ThreadRec :
          /\ Link(View(u), Last(Front(q)), Last(q), View(t), E)
          /\ \A z \in ThreadRec : Sized(z) /\ z.status = "ok" /\ View(z) = View(u)
                                  => Works(Front(q), z, L, T, E)
  BY <1>2, Beneath
<1>4. View(t) = View(u)
  <2>1. Infos(Last(q)) = <<>>
    BY <1>2, InfosTypes
  <2>2. Snap(View(u), Last(q), View(t))
    BY <1>3 DEF Link
  <2>3. u.ci \o <<>> = u.ci
    BY ConcatEmptySeq DEF ThreadRec
  <2> QED
    BY <2>1, <2>2, <2>3 DEF Snap, View
<1> QED
  BY <1>1, <1>2, <1>3, <1>4 DEF Link, Follows

\* f_parser returns.
LEMMA ParserReturnsSteps ==
    ASSUME Inv, cs /= <<>>, ParserReturns
    PROVE  Stepped
<1> DEFINE s == PopFrame(Here)
<1>1. Top.f = "parser" /\ Goto(s, TRUE)
  BY DEF ParserReturns
<1>2. ErrCCalls \in Nat \ {0} /\ Works(cs, th[L0], L0, th, ErrCCalls) /\ Last(cs) = Top
      /\ Here = [cs |-> cs, t |-> th[L0]]
  BY Now
<1>3. s.cs = Front(cs) /\ s.t = th[L0]
  BY <1>2 DEF PopFrame
<1>4. Works(Front(cs), th[L0], L0, th, ErrCCalls) /\ Last(Front(cs)).f = "pcall"
  BY <1>1, <1>2, PlainReturns
<1> HIDE DEF s
<1> QED
  BY <1>1, <1>3, <1>4, GotoSteps

-----------------------------------------------------------------------------
(***************************************************************************)
(* Every action preserves the invariant: errors and protected calls.       *)
(***************************************************************************)

\* luaD_throw is called, or luaG_errormsg.
LEMMA RaiseSteps ==
    ASSUME Inv, cs /= <<>>, Top.f \in {"execute", "parser", "C"},
           NEW status \in {"run", "mem", "syntax"},
           Goto([Here EXCEPT !.cs = Append(@, Raise(L0, status))], TRUE)
    PROVE  Stepped
<1> DEFINE s == [Here EXCEPT !.cs = Append(@, Raise(L0, status))]
           q == Append(cs, Raise(L0, status))
<1>1. Goto(s, TRUE)
  OBVIOUS
<1>2. ErrCCalls \in Nat \ {0} /\ Works(cs, th[L0], L0, th, ErrCCalls)
      /\ Here = [cs |-> cs, t |-> th[L0]] /\ th[L0].nCcalls < ErrCCalls
      /\ th[L0] \in ThreadRec /\ Sized(th[L0]) /\ th[L0].status = "ok"
  BY <1>1, Now
<1>3. s.cs = q /\ s.t = th[L0]
  BY <1>2
<1>4. Works(q, th[L0], L0, th, ErrCCalls) /\ Last(q).f = "raise"
  <2> DEFINE t == th[L0]
             E == ErrCCalls
             x == Raise(L0, status)
  <2>1. E \in Nat \ {0} /\ Works(cs, t, L0, th, E) /\ t.nCcalls < E
        /\ t \in ThreadRec /\ Sized(t) /\ t.status = "ok"
    BY <1>2
  <2>2. x \in Frame /\ x.f = "raise" /\ x.th = L0
    <3>1. L0 \in Thread
      BY Now
    <3> QED
      BY <3>1, FramesMade DEF Raise
  <2> HIDE DEF t, E, x
  <2>3. Works(Append(cs, x), t, L0, th, E) /\ Last(Append(cs, x)) = x
    BY <2>1, <2>2, WorksPlain
  <2> QED
    BY <2>2, <2>3 DEF t, E, x
<1> HIDE DEF s, q
<1> QED
  BY <1>1, <1>3, <1>4, GotoSteps

\* An error is raised.
LEMMA FailSteps ==
    ASSUME Inv, cs /= <<>>, NEW status \in {"run", "mem", "syntax"}, Fail(status)
    PROVE  Stepped
<1>1. Top.f \in {"execute", "parser", "C"}
      /\ Goto([Here EXCEPT !.cs = Append(@, Raise(L0, status))], TRUE)
  BY DEF Fail
<1> QED
  BY <1>1, RaiseSteps

\* luaD_pcall before its call.
LEMMA ProtectWorks ==
    ASSUME NEW E \in Nat \ {0}, NEW q, NEW t, NEW L, NEW T, Works(q, t, L, T, E),
           Last(q).f = "C", Last(q).fn \in {"pcall", "xpcall", "load"}, NEW ef \in BOOLEAN
    PROVE  LET p == Protect([cs |-> q, t |-> t], L, ef)
           IN  /\ Works(p.cs, p.t, L, T, E) /\ Last(p.cs).f = "pcall"
               /\ p = [cs |-> p.cs, t |-> p.t] /\ p.t.nCcalls < E
               /\ p.t.status = "ok" /\ p.t \in ThreadRec /\ Sized(p.t)
<1> DEFINE x == [f |-> "pcall", th |-> L, ef |-> ef, nCcalls |-> t.nCcalls,
                 ci |-> Len(t.ci), errfunc |-> t.errfunc]
           w == [t EXCEPT !.errfunc = ef]
           p == Protect([cs |-> q, t |-> t], L, ef)
<1>1. Fits(q, t, T, E) /\ t \in ThreadRec /\ Sized(t) /\ L = Last(q).th
  BY DEF Works
<1>2. L \in Thread /\ t.status = "ok" /\ View(t) \in Snapshot /\ Bounded(Last(q), View(t), E)
  BY <1>1, FitsTypes
<1>3. t.nCcalls < E
  BY Deep
<1>4. t.ci \in Seq(CI) /\ Len(t.ci) \in Nat /\ t.nCcalls \in Int /\ t.errfunc \in BOOLEAN
  BY <1>1, LenProperties DEF ThreadRec
<1>5. x \in Frame
  BY <1>2, <1>4 DEF Frame
<1>6. x.f = "pcall" /\ x.th = L /\ x.ef = ef /\ x.nCcalls = t.nCcalls /\ x.ci = Len(t.ci)
      /\ x.errfunc = t.errfunc
  OBVIOUS
<1>7. p = [cs |-> Append(q, x), t |-> w]
  <2> DEFINE s == [cs |-> q, t |-> t]
  <2>1. s.cs = q /\ s.t = t
    OBVIOUS
  <2>2. p = [s EXCEPT !.cs = Append(s.cs, x), !.t.errfunc = ef]
    BY DEF Protect
  <2>3. p = [[s EXCEPT !.cs = Append(q, x)] EXCEPT !.t.errfunc = ef]
    BY <2>2
  <2> HIDE DEF x, p, w
  <2>4. [s EXCEPT !.cs = Append(q, x)] = [cs |-> Append(q, x), t |-> t]
    OBVIOUS
  <2> HIDE DEF s
  <2>5. p = [[cs |-> Append(q, x), t |-> t] EXCEPT !.t.errfunc = ef]
    BY ONLY <2>3, <2>4
  <2> QED
    BY <2>5 DEF w
<1> HIDE DEF x
<1>8. w \in ThreadRec /\ w.status = "ok" /\ w.ci = t.ci /\ w.size_ci = t.size_ci
      /\ w.nCcalls = t.nCcalls
      /\ View(w) = [n |-> t.nCcalls, base |-> t.baseCcalls, ci |-> t.ci, ef |-> ef]
  BY <1>1, <1>2, SetErrfunc
<1> HIDE DEF w, p
<1>9. Sized(w)
  BY <1>1, <1>8 DEF Sized
<1>10. Link(View(t), Last(q), x, View(w), E)
  <2>1. Follows(Last(q), x)
    BY <1>1, <1>6 DEF Follows
  <2>2. Infos(x) = <<>>
    BY <1>5, <1>6, InfosTypes
  <2>3. t.ci \o <<>> = t.ci
    BY <1>4, ConcatEmptySeq
  <2>4. View(t).n = t.nCcalls /\ View(t).base = t.baseCcalls /\ View(t).ci = t.ci
        /\ View(t).ef = t.errfunc
    BY DEF View
  <2>5. View(w).n = t.nCcalls /\ View(w).base = t.baseCcalls /\ View(w).ci = t.ci
        /\ View(w).ef = ef
    BY <1>8
  <2>6. Snap(View(t), x, View(w))
    BY <1>6, <2>2, <2>3, <2>4, <2>5 DEF Snap
  <2>7. Bounded(x, View(w), E)
    BY <1>2, <1>3, <2>4, <2>5 DEF Bounded
  <2> QED
    BY <2>1, <2>6, <2>7 DEF Link
<1>11. Works(Append(q, x), w, L, T, E) /\ Last(Append(q, x)) = x
  BY <1>5, <1>6, <1>8, <1>9, <1>10, WorksPush
<1>12. p.cs = Append(q, x) /\ p.t = w
  BY <1>7
<1> QED
  BY <1>3, <1>6, <1>7, <1>8, <1>9, <1>11, <1>12 DEF p

\* pcall and xpcall
LEMMA DoPcallSteps ==
    ASSUME Inv, cs /= <<>>, NEW callee \in Callee, DoPcall(callee)
    PROVE  Stepped
<1> DEFINE ef == (Top.fn = "xpcall")
           p == Protect(Here, L0, ef)
           r == DCall(p, L0, callee)
           E == ErrCCalls
           t == th[L0]
<1>1. Top.f = "C" /\ Top.fn \in {"pcall", "xpcall"} /\ Goto(r, TRUE)
  BY DEF DoPcall
<1>2. prog \in Programs /\ E \in Nat \ {0} /\ Works(cs, t, L0, th, E) /\ Last(cs) = Top
      /\ Here = [cs |-> cs, t |-> t]
  BY Now
<1>3. callee \in CFunction \cup {"lua"}
  BY ProgramTypes DEF Inv
<1>4. ef \in BOOLEAN
  OBVIOUS
<1>5. p = Protect([cs |-> cs, t |-> t], L0, ef)
  BY <1>2
<1>6. /\ Works(p.cs, p.t, L0, th, E) /\ Last(p.cs).f = "pcall" /\ p = [cs |-> p.cs, t |-> p.t]
  <2> HIDE DEF t, ef, E
  <2> QED
    BY <1>1, <1>2, <1>4, <1>5, ProtectWorks
<1> HIDE DEF p
<1>7. Works(r.cs, r.t, L0, th, ErrCCalls) /\ Last(r.cs).f /= "call"
  <2>1. PICK q, u : q = p.cs /\ u = p.t
    OBVIOUS
  <2>2. Works(q, u, L0, th, ErrCCalls) /\ MayCall(Last(q)) /\ p = [cs |-> q, t |-> u]
    BY <1>6, <2>1 DEF MayCall
  <2> QED
    BY <1>2, <1>3, <2>2, DCallWorks
<1> HIDE DEF r
<1> QED
  BY <1>1, <1>7, GotoSteps

\* load
LEMMA DoLoadSteps ==
    ASSUME Inv, cs /= <<>>, DoLoad
    PROVE  Stepped
<1> DEFINE E == ErrCCalls
           t == th[L0]
           p == Protect(Here, L0, t.errfunc)
           s == [p EXCEPT !.cs = Append(@, Parser(L0))]
<1>1. Top.f = "C" /\ Top.fn = "load" /\ Goto(s, TRUE)
  BY DEF DoLoad
<1>2. E \in Nat \ {0} /\ Works(cs, t, L0, th, E) /\ Last(cs) = Top
      /\ Here = [cs |-> cs, t |-> t] /\ t \in ThreadRec /\ L0 \in Thread
  BY Now
<1>3. t.errfunc \in BOOLEAN
  BY <1>2 DEF ThreadRec
<1>4. p = Protect([cs |-> cs, t |-> t], L0, t.errfunc)
  BY <1>2
<1> HIDE DEF E
<1>5. /\ Works(p.cs, p.t, L0, th, E) /\ Last(p.cs).f = "pcall" /\ p = [cs |-> p.cs, t |-> p.t]
      /\ p.t.nCcalls < E /\ p.t.status = "ok" /\ p.t \in ThreadRec /\ Sized(p.t)
  <2> HIDE DEF t
  <2> QED
    BY <1>1, <1>2, <1>3, <1>4, ProtectWorks
<1> HIDE DEF p
<1> DEFINE x == Parser(L0)
<1>6. x \in Frame /\ x.f = "parser" /\ x.th = L0
  BY <1>2, FramesMade DEF Parser
<1> HIDE DEF x
<1>7. Works(Append(p.cs, x), p.t, L0, th, E) /\ Last(Append(p.cs, x)) = x
  BY <1>2, <1>5, <1>6, WorksPlain
<1>8. s.cs = Append(p.cs, x) /\ s.t = p.t
  <2>1. PICK q, u : q = p.cs /\ u = p.t /\ p = [cs |-> q, t |-> u]
    BY <1>5
  <2> QED
    BY <2>1 DEF x
<1> HIDE DEF s
<1> QED
  BY <1>1, <1>6, <1>7, <1>8, GotoSteps DEF E

\* luaG_errormsg calls the error function.
LEMMA CallHandlerSteps ==
    ASSUME Inv, cs /= <<>>, NEW callee \in {"lua", "plain"}, CallHandler(callee)
    PROVE  Stepped
<1> DEFINE E == ErrCCalls
           t == th[L0]
           x == ErrorMsg(L0)
           q == Append(Front(cs), x)
           s == [PopFrame(Here) EXCEPT !.cs = Append(@, ErrorMsg(L0))]
           r == DCall(s, L0, callee)
<1>1. Top.f = "raise" /\ Top.status = "run" /\ Goto(r, TRUE)
  BY DEF CallHandler
<1>2. prog \in Programs /\ E \in Nat \ {0} /\ Works(cs, t, L0, th, E) /\ Last(cs) = Top
      /\ Here = [cs |-> cs, t |-> t] /\ t \in ThreadRec /\ Sized(t) /\ t.status = "ok"
      /\ L0 \in Thread
  BY Now
<1>3. s = [cs |-> q, t |-> t]
  <2>1. PopFrame(Here) = [cs |-> Front(cs), t |-> t]
    BY <1>2 DEF PopFrame
  <2> HIDE DEF t
  <2> QED
    BY <2>1
<1> HIDE DEF s, t, E
<1>4. Works(Front(cs), t, L0, th, E) /\ t.nCcalls < E
  BY <1>1, <1>2, PlainReturns, Deep
<1>5. x \in Frame /\ x.f = "errormsg" /\ x.th = L0
  BY <1>2, FramesMade DEF ErrorMsg
<1> HIDE DEF x
<1>6. Works(q, t, L0, th, E) /\ Last(q).f = "errormsg"
  BY <1>2, <1>4, <1>5, WorksPlain
<1> HIDE DEF q
<1>7. Works(r.cs, r.t, L0, th, ErrCCalls) /\ Last(r.cs).f /= "call"
  <2>1. Works(q, t, L0, th, ErrCCalls) /\ MayCall(Last(q))
    BY <1>6 DEF E, MayCall
  <2>2. callee \in CFunction \cup {"lua"}
    BY DEF CFunction
  <2> QED
    BY <1>2, <1>3, <2>1, <2>2, DCallWorks
<1> HIDE DEF r
<1> QED
  BY <1>1, <1>7, GotoSteps


-----------------------------------------------------------------------------
(***************************************************************************)
(* Protected calls and errors.                                             *)
(***************************************************************************)

\* The place that SelectLastInSeq finds.
LEMMA LargestNumber ==
    ASSUME NEW n \in Nat, NEW I, I \subseteq 1..n, I /= {}
    PROVE  Max(I) \in I /\ \A k \in I : k <= Max(I)
<1> DEFINE J == {n - k : k \in I}
<1>1. J \subseteq Nat /\ J /= {}
  <2>1. \A k \in I : n - k \in Nat /\ n - k \in J
    OBVIOUS
  <2>2. J \subseteq Nat
    BY <2>1
  <2>3. PICK k \in I : TRUE
    OBVIOUS
  <2> QED
    BY <2>1, <2>2, <2>3
<1>2. PICK j \in J : \A k \in J : j <= k
  <2> HIDE DEF J
  <2> QED
    BY <1>1, LeastNumber
<1>3. PICK m \in I : j = n - m
  BY <1>2
<1>4. \A k \in I : m >= k
  <2> TAKE k \in I
  <2>1. n - k \in J /\ k \in Nat /\ m \in Nat
    OBVIOUS
  <2>2. n - m <= n - k
    BY <1>2, <1>3, <2>1
  <2> QED
    BY <2>1, <2>2
<1>5. \E x \in I : \A y \in I : x >= y
  BY <1>4
<1>6. Max(I) \in I /\ \A y \in I : Max(I) >= y
  BY <1>5 DEF Max
<1> QED
  BY <1>6

\* The frames that catch the errors of thread L.
Catchers(q, L) == {k \in 1..Len(q) : q[k].f \in {"pcall", "resume"} /\ q[k].th = L}

\* The innermost luaD_pcall or lua_resume of the running thread.
LEMMA Catcher ==
    ASSUME NEW E \in Nat \ {0}, NEW q, NEW t, NEW T, Fits(q, t, T, E), NEW L, L = Last(q).th
    PROVE  LET i == Max(Catchers(q, L))
           IN  /\ Catchers(q, L) /= {}
               /\ i \in 1..Len(q) /\ q[i].f \in {"pcall", "resume"} /\ q[i].th = L
               /\ \A k \in (i + 1)..Len(q) : q[k].f /= "resume"
<1> DEFINE I == Catchers(q, L)
           i == Max(I)
<1>1. PICK s \in Seq(Snapshot) : Linked(q, s, E)
  BY DEF Fits
<1>2. Len(q) \in Nat \ {0} /\ Len(q) \in 1..Len(q) /\ Last(q) = q[Len(q)] /\ q[1] = Base
  BY FitsTypes
<1>3. PICK r \in 1..Len(q) :
          /\ r = 1 \/ q[r].f = "resume"
          /\ \A k \in (r + 1)..Len(q) : q[k].f /= "resume"
          /\ \A k \in r..Len(q) : q[k].th = q[Len(q)].th
  BY <1>1, <1>2, Segment
<1>4. r \in I
  BY <1>2, <1>3 DEF Base, Catchers
<1>5. i \in I /\ r <= i
  <2>1. I \subseteq 1..Len(q)
    BY DEF Catchers
  <2> HIDE DEF I
  <2> QED
    BY <1>2, <1>4, <2>1, LargestNumber
<1>6. i \in 1..Len(q) /\ q[i].f \in {"pcall", "resume"} /\ q[i].th = L
  <2> HIDE DEF i
  <2> QED
    BY <1>5 DEF Catchers
<1> HIDE DEF i
<1>7. \A k \in (i + 1)..Len(q) : k \in (r + 1)..Len(q)
  BY <1>5, <1>6
<1> QED
  BY <1>3, <1>4, <1>6, <1>7 DEF i

\* The main thread has nothing left to do: the interpreter ends.
LEMMA Ending ==
    ASSUME NEW E \in Nat \ {0}, NEW q, NEW t, NEW L, NEW T, Threads(T), Works(q, t, L, T, E),
           \A k \in 2..Len(q) : q[k].f /= "resume",
           NEW u \in ThreadRec, Sized(u), u.status = "ok"
    PROVE  Good(<<>>, [T EXCEPT ![L] = u], E)
<1> DEFINE U == [T EXCEPT ![L] = u]
<1>1. Fits(q, t, T, E) /\ Idles(q, T) /\ L = Last(q).th
  BY DEF Works
<1>2. Len(q) \in Nat \ {0} /\ L \in Thread /\ q[1] = Base
  BY <1>1, FitsTypes
<1>3. \A k \in 1..Len(q) : q[k].th = L
  <2>1. PICK m \in 1..Len(q) : m = 1
    BY <1>2
  <2>2. \A k \in (m + 1)..Len(q) : q[k].f /= "resume"
    BY <2>1
  <2> QED
    BY <1>1, <2>1, <2>2, Running
<1>4. L = main
  BY <1>2, <1>3 DEF Base
<1>5. U \in [Thread -> ThreadRec] /\ U[L] = u /\ \A M \in Thread : M /= L => U[M] = T[M]
  BY <1>2 DEF Threads
<1> HIDE DEF U
<1>6. (\A M \in Thread : Sized(U[M])) /\ U[main].status = "ok"
  BY <1>2, <1>4, <1>5 DEF Threads
<1>7. Idles(<<>>, U)
  <2> SUFFICES ASSUME NEW co \in Co PROVE Idle(U[co])
    BY DEF Idles
  <2>1. co /= L /\ co \in Thread
    BY <1>4, CallsAssumption DEF Thread
  <2>2. Idle(T[co])
    BY <1>1, <1>3, <2>1 DEF Idles
  <2> QED
    BY <1>5, <2>1, <2>2
<1>8. <<>> \in Seq(Frame)
  BY EmptySeq
<1>9. Good(<<>>, U, E)
  BY <1>5, <1>6, <1>7, <1>8 DEF Good
<1> QED
  BY <1>9 DEF U

\* luaD_pcall returns normally.
LEMMA PcallReturnsSteps ==
    ASSUME Inv, cs /= <<>>, PcallReturns
    PROVE  Stepped
<1> DEFINE t == th[L0]
           E == ErrCCalls
           w == [t EXCEPT !.errfunc = Top.errfunc]
           q == Finish(Front(cs), TRUE)
           s == [cs |-> q, t |-> w]
           r == [Here EXCEPT !.cs = Finish(Front(@), TRUE), !.t.errfunc = Top.errfunc]
<1>1. Top.f = "pcall" /\ Goto(r, TRUE)
  BY DEF PcallReturns
<1>2. E \in Nat \ {0} /\ Works(cs, t, L0, th, E) /\ Last(cs) = Top /\ Threads(th) /\ ~failed
      /\ Here = [cs |-> cs, t |-> t] /\ Len(cs) \in Nat \ {0} /\ cs \in Seq(Frame)
      /\ Top \in Frame /\ t \in ThreadRec /\ Sized(t) /\ t.status = "ok"
  BY <1>1, Now
<1>3. r = s
  <2>1. r = [[Here EXCEPT !.cs = Finish(Front(@), TRUE)] EXCEPT !.t.errfunc = Top.errfunc]
    OBVIOUS
  <2>2. [Here EXCEPT !.cs = Finish(Front(@), TRUE)] = [cs |-> q, t |-> t]
    <3>1. Here.cs = cs
      BY <1>2
    <3>2. Finish(Front(Here.cs), TRUE) = q
      BY <3>1
    <3> HIDE DEF q, t
    <3>3. \A z : [Here EXCEPT !.cs = z] = [cs |-> z, t |-> t]
      BY <1>2
    <3> QED
      BY <3>2, <3>3
  <2> HIDE DEF r, q
  <2> QED
    BY <2>1, <2>2
<1> HIDE DEF r, E
<1>4. w \in ThreadRec /\ Sized(w) /\ w.status = "ok"
      /\ View(w) = [n |-> t.nCcalls, base |-> t.baseCcalls, ci |-> t.ci, ef |-> Top.errfunc]
  <2>1. Top.errfunc \in BOOLEAN
    BY <1>1, <1>2, FrameFields
  <2>2. w \in ThreadRec /\ w.status = t.status /\ w.ci = t.ci /\ w.size_ci = t.size_ci
        /\ View(w) = [n |-> t.nCcalls, base |-> t.baseCcalls, ci |-> t.ci, ef |-> Top.errfunc]
    <3> HIDE DEF t
    <3> QED
      BY <1>2, <2>1, SetErrfunc
  <2> HIDE DEF w, t
  <2> QED
    BY <1>2, <2>2 DEF Sized
<1> HIDE DEF w
<1>5. s.cs = q /\ s.t = w
  OBVIOUS
<1>6. CASE Len(cs) >= 2
  <2>1. PICK u \in ThreadRec :
            /\ Link(View(u), Last(Front(cs)), Top, View(t), E)
            /\ \A z \in ThreadRec : Sized(z) /\ z.status = "ok" /\ View(z) = View(u)
                                    => Works(Front(cs), z, L0, th, E)
    <3> HIDE DEF t
    <3> QED
      BY <1>1, <1>2, <1>6, Beneath
  <2> HIDE DEF t
  <2>2. View(w) = View(u)
    <3>1. Infos(Top) = <<>>
      BY <1>1, <1>2, InfosTypes
    <3>2. Snap(View(u), Top, View(t))
      BY <2>1 DEF Link
    <3>3. u.ci \o <<>> = u.ci
      BY ConcatEmptySeq DEF ThreadRec
    <3> QED
      BY <1>1, <1>4, <3>1, <3>2, <3>3 DEF Snap, View
  <2>3. Works(Front(cs), w, L0, th, E)
    BY <1>4, <2>1, <2>2
  <2>4. Last(Front(cs)).f = "C"
    BY <1>1, <2>1 DEF Link, Follows
  <2>5. Works(q, w, L0, th, E) /\ Last(q).f \in {"C", "raise"}
    <3> DEFINE ok == TRUE
    <3>1. ok \in BOOLEAN
      OBVIOUS
    <3> HIDE DEF ok
    <3>2. Works(Finish(Front(cs), ok), w, L0, th, E) /\ Last(Finish(Front(cs), ok)).f \in {"C", "raise"}
      BY <1>2, <2>3, <2>4, <3>1, WorksFinish
    <3> QED
      BY <3>2 DEF ok
  <2> HIDE DEF s, q
  <2> QED
    BY <1>1, <1>3, <1>5, <2>5, GotoSteps DEF E
<1>7. CASE ~(Len(cs) >= 2)
  <2>1. q = <<>>
    <3>1. Front(cs) \in Seq(Frame) /\ Len(Front(cs)) = 0
      BY <1>2, <1>7, FrontEnds
    <3>2. Front(cs) = <<>>
      BY <3>1, EmptySeq
    <3> QED
      BY <3>2 DEF Finish
  <2> HIDE DEF t, q
  <2>2. \A k \in 2..Len(cs) : cs[k].f /= "resume"
    BY <1>2, <1>7
  <2>3. Good(<<>>, [th EXCEPT ![L0] = w], E)
    BY <1>2, <1>4, <2>2, Ending
  <2>4. cs' = <<>> /\ th' = [th EXCEPT ![L0] = w] /\ ~failed'
    <3>1. cs' = s.cs /\ th' = [th EXCEPT ![L0] = s.t] /\ failed' = (failed \/ ~TRUE)
      BY <1>1, <1>3 DEF Goto
    <3> HIDE DEF s
    <3> QED
      BY <1>2, <1>5, <2>1, <3>1
  <2> QED
    BY <2>3, <2>4 DEF Stepped, E
<1> QED
  BY <1>6, <1>7

\* restore_stack_limit
LEMMA LimitRestored ==
    ASSUME NEW t \in ThreadRec, Len(t.ci) < t.size_ci, BasicCI <= t.size_ci, t.size_ci <= 2 * MaxCalls
    PROVE  LET c == RestoreLimit(t)
           IN  c \in ThreadRec /\ Sized(c) /\ c.status = t.status /\ View(c) = View(t)
<1>1. MaxCalls \in Nat /\ BasicCI <= MaxCalls /\ BasicCI \in Nat
  BY CallsAssumption
<1>2. t.ci \in Seq(CI) /\ t.size_ci \in Nat /\ Len(t.ci) \in Nat
  BY LenProperties DEF ThreadRec
<1>3. CASE t.size_ci > MaxCalls /\ Len(t.ci) + 1 < MaxCalls
  <2> DEFINE c == [t EXCEPT !.size_ci = MaxCalls]
  <2>1. c \in ThreadRec /\ c.status = t.status /\ c.ci = t.ci /\ c.size_ci = MaxCalls
        /\ View(c) = View(t)
    BY <1>1, SetSize
  <2> HIDE DEF c
  <2>2. Sized(c)
    BY <1>1, <1>2, <1>3, <2>1 DEF Sized
  <2> QED
    BY <1>3, <2>1, <2>2 DEF RestoreLimit, c
<1>4. CASE ~(t.size_ci > MaxCalls /\ Len(t.ci) + 1 < MaxCalls)
  BY <1>4 DEF RestoreLimit, Sized
<1> QED
  BY <1>3, <1>4

\* What luaD_pcall makes of its thread after an error.
LEMMA CatchRestores ==
    ASSUME NEW t \in ThreadRec, Sized(t), NEW x \in Frame, x.f = "pcall", x.ci <= Len(t.ci)
    PROVE  LET c == Catch(t, x)
           IN  /\ c \in ThreadRec /\ Sized(c) /\ c.status = t.status
               /\ View(c) = [n |-> x.nCcalls, base |-> t.baseCcalls,
                             ci |-> SubSeq(t.ci, 1, x.ci), ef |-> x.errfunc]
<1> DEFINE a == [t EXCEPT !.nCcalls = x.nCcalls]
           v == SubSeq(t.ci, 1, x.ci)
           b == [a EXCEPT !.ci = v]
           c == [b EXCEPT !.errfunc = x.errfunc]
<1>1. x.nCcalls \in Int /\ x.ci \in Nat /\ x.errfunc \in BOOLEAN
  BY FrameFields
<1>2. t.ci \in Seq(CI) /\ t.size_ci \in Nat /\ Len(t.ci) \in Nat
  BY LenProperties DEF ThreadRec
<1>3. v \in Seq(CI) /\ Len(v) = x.ci
  <2>1. \A i \in 1..x.ci : t.ci[i] \in CI
    BY <1>1, <1>2, ElementOfSeq
  <2> QED
    BY <1>1, <2>1, SubSeqProperties
<1>4. Catch(t, x) = RestoreLimit(c)
  <2>1. [t EXCEPT !.nCcalls = x.nCcalls, !.ci = SubSeq(@, 1, x.ci), !.errfunc = x.errfunc] = c
    <3>1. a.ci = t.ci /\ b = [a EXCEPT !.ci = SubSeq(@, 1, x.ci)]
      OBVIOUS
    <3> QED
      OBVIOUS
  <2> QED
    BY <2>1 DEF Catch
<1>5. a \in ThreadRec /\ a.status = t.status /\ a.ci = t.ci /\ a.size_ci = t.size_ci
      /\ a.nCcalls = x.nCcalls /\ a.baseCcalls = t.baseCcalls
  <2>1. a.baseCcalls = t.baseCcalls
    BY DEF ThreadRec
  <2> QED
    BY <1>1, <2>1, SetCalls
<1> HIDE DEF a, v
<1>6. b \in ThreadRec /\ b.status = t.status /\ b.ci = v /\ b.size_ci = t.size_ci
      /\ b.nCcalls = x.nCcalls /\ b.baseCcalls = t.baseCcalls
  <2>1. b.nCcalls = a.nCcalls /\ b.baseCcalls = a.baseCcalls
    BY <1>5 DEF ThreadRec
  <2> QED
    BY <1>3, <1>5, <2>1, SetCI
<1> HIDE DEF b
<1>7. c \in ThreadRec /\ c.status = t.status /\ c.ci = v /\ c.size_ci = t.size_ci
      /\ View(c) = [n |-> x.nCcalls, base |-> t.baseCcalls, ci |-> v, ef |-> x.errfunc]
  BY <1>1, <1>6, SetErrfunc
<1> HIDE DEF c
<1>8. Len(c.ci) < c.size_ci /\ BasicCI <= c.size_ci /\ c.size_ci <= 2 * MaxCalls
  BY <1>1, <1>2, <1>3, <1>7 DEF Sized
<1> QED
  BY <1>4, <1>7, <1>8, LimitRestored DEF v

\* lua_resume returns: u is what it leaves of the coroutine.
LEMMA Leave ==
    ASSUME NEW E \in Nat \ {0}, NEW q, NEW t, NEW L, NEW T, Threads(T), Works(q, t, L, T, E),
           NEW m \in 1..(Len(q) - 1), q[m + 1].f = "resume",
           \A k \in (m + 2)..Len(q) : q[k].f /= "resume",
           NEW u \in ThreadRec, Sized(u), Idle(u), NEW ok \in BOOLEAN
    PROVE  Good(Finish(SubSeq(q, 1, m), ok), [T EXCEPT ![L] = u], E)
<1> DEFINE U == [T EXCEPT ![L] = u]
           p == SubSeq(q, 1, m)
           K == q[m].th
<1>1. Fits(q, t, T, E) /\ Idles(q, T) /\ L = Last(q).th
  BY DEF Works
<1>2. q \in Seq(Frame) /\ Len(q) \in Nat \ {0} /\ L \in Thread /\ m \in 1..Len(q)
      /\ m + 1 \in 1..Len(q)
  BY <1>1, FitsTypes
<1>3. \A k \in (m + 1)..Len(q) : q[k].th = L
  <2>1. PICK j \in 1..Len(q) : j = m + 1
    BY <1>2
  <2>2. \A k \in (j + 1)..Len(q) : q[k].f /= "resume"
    BY <1>2, <2>1
  <2> QED
    BY <1>1, <2>1, <2>2, Running
<1>4. q[m + 1].th = L
  BY <1>2, <1>3
<1>5. PICK v \in Snapshot, w \in Snapshot : CutAt(q, t, T, E, m, v, w)
  BY <1>1, Cut
<1>6. Link(v, q[m], q[m + 1], w, E) /\ T[K].status = "ok" /\ View(T[K]) = v
  BY <1>5 DEF CutAt
<1>7. L \in Co /\ q[m].f = "C"
  BY <1>4, <1>6 DEF Link, Follows
<1>8. \A i \in 1..m : q[i].th /= L
  <2>1. PICK s \in Seq(Snapshot) : Linked(q, s, E)
    BY <1>1 DEF Fits
  <2>2. \A i \in 1..((m + 1) - 1) : q[i].th /= q[m + 1].th
    BY <1>2, <2>1 DEF Linked
  <2> QED
    BY <1>2, <1>4, <2>2
<1>9. K \in Thread /\ K /= L
  BY <1>2, <1>8, ElementOfSeq, FrameFields
<1>10. U \in [Thread -> ThreadRec] /\ U[L] = u /\ \A M \in Thread : M /= L => U[M] = T[M]
  BY <1>2 DEF Threads
<1>11. Len(p) = m /\ (\A i \in 1..m : p[i] = q[i]) /\ Last(p) = q[m]
  BY <1>2, CutProperties
<1>12. Fits(p, T[K], T, E)
  BY <1>5, <1>6 DEF CutAt
<1> HIDE DEF U, p
<1>13. Threads(U)
  <2>1. main /= L /\ main \in Thread
    BY <1>7, CallsAssumption DEF Thread
  <2> QED
    BY <1>10, <2>1 DEF Threads
<1>14. Fits(p, T[K], U, E)
  <2>1. \A i \in 1..Len(p) : U[p[i].th] = T[p[i].th]
    <3>1. \A i \in 1..m : q[i].th \in Thread
      BY <1>2, ElementOfSeq, FrameFields
    <3> QED
      BY <1>8, <1>10, <1>11, <3>1
  <2> QED
    BY <1>12, <2>1, FitsOthers
<1>15. Idles(p, U)
  <2> SUFFICES ASSUME NEW co \in Co, \A i \in 1..Len(p) : p[i].th /= co PROVE Idle(U[co])
    BY DEF Idles
  <2>1. CASE co = L
    BY <1>10, <2>1
  <2>2. CASE co /= L
    <3>1. \A i \in 1..Len(q) : q[i].th /= co
      <4>1. \A i \in 1..Len(q) : i \in 1..m \/ i \in (m + 1)..Len(q)
        BY <1>2
      <4> QED
        BY <1>3, <1>11, <2>2, <4>1
    <3>2. co \in Thread
      BY DEF Thread
    <3> QED
      BY <1>1, <1>10, <2>2, <3>1, <3>2 DEF Idles
  <2> QED
    BY <2>1, <2>2
<1>16. Works(p, T[K], K, U, E)
  BY <1>9, <1>11, <1>13, <1>10, <1>14, <1>15 DEF Works, Threads
<1>17. Works(Finish(p, ok), T[K], K, U, E) /\ Last(Finish(p, ok)).f \in {"C", "raise"}
  BY <1>7, <1>11, <1>16, WorksFinish
<1>18. Good(Finish(p, ok), [U EXCEPT ![K] = T[K]], E)
  BY <1>13, <1>17, Ready
<1>19. [U EXCEPT ![K] = T[K]] = U
  BY <1>9, <1>10
<1> QED
  BY <1>18, <1>19 DEF U, p

\* The CallInfos that luaD_pcall has saved the number of are still there.
LEMMA SavedInfos ==
    ASSUME NEW v \in Seq(CI), NEW c, Extends(c, v)
    PROVE  c \in Seq(CI) /\ Len(v) <= Len(c) /\ SubSeq(c, 1, Len(v)) = v
<1>1. PICK e \in Seq(CI) : c = v \o e
  BY DEF Extends
<1>2. c \in Seq(CI) /\ Len(c) = Len(v) + Len(e) /\ Len(v) \in Nat /\ Len(e) \in Nat
      /\ \A i \in 1..(Len(v) + Len(e)) : c[i] = IF i <= Len(v) THEN v[i] ELSE e[i - Len(v)]
  BY <1>1, ConcatProperties, LenProperties
<1>3. \A i \in 1..Len(v) : c[i] = v[i] /\ c[i] \in CI
  BY <1>2, ElementOfSeq
<1> DEFINE p == SubSeq(c, 1, Len(v))
<1>4. p \in Seq(CI) /\ Len(p) = Len(v) /\ \A i \in 1..Len(v) : p[i] = c[i]
  <2> DEFINE n == Len(v)
  <2>1. n \in Nat /\ \A i \in 1..n : c[i] \in CI
    BY <1>2, <1>3
  <2> HIDE DEF n
  <2>2. SubSeq(c, 1, n) \in Seq(CI) /\ Len(SubSeq(c, 1, n)) = (IF 1 <= n THEN n - 1 + 1 ELSE 0)
        /\ \A i \in 1..(n - 1 + 1) : SubSeq(c, 1, n)[i] = c[1 + i - 1]
    BY <2>1, SubSeqProperties
  <2>3. SubSeq(c, 1, n) \in Seq(CI) /\ Len(SubSeq(c, 1, n)) = n
        /\ \A i \in 1..n : SubSeq(c, 1, n)[i] = c[i]
    BY <2>1, <2>2
  <2> QED
    BY <2>3 DEF n
<1> HIDE DEF p
<1>5. p = v
  <2>1. \A i \in 1..Len(p) : p[i] = v[i]
    BY <1>3, <1>4
  <2> QED
    BY <1>4, <2>1, SeqEqual
<1> QED
  BY <1>2, <1>5 DEF p

\* luaD_pcall of frame m + 1 catches an error.
LEMMA Caught ==
    ASSUME NEW E \in Nat \ {0}, NEW q, NEW t, NEW L, NEW T, Threads(T), Works(q, t, L, T, E),
           NEW m \in 1..(Len(q) - 1), q[m + 1].f = "pcall",
           \A k \in (m + 2)..Len(q) : q[k].f /= "resume"
    PROVE  Good(Finish(SubSeq(q, 1, m), FALSE), [T EXCEPT ![L] = Catch(t, q[m + 1])], E)
<1> DEFINE x == q[m + 1]
           u == Catch(t, x)
           p == SubSeq(q, 1, m)
<1>1. Fits(q, t, T, E) /\ t \in ThreadRec /\ Sized(t)
  BY DEF Works
<1>2. q \in Seq(Frame) /\ Len(q) \in Nat \ {0} /\ m \in 1..Len(q) /\ m + 1 \in 1..Len(q)
      /\ t.status = "ok"
  BY <1>1, FitsTypes
<1>3. x \in Frame
  BY <1>2, ElementOfSeq
<1>4. PICK v \in Snapshot, w \in Snapshot :
          CutAt(q, t, T, E, m, v, w) /\ Back(q, t, L, T, E, m, v)
  <2>1. \A k \in (m + 1)..Len(q) : q[k].f /= "resume"
    BY <1>2
  <2> QED
    BY <2>1, WorksCut
<1>5. Link(v, q[m], x, w, E) /\ View(t).base = w.base /\ Extends(View(t).ci, w.ci)
  BY <1>4 DEF CutAt
<1>6. Last(p) = q[m]
  BY <1>2, CutProperties
<1> HIDE DEF x, p
<1>7. q[m].f = "C"
  BY <1>5 DEF Link, Follows, x
<1>8. /\ x.f = "pcall" /\ x.nCcalls = v.n /\ x.ci = Len(v.ci) /\ x.errfunc = v.ef
      /\ w.base = v.base /\ w.ci = v.ci
  <2>1. x.f = "pcall"
    BY DEF x
  <2>2. Infos(x) = <<>>
    BY <1>3, <2>1, InfosTypes
  <2>3. v.ci \o <<>> = v.ci
    BY ConcatEmptySeq DEF Snapshot
  <2> QED
    BY <1>5, <2>1, <2>2, <2>3 DEF Link, Snap
<1>9. x.ci <= Len(t.ci) /\ SubSeq(t.ci, 1, x.ci) = v.ci
  <2>1. Extends(t.ci, v.ci) /\ v.ci \in Seq(CI)
    BY <1>5, <1>8 DEF View, Snapshot
  <2>2. Len(v.ci) <= Len(t.ci) /\ SubSeq(t.ci, 1, Len(v.ci)) = v.ci
    BY <2>1, SavedInfos
  <2> QED
    BY <1>8, <2>2
<1>10. u \in ThreadRec /\ Sized(u) /\ u.status = "ok"
       /\ View(u) = [n |-> x.nCcalls, base |-> t.baseCcalls,
                     ci |-> SubSeq(t.ci, 1, x.ci), ef |-> x.errfunc]
  BY <1>1, <1>2, <1>3, <1>8, <1>9, CatchRestores
<1> HIDE DEF u
<1>11. View(u) = v
  <2>1. t.baseCcalls = v.base
    BY <1>5, <1>8 DEF View
  <2> QED
    BY <1>8, <1>9, <1>10, <2>1 DEF Snapshot
<1>12. Works(p, u, L, T, E)
  BY <1>4, <1>10, <1>11 DEF Back, p
<1> DEFINE ok == FALSE
<1>13. ok \in BOOLEAN
  OBVIOUS
<1> HIDE DEF ok
<1>14. Works(Finish(p, ok), u, L, T, E) /\ Last(Finish(p, ok)).f \in {"C", "raise"}
  BY <1>6, <1>7, <1>12, <1>13, WorksFinish
<1>15. Good(Finish(p, ok), [T EXCEPT ![L] = u], E)
  BY <1>14, Ready
<1> QED
  BY <1>15 DEF ok, p, u, x

\* What luaD_throw leaves of a coroutine.
LEMMA Killed ==
    ASSUME NEW t \in ThreadRec, Sized(t)
    PROVE  LET u == [t EXCEPT !.status = "err", !.nCcalls = @ - 1]
           IN  u \in ThreadRec /\ Sized(u) /\ Idle(u)
<1> DEFINE u == [t EXCEPT !.status = "err", !.nCcalls = @ - 1]
           v == [t EXCEPT !.status = "err"]
           w == [v EXCEPT !.nCcalls = @ - 1]
<1>1. u = w
  OBVIOUS
<1>2. v \in ThreadRec /\ v.ci = t.ci /\ v.size_ci = t.size_ci /\ v.status = "err"
  BY DEF ThreadRec
<1> HIDE DEF v
<1>3. w \in ThreadRec /\ w.ci = v.ci /\ w.size_ci = v.size_ci /\ w.status = v.status
  BY <1>2 DEF ThreadRec
<1> HIDE DEF u, w
<1>4. u \in ThreadRec /\ Sized(u) /\ Idle(u)
  BY <1>1, <1>2, <1>3 DEF Sized, Idle
<1> QED
  BY <1>4 DEF u

\* luaD_throw
LEMMA ThrownSteps ==
    ASSUME Inv, cs /= <<>>, Thrown
    PROVE  Stepped
<1> DEFINE E == ErrCCalls
           t == th[L0]
           I == Catchers(cs, L0)
           i == IF I /= {} THEN Max(I) ELSE 0
           dead == [t EXCEPT !.status = "err", !.nCcalls = @ - 1]
           u == IF cs[i].f = "pcall" THEN Catch(t, cs[i]) ELSE dead
           q == Finish(SubSeq(cs, 1, i - 1), FALSE)
<1>1. E \in Nat \ {0} /\ Works(cs, t, L0, th, E) /\ Threads(th) /\ ~failed
      /\ cs \in Seq(Frame) /\ Len(cs) \in Nat \ {0} /\ L0 = Last(cs).th
      /\ t \in ThreadRec /\ Sized(t) /\ t.status = "ok"
  BY Now
<1>2. cs' = q /\ th' = [th EXCEPT ![L0] = u] /\ ~failed'
  <2>1. Throw
    BY DEF Thrown
  <2> QED
    BY <1>1, <2>1 DEF Throw, Goto, SelectLastInSeq, Catchers
<1>3. i \in 1..Len(cs) /\ cs[i].f \in {"pcall", "resume"} /\ cs[i].th = L0
      /\ \A k \in (i + 1)..Len(cs) : cs[k].f /= "resume"
  <2>1. Fits(cs, t, th, E)
    BY <1>1 DEF Works
  <2> HIDE DEF t, E, i
  <2>2. LET j == Max(I)
        IN  /\ I /= {}
            /\ j \in 1..Len(cs) /\ cs[j].f \in {"pcall", "resume"} /\ cs[j].th = L0
            /\ \A k \in (j + 1)..Len(cs) : cs[k].f /= "resume"
    BY <1>1, <2>1, Catcher
  <2> HIDE DEF I
  <2> QED
    BY <2>2 DEF i
<1> HIDE DEF i, t, E
<1>4. Good(q, [th EXCEPT ![L0] = u], E)
  <2>1. CASE i = 1
    <3>1. Fits(cs, t, th, E)
      BY <1>1 DEF Works
    <3>2. cs[1] = Base
      BY <1>1, <3>1, FitsTypes
    <3> DEFINE c == Catch(t, cs[1])
    <3>3. cs[1] \in Frame /\ cs[1].f = "pcall" /\ cs[1].ci <= Len(t.ci)
      <4>1. 1 \in 1..Len(cs)
        BY <1>1
      <4>2. cs[1] \in Frame
        BY <1>1, <4>1, ElementOfSeq
      <4>3. Len(t.ci) \in Nat
        BY <1>1, LenProperties DEF ThreadRec
      <4> QED
        BY <3>2, <4>2, <4>3 DEF Base
    <3>4. c \in ThreadRec /\ Sized(c) /\ c.status = "ok"
      BY <1>1, <3>3, CatchRestores
    <3>5. u = c
      BY <2>1, <3>3
    <3> HIDE DEF c, u
    <3>6. \A k \in 2..Len(cs) : cs[k].f /= "resume"
      BY <1>3, <2>1
    <3>7. Good(<<>>, [th EXCEPT ![L0] = c], E)
      BY <1>1, <3>4, <3>6, Ending
    <3>8. q = <<>>
      BY <2>1, SubSeqEmpty DEF Finish
    <3> QED
      BY <3>5, <3>7, <3>8
  <2>2. CASE i /= 1
    <3>1. PICK m \in 1..(Len(cs) - 1) : m = i - 1 /\ m + 1 = i
      BY <1>1, <1>3, <2>2
    <3>2. \A k \in (m + 2)..Len(cs) : cs[k].f /= "resume"
      BY <1>3, <3>1
    <3>3. CASE cs[i].f = "pcall"
      <4>1. cs[m + 1].f = "pcall"
        BY <3>1, <3>3
      <4>2. Good(Finish(SubSeq(cs, 1, m), FALSE), [th EXCEPT ![L0] = Catch(t, cs[m + 1])], E)
        BY <1>1, <3>2, <4>1, Caught
      <4> QED
        BY <3>1, <3>3, <4>2
    <3>4. CASE cs[i].f = "resume"
      <4>1. cs[m + 1].f = "resume"
        BY <3>1, <3>4
      <4>2. dead \in ThreadRec /\ Sized(dead) /\ Idle(dead)
        BY <1>1, Killed
      <4> DEFINE ok == FALSE
      <4>3. ok \in BOOLEAN
        OBVIOUS
      <4> HIDE DEF dead, ok
      <4>4. Good(Finish(SubSeq(cs, 1, m), ok), [th EXCEPT ![L0] = dead], E)
        BY <1>1, <3>2, <4>1, <4>2, <4>3, Leave
      <4>5. u = dead
        BY <3>4
      <4>6. SubSeq(cs, 1, m) = SubSeq(cs, 1, i - 1)
        BY <3>1
      <4> QED
        BY <4>4, <4>5, <4>6 DEF ok
    <3> QED
      BY <1>3, <3>3, <3>4
  <2> QED
    BY <2>1, <2>2
<1> QED
  BY <1>2, <1>4 DEF Stepped, E

-----------------------------------------------------------------------------
(***************************************************************************)
(* Coroutines.                                                             *)
(***************************************************************************)

\* The innermost activation of a thread tells how the thread is.
LEMMA TopFrame ==
    ASSUME NEW E \in Nat \ {0}, NEW q, NEW s, NEW T, Linked(q, s, E), Waiting(q, s, T),
           View(T[Last(q).th]) = s[Len(q)], T[Last(q).th].status = "ok",
           NEW e \in 1..Len(q), \A k \in (e + 1)..Len(q) : q[k].th /= q[e].th
    PROVE  T[q[e].th].status = "ok" /\ View(T[q[e].th]) = s[e]
           /\ (e = Len(q) \/ (e >= 2 /\ q[e].f = "C"))
<1>1. Len(q) \in Nat \ {0} /\ Last(q) = q[Len(q)]
  BY LinkedAt
<1>2. CASE e = Len(q)
  BY <1>1, <1>2
<1>3. CASE e /= Len(q)
  <2>1. e \in 1..(Len(q) - 1) /\ e + 1 \in (e + 1)..Len(q) /\ e + 1 \in 1..Len(q)
    BY <1>1, <1>3
  <2>2. Link(s[e], q[e], q[e + 1], s[e + 1], E) /\ q[e + 1].th /= q[e].th
    BY <2>1 DEF Linked
  <2>3. q[e + 1].f = "resume" /\ q[e].f = "C"
    BY <2>2 DEF Link, Follows
  <2>4. e >= 2
    BY <2>3, LinkedAt
  <2> QED
    BY <2>1, <2>3, <2>4 DEF Waiting
<1> QED
  BY <1>2, <1>3

\* Every thread on the C stack has such an activation.
LEMMA HasTop ==
    ASSUME NEW q \in Seq(Frame), NEW L, NEW i \in 1..Len(q), q[i].th = L
    PROVE  \E e \in 1..Len(q) : q[e].th = L /\ (\A k \in (e + 1)..Len(q) : q[k].th /= L)
<1> DEFINE I == {k \in 1..Len(q) : q[k].th = L}
           e == Max(I)
<1>1. Len(q) \in Nat /\ I \subseteq 1..Len(q) /\ I /= {}
  BY LenProperties
<1>2. e \in I /\ \A k \in I : k <= e
  <2> HIDE DEF I
  <2> QED
    BY <1>1, LargestNumber
<1> HIDE DEF e
<1>3. \A k \in (e + 1)..Len(q) : q[k].th /= L
  BY <1>1, <1>2
<1> QED
  BY <1>2, <1>3

\* What the status of a coroutine says.
LEMMA StatusSays ==
    ASSUME NEW E \in Nat \ {0}, NEW q, NEW T, Good(q, T, E), q /= <<>>, NEW co \in Co
    PROVE  \/ /\ \E i \in 1..Len(q) : q[i].th = co
              /\ T[co].status = "ok" /\ (co /= Last(q).th => T[co].ci /= <<>>)
           \/ /\ \A i \in 1..Len(q) : q[i].th /= co
              /\ co /= Last(q).th /\ Idle(T[co])
<1>1. Works(q, T[Last(q).th], Last(q).th, T, E) /\ q \in Seq(Frame)
  BY Starts
<1>2. Fits(q, T[Last(q).th], T, E) /\ Idles(q, T)
  BY <1>1 DEF Works
<1>3. PICK s \in Seq(Snapshot) :
          Linked(q, s, E) /\ Waiting(q, s, T) /\ View(T[Last(q).th]) = s[Len(q)]
          /\ T[Last(q).th].status = "ok"
  BY <1>2 DEF Fits
<1>4. Len(q) \in Nat \ {0} /\ Len(q) \in 1..Len(q) /\ Last(q) = q[Len(q)]
  BY <1>2, FitsTypes
<1>5. CASE \E i \in 1..Len(q) : q[i].th = co
  <2>1. PICK e \in 1..Len(q) : q[e].th = co /\ \A k \in (e + 1)..Len(q) : q[k].th /= co
    BY <1>1, <1>5, HasTop
  <2>2. T[co].status = "ok" /\ View(T[co]) = s[e] /\ (e = Len(q) \/ (e >= 2 /\ q[e].f = "C"))
    BY <1>3, <2>1, TopFrame
  <2>3. ASSUME co /= Last(q).th PROVE T[co].ci /= <<>>
    <3>1. e >= 2 /\ q[e].f = "C"
      BY <1>4, <2>1, <2>2, <2>3
    <3>2. Link(s[e - 1], q[e - 1], q[e], s[e], E) /\ q[e] \in Frame
      BY <1>3, <3>1, LinkedAt
    <3>3. Infos(q[e]) = <<"C">>
      BY <3>1, <3>2, InfosTypes
    <3>4. s[e].ci = s[e - 1].ci \o <<"C">>
      BY <3>1, <3>2, <3>3 DEF Link, Snap
    <3>5. PICK k \in 1..Len(q) : k = e - 1
      BY <1>4, <3>1
    <3>6. s[k] \in Snapshot
      BY <1>3, LinkedAt
    <3>7. PICK c \in Seq(CI) : c = s[k].ci
      BY <3>6 DEF Snapshot
    <3>8. <<"C">> \in Seq(CI) /\ Len(<<"C">>) = 1
      <4>1. "C" \in CI
        BY DEF CI
      <4> QED
        BY <4>1
    <3>9. Len(c \o <<"C">>) = Len(c) + 1 /\ Len(c) \in Nat
      BY <3>8, ConcatProperties, LenProperties
    <3>10. T[co].ci = c \o <<"C">>
      <4>1. T[co].ci = s[e].ci
        BY <2>2 DEF View
      <4>2. s[e - 1].ci = c
        BY <3>5, <3>7
      <4> QED
        BY <3>4, <4>1, <4>2
    <3> QED
      BY <3>9, <3>10, EmptySeq
  <2> QED
    BY <1>5, <2>2, <2>3
<1>6. CASE \A i \in 1..Len(q) : q[i].th /= co
  <2>1. Idle(T[co])
    BY <1>2, <1>6 DEF Idles
  <2> QED
    BY <1>4, <1>6, <2>1
<1> QED
  BY <1>5, <1>6

\* A thread changes that is not on the C stack.
LEMMA IdleChanges ==
    ASSUME NEW E \in Nat \ {0}, NEW q, NEW T, Good(q, T, E), q /= <<>>, NEW co \in Co,
           \A i \in 1..Len(q) : q[i].th /= co, NEW u \in ThreadRec, Sized(u), Idle(u)
    PROVE  Good(q, [T EXCEPT ![co] = u], E)
<1> DEFINE U == [T EXCEPT ![co] = u]
           L == Last(q).th
<1>1. Threads(T) /\ Works(q, T[L], L, T, E) /\ q \in Seq(Frame)
  BY Starts
<1>2. Fits(q, T[L], T, E) /\ Idles(q, T)
  BY <1>1 DEF Works
<1>3. Len(q) \in Nat \ {0} /\ Len(q) \in 1..Len(q) /\ L = q[Len(q)].th /\ L \in Thread
  BY <1>2, FitsTypes
<1>4. co \in Thread /\ co /= main /\ co /= L
  BY <1>3, CallsAssumption DEF Thread
<1>5. U \in [Thread -> ThreadRec] /\ U[co] = u /\ \A M \in Thread : M /= co => U[M] = T[M]
  BY <1>1, <1>4 DEF Threads
<1> HIDE DEF U
<1>6. (\A M \in Thread : Sized(U[M])) /\ U[main].status = "ok"
  <2>1. main \in Thread
    BY DEF Thread
  <2> QED
    BY <1>1, <1>4, <1>5, <2>1 DEF Threads
<1>7. \A i \in 1..Len(q) : U[q[i].th] = T[q[i].th]
  BY <1>1, <1>5, ElementOfSeq, FrameFields
<1>8. Fits(q, T[L], U, E)
  BY <1>2, <1>7, FitsOthers
<1>9. Idles(q, U)
  <2> SUFFICES ASSUME NEW k \in Co, \A i \in 1..Len(q) : q[i].th /= k PROVE Idle(U[k])
    BY DEF Idles
  <2>1. k \in Thread
    BY DEF Thread
  <2> QED
    BY <1>2, <1>5, <2>1 DEF Idles
<1>10. U[L] = T[L]
  BY <1>3, <1>4, <1>5
<1>11. Good(q, U, E)
  <2>1. L = Last(q).th
    OBVIOUS
  <2> HIDE DEF L
  <2>2. Last(q).f = "call" => T[L].nCcalls < E
    BY <2>1 DEF Good
  <2> QED
    BY <1>1, <1>5, <1>6, <1>8, <1>9, <1>10, <2>1, <2>2 DEF Good
<1> QED
  BY <1>11 DEF U

\* coroutine.create
LEMMA CreateSteps ==
    ASSUME Inv, cs /= <<>>, NEW co \in Co, Create(co)
    PROVE  Stepped
<1> DEFINE u == NewThread(TRUE)
           E == ErrCCalls
<1>1. E \in Nat \ {0} /\ Good(cs, th, E) /\ ~failed /\ L0 = Last(cs).th
  BY Now DEF Inv
<1>2. CoStatus(L0, co) = "dead" /\ th' = [th EXCEPT ![co] = u] /\ cs' = cs /\ failed' = failed
  BY DEF Create
<1>3. u \in ThreadRec /\ Sized(u) /\ Idle(u)
  <2>1. <<>> \in Seq(CI) /\ Len(<<>>) = 0
    BY EmptySeq
  <2>2. BasicCI \in Nat /\ BasicCI >= 2 /\ BasicCI <= 2 * MaxCalls
    BY CallsAssumption
  <2>3. u \in ThreadRec /\ u.status = "ok" /\ u.ci = <<>> /\ u.size_ci = BasicCI /\ ~u.errfunc
    BY <2>1, <2>2 DEF NewThread, ThreadRec
  <2> HIDE DEF u
  <2> QED
    BY <2>1, <2>2, <2>3 DEF Sized, Idle
<1> HIDE DEF u, E
<1>4. \A i \in 1..Len(cs) : cs[i].th /= co
  <2>1. ~(th[co].status = "ok" /\ (co /= L0 => th[co].ci /= <<>>))
    BY <1>2 DEF CoStatus
  <2> QED
    BY <1>1, <2>1, StatusSays
<1>5. Good(cs, [th EXCEPT ![co] = u], E)
  BY <1>1, <1>3, <1>4, IdleChanges
<1> QED
  BY <1>1, <1>2, <1>5 DEF Stepped, E

\* The record of a coroutine that is resumed with n nested C calls.
Reset(o, n) ==
    [o EXCEPT !.nCcalls = n, !.baseCcalls = n, !.status = "ok", !.body = FALSE]

LEMMA ResetThread ==
    ASSUME NEW o \in ThreadRec, Sized(o), NEW n \in Int
    PROVE  LET t == Reset(o, n)
           IN  t \in ThreadRec /\ Sized(t) /\ t.status = "ok" /\ t.ci = o.ci /\ t.nCcalls = n
               /\ View(t) = [n |-> n, base |-> n, ci |-> o.ci, ef |-> o.errfunc]
<1> DEFINE a == [o EXCEPT !.nCcalls = n]
           b == [a EXCEPT !.baseCcalls = n]
           c == [b EXCEPT !.status = "ok"]
           t == [c EXCEPT !.body = FALSE]
<1>1. Reset(o, n) = t
  BY DEF Reset
<1>2. a \in ThreadRec /\ a.ci = o.ci /\ a.size_ci = o.size_ci /\ a.errfunc = o.errfunc
      /\ a.nCcalls = n
  BY DEF ThreadRec
<1> HIDE DEF a
<1>3. b \in ThreadRec /\ b.ci = a.ci /\ b.size_ci = a.size_ci /\ b.errfunc = a.errfunc
      /\ b.nCcalls = a.nCcalls /\ b.baseCcalls = n
  BY <1>2 DEF ThreadRec
<1> HIDE DEF b
<1>4. c \in ThreadRec /\ c.ci = b.ci /\ c.size_ci = b.size_ci /\ c.errfunc = b.errfunc
      /\ c.nCcalls = b.nCcalls /\ c.baseCcalls = b.baseCcalls /\ c.status = "ok"
  BY <1>3 DEF ThreadRec
<1> HIDE DEF c
<1>5. t \in ThreadRec /\ t.ci = c.ci /\ t.size_ci = c.size_ci /\ t.errfunc = c.errfunc
      /\ t.nCcalls = c.nCcalls /\ t.baseCcalls = c.baseCcalls /\ t.status = c.status
  BY <1>4 DEF ThreadRec
<1> HIDE DEF t
<1>6. Sized(t) /\ View(t) = [n |-> n, base |-> n, ci |-> o.ci, ef |-> o.errfunc]
  BY <1>2, <1>3, <1>4, <1>5 DEF Sized, View
<1> QED
  BY <1>1, <1>2, <1>3, <1>4, <1>5, <1>6

\* What lua_resume finds.
Fresh(n) == [n |-> n, base |-> n, ci |-> <<>>, ef |-> FALSE]

\* The frame of lua_resume is pushed.
LEMMA Resumed ==
    ASSUME NEW E \in Nat \ {0}, NEW q, NEW L, NEW T, Threads(T), Works(q, T[L], L, T, E),
           Last(q).f = "C", Last(q).fn \in {"resume", "wrap"},
           NEW co \in Co, \A i \in 1..Len(q) : q[i].th /= co,
           NEW n \in Int, n = T[L].nCcalls + 1, n < E,
           NEW u \in ThreadRec, Sized(u), u.status = "ok", View(u) = Fresh(n)
    PROVE  LET x == ResumeFrame(co)
           IN  Works(Append(q, x), u, co, T, E) /\ Last(Append(q, x)).f = "resume"
<1> DEFINE x == ResumeFrame(co)
<1>1. Fits(q, T[L], T, E) /\ Idles(q, T) /\ L = Last(q).th
  BY DEF Works
<1>2. q \in Seq(Frame) /\ Len(q) \in Nat
  BY <1>1, FitsTypes
<1>3. x \in Frame /\ x.f = "resume" /\ x.th = co
  <2>1. co \in Thread
    BY DEF Thread
  <2> QED
    BY <2>1, FramesMade DEF ResumeFrame
<1> HIDE DEF x
<1>4. Link(View(T[L]), Last(q), x, View(u), E)
  <2>1. Follows(Last(q), x)
    BY <1>3 DEF Follows
  <2>2. View(T[L]).n = T[L].nCcalls
    BY DEF View
  <2>3. Snap(View(T[L]), x, View(u))
    BY <1>3, <2>2 DEF Snap, Fresh
  <2>4. Bounded(x, View(u), E)
    BY DEF Bounded, Fresh
  <2> QED
    BY <2>1, <2>3, <2>4 DEF Link
<1>5. Fits(Append(q, x), u, T, E)
  <2>1. Fits(q, T[Last(q).th], T, E) /\ Link(View(T[Last(q).th]), Last(q), x, View(u), E)
    BY <1>1, <1>4
  <2>2. \A j \in 1..Len(q) : q[j].th /= x.th
    BY <1>3
  <2> QED
    BY <1>3, <2>1, <2>2, Enter
<1>6. Last(Append(q, x)) = x
  BY <1>2, <1>3, AppendEnds
<1>7. Idles(Append(q, x), T)
  <2>1. Len(Append(q, x)) = Len(q) + 1 /\ \A i \in 1..Len(q) : Append(q, x)[i] = q[i]
    BY <1>2, <1>3, AppendProperties
  <2>2. \A i \in 1..Len(q) : i \in 1..Len(Append(q, x))
    BY <1>2, <2>1
  <2> QED
    BY <1>1, <2>1, <2>2 DEF Idles
<1>8. Works(Append(q, x), u, co, T, E) /\ Last(Append(q, x)).f = "resume"
  BY <1>3, <1>5, <1>6, <1>7 DEF Works
<1> QED
  BY <1>8 DEF x

\* lua_resume of a function that has not been started.
LEMMA StartWorks ==
    ASSUME NEW E \in Nat \ {0}, NEW a, NEW t, NEW co \in Co, NEW T, Works(a, t, co, T, E),
           Last(a).f = "resume", t.nCcalls < E
    PROVE  LET r == IncCI([cs |-> a, t |-> t], co, "lua", Append(a, Execute(co, 1)))
           IN  Works(r.cs, r.t, co, T, E) /\ Last(r.cs).f /= "call"
<1> DEFINE x == Execute(co, 1)
           then == Append(a, x)
           k == "lua"
<1>1. t \in ThreadRec /\ Fits(a, t, T, E) /\ t.ci \in Seq(CI)
  BY DEF Works, ThreadRec
<1>2. a \in Seq(Frame)
  BY <1>1, FitsTypes
<1>3. x \in Frame /\ x.th = co /\ x.f = "execute" /\ Infos(x) = <<k>> /\ k \in CI
  <2>1. co \in Thread /\ k \in CFunction \cup {"lua"}
    BY DEF Thread
  <2>2. Activation(co, k) = x /\ Kind(k) = k
    BY DEF Activation, Kind
  <2> HIDE DEF x
  <2> QED
    BY <2>1, <2>2, Kinds
<1> HIDE DEF x, k
<1>4. Append(t.ci, k) = t.ci \o Infos(x)
  <2>1. Append(t.ci, k) = t.ci \o <<k>>
    BY <1>1, <1>3, AppendIsConcat
  <2> QED
    BY <1>3, <2>1
<1>5. ASSUME NEW w \in ThreadRec, Sized(w), w.status = "ok", View(w) = Entered(t, k)
      PROVE  Works(then, w, co, T, E)
  <2>1. View(w) = After(t, x)
    BY <1>4, <1>5 DEF Entered, After
  <2> QED
    BY <1>3, <1>5, <2>1, WorksEntered
<1>6. Last(then).f /= "call"
  BY <1>2, <1>3, AppendEnds
<1> HIDE DEF then
<1>7. LET r == IncCI([cs |-> a, t |-> t], co, k, then)
      IN  Works(r.cs, r.t, co, T, E) /\ Last(r.cs).f /= "call"
  BY <1>3, <1>5, <1>6, IncCIWorks
<1> QED
  BY <1>7 DEF then, x, k

\* What a coroutine that has yielded has on its stack.
LEMMA YieldedInfos ==
    ASSUME NEW c \in Seq(CI), Len(c) >= 2, c = Append([i \in 1..(Len(c) - 1) |-> "lua"], "C")
    PROVE  /\ Len(c) - 1 \in Nat \ {0} /\ Last(c) = "C" /\ c /= <<>>
           /\ Front(c) \in Seq(CI) /\ Front(c) = [i \in 1..(Len(c) - 1) |-> "lua"]
<1> DEFINE n == Len(c) - 1
           a == [i \in 1..n |-> "lua"]
<1>1. n \in Nat \ {0}
  BY LenProperties
<1> HIDE DEF n
<1>2. a \in Seq(CI)
  BY <1>1, MoreLua
<1>3. "C" \in CI
  BY DEF CI
<1>4. c = Append(a, "C")
  BY DEF n
<1> HIDE DEF a
<1>5. Last(Append(a, "C")) = "C" /\ Front(Append(a, "C")) = a /\ Append(a, "C") /= <<>>
  BY <1>2, <1>3, AppendEnds, AppendProperties
<1>6. Last(c) = "C" /\ Front(c) = a /\ c /= <<>>
  BY <1>4, <1>5
<1> QED
  BY <1>1, <1>2, <1>6 DEF a, n

\* lua_resume of a coroutine that has yielded.
LEMMA ContinueWorks ==
    ASSUME NEW E \in Nat \ {0}, NEW a, NEW t \in ThreadRec, NEW co \in Co, NEW T,
           Sized(t), t.status = "ok", NEW n \in Int, n < E,
           View(t) = [n |-> n, base |-> n, ci |-> t.ci, ef |-> FALSE],
           Len(t.ci) >= 2, t.ci = Append([i \in 1..(Len(t.ci) - 1) |-> "lua"], "C"),
           Last(a).f = "resume",
           \A u \in ThreadRec :
              Sized(u) /\ u.status = "ok" /\ View(u) = Fresh(n) => Works(a, u, co, T, E)
    PROVE  LET x == Execute(co, Len(t.ci) - 1)
               w == [t EXCEPT !.ci = Front(@)]
           IN  Works(Append(a, x), w, co, T, E) /\ Last(Append(a, x)).f = "execute"
<1> DEFINE k == Len(t.ci) - 1
           x == Execute(co, k)
           c == Front(t.ci)
           w == [t EXCEPT !.ci = c]
           u == [t EXCEPT !.ci = <<>>]
<1>1. t.ci \in Seq(CI) /\ t.size_ci \in Nat /\ Len(t.ci) \in Nat
  BY LenProperties DEF ThreadRec
<1>2. k \in Nat \ {0} /\ t.ci /= <<>> /\ c \in Seq(CI) /\ c = [i \in 1..k |-> "lua"]
  BY <1>1, YieldedInfos
<1>3. t.nCcalls = n /\ t.baseCcalls = n /\ t.errfunc = FALSE
  BY DEF View
<1>4. u \in ThreadRec /\ Sized(u) /\ u.status = "ok" /\ View(u) = Fresh(n) /\ u.ci = <<>>
  <2>1. <<>> \in Seq(CI) /\ Len(<<>>) = 0
    BY EmptySeq
  <2> DEFINE e == <<>>
  <2> HIDE DEF e
  <2>2. u \in ThreadRec /\ u.status = t.status /\ u.ci = e /\ u.size_ci = t.size_ci
        /\ View(u) = [n |-> t.nCcalls, base |-> t.baseCcalls, ci |-> e, ef |-> t.errfunc]
    <3>1. u = [t EXCEPT !.ci = e]
      BY DEF e
    <3>2. e \in Seq(CI)
      BY <2>1 DEF e
    <3> HIDE DEF u
    <3> QED
      BY <3>1, <3>2, SetCI
  <2> HIDE DEF u
  <2>3. View(u) = Fresh(n)
    BY <1>3, <2>2 DEF Fresh, e
  <2>4. Sized(u)
    BY <1>1, <2>1, <2>2 DEF Sized, e
  <2> QED
    BY <2>2, <2>3, <2>4 DEF e
<1>5. w \in ThreadRec /\ Sized(w) /\ w.status = "ok" /\ View(w) = With(t, c)
  <2> HIDE DEF c, w
  <2>1. w = [t EXCEPT !.ci = Front(@)]
    BY DEF w, c
  <2> QED
    BY <1>2, <2>1, Returned DEF c
<1>6. x \in Frame /\ x.th = co /\ x.f = "execute" /\ Infos(x) = c
  <2>1. co \in Thread
    BY DEF Thread
  <2> HIDE DEF k, c
  <2>2. x \in Frame /\ x.th = co /\ x.f = "execute" /\ x.n = k
    BY <1>2, <2>1, FramesMade DEF Execute
  <2> HIDE DEF x
  <2>3. Infos(x) = [i \in 1..x.n |-> "lua"]
    BY <2>2, InfosTypes
  <2> QED
    BY <1>2, <2>2, <2>3
<1> HIDE DEF w, u, x, c
<1>7. Works(a, u, co, T, E) /\ u.nCcalls < E
  BY <1>4 DEF View, Fresh
<1>8. View(w) = After(u, x)
  <2>1. u.ci \o Infos(x) = c
    <3>1. <<>> \o c = c
      BY <1>2, ConcatEmptySeq
    <3> QED
      BY <1>4, <1>6, <3>1
  <2>2. u.nCcalls = n /\ u.baseCcalls = n /\ u.errfunc = FALSE
    BY <1>4 DEF View, Fresh
  <2> QED
    BY <1>3, <1>5, <2>1, <2>2 DEF With, After
<1>9. Works(Append(a, x), w, co, T, E) /\ Last(Append(a, x)) = x
  BY <1>5, <1>6, <1>7, <1>8, WorksEntered
<1> QED
  BY <1>6, <1>9 DEF x, w, c

\* auxresume refuses.
LEMMA RefuseSteps ==
    ASSUME Inv, cs /= <<>>, Top.f = "C", Refuse
    PROVE  Stepped
<1> DEFINE E == ErrCCalls
           t == th[L0]
           ok == FALSE
<1>1. E \in Nat \ {0} /\ Works(cs, t, L0, th, E) /\ Threads(th) /\ ~failed /\ L0 \in Thread
      /\ Last(cs).f = "C" /\ th[L0] = t
  BY Now
<1>2. cs' = Finish(cs, ok) /\ th' = th /\ failed' = failed /\ ok \in BOOLEAN
  BY DEF Refuse
<1> HIDE DEF ok, t, E
<1>3. Works(Finish(cs, ok), t, L0, th, E) /\ Last(Finish(cs, ok)).f \in {"C", "raise"}
  BY <1>1, <1>2, WorksFinish
<1>4. Good(Finish(cs, ok), [th EXCEPT ![L0] = t], E)
  BY <1>1, <1>3, Ready
<1>5. [th EXCEPT ![L0] = t] = th
  BY <1>1 DEF Threads
<1> QED
  BY <1>1, <1>2, <1>4, <1>5 DEF Stepped, E

\* lua_resume
LEMMA LuaResumeSteps ==
    ASSUME Inv, cs /= <<>>, Top.f = "C", Top.fn \in {"resume", "wrap"}, NEW co \in Co,
           CoStatus(L0, co) = "suspended", ~(th[L0].nCcalls >= MaxCCalls), LuaResume(co)
    PROVE  Stepped
<1> DEFINE E == ErrCCalls
           n == th[L0].nCcalls + 1
           o == th[co]
           t == Reset(o, n)
           a == Append(cs, ResumeFrame(co))
           first == IncCI([cs |-> a, t |-> t], co, "lua", Append(a, Execute(co, 1)))
           k == Len(t.ci) - 1
           next == [cs |-> Append(a, Execute(co, k)), t |-> [t EXCEPT !.ci = Front(@)]]
           r == IF o.status = "ok" THEN first ELSE next
<1>1. E \in Nat \ {0} /\ Good(cs, th, E) /\ ~failed /\ L0 = Last(cs).th /\ Threads(th)
      /\ Works(cs, th[L0], L0, th, E) /\ Top = Last(cs) /\ th[L0] \in ThreadRec
  BY Now DEF Inv
<1>2. n \in Int /\ n < E
  <2>1. MaxCCalls \in Nat /\ MaxCCalls < E
    BY ProgramTypes DEF Inv
  <2>2. th[L0].nCcalls \in Int
    BY <1>1 DEF ThreadRec
  <2> QED
    BY <1>1, <2>1, <2>2
<1>3. (\A i \in 1..Len(cs) : cs[i].th /= co) /\ Idle(o) /\ o.status \in {"ok", "yield"}
      /\ o \in ThreadRec /\ Sized(o)
  <2>1. co /= L0 /\ o.status \in {"ok", "yield"} /\ ~(o.status = "ok" /\ o.ci /= <<>>)
    BY DEF CoStatus
  <2>2. co \in Thread
    BY DEF Thread
  <2> HIDE DEF E
  <2>3. \A i \in 1..Len(cs) : cs[i].th /= co
    BY <1>1, <2>1, StatusSays
  <2>4. Idle(o)
    BY <1>1, <2>1, StatusSays
  <2> QED
    BY <1>1, <2>1, <2>2, <2>3, <2>4 DEF Threads
<1>4. cs' = r.cs /\ th' = [th EXCEPT ![co] = r.t]
      /\ failed' = (failed \/ o.errfunc \/ (o.status = "yield" /\ Last(o.ci) /= "C"))
  <2> DEFINE s == [cs |-> a, t |-> t]
             later == [s EXCEPT !.t.ci = Front(@), !.cs = Append(@, Execute(co, k))]
  <2>1. later = next
    <3> HIDE DEF t, a
    <3>1. [s EXCEPT !.t.ci = Front(@)] = [cs |-> a, t |-> [t EXCEPT !.ci = Front(@)]]
      OBVIOUS
    <3>2. later = [[s EXCEPT !.t.ci = Front(@)] EXCEPT !.cs = Append(@, Execute(co, k))]
      OBVIOUS
    <3> HIDE DEF later, s
    <3> QED
      BY <3>1, <3>2
  <2>2. LET p == IF o.status = "ok" THEN first ELSE later
        IN  cs' = p.cs /\ th' = [th EXCEPT ![co] = p.t]
            /\ failed' = (failed \/ o.errfunc \/ (o.status = "yield" /\ Last(o.ci) /= "C"))
    BY DEF LuaResume, Reset
  <2> HIDE DEF later, next, first
  <2> QED
    BY <2>1, <2>2
<1> HIDE DEF n, o, E
<1>5. t \in ThreadRec /\ Sized(t) /\ t.status = "ok" /\ t.ci = o.ci /\ t.nCcalls = n
      /\ View(t) = [n |-> n, base |-> n, ci |-> o.ci, ef |-> o.errfunc]
  BY <1>2, <1>3, ResetThread
<1>6. ASSUME NEW u \in ThreadRec, Sized(u), u.status = "ok", View(u) = Fresh(n)
      PROVE  Works(a, u, co, th, E) /\ Last(a).f = "resume"
  <2>1. n = th[L0].nCcalls + 1
    BY DEF n
  <2> DEFINE L == L0
  <2>2. Works(cs, th[L], L, th, E) /\ n = th[L].nCcalls + 1
    BY <1>1, <2>1
  <2>3. Last(cs).f = "C" /\ Last(cs).fn \in {"resume", "wrap"}
    BY <1>1
  <2> HIDE DEF L
  <2> QED
    BY <1>1, <1>2, <1>3, <1>6, <2>2, <2>3, Resumed
<1> HIDE DEF a, t
<1>7. Works(r.cs, r.t, co, th, E) /\ Last(r.cs).f /= "call"
      /\ ~(o.errfunc \/ (o.status = "yield" /\ Last(o.ci) /= "C"))
  <2>1. CASE o.status = "ok"
    <3>1. o.ci = <<>> /\ ~o.errfunc
      BY <1>3, <2>1 DEF Idle
    <3>2. o.errfunc = FALSE
      BY <1>3, <3>1 DEF ThreadRec
    <3>3. View(t) = Fresh(n)
      BY <1>5, <3>1, <3>2 DEF Fresh
    <3>4. Works(a, t, co, th, E) /\ Last(a).f = "resume"
      BY <1>5, <1>6, <3>3
    <3>5. Works(first.cs, first.t, co, th, E) /\ Last(first.cs).f /= "call"
      BY <1>1, <1>2, <1>5, <3>4, StartWorks
    <3> HIDE DEF first, next
    <3> QED
      BY <2>1, <3>1, <3>5
  <2>2. CASE o.status = "yield"
    <3>1. Len(o.ci) >= 2 /\ ~o.errfunc
          /\ o.ci = Append([i \in 1..(Len(o.ci) - 1) |-> "lua"], "C")
      BY <1>3, <2>2 DEF Idle
    <3>2. o.errfunc = FALSE /\ o.ci \in Seq(CI)
      BY <1>3, <3>1 DEF ThreadRec
    <3>3. Last(o.ci) = "C"
      BY <3>1, <3>2, YieldedInfos
    <3>4. View(t) = [n |-> n, base |-> n, ci |-> t.ci, ef |-> FALSE]
      BY <1>5, <3>2
    <3>5. Len(t.ci) >= 2 /\ t.ci = Append([i \in 1..(Len(t.ci) - 1) |-> "lua"], "C")
      BY <1>5, <3>1
    <3>6. PICK fresh \in ThreadRec : Sized(fresh) /\ fresh.status = "ok" /\ View(fresh) = Fresh(n)
      <4> DEFINE e == <<>>
      <4>1. e \in Seq(CI) /\ Len(e) = 0
        BY EmptySeq
      <4>2. t.size_ci \in Nat /\ Len(t.ci) \in Nat
        BY <1>5, LenProperties DEF ThreadRec
      <4>3. e = <<>>
        OBVIOUS
      <4> HIDE DEF e
      <4> DEFINE fresh == [t EXCEPT !.ci = e]
      <4>4. fresh \in ThreadRec /\ fresh.status = t.status /\ fresh.ci = e /\ fresh.size_ci = t.size_ci
            /\ View(fresh) = [n |-> t.nCcalls, base |-> t.baseCcalls, ci |-> e, ef |-> t.errfunc]
        BY <1>5, <4>1, SetCI
      <4> HIDE DEF fresh
      <4>5. t.nCcalls = n /\ t.baseCcalls = n /\ t.errfunc = FALSE
        BY <3>4 DEF View
      <4>6. Sized(fresh)
        BY <1>5, <4>1, <4>2, <4>4 DEF Sized
      <4> QED
        BY <1>5, <4>3, <4>4, <4>5, <4>6 DEF Fresh
    <3>7. Last(a).f = "resume"
      BY <1>6, <3>6
    <3>8. \A u \in ThreadRec :
             Sized(u) /\ u.status = "ok" /\ View(u) = Fresh(n) => Works(a, u, co, th, E)
      BY <1>6
    <3>9. Works(next.cs, next.t, co, th, E) /\ Last(next.cs).f = "execute"
      <4> DEFINE x == Execute(co, k)
                 w == [t EXCEPT !.ci = Front(@)]
      <4>1. Works(Append(a, x), w, co, th, E) /\ Last(Append(a, x)).f = "execute"
        BY <1>1, <1>2, <1>5, <3>4, <3>5, <3>7, <3>8, ContinueWorks
      <4>2. next.cs = Append(a, x) /\ next.t = w
        OBVIOUS
      <4> HIDE DEF x, w, next
      <4> QED
        BY <4>1, <4>2
    <3> HIDE DEF first, next
    <3> QED
      BY <2>2, <3>1, <3>3, <3>9
  <2> QED
    BY <1>3, <2>1, <2>2
<1> HIDE DEF r
<1>8. Good(r.cs, [th EXCEPT ![co] = r.t], E)
  BY <1>1, <1>7, Ready
<1> QED
  BY <1>1, <1>4, <1>7, <1>8 DEF Stepped, E

\* auxresume
LEMMA DoResumeSteps ==
    ASSUME Inv, cs /= <<>>, NEW co \in Co, DoResume(co)
    PROVE  Stepped
<1>1. Top.f = "C" /\ Top.fn \in {"resume", "wrap"}
  BY DEF DoResume
<1>2. CASE Refuse
  BY <1>1, <1>2, RefuseSteps
<1>3. CASE CoStatus(L0, co) = "suspended" /\ ~(th[L0].nCcalls >= MaxCCalls) /\ LuaResume(co)
  BY <1>1, <1>3, LuaResumeSteps
<1> QED
  BY <1>2, <1>3 DEF DoResume

\* A coroutine that has just been entered.
LEMMA Entering ==
    ASSUME NEW E \in Nat \ {0}, NEW q, NEW t, NEW L, NEW T, Works(q, t, L, T, E),
           Last(q).f = "resume"
    PROVE  t.nCcalls = t.baseCcalls /\ t.ci = <<>> /\ t.errfunc = FALSE /\ L \in Co
<1>1. Fits(q, t, T, E) /\ L = Last(q).th
  BY DEF Works
<1>2. Len(q) \in Nat /\ Len(q) >= 2 /\ Last(q) = q[Len(q)]
  BY <1>1, FitsTypes
<1>3. PICK m \in 1..(Len(q) - 1) : m + 1 = Len(q)
  <2>1. Len(q) - 1 \in 1..(Len(q) - 1) /\ (Len(q) - 1) + 1 = Len(q)
    BY <1>2
  <2> QED
    BY <2>1
<1>4. PICK v \in Snapshot, w \in Snapshot : CutAt(q, t, T, E, m, v, w)
  BY <1>1, Cut
<1>5. Link(v, q[m], Last(q), View(t), E)
  BY <1>2, <1>3, <1>4 DEF CutAt
<1>6. View(t) = [n |-> v.n + 1, base |-> v.n + 1, ci |-> <<>>, ef |-> FALSE]
  BY <1>5 DEF Link, Snap
<1> QED
  BY <1>1, <1>5, <1>6 DEF View, Link, Follows

\* In luaD_call a coroutine may not yield.
LEMMA Deeper ==
    ASSUME NEW E \in Nat \ {0}, NEW q, NEW t, NEW L, NEW T, Works(q, t, L, T, E),
           Last(q).f = "call"
    PROVE  t.baseCcalls < t.nCcalls
<1>1. Fits(q, t, T, E)
  BY DEF Works
<1>2. Len(q) >= 2
  BY <1>1, FitsTypes
<1>3. PICK v \in Snapshot :
          Link(v, Last(Front(q)), Last(q), View(t), E) /\ Bounded(Last(Front(q)), v, E)
  BY <1>2, WorksPop
<1>4. View(t).n = v.n + 1 /\ View(t).base = v.base
  BY <1>3 DEF Link, Snap
<1>5. v.base <= v.n /\ v.base \in Int /\ v.n \in Int
  BY <1>3 DEF Bounded, Snapshot
<1>6. t.nCcalls = v.n + 1 /\ t.baseCcalls = v.base
  BY <1>4 DEF View
<1> QED
  BY <1>5, <1>6

\* What the return of lua_resume does.
LEMMA ReturnFromGoes ==
    ASSUME NEW i, NEW status, ReturnFrom(i, status), Here = [cs |-> cs, t |-> th[L0]]
    PROVE  LET v == [th[L0] EXCEPT !.nCcalls = @ - 1]
           IN  /\ cs' = Finish(SubSeq(cs, 1, i - 1), TRUE)
               /\ th' = [th EXCEPT ![L0] = [v EXCEPT !.status = status]]
               /\ failed' = (failed \/ th[L0].nCcalls /= th[L0].baseCcalls)
<1> DEFINE t == th[L0]
           v == [t EXCEPT !.nCcalls = @ - 1]
           u == [v EXCEPT !.status = status]
           q == Finish(SubSeq(cs, 1, i - 1), TRUE)
           r == [Here EXCEPT !.cs = Finish(SubSeq(@, 1, i - 1), TRUE),
                             !.t.nCcalls = @ - 1, !.t.status = status]
<1>1. Goto(r, t.nCcalls = t.baseCcalls)
  BY DEF ReturnFrom
<1>2. r = [cs |-> q, t |-> u]
  <2> DEFINE z == Finish(SubSeq(Here.cs, 1, i - 1), TRUE)
             h == [Here EXCEPT !.cs = z]
             k == [h EXCEPT !.t.nCcalls = @ - 1]
  <2>1. r = [k EXCEPT !.t.status = status]
    OBVIOUS
  <2>2. z = q
    <3>1. Here.cs = cs
      OBVIOUS
    <3> QED
      BY <3>1
  <2> HIDE DEF r, z, q, t
  <2>3. h = [cs |-> q, t |-> t]
    BY <2>2 DEF t
  <2> HIDE DEF h
  <2>4. k = [cs |-> q, t |-> v]
    BY <2>3
  <2> HIDE DEF k, v
  <2> QED
    BY <2>1, <2>4
<1>3. r.cs = q /\ r.t = u
  <2> HIDE DEF r, q, u
  <2> QED
    BY <1>2
<1> HIDE DEF r
<1>4. cs' = r.cs /\ th' = [th EXCEPT ![L0] = r.t]
      /\ failed' = (failed \/ ~(t.nCcalls = t.baseCcalls))
  BY <1>1 DEF Goto
<1> HIDE DEF q, u
<1>5. cs' = q /\ th' = [th EXCEPT ![L0] = u] /\ failed' = (failed \/ t.nCcalls /= t.baseCcalls)
  BY <1>3, <1>4
<1> QED
  BY <1>5 DEF q, u

\* lua_resume returns.
LEMMA ReturnFromSteps ==
    ASSUME Inv, cs /= <<>>, NEW m \in 1..(Len(cs) - 1), cs[m + 1].f = "resume",
           \A k \in (m + 2)..Len(cs) : cs[k].f /= "resume",
           NEW status \in {"ok", "yield"}, th[L0].nCcalls = th[L0].baseCcalls,
           \A u : u.status = status /\ u.ci = th[L0].ci /\ u.errfunc = th[L0].errfunc => Idle(u),
           ReturnFrom(m + 1, status)
    PROVE  Stepped
<1> DEFINE E == ErrCCalls
           t == th[L0]
           v == [t EXCEPT !.nCcalls = @ - 1]
           u == [v EXCEPT !.status = status]
           ok == TRUE
           q == Finish(SubSeq(cs, 1, m), ok)
<1>1. E \in Nat \ {0} /\ Works(cs, t, L0, th, E) /\ Threads(th) /\ ~failed
      /\ Here = [cs |-> cs, t |-> t] /\ t \in ThreadRec /\ Sized(t) /\ Len(cs) \in Nat
  BY Now
<1>2. cs' = q /\ th' = [th EXCEPT ![L0] = u] /\ ~failed'
  <2> DEFINE i == m + 1
  <2>1. i - 1 = m /\ ReturnFrom(i, status)
    BY <1>1
  <2> HIDE DEF i
  <2>2. /\ cs' = Finish(SubSeq(cs, 1, i - 1), TRUE)
        /\ th' = [th EXCEPT ![L0] = u]
        /\ failed' = (failed \/ th[L0].nCcalls /= th[L0].baseCcalls)
    BY <1>1, <2>1, ReturnFromGoes
  <2>3. ~failed'
    BY <1>1, <2>2
  <2> HIDE DEF u
  <2> QED
    BY <2>1, <2>2, <2>3
<1>3. u \in ThreadRec /\ Sized(u) /\ Idle(u)
  <2>1. v \in ThreadRec /\ v.ci = t.ci /\ v.size_ci = t.size_ci /\ v.errfunc = t.errfunc
    <3> HIDE DEF t
    <3>1. t.nCcalls - 1 \in Int
      BY <1>1 DEF ThreadRec
    <3> QED
      BY <1>1, <3>1, SetCalls
  <2> HIDE DEF v
  <2>2. u \in ThreadRec /\ u.ci = v.ci /\ u.size_ci = v.size_ci /\ u.errfunc = v.errfunc
        /\ u.status = status
    BY <2>1 DEF ThreadRec
  <2> HIDE DEF u
  <2>3. Idle(u)
    BY <2>1, <2>2
  <2> HIDE DEF t
  <2> QED
    BY <1>1, <2>1, <2>2, <2>3 DEF Sized
<1>4. ok \in BOOLEAN
  OBVIOUS
<1> HIDE DEF u, t, ok, E
<1>5. Good(q, [th EXCEPT ![L0] = u], E)
  BY <1>1, <1>3, <1>4, Leave
<1> QED
  BY <1>2, <1>5 DEF Stepped, E

\* The end of a coroutine.
LEMMA ResumeReturnsSteps ==
    ASSUME Inv, cs /= <<>>, ResumeReturns
    PROVE  Stepped
<1> DEFINE E == ErrCCalls
           t == th[L0]
           status == "ok"
<1>1. E \in Nat \ {0} /\ Works(cs, t, L0, th, E) /\ Top = Last(cs) /\ Last(cs) = cs[Len(cs)]
      /\ Len(cs) \in Nat /\ Top.f = "resume" /\ Len(cs) >= 2
  BY Now DEF ResumeReturns
<1>2. ReturnFrom(Len(cs), status) /\ status \in {"ok", "yield"}
  BY DEF ResumeReturns
<1> HIDE DEF E, t
<1>3. t.nCcalls = t.baseCcalls /\ t.ci = <<>> /\ t.errfunc = FALSE
  BY <1>1, Entering
<1>4. \A u : u.status = status /\ u.ci = t.ci /\ u.errfunc = t.errfunc => Idle(u)
  BY <1>3 DEF Idle
<1>5. PICK m \in 1..(Len(cs) - 1) : m + 1 = Len(cs)
  <2>1. Len(cs) - 1 \in 1..(Len(cs) - 1) /\ (Len(cs) - 1) + 1 = Len(cs)
    BY <1>1
  <2> QED
    BY <2>1
<1>6. cs[m + 1].f = "resume" /\ (\A k \in (m + 2)..Len(cs) : cs[k].f /= "resume")
      /\ ReturnFrom(m + 1, status)
  BY <1>1, <1>2, <1>5
<1> HIDE DEF status
<1> QED
  BY <1>2, <1>3, <1>4, <1>6, ReturnFromSteps DEF t

\* lua_yield is only called by a Lua function that lua_resume runs.
LEMMA YieldStack ==
    ASSUME NEW E \in Nat \ {0}, NEW q, NEW t, NEW L, NEW T, Works(q, t, L, T, E),
           Last(q).f = "C", t.nCcalls <= t.baseCcalls
    PROVE  /\ Len(q) \in Nat /\ Len(q) >= 4 /\ q[Len(q) - 2].f = "resume"
           /\ q[Len(q) - 1].f = "execute" /\ q[Len(q)].f = "C"
           /\ t.nCcalls = t.baseCcalls /\ t.errfunc = FALSE /\ t.ci \in Seq(CI) /\ Len(t.ci) >= 2
           /\ t.ci = Append([i \in 1..(Len(t.ci) - 1) |-> "lua"], "C")
<1> DEFINE q1 == Front(q)
           q2 == Front(q1)
<1>1. Fits(q, t, T, E) /\ t \in ThreadRec
  BY DEF Works
<1>2. q \in Seq(Frame) /\ Len(q) \in Nat /\ Len(q) >= 2 /\ Last(q) = q[Len(q)] /\ Last(q) \in Frame
      /\ q /= <<>>
  BY <1>1, FitsTypes
<1>3. PICK u \in ThreadRec : Works(q1, u, L, T, E) /\ Link(View(u), Last(q1), Last(q), View(t), E)
  BY <1>2, Beneath
<1>4. t.nCcalls = u.nCcalls /\ t.baseCcalls = u.baseCcalls /\ t.errfunc = u.errfunc
      /\ t.ci = u.ci \o <<"C">>
  <2>1. Infos(Last(q)) = <<"C">>
    BY <1>2, InfosTypes
  <2> QED
    BY <1>3, <2>1 DEF Link, Snap, View
<1>5. Last(q1).f = "execute"
  <2>1. Last(q1).f \in {"call", "execute"}
    BY <1>3 DEF Link, Follows
  <2>2. ASSUME Last(q1).f = "call" PROVE FALSE
    <3>1. u.baseCcalls < u.nCcalls
      BY <1>3, <2>2, Deeper
    <3> QED
      BY <1>3, <1>4, <3>1 DEF ThreadRec
  <2> QED
    BY <2>1, <2>2
<1>6. Len(q1) = Len(q) - 1 /\ \A i \in 1..(Len(q) - 1) : q1[i] = q[i]
  BY <1>2, FrontEnds
<1> HIDE DEF q1
<1>7. Fits(q1, u, T, E)
  BY <1>3 DEF Works
<1>8. q1 \in Seq(Frame) /\ Len(q1) \in Nat /\ Len(q1) >= 2 /\ Last(q1) = q1[Len(q1)]
      /\ Last(q1) \in Frame /\ q1 /= <<>>
  BY <1>5, <1>7, FitsTypes
<1>9. PICK z \in ThreadRec : Works(q2, z, L, T, E) /\ Link(View(z), Last(q2), Last(q1), View(u), E)
  BY <1>3, <1>5, <1>8, Beneath
<1>10. u.nCcalls = z.nCcalls /\ u.baseCcalls = z.baseCcalls /\ u.errfunc = z.errfunc
       /\ u.ci = z.ci \o Infos(Last(q1))
  BY <1>5, <1>9 DEF Link, Snap, View
<1>11. Last(q2).f = "resume"
  <2>1. Last(q2).f \in {"call", "resume"}
    BY <1>5, <1>9 DEF Link, Follows
  <2>2. ASSUME Last(q2).f = "call" PROVE FALSE
    <3>1. z.baseCcalls < z.nCcalls
      BY <1>9, <2>2, Deeper
    <3> QED
      BY <1>9, <1>4, <1>10, <3>1 DEF ThreadRec
  <2> QED
    BY <2>1, <2>2
<1>12. Len(q2) = Len(q1) - 1 /\ \A i \in 1..(Len(q1) - 1) : q2[i] = q1[i]
  BY <1>8, FrontEnds
<1> HIDE DEF q2
<1>13. Len(q2) \in Nat /\ Len(q2) >= 2 /\ Last(q2) = q2[Len(q2)]
  <2>1. Fits(q2, z, T, E)
    BY <1>9 DEF Works
  <2> QED
    BY <1>11, <2>1, FitsTypes
<1>14. z.nCcalls = z.baseCcalls /\ z.ci = <<>> /\ z.errfunc = FALSE
  BY <1>9, <1>11, Entering
<1>15. t.ci \in Seq(CI) /\ Len(t.ci) >= 2
       /\ t.ci = Append([i \in 1..(Len(t.ci) - 1) |-> "lua"], "C")
  <2>1. PICK k \in Nat \ {0} : k = Last(q1).n
    BY <1>5, <1>8, FrameFields
  <2> DEFINE a == [i \in 1..k |-> "lua"]
  <2>2. Infos(Last(q1)) = a
    BY <1>5, <1>8, <2>1, InfosTypes
  <2>3. a \in Seq(CI) /\ Len(a) = k
    BY <2>1, MoreLua
  <2>4. "C" \in CI
    BY DEF CI
  <2> HIDE DEF a
  <2>5. u.ci = a
    BY <1>10, <1>14, <2>2, <2>3, ConcatEmptySeq
  <2>6. t.ci = Append(a, "C")
    BY <1>4, <2>3, <2>4, <2>5, AppendIsConcat
  <2>7. Append(a, "C") \in Seq(CI) /\ Len(Append(a, "C")) = k + 1
    BY <2>3, <2>4, AppendProperties
  <2>8. Len(t.ci) - 1 = k /\ Len(t.ci) >= 2 /\ t.ci \in Seq(CI)
    BY <2>1, <2>6, <2>7
  <2> QED
    BY <2>6, <2>8 DEF a
<1>16. Len(q) >= 4 /\ q[Len(q) - 2] = Last(q2) /\ q[Len(q) - 1] = Last(q1)
  <2>1. Len(q) - 1 = Len(q1) /\ Len(q) - 2 = Len(q2) /\ Len(q) >= 4
    BY <1>2, <1>6, <1>8, <1>12, <1>13
  <2>2. Last(q1) = q[Len(q1)]
    BY <1>2, <1>6, <1>8
  <2>3. Last(q2) = q[Len(q2)]
    BY <1>2, <1>6, <1>8, <1>12, <1>13
  <2> QED
    BY <2>1, <2>2, <2>3
<1>17. t.nCcalls = t.baseCcalls /\ t.errfunc = FALSE
  BY <1>4, <1>10, <1>14
<1> QED
  BY <1>2, <1>5, <1>11, <1>15, <1>16, <1>17

\* The last lua_resume, of a stack that ends in a yield.
LEMMA LastResume ==
    ASSUME NEW q, Len(q) \in Nat, Len(q) >= 4, q[Len(q) - 2].f = "resume",
           q[Len(q) - 1].f = "execute", q[Len(q)].f = "C"
    PROVE  LET I == {i \in 1..Len(q) : q[i].f = "resume"}
           IN  (IF I /= {} THEN Max(I) ELSE 0) = Len(q) - 2
<1> DEFINE I == {i \in 1..Len(q) : q[i].f = "resume"}
           n == Len(q)
<1>1. n - 2 \in I /\ n \notin I /\ n - 1 \notin I /\ I \subseteq 1..n /\ n \in Nat
  OBVIOUS
<1>2. Max(I) \in I /\ \A k \in I : k <= Max(I)
  <2>1. I /= {}
    BY <1>1
  <2> HIDE DEF I, n
  <2> QED
    BY <1>1, <2>1, LargestNumber
<1>3. Max(I) = n - 2
  <2> HIDE DEF I, n
  <2>1. n - 2 <= Max(I) /\ Max(I) \in 1..n /\ Max(I) /= n /\ Max(I) /= n - 1
    BY <1>1, <1>2
  <2> QED
    BY <1>1, <2>1
<1>4. I /= {}
  BY <1>1
<1> QED
  BY <1>3, <1>4

\* lua_yield
LEMMA DoYieldSteps ==
    ASSUME Inv, cs /= <<>>, DoYield
    PROVE  Stepped
<1> DEFINE E == ErrCCalls
           t == th[L0]
<1>1. E \in Nat \ {0} /\ Works(cs, t, L0, th, E) /\ Top = Last(cs) /\ Top.f = "C"
      /\ t \in ThreadRec
  BY Now DEF DoYield
<1>2. CASE ~MayYield
  <2> DEFINE status == "run"
  <2>1. Goto([Here EXCEPT !.cs = Append(@, Raise(L0, status))], TRUE)
    BY <1>2 DEF DoYield
  <2>2. status \in {"run", "mem", "syntax"}
    OBVIOUS
  <2> HIDE DEF status
  <2> QED
    BY <1>1, <2>1, <2>2, RaiseSteps
<1>3. CASE MayYield
  <2> DEFINE I == {k \in 1..Len(cs) : cs[k].f = "resume"}
             i == IF I /= {} THEN Max(I) ELSE 0
             status == "yield"
  <2>1. ReturnFrom(i, status)
    BY <1>3 DEF DoYield, SelectLastInSeq
  <2>2. t.nCcalls <= t.baseCcalls
    BY <1>3 DEF MayYield
  <2> HIDE DEF t, E
  <2>3. /\ Len(cs) \in Nat /\ Len(cs) >= 4 /\ cs[Len(cs) - 2].f = "resume"
        /\ cs[Len(cs) - 1].f = "execute" /\ cs[Len(cs)].f = "C"
        /\ t.nCcalls = t.baseCcalls /\ t.errfunc = FALSE /\ t.ci \in Seq(CI) /\ Len(t.ci) >= 2
        /\ t.ci = Append([k \in 1..(Len(t.ci) - 1) |-> "lua"], "C")
    BY <1>1, <2>2, YieldStack
  <2>4. i = Len(cs) - 2
    BY <2>3, LastResume
  <2> HIDE DEF i
  <2>5. \A u : u.status = status /\ u.ci = t.ci /\ u.errfunc = t.errfunc => Idle(u)
    <3> SUFFICES ASSUME NEW u, u.status = status, u.ci = t.ci, u.errfunc = t.errfunc
                 PROVE  Idle(u)
      OBVIOUS
    <3>1. u.status = "yield" /\ u.errfunc = FALSE
      BY <2>3
    <3>2. Len(u.ci) >= 2 /\ u.ci = Append([k \in 1..(Len(u.ci) - 1) |-> "lua"], "C")
      BY <2>3
    <3> QED
      BY <3>1, <3>2 DEF Idle
  <2>6. PICK m \in 1..(Len(cs) - 1) : m + 1 = i /\ m = Len(cs) - 3
    <3>1. Len(cs) - 3 \in 1..(Len(cs) - 1) /\ (Len(cs) - 3) + 1 = i
      BY <2>3, <2>4
    <3> QED
      BY <3>1
  <2>7. cs[m + 1].f = "resume" /\ ReturnFrom(m + 1, status)
    BY <2>1, <2>3, <2>4, <2>6
  <2>8. \A k \in (m + 2)..Len(cs) : cs[k].f /= "resume"
    <3>1. \A k \in (m + 2)..Len(cs) : k = Len(cs) - 1 \/ k = Len(cs)
      BY <2>3, <2>6
    <3> QED
      BY <2>3, <3>1
  <2>9. status \in {"ok", "yield"}
    OBVIOUS
  <2> HIDE DEF status
  <2> QED
    BY <2>3, <2>5, <2>7, <2>8, <2>9, ReturnFromSteps DEF t
<1> QED
  BY <1>2, <1>3

-----------------------------------------------------------------------------
(***************************************************************************)
(* The collector shrinks the array of CallInfos of some thread.            *)
(***************************************************************************)
LEMMA ShrinkSteps ==
    ASSUME Inv, cs /= <<>>, NEW L \in Thread, Shrink(L)
    PROVE  Stepped
<1> DEFINE E == ErrCCalls
           t == th[L]
           size == t.size_ci \div 2
           u == [t EXCEPT !.size_ci = size]
           U == [th EXCEPT ![L] = u]
           K == Last(cs).th
<1>1. E \in Nat \ {0} /\ Good(cs, th, E) /\ ~failed /\ Threads(th) /\ Works(cs, th[K], K, th, E)
      /\ cs \in Seq(Frame) /\ K \in Thread
  BY Now DEF Inv
<1>2. t.size_ci <= MaxCalls /\ 4 * Len(t.ci) < t.size_ci /\ 2 * BasicCI < t.size_ci
      /\ th' = U /\ cs' = cs /\ failed' = failed
  BY DEF Shrink
<1>3. t \in ThreadRec /\ Sized(t)
  BY <1>1 DEF Threads
<1>4. t.size_ci \in Nat /\ t.ci \in Seq(CI) /\ Len(t.ci) \in Nat /\ BasicCI \in Nat
      /\ MaxCalls \in Nat /\ BasicCI >= 2
  BY <1>3, LenProperties, CallsAssumption DEF ThreadRec
<1>5. size \in Nat /\ Len(t.ci) < size /\ BasicCI <= size /\ size <= 2 * MaxCalls
  <2>1. PICK n \in Nat : n = t.size_ci
    BY <1>4
  <2>2. PICK k \in Nat : k = n \div 2 /\ 2 * k <= n /\ n <= 2 * k + 1
    OBVIOUS
  <2>3. size = k
    BY <2>1, <2>2
  <2> HIDE DEF size, t
  <2> QED
    BY <1>2, <1>4, <2>1, <2>2, <2>3
<1> HIDE DEF size
<1>6. u \in ThreadRec /\ Sized(u) /\ u.status = t.status /\ View(u) = View(t) /\ u.ci = t.ci
      /\ u.errfunc = t.errfunc
  <2> HIDE DEF t
  <2>1. u \in ThreadRec /\ u.status = t.status /\ u.ci = t.ci /\ u.size_ci = size
        /\ View(u) = View(t) /\ u.errfunc = t.errfunc
    BY <1>3, <1>5, SetSize
  <2> HIDE DEF u
  <2> QED
    BY <1>5, <2>1 DEF Sized
<1> HIDE DEF u
<1>7. U \in [Thread -> ThreadRec] /\ U[L] = u /\ \A M \in Thread : M /= L => U[M] = th[M]
  BY <1>1, <1>6 DEF Threads
<1>8. \A M \in Thread : U[M].status = th[M].status /\ View(U[M]) = View(th[M]) /\ Sized(U[M])
                        /\ (Idle(th[M]) => Idle(U[M]))
  <2> SUFFICES ASSUME NEW M \in Thread
               PROVE  U[M].status = th[M].status /\ View(U[M]) = View(th[M]) /\ Sized(U[M])
                      /\ (Idle(th[M]) => Idle(U[M]))
    OBVIOUS
  <2>1. CASE M = L
    <3> HIDE DEF U
    <3>1. Idle(t) => Idle(u)
      <4> HIDE DEF t
      <4> QED
        BY <1>6 DEF Idle
    <3> QED
      BY <1>6, <1>7, <2>1, <3>1
  <2>2. CASE M /= L
    <3> HIDE DEF U
    <3> QED
      BY <1>1, <1>7, <2>2 DEF Threads
  <2> QED
    BY <2>1, <2>2
<1> HIDE DEF U, t, E
<1>9. Fits(cs, U[K], U, E)
  <2>1. Fits(cs, th[K], th, E)
    BY <1>1 DEF Works
  <2>2. PICK s \in Seq(Snapshot) :
            Linked(cs, s, E) /\ Waiting(cs, s, th) /\ View(th[K]) = s[Len(cs)]
            /\ th[K].status = "ok"
    BY <2>1 DEF Fits
  <2>3. Waiting(cs, s, U)
    <3> SUFFICES ASSUME NEW e \in 1..(Len(cs) - 1), cs[e + 1].f = "resume"
                 PROVE  U[cs[e].th].status = "ok" /\ View(U[cs[e].th]) = s[e]
      BY DEF Waiting
    <3>1. e \in 1..Len(cs)
      BY <1>1, LenProperties
    <3>2. cs[e].th \in Thread
      BY <1>1, <3>1, ElementOfSeq, FrameFields
    <3> QED
      BY <1>8, <2>2, <3>2 DEF Waiting
  <2>4. View(U[K]) = s[Len(cs)] /\ U[K].status = "ok"
    BY <1>1, <1>8, <2>2
  <2> HIDE DEF K
  <2> QED
    BY <2>2, <2>3, <2>4 DEF Fits
<1>10. Idles(cs, U)
  <2>1. Idles(cs, th)
    BY <1>1 DEF Works
  <2>2. \A co \in Co : co \in Thread
    BY DEF Thread
  <2> QED
    BY <1>8, <2>1, <2>2 DEF Idles
<1>11. U[main].status = "ok"
  <2>1. main \in Thread
    BY DEF Thread
  <2> QED
    BY <1>1, <1>8, <2>1 DEF Threads
<1>12. Last(cs).f = "call" => U[K].nCcalls < E
  <2>1. Last(cs).f = "call" => th[K].nCcalls < E
    BY <1>1, Starts
  <2>2. U[K].nCcalls = th[K].nCcalls
    BY <1>1, <1>8 DEF View
  <2> QED
    BY <2>1, <2>2
<1>13. Good(cs, U, E)
  BY <1>1, <1>7, <1>8, <1>9, <1>10, <1>11, <1>12 DEF Good
<1> QED
  BY <1>1, <1>2, <1>13 DEF Stepped, E

-----------------------------------------------------------------------------
(***************************************************************************)
(* The invariant.                                                          *)
(***************************************************************************)

\* lua_cpcall has called pmain.
LEMMA Initially ==
    ASSUME Init
    PROVE  Inv
<1> DEFINE x == CallFrame(main)
           y == CFrame(main, "plain")
           t == [NewThread(FALSE) EXCEPT !.nCcalls = 1, !.ci = <<"C">>]
           E == ErrCCalls
           first == [n |-> 0, base |-> 0, ci |-> <<>>, ef |-> FALSE]
           second == [n |-> 1, base |-> 0, ci |-> <<>>, ef |-> FALSE]
           third == [n |-> 1, base |-> 0, ci |-> <<"C">>, ef |-> FALSE]
           s == <<first, second, third>>
<1>1. prog \in Programs /\ ~failed /\ cs = <<Base, x, y>>
      /\ th = [L \in Thread |-> IF L = main THEN t ELSE NewThread(FALSE)]
  BY DEF Init, Base
<1>2. E \in Nat /\ E >= 2 /\ main \in Thread /\ BasicCI \in Nat /\ BasicCI >= 2
      /\ BasicCI <= 2 * MaxCalls
  BY <1>1, CallsAssumption DEF ErrCCalls, Thread
<1>3. <<>> \in Seq(CI) /\ Len(<<>>) = 0 /\ <<"C">> \in Seq(CI) /\ Len(<<"C">>) = 1
      /\ <<>> \o <<"C">> = <<"C">>
  <2>1. "C" \in CI
    BY DEF CI
  <2>2. <<"C">> \in Seq(CI) /\ Len(<<"C">>) = 1
    BY <2>1
  <2> QED
    BY <2>2, EmptySeq, ConcatEmptySeq
<1>4. LET z == NewThread(FALSE)
      IN  z \in ThreadRec /\ Sized(z) /\ Idle(z)
  <2> DEFINE z == NewThread(FALSE)
  <2>1. z \in ThreadRec /\ z.status = "ok" /\ z.ci = <<>> /\ z.size_ci = BasicCI /\ ~z.errfunc
    BY <1>2, <1>3 DEF NewThread, ThreadRec
  <2> HIDE DEF z
  <2>2. Sized(z) /\ Idle(z)
    BY <1>2, <1>3, <2>1 DEF Sized, Idle
  <2> QED
    BY <2>1, <2>2 DEF z
<1>5. t \in ThreadRec /\ Sized(t) /\ t.status = "ok" /\ View(t) = third
  <2> DEFINE z == NewThread(FALSE)
             a == [z EXCEPT !.nCcalls = 1]
  <2>1. z \in ThreadRec /\ z.status = "ok" /\ z.baseCcalls = 0 /\ ~z.errfunc /\ z.size_ci = BasicCI
    BY <1>2, <1>3 DEF NewThread, ThreadRec
  <2>2. t = [a EXCEPT !.ci = <<"C">>]
    BY DEF NewThread
  <2> HIDE DEF z, t
  <2>3. a \in ThreadRec /\ a.status = "ok" /\ a.nCcalls = 1 /\ a.baseCcalls = 0 /\ ~a.errfunc
        /\ a.size_ci = BasicCI
    BY <2>1 DEF ThreadRec
  <2> HIDE DEF a
  <2>4. t \in ThreadRec /\ t.status = "ok" /\ t.nCcalls = 1 /\ t.baseCcalls = 0 /\ ~t.errfunc
        /\ t.size_ci = BasicCI /\ t.ci = <<"C">>
    BY <1>3, <2>2, <2>3 DEF ThreadRec
  <2>5. t.errfunc = FALSE
    BY <2>4 DEF ThreadRec
  <2>6. Sized(t)
    BY <1>2, <1>3, <2>4 DEF Sized
  <2> QED
    BY <2>4, <2>5, <2>6 DEF View
<1>6. Base \in Frame /\ x \in Frame /\ y \in Frame
  <2>1. "plain" \in CFunction
    BY DEF CFunction
  <2> QED
    BY <1>2, <2>1, FramesMade DEF Base, Frame
<1>7. first \in Snapshot /\ second \in Snapshot /\ third \in Snapshot
  BY <1>3 DEF Snapshot
<1>8. Link(first, Base, x, second, E)
  <2>1. Follows(Base, x)
    BY DEF Follows, Base, CallFrame
  <2>2. Infos(x) = <<>>
    BY DEF Infos, CallFrame
  <2>3. <<>> \o <<>> = <<>>
    BY <1>3, ConcatEmptySeq
  <2>4. Snap(first, x, second)
    BY <2>2, <2>3 DEF Snap, CallFrame
  <2>5. Bounded(x, second, E)
    BY <1>2 DEF Bounded, CallFrame
  <2> QED
    BY <2>1, <2>4, <2>5 DEF Link
<1>9. Link(second, x, y, third, E)
  <2>1. Follows(x, y)
    BY DEF Follows, CFrame, CallFrame
  <2>2. Infos(y) = <<"C">>
    BY DEF Infos, CFrame
  <2>3. y.f = "C" /\ second.n = 1 /\ second.base = 0 /\ second.ci = <<>> /\ second.ef = FALSE
        /\ third.n = 1 /\ third.base = 0 /\ third.ci = <<"C">> /\ third.ef = FALSE
    BY DEF CFrame
  <2>4. Snap(second, y, third)
    <3> HIDE DEF y, second, third
    <3>1. third.ci = second.ci \o Infos(y)
      BY <1>3, <2>2, <2>3
    <3> QED
      BY <2>3, <3>1 DEF Snap
  <2>5. Bounded(y, third, E)
    BY <1>2 DEF Bounded, CFrame
  <2> QED
    BY <2>1, <2>4, <2>5 DEF Link
<1>10. Base.f = "pcall" /\ x.f = "call" /\ y.f = "C" /\ Base.th = main /\ x.th = main /\ y.th = main
  BY DEF Base, CallFrame, CFrame
<1> HIDE DEF x, y, E, t
<1>11. Linked(cs, s, E)
  <2> HIDE DEF second, third
  <2>1. cs \in Seq(Frame) /\ Len(cs) = 3 /\ cs[1] = Base /\ cs[2] = x /\ cs[3] = y
    BY <1>1, <1>6
  <2>2. s \in Seq(Snapshot) /\ Len(s) = 3 /\ s[1] = first /\ s[2] = second /\ s[3] = third
    BY <1>7
  <2> HIDE DEF s
  <2>3. \A i \in 1..(Len(cs) - 1) : Link(s[i], cs[i], cs[i + 1], s[i + 1], E)
    <3>1. \A i \in 1..(Len(cs) - 1) : i = 1 \/ i = 2
      BY <2>1
    <3>2. Link(s[1], cs[1], cs[2], s[2], E) /\ Link(s[2], cs[2], cs[3], s[3], E)
      <4> HIDE DEF first
      <4> QED
        BY <1>8, <1>9, <2>1, <2>2
    <3> QED
      BY <3>1, <3>2
  <2>4. \A i \in 1..Len(cs) : cs[i].f /= "resume"
    <3>1. \A i \in 1..Len(cs) : i = 1 \/ i = 2 \/ i = 3
      BY <2>1
    <3> QED
      BY <1>10, <2>1, <3>1
  <2> QED
    BY <2>1, <2>2, <2>3, <2>4 DEF Linked
<1>12. Good(cs, th, E)
  <2>1. cs \in Seq(Frame) /\ cs /= <<>> /\ Len(cs) = 3 /\ Last(cs) = y
        /\ \A i \in 1..3 : cs[i].f /= "resume" /\ cs[i].th = main
    <3>1. cs \in Seq(Frame) /\ Len(cs) = 3 /\ cs[1] = Base /\ cs[2] = x /\ cs[3] = y
      BY <1>1, <1>6
    <3>2. \A i \in 1..3 : i = 1 \/ i = 2 \/ i = 3
      OBVIOUS
    <3> QED
      BY <1>10, <3>1, <3>2, EmptySeq DEF Last
  <2>2. s \in Seq(Snapshot) /\ s[3] = third
    <3> HIDE DEF first, second, third
    <3> QED
      BY <1>7
  <2> HIDE DEF s, third
  <2>3. th \in [Thread -> ThreadRec] /\ th[main] = t /\ \A L \in Thread : L /= main =>
            th[L] = NewThread(FALSE)
    BY <1>1, <1>2, <1>4, <1>5
  <2>4. \A L \in Thread : Sized(th[L])
    BY <1>4, <1>5, <2>3
  <2>5. Idles(cs, th)
    <3>1. \A co \in Co : co \in Thread /\ co /= main
      BY CallsAssumption DEF Thread
    <3> QED
      BY <1>4, <2>3, <3>1 DEF Idles
  <2>6. Waiting(cs, s, th)
    <3>1. \A e \in 1..(Len(cs) - 1) : e + 1 \in 1..3
      BY <2>1
    <3> QED
      BY <2>1, <3>1 DEF Waiting
  <2>7. Fits(cs, t, th, E)
    BY <1>5, <1>11, <2>1, <2>2, <2>6 DEF Fits
  <2>8. Last(cs).th = main /\ Last(cs).f /= "call"
    BY <1>10, <2>1
  <2> QED
    BY <1>5, <2>1, <2>3, <2>4, <2>5, <2>7, <2>8 DEF Good
<1> QED
  BY <1>1, <1>12 DEF Inv, E

\* Every step.
LEMMA Preserved ==
    ASSUME Inv, [Next]_vars
    PROVE  Inv'
<1>1. CASE cs /= <<>> /\ Step /\ UNCHANGED prog
  <2>1. prog.co \subseteq Co
    BY ProgramTypes DEF Inv
  <2>2. Stepped
    <3>1. CASE CallLua
      BY <1>1, <3>1, CallLuaSteps
    <3>2. CASE ReturnLua
      BY <1>1, <3>2, ReturnLuaSteps
    <3>3. CASE ReturnC
      BY <1>1, <3>3, ReturnCSteps
    <3>4. CASE CallReturns
      BY <1>1, <3>4, CallReturnsSteps
    <3>5. CASE \E fn \in prog.fns : CallC(fn)
      BY <1>1, <3>5, CallCSteps
    <3>6. CASE \E callee \in Callee : Call(callee) \/ DoPcall(callee)
      BY <1>1, <3>6, CallSteps, DoPcallSteps
    <3>7. CASE \E callee \in {"lua", "plain"} : CallHandler(callee)
      BY <1>1, <3>7, CallHandlerSteps
    <3>8. CASE DoLoad \/ ParserReturns \/ PcallReturns
      BY <1>1, <3>8, DoLoadSteps, ParserReturnsSteps, PcallReturnsSteps
    <3>9. CASE \E status \in {"run", "mem", "syntax"} : Fail(status)
      BY <1>1, <3>9, FailSteps
    <3>10. CASE Thrown
      BY <1>1, <3>10, ThrownSteps
    <3>11. CASE \E co \in prog.co : Create(co) \/ DoResume(co)
      BY <1>1, <2>1, <3>11, CreateSteps, DoResumeSteps
    <3>12. CASE ResumeReturns \/ DoYield
      BY <1>1, <3>12, ResumeReturnsSteps, DoYieldSteps
    <3>13. CASE \E L \in Thread : Shrink(L)
      BY <1>1, <3>13, ShrinkSteps
    <3> QED
      BY <1>1, <3>1, <3>2, <3>3, <3>4, <3>5, <3>6, <3>7, <3>8, <3>9, <3>10, <3>11, <3>12, <3>13
         DEF Step
  <2>3. prog' \in Programs /\ ErrCCalls' = ErrCCalls
    BY <1>1 DEF Inv, ErrCCalls
  <2> QED
    BY <2>2, <2>3 DEF Inv, Stepped
<1>2. CASE UNCHANGED vars
  BY <1>2 DEF Inv, vars, ErrCCalls
<1> QED
  BY <1>1, <1>2 DEF Next, Ended

(***************************************************************************)
(* The inductive invariant: every C stack that a program can reach is      *)
(* linked to its threads by snapshots.                                     *)
(***************************************************************************)
THEOREM Invariance == Spec => []Inv
<1>1. Init => Inv
  BY Initially
<1>2. Inv /\ [Next]_vars => Inv'
  BY Preserved
<1> QED
  BY <1>1, <1>2, PTL DEF Spec

-----------------------------------------------------------------------------
(***************************************************************************)
(* What the invariant says.                                                *)
(***************************************************************************)

\* There are C calls to count.
LEMMA LimitPositive ==
    ASSUME prog \in Programs
    PROVE  ErrCCalls \in Nat \ {0}
  BY ProgramTypes

\* Every thread on the C stack is as the snapshot of its last activation says.
LEMMA Stacked ==
    ASSUME NEW E \in Nat \ {0}, NEW q, NEW T, Good(q, T, E), q /= <<>>
    PROVE  \E s \in Seq(Snapshot) :
              /\ Linked(q, s, E) /\ View(T[Last(q).th]) = s[Len(q)]
              /\ \A L \in Thread : (\E i \in 1..Len(q) : q[i].th = L) =>
                    \E e \in 1..Len(q) :
                       /\ q[e].th = L /\ \A k \in (e + 1)..Len(q) : q[k].th /= L
                       /\ T[L].status = "ok" /\ View(T[L]) = s[e]
<1>1. q \in Seq(Frame) /\ Fits(q, T[Last(q).th], T, E)
  BY DEF Good
<1>2. PICK s \in Seq(Snapshot) :
          Linked(q, s, E) /\ Waiting(q, s, T) /\ View(T[Last(q).th]) = s[Len(q)]
          /\ T[Last(q).th].status = "ok"
  BY <1>1 DEF Fits
<1>3. ASSUME NEW L \in Thread, NEW i \in 1..Len(q), q[i].th = L
      PROVE  \E e \in 1..Len(q) :
                /\ q[e].th = L /\ \A k \in (e + 1)..Len(q) : q[k].th /= L
                /\ T[L].status = "ok" /\ View(T[L]) = s[e]
  <2>0. \E e \in 1..Len(q) : q[e].th = L /\ (\A k \in (e + 1)..Len(q) : q[k].th /= L)
    <3>1. \A M : q[i].th = M =>
              \E e \in 1..Len(q) : q[e].th = M /\ (\A k \in (e + 1)..Len(q) : q[k].th /= M)
      BY <1>1, HasTop
    <3> QED
      BY <1>3, <3>1
  <2>1. PICK e \in 1..Len(q) : q[e].th = L /\ \A k \in (e + 1)..Len(q) : q[k].th /= L
    BY <2>0
  <2>2. T[q[e].th].status = "ok" /\ View(T[q[e].th]) = s[e]
    <3>1. \A k \in (e + 1)..Len(q) : q[k].th /= q[e].th
      BY <2>1
    <3> QED
      BY <1>2, <3>1, TopFrame
  <2> QED
    BY <2>1, <2>2
<1> QED
  BY <1>2, <1>3

\* lua_resume is on the C stack at most once for a coroutine.
LEMMA ResumedOnce ==
    ASSUME NEW E \in Nat \ {0}, NEW q, NEW s, Linked(q, s, E),
           NEW i \in 1..Len(q), NEW j \in 1..Len(q), q[i].f = "resume", q[j].f = "resume",
           q[i].th = q[j].th
    PROVE  i = j
<1>1. Len(q) \in Nat
  BY LinkedAt
<1>2. ~(i < j) /\ ~(j < i)
  <2>1. \A m \in 1..Len(q) : q[m].f = "resume" => \A k \in 1..(m - 1) : q[k].th /= q[m].th
    BY DEF Linked
  <2> QED
    BY <1>1, <2>1
<1> QED
  BY <1>1, <1>2

\* A coroutine is on the C stack at most once and its status says whether it is,
\* and no assertion of ldo.c fails: for every program, any coroutines and limits.
THEOREM StatusIsTrue == Spec => []StatusTrue
<1>1. Inv => StatusTrue
  <2> SUFFICES ASSUME Inv PROVE StatusTrue
    OBVIOUS
  <2> DEFINE E == ErrCCalls
  <2>1. E \in Nat \ {0} /\ Good(cs, th, E) /\ ~failed
    BY LimitPositive DEF Inv
  <2> HIDE DEF E
  <2>2. ASSUME cs /= <<>>, NEW co \in Co
        PROVE  /\ \A i, j \in {k \in DOMAIN cs : cs[k].f = "resume" /\ cs[k].th = co} : i = j
               /\ CoStatus(L0, co) \in {"running", "normal"} <=> Active(co)
    <3>1. PICK s \in Seq(Snapshot) : Linked(cs, s, E)
      BY <2>1, <2>2, Stacked
    <3>2. cs \in Seq(Frame) /\ DOMAIN cs = 1..Len(cs)
      BY <2>1 DEF Good
    <3>3. \A i, j \in {k \in DOMAIN cs : cs[k].f = "resume" /\ cs[k].th = co} : i = j
      BY <2>1, <3>1, <3>2, ResumedOnce
    <3>4. L0 = Last(cs).th
      BY DEF L0, Top
    <3>5. (co = L0) => Active(co)
      <4>1. Len(cs) \in 1..Len(cs)
        BY <2>2, <3>2, EmptySeq, LenProperties
      <4> QED
        BY <3>2, <3>4, <4>1 DEF Active, Last
    <3>6. \/ Active(co) /\ th[co].status = "ok" /\ (co /= L0 => th[co].ci /= <<>>)
          \/ ~Active(co) /\ co /= L0 /\ Idle(th[co])
      BY <2>1, <2>2, <3>2, <3>4, StatusSays DEF Active
    <3>7. Active(co) => CoStatus(L0, co) \in {"running", "normal"}
      <4>1. CASE co = L0
        BY <4>1 DEF CoStatus
      <4>2. CASE co /= L0 /\ Active(co)
        <5>1. th[co].status = "ok" /\ th[co].ci /= <<>>
          BY <3>6, <4>2
        <5>2. CoStatus(L0, co) = "normal"
          BY <4>2, <5>1 DEF CoStatus
        <5> QED
          BY <5>2
      <4> QED
        BY <4>1, <4>2
    <3>8. ASSUME ~Active(co) PROVE CoStatus(L0, co) \in {"suspended", "dead"}
      <4>1. co /= L0 /\ Idle(th[co])
        BY <3>6, <3>8
      <4>2. th[co].status = "ok" => th[co].ci = <<>>
        BY <4>1 DEF Idle
      <4> QED
        BY <4>1, <4>2 DEF CoStatus
    <3> QED
      BY <3>3, <3>7, <3>8
  <2> QED
    BY <2>1, <2>2 DEF StatusTrue
<1> QED
  BY <1>1, Invariance, PTL

-----------------------------------------------------------------------------
(***************************************************************************)
(* Error functions.                                                        *)
(***************************************************************************)

\* The protected calls of thread L among the first m frames.
Protected(q, L, m) == {k \in 1..m : q[k].f = "pcall" /\ q[k].th = L}

\* The last of them has an error function.
Handled(q, L, m) ==
    \E k \in Protected(q, L, m) : q[k].ef /\ \A j \in Protected(q, L, m) : j <= k

\* The error function that an activation finds is that of the innermost
\* protected call below it.
LEMMA HandlerNests ==
    ASSUME NEW E \in Nat \ {0}, NEW q, NEW s, Linked(q, s, E), NEW i \in 1..Len(q)
    PROVE  s[i].ef <=> Handled(q, q[i].th, i)
<1> DEFINE n == Len(q)
           A == {m \in 0..n : m = 0 \/ (s[m].ef <=> Handled(q, q[m].th, m))}
<1>0. n \in Nat /\ \A k \in 1..n : s[k] \in Snapshot /\ q[k] \in Frame
  BY LinkedAt
<1> HIDE DEF n
<1>1. 0 \in A
  BY <1>0
<1>2. ASSUME NEW m \in 0..n, m \in A, m < n PROVE m + 1 \in A
  <2> DEFINE x == q[m + 1]
             L == x.th
  <2>0. m + 1 \in 1..n /\ Protected(q, L, m + 1) \subseteq 1..(m + 1)
    BY <1>0, <1>2 DEF Protected
  <2>1. CASE m = 0
    <3>1. q[1] = Base /\ s[1].ef = FALSE
      BY <2>1 DEF Linked
    <3>2. q[1].f = "pcall" /\ q[1].ef = FALSE
      BY <3>1 DEF Base
    <3>3. \A k \in Protected(q, L, m + 1) : k = 1
      BY <2>0, <2>1
    <3>4. ~Handled(q, L, m + 1)
      BY <3>2, <3>3 DEF Handled
    <3> QED
      BY <2>0, <2>1, <3>1, <3>4
  <2>2. CASE m >= 1
    <3>1. Link(s[m], q[m], q[m + 1], s[m + 1], E) /\ (s[m].ef <=> Handled(q, q[m].th, m))
      BY <1>0, <1>2, <2>2 DEF Linked, n
    <3>2. Follows(q[m], x) /\ Snap(s[m], x, s[m + 1])
      BY <3>1 DEF Link
    <3>3. CASE x.f = "resume"
      <4>1. s[m + 1].ef = FALSE
        BY <3>2, <3>3 DEF Snap
      <4>2. \A j \in 1..m : q[j].th /= L
        <5>1. (m + 1) - 1 = m
          BY <1>0
        <5> QED
          BY <2>0, <3>3, <5>1 DEF Linked, n
      <4>3. Protected(q, L, m + 1) = {}
        BY <1>0, <3>3, <4>2 DEF Protected
      <4> QED
        BY <2>0, <4>1, <4>3 DEF Handled
    <3>4. CASE x.f = "pcall"
      <4>1. s[m + 1].ef = x.ef
        BY <3>2, <3>4 DEF Snap
      <4>2. m + 1 \in Protected(q, L, m + 1)
        BY <2>0, <3>4, <1>0 DEF Protected
      <4>3. Handled(q, L, m + 1) => x.ef
        <5> SUFFICES ASSUME NEW k \in Protected(q, L, m + 1), q[k].ef, m + 1 <= k PROVE x.ef
          BY <4>2 DEF Handled
        <5>1. k = m + 1
          BY <1>0, <2>0
        <5> QED
          BY <5>1
      <4>4. x.ef => Handled(q, L, m + 1)
        <5>1. \A j \in Protected(q, L, m + 1) : j <= m + 1
          BY <1>0, <2>0
        <5> QED
          BY <4>2, <5>1 DEF Handled
      <4> QED
        BY <2>0, <4>1, <4>3, <4>4
    <3>5. CASE x.f \notin {"resume", "pcall"}
      <4>1. s[m + 1].ef = s[m].ef /\ L = q[m].th
        BY <3>2, <3>5 DEF Snap, Follows
      <4>2. Protected(q, L, m + 1) = Protected(q, L, m)
        BY <1>0, <3>5 DEF Protected
      <4>3. Handled(q, L, m + 1) <=> Handled(q, q[m].th, m)
        BY <4>1, <4>2 DEF Handled
      <4> QED
        BY <2>0, <3>1, <4>1, <4>3
    <3> QED
      BY <3>3, <3>4, <3>5
  <2> QED
    BY <1>0, <2>1, <2>2
<1> HIDE DEF A
<1>3. 0..n \subseteq A
  <2>1. \A m \in 0..n : m \in A /\ m < n => m + 1 \in A
    BY <1>2
  <2> QED
    BY <1>0, <1>1, <2>1, Induction
<1>4. i \in A /\ i /= 0
  BY <1>0, <1>3 DEF n
<1> QED
  BY <1>4 DEF A

\* The error function of every running thread is that of its innermost protected
\* call, and its CallInfos fit their array: for every program, any coroutines
\* and limits.
THEOREM ErrorFunctionsNest == Spec => []HandlersNest
<1>1. Inv => HandlersNest
  <2> SUFFICES ASSUME Inv, NEW L \in Thread, Active(L)
               PROVE  LET protected == {i \in DOMAIN cs : cs[i].f = "pcall" /\ cs[i].th = L}
                      IN  /\ th[L].errfunc <=> \E i \in protected :
                                 cs[i].ef /\ \A j \in protected : j <= i
                          /\ Len(th[L].ci) < th[L].size_ci /\ th[L].size_ci <= 2 * MaxCalls
    BY DEF HandlersNest
  <2> DEFINE E == ErrCCalls
             protected == {i \in DOMAIN cs : cs[i].f = "pcall" /\ cs[i].th = L}
  <2>1. E \in Nat \ {0} /\ Good(cs, th, E)
    BY LimitPositive DEF Inv
  <2> HIDE DEF E
  <2>2. Sized(th[L]) /\ cs \in Seq(Frame) /\ DOMAIN cs = 1..Len(cs) /\ Len(cs) \in Nat
    BY <2>1 DEF Good
  <2>3. PICK i \in 1..Len(cs) : cs[i].th = L
    BY <2>2 DEF Active
  <2>4. cs /= <<>>
    BY <2>2, <2>3, EmptySeq
  <2>5. PICK s \in Seq(Snapshot) :
            /\ Linked(cs, s, E)
            /\ \A M \in Thread : (\E k \in 1..Len(cs) : cs[k].th = M) =>
                  \E e \in 1..Len(cs) :
                     /\ cs[e].th = M /\ \A k \in (e + 1)..Len(cs) : cs[k].th /= M
                     /\ th[M].status = "ok" /\ View(th[M]) = s[e]
    BY <2>1, <2>4, Stacked
  <2>6. PICK e \in 1..Len(cs) :
            cs[e].th = L /\ (\A k \in (e + 1)..Len(cs) : cs[k].th /= L) /\ View(th[L]) = s[e]
    BY <2>3, <2>5
  <2>7. th[L].errfunc <=> Handled(cs, L, e)
    <3>1. s[e].ef <=> Handled(cs, cs[e].th, e)
      BY <2>1, <2>5, HandlerNests
    <3>2. th[L].errfunc = s[e].ef
      BY <2>6 DEF View
    <3> QED
      BY <2>6, <3>1, <3>2
  <2>8. protected = Protected(cs, L, e)
    BY <2>2, <2>6 DEF Protected
  <2>9. th[L].errfunc <=> \E k \in protected : cs[k].ef /\ \A j \in protected : j <= k
    BY <2>7, <2>8 DEF Handled
  <2> QED
    BY <2>2, <2>9 DEF Sized
<1> QED
  BY <1>1, Invariance, PTL

-----------------------------------------------------------------------------
(***************************************************************************)
(* The count of nested C calls.                                            *)
(***************************************************************************)

\* The nested C calls among the first m frames.
Nested(q, m) == {k \in 1..m : q[k].f \in {"call", "resume"}}

\* The count that an activation finds is the number of C calls below it.
LEMMA CallsCounted ==
    ASSUME NEW E \in Nat \ {0}, NEW q, NEW s, Linked(q, s, E), NEW i \in 1..Len(q)
    PROVE  s[i].n = Cardinality(Nested(q, i))
<1> DEFINE n == Len(q)
           A == {m \in 0..n : m = 0 \/ s[m].n = Cardinality(Nested(q, m))}
<1>0. n \in Nat
  BY LinkedAt
<1> HIDE DEF n
<1>1. 0 \in A
  BY <1>0
<1>2. ASSUME NEW m \in 0..n, m \in A, m < n PROVE m + 1 \in A
  <2>0. m + 1 \in 1..n
    BY <1>0, <1>2
  <2>1. CASE m = 0
    <3>1. q[1] = Base /\ s[1].n = 0
      BY <2>1 DEF Linked
    <3>2. q[1].f = "pcall"
      BY <3>1 DEF Base
    <3>3. Nested(q, m + 1) = {}
      BY <2>1, <3>2 DEF Nested
    <3>4. s[m + 1].n = Cardinality(Nested(q, m + 1))
      <4>1. Cardinality({}) = 0
        BY FS_EmptySet
      <4>2. m + 1 = 1
        BY <2>1
      <4> QED
        BY <3>1, <3>3, <4>1, <4>2
    <3> QED
      BY <2>0, <3>4
  <2>2. CASE m >= 1
    <3>1. Link(s[m], q[m], q[m + 1], s[m + 1], E) /\ s[m].n = Cardinality(Nested(q, m))
      BY <1>0, <1>2, <2>2 DEF Linked, n
    <3>2. IsFiniteSet(Nested(q, m)) /\ m + 1 \notin Nested(q, m)
      <4>1. IsFiniteSet(1..m)
        BY <1>0, FS_Interval
      <4>2. Nested(q, m) \subseteq 1..m
        BY DEF Nested
      <4> QED
        BY <1>0, <4>1, <4>2, FS_Subset
    <3>3. CASE q[m + 1].f \in {"call", "resume"}
      <4>1. Nested(q, m + 1) = Nested(q, m) \cup {m + 1}
        BY <1>0, <3>3 DEF Nested
      <4>2. Cardinality(Nested(q, m + 1)) = Cardinality(Nested(q, m)) + 1
        BY <3>2, <4>1, FS_AddElement
      <4>3. s[m + 1].n = s[m].n + 1
        <5>1. Snap(s[m], q[m + 1], s[m + 1])
          BY <3>1 DEF Link
        <5>2. CASE q[m + 1].f = "resume"
          BY <5>1, <5>2 DEF Snap
        <5>3. CASE q[m + 1].f = "call"
          BY <5>1, <5>3 DEF Snap
        <5> QED
          BY <3>3, <5>2, <5>3
      <4> QED
        BY <2>0, <3>1, <4>2, <4>3
    <3>4. CASE q[m + 1].f \notin {"call", "resume"}
      <4>1. Nested(q, m + 1) = Nested(q, m)
        BY <1>0, <3>4 DEF Nested
      <4>2. s[m + 1].n = s[m].n
        BY <3>1, <3>4 DEF Link, Snap
      <4> QED
        BY <2>0, <3>1, <4>1, <4>2
    <3> QED
      BY <3>3, <3>4
  <2> QED
    BY <1>0, <2>1, <2>2
<1> HIDE DEF A
<1>3. 0..n \subseteq A
  <2>1. \A m \in 0..n : m \in A /\ m < n => m + 1 \in A
    BY <1>2
  <2> QED
    BY <1>0, <1>1, <2>1, Induction
<1>4. i \in A /\ i /= 0
  BY <1>0, <1>3 DEF n
<1> QED
  BY <1>4 DEF A

\* The count of nested C calls is that of the C stack, and never more than the
\* limit with its slack: for every program, any coroutines and limits.
THEOREM CCallsAreCounted == Spec => []CCallsCounted
<1>1. Inv => CCallsCounted
  <2> SUFFICES ASSUME Inv, cs /= <<>>
               PROVE  LET nested == {i \in DOMAIN cs : cs[i].f \in {"call", "resume"}}
                      IN  /\ th[L0].nCcalls = Cardinality(nested)
                          /\ Cardinality(nested) <= ErrCCalls
    BY DEF CCallsCounted
  <2> DEFINE E == ErrCCalls
             nested == {i \in DOMAIN cs : cs[i].f \in {"call", "resume"}}
             n == Len(cs)
  <2>1. E \in Nat \ {0} /\ Good(cs, th, E)
    BY LimitPositive DEF Inv
  <2>2. DOMAIN cs = 1..n /\ n \in Nat \ {0}
    BY <2>1, EmptySeq, LenProperties DEF Good
  <2>3. nested = Nested(cs, n)
    BY <2>2 DEF Nested
  <2> HIDE DEF E
  <2>4. PICK s \in Seq(Snapshot) : Linked(cs, s, E) /\ View(th[Last(cs).th]) = s[n]
    BY <2>1, Stacked
  <2>5. n \in 1..n
    BY <2>2
  <2>6. s[n].n = Cardinality(Nested(cs, n)) /\ Bounded(cs[n], s[n], E)
    <3> HIDE DEF n
    <3> QED
      BY <2>1, <2>4, <2>5, CallsCounted, LinkedAt DEF n
  <2>7. th[L0].nCcalls = s[n].n
    BY <2>4 DEF View, L0, Top
  <2> QED
    BY <2>3, <2>6, <2>7 DEF Bounded, E
<1> QED
  BY <1>1, Invariance, PTL

-----------------------------------------------------------------------------
(***************************************************************************)
(* The two stacks.                                                         *)
(***************************************************************************)

\* f[i] is what the activations of thread L among the first i frames account for.
AccSteps(f, q, L) ==
    /\ f[0] = <<>>
    /\ \A i \in 1..Len(q) : f[i] = IF q[i].th = L THEN f[i - 1] \o Infos(q[i]) ELSE f[i - 1]

\* Accounted is well-defined.
LEMMA AccountedRecursion ==
    ASSUME NEW q \in Seq(Frame), NEW L
    PROVE  \E f \in [0..Len(q) -> Seq(CI)] : AccSteps(f, q, L) /\ Accounted(q, L) = f[Len(q)]
<1> DEFINE n == Len(q)
           step == [i \in 1..n |->
                      [r \in Seq(CI) |-> IF q[i].th = L THEN r \o Infos(q[i]) ELSE r]]
           Val(f, i) == IF i = 0 THEN <<>>
                        ELSE IF q[i].th = L THEN f[i - 1] \o Infos(q[i]) ELSE f[i - 1]
           g == CHOOSE h : h = [i \in 0..n |-> Val(h, i)]
<1>1. n \in Nat /\ <<>> \in Seq(CI) /\ \A i \in 1..n : Infos(q[i]) \in Seq(CI)
  BY LenProperties, EmptySeq, ElementOfSeq, InfosTypes
<1>2. step \in [1..n -> [Seq(CI) -> Seq(CI)]]
  <2> HIDE DEF n
  <2>1. ASSUME NEW i \in 1..n, NEW r \in Seq(CI)
        PROVE  (IF q[i].th = L THEN r \o Infos(q[i]) ELSE r) \in Seq(CI)
    <3>1. PICK c \in Seq(CI) : c = Infos(q[i])
      BY <1>1
    <3>2. r \o c \in Seq(CI)
      BY ConcatProperties
    <3> QED
      BY <3>1, <3>2
  <2> QED
    BY <2>1
<1>3. Accounted(q, L) = g[n]
  BY DEF Accounted
<1>4. PICK f \in [0..n -> Seq(CI)] : f[0] = <<>> /\ \A i \in 1..n : f[i] = step[i][f[i - 1]]
  <2> DEFINE U == Seq(CI)
             a == <<>>
  <2>1. step \in [1..n -> [U -> U]] /\ n \in Nat /\ a \in U
    BY <1>1, <1>2
  <2> HIDE DEF step, n, U, a
  <2>2. \E f \in [0..n -> U] : f[0] = a /\ \A i \in 1..n : f[i] = step[i][f[i - 1]]
    BY <2>1, Recursion
  <2> QED
    BY <2>2 DEF U, a
<1> HIDE DEF step, n, g
<1>5. ASSUME NEW i \in 0..n PROVE f[i] = Val(f, i)
  <2>1. CASE i = 0
    BY <2>1, <1>4
  <2>2. CASE i /= 0
    <3>1. i \in 1..n /\ i - 1 \in 0..n
      BY <2>2, <1>1
    <3>2. f[i - 1] \in Seq(CI) /\ f[i] = step[i][f[i - 1]]
      BY <3>1, <1>4
    <3>3. step[i][f[i - 1]] = IF q[i].th = L THEN f[i - 1] \o Infos(q[i]) ELSE f[i - 1]
      BY <3>1, <3>2 DEF step
    <3> QED
      BY <3>2, <3>3, <2>2
  <2> QED
    BY <2>1, <2>2
<1>6. \A i \in 0..n : g[i] = Val(g, i)
  <2> HIDE DEF Val
  <2>1. f = [i \in 0..n |-> Val(f, i)]
    BY <1>5
  <2>2. g = [i \in 0..n |-> Val(g, i)]
    BY <2>1 DEF g
  <2> QED
    BY <2>2
<1>7. ASSUME NEW i \in 0..n PROVE g[i] = f[i]
  <2> DEFINE A == {j \in 0..n : g[j] = f[j]}
  <2>1. 0 \in A
    <3>1. 0 \in 0..n
      BY <1>1
    <3>2. g[0] = <<>>
      BY <1>6, <3>1
    <3> QED
      BY <1>4, <3>1, <3>2
  <2>2. ASSUME NEW k \in 0..n, k \in A, k < n PROVE k + 1 \in A
    <3>1. k + 1 \in 0..n /\ k = (k + 1) - 1 /\ k + 1 /= 0
      BY <2>2, <1>1
    <3>2. Val(g, k + 1) = Val(f, k + 1)
      BY <2>2, <3>1
    <3> QED
      BY <3>1, <3>2, <1>5, <1>6
  <2>3. 0..n \subseteq A
    <3> HIDE DEF A
    <3>1. \A k \in 0..n : k \in A /\ k < n => k + 1 \in A
      BY <2>2
    <3> QED
      BY <2>1, <3>1, <1>1, Induction
  <2> QED
    BY <2>3
<1>8. Accounted(q, L) = f[n]
  BY <1>1, <1>3, <1>7
<1>9. AccSteps(f, q, L)
  <2>1. ASSUME NEW i \in 1..n
        PROVE  f[i] = IF q[i].th = L THEN f[i - 1] \o Infos(q[i]) ELSE f[i - 1]
    <3>1. i \in 0..n /\ i /= 0
      BY <1>1
    <3>2. f[i] = Val(f, i)
      <4> HIDE DEF Val
      <4> QED
        BY <1>5, <3>1
    <3> QED
      BY <3>1, <3>2
  <2> QED
    BY <1>4, <2>1 DEF AccSteps, n
<1> QED
  BY <1>8, <1>9 DEF n

\* The CallInfos that an activation finds are those that the activations of its
\* thread account for.
LEMMA CallInfosAccounted ==
    ASSUME NEW E \in Nat \ {0}, NEW q, NEW s, Linked(q, s, E), NEW L,
           NEW f \in [0..Len(q) -> Seq(CI)], AccSteps(f, q, L),
           NEW i \in 1..Len(q), q[i].th = L
    PROVE  f[i] = s[i].ci
<1> DEFINE n == Len(q)
           P(m) == /\ (\A k \in 1..m : q[k].th /= L) => f[m] = <<>>
                   /\ m >= 1 /\ q[m].th = L => f[m] = s[m].ci
           A == {m \in 0..n : P(m)}
<1>0. n \in Nat /\ \A k \in 1..n : q[k] \in Frame
  BY LinkedAt
<1>a. f[0] = <<>>
  BY DEF AccSteps
<1>b. <<>> \in Seq(CI) /\ <<>> \o <<>> = <<>>
  BY EmptySeq, ConcatEmptySeq
<1> HIDE DEF n
<1>1. 0 \in A
  BY <1>0, <1>a
<1>2. ASSUME NEW m \in 0..n, m \in A, m < n PROVE m + 1 \in A
  <2> DEFINE x == q[m + 1]
  <2>0. m + 1 \in 1..n /\ (m + 1) - 1 = m /\ x \in Frame
    <3>1. m + 1 \in 1..n /\ (m + 1) - 1 = m
      <4> HIDE DEF A
      <4> QED
        BY <1>0, <1>2
    <3> QED
      BY <1>0, <3>1
  <2>1. CASE x.th /= L
    <3>1. f[m + 1] = f[m]
      BY <2>0, <2>1 DEF AccSteps, n
    <3>2. (\A k \in 1..(m + 1) : q[k].th /= L) => \A k \in 1..m : q[k].th /= L
      BY <1>0
    <3>3. P(m + 1)
      BY <1>2, <2>1, <3>1, <3>2
    <3> HIDE DEF P
    <3> QED
      BY <1>0, <2>0, <3>3
  <2>2. CASE x.th = L
    <3>1. f[m + 1] = f[m] \o Infos(x)
      BY <2>0, <2>2 DEF AccSteps, n
    <3>2. ~ \A k \in 1..(m + 1) : q[k].th /= L
      BY <1>0, <2>2
    <3>3. f[m + 1] = s[m + 1].ci
      <4>1. CASE m = 0
        <5>1. x = Base /\ s[1].ci = <<>>
          BY <4>1 DEF Linked
        <5>2. Infos(x) = <<>>
          BY <5>1 DEF Infos, Base
        <5> HIDE DEF x
        <5> QED
          BY <1>a, <1>b, <3>1, <4>1, <5>1, <5>2
      <4>2. CASE m >= 1 /\ x.f = "resume"
        <5>1. Link(s[m], q[m], q[m + 1], s[m + 1], E)
          BY <1>0, <1>2, <4>2 DEF Linked, n
        <5>2. s[m + 1].ci = <<>>
          BY <4>2, <5>1 DEF Link, Snap
        <5>3. Infos(x) = <<>>
          BY <2>0, <4>2, InfosTypes
        <5>4. \A j \in 1..m : q[j].th /= L
          BY <2>0, <2>2, <4>2 DEF Linked, n
        <5>5. f[m] = <<>>
          BY <1>2, <5>4
        <5> HIDE DEF x
        <5> QED
          BY <1>b, <3>1, <5>2, <5>3, <5>5
      <4>3. CASE m >= 1 /\ x.f /= "resume"
        <5>1. Link(s[m], q[m], q[m + 1], s[m + 1], E)
          BY <1>0, <1>2, <4>3 DEF Linked, n
        <5>2. s[m + 1].ci = s[m].ci \o Infos(x) /\ x.th = q[m].th
          BY <4>3, <5>1 DEF Link, Snap, Follows
        <5>3. f[m] = s[m].ci
          BY <1>2, <2>2, <4>3, <5>2
        <5> HIDE DEF x
        <5> QED
          BY <3>1, <5>2, <5>3
      <4> QED
        BY <1>0, <4>1, <4>2, <4>3
    <3>4. P(m + 1)
      BY <3>2, <3>3
    <3> HIDE DEF P
    <3> QED
      BY <1>0, <2>0, <3>4
  <2> QED
    BY <2>1, <2>2
<1> HIDE DEF A
<1>3. 0..n \subseteq A
  <2>1. \A m \in 0..n : m \in A /\ m < n => m + 1 \in A
    BY <1>2
  <2> HIDE DEF P
  <2> QED
    BY <1>0, <1>1, <2>1, Induction
<1>4. i \in A /\ i >= 1
  BY <1>0, <1>3 DEF n
<1> QED
  BY <1>4 DEF A

\* What the activations of other threads account for is nothing.
LEMMA OthersAccountNothing ==
    ASSUME NEW q \in Seq(Frame), NEW L, NEW f, AccSteps(f, q, L), NEW e \in 1..Len(q),
           \A k \in (e + 1)..Len(q) : q[k].th /= L
    PROVE  f[Len(q)] = f[e]
<1> DEFINE n == Len(q)
           d == n - e
           A == {m \in 0..d : f[e + m] = f[e]}
<1>0. n \in Nat /\ d \in Nat
  BY LenProperties
<1> HIDE DEF n
<1>1. 0 \in A
  <2>1. e + 0 = e
    BY <1>0
  <2> QED
    BY <1>0, <2>1
<1>2. ASSUME NEW m \in 0..d, m \in A, m < d PROVE m + 1 \in A
  <2>1. e + m + 1 \in 1..n /\ e + m + 1 \in (e + 1)..n /\ (e + m + 1) - 1 = e + m
        /\ e + (m + 1) = e + m + 1
    BY <1>0, <1>2 DEF n
  <2>2. q[e + m + 1].th /= L
    BY <2>1 DEF n
  <2>3. f[e + m + 1] = f[e + m]
    BY <2>1, <2>2 DEF AccSteps, n
  <2> QED
    BY <1>0, <1>2, <2>1, <2>3
<1> HIDE DEF A
<1>3. 0..d \subseteq A
  <2>1. \A m \in 0..d : m \in A /\ m < d => m + 1 \in A
    BY <1>2
  <2> HIDE DEF d
  <2> QED
    BY <1>0, <1>1, <2>1, Induction
<1>4. d \in A /\ e + d = n
  BY <1>0, <1>3
<1> QED
  BY <1>4 DEF A, n

\* The CallInfos of a thread on the C stack are those that its activations
\* account for.
LEMMA RunningAccounted ==
    ASSUME NEW E \in Nat \ {0}, NEW q, NEW T, Good(q, T, E), NEW L \in Thread,
           NEW i \in 1..Len(q), q[i].th = L
    PROVE  T[L].status = "ok" /\ T[L].ci = Accounted(q, L)
<1>1. q \in Seq(Frame) /\ Len(q) \in Nat
  BY LenProperties DEF Good
<1>2. q /= <<>>
  BY <1>1, EmptySeq
<1>3. PICK s \in Seq(Snapshot) :
          /\ Linked(q, s, E)
          /\ \A M \in Thread : (\E k \in 1..Len(q) : q[k].th = M) =>
                \E e \in 1..Len(q) :
                   /\ q[e].th = M /\ \A k \in (e + 1)..Len(q) : q[k].th /= M
                   /\ T[M].status = "ok" /\ View(T[M]) = s[e]
  BY <1>2, Stacked
<1>4. PICK e \in 1..Len(q) :
          /\ q[e].th = L /\ \A k \in (e + 1)..Len(q) : q[k].th /= L
          /\ T[L].status = "ok" /\ View(T[L]) = s[e]
  BY <1>3
<1>5. PICK f \in [0..Len(q) -> Seq(CI)] : AccSteps(f, q, L) /\ Accounted(q, L) = f[Len(q)]
  BY <1>1, AccountedRecursion
<1>6. f[e] = s[e].ci
  <2>1. Linked(q, s, E) /\ AccSteps(f, q, L)
    BY <1>3, <1>5
  <2>2. e \in 1..Len(q) /\ q[e].th = L
    BY <1>4
  <2>3. f \in [0..Len(q) -> Seq(CI)]
    BY <1>5
  <2> QED
    BY <2>1, <2>2, <2>3, CallInfosAccounted
<1>7. f[Len(q)] = f[e]
  <2>1. AccSteps(f, q, L) /\ \A k \in (e + 1)..Len(q) : q[k].th /= L
    BY <1>4, <1>5
  <2> QED
    BY <1>1, <2>1, OthersAccountNothing
<1>8. T[L].ci = s[e].ci
  BY <1>4 DEF View
<1> QED
  BY <1>4, <1>5, <1>6, <1>7, <1>8

\* The C stack and the stacks of CallInfos agree, after every return, error and
\* yield: for every program, any coroutines and limits.
THEOREM TwoStacksAgree == Spec => []StacksAgree
<1>1. Inv => StacksAgree
  <2> SUFFICES ASSUME Inv, NEW L \in Thread
               PROVE  /\ Active(L) => th[L].ci = Accounted(cs, L)
                      /\ th[L].status = "yield" =>
                            th[L].ci = Append([i \in 1..(Len(th[L].ci) - 1) |-> "lua"], "C")
    BY DEF StacksAgree
  <2> DEFINE E == ErrCCalls
  <2>1. E \in Nat \ {0} /\ Good(cs, th, E)
    BY LimitPositive DEF Inv
  <2> HIDE DEF E
  <2>2. DOMAIN cs = 1..Len(cs) /\ th[main].status = "ok" /\ Idles(cs, th)
    BY <2>1 DEF Good
  <2>3. Active(L) => th[L].status = "ok" /\ th[L].ci = Accounted(cs, L)
    BY <2>1, <2>2, RunningAccounted DEF Active
  <2>4. ASSUME th[L].status = "yield"
        PROVE  th[L].ci = Append([i \in 1..(Len(th[L].ci) - 1) |-> "lua"], "C")
    <3>1. L /= main /\ \A i \in 1..Len(cs) : cs[i].th /= L
      BY <2>2, <2>3, <2>4 DEF Active
    <3>2. Idle(th[L])
      BY <2>2, <3>1 DEF Idles, Thread
    <3> QED
      BY <2>4, <3>2 DEF Idle
  <2> QED
    BY <2>3, <2>4
<1> QED
  BY <1>1, Invariance, PTL
=============================================================================
