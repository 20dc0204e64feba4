------------------------------ MODULE LuaCalls ------------------------------
(***************************************************************************)
(* Calls, errors and coroutines of the Lua interpreter (ldo.c, with parts  *)
(* of lvm.c, lapi.c, lbaselib.c and ldebug.c).  The server runs every      *)
(* request of a client in a pcall, and the class library runs iterators in *)
(* coroutines.                                                             *)
(*                                                                         *)
(* cs is the C stack: the activations of the C functions that matter, the  *)
(* innermost last.  Every thread has its own stack of CallInfos, which     *)
(* survives a yield; luaD_throw cuts the C stack down to the last          *)
(* luaD_pcall or lua_resume, which have to bring the CallInfos, the        *)
(* counters and the error function back in line.  Which function calls     *)
(* what, fails or yields is left to the program.                           *)
(***************************************************************************)
EXTENDS Integers, SequencesExt

CONSTANTS
    main,       \* the main thread
    Co,         \* coroutines
    Programs,   \* the coroutines and the C functions that a program uses, and
                \* its limit of nested C calls, LUAI_MAXCCALLS
    Slack,      \* how far it may be exceeded while an overflow is handled, an
                \* eighth of it
    MaxCalls,   \* LUAI_MAXCALLS
    BasicCI     \* BASIC_CI_SIZE

\* The C functions: plain may call anything, the others are of the library.
CFunction == {"plain", "pcall", "xpcall", "load", "resume", "wrap", "yield"}

ASSUME CallsAssumption ==
    /\ main \notin Co
    /\ Programs \subseteq [co : SUBSET Co, fns : SUBSET CFunction, ccalls : Nat \ {0}]
    /\ Slack \in Nat \ {0}
    /\ MaxCalls \in Nat /\ BasicCI \in 2..MaxCalls

Thread == Co \cup {main}

VARIABLES
    prog,   \* the program; it never changes
    cs,     \* the C stack
    th,     \* the threads
    failed  \* some lua_assert has failed

vars == <<prog, cs, th, failed>>

Callee == prog.fns \cup {"lua"}
MaxCCalls == prog.ccalls
ErrCCalls == prog.ccalls + Slack

(***************************************************************************)
(* The activations on the C stack.                                         *)
(*   call      luaD_call                                                   *)
(*   execute   luaV_execute, running n Lua functions                       *)
(*   C         a C function; done when all it has left to do is return     *)
(*   pcall     luaD_pcall, with what it has saved; ef is its error function*)
(*   parser    f_parser                                                    *)
(*   resume    lua_resume                                                  *)
(*   raise     luaD_throw, or luaG_errormsg for the status "run"           *)
(*   errormsg  luaG_errormsg, waiting for the error function               *)
(***************************************************************************)
CallFrame(L) == [f |-> "call", th |-> L]
Execute(L, n) == [f |-> "execute", th |-> L, n |-> n]
CFrame(L, fn) == [f |-> "C", th |-> L, fn |-> fn, done |-> FALSE]
Parser(L) == [f |-> "parser", th |-> L]
ResumeFrame(L) == [f |-> "resume", th |-> L]
Raise(L, status) == [f |-> "raise", th |-> L, status |-> status]
ErrorMsg(L) == [f |-> "errormsg", th |-> L]

NewThread(body) ==
    [status |-> "ok", body |-> body, ci |-> <<>>, size_ci |-> BasicCI,
     nCcalls |-> 0, baseCcalls |-> 0, errfunc |-> FALSE]

Top == Last(cs)
L0 == Top.th

\* The frames of the running thread t, and its CallInfos and counters, as a
\* state to work on.
Here == [cs |-> cs, t |-> th[L0]]

Goto(s, ok) ==
    /\ cs' = s.cs
    /\ th' = [th EXCEPT ![L0] = s.t]
    /\ failed' = (failed \/ ~ok)

-----------------------------------------------------------------------------
(***************************************************************************)
(* luaD_precall and luaD_call.                                             *)
(***************************************************************************)

(***************************************************************************)
(* inc_ci and growCI.  Growing past the limit is an error, with the grown  *)
(* CallInfos left for the error function.  then is the C stack on success. *)
(***************************************************************************)
IncCI(s, L, kind, then) ==
    LET entered == [s EXCEPT !.t.ci = Append(@, kind), !.cs = then]
        size == 2 * s.t.size_ci
    IN  IF Len(s.t.ci) < s.t.size_ci - 1 THEN entered
        ELSE IF s.t.size_ci > MaxCalls THEN [s EXCEPT !.cs = Append(@, Raise(L, "err"))]
        ELSE IF size > MaxCalls
             THEN [s EXCEPT !.t.size_ci = size, !.cs = Append(@, Raise(L, "run"))]
        ELSE [entered EXCEPT !.t.size_ci = size]

\* The activation of a function that luaD_call calls.
Activation(L, callee) == IF callee = "lua" THEN Execute(L, 1) ELSE CFrame(L, callee)
Kind(callee) == IF callee = "lua" THEN "lua" ELSE "C"

\* luaD_call
DCall(s, L, callee) ==
    LET n == s.t.nCcalls + 1
        called == [s EXCEPT !.t.nCcalls = n, !.cs = Append(@, CallFrame(L))]
    IN  IF n = MaxCCalls THEN [called EXCEPT !.cs = Append(@, Raise(L, "run"))]
        ELSE IF n >= ErrCCalls THEN [called EXCEPT !.cs = Append(@, Raise(L, "err"))]
        ELSE IncCI(called, L, Kind(callee), Append(called.cs, Activation(L, callee)))

\* OP_CALL of a Lua function: the same luaV_execute goes on with it.
CallLua ==
    /\ Top.f = "execute"
    /\ Goto(IncCI(Here, L0, "lua", Append(Front(cs), Execute(L0, Top.n + 1))), TRUE)

\* OP_CALL of a C function.
CallC(fn) ==
    /\ Top.f = "execute"
    /\ Goto(IncCI(Here, L0, "C", Append(cs, CFrame(L0, fn))), TRUE)

\* A metamethod, a finalizer, lua_call, or the reader function of load.
Call(callee) ==
    /\ Top.f \in {"execute", "parser"} \/ (Top.f = "C" /\ Top.fn = "plain")
    /\ Goto(DCall(Here, L0, callee), TRUE)

PopFrame(s) == [s EXCEPT !.cs = Front(@)]

\* OP_RETURN and luaD_poscall: nexeccalls tells whether the caller runs here.
ReturnLua ==
    /\ Top.f = "execute"
    /\ Goto([Here EXCEPT !.t.ci = Front(@),
                         !.cs = IF Top.n = 1 THEN Front(cs)
                                ELSE Append(Front(cs), Execute(L0, Top.n - 1))],
            Last(th[L0].ci) = "lua")

\* A C function returns, and luaD_poscall.
ReturnC ==
    /\ Top.f = "C" /\ (Top.done \/ Top.fn = "plain")
    /\ Goto([Here EXCEPT !.t.ci = Front(@), !.cs = Front(@)], Last(th[L0].ci) = "C")

\* luaD_call returns.
CallReturns ==
    /\ Top.f = "call"
    /\ Goto([PopFrame(Here) EXCEPT !.t.nCcalls = @ - 1], TRUE)

-----------------------------------------------------------------------------
(***************************************************************************)
(* Protected calls and errors.                                             *)
(***************************************************************************)

\* The rest of a C function that has called lua_pcall or lua_resume: only wrap
\* makes an error of its failure.
Finish(frames, ok) ==
    IF frames = <<>> THEN <<>>
    ELSE LET below == Last(frames)
             done == Append(Front(frames), [below EXCEPT !.done = TRUE])
         IN  IF below.fn = "wrap" /\ ~ok THEN Append(done, Raise(below.th, "run")) ELSE done

\* luaD_pcall, before it calls.
Protect(s, L, ef) ==
    [s EXCEPT !.cs = Append(@, [f |-> "pcall", th |-> L, ef |-> ef, nCcalls |-> s.t.nCcalls,
                                ci |-> Len(s.t.ci), errfunc |-> s.t.errfunc]),
              !.t.errfunc = ef]

\* pcall and xpcall
DoPcall(callee) ==
    /\ Top.f = "C" /\ Top.fn \in {"pcall", "xpcall"} /\ ~Top.done
    /\ Goto(DCall(Protect(Here, L0, Top.fn = "xpcall"), L0, callee), TRUE)

\* load: the parser runs under luaD_pcall with the error function there is.
DoLoad ==
    /\ Top.f = "C" /\ Top.fn = "load" /\ ~Top.done
    /\ LET s == Protect(Here, L0, th[L0].errfunc)
       IN  Goto([s EXCEPT !.cs = Append(@, Parser(L0))], TRUE)

ParserReturns == Top.f = "parser" /\ Goto(PopFrame(Here), TRUE)

\* luaD_pcall returns normally.
PcallReturns ==
    /\ Top.f = "pcall"
    /\ Goto([Here EXCEPT !.cs = Finish(Front(@), TRUE), !.t.errfunc = Top.errfunc], TRUE)

\* restore_stack_limit
RestoreLimit(t) ==
    IF t.size_ci > MaxCalls /\ Len(t.ci) + 1 < MaxCalls THEN [t EXCEPT !.size_ci = MaxCalls] ELSE t

\* Mutant: the count of C calls is left as it was at the error.
CatchUncounted(t, frame) ==
    RestoreLimit([t EXCEPT !.ci = SubSeq(@, 1, frame.ci), !.errfunc = frame.errfunc])

\* Mutant: the error function of the failed call stays.
CatchHandler(t, frame) ==
    RestoreLimit([t EXCEPT !.nCcalls = frame.nCcalls, !.ci = SubSeq(@, 1, frame.ci)])

\* What luaD_pcall puts back after an error.
Catch(t, frame) ==
    RestoreLimit([t EXCEPT !.nCcalls = frame.nCcalls, !.ci = SubSeq(@, 1, frame.ci),
                           !.errfunc = frame.errfunc])

\* luaD_throw: the innermost luaD_pcall or lua_resume of the thread gets it,
\* and a coroutine is dead.
Throw ==
    LET i == SelectLastInSeq(cs, LAMBDA x : x.f \in {"pcall", "resume"} /\ x.th = L0)
        frame == cs[i]
        below == SubSeq(cs, 1, i - 1)
    IN  Goto([cs |-> Finish(below, FALSE),
              t |-> IF frame.f = "pcall" THEN Catch(th[L0], frame)
                    ELSE [th[L0] EXCEPT !.status = "err", !.nCcalls = @ - 1]],
             TRUE)

\* lua_error or luaG_runerror, a failed allocation, or an error of the parser
Fail(status) ==
    /\ \/ status = "run" /\ Top.f \in {"execute", "parser"}
       \/ status = "run" /\ Top.f = "C" /\ Top.fn = "plain"
       \/ status = "mem" /\ Top.f \in {"execute", "parser"}
       \/ status = "syntax" /\ Top.f = "parser"
    /\ Goto([Here EXCEPT !.cs = Append(@, Raise(L0, status))], TRUE)

\* luaG_errormsg calls the error function first.
CallHandler(callee) ==
    /\ Top.f = "raise" /\ Top.status = "run" /\ th[L0].errfunc
    /\ Goto(DCall([PopFrame(Here) EXCEPT !.cs = Append(@, ErrorMsg(L0))], L0, callee), TRUE)

Thrown ==
    /\ \/ Top.f = "raise" /\ ~(Top.status = "run" /\ th[L0].errfunc)
       \/ Top.f = "errormsg"
    /\ Throw

-----------------------------------------------------------------------------
(***************************************************************************)
(* Coroutines.                                                             *)
(***************************************************************************)

\* Mutant: a coroutine that has resumed another counts as suspended.
CoStatusNormal(L, co) ==
    CASE L = co -> "running"
      [] L /= co /\ th[co].status = "yield" -> "suspended"
      [] L /= co /\ th[co].status = "ok" ->
            IF th[co].ci /= <<>> \/ th[co].body THEN "suspended" ELSE "dead"
      [] OTHER -> "dead"

\* costatus, asked by thread L.  body: the function is still on the stack.
CoStatus(L, co) ==
    CASE L = co -> "running"
      [] L /= co /\ th[co].status = "yield" -> "suspended"
      [] L /= co /\ th[co].status = "ok" ->
            IF th[co].ci /= <<>> THEN "normal" ELSE IF th[co].body THEN "suspended" ELSE "dead"
      [] OTHER -> "dead"

\* coroutine.create; one that is dead may have been collected.
Create(co) ==
    /\ Top.f = "execute" /\ CoStatus(L0, co) = "dead"
    /\ th' = [th EXCEPT ![co] = NewThread(TRUE)]
    /\ UNCHANGED <<cs, failed>>

(***************************************************************************)
(* auxresume and lua_resume.  lua_setlevel hands over the number of nested *)
(* C calls.  A coroutine that has yielded finishes the call of yield, and  *)
(* luaV_execute goes on with all its Lua functions.                        *)
(***************************************************************************)
Refuse == cs' = Finish(cs, FALSE) /\ UNCHANGED <<th, failed>>

LuaResume(co) ==
    LET n == th[L0].nCcalls + 1
        t == [th[co] EXCEPT !.nCcalls = n, !.baseCcalls = n, !.status = "ok", !.body = FALSE]
        s == [cs |-> Append(cs, ResumeFrame(co)), t |-> t]
        r == IF th[co].status = "ok"
             THEN IncCI(s, co, "lua", Append(s.cs, Execute(co, 1)))
             ELSE [s EXCEPT !.t.ci = Front(@), !.cs = Append(@, Execute(co, Len(t.ci) - 1))]
    IN  /\ cs' = r.cs
        /\ th' = [th EXCEPT ![co] = r.t]
        /\ failed' = (failed \/ th[co].errfunc
                        \/ (th[co].status = "yield" /\ Last(th[co].ci) /= "C"))

DoResume(co) ==
    /\ Top.f = "C" /\ Top.fn \in {"resume", "wrap"} /\ ~Top.done
    /\ IF CoStatus(L0, co) /= "suspended" \/ th[L0].nCcalls >= MaxCCalls
       THEN Refuse ELSE LuaResume(co)

\* lua_resume returns; i is the place of its frame.
ReturnFrom(i, status) ==
    Goto([Here EXCEPT !.cs = Finish(SubSeq(@, 1, i - 1), TRUE),
                      !.t.nCcalls = @ - 1, !.t.status = status],
         th[L0].nCcalls = th[L0].baseCcalls)

\* The end of a coroutine.
ResumeReturns == Top.f = "resume" /\ ReturnFrom(Len(cs), "ok")

\* Mutant: a yield is allowed one C call too deep.
MayYieldDeep == th[L0].nCcalls <= th[L0].baseCcalls + 1

MayYield == th[L0].nCcalls <= th[L0].baseCcalls

\* lua_yield: luaV_execute and lua_resume return, and the CallInfo of yield
\* stays.
DoYield ==
    /\ Top.f = "C" /\ Top.fn = "yield"
    /\ IF ~MayYield THEN Goto([Here EXCEPT !.cs = Append(@, Raise(L0, "run"))], TRUE)
       ELSE LET i == SelectLastInSeq(cs, LAMBDA x : x.f = "resume")
            IN  ReturnFrom(i, "yield")

-----------------------------------------------------------------------------
\* checkstacksizes: the collector shrinks what is little used.
Shrink(L) ==
    LET t == th[L]
    IN  /\ t.size_ci <= MaxCalls /\ 4 * Len(t.ci) < t.size_ci /\ 2 * BasicCI < t.size_ci
        /\ th' = [th EXCEPT ![L].size_ci = @ \div 2]
        /\ UNCHANGED <<cs, failed>>

\* lua_cpcall of pmain, of the stand-alone interpreter
Init ==
    /\ prog \in Programs
    /\ cs = <<[f |-> "pcall", th |-> main, ef |-> FALSE, nCcalls |-> 0, ci |-> 0, errfunc |-> FALSE],
              CallFrame(main), CFrame(main, "plain")>>
    /\ th = [L \in Thread |-> IF L = main THEN [NewThread(FALSE) EXCEPT !.nCcalls = 1, !.ci = <<"C">>]
                              ELSE NewThread(FALSE)]
    /\ failed = FALSE

\* The interpreter has ended.
Ended == cs = <<>> /\ UNCHANGED vars

Step ==
    \/ CallLua \/ ReturnLua \/ ReturnC \/ CallReturns
    \/ \E fn \in prog.fns : CallC(fn)
    \/ \E callee \in Callee : Call(callee) \/ DoPcall(callee)
    \/ \E callee \in {"lua", "plain"} : CallHandler(callee)
    \/ DoLoad \/ ParserReturns \/ PcallReturns
    \/ \E status \in {"run", "mem", "syntax"} : Fail(status)
    \/ Thrown
    \/ \E co \in prog.co : Create(co) \/ DoResume(co)
    \/ ResumeReturns \/ DoYield
    \/ \E L \in Thread : Shrink(L)

Next == (cs /= <<>> /\ Step /\ UNCHANGED prog) \/ Ended

Spec == Init /\ [][Next]_vars

-----------------------------------------------------------------------------
(***************************************************************************)
(* Properties.                                                             *)
(***************************************************************************)

Active(L) == \E i \in DOMAIN cs : cs[i].th = L

\* The CallInfos an activation accounts for.
Infos(x) ==
    CASE x.f = "execute" -> [i \in 1..x.n |-> "lua"]
      [] x.f = "C" -> <<"C">>
      [] OTHER -> <<>>

\* The CallInfos that the activations of thread L on the C stack q account for.
Accounted(q, L) ==
    LET acc[i \in 0..Len(q)] ==
            IF i = 0 THEN <<>>
            ELSE IF q[i].th = L THEN acc[i - 1] \o Infos(q[i]) ELSE acc[i - 1]
    IN  acc[Len(q)]

(***************************************************************************)
(* The two stacks agree: the CallInfos of a running thread are those of    *)
(* its activations on the C stack, after every return, error and yield;    *)
(* and those of a suspended coroutine are Lua functions, without a C       *)
(* function that could never be continued, and the yield.                  *)
(***************************************************************************)
StacksAgree ==
    \A L \in Thread :
        /\ Active(L) => th[L].ci = Accounted(cs, L)
        /\ th[L].status = "yield" =>
              th[L].ci = Append([i \in 1..(Len(th[L].ci) - 1) |-> "lua"], "C")

(***************************************************************************)
(* The count of nested C calls of the running thread is the number of      *)
(* luaD_call and lua_resume activations there are, in whatever thread, so  *)
(* that the limit protects the C stack, and no long sequence of calls and  *)
(* errors uses it up.                                                      *)
(***************************************************************************)
CCallsCounted ==
    cs /= <<>> =>
        LET nested == {i \in DOMAIN cs : cs[i].f \in {"call", "resume"}}
        IN  th[L0].nCcalls = Cardinality(nested) /\ Cardinality(nested) <= ErrCCalls

(***************************************************************************)
(* The error function is that of the innermost protected call, and the     *)
(* CallInfos never outgrow their array, which has grown past the limit     *)
(* only for the handling of an overflow.                                   *)
(***************************************************************************)
HandlersNest ==
    \A L \in Thread : Active(L) =>
        LET protected == {i \in DOMAIN cs : cs[i].f = "pcall" /\ cs[i].th = L}
        IN  /\ th[L].errfunc <=> \E i \in protected : cs[i].ef /\ \A j \in protected : j <= i
            /\ Len(th[L].ci) < th[L].size_ci /\ th[L].size_ci <= 2 * MaxCalls

(***************************************************************************)
(* A coroutine is on the C stack at most once, and its status says whether *)
(* it is: no suspended or dead one is running.  The assertions of ldo.c    *)
(* hold.                                                                   *)
(***************************************************************************)
StatusTrue ==
    /\ ~failed
    /\ cs /= <<>> => \A co \in Co :
          /\ \A i, j \in {k \in DOMAIN cs : cs[k].f = "resume" /\ cs[k].th = co} : i = j
          /\ CoStatus(L0, co) \in {"running", "normal"} <=> Active(co)
=============================================================================
