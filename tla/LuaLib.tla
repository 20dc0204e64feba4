------------------------------- MODULE LuaLib -------------------------------
(***************************************************************************)
(* The library functions of the Lua interpreter that are modelled: pattern *)
(* matching (LuaPattern) and table.sort (LuaSort).  A behaviour is one     *)
(* call of one of them; nothing else runs meanwhile.                       *)
(***************************************************************************)
EXTENDS LuaPattern, LuaSort

libvars == <<call, status, src, n, out, given, arr, order, pc, loc, calls>>

\* No string function is called.
NoCall == call = [f |-> "none"] /\ status = "idle" /\ src = 0 /\ n = 0 /\ out = <<>>

LibInit == (Init /\ SortIdle) \/ (NoCall /\ SortInit)

LibNext == \/ Next /\ UNCHANGED sortvars
           \/ SortNext /\ UNCHANGED vars

\* A function that was called runs: the interpreter has nothing else to do.
LibSpec == LibInit /\ [][LibNext]_libvars /\ WF_libvars(SortNext /\ UNCHANGED vars)
=============================================================================
