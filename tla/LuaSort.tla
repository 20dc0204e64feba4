------------------------------ MODULE LuaSort -------------------------------
(***************************************************************************)
(* table.sort of the Lua interpreter that Felt ships (src/src/lua/src/     *)
(* ltablib.c): the quicksort of auxsort, one step per comparison.  With    *)
(* the order "less" the values are numbers compared by <; with "any" a Lua *)
(* function answers, which may say anything at any time, or raise an       *)
(* error.  The slots before and after the array, which the loops may read, *)
(* hold nil, written 0.  A function that changes the table is left out.    *)
(***************************************************************************)
EXTENDS Integers, Sequences, FiniteSets

CONSTANTS Arrays,      \* the arrays sorted by <
          AnyArrays    \* the arrays sorted by a function

VARIABLES given,   \* the array as it was
          arr,     \* the table a, with the slots before and after the array
          order,   \* "less" or "any"
          pc,      \* "idle", "while", "ends", "low", "high", "up", "down", "done", "error"
          loc,     \* the locals of auxsort: the range l, u and the pointers i, j
          calls    \* the ranges the callers go on with

sortvars == <<given, arr, order, pc, loc, calls>>

nil == 0
Slots(s) == [k \in 0..(Len(s) + 1) |-> IF k \in DOMAIN s THEN s[k] ELSE nil]

\* A call of sort, whose range is the whole array, and no call at all.
SortCall(s, o) ==
  /\ given = s /\ arr = Slots(s) /\ order = o
  /\ pc = "while" /\ loc = [l |-> 1, u |-> Len(s), i |-> 0, j |-> 0] /\ calls = <<>>
SortIdle ==
  /\ given = <<>> /\ arr = Slots(<<>>) /\ order = "less"
  /\ pc = "idle" /\ loc = [l |-> 1, u |-> 0, i |-> 0, j |-> 0] /\ calls = <<>>

SortInit == (\E s \in Arrays : SortCall(s, "less")) \/ (\E s \in AnyArrays : SortCall(s, "any"))

\* sort_comp: the answers to "x < y?", each a slot, and whether it may raise an
\* error: numbers are not compared with nil.
Raises(x, y) == order = "any" \/ arr[x] = nil \/ arr[y] = nil
SortComp(x, y) == IF order = "any" THEN BOOLEAN
                  ELSE IF Raises(x, y) THEN {} ELSE {arr[x] < arr[y]}

\* set2: both slots are written with each other's value.
Set2(b, x, y) == [b EXCEPT ![x] = b[y], ![y] = b[x]]

\* An error leaves the table as it is.
SortError == pc' = "error" /\ UNCHANGED <<given, arr, order, loc, calls>>

\* The end of auxsort: the caller repeats its loop.
SortReturn ==
  /\ UNCHANGED <<given, order>>
  /\ IF calls = <<>> THEN pc' = "done" /\ UNCHANGED <<loc, calls>>
     ELSE /\ pc' = "while"
          /\ loc' = [loc EXCEPT !.l = calls[Len(calls)][1], !.u = calls[Len(calls)][2]]
          /\ calls' = SubSeq(calls, 1, Len(calls) - 1)

While ==
  /\ pc = "while"
  /\ IF loc.l < loc.u THEN pc' = "ends" /\ UNCHANGED <<given, arr, order, loc, calls>>
                      ELSE SortReturn /\ UNCHANGED arr

\* a[u] < a[l]?
Ends ==
  /\ pc = "ends"
  /\ \/ \E yes \in SortComp(loc.u, loc.l) :
          /\ arr' = IF yes THEN Set2(arr, loc.l, loc.u) ELSE arr
          /\ IF loc.u - loc.l = 1 THEN SortReturn
             ELSE /\ loc' = [loc EXCEPT !.i = (loc.l + loc.u) \div 2] /\ pc' = "low"
                  /\ UNCHANGED <<given, order, calls>>
     \/ Raises(loc.u, loc.l) /\ SortError

\* The three are in order: put the pivot in a[u-1], or stop if they are all.
Pivot(b) ==
  IF loc.u - loc.l = 2 THEN arr' = b /\ SortReturn
  ELSE /\ arr' = Set2(b, loc.i, loc.u - 1)
       /\ loc' = [loc EXCEPT !.i = loc.l, !.j = loc.u - 1]
       /\ pc' = "up"
       /\ UNCHANGED <<given, order, calls>>

\* a[i] < a[l]?
Low ==
  /\ pc = "low"
  /\ \/ TRUE \in SortComp(loc.i, loc.l) /\ Pivot(Set2(arr, loc.i, loc.l))
     \/ /\ FALSE \in SortComp(loc.i, loc.l)
        /\ pc' = "high" /\ UNCHANGED <<given, arr, order, loc, calls>>
     \/ Raises(loc.i, loc.l) /\ SortError

\* a[u] < a[i]?
High ==
  /\ pc = "high"
  /\ \/ \E yes \in SortComp(loc.u, loc.i) :
          Pivot(IF yes THEN Set2(arr, loc.i, loc.u) ELSE arr)
     \/ Raises(loc.u, loc.i) /\ SortError

\* Where the pivot is while the pointers move.
P == loc.u - 1

\* repeat ++i until a[i] >= P
Up ==
  /\ pc = "up"
  /\ \/ \E yes \in SortComp(loc.i + 1, P) :
          IF yes /\ loc.i + 1 > loc.u THEN SortError
          ELSE /\ loc' = [loc EXCEPT !.i = @ + 1]
               /\ pc' = IF yes THEN "up" ELSE "down"
               /\ UNCHANGED <<given, arr, order, calls>>
     \/ Raises(loc.i + 1, P) /\ SortError

\* Mutant: the second half starts one place too late.
SplitLate(x) ==
  /\ arr' = Set2(arr, loc.u - 1, x)
  /\ loc' = [loc EXCEPT !.u = x - 1]
  /\ calls' = Append(calls, <<x + 2, loc.u>>)
  /\ pc' = "while"
  /\ UNCHANGED <<given, order>>

\* The pivot goes between the halves; the smaller half is sorted by a call.
Split(x) ==
  LET low == <<loc.l, x - 1>>
      high == <<x + 1, loc.u>>
      lowFirst == x - loc.l < loc.u - x
      first == IF lowFirst THEN low ELSE high
  IN  /\ arr' = Set2(arr, loc.u - 1, x)
      /\ loc' = [loc EXCEPT !.l = first[1], !.u = first[2]]
      /\ calls' = Append(calls, IF lowFirst THEN high ELSE low)
      /\ pc' = "while"
      /\ UNCHANGED <<given, order>>

\* repeat --j until a[j] <= P
Down ==
  /\ pc = "down"
  /\ \/ \E yes \in SortComp(P, loc.j - 1) :
          IF yes /\ loc.j - 1 < loc.l THEN SortError
          ELSE IF yes
          THEN loc' = [loc EXCEPT !.j = @ - 1] /\ UNCHANGED <<given, arr, order, pc, calls>>
          ELSE IF loc.j - 1 < loc.i THEN Split(loc.i)
          ELSE /\ loc' = [loc EXCEPT !.j = @ - 1]
               /\ arr' = Set2(arr, loc.i, loc.j - 1)
               /\ pc' = "up"
               /\ UNCHANGED <<given, order, calls>>
     \/ Raises(P, loc.j - 1) /\ SortError

SortEnded == pc \in {"done", "error"} /\ UNCHANGED sortvars

SortNext == While \/ Ends \/ Low \/ High \/ Up \/ Down \/ SortEnded

SortSpec == SortInit /\ [][SortNext]_sortvars /\ WF_sortvars(SortNext)

-----------------------------------------------------------------------------
Count(s, v) == Cardinality({k \in DOMAIN s : s[k] = v})

Kept == \A v \in {arr[k] : k \in DOMAIN arr} \cup {given[k] : k \in DOMAIN given} :
          v # nil => Count(arr, v) = Count(given, v)
Ordered == \A k \in 1..Len(given) : k = 1 \/ arr[k - 1] <= arr[k]

\* Whatever the order function answers and wherever it raises its error,
\* auxsort only moves values: none is lost or doubled, though an inconsistent
\* function may have one moved to the slot after the array.  With < it always
\* ends, without an error, with the array in order and nothing beyond it.
SortsAndKeeps ==
  /\ [](pc # "idle" => Kept)
  /\ (pc = "while" /\ order = "less") ~>
       (pc = "done" /\ Ordered /\ arr[0] = nil /\ arr[Len(given) + 1] = nil)
=============================================================================
