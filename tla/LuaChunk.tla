------------------------------ MODULE LuaChunk ------------------------------
(***************************************************************************)
(* Precompiled chunks of the Lua interpreter that Felt ships: a function   *)
(* is written with ldump.c and read back with lundump.c.  A chunk is a     *)
(* sequence of items: the header, characters, integers, sizes, numbers,    *)
(* the letters of strings (a string is one letter here, and its end) and    *)
(* instructions.                                                           *)
(*                                                                         *)
(* A reader holds the items left and the first error; a rule that reads    *)
(* something returns the reader and the value [s, v].  Left out: the line  *)
(* numbers and the names of the locals, and a writer that fails.           *)
(***************************************************************************)
EXTENDS LuaParser, SequencesExt

CONSTANT MaxDepth  \* nesting of functions that the reader allows; LUAI_MAXCCALLS

ASSUME DepthAssumption == MaxDepth \in Nat \ {0}

NULL == "NULL"

LUAC_VERSION == 81
LUA_TNIL == 0
LUA_TBOOLEAN == 1
LUA_TNUMBER == 3
LUA_TSTRING == 4

(* Signature, version, format and sizes: the same for every chunk of a build. *)
luaU_header == <<LUAC_VERSION>>

-----------------------------------------------------------------------------
(* Writing. *)

DumpString(s) == IF s = NULL THEN <<0>> ELSE <<2, s, "end">>

DumpVector(items) == <<Len(items)>> \o items

DumpConstant(o) ==
  CASE o[1] = "nil" -> <<LUA_TNIL>>
    [] o[1] = "bool" -> <<LUA_TBOOLEAN, IF o[2] THEN 1 ELSE 0>>
    [] o[1] = "num" -> <<LUA_TNUMBER, o[2]>>
    [] o[1] = "str" -> <<LUA_TSTRING>> \o DumpString(o[2])

RECURSIVE DumpFunction(_, _, _)

DumpAll(seqs) == FoldLeft(LAMBDA x, y : x \o y, <<Len(seqs)>>, seqs)

DumpConstants(f, strip) ==
  DumpAll([i \in DOMAIN f.k |-> DumpConstant(f.k[i])])
  \o DumpAll([i \in DOMAIN f.p |-> DumpFunction(f.p[i], f.source, strip)])

DumpDebug(f, strip) ==
  DumpAll(IF strip THEN <<>> ELSE [i \in DOMAIN f.upvalues |-> DumpString(f.upvalues[i])])

DumpFunction(f, p, strip) ==
  DumpString(IF f.source = p \/ strip THEN NULL ELSE f.source)
  \o <<f.nups, f.numparams, f.vararg, f.maxstack>>
  \o DumpVector(f.code) \o DumpConstants(f, strip) \o DumpDebug(f, strip)

luaU_dump(f, strip) == luaU_header \o DumpFunction(f, NULL, strip)

-----------------------------------------------------------------------------
(* Reading. *)

Rd(s, v) == [s |-> s, v |-> v]
error(S, why) == IF S.err = "" THEN [S EXCEPT !.err = why] ELSE S

LoadBlock(S, n) ==
  IF S.err # "" \/ Len(S.z) < n THEN Rd(error(S, "unexpected end"), <<>>)
  ELSE Rd([S EXCEPT !.z = SubSeq(@, n + 1, Len(@))], SubSeq(S.z, 1, n))

(* Mutant: what luaZ_read could not read is taken for a zero. *)
LoadZero(S) == IF S.err # "" \/ S.z = <<>> THEN Rd(S, 0) ELSE Rd([S EXCEPT !.z = Tail(@)], S.z[1])

(* One character, integer or number; nothing is done with it after an error. *)
LoadVar(S) == LET r == LoadBlock(S, 1)
              IN Rd(r.s, IF r.s.err = "" THEN r.v[1] ELSE 0)

LoadString(S) ==
  LET size == LoadVar(S)
      r == LoadBlock(size.s, size.v)
  IN IF size.v = 0 THEN Rd(size.s, NULL)
     ELSE Rd(r.s, IF r.s.err = "" THEN r.v[1] ELSE NULL)

LoadCode(S) == LET n == LoadVar(S) IN LoadBlock(n.s, n.v)

(* n times what Load reads. *)
LoadTimes(S, n, Load(_)) ==
  FoldLeft(LAMBDA r, i : LET x == Load(r.s)
                         IN IF r.s.err # "" THEN r ELSE Rd(x.s, Append(r.v, x.v)),
           Rd(S, <<>>), [i \in 1..n |-> i])

LoadConstant(S) ==
  LET t == LoadVar(S)
      x == LoadVar(t.s)
      s == LoadString(t.s)
  IN CASE t.v = LUA_TNIL -> Rd(t.s, Nil)
       [] t.v = LUA_TBOOLEAN -> Rd(x.s, Bool(x.v # 0))
       [] t.v = LUA_TNUMBER -> Rd(x.s, Num(x.v))
       [] t.v = LUA_TSTRING -> Rd(s.s, Str(s.v))
       [] OTHER -> Rd(error(t.s, "bad constant"), Nil)

RECURSIVE LoadFunction(_, _, _)
LoadFunction(S, p, depth) ==
  LET source == LoadString(S)
      src == IF source.v = NULL THEN p ELSE source.v
      head == LoadBlock(source.s, 4)
      code == LoadCode(head.s)
      nk == LoadVar(code.s)
      k == LoadTimes(nk.s, nk.v, LoadConstant)
      np == LoadVar(k.s)
      protos == LoadTimes(np.s, np.v, LAMBDA x : LoadFunction(x, src, depth + 1))
      nu == LoadVar(protos.s)
      ups == LoadTimes(nu.s, nu.v, LoadString)
      f == [source |-> src, nups |-> head.v[1], numparams |-> head.v[2],
            vararg |-> head.v[3], maxstack |-> head.v[4], code |-> code.v, k |-> k.v,
            p |-> protos.v, upvalues |-> ups.v]
  IN IF depth > MaxDepth THEN Rd(error(S, "code too deep"), <<>>)
     ELSE IF ups.s.err # "" THEN Rd(ups.s, <<>>)
     ELSE Rd(IF luaG_checkcode(f) THEN ups.s ELSE error(ups.s, "bad code"), f)

LoadHeader(S) == LET h == LoadBlock(S, 1)
                 IN IF h.v = luaU_header THEN h.s ELSE error(h.s, "bad header")

(* What lua_load makes of a chunk, in the form of luaY_parser's result. *)
luaU_undump(binary) ==
  LET r == LoadFunction(LoadHeader([z |-> binary, err |-> ""]), "=?", 1)
  IN IF r.s.err # "" THEN [err |-> r.s.err, ok |-> TRUE]
     ELSE [err |-> "", ok |-> TRUE, proto |-> r.v]
=============================================================================
