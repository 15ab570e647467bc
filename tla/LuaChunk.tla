------------------------------ MODULE LuaChunk ------------------------------
(***************************************************************************)
(* Precompiled functions and their checker.  luaG_checkcode of ldebug.c is *)
(* a symbolic execution of one function that accepts or refuses its        *)
(* instructions: the parser asserts that it accepts every function just    *)
(* compiled, and a binary chunk may only be run when it accepts each of    *)
(* its functions.  ldump.c writes a function, lundump.c reads it back      *)
(* through the buffered stream of lzio.c, whose reader hands over pieces   *)
(* of any size, and which may end anywhere.                                *)
(*                                                                         *)
(* Checked(pt, pc) is what one round of the loop demands of instruction    *)
(* pc, Skip(pt, pc) the words the loop passes over after it.  The checker  *)
(* is modelled as luaG_checkcode calls it: over the whole function and     *)
(* following no register.                                                  *)
(*                                                                         *)
(* A byte is a record [of, i, n]: the i-th of the n bytes of a value.  A   *)
(* value that is read from bytes that are not exactly its own is Garbage.  *)
(* A function is one of LuaParser with its debug information: source,      *)
(* lines, local variables and names of upvalues.                           *)
(***************************************************************************)
EXTENDS LuaParser

-----------------------------------------------------------------------------
(* The checker. *)

\* luaP_opmodes: test, the arguments B and C, the format.
Mode(t, b, c, fmt) == [t |-> t, b |-> b, c |-> c, fmt |-> fmt]
OpModes ==
  [op \in ToSet(OpNames) |->
     CASE op \in {"MOVE", "LOADNIL", "UNM", "NOT", "LEN"} -> Mode(0, "R", "N", "ABC")
       [] op = "LOADK" -> Mode(0, "K", "N", "ABx")
       [] op \in {"LOADBOOL", "NEWTABLE", "CALL", "TAILCALL"} -> Mode(0, "U", "U", "ABC")
       [] op \in {"GETUPVAL", "VARARG"} -> Mode(0, "U", "N", "ABC")
       [] op = "GETGLOBAL" -> Mode(0, "K", "N", "ABx")
       [] op \in {"GETTABLE", "SELF"} -> Mode(0, "R", "K", "ABC")
       [] op = "SETGLOBAL" -> Mode(0, "K", "N", "ABx")
       [] op \in {"SETUPVAL", "RETURN"} -> Mode(0, "U", "N", "ABC")
       [] op = "SETTABLE" -> Mode(0, "K", "K", "ABC")
       [] op \in {"ADD", "SUB", "MUL", "DIV", "MOD", "POW"} -> Mode(0, "K", "K", "ABC")
       [] op = "CONCAT" -> Mode(0, "R", "R", "ABC")
       [] op = "JMP" -> Mode(0, "R", "N", "AsBx")
       [] op \in {"EQ", "LT", "LE"} -> Mode(1, "K", "K", "ABC")
       [] op \in {"TEST", "TESTSET"} -> Mode(1, "R", "U", "ABC")
       [] op \in {"FORLOOP", "FORPREP"} -> Mode(0, "R", "N", "AsBx")
       [] op = "TFORLOOP" -> Mode(1, "N", "U", "ABC")
       [] op = "SETLIST" -> Mode(0, "U", "U", "ABC")
       [] op = "CLOSE" -> Mode(0, "N", "N", "ABC")
       [] op = "CLOSURE" -> Mode(0, "U", "N", "ABx")]

Size(pt) == Len(pt.code)
Instr(pt, pc) == pt.code[pc + 1]
IsReg(pt, r) == r < pt.maxstack
TakesOpen(x) == x.op \in {"CALL", "TAILCALL", "RETURN", "SETLIST"} /\ x.b = 0

PreCheck(pt) ==
  /\ pt.maxstack <= MaxStack
  /\ pt.numparams + (IF "hasarg" \in pt.vararg THEN 1 ELSE 0) <= pt.maxstack
  /\ "needsarg" \in pt.vararg => "hasarg" \in pt.vararg
  /\ Size(pt) > 0 /\ Instr(pt, Size(pt) - 1).op = "RETURN"

ArgMode(pt, r, mode) ==
  CASE mode = "N" -> r = 0
    [] mode = "U" -> TRUE
    [] mode = "R" -> IsReg(pt, r)
    [] mode = "K" -> IF IsK(r) THEN IndexK(r) < Len(pt.k) ELSE IsReg(pt, r)

\* A jump stays in the function and does not land on the count of a SETLIST.
Target(pt, dest) ==
  /\ dest \in 0 .. Size(pt) - 1
  /\ dest > 0 => ~(Instr(pt, dest - 1).op = "SETLIST" /\ Instr(pt, dest - 1).c = 0)

Arguments(pt, pc, x) ==
  LET m == OpModes[x.op]
  IN CASE m.fmt = "ABC" -> ArgMode(pt, x.b, m.b) /\ ArgMode(pt, x.c, m.c)
       [] m.fmt = "ABx" -> m.b = "K" => x.b < Len(pt.k)
       [] m.fmt = "AsBx" -> m.b = "R" => Target(pt, pc + 1 + x.b)

Special(pt, pc, x) ==
  CASE x.op = "LOADBOOL" -> x.c = 0 \/ pc + 2 < Size(pt)
    [] x.op \in {"GETUPVAL", "SETUPVAL"} -> x.b < pt.nups
    [] x.op \in {"GETGLOBAL", "SETGLOBAL"} -> pt.k[x.b + 1].t = "str"
    [] x.op = "SELF" -> IsReg(pt, x.a + 1)
    [] x.op = "CONCAT" -> x.b < x.c
    [] x.op = "TFORLOOP" -> x.c >= 1 /\ IsReg(pt, x.a + 2 + x.c)
    [] x.op \in {"FORLOOP", "FORPREP"} -> IsReg(pt, x.a + 3)
    [] x.op \in {"CALL", "TAILCALL"} ->
         /\ x.b # 0 => IsReg(pt, x.a + x.b - 1)
         /\ x.c = 0 => TakesOpen(Instr(pt, pc + 1))
         /\ x.c > 1 => IsReg(pt, x.a + x.c - 2)
    [] x.op = "RETURN" -> x.b > 1 => IsReg(pt, x.a + x.b - 2)
    [] x.op = "SETLIST" -> x.b > 0 => IsReg(pt, x.a + x.b)
    [] x.op = "CLOSURE" ->
         /\ x.b < Len(pt.p) /\ pc + pt.p[x.b + 1].nups < Size(pt)
         /\ \A n \in 1 .. pt.p[x.b + 1].nups : Instr(pt, pc + n).op \in {"GETUPVAL", "MOVE"}
    [] x.op = "VARARG" ->
         /\ "isvararg" \in pt.vararg /\ "needsarg" \notin pt.vararg
         /\ x.b = 0 => TakesOpen(Instr(pt, pc + 1))
         /\ IsReg(pt, x.a + x.b - 2)
    [] OTHER -> TRUE

Checked(pt, pc) ==
  LET x == Instr(pt, pc)
  IN /\ x.op \in DOMAIN OpModes
     /\ IsReg(pt, x.a)
     /\ Arguments(pt, pc, x)
     /\ OpModes[x.op].t = 1 => pc + 2 < Size(pt) /\ Instr(pt, pc + 1).op = "JMP"
     /\ Special(pt, pc, x)
Skip(pt, pc) == IF Instr(pt, pc).op = "SETLIST" /\ Instr(pt, pc).c = 0 THEN 1 ELSE 0

RECURSIVE SymbExec(_, _)
SymbExec(pt, pc) == pc < Size(pt) => Checked(pt, pc) /\ SymbExec(pt, pc + 1 + Skip(pt, pc))
CheckCode(pt) == PreCheck(pt) /\ SymbExec(pt, 0)

\* A function and the functions in it.
RECURSIVE AllProtos(_)
AllProtos(pt) == {pt} \cup UNION {AllProtos(pt.p[n]) : n \in DOMAIN pt.p}

-----------------------------------------------------------------------------
(* Bytes. *)

NULL == "NULL"
IntSize == 2      \* of int, size_t, lua_Number and Instruction alike
Bytes(v, n) == [i \in 1 .. n |-> [of |-> v, i |-> i, n |-> n]]
Garbage == "garbage"
Value(b) == IF \A i \in DOMAIN b : b[i].i = i /\ b[i].n = Len(b) THEN b[1].of ELSE Garbage

-----------------------------------------------------------------------------
(* Writing.  D: the blocks written, and what the writer answers to a block. *)

DumpBlock(d, b) ==
  IF d.status # 0 THEN d
  ELSE [d EXCEPT !.calls = @ + 1,
                 !.status = IF d.calls + 1 = d.failat THEN 1 ELSE 0,
                 !.out = IF d.calls + 1 = d.failat THEN @ ELSE @ \o b]
DumpChar(d, x) == DumpBlock(d, Bytes(x, 1))
DumpInt(d, x) == DumpBlock(d, Bytes(x, IntSize))
DumpEach(d, s, Dump(_, _)) == FoldLeft(Dump, DumpInt(d, Len(s)), s)
\* A string has a 0 at its end; one that is not there has the size 0.
DumpString(d, s) ==
  IF s = NULL THEN DumpInt(d, 0) ELSE LET n == 2 IN DumpBlock(DumpInt(d, n), Bytes(s, n))
\* A vector is one block.
DumpVector(d, s) ==
  DumpBlock(DumpInt(d, Len(s)), FlattenSeq([i \in DOMAIN s |-> Bytes(s[i], IntSize)]))

DumpConstant(d, c) ==
  LET t == DumpChar(d, c.t)
  IN CASE c.t = "nil" -> t
       [] c.t = "bool" -> DumpChar(t, c.n)
       [] c.t = "num" -> DumpInt(t, c.n)
       [] c.t = "str" -> DumpString(t, c.s)
DumpLocVar(d, l) == DumpInt(DumpInt(DumpString(d, l.name), l.startpc), l.endpc)
DumpDebug(d, f) ==
  LET kept(s) == IF d.strip THEN <<>> ELSE s
  IN DumpEach(DumpEach(DumpVector(d, kept(f.lines)), kept(f.locvars), DumpLocVar),
              kept(f.names), DumpString)

RECURSIVE DumpFunction(_, _, _)
DumpFunction(d, f, source) ==
  LET d1 == DumpString(d, IF f.source = source \/ d.strip THEN NULL ELSE f.source)
      d2 == DumpInt(DumpInt(d1, f.linedefined), f.lastlinedefined)
      d3 == DumpChar(DumpChar(DumpChar(DumpChar(d2, f.nups), f.numparams), f.vararg), f.maxstack)
      d4 == DumpEach(DumpVector(d3, f.code), f.k, DumpConstant)
      d5 == DumpEach(d4, f.p, LAMBDA a, g : DumpFunction(a, g, f.source))
  IN DumpDebug(d5, f)

Header == "header"
HeaderSize == 12
\* luaU_dump with a writer that fails at its call number failat, if it comes to it.
Dump(f, strip, failat) ==
  DumpFunction(DumpBlock([out |-> <<>>, calls |-> 0, failat |-> failat, status |-> 0, strip |-> strip],
                         Bytes(Header, HeaderSize)), f, NULL)

-----------------------------------------------------------------------------
(* Reading.  Z: the rest of the piece, and the pieces still to come.        *)

Stream(pieces) == [buf |-> <<>>, pieces |-> pieces, err |-> ""]
ZEnds(z) == z.buf = <<>> /\ (z.pieces = <<>> \/ Head(z.pieces) = <<>>)
\* luaZ_lookahead, luaZ_fill
ZFill(z) == IF z.buf = <<>> THEN [z EXCEPT !.buf = Head(z.pieces), !.pieces = Tail(@)] ELSE z

Rd(z, v) == [z |-> z, v |-> v]
RECURSIVE ZRead(_, _, _)
ZRead_OnePiece(z, n, got) ==   \* as if a block never went on in the next piece
  IF n = 0 THEN Rd(z, got)
  ELSE IF ZEnds(z) THEN Rd([z EXCEPT !.err = "unexpected end"], got)
  ELSE LET y == ZFill(z)
           m == Min({n, Len(y.buf)})
       IN Rd([y EXCEPT !.buf = SubSeq(@, m + 1, Len(@))], got \o SubSeq(y.buf, 1, m))
ZRead(z, n, got) ==
  IF n = 0 THEN Rd(z, got)
  ELSE IF ZEnds(z) THEN Rd([z EXCEPT !.err = "unexpected end"], got)
  ELSE LET y == ZFill(z)
           m == Min({n, Len(y.buf)})
       IN ZRead([y EXCEPT !.buf = SubSeq(@, m + 1, Len(@))], n - m, got \o SubSeq(y.buf, 1, m))

\* After an error nothing more is read.
LoadBlock(z, n) == IF z.err # "" THEN Rd(z, <<>>) ELSE ZRead(z, n, <<>>)
LoadValue(z, n) == LET r == LoadBlock(z, n) IN Rd(r.z, IF r.z.err = "" THEN Value(r.v) ELSE Garbage)
ErrorIf(z, cond, why) == IF z.err = "" /\ cond THEN [z EXCEPT !.err = why] ELSE z
LoadChar(z) == LoadValue(z, 1)
LoadInt(z) ==
  LET r == LoadValue(z, IntSize)
      y == ErrorIf(r.z, r.z.err = "" /\ r.v < 0, "bad integer")
  IN Rd(y, IF y.err = "" THEN r.v ELSE 0)
LoadNumber(z) == LoadValue(z, IntSize)
LoadString(z) ==
  LET size == LoadValue(z, IntSize)
  IN IF size.z.err # "" THEN Rd(size.z, NULL)
     ELSE IF size.v = 0 THEN Rd(size.z, NULL) ELSE LoadValue(size.z, size.v)

LoadTimes(z, n, Load(_)) ==
  FoldLeft(LAMBDA r, i : LET x == Load(r.z) IN Rd(x.z, Append(r.v, x.v)), Rd(z, <<>>), [i \in 1 .. n |-> i])
LoadEach(z, Load(_)) == LET n == LoadInt(z) IN LoadTimes(n.z, n.v, Load)
LoadVector(z) ==
  LET n == LoadInt(z)
      b == LoadBlock(n.z, n.v * IntSize)
      at(i) == SubSeq(b.v, IntSize * (i - 1) + 1, IntSize * i)
  IN Rd(b.z, IF b.z.err = "" THEN [i \in 1 .. n.v |-> Value(at(i))] ELSE <<>>)

LoadConstant(z) ==
  LET t == LoadChar(z)
      n == LoadChar(t.z)
      x == LoadNumber(t.z)
      s == LoadString(t.z)
  IN IF t.z.err # "" THEN Rd(t.z, Nil)
     ELSE CASE t.v = "nil" -> Rd(t.z, Nil)
            [] t.v = "bool" -> Rd(n.z, [t |-> "bool", n |-> n.v, s |-> ""])
            [] t.v = "num" -> Rd(x.z, [t |-> "num", n |-> x.v, s |-> ""])
            [] t.v = "str" -> Rd(s.z, [t |-> "str", n |-> 0, s |-> s.v])
            [] OTHER -> Rd(ErrorIf(t.z, TRUE, "bad constant"), Nil)
LoadLocVar(z) ==
  LET s == LoadString(z)
      a == LoadInt(s.z)
      e == LoadInt(a.z)
  IN Rd(e.z, [name |-> s.v, startpc |-> a.v, endpc |-> e.v])

\* luaG_checkcode with what precheck says of the debug information.
CodeOk(f) == /\ CheckCode(f)
             /\ Len(f.names) <= f.nups
             /\ Len(f.lines) \in {0, Len(f.code)}

RECURSIVE LoadFunction(_, _)
LoadFunction(z, source) ==
  LET s == LoadString(z)
      src == IF s.v = NULL THEN source ELSE s.v
      l1 == LoadInt(s.z)
      l2 == LoadInt(l1.z)
      nups == LoadChar(l2.z)
      npar == LoadChar(nups.z)
      va == LoadChar(npar.z)
      stk == LoadChar(va.z)
      code == LoadVector(stk.z)
      k == LoadEach(code.z, LoadConstant)
      p == LoadEach(k.z, LAMBDA y : LoadFunction(y, src))
      lines == LoadVector(p.z)
      locs == LoadEach(lines.z, LoadLocVar)
      names == LoadEach(locs.z, LoadString)
      f == [source |-> src, linedefined |-> l1.v, lastlinedefined |-> l2.v, nups |-> nups.v,
            numparams |-> npar.v, vararg |-> va.v, maxstack |-> stk.v, code |-> code.v, k |-> k.v,
            p |-> p.v, lines |-> lines.v, locvars |-> locs.v, names |-> names.v]
  IN IF s.z.err # "" THEN s
     ELSE IF names.z.err # "" THEN Rd(names.z, NULL)
     ELSE Rd(ErrorIf(names.z, ~CodeOk(f), "bad code"), f)

LoadHeader(z) ==
  LET h == LoadBlock(z, HeaderSize)
  IN ErrorIf(h.z, h.z.err = "" /\ h.v # Bytes(Header, HeaderSize), "bad header")
Undump(pieces) == LoadFunction(LoadHeader(Stream(pieces)), "=?")

-----------------------------------------------------------------------------

\* A compiled function with the debug information that its source gives it.
RECURSIVE Debugged(_, _)
Debugged(pt, source) ==
  [source |-> source, linedefined |-> 0, lastlinedefined |-> Len(pt.code), nups |-> pt.nups,
   numparams |-> pt.numparams, vararg |-> pt.vararg, maxstack |-> pt.maxstack, code |-> pt.code,
   k |-> pt.k, p |-> [n \in DOMAIN pt.p |-> Debugged(pt.p[n], source)],
   lines |-> [pc \in DOMAIN pt.code |-> pc], names |-> [n \in 1 .. pt.nups |-> "name"],
   locvars |-> [n \in 1 .. pt.numparams |-> [name |-> "name", startpc |-> 0, endpc |-> Len(pt.code)]]]
RECURSIVE Stripped(_)
Stripped(f) == [f EXCEPT !.source = "=?", !.lines = <<>>, !.names = <<>>, !.locvars = <<>>,
                         !.p = [n \in DOMAIN @ |-> Stripped(@[n])]]

\* A stream in pieces of the size k.
RECURSIVE Cut(_, _)
Cut(b, k) == IF Len(b) <= k THEN <<b>> ELSE <<SubSeq(b, 1, k)>> \o Cut(SubSeq(b, k + 1, Len(b)), k)

\* A function that is written and read back is the same, also in pieces that
\* divide a number or a string, and stripped it is the same but for its debug
\* information; a stream that ends early, at whatever byte, that has another
\* header or a negative length is refused and never taken for a function; and
\* a writer that fails is not called again (ldump.c, lundump.c, lzio.c).
ChunkIs(pt) ==
  LET f == Debugged(pt, "@a")
      whole == Dump(f, FALSE, 0)
      bare == Dump(f, TRUE, 0)
      damaged(i, v) == [whole.out EXCEPT ![i] = [@ EXCEPT !.of = v]]
      same(pieces, g) == LET r == Undump(pieces) IN r.z.err = "" /\ r.v = g
      refused(pieces, why) == Undump(pieces).z.err = why
  IN /\ \A k \in {1, 3, 7, Len(whole.out)} : same(Cut(whole.out, k), f)
     /\ same(Cut(bare.out, 5), Stripped(f))
     /\ \A n \in 0 .. Len(whole.out) - 1 : n % 13 \in {0, 1} =>
          refused(Cut(SubSeq(whole.out, 1, n), 50), "unexpected end")
     /\ refused(<<damaged(3, "other")>>, "bad header")
     /\ refused(<<damaged(HeaderSize + 5, -1)>>, "bad integer")
     /\ \A n \in {1, 2, whole.calls} :
          LET d == Dump(f, FALSE, n)
          IN d.status # 0 /\ d.calls = n /\ IsPrefix(d.out, whole.out) /\ d.out # whole.out
=============================================================================
