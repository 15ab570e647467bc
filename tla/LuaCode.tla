------------------------------ MODULE LuaCode ------------------------------
(***************************************************************************)
(* The code generator of the Lua 5.1 interpreter that the library carries  *)
(* (src/lua/lcode.c, with the instruction set of lopcodes.h).  The parser  *)
(* (LuaParser) calls it while it reads: it keeps the function being        *)
(* compiled in a record f (struct FuncState and its Proto) and the         *)
(* expression being compiled in a record e (struct expdesc).               *)
(*                                                                         *)
(* An operator that changes only the function takes and returns f; one     *)
(* that changes both takes and returns a pair x = [f, e].  Where the C     *)
(* function also returns a register, that register is e.info afterwards.   *)
(*                                                                         *)
(* Jumps that wait for their target are chained through their own offset   *)
(* field, as in the code.  f.ok turns FALSE when an lua_assert of the      *)
(* generator fails, f.bad TRUE when it gives the function up with a        *)
(* syntax error.  Line numbers are left out.                               *)
(***************************************************************************)
EXTENDS Integers, Sequences, SequencesExt, FiniteSets, TLC

CONSTANTS MaxIndexRK,      \* highest constant an RK operand can name (255)
          MaxStack,        \* registers of one function (250)
          MaxJump,         \* longest jump (MAXARG_sBx)
          FieldsPerFlush,  \* list items stored by one SETLIST (50)
          MaxArgC          \* highest C operand (511)

NoJump == -1
NoReg == 255
BitRK == 256
MultRet == -1

(* Values, for constants and for the machine: t tells the kind. *)
Nil == [t |-> "nil", n |-> 0, s |-> ""]
Bool(b) == [t |-> "bool", n |-> IF b THEN 1 ELSE 0, s |-> ""]
Num(i) == [t |-> "num", n |-> i, s |-> ""]
Str(w) == [t |-> "str", n |-> 0, s |-> w]
Falsy(v) == v.t = "nil" \/ v = Bool(FALSE)

-----------------------------------------------------------------------------
(* Instructions: b holds Bx and sBx.                                        *)

OpNames == <<"MOVE", "LOADK", "LOADBOOL", "LOADNIL", "GETUPVAL", "GETGLOBAL",
  "GETTABLE", "SETGLOBAL", "SETUPVAL", "SETTABLE", "NEWTABLE", "SELF", "ADD",
  "SUB", "MUL", "DIV", "MOD", "POW", "UNM", "NOT", "LEN", "CONCAT", "JMP",
  "EQ", "LT", "LE", "TEST", "TESTSET", "CALL", "TAILCALL", "RETURN",
  "FORLOOP", "FORPREP", "TFORLOOP", "SETLIST", "CLOSE", "CLOSURE", "VARARG">>

TestOps == {"EQ", "LT", "LE", "TEST", "TESTSET", "TFORLOOP"}

I(op, a, b, c) == [op |-> op, a |-> a, b |-> b, c |-> c]

\* A bare word in the code (the count of a long SETLIST): what its bits mean
\* to code that takes it for an instruction, and the number again.
Word(n) == I(IF n % 64 < Len(OpNames) THEN OpNames[(n % 64) + 1] ELSE "none",
             n \div 64, 0, 0)
WordValue(i) == 64 * i.a + (CHOOSE k \in 1 .. Len(OpNames) : OpNames[k] = i.op) - 1

IsK(r) == r >= BitRK
RKAsK(k) == k + BitRK
IndexK(r) == r - BitRK

-----------------------------------------------------------------------------
(* The expression and the function being compiled.                          *)

Exp(k, info) == [k |-> k, info |-> info, aux |-> 0, nval |-> 0,
                 t |-> NoJump, f |-> NoJump]
HasJumps(e) == e.t # e.f
IsNumeral(e) == e.k = "VKNUM" /\ e.t = NoJump /\ e.f = NoJump
HasMultRet(e) == e.k \in {"VCALL", "VVARARG"}

EmptyFunc == [code |-> <<>>, k |-> <<>>, p |-> <<>>, upvalues |-> <<>>,
              jpc |-> NoJump, lasttarget |-> -1, freereg |-> 0, nactvar |-> 0,
              actvar |-> <<>>, bl |-> <<>>, maxstack |-> 2, numparams |-> 0,
              vararg |-> {}, ok |-> TRUE, bad |-> FALSE]

Pc(f) == Len(f.code)
At(f, pc) == f.code[pc + 1]
LuaAssert(f, cond) == [f EXCEPT !.ok = @ /\ cond]

X(f, e) == [f |-> f, e |-> e]

-----------------------------------------------------------------------------
(* Lists of jumps.                                                          *)

GetJump(f, pc) == LET off == At(f, pc).b
                  IN IF off = NoJump THEN NoJump ELSE pc + 1 + off

RECURSIVE JumpList(_, _)
JumpList(f, list) == IF list = NoJump THEN <<>>
                     ELSE <<list>> \o JumpList(f, GetJump(f, list))

FixJump(f, pc, dest) ==
  LET off == dest - (pc + 1)
  IN [f EXCEPT !.code[pc + 1].b = off,
               !.bad = @ \/ off > MaxJump \/ -off > MaxJump,
               !.ok = @ /\ dest # NoJump]

\* The instruction that decides a conditional jump, or the jump itself.
JumpControl(f, pc) == IF pc >= 1 /\ At(f, pc - 1).op \in TestOps THEN pc - 1 ELSE pc
IsTestSet(f, node) == At(f, JumpControl(f, node)).op = "TESTSET"

NeedValue(f, list) == \E j \in ToSet(JumpList(f, list)) : ~IsTestSet(f, j)

PatchTestReg(f, node, reg) ==
  LET c == JumpControl(f, node)
      i == At(f, c)
  IN CASE ~IsTestSet(f, node) -> f
       [] reg # NoReg /\ reg # i.b -> [f EXCEPT !.code[c + 1].a = reg]
       [] OTHER -> [f EXCEPT !.code[c + 1] = I("TEST", i.b, 0, i.c)]

RemoveValues(f, list) ==
  FoldLeft(LAMBDA g, j : PatchTestReg(g, j, NoReg), f, JumpList(f, list))

PatchListAux(f, list, vtarget, reg, dtarget) ==
  FoldLeft(LAMBDA g, j : FixJump(PatchTestReg(g, j, reg), j,
                                 IF IsTestSet(g, j) THEN vtarget ELSE dtarget),
           f, JumpList(f, list))

DischargeJpc(f) == [PatchListAux(f, f.jpc, Pc(f), NoReg, Pc(f)) EXCEPT !.jpc = NoJump]

Code(f, i) == [DischargeJpc(f) EXCEPT !.code = Append(@, i)]
CodeABC(f, op, a, b, c) == Code(f, I(op, a, b, c))

\* luaK_concat changes the code (ConcatF) and the head of the first list.
ConcatF(f, l1, l2) == IF l2 = NoJump \/ l1 = NoJump THEN f
                      ELSE FixJump(f, Last(JumpList(f, l1)), l2)
ConcatL(l1, l2) == IF l1 = NoJump THEN l2 ELSE l1

GetLabel(f) == [f EXCEPT !.lasttarget = Pc(f)]

PatchToHere(f, list) ==
  [ConcatF(GetLabel(f), f.jpc, list) EXCEPT !.jpc = ConcatL(f.jpc, list)]

PatchList(f, list, target) ==
  IF target = Pc(f) THEN PatchToHere(f, list)
  ELSE PatchListAux(LuaAssert(f, target < Pc(f)), list, target, NoReg, target)

\* The jump made is the last instruction of the result.
Jump(f) == LET g == CodeABC([f EXCEPT !.jpc = NoJump], "JMP", 0, NoJump, 0)
           IN ConcatF(g, Pc(g) - 1, f.jpc)
CondJump(f, op, a, b, c) == Jump(CodeABC(f, op, a, b, c))

Ret(f, first, nret) == CodeABC(f, "RETURN", first, nret + 1, 0)

-----------------------------------------------------------------------------
(* Registers and constants.                                                 *)

CheckStack_Short(f, n) ==   \* off by one
  IF f.freereg + n <= f.maxstack + 1 THEN f ELSE [f EXCEPT !.maxstack = f.freereg + n - 1]
CheckStack(f, n) ==
  LET need == f.freereg + n
  IN IF need <= f.maxstack THEN f
     ELSE [f EXCEPT !.maxstack = need, !.bad = @ \/ need >= MaxStack]

ReserveRegs(f, n) == [CheckStack(f, n) EXCEPT !.freereg = @ + n]

FreeReg(f, reg) ==
  IF IsK(reg) \/ reg < f.nactvar THEN f
  ELSE LuaAssert([f EXCEPT !.freereg = @ - 1], reg = f.freereg - 1)

FreeExp(f, e) == IF e.k = "VNONRELOC" THEN FreeReg(f, e.info) ELSE f

\* The index of constant v, which AddK puts into the table if it is new.
AddK(f, v) == IF v \in ToSet(f.k) THEN f ELSE [f EXCEPT !.k = Append(@, v)]
KIndex(f, v) == (CHOOSE i \in DOMAIN f.k : f.k[i] = v) - 1

LoadNil_AcrossJumps(f, from, n) ==   \* as if no jump led here
  LET prev == At(f, Pc(f) - 1)
  IN IF Pc(f) > 0 /\ prev.op = "LOADNIL" /\ prev.a <= from /\ from <= prev.b + 1
     THEN IF from + n - 1 > prev.b THEN [f EXCEPT !.code[Pc(f)].b = from + n - 1] ELSE f
     ELSE CodeABC(f, "LOADNIL", from, from + n - 1, 0)
LoadNil(f, from, n) ==
  LET prev == At(f, Pc(f) - 1)
  IN CASE Pc(f) > f.lasttarget /\ Pc(f) = 0 -> f
       [] /\ Pc(f) > f.lasttarget
          /\ Pc(f) > 0
          /\ prev.op = "LOADNIL" /\ prev.a <= from /\ from <= prev.b + 1
          -> IF from + n - 1 > prev.b THEN [f EXCEPT !.code[Pc(f)].b = from + n - 1] ELSE f
       [] OTHER -> CodeABC(f, "LOADNIL", from, from + n - 1, 0)

SetReturns(f, e, nresults) ==
  CASE e.k = "VCALL" -> [f EXCEPT !.code[e.info + 1].c = nresults + 1]
    [] e.k = "VVARARG" ->
         ReserveRegs([f EXCEPT !.code[e.info + 1].b = nresults + 1,
                               !.code[e.info + 1].a = f.freereg], 1)
    [] OTHER -> f

SetOneRet(x) ==
  CASE x.e.k = "VCALL" -> X(x.f, [x.e EXCEPT !.k = "VNONRELOC", !.info = At(x.f, @).a])
    [] x.e.k = "VVARARG" -> X([x.f EXCEPT !.code[x.e.info + 1].b = 2],
                              [x.e EXCEPT !.k = "VRELOCABLE"])
    [] OTHER -> x

-----------------------------------------------------------------------------
(* Bringing an expression into a register.                                  *)

\* Emit an instruction whose destination register is still open.
Relocable(f, e, i) == X(Code(f, i), [e EXCEPT !.k = "VRELOCABLE", !.info = Pc(f)])

DischargeVars(x) ==
  LET f == x.f  e == x.e
  IN CASE e.k = "VLOCAL" -> X(f, [e EXCEPT !.k = "VNONRELOC"])
       [] e.k = "VUPVAL" -> Relocable(f, e, I("GETUPVAL", 0, e.info, 0))
       [] e.k = "VGLOBAL" -> Relocable(f, e, I("GETGLOBAL", 0, e.info, 0))
       [] e.k = "VINDEXED" -> Relocable(FreeReg(FreeReg(f, e.aux), e.info), e,
                                        I("GETTABLE", 0, e.info, e.aux))
       [] OTHER -> SetOneRet(x)

CodeLabel(f, a, b, jump) == CodeABC(GetLabel(f), "LOADBOOL", a, b, jump)

Discharge2Reg(x, reg) ==
  LET y == DischargeVars(x)
      f == y.f
      e == y.e
      k == AddK(f, Num(e.nval))
      g == CASE e.k = "VNIL" -> LoadNil(f, reg, 1)
             [] e.k = "VTRUE" -> CodeABC(f, "LOADBOOL", reg, 1, 0)
             [] e.k = "VFALSE" -> CodeABC(f, "LOADBOOL", reg, 0, 0)
             [] e.k = "VK" -> CodeABC(f, "LOADK", reg, e.info, 0)
             [] e.k = "VKNUM" -> CodeABC(k, "LOADK", reg, KIndex(k, Num(e.nval)), 0)
             [] e.k = "VRELOCABLE" -> [f EXCEPT !.code[e.info + 1].a = reg]
             [] e.k = "VNONRELOC" /\ reg # e.info -> CodeABC(f, "MOVE", reg, e.info, 0)
             [] OTHER -> f
  IN IF e.k \in {"VVOID", "VJMP"} THEN y
     ELSE X(g, [e EXCEPT !.info = reg, !.k = "VNONRELOC"])

Discharge2AnyReg(x) ==
  IF x.e.k = "VNONRELOC" THEN x
  ELSE LET f == ReserveRegs(x.f, 1) IN Discharge2Reg(X(f, x.e), f.freereg - 1)

Exp2Reg(x, reg) ==
  LET y == Discharge2Reg(x, reg)
      jmp == y.e.k = "VJMP"
      f0 == IF jmp THEN ConcatF(y.f, y.e.t, y.e.info) ELSE y.f
      e == IF jmp THEN [y.e EXCEPT !.t = ConcatL(@, y.e.info)] ELSE y.e
      need == NeedValue(f0, e.t) \/ NeedValue(f0, e.f)
      f1 == IF jmp THEN f0 ELSE Jump(f0)
      fj == IF jmp THEN NoJump ELSE Pc(f1) - 1
      f2 == CodeLabel(CodeLabel(f1, reg, 0, 1), reg, 1, 0)
      f3 == IF need THEN PatchToHere(f2, fj) ELSE f0
      pf == IF need THEN Pc(f1) ELSE NoJump
      pt == IF need THEN Pc(f1) + 1 ELSE NoJump
      f4 == GetLabel(f3)
      final == Pc(f4)
      f5 == PatchListAux(PatchListAux(f4, e.f, final, reg, pf), e.t, final, reg, pt)
  IN X(IF HasJumps(e) THEN f5 ELSE f0,
       [e EXCEPT !.f = NoJump, !.t = NoJump, !.info = reg, !.k = "VNONRELOC"])

Exp2NextReg(x) ==
  LET y == DischargeVars(x)
      f == ReserveRegs(FreeExp(y.f, y.e), 1)
  IN Exp2Reg(X(f, y.e), f.freereg - 1)

Exp2AnyReg(x) ==
  LET y == DischargeVars(x)
  IN CASE y.e.k = "VNONRELOC" /\ ~HasJumps(y.e) -> y
       [] y.e.k = "VNONRELOC" /\ HasJumps(y.e) /\ y.e.info >= y.f.nactvar
          -> Exp2Reg(y, y.e.info)
       [] OTHER -> Exp2NextReg(y)

Exp2Val(x) == IF HasJumps(x.e) THEN Exp2AnyReg(x) ELSE DischargeVars(x)

\* The expression as an operand: the result's rk is the register or constant.
Exp2RK(x) ==
  LET y == Exp2Val(x)
      v == CASE y.e.k = "VNIL" -> Nil
             [] y.e.k = "VKNUM" -> Num(y.e.nval)
             [] OTHER -> Bool(y.e.k = "VTRUE")
      g == AddK(y.f, v)
      r == Exp2AnyReg(y)
  IN CASE y.e.k \in {"VKNUM", "VTRUE", "VFALSE", "VNIL"} /\ Len(y.f.k) <= MaxIndexRK
          -> [f |-> g, e |-> [y.e EXCEPT !.k = "VK", !.info = KIndex(g, v)],
              rk |-> RKAsK(KIndex(g, v))]
       [] y.e.k = "VK" /\ y.e.info <= MaxIndexRK
          -> [f |-> y.f, e |-> y.e, rk |-> RKAsK(y.e.info)]
       [] OTHER -> [f |-> r.f, e |-> r.e, rk |-> r.e.info]

StoreVar(f, var, ex) ==
  LET x == Exp2AnyReg(X(f, ex))
      r == Exp2RK(X(f, ex))
  IN CASE var.k = "VLOCAL" -> Exp2Reg(X(FreeExp(f, ex), ex), var.info).f
       [] var.k = "VUPVAL" -> FreeExp(CodeABC(x.f, "SETUPVAL", x.e.info, var.info, 0), x.e)
       [] var.k = "VGLOBAL" -> FreeExp(CodeABC(x.f, "SETGLOBAL", x.e.info, var.info, 0), x.e)
       [] var.k = "VINDEXED"
          -> FreeExp(CodeABC(r.f, "SETTABLE", var.info, var.aux, r.rk), r.e)
       [] OTHER -> LuaAssert(f, FALSE)

Self(x, key) ==
  LET y == Exp2AnyReg(x)
      g == FreeExp(y.f, y.e)
      func == g.freereg
      r == Exp2RK(X(ReserveRegs(g, 2), key))
      h == CodeABC(r.f, "SELF", func, y.e.info, r.rk)
  IN X(FreeExp(h, r.e), [y.e EXCEPT !.info = func, !.k = "VNONRELOC"])

-----------------------------------------------------------------------------
(* Conditions.                                                              *)

InvertJump(f, e) ==
  LET c == JumpControl(f, e.info)
  IN LuaAssert([f EXCEPT !.code[c + 1].a = 1 - @],
            At(f, c).op \in TestOps \ {"TESTSET", "TEST"})

\* The jump made is the last instruction of the result.
JumpOnCond(x, cond) ==
  LET i == At(x.f, x.e.info)
      y == Discharge2AnyReg(x)
  IN IF x.e.k = "VRELOCABLE" /\ i.op = "NOT"
     THEN X(CondJump([x.f EXCEPT !.code = Front(@)], "TEST", i.b, 0, 1 - cond), x.e)
     ELSE X(CondJump(FreeExp(y.f, y.e), "TESTSET", NoReg, y.e.info, cond), y.e)

GoIfTrue(x) ==
  LET y == DischargeVars(x)
      e == y.e
      z == CASE e.k \in {"VK", "VKNUM", "VTRUE"} -> y
             [] e.k = "VFALSE" -> X(Jump(y.f), e)
             [] e.k = "VJMP" -> X(InvertJump(y.f, e), e)
             [] OTHER -> JumpOnCond(y, 0)
      pc == CASE e.k \in {"VK", "VKNUM", "VTRUE"} -> NoJump
              [] e.k = "VJMP" -> e.info
              [] OTHER -> Pc(z.f) - 1
      f == PatchToHere(ConcatF(z.f, e.f, pc), z.e.t)
  IN X(f, [z.e EXCEPT !.f = ConcatL(@, pc), !.t = NoJump])

GoIfFalse(x) ==
  LET y == DischargeVars(x)
      e == y.e
      z == CASE e.k \in {"VNIL", "VFALSE", "VJMP"} -> y
             [] e.k = "VTRUE" -> X(Jump(y.f), e)
             [] OTHER -> JumpOnCond(y, 1)
      pc == CASE e.k \in {"VNIL", "VFALSE"} -> NoJump
              [] e.k = "VJMP" -> e.info
              [] OTHER -> Pc(z.f) - 1
      f == PatchToHere(ConcatF(z.f, e.t, pc), z.e.f)
  IN X(f, [z.e EXCEPT !.t = ConcatL(@, pc), !.f = NoJump])

CodeNot(x) ==
  LET y == DischargeVars(x)
      e == y.e
      d == Discharge2AnyReg(y)
      z == CASE e.k \in {"VNIL", "VFALSE"} -> X(y.f, [e EXCEPT !.k = "VTRUE"])
             [] e.k \in {"VK", "VKNUM", "VTRUE"} -> X(y.f, [e EXCEPT !.k = "VFALSE"])
             [] e.k = "VJMP" -> X(InvertJump(y.f, e), e)
             [] e.k \in {"VRELOCABLE", "VNONRELOC"}
                -> Relocable(FreeExp(d.f, d.e), d.e, I("NOT", 0, d.e.info, 0))
             [] OTHER -> X(LuaAssert(y.f, FALSE), e)
      w == [z.e EXCEPT !.f = z.e.t, !.t = z.e.f]
  IN X(RemoveValues(RemoveValues(z.f, w.f), w.t), w)

-----------------------------------------------------------------------------
(* Operators.                                                               *)

Indexed(f, t, key) ==
  LET r == Exp2RK(X(f, key)) IN X(r.f, [t EXCEPT !.aux = r.rk, !.k = "VINDEXED"])

RECURSIVE Power(_, _)
Power(a, b) == IF b <= 0 THEN 1 ELSE a * Power(a, b - 1)

\* The number operators; Lua's modulo takes the sign of the divisor.
NumArith(op, a, b) ==
  CASE op = "ADD" -> a + b
    [] op = "SUB" -> a - b
    [] op = "MUL" -> a * b
    [] op = "DIV" -> a \div b
    [] op = "MOD" -> a - b * (a \div b)
    [] op = "POW" -> Power(a, b)
    [] op = "UNM" -> -a

Folds(op, e1, e2) == /\ IsNumeral(e1) /\ IsNumeral(e2)
                     /\ op \in {"DIV", "MOD"} => e2.nval # 0
                     /\ op \notin {"LEN", "CONCAT"}

CodeArith(op, f, e1, e2) ==
  LET r1 == Exp2RK(X(f, e1))
      r2 == Exp2RK(X(r1.f, e2))
      two == op \notin {"UNM", "LEN"}
      g == IF two THEN FreeExp(FreeExp(r2.f, r2.e), r1.e)
                  ELSE FreeExp(FreeExp(r1.f, e2), r1.e)
  IN IF Folds(op, e1, e2)
     THEN X(f, [e1 EXCEPT !.nval = NumArith(op, e1.nval, e2.nval)])
     ELSE Relocable(g, r1.e, I(op, 0, r1.rk, IF two THEN r2.rk ELSE 0))

CodeComp(op, cond, f, e1, e2) ==
  LET r1 == Exp2RK(X(f, e1))
      r2 == Exp2RK(X(r1.f, e2))
      g == FreeExp(FreeExp(r2.f, r2.e), r1.e)
      swap == cond = 0 /\ op # "EQ"
      h == IF swap THEN CondJump(g, op, 1, r2.rk, r1.rk)
                   ELSE CondJump(g, op, cond, r1.rk, r2.rk)
  IN X(h, [r1.e EXCEPT !.info = Pc(h) - 1, !.k = "VJMP"])

Zero == Exp("VKNUM", 0)

Prefix(op, x) ==
  LET m == IF x.e.k = "VK" THEN Exp2AnyReg(x) ELSE x
      l == Exp2AnyReg(x)
  IN CASE op = "-" -> CodeArith("UNM", m.f, m.e, Zero)
       [] op = "not" -> CodeNot(x)
       [] op = "#" -> CodeArith("LEN", l.f, l.e, Zero)

Infix(op, x) ==
  LET r == Exp2RK(x)
  IN CASE op = "and" -> GoIfTrue(x)
       [] op = "or" -> GoIfFalse(x)
       [] op = ".." -> Exp2NextReg(x)
       [] OTHER -> IF IsNumeral(x.e) THEN x ELSE X(r.f, r.e)

ArithOp == [o \in {"+", "-", "*", "/", "%", "^"} |->
              CASE o = "+" -> "ADD" [] o = "-" -> "SUB" [] o = "*" -> "MUL"
                [] o = "/" -> "DIV" [] o = "%" -> "MOD" [] o = "^" -> "POW"]

PosfixConcat(f, e1, e2) ==
  LET v == Exp2Val(X(f, e2))
      n == Exp2NextReg(v)
      g == FreeExp(LuaAssert(v.f, e1.info = At(v.f, v.e.info).b - 1), e1)
  IN IF v.e.k = "VRELOCABLE" /\ At(v.f, v.e.info).op = "CONCAT"
     THEN X([g EXCEPT !.code[v.e.info + 1].b = e1.info],
            [e1 EXCEPT !.k = v.e.k, !.info = v.e.info])
     ELSE CodeArith("CONCAT", n.f, e1, n.e)

\* e2 takes over from e1 but keeps e1's own list of pending jumps.
Posfix(op, f, e1, e2) ==
  LET d == DischargeVars(X(f, e2))
  IN CASE op = "and" -> X(LuaAssert(ConcatF(d.f, e1.f, d.e.f), e1.t = NoJump),
                          [d.e EXCEPT !.f = ConcatL(e1.f, d.e.f)])
       [] op = "or" -> X(LuaAssert(ConcatF(d.f, e1.t, d.e.t), e1.f = NoJump),
                         [d.e EXCEPT !.t = ConcatL(e1.t, d.e.t)])
       [] op = ".." -> PosfixConcat(f, e1, e2)
       [] op \in DOMAIN ArithOp -> CodeArith(ArithOp[op], f, e1, e2)
       [] op = "==" -> CodeComp("EQ", 1, f, e1, e2)
       [] op = "~=" -> CodeComp("EQ", 0, f, e1, e2)
       [] op = "<" -> CodeComp("LT", 1, f, e1, e2)
       [] op = "<=" -> CodeComp("LE", 1, f, e1, e2)
       [] op = ">" -> CodeComp("LT", 0, f, e1, e2)
       [] op = ">=" -> CodeComp("LE", 0, f, e1, e2)

\* nelems items of the list are read; the last tostore of them are stored.
SetList(f, base, nelems, tostore) ==
  LET c == ((nelems - 1) \div FieldsPerFlush) + 1
      b == IF tostore = MultRet THEN 0 ELSE tostore
      g == IF c <= MaxArgC THEN CodeABC(f, "SETLIST", base, b, c)
           ELSE Code(CodeABC(f, "SETLIST", base, b, 0), Word(c))
  IN LuaAssert([g EXCEPT !.freereg = base + 1], tostore # 0)
=============================================================================
