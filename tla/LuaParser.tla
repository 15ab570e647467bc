----------------------------- MODULE LuaParser -----------------------------
(***************************************************************************)
(* The Lua parser (src/lua/lparser.c): one pass over the tokens that calls *)
(* the code generator of LuaCode as it goes.                               *)
(*                                                                         *)
(* The parser's state p holds the functions being compiled, innermost last *)
(* (the chain of FuncStates), the words still to be read, the depth of     *)
(* nested rules, and err.  A syntax error ends the compilation with a      *)
(* longjmp; here it discards the rest of the input and sets err, so that   *)
(* every open rule ends at once and the result is not used.  A rule that   *)
(* reads an expression returns a pair [p, e].                              *)
(***************************************************************************)
EXTENDS LuaCode

CONSTANTS MaxVars,    \* local variables of one function (200)
          MaxUpvalues, \* LUAI_MAXUPVALUES (60)
          MaxLevels   \* nesting of rules (200)

\* A token: its kind k, and the number n or the word s that it carries.
EOS == "<eof>"
Tok(p) == IF p.ts = <<>> THEN [k |-> EOS, n |-> 0, s |-> ""] ELSE Head(p.ts)
Kind(p) == Tok(p).k
Text(p) == Tok(p).s

Cur(p) == Last(p.fs)
Put(p, f) == [p EXCEPT !.fs[Len(p.fs)] = f]
Fail(p) == [p EXCEPT !.ts = <<>>, !.err = TRUE]
NextTok(p) == [p EXCEPT !.ts = IF @ = <<>> THEN @ ELSE Tail(@)]
CheckNext(p, c) == IF Kind(p) = c THEN NextTok(p) ELSE Fail(p)
SkipIf(p, c) == IF Kind(p) = c THEN NextTok(p) ELSE p

PE(p, e) == [p |-> p, e |-> e]
With(p, x) == PE(Put(p, x.f), x.e)
XOf(q) == X(Cur(q.p), q.e)

EnterLevel(p) == IF p.lvl >= MaxLevels THEN Fail([p EXCEPT !.lvl = @ + 1])
                 ELSE [p EXCEPT !.lvl = @ + 1]
LeaveLevel(p) == [p EXCEPT !.lvl = @ - 1]

-----------------------------------------------------------------------------
(* Variables and blocks.                                                    *)

CodeString(p, s) == LET f == AddK(Cur(p), Str(s))
                    IN PE(Put(p, f), Exp("VK", KIndex(f, Str(s))))
CheckName(p) == CodeString(CheckNext(p, "name"), Text(p))

NewLocalVar(p, name, n) ==
  LET f == Cur(p)
  IN IF f.nactvar + n + 1 > MaxVars THEN Fail(p)
     ELSE Put(p, [f EXCEPT !.actvar = SubSeq(@, 1, f.nactvar + n) \o <<name>>])

AdjustLocalVars(p, n) == Put(p, [Cur(p) EXCEPT !.nactvar = @ + n])

\* The innermost active variable of that name, or -1.
SearchVar(f, n) ==
  LET found == {i \in 1 .. f.nactvar : f.actvar[i] = n}
  IN IF found = {} THEN -1 ELSE (CHOOSE i \in found : \A j \in found : j <= i) - 1

\* Upvalue number of variable v of the enclosing function, added if new.
IndexUpvalue(f, v) ==
  IF \E u \in ToSet(f.upvalues) : u.k = v.k /\ u.info = v.info THEN f
  ELSE [f EXCEPT !.upvalues = Append(@, [k |-> v.k, info |-> v.info])]
UpvalueNo(f, v) == (CHOOSE i \in DOMAIN f.upvalues :
                       f.upvalues[i].k = v.k /\ f.upvalues[i].info = v.info) - 1

\* The block that declares the variable has to close it.
MarkUpval(f, level) ==
  LET around == {i \in DOMAIN f.bl : f.bl[i].nactvar <= level}
      inner == CHOOSE i \in around : \A j \in around : j <= i
  IN IF around = {} THEN f ELSE [f EXCEPT !.bl[inner].upval = TRUE]

RECURSIVE SingleVarAux(_, _, _, _)
SingleVarAux(fs, lvl, n, base) ==
  LET v == SearchVar(fs[lvl], n)
      up == SingleVarAux(fs, lvl - 1, n, FALSE)
      g == IndexUpvalue(up.fs[lvl], up.e)
  IN CASE lvl = 0 -> [fs |-> fs, e |-> Exp("VGLOBAL", NoReg)]
       [] lvl > 0 /\ v >= 0 ->
            [fs |-> IF base THEN fs ELSE [fs EXCEPT ![lvl] = MarkUpval(@, v)],
             e |-> Exp("VLOCAL", v)]
       [] OTHER -> IF up.e.k = "VGLOBAL" THEN up
                   ELSE [fs |-> [up.fs EXCEPT ![lvl] = g],
                         e |-> Exp("VUPVAL", UpvalueNo(g, up.e))]

\* The limit that indexupvalue checks as it adds one.
TooManyUpvalues(fs) == \E f \in ToSet(fs) : Len(f.upvalues) > MaxUpvalues

SingleVar(p) ==
  LET q == CheckNext(p, "name")
      r == SingleVarAux(q.fs, Len(q.fs), Text(p), TRUE)
      s == CodeString([q EXCEPT !.fs = r.fs], Text(p))
  IN CASE r.e.k = "VGLOBAL" -> PE(s.p, [r.e EXCEPT !.info = s.e.info])
       [] TooManyUpvalues(r.fs) -> PE(Fail(q), r.e)
       [] OTHER -> PE([q EXCEPT !.fs = r.fs], r.e)

AdjustAssign(f, nvars, nexps, e) ==
  LET extra == nvars - nexps
      more == IF extra + 1 < 0 THEN 0 ELSE extra + 1
      r == SetReturns(f, e, more)
      g == IF e.k = "VVOID" THEN f ELSE Exp2NextReg(X(f, e)).f
  IN CASE HasMultRet(e) -> IF more > 1 THEN ReserveRegs(r, more - 1) ELSE r
       [] ~HasMultRet(e) /\ extra > 0 -> LoadNil(ReserveRegs(g, extra), g.freereg, extra)
       [] OTHER -> g

EnterBlock(f, breakable) ==
  LuaAssert([f EXCEPT !.bl = Append(@, [breaklist |-> NoJump, nactvar |-> f.nactvar,
                                        upval |-> FALSE, isbreakable |-> breakable])],
            f.freereg = f.nactvar)

LeaveBlock_Open(f) ==   \* forgets to close what closures share
  LET b == Last(f.bl)
  IN PatchToHere([f EXCEPT !.bl = Front(@), !.nactvar = b.nactvar, !.freereg = b.nactvar], b.breaklist)
LeaveBlock(f) ==
  LET b == Last(f.bl)
      g == [f EXCEPT !.bl = Front(@), !.nactvar = b.nactvar]
      h == IF b.upval THEN CodeABC(g, "CLOSE", b.nactvar, 0, 0) ELSE g
  IN PatchToHere(LuaAssert([h EXCEPT !.freereg = b.nactvar], ~(b.isbreakable /\ b.upval)),
                 b.breaklist)

OnCur(p, Op(_)) == Put(p, Op(Cur(p)))

-----------------------------------------------------------------------------
(* Functions.                                                               *)

OpenFunc(p) == [p EXCEPT !.fs = Append(@, EmptyFunc)]

\* The finished prototype of the innermost function.
ProtoOf(f) == [code |-> f.code, k |-> f.k, p |-> f.p, nups |-> Len(f.upvalues),
               numparams |-> f.numparams, vararg |-> f.vararg, maxstack |-> f.maxstack]

CloseFunc(p) ==
  OnCur(p, LAMBDA f : LuaAssert(Ret([f EXCEPT !.nactvar = 0], 0, 0), f.bl = <<>>))

\* The closure of the function just closed, made by the function around it.
PushClosure(p) ==
  LET child == Cur(p)
      f == p.fs[Len(p.fs) - 1]
      g == [f EXCEPT !.p = Append(@, ProtoOf(child)), !.ok = @ /\ child.ok,
                     !.bad = @ \/ child.bad]
      h == CodeABC(g, "CLOSURE", 0, Len(g.p) - 1, 0)
      take(k, u) == CodeABC(k, IF u.k = "VLOCAL" THEN "MOVE" ELSE "GETUPVAL", 0, u.info, 0)
  IN PE(Put([p EXCEPT !.fs = Front(@)], FoldLeft(take, h, child.upvalues)),
        Exp("VRELOCABLE", Pc(g)))

RECURSIVE ParNames(_, _)
ParNames(p, n) ==
  CASE Kind(p) = "name" ->
         LET q == NewLocalVar(NextTok(p), Text(p), n)
         IN IF Kind(q) = "," THEN ParNames(NextTok(q), n + 1) ELSE [p |-> q, n |-> n + 1]
    [] Kind(p) = "..." ->
         [p |-> OnCur(NewLocalVar(NextTok(p), "arg", n),
                      LAMBDA f : [f EXCEPT !.vararg = {"hasarg", "needsarg", "isvararg"}]),
          n |-> n + 1]
    [] OTHER -> [p |-> Fail(p), n |-> n]

ParList(p) ==
  LET r == IF Kind(p) = ")" THEN [p |-> p, n |-> 0] ELSE ParNames(p, 0)
      q == AdjustLocalVars(r.p, r.n)
      f == Cur(q)
      hidden == IF "hasarg" \in f.vararg THEN 1 ELSE 0
  IN Put(q, ReserveRegs([f EXCEPT !.numparams = f.nactvar - hidden], f.nactvar))

-----------------------------------------------------------------------------
(* Expressions.                                                             *)

RECURSIVE Chunk(_), SubExpr(_, _), Constructor(_), PrimarySuffix(_),
          ExpList1(_, _), ConsItems(_, _)

Expr(p) == LET r == SubExpr(p, 0) IN PE(r.p, r.e)

Body(p, needself) ==
  LET q == CheckNext(OpenFunc(p), "(")
      r == IF needself THEN AdjustLocalVars(NewLocalVar(q, "self", 0), 1) ELSE q
      s == CheckNext(Chunk(CheckNext(ParList(r), ")")), "end")
  IN PushClosure(CloseFunc(s))

ToNextReg(q) == With(q.p, Exp2NextReg(XOf(q)))
ToAnyReg(q) == With(q.p, Exp2AnyReg(XOf(q)))

\* The comma-separated expressions; n counts those read before this one.
ExpList1(p, n) ==
  LET q == Expr(p)
  IN IF Kind(q.p) = "," THEN ExpList1(NextTok(ToNextReg(q).p), n + 1)
     ELSE [p |-> q.p, e |-> q.e, n |-> n + 1]

Field(q) ==
  LET r == ToAnyReg(q)
      key == CheckName(NextTok(r.p))
  IN With(key.p, Indexed(Cur(key.p), r.e, key.e))

YIndex(p) ==
  LET q == Expr(NextTok(p))
      r == With(q.p, Exp2Val(XOf(q)))
  IN PE(CheckNext(r.p, "]"), r.e)

\* The size operands of NEWTABLE: a floating-point byte, rounded up.
RECURSIVE Int2FbAux(_, _)
Int2FbAux(x, e) == IF x < 16 THEN IF x < 8 THEN x ELSE (e + 1) * 8 + (x - 8)
                   ELSE Int2FbAux((x + 1) \div 2, e + 1)
Int2Fb(x) == Int2FbAux(x, 0)

RecField(p, cc) ==
  LET reg == Cur(p).freereg
      key == IF Kind(p) = "name" THEN CheckName(p) ELSE YIndex(p)
      q == CheckNext(key.p, "=")
      rk == Exp2RK(X(Cur(q), key.e))
      val == Expr(Put(q, rk.f))
      k2 == Exp2RK(X(Cur(val.p), rk.e))
      v2 == Exp2RK(X(k2.f, val.e))
      f == CodeABC(v2.f, "SETTABLE", cc.t, k2.rk, v2.rk)
  IN [p |-> Put(val.p, [f EXCEPT !.freereg = reg]), cc |-> [cc EXCEPT !.nh = @ + 1]]

ListField(p, cc) ==
  LET q == Expr(p)
  IN [p |-> q.p, cc |-> [cc EXCEPT !.v = q.e, !.na = @ + 1, !.tostore = @ + 1]]

CloseListField(p, cc) ==
  LET f == Exp2NextReg(X(Cur(p), cc.v)).f
      full == cc.tostore = FieldsPerFlush
  IN IF cc.v.k = "VVOID" THEN [p |-> p, cc |-> cc]
     ELSE [p |-> Put(p, IF full THEN SetList(f, cc.t, cc.na, cc.tostore) ELSE f),
           cc |-> [cc EXCEPT !.v.k = "VVOID", !.tostore = IF full THEN 0 ELSE @]]

ConsItems(p, cc) ==
  LET q == OnCur(p, LAMBDA f : LuaAssert(f, cc.v.k = "VVOID" \/ cc.tostore > 0))
      c == CloseListField(q, cc)
      named == Kind(c.p) = "name" /\ Kind(NextTok(c.p)) = "="
      r == IF named \/ Kind(c.p) = "[" THEN RecField(c.p, c.cc) ELSE ListField(c.p, c.cc)
  IN IF Kind(p) = "}" THEN [p |-> q, cc |-> cc]
     ELSE IF Kind(r.p) \in {",", ";"} THEN ConsItems(NextTok(r.p), r.cc) ELSE r

LastListField(f, cc) ==
  LET g == IF cc.v.k = "VVOID" THEN f ELSE Exp2NextReg(X(f, cc.v)).f
  IN CASE cc.tostore = 0 -> f
       [] cc.tostore > 0 /\ HasMultRet(cc.v) ->
            SetList(SetReturns(f, cc.v, MultRet), cc.t, cc.na, MultRet)
       [] OTHER -> SetList(g, cc.t, cc.na, cc.tostore)

Constructor(p) ==
  LET f == Cur(p)
      pc == Pc(f)
      t == ToNextReg(PE(Put(p, CodeABC(f, "NEWTABLE", 0, 0, 0)), Exp("VRELOCABLE", pc)))
      cc == [v |-> Exp("VVOID", 0), na |-> 0, nh |-> 0, tostore |-> 0, t |-> t.e.info]
      r == ConsItems(CheckNext(t.p, "{"), cc)
      q == CheckNext(r.p, "}")
      \* an open last item is not counted
      na == r.cc.na - (IF r.cc.tostore > 0 /\ HasMultRet(r.cc.v) THEN 1 ELSE 0)
      g == LastListField(Cur(q), r.cc)
  IN PE(Put(q, [g EXCEPT !.code[pc + 1].b = Int2Fb(na),
                         !.code[pc + 1].c = Int2Fb(r.cc.nh)]), t.e)

\* The arguments and the call of the function in register fn.info.
FuncArgs(p, fn) ==
  LET open(q) == IF HasMultRet(q.e) THEN PE(OnCur(q.p, LAMBDA f : SetReturns(f, q.e, MultRet)), q.e)
                 ELSE q
      none == PE(NextTok(p), Exp("VVOID", 0))
      list == LET l == ExpList1(NextTok(p), 0) IN open(PE(l.p, l.e))
      paren == LET l == IF Kind(NextTok(p)) = ")" THEN none ELSE list
               IN PE(CheckNext(l.p, ")"), l.e)
      str == CodeString(NextTok(p), Text(p))
      args == CASE Kind(p) = "(" -> paren
                [] Kind(p) = "{" -> Constructor(p)
                [] Kind(p) = "string" -> str
                [] OTHER -> PE(Fail(p), Exp("VVOID", 0))
      base == fn.info
      f == IF HasMultRet(args.e) \/ args.e.k = "VVOID" THEN Cur(args.p)
           ELSE Cur(ToNextReg(args).p)
      nparams == IF HasMultRet(args.e) THEN MultRet ELSE f.freereg - (base + 1)
      g == CodeABC(LuaAssert(f, fn.k = "VNONRELOC"), "CALL", base, nparams + 1, 2)
  IN PE(Put(args.p, [g EXCEPT !.freereg = base + 1]), Exp("VCALL", Pc(f)))

PrefixExp(p) ==
  LET q == Expr(NextTok(p))
      r == CheckNext(q.p, ")")
  IN CASE Kind(p) = "(" -> With(r, DischargeVars(X(Cur(r), q.e)))
       [] Kind(p) = "name" -> SingleVar(p)
       [] OTHER -> PE(Fail(p), Exp("VVOID", 0))

PrimarySuffix(q) ==
  CASE Kind(q.p) = "." -> PrimarySuffix(Field(q))
    [] Kind(q.p) = "[" ->
         LET r == ToAnyReg(q)
             key == YIndex(r.p)
         IN PrimarySuffix(With(key.p, Indexed(Cur(key.p), r.e, key.e)))
    [] Kind(q.p) = ":" ->
         LET key == CheckName(NextTok(q.p))
             s == With(key.p, Self(X(Cur(key.p), q.e), key.e))
         IN PrimarySuffix(FuncArgs(s.p, s.e))
    [] Kind(q.p) \in {"(", "string", "{"} ->
         LET r == ToNextReg(q) IN PrimarySuffix(FuncArgs(r.p, r.e))
    [] OTHER -> q

PrimaryExp(p) == PrimarySuffix(PrefixExp(p))

VarArg(p) ==
  LET f == [Cur(p) EXCEPT !.vararg = @ \ {"needsarg"}]
  IN IF f.vararg = {} THEN PE(Fail(p), Exp("VNIL", 0))
     ELSE PE(Put(NextTok(p), CodeABC(f, "VARARG", 0, 1, 0)), Exp("VVARARG", Pc(f)))

SimpleExp(p) ==
  CASE Kind(p) = "number" -> PE(NextTok(p), [Exp("VKNUM", 0) EXCEPT !.nval = Tok(p).n])
    [] Kind(p) = "string" -> CodeString(NextTok(p), Text(p))
    [] Kind(p) = "nil" -> PE(NextTok(p), Exp("VNIL", 0))
    [] Kind(p) = "true" -> PE(NextTok(p), Exp("VTRUE", 0))
    [] Kind(p) = "false" -> PE(NextTok(p), Exp("VFALSE", 0))
    [] Kind(p) = "..." -> VarArg(p)
    [] Kind(p) = "{" -> Constructor(p)
    [] Kind(p) = "function" -> Body(NextTok(p), FALSE)
    [] OTHER -> PrimaryExp(p)

\* How strongly an operator binds to its left and to its right.
Priority == [o \in {"+", "-", "*", "/", "%", "^", "..", "~=", "==", "<", "<=", ">",
                    ">=", "and", "or"} |->
  CASE o \in {"+", "-"} -> <<6, 6>>
    [] o \in {"*", "/", "%"} -> <<7, 7>>
    [] o = "^" -> <<10, 9>>
    [] o = ".." -> <<5, 4>>
    [] o = "and" -> <<2, 2>>
    [] o = "or" -> <<1, 1>>
    [] OTHER -> <<3, 3>>]
UnaryPriority == 8

RECURSIVE BinaryTail(_, _)
BinaryTail(q, limit) ==
  LET op == Kind(q.p)
      l == With(NextTok(q.p), Infix(op, XOf(q)))
      r == SubExpr(l.p, Priority[op][2])
  IN IF op \in DOMAIN Priority /\ Priority[op][1] > limit
     THEN BinaryTail(With(r.p, Posfix(op, Cur(r.p), l.e, r.e)), limit)
     ELSE q

SubExpr(p, limit) ==
  LET q == EnterLevel(p)
      u == SubExpr(NextTok(q), UnaryPriority)
      first == IF Kind(q) \in {"not", "-", "#"}
               THEN With(u.p, Prefix(Kind(q), XOf(u))) ELSE SimpleExp(q)
      r == BinaryTail(first, limit)
  IN PE(LeaveLevel(r.p), r.e)

-----------------------------------------------------------------------------
(* Statements.                                                              *)

BlockFollow(p) == Kind(p) \in {"else", "elseif", "end", "until", EOS}

Block(p) ==
  LET q == Chunk(OnCur(p, LAMBDA f : EnterBlock(f, FALSE)))
  IN OnCur(q, LAMBDA f : LeaveBlock(LuaAssert(f, Last(f.bl).breaklist = NoJump)))

\* A local variable that is assigned while an earlier target of the same
\* statement indexes with it: that target uses a copy.
CheckConflict_None(f, lhs, v) == [f |-> f, lhs |-> lhs]
CheckConflict(f, lhs, v) ==
  LET hit(e) == e.k = "VINDEXED" /\ (e.info = v.info \/ e.aux = v.info)
      copied == [i \in DOMAIN lhs |->
                   IF hit(lhs[i]) THEN [lhs[i] EXCEPT !.info = IF @ = v.info THEN f.freereg ELSE @,
                                                      !.aux = IF @ = v.info THEN f.freereg ELSE @]
                   ELSE lhs[i]]
      g == ReserveRegs(CodeABC(f, "MOVE", f.freereg, v.info, 0), 1)
  IN IF v.k = "VLOCAL" /\ \E i \in DOMAIN lhs : hit(lhs[i])
     THEN [f |-> g, lhs |-> copied] ELSE [f |-> f, lhs |-> lhs]

\* Targets that get what is left on the stack, the last one first.
RECURSIVE StoreDefaults(_, _)
StoreDefaults(f, lhs) ==
  IF lhs = <<>> THEN f
  ELSE StoreDefaults(StoreVar(f, Last(lhs), Exp("VNONRELOC", f.freereg - 1)), Front(lhs))

RECURSIVE Assignment(_, _)
Assignment(p, lhs) ==
  LET nv == PrimaryExp(NextTok(p))
      cc == CheckConflict(Cur(nv.p), lhs, nv.e)
      r == ExpList1(CheckNext(p, "="), 0)
      nvars == Len(lhs)
      f == Cur(r.p)
      adjusted == AdjustAssign(f, nvars, r.n, r.e)
      one == SetOneRet(X(f, r.e))
  IN CASE Last(lhs).k \notin {"VLOCAL", "VUPVAL", "VGLOBAL", "VINDEXED"} -> Fail(p)
       [] Kind(p) = "," -> Assignment(Put(nv.p, cc.f), Append(cc.lhs, nv.e))
       [] r.n # nvars ->
            Put(r.p, StoreDefaults(IF r.n > nvars THEN [adjusted EXCEPT !.freereg = @ - (r.n - nvars)]
                                   ELSE adjusted, lhs))
       [] OTHER -> Put(r.p, StoreDefaults(StoreVar(one.f, Last(lhs), one.e), Front(lhs)))

\* The condition; its result is the list of jumps taken when it is false.
Cond(p) ==
  LET q == Expr(p)
      e == [q.e EXCEPT !.k = IF @ = "VNIL" THEN "VFALSE" ELSE @]
      x == GoIfTrue(X(Cur(q.p), e))
  IN [p |-> Put(q.p, x.f), exit |-> x.e.f]

BreakStat(p) ==
  LET f == Cur(p)
      loops == {i \in DOMAIN f.bl : f.bl[i].isbreakable}
      l == CHOOSE i \in loops : \A j \in loops : j <= i
      upval == \E i \in l + 1 .. Len(f.bl) : f.bl[i].upval
      g == Jump(IF upval THEN CodeABC(f, "CLOSE", f.bl[l].nactvar, 0, 0) ELSE f)
  IN IF loops = {} THEN Fail(p)
     ELSE Put(p, [ConcatF(g, f.bl[l].breaklist, Pc(g) - 1)
                    EXCEPT !.bl[l].breaklist = ConcatL(@, Pc(g) - 1)])

JumpBack(f, target) == LET g == Jump(f) IN PatchList(g, Pc(g) - 1, target)

WhileStat(p) ==
  LET c == Cond(OnCur(NextTok(p), GetLabel))
      q == CheckNext(OnCur(c.p, LAMBDA f : EnterBlock(f, TRUE)), "do")
      r == OnCur(Block(q), LAMBDA f : JumpBack(f, Pc(Cur(p))))
  IN OnCur(CheckNext(r, "end"), LAMBDA f : PatchToHere(LeaveBlock(f), c.exit))

RepeatStat(p) ==
  LET init == Pc(Cur(p))
      q == OnCur(NextTok(p), LAMBDA f : EnterBlock(EnterBlock(GetLabel(f), TRUE), FALSE))
      c == Cond(CheckNext(Chunk(q), "until"))
      simple(f) == PatchList(LeaveBlock(f), c.exit, init)
      closing(f) == JumpBack(LeaveBlock(PatchToHere(f, c.exit)), init)
      r == IF Last(Cur(c.p).bl).upval THEN OnCur(BreakStat(c.p), closing)
           ELSE OnCur(c.p, simple)
  IN OnCur(r, LeaveBlock)

ForBody(p, base, nvars, isnum) ==
  LET q == CheckNext(AdjustLocalVars(p, 3), "do")
      f0 == IF isnum THEN CodeABC(Cur(q), "FORPREP", base, NoJump, 0) ELSE Jump(Cur(q))
      prep == Pc(f0) - 1
      f1 == ReserveRegs([EnterBlock(f0, FALSE) EXCEPT !.nactvar = @ + nvars], nvars)
      r == Block(Put(q, f1))
      f2 == PatchToHere(LeaveBlock(Cur(r)), prep)
      f3 == IF isnum THEN CodeABC(f2, "FORLOOP", base, NoJump, 0)
            ELSE Jump(CodeABC(f2, "TFORLOOP", base, 0, nvars))
  IN Put(r, PatchList(f3, Pc(f3) - 1, prep + 1))

\* Three hidden variables control the loop.
Control(p, w) == NewLocalVar(NewLocalVar(NewLocalVar(p, w[1], 0), w[2], 1), w[3], 2)

ForNum(p, varname) ==
  LET base == Cur(p).freereg
      one(q) == ToNextReg(Expr(q)).p
      q0 == NewLocalVar(Control(p, <<"(for index)", "(for limit)", "(for step)">>), varname, 3)
      q1 == one(CheckNext(one(CheckNext(q0, "=")), ","))
      k == AddK(Cur(q1), Num(1))
      q2 == IF Kind(q1) = "," THEN one(NextTok(q1))
            ELSE Put(q1, ReserveRegs(CodeABC(k, "LOADK", k.freereg, KIndex(k, Num(1)), 0), 1))
  IN ForBody(q2, base, 1, TRUE)

RECURSIVE ForNames(_, _)
ForNames(p, n) == IF Kind(p) # "," THEN [p |-> p, n |-> n]
                  ELSE LET q == NextTok(p)
                       IN ForNames(NewLocalVar(CheckNext(q, "name"), Text(q), n), n + 1)

ForList(p, indexname) ==
  LET base == Cur(p).freereg
      q == NewLocalVar(Control(p, <<"(for generator)", "(for state)", "(for control)">>),
                       indexname, 3)
      r == ForNames(q, 4)
      l == ExpList1(CheckNext(r.p, "in"), 0)
      f == CheckStack(AdjustAssign(Cur(l.p), 3, l.n, l.e), 3)
  IN ForBody(Put(l.p, f), base, r.n - 3, FALSE)

ForStat(p) ==
  LET q == NextTok(OnCur(p, LAMBDA f : EnterBlock(f, TRUE)))
      r == CheckNext(q, "name")
      s == CASE Kind(r) = "=" -> ForNum(r, Text(q))
             [] Kind(r) \in {",", "in"} -> ForList(r, Text(q))
             [] OTHER -> Fail(r)
  IN OnCur(CheckNext(s, "end"), LeaveBlock)

TestThenBlock(p) ==
  LET c == Cond(NextTok(p))
  IN [p |-> Block(CheckNext(c.p, "then")), exit |-> c.exit]

\* The blocks after the first: esc jumps past them, flist skips the last one.
RECURSIVE IfTail(_, _, _)
IfTail(p, flist, esc) ==
  LET g == Jump(Cur(p))
      j == Pc(g) - 1
      f == PatchToHere(ConcatF(g, esc, j), flist)
      t == TestThenBlock(Put(p, f))
      h == Cur(p)
  IN CASE Kind(p) = "elseif" -> IfTail(t.p, t.exit, ConcatL(esc, j))
       [] Kind(p) = "else" -> OnCur(Block(NextTok(Put(p, f))),
                                    LAMBDA k : PatchToHere(k, ConcatL(esc, j)))
       [] OTHER -> Put(p, PatchToHere(ConcatF(h, esc, flist), ConcatL(esc, flist)))

IfStat(p) == LET t == TestThenBlock(p) IN CheckNext(IfTail(t.p, t.exit, NoJump), "end")

LocalFunc(p) ==
  LET q == NewLocalVar(CheckNext(p, "name"), Text(p), 0)
      v == Exp("VLOCAL", Cur(q).freereg)
      b == Body(AdjustLocalVars(OnCur(q, LAMBDA f : ReserveRegs(f, 1)), 1), FALSE)
  IN Put(b.p, StoreVar(Cur(b.p), v, b.e))

RECURSIVE LocalNames(_, _)
LocalNames(p, n) ==
  LET q == NewLocalVar(CheckNext(p, "name"), Text(p), n)
  IN IF Kind(q) = "," THEN LocalNames(NextTok(q), n + 1) ELSE [p |-> q, n |-> n + 1]

LocalStat(p) ==
  LET v == LocalNames(p, 0)
      l == IF Kind(v.p) = "=" THEN ExpList1(NextTok(v.p), 0)
           ELSE [p |-> v.p, e |-> Exp("VVOID", 0), n |-> 0]
  IN AdjustLocalVars(Put(l.p, AdjustAssign(Cur(l.p), v.n, l.n, l.e)), v.n)

RECURSIVE FuncName(_)
FuncName(q) == IF Kind(q.p) = "." THEN FuncName(Field(q)) ELSE q

FuncStat(p) ==
  LET v == FuncName(SingleVar(NextTok(p)))
      needself == Kind(v.p) = ":"
      w == IF needself THEN Field(v) ELSE v
      b == Body(w.p, needself)
  IN Put(b.p, StoreVar(Cur(b.p), w.e, b.e))

ExprStat(p) ==
  LET q == PrimaryExp(p)
  IN IF q.e.k = "VCALL" THEN OnCur(q.p, LAMBDA f : [f EXCEPT !.code[q.e.info + 1].c = 1])
     ELSE Assignment(q.p, <<q.e>>)

RetStat(p) ==
  LET q == NextTok(p)
      l == ExpList1(q, 0)
      f == Cur(l.p)
      m == SetReturns(f, l.e, MultRet)
      tail == LuaAssert([m EXCEPT !.code[l.e.info + 1].op = "TAILCALL"],
                        At(f, l.e.info).a = f.nactvar)
      any == Exp2AnyReg(X(f, l.e))
      all == Exp2NextReg(X(f, l.e)).f
  IN CASE BlockFollow(q) \/ Kind(q) = ";" -> OnCur(q, LAMBDA h : Ret(h, 0, 0))
       [] HasMultRet(l.e) ->
            Put(l.p, Ret(IF l.e.k = "VCALL" /\ l.n = 1 THEN tail ELSE m, f.nactvar, MultRet))
       [] l.n = 1 -> Put(l.p, Ret(any.f, any.e.info, 1))
       [] OTHER -> Put(l.p, Ret(LuaAssert(all, l.n = all.freereg - f.nactvar), f.nactvar, l.n))

Statement(p) ==
  CASE Kind(p) = "if" -> IfStat(p)
    [] Kind(p) = "while" -> WhileStat(p)
    [] Kind(p) = "do" -> CheckNext(Block(NextTok(p)), "end")
    [] Kind(p) = "for" -> ForStat(p)
    [] Kind(p) = "repeat" -> RepeatStat(p)
    [] Kind(p) = "function" -> FuncStat(p)
    [] Kind(p) = "local" -> IF Kind(NextTok(p)) = "function" THEN LocalFunc(NextTok(NextTok(p)))
                            ELSE LocalStat(NextTok(p))
    [] Kind(p) = "return" -> RetStat(p)
    [] Kind(p) = "break" -> BreakStat(NextTok(p))
    [] OTHER -> ExprStat(p)

RECURSIVE Statements(_)
Statements(p) ==
  LET islast == Kind(p) \in {"return", "break"}
      free(f) == LuaAssert([f EXCEPT !.freereg = f.nactvar],
                           f.maxstack >= f.freereg /\ f.freereg >= f.nactvar)
      q == OnCur(SkipIf(Statement(p), ";"), free)
  IN IF BlockFollow(p) THEN p ELSE IF islast THEN q ELSE Statements(q)

Chunk(p) == LeaveLevel(Statements(EnterLevel(p)))

\* The main function of a program, and what became of the compilation.
Parse(words) ==
  LET p0 == OpenFunc([fs |-> <<>>, ts |-> words, err |-> FALSE, lvl |-> 0])
      p1 == Chunk(OnCur(p0, LAMBDA f : [f EXCEPT !.vararg = {"isvararg"}]))
      p2 == CloseFunc(IF Kind(p1) = EOS THEN p1 ELSE Fail(p1))
      f == Cur(p2)
  IN [main |-> ProtoOf(f), failed |-> p2.err \/ f.bad,
      asserts |-> f.ok /\ Len(p2.fs) = 1 /\ f.upvalues = <<>>]
=============================================================================
