---------------------------- MODULE LuaPrograms ----------------------------
(***************************************************************************)
(* What a Lua program means, stated on its syntax tree and independently   *)
(* of the compiler and the machine, and the programs that the checks       *)
(* compile, run and compare with their meaning.  A program is a sequence   *)
(* of statements; Words writes it out as the words that the parser reads,  *)
(* with no more parentheses than the precedence of the operators asks for. *)
(*                                                                         *)
(* A variable is a cell; an environment maps the visible names to cells;   *)
(* a closure is a function with the environment it was made in.  Eval      *)
(* returns the values of an expression, Stat how a statement ended         *)
(* (flow), both with the store m they leave.  An error sets m.x and every  *)
(* rule then stops.                                                        *)
(***************************************************************************)
EXTENDS Integers, Sequences, SequencesExt, FiniteSets, TLC

-----------------------------------------------------------------------------
(* Syntax trees.                                                            *)

Lit(w) == [k |-> "lit", w |-> w]                \* nil, true, false
N(n) == [k |-> "num", n |-> n]
S(w) == [k |-> "str", w |-> w]
V(w) == [k |-> "var", w |-> w]
Dots == [k |-> "dots"]
Bin(op, l, r) == [k |-> "bin", op |-> op, l |-> l, r |-> r]
Un(op, e) == [k |-> "un", op |-> op, e |-> e]
Par(e) == [k |-> "par", e |-> e]
Ix(o, key) == [k |-> "index", o |-> o, key |-> key]
Call(f, args) == [k |-> "call", f |-> f, args |-> args]
Meth(o, w, args) == [k |-> "meth", o |-> o, w |-> w, args |-> args]
\* va: "no", "dots" (the body uses ...) or "arg" (it does not).
Fn(params, va, body) == [k |-> "fn", params |-> params, va |-> va, body |-> body]
\* items: [n, e]: n is "" for a list item, a name, or "[" for the key in key.
Tbl(items) == [k |-> "tbl", items |-> items]
It(e) == [n |-> "", key |-> N(0), e |-> e]
Named(w, e) == [n |-> w, key |-> N(0), e |-> e]
Keyed(key, e) == [n |-> "[", key |-> key, e |-> e]

Local(names, es) == [k |-> "local", names |-> names, es |-> es]
Assign(lhs, es) == [k |-> "assign", lhs |-> lhs, es |-> es]
Do1(e) == [k |-> "do1", e |-> e]
Blk(b) == [k |-> "block", b |-> b]
While(c, b) == [k |-> "while", c |-> c, b |-> b]
Repeat(b, c) == [k |-> "repeat", c |-> c, b |-> b]
If(arms, els) == [k |-> "if", arms |-> arms, els |-> els]   \* arms: <<c, b>>
ForN(w, es, b) == [k |-> "fornum", w |-> w, es |-> es, b |-> b]
ForIn(names, es, b) == [k |-> "forin", names |-> names, es |-> es, b |-> b]
LocalF(w, fn) == [k |-> "localf", w |-> w, fn |-> fn]
FuncS(path, meth, fn) == [k |-> "funcs", path |-> path, meth |-> meth, fn |-> fn]
Return(es) == [k |-> "return", es |-> es]
Break == [k |-> "break"]

-----------------------------------------------------------------------------
(* Words: the tokens of a program.                                         *)

Prec(op) == CASE op = "or" -> 1 [] op = "and" -> 2
              [] op \in {"<", "<=", ">", ">=", "==", "~="} -> 3
              [] op = ".." -> 5 [] op \in {"+", "-"} -> 6
              [] op \in {"*", "/", "%"} -> 7 [] op = "^" -> 10
Level(e) == CASE e.k = "bin" -> Prec(e.op) [] e.k = "un" -> 8 [] OTHER -> 11
RightAssoc(op) == op \in {"..", "^"}

\* Tokens: the kind, and what a number, a string or a name carries.
Token(kind, n, w) == <<[k |-> kind, n |-> n, s |-> w]>>
K(w) == Token(w, 0, "")
Nm(w) == Token("name", 0, w)

RECURSIVE Join(_)
Join(lists) == CASE lists = <<>> -> <<>>
                 [] Len(lists) = 1 -> lists[1]
                 [] OTHER -> lists[1] \o K(",") \o Join(Tail(lists))

RECURSIVE EW(_), BW(_)
ES(es) == Join([j \in DOMAIN es |-> EW(es[j])])
Wrapped(e, bare) == IF bare THEN EW(e) ELSE K("(") \o EW(e) \o K(")")
FnW(fn) == LET names == [j \in DOMAIN fn.params |-> Nm(fn.params[j])]
           IN K("(") \o Join(IF fn.va = "no" THEN names ELSE Append(names, K("...")))
              \o K(")") \o BW(fn.body) \o K("end")
ItemW(x) == (CASE x.n = "" -> <<>>
               [] x.n = "[" -> K("[") \o EW(x.key) \o K("]") \o K("=")
               [] OTHER -> Nm(x.n) \o K("=")) \o EW(x.e)
ArgsW(args) ==
  CASE Len(args) = 1 /\ args[1].k \in {"str", "tbl"} -> EW(args[1])
    [] OTHER -> K("(") \o ES(args) \o K(")")
EW(e) ==
  CASE e.k = "lit" -> K(e.w)
    [] e.k = "num" -> Token("number", e.n, "")
    [] e.k = "str" -> Token("string", 0, e.w)
    [] e.k = "var" -> Nm(e.w)
    [] e.k = "dots" -> K("...")
    [] e.k = "bin" ->
         LET p == Prec(e.op)
             l == Level(e.l)
             r == Level(e.r)
         IN Wrapped(e.l, l > p \/ (l = p /\ ~RightAssoc(e.op))) \o K(e.op)
            \o Wrapped(e.r, r > p \/ (r = p /\ RightAssoc(e.op)))
    [] e.k = "un" -> K(e.op) \o Wrapped(e.e, Level(e.e) >= 8)
    [] e.k = "par" -> K("(") \o EW(e.e) \o K(")")
    [] e.k = "index" -> EW(e.o) \o IF e.key.k = "str" THEN K(".") \o Nm(e.key.w)
                                   ELSE K("[") \o EW(e.key) \o K("]")
    [] e.k = "call" -> EW(e.f) \o ArgsW(e.args)
    [] e.k = "meth" -> EW(e.o) \o K(":") \o Nm(e.w) \o ArgsW(e.args)
    [] e.k = "fn" -> K("function") \o FnW(e)
    [] e.k = "tbl" -> K("{") \o Join([j \in DOMAIN e.items |-> ItemW(e.items[j])]) \o K("}")

NamesW(names) == Join([j \in DOMAIN names |-> Nm(names[j])])
RECURSIVE ArmsW(_, _)
ArmsW(arms, kw) == IF arms = <<>> THEN <<>>
                   ELSE K(kw) \o EW(arms[1][1]) \o K("then") \o BW(arms[1][2])
                        \o ArmsW(Tail(arms), "elseif")
SW(s) ==
  CASE s.k = "local" -> K("local") \o NamesW(s.names)
                        \o IF s.es = <<>> THEN <<>> ELSE K("=") \o ES(s.es)
    [] s.k = "assign" -> ES(s.lhs) \o K("=") \o ES(s.es)
    [] s.k = "do1" -> EW(s.e) \o K(";")
    [] s.k = "block" -> K("do") \o BW(s.b) \o K("end")
    [] s.k = "while" -> K("while") \o EW(s.c) \o K("do") \o BW(s.b) \o K("end")
    [] s.k = "repeat" -> K("repeat") \o BW(s.b) \o K("until") \o EW(s.c)
    [] s.k = "if" -> ArmsW(s.arms, "if")
                     \o (IF s.els = <<>> THEN <<>> ELSE K("else") \o BW(s.els)) \o K("end")
    [] s.k = "fornum" -> K("for") \o Nm(s.w) \o K("=") \o ES(s.es) \o K("do") \o BW(s.b) \o K("end")
    [] s.k = "forin" -> K("for") \o NamesW(s.names) \o K("in") \o ES(s.es)
                        \o K("do") \o BW(s.b) \o K("end")
    [] s.k = "localf" -> K("local") \o K("function") \o Nm(s.w) \o FnW(s.fn)
    [] s.k = "funcs" -> K("function") \o FlattenSeq([j \in 1 .. 2 * Len(s.path) - 1 |->
                           IF j % 2 = 1 THEN Nm(s.path[(j + 1) \div 2])
                           ELSE K(IF s.meth /\ j = 2 * Len(s.path) - 2 THEN ":" ELSE ".")])
                        \o FnW(s.fn)
    [] s.k = "return" -> K("return") \o ES(s.es) \o K(";")
    [] s.k = "break" -> K("break")
BW(b) == FlattenSeq([j \in DOMAIN b |-> SW(b[j])])
Words(program) == BW(program)

-----------------------------------------------------------------------------
(* Values and the store.                                                    *)

VNil == [t |-> "nil", n |-> 0, s |-> ""]
VBool(b) == [t |-> "bool", n |-> IF b THEN 1 ELSE 0, s |-> ""]
VNum(n) == [t |-> "num", n |-> n, s |-> ""]
VStr(w) == [t |-> "str", n |-> 0, s |-> w]
Of(t, n) == [t |-> t, n |-> n, s |-> ""]
Yes(v) == v.t # "nil" /\ v # VBool(FALSE)
Fault == VStr("error")

Store0 == [cells |-> <<>>, funs |-> <<>>, log |-> <<>>, x |-> "ok", ev |-> VNil,
           tabs |-> <<[v \in {VStr(w) : w \in {"p", "nxt", "error", "pcall"}} |->
                         [t |-> "cfun", n |-> 0, s |-> v.s]]>>]
Throwing(m, v) == [m EXCEPT !.x = "throw", !.ev = v]
MV(m, v) == [m |-> m, v |-> v]
Thrown(m) == MV(Throwing(m, Fault), <<VNil>>)

First(vs) == IF vs = <<>> THEN VNil ELSE vs[1]
Nth(vs, j) == IF j <= Len(vs) THEN vs[j] ELSE VNil
Get(m, t, key) == IF t.t # "tab" THEN Thrown(m)
                  ELSE MV(m, <<IF key \in DOMAIN m.tabs[t.n] THEN m.tabs[t.n][key] ELSE VNil>>)
PutIn(m, t, key, v) ==
  IF t.t # "tab" \/ key = VNil THEN Throwing(m, Fault)
  ELSE [m EXCEPT !.tabs[t.n] = IF v = VNil THEN [z \in DOMAIN @ \ {key} |-> @[z]]
                                           ELSE (key :> v) @@ @]

\* Declare names with values: new cells, seen by what follows.
Declare(env, names, m, vs) ==
  LET base == Len(m.cells)
  IN [env |-> FoldLeft(LAMBDA e2, j : (names[j] :> base + j) @@ e2, env,
                       [j \in DOMAIN names |-> j]),
      m |-> [m EXCEPT !.cells = @ \o [j \in DOMAIN names |-> Nth(vs, j)]]]

-----------------------------------------------------------------------------
(* Expressions.                                                             *)

RECURSIVE Eval(_, _, _, _), EvalList(_, _, _, _), Run(_, _, _, _), Apply(_, _, _),
          Pow(_, _), Below(_, _)
Eval1(e, env, va, m) == LET r == Eval(e, env, va, m) IN MV(r.m, First(r.v))

EvalList(es, env, va, m) ==
  LET one == Eval1(es[1], env, va, m)
      rest == EvalList(Tail(es), env, va, one.m)
  IN CASE es = <<>> -> MV(m, <<>>)
       [] Len(es) = 1 -> Eval(es[1], env, va, m)
       [] OTHER -> IF one.m.x = "throw" THEN MV(one.m, <<>>)
                   ELSE MV(rest.m, <<one.v>> \o rest.v)

Pow(a, b) == IF b <= 0 THEN 1 ELSE a * Pow(a, b - 1)
Text2(v) == IF v.t = "num" THEN ToString(v.n) ELSE v.s

\* The order of texts: the first character that differs decides.
LettersInOrder == "abcdefghijklmnopqrstuvwxyz"
PlaceOf(w) == CHOOSE n \in 1 .. Len(LettersInOrder) : SubSeq(LettersInOrder, n, n) = SubSeq(w, 1, 1)
Below(w, v) ==
  CASE v = "" -> FALSE
    [] v # "" /\ w = "" -> TRUE
    [] OTHER -> \/ PlaceOf(w) < PlaceOf(v)
                \/ PlaceOf(w) = PlaceOf(v) /\ Below(SubSeq(w, 2, Len(w)), SubSeq(v, 2, Len(v)))

Operate(op, l, r, m) ==
  LET nums == l.t = "num" /\ r.t = "num"
      texts == op \in {"<", "<=", ">", ">="} /\ l.t = "str" /\ r.t = "str"
      num(n) == MV(m, <<VNum(n)>>)
      bool(b) == MV(m, <<VBool(b)>>)
  IN CASE op = "==" -> bool(l = r)
       [] op = "~=" -> bool(l # r)
       [] op = ".." -> IF {l.t, r.t} \subseteq {"num", "str"}
                       THEN MV(m, <<VStr(Text2(l) \o Text2(r))>>) ELSE Thrown(m)
       [] texts -> bool(CASE op = "<" -> Below(l.s, r.s) [] op = ">" -> Below(r.s, l.s)
                          [] op = "<=" -> ~Below(r.s, l.s) [] op = ">=" -> ~Below(l.s, r.s))
       [] op \notin {"==", "~=", ".."} /\ ~nums /\ ~texts -> Thrown(m)
       [] op = "+" -> num(l.n + r.n)
       [] op = "-" -> num(l.n - r.n)
       [] op = "*" -> num(l.n * r.n)
       [] op = "/" -> num(l.n \div r.n)
       [] op = "%" -> num(l.n - r.n * (l.n \div r.n))
       [] op = "^" -> num(Pow(l.n, r.n))
       [] op = "<" /\ nums -> bool(l.n < r.n)
       [] op = "<=" /\ nums -> bool(l.n <= r.n)
       [] op = ">" /\ nums -> bool(l.n > r.n)
       [] op = ">=" /\ nums -> bool(l.n >= r.n)

Size(tab) == CHOOSE n \in 0 .. Cardinality(DOMAIN tab) :
               VNum(n + 1) \notin DOMAIN tab /\ \A j \in 1 .. n : VNum(j) \in DOMAIN tab
Prefixed(op, v, m) ==
  CASE op = "not" -> MV(m, <<VBool(~Yes(v))>>)
    [] op = "-" -> IF v.t = "num" THEN MV(m, <<VNum(-v.n)>>) ELSE Thrown(m)
    [] op = "#" -> CASE v.t = "tab" -> MV(m, <<VNum(Size(m.tabs[v.n]))>>)
                     [] v.t = "str" -> MV(m, <<VNum(Len(v.s))>>)
                     [] OTHER -> Thrown(m)

\* The items of a table in order; the last list item gives all its values.
RECURSIVE Fill(_, _, _, _, _, _)
Fill(items, next, t, env, va, m) ==
  LET x == items[1]
      key == CASE x.n = "" -> MV(m, VNum(next))
               [] x.n = "[" -> Eval1(x.key, env, va, m)
               [] OTHER -> MV(m, VStr(x.n))
      r == Eval(x.e, env, va, key.m)
      all == x.n = "" /\ Len(items) = 1
      m2 == IF all THEN FoldLeft(LAMBDA h, j : PutIn(h, t, VNum(next + j - 1), r.v[j]), r.m,
                                 [j \in DOMAIN r.v |-> j])
            ELSE PutIn(r.m, t, key.v, First(r.v))
  IN CASE items = <<>> -> m
       [] items # <<>> /\ r.m.x = "throw" -> r.m
       [] OTHER -> Fill(Tail(items), IF x.n = "" THEN next + 1 ELSE next, t, env, va, m2)

CallWith(f, args, env, va, m, self) ==
  LET a == EvalList(args, env, va, m)
  IN IF a.m.x = "throw" THEN MV(a.m, <<>>) ELSE Apply(f, self \o a.v, a.m)

Eval(e, env, va, m) ==
  LET a == Eval1(e.l, env, va, m)
      b == Eval1(e.r, env, va, a.m)
      u == Eval1(e.e, env, va, m)
      o == Eval1(e.o, env, va, m)
      key == Eval1(e.key, env, va, o.m)
      f == Eval1(e.f, env, va, m)
      meth == Get(o.m, o.v, VStr(e.w))
      t == Of("tab", Len(m.tabs) + 1)
  IN IF m.x = "throw" THEN MV(m, <<>>)
     ELSE CASE e.k = "lit" -> MV(m, <<IF e.w = "nil" THEN VNil ELSE VBool(e.w = "true")>>)
       [] e.k = "num" -> MV(m, <<VNum(e.n)>>)
       [] e.k = "str" -> MV(m, <<VStr(e.w)>>)
       [] e.k = "var" -> IF e.w \in DOMAIN env THEN MV(m, <<m.cells[env[e.w]]>>)
                         ELSE Get(m, Of("tab", 1), VStr(e.w))
       [] e.k = "dots" -> MV(m, va)
       [] e.k = "par" -> MV(u.m, <<u.v>>)
       [] e.k = "bin" /\ e.op = "and" -> IF a.m.x = "ok" /\ Yes(a.v) THEN MV(b.m, <<b.v>>)
                                         ELSE MV(a.m, <<a.v>>)
       [] e.k = "bin" /\ e.op = "or" -> IF a.m.x = "ok" /\ ~Yes(a.v) THEN MV(b.m, <<b.v>>)
                                        ELSE MV(a.m, <<a.v>>)
       [] e.k = "bin" /\ e.op \notin {"and", "or"} ->
            IF b.m.x = "throw" THEN MV(b.m, <<>>) ELSE Operate(e.op, a.v, b.v, b.m)
       [] e.k = "un" -> IF u.m.x = "throw" THEN MV(u.m, <<>>) ELSE Prefixed(e.op, u.v, u.m)
       [] e.k = "index" -> IF key.m.x = "throw" THEN MV(key.m, <<>>) ELSE Get(key.m, o.v, key.v)
       [] e.k = "call" -> IF f.m.x = "throw" THEN MV(f.m, <<>>)
                          ELSE CallWith(f.v, e.args, env, va, f.m, <<>>)
       [] e.k = "meth" -> IF o.m.x = "throw" \/ meth.m.x = "throw" THEN MV(meth.m, <<>>)
                          ELSE CallWith(First(meth.v), e.args, env, va, meth.m, <<o.v>>)
       [] e.k = "fn" -> MV([m EXCEPT !.funs = Append(@, [fn |-> e, env |-> env])],
                           <<Of("fun", Len(m.funs) + 1)>>)
       [] e.k = "tbl" -> MV(Fill(e.items, 1, t, env, va, [m EXCEPT !.tabs = Append(@, <<>>)]),
                            <<t>>)

Hidden(v) == IF v.t \in {"tab", "fun", "cfun"} THEN Of(v.t, 0) ELSE v

\* Extra arguments are seen through ... or, in a function without it, in arg.
Apply(f, args, m) ==
  LET c == m.funs[f.n]
      fn == c.fn
      np == Len(fn.params)
      extra == SubSeq(args, np + 1, Len(args))
      kept == {j \in DOMAIN extra : extra[j] # VNil}
      argtab == (VStr("n") :> VNum(Len(extra)))
                @@ [v \in {VNum(j) : j \in kept} |-> extra[v.n]]
      argm == IF fn.va = "arg" THEN [m EXCEPT !.tabs = Append(@, argtab)] ELSE m
      argv == IF fn.va = "arg" THEN Of("tab", Len(argm.tabs)) ELSE VNil
      d == IF fn.va = "no" THEN Declare(c.env, fn.params, m, args)
           ELSE Declare(c.env, Append(fn.params, "arg"), argm,
                        [j \in 1 .. np |-> Nth(args, j)] \o <<argv>>)
      r == Run(fn.body, d.env, extra, d.m)
      inner == Apply(args[1], Tail(args), m)
  IN CASE f.t = "fun" -> MV(r.m, r.v)
       [] f.t = "cfun" /\ f.s = "p" ->
            MV([m EXCEPT !.log = Append(@, [j \in DOMAIN args |-> Hidden(args[j])])], args)
       [] f.t = "cfun" /\ f.s = "nxt" ->
            MV(m, <<IF Nth(args, 2).n < Nth(args, 1).n THEN VNum(Nth(args, 2).n + 1) ELSE VNil>>)
       [] f.t = "cfun" /\ f.s = "error" -> MV(Throwing(m, Nth(args, 1)), <<>>)
       [] f.t = "cfun" /\ f.s = "pcall" ->
            CASE args = <<>> -> Thrown(m)
              [] args # <<>> /\ inner.m.x = "throw" ->
                   MV([inner.m EXCEPT !.x = "ok"], <<VBool(FALSE), inner.m.ev>>)
              [] OTHER -> MV(inner.m, <<VBool(TRUE)>> \o inner.v)
       [] OTHER -> Thrown(m)

-----------------------------------------------------------------------------
(* Statements: flow is "next", "break" or "return" (with the values).       *)

End(m, flow, v, env) == [m |-> m, flow |-> flow, v |-> v, env |-> env]
On(m, env) == End(m, "next", <<>>, env)
Leaving(r, env) == [r EXCEPT !.env = env]
Stopped(r) == r.m.x = "throw" \/ r.flow # "next"

\* What a loop does after one round of its body.
AfterBody(r) == IF r.m.x = "ok" /\ r.flow = "break" THEN [r EXCEPT !.flow = "next"] ELSE r

Target(lhs, env, va, m) ==   \* the table and the key of an indexed target
  LET o == Eval1(lhs.o, env, va, m)
      key == Eval1(lhs.key, env, va, o.m)
  IN IF lhs.k = "index" THEN [m |-> key.m, o |-> o.v, key |-> key.v]
     ELSE [m |-> m, o |-> VNil, key |-> VNil]
RECURSIVE Targets(_, _, _, _)
Targets(lhs, env, va, m) ==
  LET t == Target(lhs[1], env, va, m)
      rest == Targets(Tail(lhs), env, va, t.m)
  IN IF lhs = <<>> THEN [m |-> m, ts |-> <<>>] ELSE [m |-> rest.m, ts |-> <<t>> \o rest.ts]
Put1(m, lhs, t, env, v) ==
  CASE m.x = "throw" -> m
    [] m.x = "ok" /\ lhs.k = "index" -> PutIn(m, t.o, t.key, v)
    [] OTHER -> IF lhs.w \in DOMAIN env THEN [m EXCEPT !.cells[env[lhs.w]] = v]
                ELSE PutIn(m, Of("tab", 1), VStr(lhs.w), v)

RECURSIVE WhileDo(_, _, _, _), RepeatDo(_, _, _, _), IfDo(_, _, _, _), ForNDo(_, _, _, _, _, _, _),
          ForInDo(_, _, _, _, _, _, _)
WhileDo(s, env, va, m) ==
  LET c == Eval1(s.c, env, va, m)
      r == Run(s.b, env, va, c.m)
  IN CASE c.m.x = "throw" -> On(c.m, env)
       [] c.m.x = "ok" /\ ~Yes(c.v) -> On(c.m, env)
       [] OTHER -> IF Stopped(r) THEN AfterBody(r) ELSE WhileDo(s, env, va, r.m)
RepeatDo(s, env, va, m) ==
  LET r == Run(s.b, env, va, m)
      c == Eval1(s.c, r.env, va, r.m)
  IN CASE Stopped(r) -> AfterBody(r)
       [] ~Stopped(r) /\ (c.m.x = "throw" \/ Yes(c.v)) -> On(c.m, env)
       [] OTHER -> RepeatDo(s, env, va, c.m)
IfDo(s, env, va, m) ==
  LET c == Eval1(s.arms[1][1], env, va, m)
  IN CASE s.arms = <<>> -> Run(s.els, env, va, m)
       [] s.arms # <<>> /\ c.m.x = "throw" -> On(c.m, env)
       [] OTHER -> IF Yes(c.v) THEN Run(s.arms[1][2], env, va, c.m)
                   ELSE IfDo([s EXCEPT !.arms = Tail(@)], env, va, c.m)
ForNDo(s, now, limit, step, env, va, m) ==
  LET d == Declare(env, <<s.w>>, m, <<VNum(now)>>)
      r == Run(s.b, d.env, va, d.m)
  IN IF IF step > 0 THEN now > limit ELSE now < limit THEN On(m, env)
     ELSE IF Stopped(r) THEN AfterBody(r) ELSE ForNDo(s, now + step, limit, step, env, va, r.m)
ForInDo(s, f, state, ctl, env, va, m) ==
  LET a == Apply(f, <<state, ctl>>, m)
      d == Declare(env, s.names, a.m, a.v)
      r == Run(s.b, d.env, va, d.m)
  IN CASE a.m.x = "throw" -> On(a.m, env)
       [] a.m.x = "ok" /\ First(a.v) = VNil -> On(a.m, env)
       [] OTHER -> IF Stopped(r) THEN AfterBody(r)
                   ELSE ForInDo(s, f, state, First(a.v), env, va, r.m)

Stat(s, env, va, m) ==
  LET es == EvalList(s.es, env, va, m)
      d == Declare(env, s.names, es.m, es.v)
      ts == Targets(s.lhs, env, va, m)
      vs == EvalList(s.es, env, va, ts.m)
      last == Len(s.lhs)
      store(h, j) == Put1(h, s.lhs[last + 1 - j], ts.ts[last + 1 - j], env, Nth(vs.v, last + 1 - j))
      fd == Declare(env, <<s.w>>, m, <<>>)
      fv == Eval1(s.fn, fd.env, va, fd.m)
      step == IF Len(es.v) >= 3 THEN es.v[3] ELSE VNum(1)
      fn == IF s.meth THEN [s.fn EXCEPT !.params = <<"self">> \o @] ELSE s.fn
      path == FoldLeft(LAMBDA e, w : Ix(e, S(w)), V(s.path[1]), Tail(s.path))
      e1 == Eval(s.e, env, va, m)
  IN CASE s.k = "local" -> IF es.m.x = "throw" THEN On(es.m, env) ELSE On(d.m, d.env)
       [] s.k = "assign" ->
            IF vs.m.x = "throw" THEN On(vs.m, env)
            ELSE On(FoldLeft(store, vs.m, [j \in 1 .. last |-> j]), env)
       [] s.k = "do1" -> On(e1.m, env)
       [] s.k = "block" -> Leaving(Run(s.b, env, va, m), env)
       [] s.k = "while" -> Leaving(WhileDo(s, env, va, m), env)
       [] s.k = "repeat" -> Leaving(RepeatDo(s, env, va, m), env)
       [] s.k = "if" -> Leaving(IfDo(s, env, va, m), env)
       [] s.k = "fornum" ->
            CASE es.m.x = "throw" -> On(es.m, env)
              [] es.m.x = "ok" /\ {es.v[1].t, es.v[2].t, step.t} # {"num"} -> On(Throwing(m, Fault), env)
              [] OTHER -> Leaving(ForNDo(s, es.v[1].n, es.v[2].n, step.n, env, va, es.m), env)
       [] s.k = "forin" ->
            IF es.m.x = "throw" THEN On(es.m, env)
            ELSE Leaving(ForInDo(s, Nth(es.v, 1), Nth(es.v, 2), Nth(es.v, 3), env, va, es.m), env)
       [] s.k = "localf" -> On([fv.m EXCEPT !.cells[Len(fd.m.cells)] = fv.v], fd.env)
       [] s.k = "funcs" -> LET t == Target(path, env, va, m)
                               v == Eval1(fn, env, va, t.m)
                           IN On(IF v.m.x = "throw" THEN v.m ELSE Put1(v.m, path, t, env, v.v), env)
       [] s.k = "return" -> End(es.m, "return", es.v, env)
       [] s.k = "break" -> End(m, "break", <<>>, env)

Run(b, env, va, m) ==
  LET r == Stat(b[1], env, va, m)
  IN CASE b = <<>> -> On(m, env)
       [] b # <<>> /\ Stopped(r) -> r
       [] OTHER -> Run(Tail(b), r.env, va, r.m)

\* What an observer sees of a program: the calls of p, and how it ended.
Meaning(program) ==
  LET r == Run(program, <<>>, <<>>, Store0)
  IN [log |-> r.m.log, failed |-> r.m.x = "throw",
      v |-> IF r.m.x = "throw" THEN <<Hidden(r.m.ev)>> ELSE [j \in DOMAIN r.v |-> Hidden(r.v[j])]]

-----------------------------------------------------------------------------
(* The programs: conditions of every shape in every place that reads one,   *)
(* and statements picked for what the compiler does differently for them.   *)

a == V("a")
b == V("b")
c == V("c")
f == V("f")
g == V("g")
h == V("h")
i == V("i")
k == V("k")
t == V("t")
u == V("u")
Null == Lit("nil")
Yea == Lit("true")
Nay == Lit("false")
One == N(1)
Two == N(2)
Three == N(3)

Logs(es) == Do1(Call(V("p"), es))
Log(e) == Logs(<<e>>)
Set(v, e) == Assign(<<v>>, <<e>>)
Let(w, e) == Local(<<w>>, <<e>>)
Does(x, es) == Do1(Call(x, es))
Fun(params, body) == Fn(params, "no", body)
Plus(x, y) == Bin("+", x, y)
Less(x, y) == Bin("<", x, y)
Same(x, y) == Bin("==", x, y)

-----------------------------------------------------------------------------
(* Conditions.                                                              *)

Atoms == <<a, c, Null, Yea, Nay, One, Same(a, b), Less(a, b), Call(V("p"), <<b>>), Ix(t, S("x"))>>
Nots(es) == [j \in DOMAIN es |-> Un("not", es[j])]
PairsOf(as) ==
  [j \in 1 .. 2 * Len(as) * Len(as) |->
     Bin(IF j % 2 = 0 THEN "and" ELSE "or", as[((j \div 2) % Len(as)) + 1],
         as[((j - 1) \div (2 * Len(as))) + 1])]
MixedOf(as, ps) ==
  [j \in DOMAIN ps |->
     LET x == ps[j]
         y == as[((7 * j) % Len(as)) + 1]
         z == ps[((13 * j) % Len(ps)) + 1]
     IN CASE j % 6 = 0 -> Bin("and", x, y)
          [] j % 6 = 1 -> Bin("or", Un("not", x), y)
          [] j % 6 = 2 -> Bin("or", y, x)
          [] j % 6 = 3 -> Un("not", Bin("and", y, Un("not", x)))
          [] j % 6 = 4 -> Bin("or", x, z)
          [] j % 6 = 5 -> Bin("and", Un("not", x), Bin("or", y, z))]
\* true and false stay out of the larger conditions: the generator gets some
\* of those wrong (see AlwaysJumps).
Plain == SelectSeq(Atoms, LAMBDA e : e \notin {Yea, Nay})
Conditions == LET as == Atoms
                  ps == PairsOf(as)
                  ms == MixedOf(Plain, PairsOf(Plain))
              IN Nots(as) \o ps \o Nots(ps) \o ms \o Nots(ms)

\* A condition in each place that uses it in its own way.
Places(e) ==
  << Log(e), Let("x", e), Log(V("x")), Set(c, e), Log(c), Set(V("g"), e), Log(V("g")),
     If(<< <<e, <<Log(S("then"))>>>> >>, <<Log(S("else"))>>),
     While(e, <<Log(S("once")), Break>>),
     Repeat(<<Set(c, Yea)>>, Bin("or", e, c)),
     Set(c, Lit("nil")),
     Log(Tbl(<<It(e), Named("y", e)>>)), Log(Same(e, Yea)), Log(Un("not", Par(e))),
     Set(Ix(t, S("z")), e), Log(Ix(t, S("z"))), Return(<<e>>) >>
Prelude == << Local(<<"a", "b", "c">>, <<One, Two>>), Let("t", Tbl(<<Named("x", S("s"))>>)) >>
ConditionProgram(e) == Prelude \o Places(e)

-----------------------------------------------------------------------------
(* Operators and their priorities.                                          *)

Operators ==
  << Let("a", N(5)), Let("b", Two), Let("c", S("s")),
     Logs(<<Plus(One, Bin("*", Two, Three)), Bin("-", Bin("-", a, b), One), Bin("-", a, Bin("-", b, One))>>),
     Logs(<<Bin("^", b, Bin("^", Three, Two)), Un("-", Bin("^", b, Two)), Bin("^", Par(Un("-", b)), Two)>>),
     Logs(<<Bin("%", Un("-", a), Three), Bin("%", Un("-", N(5)), Three), Bin("%", a, Three)>>),
     Logs(<<Bin("..", a, Bin("..", b, c)), Bin("..", Bin("..", a, b), c), Bin("..", One, Two)>>),
     Logs(<<Bin("..", Plus(a, b), Bin("..", c, Plus(b, a)))>>),
     Logs(<<Un("not", Same(a, b)), Same(Un("not", a), b), Un("#", S("abc")), Plus(Un("#", c), One)>>),
     Logs(<<Less(a, b), Bin("<=", b, a), Bin(">", a, b), Bin(">=", b, a), Bin("~=", a, b)>>),
     Logs(<<Same(Bin("/", N(6), Three), b), Bin("/", N(4), b), Bin("*", Plus(a, b), Plus(b, a))>>),
     Logs(<<Bin("and", Less(b, a), Bin("..", c, c)), Bin("or", Same(a, c), Bin("-", a, N(9)))>>),
     Return(<<Un("-", Un("-", a)), Un("not", Un("not", a))>>) >>

Constants ==
  << Set(V("g"), N(11)), Let("a", N(12)), Let("b", S("w")),
     Logs(<<Plus(a, N(13)), Plus(N(14), a), Less(a, N(15)), Less(N(16), a), Same(b, S("w"))>>),
     Let("t", Tbl(<<Keyed(N(17), N(18)), Named("q", S("r")), Keyed(S("v"), Yea)>>)),
     Set(Ix(t, S("y")), Null), Set(Ix(t, N(19)), Nay),
     Logs(<<Ix(t, N(17)), Ix(t, S("q")), Ix(t, S("v")), Ix(t, N(19)), Ix(t, S("y")), V("g")>>),
     Log(Bin("..", S("x"), Bin("..", N(20), S("z")))),
     Set(Ix(t, S("m")), Fun(<<"self", "k">>, <<Return(<<Ix(V("self"), S("q")), k>>)>>)),
     Return(<<Meth(t, "m", <<N(21)>>)>>) >>

-----------------------------------------------------------------------------
(* Closures and the variables they share.                                   *)

Counter == Fun(<<>>, << Set(i, Plus(i, One)), Return(<<i>>) >>)
Closures ==
  << Let("t", Tbl(<<>>)),
     ForN("i", <<One, Three>>, <<Set(Ix(t, i), Counter)>>),
     Logs(<<Call(Ix(t, One), <<>>), Call(Ix(t, One), <<>>), Call(Ix(t, Two), <<>>)>>),
     Blk(<< Let("i", N(10)), Set(f, Counter), Set(g, Fun(<<>>, <<Return(<<i>>)>>)), Does(f, <<>>),
            Set(i, Plus(i, N(5))) >>),
     Logs(<<Call(f, <<>>), Call(g, <<>>)>>),
     Set(h, Fun(<<"a">>, << Return(<<Fun(<<"b">>, << Set(a, Plus(a, b)),
            Return(<<Fun(<<>>, <<Set(b, Plus(b, a)), Return(<<a, b>>)>>)>>) >>)>>) >>)),
     Let("u", Call(Call(h, <<One>>), <<Two>>)),
     Logs(<<Call(u, <<>>)>>), Logs(<<Call(u, <<>>)>>),
     LocalF("k", Fun(<<"n">>, << If(<< <<Bin("<=", V("n"), One), <<Return(<<One>>)>>>> >>, <<>>),
            Return(<<Bin("*", V("n"), Call(k, <<Bin("-", V("n"), One)>>))>>) >>)),
     Return(<<Call(k, <<N(4)>>), Call(f, <<>>)>>) >>

\* Loops whose variables are caught and that end in the middle.
CaughtInLoops ==
  << Let("k", N(0)), Local(<<"f", "g", "h">>, <<>>),
     While(Less(k, N(5)),
           << Let("i", k), Set(f, Counter), If(<< <<Same(k, Two), <<Break>>>> >>, <<>>),
              Set(k, Plus(k, One)) >>),
     Logs(<<k, Call(f, <<>>), Call(f, <<>>)>>),
     Repeat(<< Let("i", k), Set(g, Fun(<<>>, <<Set(i, Plus(i, i)), Return(<<i>>)>>)),
               Set(k, Plus(k, One)) >>, Same(i, N(4))),
     Logs(<<k, Call(g, <<>>), Call(g, <<>>)>>),
     Repeat(<< Let("i", k), Blk(<<Let("a", k), Set(h, Fun(<<>>, <<Return(<<a, i>>)>>)),
               If(<< <<Less(N(5), k), <<Break>>>> >>, <<>>)>>), Set(k, Plus(k, One)) >>, Nay),
     Logs(<<k, Call(h, <<>>)>>),
     ForIn(<<"i">>, <<V("nxt"), Two>>,
           << Let("a", i), Set(f, Fun(<<>>, <<Set(a, Plus(a, i)), Return(<<a>>)>>)),
              If(<< <<Same(i, Two), <<Break>>>> >>, <<Log(Call(f, <<>>))>>) >>),
     Logs(<<Call(f, <<>>), Call(f, <<>>)>>),
     Set(u, Fun(<<"n">>, << ForN("i", <<One, N(9)>>, << Let("a", Plus(i, V("n"))),
            If(<< <<Less(N(4), a), <<Return(<<Fun(<<>>, <<Set(a, Plus(a, One)), Return(<<a>>)>>)>>)>>>> >>, <<>>) >>)
            >>)),
     Let("v", Call(u, <<Three>>)), Let("w", Call(u, <<Two>>)),
     Return(<<Call(V("v"), <<>>), Call(V("w"), <<>>), Call(V("v"), <<>>)>>) >>

\* A tail call and an error leave the caller's variables to their closures.
Escapes ==
  << Set(g, Fun(<<"x", "y">>, <<Return(<<V("x"), Call(V("x"), <<>>), V("y")>>)>>)),
     Set(f, Fun(<<"i">>, << Let("k", Plus(i, N(20))),
            Return(<<Call(g, <<Fun(<<>>, <<Set(i, Plus(i, One)), Set(k, Plus(k, i)), Return(<<k>>)>>), i>>)>>) >>)),
     Local(<<"a", "b">>, <<Call(f, <<Three>>)>>), Logs(<<b, Call(a, <<>>)>>),
     Set(h, Fun(<<"i">>, << Let("k", i), Set(u, Fun(<<>>, <<Set(k, Plus(k, One)), Return(<<k, i>>)>>)),
            Set(i, N(30)), Does(V("error"), <<Tbl(<<>>)>>) >>)),
     Local(<<"x", "y">>, <<Call(V("pcall"), <<h, N(7)>>)>>),
     Logs(<<V("x"), V("y"), Call(u, <<>>)>>),
     Return(<<Call(u, <<>>)>>) >>

-----------------------------------------------------------------------------
(* Arguments, results and lists of values.                                  *)

Rest == Fn(<<"a">>, "dots", <<Local(<<"x", "y">>, <<Dots>>), Return(<<V("y"), V("x"), a, Dots>>)>>)
Lists ==
  << LocalF("f", Rest),
     Logs(<<Call(f, <<>>)>>), Logs(<<Call(f, <<One, Two, Three, N(4)>>)>>),
     Logs(<<Call(f, <<One, Two>>), N(9)>>), Logs(<<Par(Call(f, <<One, Two, Three>>)), N(9)>>),
     Logs(<<N(8), Call(f, <<One, Call(f, <<Two, Three>>)>>)>>),
     Let("t", Tbl(<<It(Call(f, <<One, Two, Three>>)), It(N(7)), It(Call(f, <<One, Two, Three>>))>>)),
     Logs(<<Ix(t, One), Ix(t, Two), Ix(t, Three), Ix(t, N(4)), Ix(t, N(5)), Ix(t, N(6))>>),
     Set(g, Fn(<<"a">>, "arg", <<Return(<<Ix(V("arg"), S("n")), Ix(V("arg"), One), Ix(V("arg"), Two), a>>)>>)),
     Logs(<<Call(g, <<One, Two, Null>>)>>), Logs(<<Call(g, <<>>)>>), Logs(<<Call(g, <<One, Two, Three, N(4)>>)>>),
     Set(h, Fn(<<>>, "dots", << Let("t", Tbl(<<It(N(6)), It(Dots)>>)),
               Return(<<Un("#", t), Call(f, <<Dots>>)>>) >>)),
     Logs(<<Call(h, <<One, Two, Three>>)>>), Logs(<<Call(h, <<>>)>>),
     Local(<<"x", "y", "z">>, <<Call(f, <<One, Two>>)>>), Logs(<<V("x"), V("y"), V("z")>>),
     Local(<<"x", "y", "z">>, <<Call(f, <<One, Two>>), N(5)>>), Logs(<<V("x"), V("y"), V("z")>>),
     Local(<<"x">>, <<One, Call(V("p"), <<Two>>)>>), Log(V("x")),
     Does(f, <<S("w")>>), Does(f, <<Tbl(<<>>)>>),
     Logs(<<Call(Par(Fun(<<"a", "b">>, <<Return(<<b, a>>)>>)), <<One>>)>>),
     Return(<<Dots, Call(f, <<N(3), N(2)>>)>>) >>

Assignments ==
  << Local(<<"a", "b">>, <<One, Two>>), Assign(<<a, b>>, <<b, a>>), Logs(<<a, b>>),
     Let("t", Tbl(<<It(N(5)), It(N(6))>>)), Let("i", One),
     Assign(<<i, Ix(t, i)>>, <<Plus(i, One), N(20)>>), Logs(<<i, Ix(t, One), Ix(t, Two)>>),
     Let("u", t), Assign(<<Ix(t, S("x")), t>>, <<N(7), N(8)>>), Logs(<<t, Ix(u, S("x"))>>),
     Assign(<<Ix(u, i), u, Ix(u, i), i>>, <<N(1), u, N(2), N(3)>>),
     Logs(<<i, Ix(u, Two), Ix(u, Three)>>),
     Assign(<<a, b, g>>, <<N(9)>>), Logs(<<a, b, g>>),
     Assign(<<a, b>>, <<N(1), N(2), Call(V("p"), <<N(3)>>)>>), Logs(<<a, b>>),
     Assign(<<g, Ix(u, S("y")), b>>, <<Call(V("p"), <<N(4), N(5)>>)>>), Logs(<<g, Ix(u, S("y")), b>>),
     Let("k", Fun(<<>>, <<Assign(<<a, Ix(u, a), b>>, <<b, a, N(6)>>)>>)), Set(a, Three),
     Does(k, <<>>), Logs(<<a, b, Ix(u, Three)>>),
     Set(Ix(Ix(u, Tbl(<<>>)), One), One), Return(<<a>>) >>

Methods ==
  << Set(t, Tbl(<<Named("n", One), Named("d", Tbl(<<Named("n", N(50))>>))>>)),
     FuncS(<<"t", "m">>, FALSE, Fun(<<"self", "k">>,
           <<Set(Ix(V("self"), S("n")), Plus(Ix(V("self"), S("n")), k)), Return(<<V("self")>>)>>)),
     FuncS(<<"t", "q">>, TRUE, Fun(<<"k">>, <<Return(<<Bin("*", Ix(V("self"), S("n")), k), k>>)>>)),
     FuncS(<<"t", "d", "r">>, TRUE, Fn(<<>>, "dots", <<Return(<<Ix(V("self"), S("n")), Dots>>)>>)),
     FuncS(<<"g">>, FALSE, Fun(<<>>, <<Return(<<Meth(t, "m", <<One>>)>>)>>)),
     Logs(<<Meth(Meth(t, "m", <<Two>>), "q", <<Three>>)>>),
     Logs(<<Meth(Ix(t, S("d")), "r", <<One, Two>>), Meth(Call(g, <<>>), "q", <<N(5)>>)>>),
     Logs(<<Meth(t, "q", <<N(2)>>), Meth(Ix(t, S("d")), "r", <<S("w")>>)>>),
     Return(<<Meth(t, "nope", <<>>)>>) >>

Ints(from, to) == [j \in 1 .. to + 1 - from |-> It(N(from + j - 1))]
Tables ==
  << Set(t, Tbl(Ints(1, 5) \o <<Named("x", Tbl(Ints(6, 7))), Keyed(N(9), Tbl(<<>>)), It(N(8))>>)),
     Logs(<<Un("#", t), Ix(t, One), Ix(t, Three), Ix(t, N(5)), Ix(t, N(6)), Ix(Ix(t, S("x")), Two)>>),
     Let("u", Tbl(Ints(1, 4) \o <<It(Call(V("p"), <<N(5), N(6)>>))>>)), Logs(<<Un("#", u), Ix(u, N(6))>>),
     Let("k", Tbl(Ints(1, 3) \o <<It(Call(V("p"), <<N(5)>>)), It(N(7))>>)), Logs(<<Un("#", k), Ix(k, N(4))>>),
     Logs(<<Un("#", Tbl(<<>>)), Un("#", Tbl(<<It(Par(Call(V("p"), <<One, Two>>)))>>))>>),
     ForN("i", <<One, N(6)>>, <<Set(Ix(t, i), Tbl(Ints(1, 3)))>>),
     Return(<<Ix(Ix(t, N(6)), Three), Ix(Par(Tbl(<<It(Tbl(<<It(One)>>))>>)), Two)>>) >>

\* nil locals share one instruction, but not across a jump.
Nils ==
  << Local(<<"a">>, <<>>), Local(<<"b", "c">>, <<>>), Logs(<<a, b, c>>),
     ForN("i", <<One, Two>>, << Local(<<"x">>, <<>>), Local(<<"y", "z">>, <<One>>), Logs(<<V("x"), V("z")>>),
          Assign(<<V("x"), V("z")>>, <<i, i>>) >>),
     While(Un("not", a), << Local(<<"x">>, <<>>), Set(a, Yea), Set(V("x"), a) >>),
     Local(<<"d">>, <<>>), Logs(<<V("d"), a>>),
     If(<< <<a, <<Let("x", One)>>>> >>, <<>>), Local(<<"e">>, <<>>), Log(V("e")),
     Blk(<<Let("x", N(7))>>), If(<< <<Un("not", a), <<Local(<<"x">>, <<>>)>>>> >>, <<>>), Local(<<"z">>, <<>>), Log(V("z")),
     Set(a, Null), Set(b, Null), Log(Same(a, b)),
     Set(f, Fun(<<>>, <<Local(<<"x", "y">>, <<>>), Return(<<V("x"), V("y")>>)>>)),
     Return(<<Call(f, <<>>), Null, Null>>) >>

-----------------------------------------------------------------------------
(* Control.                                                                 *)

Loops ==
  << ForN("i", <<Three, One, Un("-", One)>>, <<Log(i), Set(i, N(0))>>),
     ForN("i", <<One, N(0)>>, <<Log(S("never"))>>),
     ForN("i", <<One, N(6), Two>>, << If(<< <<Same(i, Three), <<Logs(<<i, i>>)>>>>, <<Same(i, N(5)), <<Break>>>> >>,
                                         <<Log(i)>>) >>),
     ForIn(<<"k", "v">>, <<Fun(<<"s", "c">>, << If(<< <<Less(c, V("s")), <<Return(<<Plus(c, One), S("w")>>)>>>> >>, <<>>) >>),
                          Two, N(0)>>, <<Logs(<<k, V("v")>>)>>),
     ForIn(<<"k">>, <<V("nxt"), N(0)>>, <<Log(S("never"))>>),
     Set(f, Fun(<<"n", "s">>, << If(<< <<Same(V("n"), N(0)), <<Return(<<V("s")>>)>>>> >>,
               <<Return(<<Call(f, <<Bin("-", V("n"), One), Plus(V("s"), V("n"))>>)>>)>>) >>)),
     Log(Call(f, <<N(9), N(0)>>)),
     ForN("i", <<One, Two>>, <<ForN("k", <<i, Two>>, <<While(Yea, <<If(<< <<Same(i, k), <<Break>>>> >>, <<>>), Log(k), Break>>)>>)>>),
     Blk(<<Blk(<<Return(<<Call(f, <<Two, One>>)>>)>>)>>) >>

Chains ==
  << Set(f, Fun(<<"a">>, << If(<< <<Same(a, One), <<Log(S("one"))>>>>, <<Same(a, Two), <<Return(<<S("two")>>)>>>>,
        <<Bin("and", Less(Two, a), Less(a, N(5))), <<Let("b", a), Set(a, Plus(b, b))>>>> >>,
        <<Log(S("else"))>>), Return(<<a>>) >>)),
     Logs(<<Call(f, <<One>>), Call(f, <<Two>>), Call(f, <<Three>>), Call(f, <<N(5)>>)>>),
     If(<< <<Nay, <<Log(One)>>>>, <<Null, <<Log(Two)>>>> >>, <<>>),
     If(<< <<Yea, <<>>>> >>, <<Log(Three)>>), While(Null, <<Log(One)>>),
     Return(<<>>) >>

Errors ==
  << Logs(<<Call(V("pcall"), <<V("error"), S("x")>>)>>),
     Logs(<<Call(V("pcall"), <<Fun(<<>>, <<Return(<<Plus(One, S("s"))>>)>>)>>)>>),
     Logs(<<Call(V("pcall"), <<Fun(<<"a">>, <<Return(<<a, Two, Three>>)>>), One>>), N(4)>>),
     Logs(<<Call(V("pcall"), <<V("pcall"), V("error"), S("y")>>)>>),
     Logs(<<Call(V("pcall"), <<V("pcall")>>)>>), Logs(<<Call(V("pcall"), <<N(5)>>)>>),
     Local(<<"x", "y">>, <<Call(V("pcall"), <<Fun(<<>>, << Does(V("pcall"), <<V("error"), One>>),
          ForIn(<<"k">>, <<Fun(<<>>, <<Does(V("error"), <<S("it")>>)>>)>>, <<>>) >>)>>)>>),
     Logs(<<V("x"), V("y")>>),
     ForIn(<<"k">>, <<V("pcall"), V("nxt")>>, <<Log(k), Break>>),
     Logs(<<Call(V("pcall"), <<Fun(<<>>, <<Return(<<Call(V("pcall"), <<V("p"), Two>>)>>)>>)>>)>>),
     Let("t", Tbl(<<>>)), Set(f, Fun(<<>>, <<Return(<<Ix(Ix(t, One), Two)>>)>>)),
     Logs(<<Call(V("pcall"), <<f>>), Call(V("pcall"), <<Fun(<<>>, <<Set(Ix(t, Null), One)>>)>>)>>),
     Logs(<<Call(V("pcall"), <<Fun(<<>>, <<ForN("i", <<S("s"), One>>, <<>>)>>)>>)>>),
     Logs(<<Call(V("pcall"), <<Fun(<<>>, <<Return(<<Less(One, Null)>>)>>)>>)>>),
     Logs(<<Call(V("pcall"), <<Fun(<<>>, <<Return(<<Bin("..", S("x"), Null)>>)>>)>>)>>),
     Logs(<<Call(V("pcall"), <<Fun(<<>>, <<Return(<<Un("#", Yea)>>)>>)>>)>>),
     Does(V("error"), <<S("end")>>), Log(S("never")) >>

Texts ==
  << Let("a", S("ab")), Let("b", S("b")), Let("f", Fun(<<"x", "y">>, <<
       Return(<<Less(V("x"), V("y")), Bin("<=", V("x"), V("y")), Bin(">", V("x"), V("y")),
                Bin(">=", V("x"), V("y"))>>) >>)),
     Logs(<<Call(f, <<a, b>>)>>), Logs(<<Call(f, <<b, a>>)>>), Logs(<<Call(f, <<a, a>>)>>),
     Logs(<<Call(f, <<a, Bin("..", a, b)>>)>>), Logs(<<Call(f, <<Bin("..", a, b), S("aba")>>)>>),
     Logs(<<Call(f, <<S(""), a>>)>>),
     While(Less(a, S("ac")), <<Set(a, Bin("..", a, S("z"))), If(<< <<Less(S("abzz"), a), <<Set(a, b)>>>> >>, <<>>)>>), Log(a),
     Logs(<<Call(V("pcall"), <<f, a, One>>)>>), Logs(<<Call(V("pcall"), <<f, Tbl(<<>>), Tbl(<<>>)>>)>>) >>

Statements == << Operators, Constants, Closures, CaughtInLoops, Escapes, Lists, Assignments, Methods, Tables,
                 Nils, Loops, Chains, Texts, Errors >>
Trees == LET cs == Conditions
         IN Statements \o [j \in DOMAIN cs |-> ConditionProgram(cs[j])]

(* Programs that the generator gets wrong.                                  *)

\* The jump that "true or" always takes carries along the jumps that wait to
\* land there, and with them the value that made them jump.
AlwaysJumps == << Local(<<"c">>, <<>>), Return(<<Bin("or", Bin("and", c, c), Bin("or", Yea, Nay))>>) >>
\* A nil assigned to a parameter by the first instruction is not assigned.
NilFirst == << Set(f, Fun(<<"a">>, <<Set(a, Null), Return(<<a>>)>>)), Return(<<Call(f, <<One>>)>>) >>
\* A constant is no operand of the minus instruction.
MinusNil == << Return(<<Call(V("pcall"), <<Fun(<<>>, <<Return(<<Un("-", Null)>>)>>)>>)>>) >>
Faulty == <<AlwaysJumps, NilFirst, MinusNil>>

-----------------------------------------------------------------------------
(* Texts that are no programs.                                              *)

Bare(words) == FlattenSeq([j \in DOMAIN words |->
                 IF words[j] \in {"f", "a", "b", "c", "d"} THEN Nm(words[j])
                 ELSE IF words[j] = "1" THEN Token("number", 1, "") ELSE K(words[j])])
Wrong == [j \in 1 .. 14 |-> Bare(<<
  <<"break">>, <<"f", "(", ")", "=", "1">>, <<"do", "f", "(", ")">>, <<"a", ".", "1", "=", "1">>,
  <<"function", "f", "(", ")", "return", "...", "end">>, <<"local", "function", "1">>,
  <<"return", "1", "1">>, <<"for", "a", "b", "do", "end">>, <<"a", "=", "{", "1">>,
  <<"f">>, <<"a", "=", "1", "+">>, <<"end">>, <<"repeat", "break">>,
  \* More upvalues than a function may have.
  <<"local", "a", ",", "b", ",", "c", ",", "d", "local", "function", "f", "(", ")",
    "return", "a", ",", "b", ",", "c", ",", "d", "end">> >>[j])]
=============================================================================
