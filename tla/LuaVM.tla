------------------------------- MODULE LuaVM -------------------------------
(***************************************************************************)
(* The Lua virtual machine: luaV_execute (src/lua/lvm.c) with the calls,   *)
(* returns and errors of ldo.c and the upvalues of lfunc.c, running what   *)
(* the compiler (see LuaParser) made of a program.                         *)
(*                                                                         *)
(* One thread, one stack; each running function has a CallInfo in ci.  A   *)
(* CALL, TAILCALL or TFORLOOP puts the call it makes into "call"; one of   *)
(* the PreCall actions (luaD_precall) makes it.  A call made from C runs a *)
(* new luaV_execute: its frame is "fresh", and its return goes back to C:  *)
(* to pcall, to the second half of a TFORLOOP, or to the host that runs    *)
(* the program.  An error unwinds to the innermost pcall.                  *)
(*                                                                         *)
(* Numbers are integers, tables are functions from keys to values other    *)
(* than nil, and there are no metatables; the stack does not move.  The C  *)
(* functions p (returns its arguments, which the log keeps), nxt (counts   *)
(* up to its first argument), error and pcall stand for the libraries.     *)
(***************************************************************************)
EXTENDS LuaCode

CONSTANTS Programs,   \* the programs
          ChunkOf(_), \* what the parser makes of a program
          StackSize,  \* slots of the stack
          MaxSteps    \* a program is given up after so many steps

ASSUME /\ StackSize \in Nat \ {0}
       /\ MaxSteps \in Nat

VARIABLES prog, chunk, pc, stack, top, ci, call, upvals, closures, tables, log, status, err, steps
vars == <<prog, chunk, pc, stack, top, ci, call, upvals, closures, tables, log, status, err, steps>>

heap == <<upvals, closures, tables>>
frame == <<top, ci, call>>
out == <<log, status, err>>

Fun(id) == [t |-> "fun", n |-> id, s |-> ""]
CFun(name) == [t |-> "cfun", n |-> 0, s |-> name]
Tab(id) == [t |-> "tab", n |-> id, s |-> ""]
NoCall == [func |-> -1, nresults |-> 0, fresh |-> FALSE, tail |-> FALSE]
RuntimeError == Str("error")

CFunctions == {"p", "nxt", "error", "pcall"}
Globals == [v \in {Str(w) : w \in CFunctions} |-> CFun(v.s)]

NotCompiled == [main |-> <<>>, failed |-> FALSE, asserts |-> TRUE]
Init ==
  /\ prog \in Programs
  /\ chunk = NotCompiled
  /\ stack = [s \in 0 .. StackSize - 1 |-> IF s = 1 THEN Fun(1) ELSE Nil]
  /\ top = 2
  /\ closures = <<[path |-> <<>>, ups |-> <<>>]>>
  /\ ci = <<[kind |-> "host", func |-> 0, base |-> 1, top |-> 2, savedpc |-> 0,
             nresults |-> 0, fresh |-> FALSE, pend |-> FALSE, failed |-> FALSE]>>
  /\ call = [NoCall EXCEPT !.func = 1, !.nresults = MultRet, !.fresh = TRUE]
  /\ tables = <<Globals>>
  /\ upvals = <<>> /\ log = <<>> /\ err = Nil
  /\ status = "text"
  /\ pc = 0 /\ steps = 0

\* The parser is protected: a text that is no program is refused.
Compile ==
  /\ status = "text"
  /\ chunk' = ChunkOf(prog)
  /\ status' = IF chunk'.failed THEN "refused" ELSE "running"
  /\ UNCHANGED <<prog, pc, stack, top, ci, call, upvals, closures, tables, log, err, steps>>

-----------------------------------------------------------------------------
(* The running function.                                                    *)

Frame == Last(ci)
Base == Frame.base
Closure(v) == closures[v.n]
ProtoAt(path) == FoldLeft(LAMBDA q, k : q.p[k + 1], chunk.main, path)
P == ProtoAt(Closure(stack[Frame.func]).path)
i == P.code[pc + 1]
R(x) == stack[Base + x]
RK(x) == IF IsK(x) THEN P.k[IndexK(x) + 1] ELSE R(x)
RA == Base + i.a

Running == status = "running" /\ steps < MaxSteps
Tick == steps' = steps + 1 /\ UNCHANGED <<prog, chunk>>
Executing == Running /\ call = NoCall /\ Frame.kind = "lua" /\ ~Frame.pend
Op(names) == Executing /\ i.op \in names /\ Tick

Write(slot, v) == [stack EXCEPT ![slot] = v]
Goto(dest) == pc' = dest
Next1 == Goto(pc + 1)

Set(a, v) == /\ stack' = Write(Base + a, v) /\ Next1 /\ UNCHANGED <<heap, frame, out>>
Jmp(offset) == /\ Goto(pc + 1 + offset) /\ UNCHANGED <<stack, heap, frame, out>>
Throw(v) == /\ status' = "throw" /\ err' = v
            /\ UNCHANGED <<pc, stack, heap, frame, log>>
Raise == Throw(RuntimeError)

-----------------------------------------------------------------------------
(* Loads, variables, tables.                                                *)

Move == Op({"MOVE"}) /\ Set(i.a, R(i.b))
LoadK == Op({"LOADK"}) /\ Set(i.a, P.k[i.b + 1])
LoadBool == /\ Op({"LOADBOOL"})
            /\ stack' = Write(RA, Bool(i.b # 0))
            /\ Goto(pc + 1 + (IF i.c # 0 THEN 1 ELSE 0))
            /\ UNCHANGED <<heap, frame, out>>
\* At least one register, whatever the operands say.
LoadNils == /\ Op({"LOADNIL"})
            /\ stack' = [s \in DOMAIN stack |->
                           IF (RA <= s \/ s = Base + i.b) /\ s <= Base + i.b THEN Nil ELSE stack[s]]
            /\ Next1 /\ UNCHANGED <<heap, frame, out>>

UpValue(b) == LET u == upvals[Closure(stack[Frame.func]).ups[b + 1]]
              IN IF u.open THEN stack[u.idx] ELSE u.v
GetUpval == Op({"GETUPVAL"}) /\ Set(i.a, UpValue(i.b))
SetUpval ==
  /\ Op({"SETUPVAL"})
  /\ LET id == Closure(stack[Frame.func]).ups[i.b + 1]
     IN IF upvals[id].open
        THEN stack' = Write(upvals[id].idx, R(i.a)) /\ UNCHANGED upvals
        ELSE upvals' = [upvals EXCEPT ![id].v = R(i.a)] /\ UNCHANGED stack
  /\ Next1 /\ UNCHANGED <<closures, tables, frame, out>>

Lookup(t, key) == IF key \in DOMAIN tables[t.n] THEN tables[t.n][key] ELSE Nil

GetInto(slots, t, key) ==
  IF t.t = "tab" THEN /\ stack' = [s \in DOMAIN stack |-> IF s \in DOMAIN slots THEN slots[s]
                                                          ELSE IF s = RA THEN Lookup(t, key)
                                                          ELSE stack[s]]
                      /\ Next1 /\ UNCHANGED <<heap, frame, out>>
  ELSE Raise
GetGlobal == Op({"GETGLOBAL"}) /\ GetInto(<<>>, Tab(1), P.k[i.b + 1])
GetTable == Op({"GETTABLE"}) /\ GetInto(<<>>, R(i.b), RK(i.c))
SelfOp == Op({"SELF"}) /\ GetInto((RA + 1) :> R(i.b), R(i.b), RK(i.c))

Store(tab, key, v) == IF v = Nil THEN [x \in DOMAIN tab \ {key} |-> tab[x]]
                      ELSE (key :> v) @@ tab
PutInto(t, key, v) ==
  IF t.t = "tab" /\ key # Nil
  THEN /\ tables' = [tables EXCEPT ![t.n] = Store(@, key, v)]
       /\ Next1 /\ UNCHANGED <<stack, upvals, closures, frame, out>>
  ELSE Raise
SetGlobal == Op({"SETGLOBAL"}) /\ PutInto(Tab(1), P.k[i.b + 1], R(i.a))
SetTable == Op({"SETTABLE"}) /\ PutInto(R(i.a), RK(i.b), RK(i.c))

NewTable == /\ Op({"NEWTABLE"})
            /\ tables' = Append(tables, <<>>)
            /\ stack' = Write(RA, Tab(Len(tables) + 1))
            /\ Next1 /\ UNCHANGED <<upvals, closures, frame, out>>

SetListOp ==
  /\ Op({"SETLIST"})
  /\ LET n == IF i.b = 0 THEN top - RA - 1 ELSE i.b
         c == IF i.c = 0 THEN WordValue(P.code[pc + 2]) ELSE i.c
         first == (c - 1) * FieldsPerFlush
         store(tab, k) == Store(tab, Num(first + k), stack[RA + k])
     IN /\ tables' = [tables EXCEPT ![R(i.a).n] = FoldLeft(store, @, [k \in 1 .. n |-> k])]
        /\ top' = IF i.b = 0 THEN Frame.top ELSE top
  /\ Goto(pc + (IF i.c = 0 THEN 2 ELSE 1))
  /\ UNCHANGED <<stack, upvals, closures, ci, call, out>>

-----------------------------------------------------------------------------
(* Operators, comparisons and jumps.                                        *)

Arith(op, l, r) == IF l.t = "num" /\ r.t = "num" THEN Set(i.a, Num(NumArith(op, l.n, r.n)))
                   ELSE Raise
Binary == Op({"ADD", "SUB", "MUL", "DIV", "MOD", "POW"}) /\ Arith(i.op, RK(i.b), RK(i.c))
Minus == Op({"UNM"}) /\ Arith("UNM", R(i.b), R(i.b))
NotOp == Op({"NOT"}) /\ Set(i.a, Bool(Falsy(R(i.b))))

Border(tab) == CHOOSE n \in 0 .. Cardinality(DOMAIN tab) :
                 /\ Num(n + 1) \notin DOMAIN tab
                 /\ \A k \in 1 .. n : Num(k) \in DOMAIN tab
LenOp == /\ Op({"LEN"})
         /\ CASE R(i.b).t = "tab" -> Set(i.a, Num(Border(tables[R(i.b).n])))
              [] R(i.b).t = "str" -> Set(i.a, Num(Len(R(i.b).s)))
              [] OTHER -> Raise

IsText(v) == v.t \in {"str", "num"}
AsText(v) == IF v.t = "num" THEN ToString(v.n) ELSE v.s
\* The operands are joined from the right, as luaV_concat does.
ConcatOp ==
  /\ Op({"CONCAT"})
  /\ IF \A k \in i.b .. i.c : IsText(R(k))
     THEN Set(i.a, Str(FoldLeft(LAMBDA w, k : w \o AsText(R(i.b + k - 1)), "",
                                [k \in 1 .. i.c - i.b + 1 |-> k])))
     ELSE Raise

JumpOp == Op({"JMP"}) /\ Jmp(i.b)
\* The jump after a test is taken when the test succeeds, skipped otherwise.
Test(cond) == Jmp(IF cond THEN 1 + P.code[pc + 2].b ELSE 1)
Truth(b) == IF b THEN 1 ELSE 0
Equal == Op({"EQ"}) /\ Test(Truth(RK(i.b) = RK(i.c)) = i.a)
\* l_strcmp: strcoll in the C locale, whose order this is of the characters that the
\* programs compare.
Characters == "-.0123456789ABCDEFGHIJKLMNOPQRSTUVWXYZ_abcdefghijklmnopqrstuvwxyz"
RankOf(w, j) == CHOOSE n \in 1 .. Len(Characters) : SubSeq(Characters, n, n) = SubSeq(w, j, j)
StrLess(w, v) ==
  LET alike(n) == SubSeq(w, 1, n) = SubSeq(v, 1, n)
      same == CHOOSE n \in 0 .. Len(w) :
                n <= Len(v) /\ alike(n) /\ (n \in {Len(w), Len(v)} \/ ~alike(n + 1))
  IN /\ same < Len(v)
     /\ same = Len(w) \/ RankOf(w, same + 1) < RankOf(v, same + 1)
Less == /\ Op({"LT", "LE"})
        /\ LET l == RK(i.b)
               r == RK(i.c)
               test(less) == Test(Truth(less \/ (i.op = "LE" /\ l = r)) = i.a)
           IN CASE l.t = "num" /\ r.t = "num" -> test(l.n < r.n)
                [] l.t = "str" /\ r.t = "str" -> test(StrLess(l.s, r.s))
                [] OTHER -> Raise
TestOp == Op({"TEST"}) /\ Test(Truth(Falsy(R(i.a))) # i.c)
TestSet == /\ Op({"TESTSET"})
           /\ IF Truth(Falsy(R(i.b))) # i.c
              THEN /\ stack' = Write(RA, R(i.b)) /\ Goto(pc + 2 + P.code[pc + 2].b)
                   /\ UNCHANGED <<heap, frame, out>>
              ELSE Test(FALSE)

ForLoop ==
  /\ Op({"FORLOOP"})
  /\ LET step == R(i.a + 2).n
         idx == R(i.a).n + step
         limit == R(i.a + 1).n
     IN IF IF 0 < step THEN idx <= limit ELSE limit <= idx
        THEN /\ stack' = [stack EXCEPT ![RA] = Num(idx), ![RA + 3] = Num(idx)]
             /\ Goto(pc + 1 + i.b) /\ UNCHANGED <<heap, frame, out>>
        ELSE Jmp(0)
ForPrep ==
  /\ Op({"FORPREP"})
  /\ IF \A k \in 0 .. 2 : R(i.a + k).t = "num"
     THEN /\ stack' = Write(RA, Num(R(i.a).n - R(i.a + 2).n))
          /\ Goto(pc + 1 + i.b) /\ UNCHANGED <<heap, frame, out>>
     ELSE Raise

-----------------------------------------------------------------------------
(* Upvalues and closures.                                                   *)

\* luaF_close: upvalues at or above the level take their value with them.
Closed(level, st) ==
  [u \in DOMAIN upvals |-> IF upvals[u].open /\ upvals[u].idx >= level
                           THEN [open |-> FALSE, idx |-> 0, v |-> st[upvals[u].idx]]
                           ELSE upvals[u]]
CloseOp == /\ Op({"CLOSE"})
           /\ upvals' = Closed(RA, stack)
           /\ Next1 /\ UNCHANGED <<stack, closures, tables, frame, out>>

\* luaF_findupval: the open upvalue of that slot, made if there is none.
OpenAt(us, slot) == {u \in DOMAIN us : us[u].open /\ us[u].idx = slot}
FindUpval(us, slot) == IF OpenAt(us, slot) # {} THEN us
                       ELSE Append(us, [open |-> TRUE, idx |-> slot, v |-> Nil])
Capture(acc, w) ==
  IF w.op = "GETUPVAL"
  THEN [acc EXCEPT !.ups = Append(@, Closure(stack[Frame.func]).ups[w.b + 1])]
  ELSE LET us == FindUpval(acc.us, Base + w.b)
       IN [us |-> us, ups |-> Append(acc.ups, CHOOSE u \in OpenAt(us, Base + w.b) : TRUE)]
ClosureOp ==
  /\ Op({"CLOSURE"})
  /\ LET path == Append(Closure(stack[Frame.func]).path, i.b)
         nup == ProtoAt(path).nups
         acc == FoldLeft(Capture, [us |-> upvals, ups |-> <<>>],
                         SubSeq(P.code, pc + 2, pc + 1 + nup))
     IN /\ upvals' = acc.us
        /\ closures' = Append(closures, [path |-> path, ups |-> acc.ups])
        /\ stack' = Write(RA, Fun(Len(closures) + 1))
        /\ Goto(pc + 1 + nup)
  /\ UNCHANGED <<tables, frame, out>>

VarArgOp ==
  /\ Op({"VARARG"})
  /\ LET n == Base - Frame.func - P.numparams - 1
         b == IF i.b = 0 THEN n ELSE i.b - 1
     IN /\ stack' = [s \in DOMAIN stack |->
                       CASE s \in RA .. RA + b - 1 /\ s - RA < n -> stack[Base - n + (s - RA)]
                         [] s \in RA .. RA + b - 1 /\ s - RA >= n -> Nil
                         [] OTHER -> stack[s]]
        /\ top' = IF i.b = 0 THEN RA + n ELSE top
  /\ Next1 /\ UNCHANGED <<heap, ci, call, out>>

-----------------------------------------------------------------------------
(* Calls.                                                                   *)

SaveCi == [ci EXCEPT ![Len(ci)].savedpc = pc + 1]

CallOp ==
  /\ Op({"CALL", "TAILCALL"})
  /\ call' = [func |-> RA, nresults |-> i.c - 1, fresh |-> FALSE, tail |-> i.op = "TAILCALL"]
  /\ top' = IF i.b # 0 THEN RA + i.b ELSE top
  /\ ci' = SaveCi
  /\ Next1 /\ UNCHANGED <<stack, heap, out>>

\* The generic for calls its iterator from C, with state and control value.
TForLoop ==
  /\ Op({"TFORLOOP"})
  /\ stack' = [stack EXCEPT ![RA + 3] = R(i.a), ![RA + 4] = R(i.a + 1), ![RA + 5] = R(i.a + 2)]
  /\ top' = RA + 6
  /\ call' = [func |-> RA + 3, nresults |-> i.c, fresh |-> TRUE, tail |-> FALSE]
  /\ ci' = [SaveCi EXCEPT ![Len(ci)].pend = TRUE]
  /\ Next1 /\ UNCHANGED <<heap, out>>
\* ... and goes on once it has returned.
TForTest ==
  /\ Running /\ call = NoCall /\ Frame.kind = "lua" /\ Frame.pend /\ Tick
  /\ LET w == P.code[pc]
         cb == Base + w.a + 3
     IN IF stack[cb] # Nil
        THEN stack' = Write(cb - 1, stack[cb]) /\ Goto(pc + 1 + P.code[pc + 1].b)
        ELSE UNCHANGED stack /\ Next1
  /\ top' = Frame.top
  /\ ci' = [ci EXCEPT ![Len(ci)].pend = FALSE]
  /\ UNCHANGED <<heap, call, out>>

Calling == Running /\ call # NoCall /\ Tick
Callee == stack[call.func]
Args == [k \in 1 .. top - call.func - 1 |-> stack[call.func + k]]

\* A tail call puts the new frame where the caller's was.
PreCallLua ==
  /\ Calling /\ Callee.t = "fun"
  /\ LET q == ProtoAt(Closure(Callee).path)
         func == IF call.tail THEN Frame.func ELSE call.func
         nargs == Len(Args)
         actual == IF nargs < q.numparams THEN q.numparams ELSE nargs
         base == IF q.vararg = {} THEN func + 1 ELSE func + 1 + actual
         arg(k) == IF k <= nargs THEN Args[k] ELSE Nil
         needs == "needsarg" \in q.vararg
         argtab == [v \in {Num(k) : k \in {j \in 1 .. nargs - q.numparams :
                                             Args[q.numparams + j] # Nil}} \cup {Str("n")} |->
                      IF v = Str("n") THEN Num(actual - q.numparams)
                      ELSE Args[q.numparams + v.n]]
     IN /\ stack' = [s \in DOMAIN stack |->
              CASE s = func -> Callee
                [] s \in base .. base + q.numparams - 1 -> arg(s - base + 1)
                [] s = base + q.numparams /\ needs -> Tab(Len(tables) + 1)
                [] s \in func + 1 .. base - 1 ->
                     IF s - func <= q.numparams THEN Nil ELSE arg(s - func)
                [] s \in base .. base + q.maxstack - 1 -> Nil
                [] OTHER -> stack[s]]
        /\ tables' = IF needs THEN Append(tables, argtab) ELSE tables
        /\ top' = base + q.maxstack
        /\ ci' = Append(IF call.tail THEN Front(ci) ELSE ci,
                        [kind |-> "lua", func |-> func, base |-> base,
                         top |-> base + q.maxstack, savedpc |-> 0,
                         nresults |-> IF call.tail THEN Frame.nresults ELSE call.nresults,
                         fresh |-> IF call.tail THEN Frame.fresh ELSE call.fresh,
                         pend |-> FALSE, failed |-> FALSE])
  /\ upvals' = IF call.tail THEN Closed(Base, stack) ELSE upvals
  /\ call' = NoCall
  /\ Goto(0) /\ UNCHANGED <<closures, out>>

\* luaD_poscall: the results go to where the function was.
PosCall(func, wanted, results) ==
  LET n == IF wanted = MultRet THEN Len(results) ELSE wanted
      at(k) == IF k <= Len(results) THEN results[k] ELSE Nil
  IN [st |-> [s \in DOMAIN stack |-> IF s \in func .. func + n - 1 THEN at(s - func + 1)
                                     ELSE stack[s]],
      top |-> func + n]
\* The caller's top is restored when the number of results was fixed.
TopAfter_Kept(caller, wanted, fresh, t) == t
TopAfter(caller, wanted, fresh, t) ==
  IF wanted # MultRet /\ ~fresh /\ caller.kind = "lua" THEN caller.top ELSE t

Shown(v) == IF v.t \in {"tab", "fun", "cfun"} THEN [v EXCEPT !.n = 0, !.s = ""] ELSE v
Arg(k) == IF k <= Len(Args) THEN Args[k] ELSE Nil
CResult(name) == CASE name = "p" -> Args
                   [] name = "nxt" -> IF Arg(2).n < Arg(1).n THEN <<Num(Arg(2).n + 1)>>
                                      ELSE <<Nil>>
PreCallC ==
  /\ Calling /\ Callee.t = "cfun" /\ Callee.s \in {"p", "nxt"}
  /\ LET r == PosCall(call.func, call.nresults, CResult(Callee.s))
     IN /\ stack' = r.st
        /\ top' = TopAfter(Frame, call.nresults, call.fresh, r.top)
  /\ log' = IF Callee.s = "p" THEN Append(log, [k \in DOMAIN Args |-> Shown(Args[k])]) ELSE log
  /\ call' = NoCall
  /\ UNCHANGED <<pc, ci, heap, status, err>>
PreCallError == Calling /\ Callee = CFun("error") /\ Throw(Arg(1))
PreCallBad == Calling /\ Callee.t \notin {"fun", "cfun"} /\ Raise
PreCallPcall ==
  /\ Calling /\ Callee = CFun("pcall")
  /\ IF Args = <<>> THEN Raise
     ELSE /\ ci' = Append(ci, [kind |-> "pcall", func |-> call.func, base |-> call.func + 1,
                               top |-> top, savedpc |-> pc, nresults |-> call.nresults,
                               fresh |-> call.fresh, pend |-> FALSE, failed |-> FALSE])
          /\ call' = [func |-> call.func + 1, nresults |-> MultRet, fresh |-> TRUE, tail |-> FALSE]
          /\ UNCHANGED <<pc, stack, top, heap, out>>

\* luaB_pcall puts the outcome before the results it got.
PcallDone ==
  /\ Running /\ call = NoCall /\ Frame.kind = "pcall" /\ Tick
  /\ LET results == <<Bool(~Frame.failed)>>
                    \o [k \in 1 .. top - Frame.base |-> stack[Frame.base + k - 1]]
         r == PosCall(Frame.func, Frame.nresults, results)
         caller == ci[Len(ci) - 1]
     IN /\ stack' = r.st
        /\ top' = TopAfter(caller, Frame.nresults, Frame.fresh, r.top)
        /\ pc' = caller.savedpc
  /\ ci' = Front(ci)
  /\ UNCHANGED <<call, heap, out>>

ReturnOp ==
  /\ Op({"RETURN"})
  /\ LET t == IF i.b # 0 THEN RA + i.b - 1 ELSE top
         r == PosCall(Frame.func, Frame.nresults, [k \in 1 .. t - RA |-> stack[RA + k - 1]])
         caller == ci[Len(ci) - 1]
     IN /\ stack' = r.st
        /\ top' = TopAfter(caller, Frame.nresults, Frame.fresh, r.top)
        /\ pc' = caller.savedpc
  /\ upvals' = Closed(Base, stack)
  /\ ci' = Front(ci)
  /\ UNCHANGED <<call, closures, tables, out>>

\* luaD_throw and the error half of luaD_pcall.
Unwind ==
  /\ status = "throw" /\ steps < MaxSteps /\ Tick
  /\ LET guards == {k \in DOMAIN ci : ci[k].kind = "pcall"}
         h == CHOOSE k \in guards : \A j \in guards : j <= k
         oldtop == ci[h].base
     IN IF guards = {}
        THEN status' = "failed" /\ UNCHANGED <<pc, stack, heap, frame, log, err>>
        ELSE /\ upvals' = Closed(oldtop, stack)
             /\ stack' = Write(oldtop, err)
             /\ top' = oldtop + 1
             /\ ci' = [SubSeq(ci, 1, h) EXCEPT ![h].failed = TRUE]
             /\ call' = NoCall /\ pc' = ci[h].savedpc
             /\ status' = "running"
             /\ UNCHANGED <<closures, tables, log, err>>

HostDone ==
  /\ Running /\ call = NoCall /\ Frame.kind = "host" /\ Tick
  /\ status' = "done"
  /\ UNCHANGED <<pc, stack, heap, frame, log, err>>

\* The program has ended.
Ended == status \in {"done", "failed", "refused"} /\ UNCHANGED vars

Next == \/ Compile \/ Move \/ LoadK \/ LoadBool \/ LoadNils \/ GetUpval \/ SetUpval \/ GetGlobal
        \/ GetTable \/ SelfOp \/ SetGlobal \/ SetTable \/ NewTable \/ SetListOp \/ Binary
        \/ Minus \/ NotOp \/ LenOp \/ ConcatOp \/ JumpOp \/ Equal \/ Less \/ TestOp
        \/ TestSet \/ ForLoop \/ ForPrep \/ CloseOp \/ ClosureOp \/ VarArgOp \/ CallOp
        \/ TForLoop \/ TForTest \/ PreCallLua \/ PreCallC \/ PreCallError \/ PreCallBad
        \/ PreCallPcall \/ PcallDone \/ ReturnOp \/ Unwind \/ HostDone
        \/ Ended

Spec == Init /\ [][Next]_vars
=============================================================================
