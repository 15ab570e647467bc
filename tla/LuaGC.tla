-------------------------------- MODULE LuaGC --------------------------------
(***************************************************************************)
(* The incremental collector of Lua (src/lua/lgc.c), with the upvalues of  *)
(* lfunc.c and the strings of lstring.c, against a program that runs       *)
(* between any two of its steps.                                           *)
(*                                                                         *)
(* An object is white until the collector meets it, gray while its own     *)
(* references are still to be followed, black afterwards.  There are two   *)
(* whites: the atomic step that ends marking makes the other one current,  *)
(* so that objects born while dead ones are swept are not taken for dead.  *)
(* A reference from a black object to a white one is caught by a barrier.  *)
(*                                                                         *)
(* Object 1 is the main thread, 2 the table of globals.  What kind of      *)
(* object each of the others is, and which of them the program starts      *)
(* with, is one of the Shapes.  A table has one array slot and one node; a *)
(* table of kind "weakk", "weakv", "weakkv" or "gc" is one that says so    *)
(* (__mode, __gc) to the objects it is the metatable of.                   *)
(***************************************************************************)
EXTENDS Integers, FiniteSets, SequencesExt

CONSTANTS Shapes,    \* records [kind, live, meta, ops]: the kinds of the objects, the
                     \* registers at the start, the objects that object 3 is the
                     \* metatable of, what the program does
          MaxMoves,  \* steps of the program
          SweepMax   \* objects swept by one step (40)

ASSUME /\ MaxMoves \in Nat
       /\ SweepMax \in Nat \ {0}

VARIABLES kind,    \* of each object
          ops,     \* what the program does
          h,       \* the heap and the collector
          moves,   \* steps the program has made
          finals,  \* how often each finalizer has run
          kept     \* after a full collection: what it must have kept
vars == <<kind, ops, h, moves, finals, kept>>

M == 1
G == 2
Objs == DOMAIN kind
Tables == {o \in Objs : kind[o] \in {"table", "weakk", "weakv", "weakkv", "gc"}}
OfKind(k) == {o \in Objs : kind[o] = k}
Whites == {"w0", "w1"}
Other(w) == IF w = "w0" THEN "w1" ELSE "w0"

Blank == [arr |-> 0, key |-> 0, val |-> 0, meta |-> 0, env |-> 0, up |-> 0,
          v |-> 0, th |-> 0, slot |-> 0]
IsWhite(g, o) == g.color[o] \in Whites
IsDead(g, o) == g.color[o] = Other(g.white) /\ o # M
MakeWhite(g, o) == [g EXCEPT !.color[o] = g.white]
Check(g, cond) == [g EXCEPT !.ok = @ /\ cond]

Weakness(m) == IF m = 0 THEN {}
               ELSE CASE kind[m] = "weakk" -> {"k"} [] kind[m] = "weakv" -> {"v"}
                      [] kind[m] = "weakkv" -> {"k", "v"} [] OTHER -> {}
HasGc(m) == m # 0 /\ kind[m] = "gc"

\* Where an upvalue has its value: in a stack while it is open.
UpValue(g, u) == LET r == g.ref[u] IN IF r.th = 0 THEN r.v ELSE g.stk[r.th][r.slot]
OpenOf(g, th) == {u \in OfKind("upval") : g.color[u] # "free" /\ g.ref[u].th = th}

-----------------------------------------------------------------------------
(* Marking.                                                                 *)

RECURSIVE Mark(_, _)
\* markobject: of a white object only; the others are in some list already.
Mark(g, o) ==
  LET gray == [g EXCEPT !.color[o] = "gray"]
      black == [g EXCEPT !.color[o] = "black"]
      r == g.ref[o]
  IN CASE o <= 0 \/ ~IsWhite(g, IF o <= 0 THEN M ELSE o) -> g
       [] OTHER ->
          CASE kind[o] = "str" -> gray
            [] kind[o] = "udata" -> Mark(Mark(black, r.meta), r.env)
            [] kind[o] = "upval" -> Mark(IF r.th = 0 THEN black ELSE gray, UpValue(g, o))
            [] OTHER -> [gray EXCEPT !.gray = <<o>> \o @]
MarkAll(g, s) == FoldLeft(Mark, g, s)

\* An entry without a value: its key may die.
RemoveEntry(g, t) == [g EXCEPT !.ref[t].key = IF @ > 0 THEN -@ ELSE @]

MarkIf(g, yes, o) == IF yes THEN Mark(g, o) ELSE g

TraverseTable(g, t) ==
  LET r == g.ref[t]
      weak == Weakness(r.meta)
      listed(a) == IF weak = {} THEN a ELSE [a EXCEPT !.bits[t] = weak, !.weak = <<t>> \o @]
      entry(a) == CASE r.val # 0 -> MarkIf(MarkIf(a, "k" \notin weak, r.key), "v" \notin weak, r.val)
                    [] r.val = 0 /\ weak = {"k", "v"} -> a
                    [] OTHER -> RemoveEntry(a, t)
  IN entry(MarkIf(listed(Mark(g, r.meta)), "v" \notin weak, r.arr))

\* A weak table and a thread stay gray.
PropagateMark(g) ==
  LET o == Head(g.gray)
      p == [g EXCEPT !.gray = Tail(@), !.color[o] = "black"]
      t == TraverseTable(p, o)
  IN CASE o \in Tables ->
            IF Weakness(g.ref[o].meta) = {} THEN t ELSE [t EXCEPT !.color[o] = "gray"]
       [] kind[o] = "fun" -> MarkAll(p, <<p.ref[o].env, p.ref[o].up>>)
       [] kind[o] = "thread" -> MarkAll([p EXCEPT !.again = <<o>> \o @, !.color[o] = "gray"],
                                        <<G>> \o p.stk[o])

RECURSIVE PropagateAll(_)
PropagateAll(g) == IF g.gray = <<>> THEN g ELSE PropagateAll(PropagateMark(g))

MarkRoot(g) ==
  [MarkAll([g EXCEPT !.gray = <<>>, !.again = <<>>, !.weak = <<>>], <<M, G>>)
     EXCEPT !.state = "propagate"]

-----------------------------------------------------------------------------
(* The end of marking.                                                      *)

RemarkUpvals(g) ==
  FoldLeft(LAMBDA a, u : IF a.color[u] = "gray" THEN Mark(a, UpValue(a, u)) ELSE a,
           g, SetToSeq({u \in OfKind("upval") : g.color[u] # "free" /\ g.ref[u].th # 0}))

\* As if a userdata were not marked as finalized.
SeparateUdata_Again(g, all) ==
  LET due == SelectSeq(g.root, LAMBDA o : /\ kind[o] = "udata" /\ o \notin g.fin
                                          /\ IsWhite(g, o) \/ all)
      called == SelectSeq(due, LAMBDA o : HasGc(g.ref[o].meta))
  IN [g EXCEPT !.tmu = @ \o called, !.left = Len(g.tmu),
               !.root = SelectSeq(@, LAMBDA o : o \notin ToSet(called))]
\* Dead userdata with a finalizer move to tmu, in the order of their list.
SeparateUdata(g, all) ==
  LET due == SelectSeq(g.root, LAMBDA o : /\ kind[o] = "udata" /\ o \notin g.fin
                                          /\ IsWhite(g, o) \/ all)
      called == SelectSeq(due, LAMBDA o : HasGc(g.ref[o].meta))
  IN [g EXCEPT !.fin = @ \cup ToSet(due), !.tmu = @ \o called, !.left = Len(g.tmu),
               !.root = SelectSeq(@, LAMBDA o : o \notin ToSet(called))]
MarkTmu(g) == FoldLeft(LAMBDA a, u : Mark(MakeWhite(a, u), u), g, g.tmu)

\* Strings are never removed from a weak table; a userdata to be finalized is
\* removed as a value and kept as a key.
IsCleared(g, o, iskey) ==
  /\ o > 0 /\ kind[o] # "str"
  /\ IsWhite(g, o) \/ (kind[o] = "udata" /\ ~iskey /\ o \in g.fin)
KeepString(g, o) == IF o > 0 /\ kind[o] = "str" THEN [g EXCEPT !.color[o] = "gray"] ELSE g

ClearTable_KeysOnly(g, t) == g   \* as if no entry had to go
ClearTable(g, t) ==
  LET r == g.ref[t]
      a == IF "v" \notin g.bits[t] THEN g
           ELSE [KeepString(g, r.arr) EXCEPT !.ref[t].arr = IF IsCleared(g, @, FALSE) THEN 0 ELSE @]
      gone == IsCleared(a, r.key, TRUE) \/ IsCleared(a, r.val, FALSE)
      k == KeepString(a, r.key)
  IN CASE r.val = 0 -> a
       [] r.val # 0 /\ gone -> RemoveEntry([k EXCEPT !.ref[t].val = 0], t)
       [] OTHER -> KeepString(k, r.val)

\* atomic: what open upvalues hold, weak tables, the tables stored to since
\* they were black, and what finalizers will use.
MarkWeak(g) == PropagateAll(Mark([g EXCEPT !.gray = g.weak, !.weak = <<>>], M))
MarkAgain(g) == PropagateAll([g EXCEPT !.gray = g.again, !.again = <<>>])
MarkFinal(g) == PropagateAll(MarkTmu(SeparateUdata(g, FALSE)))
ClearWeak(g) == FoldLeft(ClearTable, g, g.weak)

Atomic(g) ==
  [ClearWeak(MarkFinal(MarkAgain(MarkWeak(PropagateAll(RemarkUpvals(g))))))
     EXCEPT !.white = Other(@), !.bucket = 0, !.sweep = 0, !.state = "sweepstring"]

-----------------------------------------------------------------------------
(* Upvalues that close.                                                     *)

\* luaC_barrier: mark the white object, or let the black one be swept.  That
\* the collector is at neither its start nor its finalizers is asserted too,
\* and left out here: a userdata that waits for its finalizer stays black.
Barrier_None(g, p, v) == g
Barrier(g, p, v) ==
  IF ~(v > 0 /\ g.color[p] = "black") THEN g
  ELSE IF ~IsWhite(g, v) THEN g
  ELSE LET c == Check(g, ~IsDead(g, v) /\ ~IsDead(g, p) /\ p \notin Tables)
       IN IF g.state = "propagate" THEN Mark(c, v) ELSE MakeWhite(c, p)

\* luaC_barriert: the table is gray again until the atomic step.
BarrierT_None(g, t, v) == g
BarrierT(g, t, v) ==
  IF ~(v > 0 /\ g.color[t] = "black") THEN g
  ELSE IF ~IsWhite(g, v) THEN g
  ELSE [Check(g, g.state \notin {"finalize", "pause"})
          EXCEPT !.color[t] = "gray", !.again = <<t>> \o @]

LinkUpval_NoBarrier(g, u) == [g EXCEPT !.root = <<u>> \o @]
LinkUpval(g, u) ==
  LET l == [g EXCEPT !.root = <<u>> \o @]
  IN CASE g.color[u] # "gray" -> l
       [] g.color[u] = "gray" /\ g.state = "propagate" ->
            Barrier([l EXCEPT !.color[u] = "black"], u, g.ref[u].v)
       [] OTHER -> MakeWhite(Check(l, g.state \notin {"finalize", "pause"}), u)

CloseUpval(g, u) ==
  LET c == [g EXCEPT !.ref[u] = [@ EXCEPT !.v = UpValue(g, u), !.th = 0, !.slot = 0]]
  IN IF IsDead(g, u) THEN [g EXCEPT !.color[u] = "free", !.ref[u] = Blank]
     ELSE LinkUpval(Check(c, g.color[u] # "black"), u)

\* luaF_close, from the highest slot down.
Close(g, th, level) ==
  FoldLeft(CloseUpval, g,
           SetToSortSeq({u \in OpenOf(g, th) : g.ref[u].slot >= level},
                        LAMBDA a, b : g.ref[a].slot > g.ref[b].slot))

-----------------------------------------------------------------------------
(* Sweeping.                                                                *)

Free(g, o) ==
  LET c == IF kind[o] = "thread" THEN Close(g, o, 1) ELSE g
  IN [c EXCEPT !.color[o] = "free", !.ref[o] = Blank, !.bits[o] = {}, !.fin = @ \ {o},
               !.root = SelectSeq(@, LAMBDA x : x # o),
               !.stk = [t \in DOMAIN @ |-> IF t = o THEN [s \in DOMAIN @[t] |-> 0] ELSE @[t]]]

SweepOne(g, o) ==
  LET uvs == IF kind[o] # "thread" THEN <<>> ELSE SetToSeq(OpenOf(g, o))
      one(a, x) == IF IsDead(a, x) THEN Free(a, x) ELSE MakeWhite(a, x)
  IN one(FoldLeft(one, g, uvs), o)

\* The objects behind the place that "sweep" points to; 0 is the head.
Behind(g) == IF g.sweep = 0 THEN g.root
             ELSE SubSeq(g.root, SelectInSeq(g.root, LAMBDA x : x = g.sweep) + 1, Len(g.root))

SweepPast(g, o) == IF g.color[o] = "free" THEN g ELSE [g EXCEPT !.sweep = o]
RECURSIVE SweepList(_, _)
SweepList(g, n) ==
  LET o == Head(Behind(g))
  IN IF Behind(g) = <<>> \/ n = 0 THEN g ELSE SweepList(SweepPast(SweepOne(g, o), o), n - 1)

SweepEnd(g) == IF Behind(g) = <<>> THEN [g EXCEPT !.state = "finalize"] ELSE g
Sweep(g) == SweepEnd(SweepList(g, SweepMax))

Buckets == 2
SweepString(g) ==
  LET strs == SetToSeq({o \in OfKind("str") : g.color[o] # "free" /\ o % Buckets = g.bucket})
      s == FoldLeft(SweepOne, g, strs)
  IN [s EXCEPT !.bucket = @ + 1, !.state = IF g.bucket + 1 = Buckets THEN "sweep" ELSE @]

\* Udata are listed behind the main thread.
LinkUdata(g, o) ==
  LET p == SelectInSeq(g.root, LAMBDA x : x = M) IN [g EXCEPT !.root = InsertAt(@, p + 1, o)]

\* GCTM, up to the call: the finalizer's argument has a slot of its own.
TakeFinal(g) ==
  LET o == Head(g.tmu)
      l == MakeWhite(LinkUdata([g EXCEPT !.tmu = Tail(@), !.left = IF @ = 0 THEN 0 ELSE @ - 1], o), o)
  IN IF HasGc(g.ref[o].meta) THEN [l EXCEPT !.stk[M] = Append(Front(@), o)] ELSE l

SingleStep(g) ==
  CASE g.state = "pause" -> MarkRoot(g)
    [] g.state = "propagate" -> IF g.gray # <<>> THEN PropagateMark(g) ELSE Atomic(g)
    [] g.state = "sweepstring" -> SweepString(g)
    [] g.state = "sweep" -> Sweep(g)
    [] g.state = "finalize" -> IF g.tmu # <<>> THEN TakeFinal(g) ELSE [g EXCEPT !.state = "pause"]

RECURSIVE StepUntilFinalize(_)
StepUntilFinalize(g) == IF g.state = "finalize" THEN g ELSE StepUntilFinalize(SingleStep(g))

\* luaC_fullgc, as far as the calls of finalizers.
FullGc(g) ==
  LET reset == [g EXCEPT !.bucket = 0, !.sweep = 0, !.gray = <<>>, !.again = <<>>,
                         !.weak = <<>>, !.state = "sweepstring"]
  IN StepUntilFinalize(MarkRoot(StepUntilFinalize(
       IF g.state \in {"pause", "propagate"} THEN reset ELSE g)))

-----------------------------------------------------------------------------
(* The program.                                                             *)

Regs == 1 .. Len(h.stk[M]) - 1
Held == ToSet(h.stk[M]) \ {0}
Move(g) == /\ moves < MaxMoves /\ h.state # "closed"
           /\ h' = g /\ moves' = moves + 1 /\ kept' = {}
           /\ UNCHANGED <<kind, ops, finals>>
\* A value goes to the first register that is free, or to the last one.
ToReg(g, o) ==
  LET free == {r \in Regs : g.stk[M][r] = 0}
  IN [g EXCEPT !.stk[M][IF free = {} THEN Max(Regs) ELSE Min(free)] = o]
\* The next object of a kind.
Free1(k) == LET f == {o \in OfKind(k) : h.color[o] = "free"} IN IF f = {} THEN {} ELSE {Min(f)}

\* luaC_link
Link(g, o) == [MakeWhite(g, o) EXCEPT !.root = <<o>> \o @]

New(o) ==
  /\ o \in UNION {Free1(kind[x]) : x \in Tables \cup {M}}
  /\ Move(ToReg(Link(h, o), o))
NewUdata(o) ==
  /\ o \in Free1("udata")
  /\ moves < MaxMoves /\ h.state # "closed"
  /\ h' = ToReg(LinkUdata(MakeWhite([h EXCEPT !.ref[o].env = G, !.age = <<o>> \o SelectSeq(@, LAMBDA x : x # o)], o), o), o)
  /\ moves' = moves + 1 /\ kept' = {} /\ finals' = [finals EXCEPT ![o] = 0]
  /\ UNCHANGED <<kind, ops>>
\* A string that was there may be dead, but not swept yet.
GetString(o) ==
  /\ o \in OfKind("str")
  /\ Move(ToReg(IF h.color[o] = "free" \/ IsDead(h, o) THEN MakeWhite(h, o) ELSE h, o))

\* A closure that captures a slot of a thread.
FindUpval(g, th, s, new) ==
  LET open == {u \in OpenOf(g, th) : g.ref[u].slot = s}
      u == CHOOSE x \in open : TRUE
  IN IF open # {} THEN [g |-> IF IsDead(g, u) THEN MakeWhite(g, u) ELSE g, u |-> u]
     ELSE [g |-> MakeWhite([g EXCEPT !.ref[new].th = th, !.ref[new].slot = s], new), u |-> new]
Closure(o, new, th, s) ==
  /\ o \in Free1("fun") /\ new \in Free1("upval")
  /\ th = M \/ (th \in Held /\ kind[th] = "thread")
  /\ s \in 1 .. Len(h.stk[th]) - (IF th = M THEN 1 ELSE 0)
  /\ LET f == FindUpval(Link(h, o), th, s, new)
     IN Move(ToReg([f.g EXCEPT !.ref[o].env = G, !.ref[o].up = f.u], o))

\* Reading: an entry without a value is not there.
Fetch(t, field) ==
  /\ t \in (Held \cup {G}) \cap Tables
  /\ field = "key" => h.ref[t].val # 0
  /\ h.ref[t][field] > 0
  /\ Move(ToReg(h, h.ref[t][field]))
Drop(r) == h.stk[M][r] # 0 /\ Move([h EXCEPT !.stk[M][r] = 0])

Store(t, v) ==
  /\ t \in (Held \cup {G}) \cap Tables /\ v \in Held \cup {0}
  /\ Move(BarrierT([h EXCEPT !.ref[t].arr = v], t, v))
StoreNode(t, k, v) ==
  /\ t \in (Held \cup {G}) \cap Tables /\ k \in Held /\ v \in Held \cup {0}
  /\ h.ref[t].val = 0 \/ h.ref[t].key = k
  /\ LET g == IF h.ref[t].key = k THEN h ELSE BarrierT([h EXCEPT !.ref[t].key = k], t, k)
     IN Move(BarrierT([g EXCEPT !.ref[t].val = v], t, v))
SetMeta(o, m) ==
  /\ o \in Held \cap (Tables \cup OfKind("udata")) /\ m \in {x \in Held \cap Tables : kind[x] # "table"} \cup {0}
  /\ h.ref[o].meta # m
  /\ LET g == [h EXCEPT !.ref[o].meta = m]
     IN Move(IF o \in Tables THEN BarrierT(g, o, m) ELSE Barrier(g, o, m))
SetEnv(o, t) ==
  /\ o \in Held \cap (OfKind("udata") \cup OfKind("fun")) /\ t \in Held \cap Tables
  /\ Move(Barrier([h EXCEPT !.ref[o].env = t], o, t))
GetUp(f) == f \in Held \cap OfKind("fun") /\ Move(ToReg(h, UpValue(h, h.ref[f].up)))
SetUp(f, v) ==
  /\ f \in Held \cap OfKind("fun") /\ v \in Held
  /\ LET u == h.ref[f].up
         r == h.ref[u]
         g == IF r.th = 0 THEN [h EXCEPT !.ref[u].v = v] ELSE [h EXCEPT !.stk[r.th][r.slot] = v]
     IN Move(Barrier(g, u, v))
\* A coroutine that is handed a value keeps it on its own stack.
Pass(co, v) == /\ co \in (Held \cap OfKind("thread")) \ {M} /\ v \in Held
               /\ Move([h EXCEPT !.stk[co][1] = v])
\* A function returns: its registers are closed and go.
Return(r) ==
  /\ \E s \in r .. Len(h.stk[M]) - 1 : h.stk[M][s] # 0
  /\ Move([Close(h, M, r) EXCEPT !.stk[M] = [s \in DOMAIN @ |-> IF s \in Regs /\ s >= r THEN 0 ELSE @[s]]])

-----------------------------------------------------------------------------

Started(shape) ==
  LET n == Len(shape.kind)
      live == ToSet(shape.live) \cup IF shape.meta = {} THEN {} ELSE {3}
      others == SelectSeq([o \in 1 .. n - 2 |-> o + 2],
                          LAMBDA o : o \in live /\ shape.kind[o] \notin {"udata", "str"})
      udata == SelectSeq(Reverse([o \in 1 .. n |-> o]), LAMBDA o : o \in live /\ shape.kind[o] = "udata")
      ref(o) == [Blank EXCEPT !.env = IF shape.kind[o] = "udata" THEN G ELSE 0,
                              !.meta = IF o \in shape.meta THEN 3 ELSE 0]
  IN [color |-> [o \in 1 .. n |-> IF o <= 2 \/ o \in live THEN "w0" ELSE "free"],
      ref |-> [o \in 1 .. n |-> IF o \in live THEN ref(o) ELSE Blank],
      stk |-> [o \in {x \in 1 .. n : shape.kind[x] = "thread"} |->
                 IF o = M THEN shape.live \o <<0>> ELSE <<0>>],
      white |-> "w0", gray |-> <<>>, again |-> <<>>, weak |-> <<>>,
      root |-> others \o <<G, M>> \o udata, bits |-> [o \in 1 .. n |-> {}], fin |-> {},
      tmu |-> <<>>, left |-> 0, age |-> udata, state |-> "pause", sweep |-> 0, bucket |-> 0,
      ok |-> TRUE]

Init == /\ \E shape \in Shapes : kind = shape.kind /\ ops = shape.ops /\ h = Started(shape)
        /\ moves = 0 /\ kept = {} /\ finals = [o \in DOMAIN kind |-> 0]

CountFinals(g, n) ==
  [o \in Objs |-> finals[o] +
     (IF \E m \in 1 .. n : g.tmu[m] = o /\ HasGc(g.ref[o].meta) THEN 1 ELSE 0)]

\* One step of the collector, as an allocation makes them.
Collect ==
  /\ h.state # "closed"
  /\ h' = SingleStep(h)
  /\ finals' = IF h.state = "finalize" /\ h.tmu # <<>> THEN CountFinals(h, 1) ELSE finals
  /\ kept' = {} /\ UNCHANGED <<kind, ops, moves>>

-----------------------------------------------------------------------------
(* What is reachable, by definition.                                        *)

Strong(g, o) ==
  LET r == g.ref[o]
      weak == Weakness(r.meta)
      entry == IF r.val = 0 THEN {}
               ELSE (IF "k" \in weak THEN {} ELSE {r.key}) \cup (IF "v" \in weak THEN {} ELSE {r.val})
      to == CASE o \in Tables -> {r.meta} \cup entry \cup (IF "v" \in weak THEN {} ELSE {r.arr})
              [] kind[o] = "udata" -> {r.meta, r.env}
              [] kind[o] = "fun" -> {r.env, r.up}
              [] kind[o] = "upval" -> {UpValue(g, o)}
              [] kind[o] = "thread" -> {G} \cup ToSet(g.stk[o])
              [] OTHER -> {}
  IN {x \in to : x > 0}

RECURSIVE ReachFrom(_, _)
ReachFrom(g, set) == LET more == set \cup UNION {Strong(g, o) : o \in set}
                     IN IF more = set THEN set ELSE ReachFrom(g, more)

\* What a collection has to keep: what is in use, what the finalizers it will
\* call can use, and the strings in weak tables that stay.
DueFinal(g, used) ==
  {o \in OfKind("udata") \ used : g.color[o] # "free" /\ o \notin g.fin /\ HasGc(g.ref[o].meta)}
KeptOf(g, all, finalized) ==
  LET goes(o, iskey) == /\ o > 0 /\ kind[o] # "str"
                        /\ o \notin all \/ (kind[o] = "udata" /\ ~iskey /\ o \in finalized)
      strs(t) == LET r == g.ref[t]
                 IN {r.arr} \cup IF r.val = 0 \/ goes(r.key, TRUE) \/ goes(r.val, FALSE) THEN {}
                                 ELSE {r.key, r.val}
  IN all \cup {o \in UNION {strs(t) : t \in all \cap Tables} : o > 0 /\ kind[o] = "str"}
KeptWith(g, used, final) == KeptOf(g, ReachFrom(g, used \cup final), g.fin \cup final)
KeptIn(g, used) == KeptWith(g, used, DueFinal(g, used))
Keeps(g) == KeptIn(g, ReachFrom(g, {M, G} \cup ToSet(g.tmu)))

FullCollect ==
  /\ h.state # "closed" /\ moves < MaxMoves
  /\ h' = FullGc(h)
  /\ kept' = Keeps(h)
  /\ moves' = moves + 1
  /\ UNCHANGED <<kind, ops, finals>>

\* lua_close: every userdata left is finalized, reachable or not.
CloseState ==
  /\ h.state # "closed"
  /\ LET g == SeparateUdata([Close(h, M, 1) EXCEPT !.stk[M] = [s \in DOMAIN @ |-> 0]], TRUE)
     IN /\ finals' = CountFinals(g, Len(g.tmu))
        /\ h' = [g EXCEPT !.state = "closed", !.tmu = <<>>]
  /\ kept' = {} /\ UNCHANGED <<kind, ops, moves>>
Closed == h.state = "closed" /\ UNCHANGED vars

Of(op) == op \in ops
Next ==
  \/ Of("new") /\ \E o \in Objs : New(o) \/ NewUdata(o)
  \/ Of("string") /\ \E o \in Objs : GetString(o)
  \/ Of("closure") /\ \E o \in Free1("fun"), u \in Free1("upval"), th \in OfKind("thread"), s \in Regs :
       Closure(o, u, th, s)
  \/ Of("fetch") /\ \E t \in Tables, f \in {"arr", "key", "val", "meta"} : Fetch(t, f)
  \/ Of("upvalue") /\ \E f \in Held, v \in Held : GetUp(f) \/ SetUp(f, v)
  \/ Of("return") /\ \E r \in Regs : Return(r)
  \/ Of("pass") /\ \E co, v \in Held : Pass(co, v)
  \/ \E r \in Regs : Drop(r)
  \/ Of("store") /\ \E t \in Held \cup {G}, v \in Held \cup {0} : Store(t, v)
  \/ Of("node") /\ \E t \in Held, k \in Held, v \in Held \cup {0} : StoreNode(t, k, v)
  \/ Of("meta") /\ \E o \in Held, m \in Held \cup {0} : SetMeta(o, m)
  \/ Of("env") /\ \E o, t \in Held : SetEnv(o, t)
  \/ Collect \/ FullCollect \/ CloseState \/ Closed

Spec == Init /\ [][Next]_vars

-----------------------------------------------------------------------------

\* No object in use is freed, at whatever point of a collection the program
\* stores, reads, captures, closes or sets a metatable: neither one that is
\* reachable, or that a finalizer still to be called can reach, nor one that a
\* weak table still shows; while marking, no black object refers to a white
\* one; and the collector's assertions hold (lgc.c, lfunc.c).
HeapSound ==
  LET used == IF h.state = "closed" THEN {} ELSE ReachFrom(h, {M, G} \cup ToSet(h.tmu))
      shown(t) == {h.ref[t].arr} \cup IF h.ref[t].val = 0 THEN {} ELSE {h.ref[t].key, h.ref[t].val}
  IN /\ \A o \in used : h.color[o] # "free" /\ ~(h.state \in {"sweepstring", "sweep"} /\ IsDead(h, o))
     /\ \A t \in used \cap Tables : \A o \in shown(t) : o > 0 => h.color[o] # "free"
     /\ h.state = "propagate" =>
          \A o \in used : h.color[o] = "black" => \A x \in Strong(h, o) : ~IsWhite(h, x)
     /\ h.ok

\* A full collection, wherever the incremental one was, keeps exactly what it
\* has to; a userdata is finalized once at most, the ones found dead together
\* from the newest to the oldest; and closing the state finalizes every one
\* that is left (luaC_fullgc, luaC_separateudata, GCTM, lua_close).
CollectsRight ==
  /\ kept # {} => kept = {o \in Objs : h.color[o] # "free"}
  /\ \A o \in Objs : finals[o] <= 1
  /\ \A m, n \in h.left + 1 .. Len(h.tmu) :
       m < n => SelectInSeq(h.age, LAMBDA x : x = h.tmu[m]) < SelectInSeq(h.age, LAMBDA x : x = h.tmu[n])
  /\ h.state = "closed" =>
       \A o \in OfKind("udata") : h.color[o] # "free" /\ HasGc(h.ref[o].meta) => finals[o] = 1
=============================================================================
