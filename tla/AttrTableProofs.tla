-------------------------- MODULE AttrTableProofs --------------------------
(***************************************************************************)
(* What AttrTable counts: an inductive invariant about the nodes a key can *)
(* be in, what each call has found out, and who ever took each node, and   *)
(* the theorems that rest on it.                                           *)
(***************************************************************************)
EXTENDS AttrTable, FiniteSetTheorems, TLAPS

Busy == {p \in Procs : pc[p] # "idle"}

\* A key is only ever in a node of its own column, and was there taken.
Placed ==
  \A n \in Nodes : node[n].key # NoKey =>
    node[n].key \in takers[n] /\ \E r \in Rows : n = Slot(node[n].key, r)

\* What the calls know: whose key they are for, that no row behind them holds
\* it, that the node they use was taken for it.
CalledBy(p) ==
  /\ pc[p] = "idle" => row[p] = 1 /\ free[p] = NoNode
  /\ pc[p] # "idle" => key[p] \in Keys /\ key[p][2] = p
  /\ pc[p] \in {"lookup", "get"} =>
       \A r \in Rows : r < row[p] => node[Slot(key[p], r)].key # key[p]
  /\ pc[p] = "lookup" /\ free[p] # NoNode => \E r \in Rows : free[p] = Slot(key[p], r)
  /\ pc[p] = "key" => /\ \A n \in Nodes : node[n].key # key[p]
                      /\ \E r \in Rows : mine[p] = Slot(key[p], r)
  /\ pc[p] \in {"key", "attr", "zero", "read", "write", "got"} =>
       mine[p] \in Nodes /\ key[p] \in takers[mine[p]]

Called == \A p \in Procs : CalledBy(p)

\* The node n is one that the key k alone took, which took no other, and which
\* nobody cleared.
Lone(n, k) ==
  takers[n] = {k} /\ n \notin cleared /\ \A m \in Nodes \ {n} : k \notin takers[m]

\* It counts exactly, in the middle of a call too; until its key is written
\* nothing was counted.
ExactIn(n, k) ==
  /\ node[n].val = done[k]
  /\ node[n].key = NoKey => done[k] = 0
  /\ key[k[2]] = k =>
       /\ pc[k[2]] \in {"key", "attr", "zero"} => done[k] = 0
       /\ pc[k[2]] \in {"attr", "zero", "read", "write"} => node[n].key # NoKey
       /\ pc[k[2]] = "write" => read[k[2]] = done[k]
       /\ pc[k[2]] = "lookup" /\ free[k[2]] = n => node[n].key = NoKey

LoneExact == \A n \in Nodes : \A k \in Keys : Lone(n, k) => ExactIn(n, k)

\* What nobody took is as new.
Untaken ==
  /\ \A n \in Nodes : takers[n] = {} => node[n].key = NoKey /\ node[n].val = 0
  /\ \A k \in Keys : (\A n \in Nodes : k \notin takers[n]) => done[k] = 0

\* Each unit a node counts is a call that ended, or was made to end, in it: w
\* is what the calls that returned are worth to each node, those under way are
\* Busy.
AccountedFor(w) ==
  /\ \A n \in Nodes : node[n].val <= w[n]
  /\ \A p \in Procs : pc[p] = "write" => read[p] <= w[mine[p]]
  /\ IsFiniteSet(Units(w)) /\ Cardinality(Units(w)) + Cardinality(Busy) <= calls

Accounted == IsFiniteSet(Busy) /\ \E w \in [Nodes -> Nat] : AccountedFor(w)

\* The walk has met every node before its position.
Walked ==
  /\ at \in (1..(Len(Mods) + 1)) \X Nat
  /\ at[1] \in Rows => at[2] < NodesNum[at[1]]
  /\ seen = {n \in Nodes : n[1] < at[1] \/ (n[1] = at[1] /\ n[2] < at[2])}

IInv == TypeOK /\ KeyUnique /\ Placed /\ Called /\ Untaken /\ LoneExact /\ Accounted /\ Walked

---------------------------------------------------------------------------
(* The constants. *)

LEMMA RowsAre ==
  /\ Len(Mods) \in Nat \ {0} /\ Rows = 1..Len(Mods)
  /\ IsFiniteSet(Rows) /\ Cardinality(Rows) = Len(Mods)
<1>1. Len(Mods) \in Nat /\ Rows = 1..Len(Mods)
  BY AttrAssumption DEF AttrAssumption, Rows
<1>2. Len(Mods) # 0
  BY <1>1, AttrAssumption DEF AttrAssumption
<1>3. IsFiniteSet(1..Len(Mods)) /\ Cardinality(1..Len(Mods)) = Len(Mods)
  BY <1>1, <1>2, FS_Interval
<1> QED BY <1>1, <1>2, <1>3

LEMMA NodesAre ==
  \A n : n \in Nodes <=> /\ n = <<n[1], n[2]>> /\ n[1] \in Rows
                         /\ n[2] \in Nat /\ n[2] < NodesNum[n[1]]
<1>1. \A r \in Rows : NodesNum[r] \in Nat
  BY AttrAssumption, RowsAre DEF AttrAssumption
<1> QED BY <1>1 DEF Nodes

LEMMA SlotIsNode ==
  ASSUME NEW k \in Keys, NEW r \in Rows
  PROVE  Slot(k, r) \in Nodes /\ Slot(k, r)[1] = r
<1>1. Mods[r] \in Nat \ {0} /\ NodesNum[r] \in Nat /\ Mods[r] <= NodesNum[r] /\ Short[k] \in Nat
  BY AttrAssumption, RowsAre DEF AttrAssumption
<1>2. Short[k] % Mods[r] \in 0..(Mods[r] - 1)
  BY <1>1
<1> QED BY <1>1, <1>2, NodesAre DEF Slot

LEMMA NoKeyNoNode == NoKey \notin Keys /\ NoNode \notin Nodes
<1>1. NoKey \notin Keys
  BY DEF NoKey, Keys
<1> QED BY <1>1, NodesAre DEF NoNode

---------------------------------------------------------------------------
(* The types. *)

\* What the constants of the types are worth to the steps.
LEMMA Types ==
  /\ \A k \in Keys : k[1] \in Attrs /\ k[2] \in Procs /\ k = <<k[1], k[2]>>
  /\ \A a \in Attrs, p \in Procs : <<a, p>> \in Keys
  /\ Empty \in [key : Keys \cup {NoKey}, attr : Attrs \cup {0}, val : Nat]
  /\ 1 \in 1..(Cardinality(Rows) + 1)
  BY RowsAre DEF Keys, Empty

LEMMA TypeInit == Init => TypeOK
<1> SUFFICES ASSUME Init PROVE TypeOK
  OBVIOUS
<1> QED BY Types, AttrAssumption, RowsAre DEF Init, TypeOK, AttrAssumption

\* A call that ends leaves its process idle, with nothing in its variables.
\* What a write into one field leaves of the nodes.
NodeTable == [Nodes -> [key : Keys \cup {NoKey}, attr : Attrs \cup {0}, val : Nat]]

LEMMA NodeWritten ==
  ASSUME node \in NodeTable, NEW n
  PROVE  /\ \A k \in Keys : [node EXCEPT ![n].key = k] \in NodeTable
         /\ \A v \in Nat : [node EXCEPT ![n].val = v] \in NodeTable
  BY DEF NodeTable

LEMMA LeaveType ==
  ASSUME TypeOK, NEW p \in Procs, Leave(p)
  PROVE  /\ pc' \in [Procs -> {"idle", "lookup", "key", "attr", "zero", "read", "write", "get", "got"}]
         /\ key' \in [Procs -> Keys \cup {NoKey}] /\ method' \in [Procs -> {"incr", "set"}]
         /\ row' \in [Procs -> 1..(Cardinality(Rows) + 1)]
         /\ free' \in [Procs -> Nodes \cup {NoNode}] /\ mine' \in [Procs -> Nodes \cup {NoNode}]
         /\ read' \in [Procs -> Nat]
  BY Types DEF TypeOK, Leave, Goto

LEMMA TypeStep == TypeOK /\ Called /\ Walked /\ [Next]_vars => TypeOK'
<1> SUFFICES ASSUME TypeOK, Called, Walked, [Next]_vars PROVE TypeOK'
  OBVIOUS
<1> USE DEF TypeOK, Goto, At, ghost, local, walker
<1>0. Cardinality(Rows) \in Nat /\ Rows = 1..Cardinality(Rows) /\ MaxCalls \in Nat /\ MaxDeaths \in Nat
  BY RowsAre, AttrAssumption DEF AttrAssumption
<1>1. ASSUME NEW p \in Procs, Step(p) PROVE TypeOK'
  <2>1. CASE UpdateCall(p) \/ GetCall(p)
    <3>1. PICK a \in Attrs : key' = [key EXCEPT ![p] = <<a, p>>]
      BY <2>1 DEF UpdateCall, GetCall
    <3>2. key' \in [Procs -> Keys \cup {NoKey}]
      BY <3>1, Types
    <3>3. calls' \in 0..MaxCalls
      BY <2>1, <1>0 DEF UpdateCall, GetCall
    <3>5. method' \in [Procs -> {"incr", "set"}]
      BY <2>1 DEF UpdateCall, GetCall
    <3>4. row' \in [Procs -> 1..(Cardinality(Rows) + 1)]
      BY <2>1, Types DEF UpdateCall, GetCall
    <3> QED BY <2>1, <3>2, <3>3, <3>4, <3>5 DEF UpdateCall, GetCall
  <2>2. CASE Lookup(p)
    <3>1. key[p] \in Keys /\ Slot(key[p], row[p]) \in Nodes
      BY <2>2, SlotIsNode DEF Lookup, Called, CalledBy
    <3>2. row[p] + 1 \in 1..(Cardinality(Rows) + 1)
      BY <2>2, <1>0 DEF Lookup
    <3>3. CASE node[Slot(key[p], row[p])].key = key[p]
      <4>1. row' = [row EXCEPT ![p] = 1] /\ mine' = [mine EXCEPT ![p] = Slot(key[p], row[p])]
        BY <2>2, <3>3 DEF Lookup
      <4>2. row' \in [Procs -> 1..(Cardinality(Rows) + 1)] /\ mine' \in [Procs -> Nodes \cup {NoNode}]
        BY <4>1, <3>1, <1>0
      <4>3. pc' \in [Procs -> {"idle", "lookup", "key", "attr", "zero", "read", "write", "get", "got"}]
        BY <2>2, <3>3 DEF Lookup
      <4>4. free' \in [Procs -> Nodes \cup {NoNode}]
        BY <2>2, <3>3 DEF Lookup
      <4> QED BY <2>2, <4>2, <4>3, <4>4 DEF Lookup
    <3>4. CASE node[Slot(key[p], row[p])].key # key[p]
      BY <2>2, <3>1, <3>2, <3>4 DEF Lookup
    <3> QED BY <3>3, <3>4
  <2>3. CASE GetLookup(p)
    <3>1. key[p] \in Keys /\ Slot(key[p], row[p]) \in Nodes
      BY <2>3, SlotIsNode DEF GetLookup, Called, CalledBy
    <3>2. row[p] + 1 \in 1..(Cardinality(Rows) + 1)
      BY <2>3, <1>0 DEF GetLookup
    <3>3. CASE node[Slot(key[p], row[p])].key = key[p]
      <4>1. row' = [row EXCEPT ![p] = 1] /\ mine' = [mine EXCEPT ![p] = Slot(key[p], row[p])]
        BY <2>3, <3>3 DEF GetLookup
      <4>2. row' \in [Procs -> 1..(Cardinality(Rows) + 1)] /\ mine' \in [Procs -> Nodes \cup {NoNode}]
        BY <4>1, <3>1, <1>0
      <4>3. pc' \in [Procs -> {"idle", "lookup", "key", "attr", "zero", "read", "write", "get", "got"}]
        BY <2>3, <3>3 DEF GetLookup
      <4>4. free' \in [Procs -> Nodes \cup {NoNode}]
        BY <2>3, <3>3 DEF GetLookup
      <4> QED BY <2>3, <4>2, <4>3, <4>4 DEF GetLookup
    <3>4. CASE node[Slot(key[p], row[p])].key # key[p]
      BY <2>3, <3>1, <3>2, <3>4 DEF GetLookup
    <3> QED BY <3>3, <3>4
  <2>4. CASE TakeFree(p)
    <3>1. key[p] \in Keys /\ free[p] \in Nodes
      BY <2>4 DEF TakeFree, Called, CalledBy
    <3> QED BY <2>4, <3>1, <1>0 DEF TakeFree
  <2>5. CASE OutOfMemory(p) \/ GetAnswers(p)
    BY <2>5, LeaveType DEF OutOfMemory, GetAnswers
  <2>6. CASE WriteKey(p)
    <3>1. key[p] \in Keys
      BY <2>6 DEF WriteKey, Called, CalledBy
    <3>2. node' \in NodeTable
      BY <2>6, <3>1, NodeWritten DEF WriteKey, NodeTable
    <3> QED BY <2>6, <3>2 DEF WriteKey, NodeTable
  <2>7. CASE WriteAttr(p)
    BY <2>7, Types DEF WriteAttr, Called, CalledBy
  <2>8. CASE ZeroVal(p)
    <3>1. node' \in NodeTable
      BY <2>8, NodeWritten DEF ZeroVal, NodeTable
    <3> QED BY <2>8, <3>1 DEF ZeroVal, NodeTable
  <2>9. CASE ReadVal(p)
    <3>1. mine[p] \in Nodes
      BY <2>9 DEF ReadVal, Called, CalledBy
    <3> QED BY <2>9, <3>1 DEF ReadVal
  <2>10. CASE WriteVal(p)
    <3>1. key[p] \in Keys /\ mine[p] \in Nodes /\ read[p] + 1 \in Nat /\ done[key[p]] + 1 \in Nat
      BY <2>10 DEF WriteVal, Called, CalledBy
    <3>2. node' \in NodeTable
      BY <2>10, <3>1, NodeWritten DEF WriteVal, NodeTable
    <3>3. done' \in [Keys -> Nat]
      BY <2>10, <3>1 DEF WriteVal
    <3> QED BY <2>10, <3>2, <3>3, LeaveType DEF WriteVal, NodeTable
  <2>11. CASE SetVal(p)
    <3>1. node' \in NodeTable
      BY <2>11, NodeWritten DEF SetVal, NodeTable
    <3>2. done' \in [Keys -> Nat]
      BY <2>11 DEF SetVal
    <3> QED BY <2>11, <3>1, <3>2, LeaveType DEF SetVal, NodeTable
  <2>12. CASE Dies(p)
    <3>1. deaths' \in 0..MaxDeaths
      BY <2>12, <1>0 DEF Dies
    <3> QED BY <2>12, <3>1, LeaveType DEF Dies
  <2> QED BY <1>1, <2>1, <2>2, <2>3, <2>4, <2>5, <2>6, <2>7, <2>8, <2>9, <2>10, <2>11, <2>12 DEF Step
<1>2. CASE CollectorVisits
  <2>1. at \in Nodes
    BY <1>2, NodesAre DEF CollectorVisits, Exists, Walked
  <2> QED BY <1>2, <2>1, Types DEF CollectorVisits
<1>3. CASE CollectorStartsAgain
  BY <1>3 DEF CollectorStartsAgain
<1>4. CASE Over \/ UNCHANGED vars
  BY <1>4 DEF Over, vars
<1> QED BY <1>1, <1>2, <1>3, <1>4 DEF Next

---------------------------------------------------------------------------
(* The walk of the collector. *)

LEMMA WalkedInit == Init => Walked
<1> SUFFICES ASSUME Init PROVE Walked
  OBVIOUS
<1>1. at = <<1, 0>> /\ seen = {} /\ 1 \in Rows /\ 0 < NodesNum[1]
  BY RowsAre, AttrAssumption DEF Init, AttrAssumption
<1>2. \A n \in Nodes : n[1] \in Rows /\ n[2] \in Nat
  BY NodesAre
<1> QED BY <1>1, <1>2, RowsAre DEF Walked

LEMMA WalkedStep == Walked /\ [Next]_vars => Walked'
<1> SUFFICES ASSUME Walked, [Next]_vars PROVE Walked'
  OBVIOUS
<1>0. /\ \A n \in Nodes : n = <<n[1], n[2]>> /\ n[1] \in Rows /\ n[2] \in Nat /\ n[2] < NodesNum[n[1]]
      /\ \A r \in Rows : NodesNum[r] \in Nat \ {0}
      /\ Len(Mods) \in Nat \ {0} /\ Rows = 1..Len(Mods)
  BY NodesAre, RowsAre, AttrAssumption DEF AttrAssumption
<1>1. CASE CollectorVisits
  <2>1. at \in Nodes /\ at' = Walk(at) /\ seen' = seen \cup {at}
    BY <1>1, NodesAre DEF CollectorVisits, Exists, Walked
  <2>2. PICK r \in Rows, c \in Nat : at = <<r, c>> /\ c < NodesNum[r]
    BY <2>1, <1>0
  <2>3. CASE c + 1 >= NodesNum[r]
    <3>1. at' = <<r + 1, 0>> /\ c + 1 = NodesNum[r]
      BY <2>1, <2>2, <2>3, <1>0 DEF Walk
    <3>2. seen' = {n \in Nodes : n[1] < r + 1}
      BY <3>1, <2>1, <2>2, <1>0 DEF Walked
    <3>3. seen' = {n \in Nodes : n[1] < r + 1 \/ (n[1] = r + 1 /\ n[2] < 0)}
      BY <3>2, <1>0
    <3>4. at' \in (1..(Len(Mods) + 1)) \X Nat
      BY <3>1, <1>0
    <3> QED BY <3>1, <3>3, <3>4, <1>0 DEF Walked
  <2>4. CASE c + 1 < NodesNum[r]
    <3>1. at' = <<r, c + 1>>
      BY <2>1, <2>2, <2>4, <1>0 DEF Walk
    <3>2. seen' = {n \in Nodes : n[1] < r \/ (n[1] = r /\ n[2] < c + 1)}
      BY <3>1, <2>1, <2>2, <1>0 DEF Walked
    <3>3. at' \in (1..(Len(Mods) + 1)) \X Nat
      BY <3>1, <1>0
    <3> QED BY <3>1, <3>2, <3>3, <2>4, <1>0 DEF Walked
  <2> QED BY <2>2, <2>3, <2>4, <1>0
<1>2. CASE CollectorStartsAgain
  <2>1. at' = <<1, 0>> /\ seen' = {} /\ 1 \in Rows /\ 0 < NodesNum[1]
    BY <1>2, <1>0 DEF CollectorStartsAgain
  <2> QED BY <2>1, <1>0 DEF Walked
<1>3. ASSUME NEW p \in Procs, Step(p) PROVE UNCHANGED walker
  BY <1>3 DEF Step, UpdateCall, Lookup, TakeFree, OutOfMemory, WriteKey, WriteAttr, ZeroVal, ReadVal,
    WriteVal, SetVal, GetCall, GetLookup, GetAnswers, Dies
<1>4. CASE UNCHANGED walker
  BY <1>4 DEF walker, Walked
<1>5. Over \/ UNCHANGED vars => UNCHANGED walker
  BY DEF Over, vars
<1> QED BY <1>1, <1>2, <1>3, <1>4, <1>5 DEF Next

---------------------------------------------------------------------------
(* What a step of one process leaves to the others. *)

LEMMA StepFrame ==
  ASSUME TypeOK, Called, NEW p \in Procs, Step(p)
  PROVE  /\ \A q \in Procs \ {p} : /\ pc'[q] = pc[q] /\ key'[q] = key[q] /\ row'[q] = row[q]
                                   /\ free'[q] = free[q] /\ mine'[q] = mine[q] /\ read'[q] = read[q]
         /\ \A n \in Nodes : \/ node'[n].key = node[n].key
                             \/ WriteKey(p) /\ n = mine[p] /\ node'[n].key = key[p]
         /\ \A n \in Nodes : \/ takers'[n] = takers[n]
                             \/ TakeFree(p) /\ n = free[p] /\ takers'[n] = takers[n] \cup {key[p]}
         /\ cleared' = cleared
         /\ \A n \in Nodes : node'[n].val = node[n].val \/ n = mine[p]
         /\ \A k \in Keys : done'[k] = done[k] \/ k = key[p]
<1> USE DEF TypeOK, Goto, At, ghost, local, Leave
<1>1. CASE UpdateCall(p) \/ GetCall(p) \/ Lookup(p) \/ GetLookup(p)
  BY <1>1 DEF UpdateCall, GetCall, Lookup, GetLookup
<1>2. CASE TakeFree(p)
  BY <1>2 DEF TakeFree
<1>3. CASE OutOfMemory(p) \/ GetAnswers(p) \/ ReadVal(p) \/ Dies(p)
  BY <1>3 DEF OutOfMemory, GetAnswers, ReadVal, Dies
<1>4. CASE WriteKey(p)
  BY <1>4 DEF WriteKey
<1>5. CASE WriteAttr(p)
  BY <1>5 DEF WriteAttr
<1>7. CASE ZeroVal(p)
  BY <1>7 DEF ZeroVal
<1>6. CASE WriteVal(p) \/ SetVal(p)
  BY <1>6 DEF WriteVal, SetVal
<1> QED BY <1>1, <1>2, <1>3, <1>4, <1>5, <1>6, <1>7 DEF Step

LEMMA CollectorFrame ==
  ASSUME TypeOK, Walked, CollectorVisits
  PROVE  /\ UNCHANGED <<local, calls, deaths, done, takers>>
         /\ \A n \in Nodes : node'[n] = node[n] \/ (node'[n] = Empty /\ n \in cleared')
         /\ cleared \subseteq cleared'
<1>1. at \in Nodes
  BY NodesAre DEF CollectorVisits, Exists, Walked
<1> QED BY <1>1 DEF CollectorVisits, TypeOK

\* The steps that change nothing the invariant is about.
LEMMA StillFrame ==
  CollectorStartsAgain \/ Over \/ UNCHANGED vars => UNCHANGED <<node, local, ghost>>
  BY DEF CollectorStartsAgain, Over, vars

---------------------------------------------------------------------------
(* Keys are where they may be, once. *)

LEMMA KeysInit == Init => KeyUnique /\ Placed /\ Called /\ Untaken
<1> SUFFICES ASSUME Init PROVE KeyUnique /\ Placed /\ Called /\ Untaken
  OBVIOUS
<1>1. \A n \in Nodes : node[n].key = NoKey /\ node[n].val = 0
  BY DEF Init, Empty
<1> QED BY <1>1 DEF Init, KeyUnique, Placed, Called, CalledBy, Untaken

LEMMA KeyUniqueStep == TypeOK /\ Called /\ Walked /\ KeyUnique /\ [Next]_vars => KeyUnique'
<1> SUFFICES ASSUME TypeOK, Called, Walked, KeyUnique, [Next]_vars PROVE KeyUnique'
  OBVIOUS
<1>1. ASSUME NEW p \in Procs, Step(p) PROVE KeyUnique'
  <2>1. WriteKey(p) => \A n \in Nodes : node[n].key # key[p]
    BY DEF WriteKey, At, Called, CalledBy
  <2> QED BY <1>1, <2>1, StepFrame DEF KeyUnique
<1>2. CASE CollectorVisits
  BY <1>2, CollectorFrame DEF KeyUnique, Empty
<1>3. CASE UNCHANGED <<node, local, ghost>>
  BY <1>3 DEF KeyUnique
<1> QED BY <1>1, <1>2, <1>3, StillFrame DEF Next

LEMMA PlacedStep == TypeOK /\ Called /\ Walked /\ Placed /\ [Next]_vars => Placed'
<1> SUFFICES ASSUME TypeOK, Called, Walked, Placed, [Next]_vars PROVE Placed'
  OBVIOUS
<1> USE DEF Slot
<1>1. ASSUME NEW p \in Procs, Step(p) PROVE Placed'
  <2>1. WriteKey(p) => key[p] \in takers[mine[p]] /\ \E r \in Rows : mine[p] = Slot(key[p], r)
    BY DEF WriteKey, At, Called, CalledBy
  <2>2. \A n \in Nodes : takers[n] \subseteq takers'[n]
    BY <1>1, StepFrame
  <2>3. ASSUME NEW n \in Nodes, node'[n].key # NoKey
        PROVE  node'[n].key \in takers'[n] /\ \E r \in Rows : n = Slot(node'[n].key, r)
    <3>1. CASE node'[n].key = node[n].key
      BY <2>2, <2>3, <3>1 DEF Placed
    <3>2. CASE WriteKey(p) /\ n = mine[p] /\ node'[n].key = key[p]
      BY <2>1, <2>2, <3>2
    <3> QED BY <1>1, <3>1, <3>2, StepFrame
  <2> QED BY <2>3 DEF Placed
<1>2. CASE CollectorVisits
  BY <1>2, CollectorFrame DEF Placed, Empty
<1>3. CASE UNCHANGED <<node, local, ghost>>
  BY <1>3 DEF Placed, ghost
<1> QED BY <1>1, <1>2, <1>3, StillFrame DEF Next

\* A key that no row holds is nowhere.
LEMMA LookedEverywhere ==
  ASSUME TypeOK, Placed, Called, NEW p \in Procs, pc[p] \in {"lookup", "get"}, row[p] \notin Rows
  PROVE  \A n \in Nodes : node[n].key # key[p]
<1>1. key[p] \in Keys /\ key[p] # NoKey
  BY NoKeyNoNode DEF Called, CalledBy
<1>2. \A r \in Rows : r < row[p]
  BY RowsAre DEF TypeOK
<1>3. \A r \in Rows : node[Slot(key[p], r)].key # key[p]
  BY <1>2 DEF Called, CalledBy
<1> QED BY <1>1, <1>3 DEF Placed

LEMMA UntakenStep == TypeOK /\ Called /\ Walked /\ Untaken /\ [Next]_vars => Untaken'
<1> SUFFICES ASSUME TypeOK, Called, Walked, Untaken, [Next]_vars PROVE Untaken'
  OBVIOUS
<1>1. ASSUME NEW p \in Procs, Step(p) PROVE Untaken'
  <2>1. \A n \in Nodes : takers[n] \subseteq takers'[n]
    BY <1>1, StepFrame
  <2>2. CASE pc[p] \in {"key", "attr", "zero", "read", "write", "got"}
    <3>1. mine[p] \in Nodes /\ key[p] \in takers[mine[p]]
      BY <2>2 DEF Called, CalledBy
    <3>2. \A n \in Nodes : n # mine[p] => node'[n].key = node[n].key /\ node'[n].val = node[n].val
      BY <1>1, StepFrame
    <3>3. \A k \in Keys : k # key[p] => done'[k] = done[k]
      BY <1>1, StepFrame
    <3> QED BY <2>1, <3>1, <3>2, <3>3 DEF Untaken
  <2>3. CASE pc[p] \in {"idle", "lookup", "get"}
    <3>1. UNCHANGED <<node, done>>
      BY <1>1, <2>3 DEF Step, At, UpdateCall, Lookup, TakeFree, OutOfMemory, WriteKey, WriteAttr, ZeroVal,
        ReadVal, WriteVal, SetVal, GetCall, GetLookup, GetAnswers, Dies, ghost
    <3> QED BY <2>1, <3>1 DEF Untaken
  <2> QED BY <2>2, <2>3 DEF TypeOK
<1>2. CASE CollectorVisits
  BY <1>2, CollectorFrame DEF Untaken, Empty
<1>3. CASE UNCHANGED <<node, local, ghost>>
  BY <1>3 DEF Untaken, ghost
<1> QED BY <1>1, <1>2, <1>3, StillFrame DEF Next

---------------------------------------------------------------------------
(* What the calls know stays true. *)

LEMMA CalledStep == TypeOK /\ Called /\ Walked /\ Placed /\ [Next]_vars => Called'
<1> SUFFICES ASSUME TypeOK, Called, Walked, Placed, [Next]_vars PROVE Called'
  OBVIOUS
<1>0. \A k \in Keys, r \in Rows : Slot(k, r) \in Nodes
  BY SlotIsNode
<1>1. ASSUME NEW p \in Procs, Step(p), NEW q \in Procs \ {p} PROVE CalledBy(q)'
  <2>1. /\ pc'[q] = pc[q] /\ key'[q] = key[q] /\ row'[q] = row[q]
        /\ free'[q] = free[q] /\ mine'[q] = mine[q]
    BY <1>1, StepFrame
  <2>2. pc[q] # "idle" => \A n \in Nodes : node[n].key # key[q] => node'[n].key # key[q]
    <3>1. WriteKey(p) /\ pc[q] # "idle" => key[p] # key[q]
      BY <1>1 DEF WriteKey, At, Called, CalledBy
    <3> QED BY <1>1, <3>1, StepFrame
  <2>3. \A n \in Nodes : takers[n] \subseteq takers'[n]
    BY <1>1, StepFrame
  <2>4. CalledBy(q)
    BY DEF Called
  <2> QED BY <1>0, <2>1, <2>2, <2>3, <2>4 DEF CalledBy
<1>2. ASSUME NEW p \in Procs, Step(p) PROVE CalledBy(p)'
  <2> USE DEF TypeOK, Goto, At, ghost
  <2>0. CalledBy(p)
    BY DEF Called
  <2>1. CASE UpdateCall(p) \/ GetCall(p)
    <3>1. /\ pc'[p] \in {"lookup", "get"} /\ row'[p] = 1 /\ free'[p] = NoNode
          /\ \E a \in Attrs : key'[p] = <<a, p>>
      BY <2>0, <2>1 DEF UpdateCall, GetCall, CalledBy
    <3>2. key'[p] \in Keys /\ key'[p][2] = p
      BY <3>1, Types
    <3>3. \A r \in Rows : ~(r < 1)
      BY RowsAre
    <3> QED BY <3>1, <3>2, <3>3 DEF CalledBy
  <2>2. CASE Lookup(p)
    <3> DEFINE n == Slot(key[p], row[p])
    <3>1. key[p] \in Keys /\ n \in Nodes /\ key[p] # NoKey /\ UNCHANGED <<key, node, takers>>
      BY <2>0, <2>2, <1>0, NoKeyNoNode DEF Lookup, CalledBy
    <3>2. CASE node[n].key = key[p]
      <4>1. pc'[p] = "read" /\ mine'[p] = n
        BY <2>2, <3>2 DEF Lookup
      <4>2. key[p] \in takers[n]
        BY <3>1, <3>2 DEF Placed
      <4> QED BY <2>0, <2>2, <3>1, <4>1, <4>2 DEF CalledBy, Lookup
    <3>3. CASE node[n].key # key[p]
      <4>1. pc'[p] = "lookup" /\ row'[p] = row[p] + 1 /\ free'[p] \in {free[p], n}
        BY <2>2, <3>3 DEF Lookup
      <4>2. \A r \in Rows : r < row[p] + 1 => node[Slot(key[p], r)].key # key[p]
        BY <2>0, <2>2, <3>3, RowsAre DEF Lookup, CalledBy
      <4> QED BY <2>0, <2>2, <3>1, <4>1, <4>2 DEF CalledBy, Lookup
    <3> QED BY <3>2, <3>3
  <2>3. CASE GetLookup(p)
    <3> DEFINE n == Slot(key[p], row[p])
    <3>1. key[p] \in Keys /\ n \in Nodes /\ key[p] # NoKey /\ UNCHANGED <<key, node, takers>>
      BY <2>0, <2>3, <1>0, NoKeyNoNode DEF GetLookup, CalledBy
    <3>2. CASE node[n].key = key[p]
      <4>1. pc'[p] = "got" /\ mine'[p] = n
        BY <2>3, <3>2 DEF GetLookup
      <4>2. key[p] \in takers[n]
        BY <3>1, <3>2 DEF Placed
      <4> QED BY <2>0, <2>3, <3>1, <4>1, <4>2 DEF CalledBy, GetLookup
    <3>3. CASE node[n].key # key[p]
      <4>1. pc'[p] = "get" /\ row'[p] = row[p] + 1
        BY <2>3, <3>3 DEF GetLookup
      <4>2. \A r \in Rows : r < row[p] + 1 => node[Slot(key[p], r)].key # key[p]
        BY <2>0, <2>3, <3>3, RowsAre DEF GetLookup, CalledBy
      <4> QED BY <2>0, <2>3, <3>1, <4>1, <4>2 DEF CalledBy, GetLookup
    <3> QED BY <3>2, <3>3
  <2>4. CASE TakeFree(p)
    <3>1. key[p] \in Keys /\ \E r \in Rows : free[p] = Slot(key[p], r)
      BY <2>0, <2>4 DEF TakeFree, CalledBy
    <3>2. free[p] \in Nodes
      BY <1>0, <3>1
    <3>3. \A m \in Nodes : node[m].key # key[p]
      BY <2>4, LookedEverywhere DEF TakeFree
    <3> QED BY <2>0, <2>4, <3>1, <3>2, <3>3 DEF TakeFree, CalledBy
  <2>5. CASE OutOfMemory(p) \/ GetAnswers(p) \/ WriteVal(p) \/ SetVal(p) \/ Dies(p)
    <3>1. pc'[p] = "idle" /\ row'[p] = 1 /\ free'[p] = NoNode
      BY <2>5 DEF OutOfMemory, GetAnswers, WriteVal, SetVal, Dies, Leave
    <3> QED BY <3>1 DEF CalledBy
  <2>6. CASE WriteKey(p) \/ WriteAttr(p) \/ ZeroVal(p) \/ ReadVal(p)
    <3>1. /\ pc'[p] \in {"attr", "zero", "read", "write"}
          /\ pc[p] \in {"key", "attr", "zero", "read"}
          /\ UNCHANGED <<key, mine, takers>>
      BY <2>6 DEF WriteKey, WriteAttr, ZeroVal, ReadVal
    <3> QED BY <2>0, <3>1 DEF CalledBy
  <2> QED BY <1>2, <2>1, <2>2, <2>3, <2>4, <2>5, <2>6 DEF Step
<1>3. CASE CollectorVisits
  <2>1. \A k \in Keys, n \in Nodes : node[n].key # k => node'[n].key # k
    BY <1>3, CollectorFrame, NoKeyNoNode DEF Empty
  <2> QED BY <1>0, <1>3, <2>1, CollectorFrame DEF Called, CalledBy, local
<1>4. CASE UNCHANGED <<node, local, ghost>>
  BY <1>4 DEF Called, CalledBy, ghost, local
<1>5. ASSUME NEW p \in Procs, Step(p) PROVE Called'
  BY <1>1, <1>2, <1>5 DEF Called
<1> QED BY <1>3, <1>4, <1>5, StillFrame DEF Next

---------------------------------------------------------------------------
(* A node of one key counts exactly. *)

LEMMA LoneInit == Init => LoneExact
<1> SUFFICES ASSUME Init PROVE LoneExact
  OBVIOUS
<1>1. \A n \in Nodes, k \in Keys : ~Lone(n, k)
  BY DEF Init, Lone
<1> QED BY <1>1 DEF LoneExact

\* Steps that take no node leave none lone that was not.
LEMMA LoneBefore ==
  ASSUME TypeOK, Called, NEW p \in Procs, Step(p), NEW n \in Nodes, NEW k \in Keys, Lone(n, k)',
         ~(TakeFree(p) /\ k = key[p])
  PROVE  Lone(n, k)
<1>1. CASE ~TakeFree(p)
  BY <1>1, StepFrame DEF Lone
<1>2. CASE TakeFree(p) /\ k # key[p]
  <2>1. n # free[p] /\ \A m \in Nodes : takers[m] \subseteq takers'[m]
    <3>1. \A m \in Nodes : takers[m] \subseteq takers'[m]
      BY StepFrame
    <3>2. n = free[p] => key[p] \in takers'[n]
      BY <1>2 DEF TakeFree, TypeOK
    <3> QED BY <1>2, <3>1, <3>2 DEF Lone
  <2> QED BY <1>2, <2>1, StepFrame DEF Lone
<1> QED BY <1>1, <1>2

\* The call that uses a lone node is for its key, and uses no other.
LEMMA LoneMine ==
  ASSUME TypeOK, Called, NEW p \in Procs, NEW n \in Nodes, NEW k \in Keys, Lone(n, k),
         pc[p] \in {"key", "attr", "zero", "read", "write", "got"}
  PROVE  mine[p] = n <=> key[p] = k
<1>1. mine[p] \in Nodes /\ key[p] \in takers[mine[p]]
  BY DEF Called, CalledBy
<1> QED BY <1>1 DEF Lone

\* A process works for the keys that are its own.
LEMMA KeyOwner ==
  ASSUME TypeOK, Called, NEW p \in Procs, NEW k \in Keys, pc[p] # "idle", key[p] = k
  PROVE  p = k[2]
  BY DEF Called, CalledBy

LEMMA LoneStep ==
  TypeOK /\ Called /\ Walked /\ Placed /\ Untaken /\ LoneExact /\ [Next]_vars => LoneExact'
<1> SUFFICES ASSUME TypeOK, Called, Walked, Placed, Untaken, LoneExact, [Next]_vars PROVE LoneExact'
  OBVIOUS
<1>1. ASSUME NEW p \in Procs, Step(p), NEW n \in Nodes, NEW k \in Keys, Lone(n, k)' PROVE ExactIn(n, k)'
  <2> USE DEF TypeOK, Goto, At, ghost
  <2>0. NoKey # k /\ NoNode # n /\ k[2] \in Procs
    BY NoKeyNoNode, Types
  <2>1. CASE TakeFree(p) /\ k = key[p]
    <3>1. p = k[2] /\ free[p] = n /\ takers[n] \subseteq {k} /\ n \notin cleared
      <4>1. free[p] \in Nodes /\ k \in takers'[free[p]] /\ pc[p] = "lookup"
        BY <2>1 DEF TakeFree
      <4>2. free[p] = n /\ n \notin cleared
        BY <1>1, <4>1, StepFrame DEF Lone
      <4>3. takers[n] \subseteq {k}
        BY <1>1, StepFrame DEF Lone
      <4> QED BY <2>1, <4>1, <4>2, <4>3, KeyOwner
    <3>2. \A m \in Nodes \ {n} : k \notin takers[m]
      BY <1>1, <2>1, <3>1, StepFrame DEF Lone
    <3>3. node[n].val = done[k] /\ done[k] = 0
      <4>1. CASE takers[n] = {}
        BY <3>2, <4>1 DEF Untaken
      <4>2. CASE takers[n] = {k}
        <5>1. Lone(n, k)
          BY <3>1, <3>2, <4>2 DEF Lone
        <5> QED BY <2>1, <3>1, <5>1 DEF LoneExact, ExactIn, TakeFree
      <4> QED BY <3>1, <4>1, <4>2
    <3>4. node'[n].val = node[n].val /\ done' = done /\ pc'[p] = "key" /\ key'[p] = k
      BY <2>1 DEF TakeFree
    <3> QED BY <3>1, <3>3, <3>4 DEF ExactIn
  <2>2. CASE ~(TakeFree(p) /\ k = key[p])
    <3>1. Lone(n, k) /\ ExactIn(n, k)
      BY <1>1, <2>2, LoneBefore DEF LoneExact
    <3>2. CASE key[p] # k /\ pc[p] # "idle"
      <4>1. node'[n].key = node[n].key /\ node'[n].val = node[n].val
        <5>1. CASE pc[p] \in {"key", "attr", "zero", "read", "write", "got"}
          BY <1>1, <3>1, <3>2, <5>1, LoneMine, StepFrame
        <5>2. CASE pc[p] \in {"lookup", "get"}
          BY <1>1, <5>2 DEF Step, UpdateCall, Lookup, TakeFree, OutOfMemory, WriteKey, WriteAttr, ZeroVal,
            ReadVal, WriteVal, SetVal, GetCall, GetLookup, GetAnswers, Dies
        <5> QED BY <3>2, <5>1, <5>2
      <4>2. done'[k] = done[k]
        BY <1>1, <3>2, StepFrame
      <4>3. p = k[2] => key'[p] # k
        BY <1>1, <2>0, <3>2 DEF Step, UpdateCall, Lookup, TakeFree, OutOfMemory, WriteKey, WriteAttr, ZeroVal,
            ReadVal, WriteVal, SetVal, GetCall, GetLookup, GetAnswers, Dies, Leave
      <4>4. p # k[2] => /\ pc'[k[2]] = pc[k[2]] /\ key'[k[2]] = key[k[2]]
                        /\ free'[k[2]] = free[k[2]] /\ read'[k[2]] = read[k[2]]
        BY <1>1, <2>0, StepFrame
      <4> QED BY <3>1, <4>1, <4>2, <4>3, <4>4 DEF ExactIn
    <3>3. CASE pc[p] = "idle"
      <4>1. UpdateCall(p) \/ GetCall(p)
        BY <1>1, <3>3 DEF Step, Lookup, TakeFree, OutOfMemory, WriteKey, WriteAttr, ZeroVal,
            ReadVal, WriteVal, SetVal, GetLookup, GetAnswers, Dies
      <4>2. UNCHANGED <<node, done, free, read>> /\ pc'[p] \in {"lookup", "get"} /\ free[p] = NoNode
        BY <3>3, <4>1 DEF UpdateCall, GetCall, Called, CalledBy
      <4>3. p # k[2] => pc'[k[2]] = pc[k[2]] /\ key'[k[2]] = key[k[2]]
        BY <1>1, <2>0, StepFrame
      <4> QED BY <2>0, <3>1, <4>2, <4>3 DEF ExactIn
    <3>4. CASE key[p] = k /\ pc[p] # "idle"
      <4>1. p = k[2] /\ key[p] = k
        BY <3>4, KeyOwner
      <4>2. CASE Lookup(p)
        <5> DEFINE m == Slot(key[p], row[p])
        <5>1. m \in Nodes /\ UNCHANGED <<node, key, done, read>>
          BY <4>1, <4>2, SlotIsNode DEF Lookup
        <5>2. CASE node[m].key = k
          <6>1. pc'[p] = "read" /\ m = n
            BY <2>0, <3>1, <4>1, <4>2, <5>1, <5>2 DEF Lookup, Placed, Lone
          <6> QED BY <2>0, <3>1, <4>1, <5>1, <5>2, <6>1 DEF ExactIn
        <5>3. CASE node[m].key # k
          <6>1. pc'[p] = "lookup" /\ (free'[p] = free[p] \/ (free'[p] = m /\ node[m].key = NoKey))
            BY <4>1, <4>2, <5>3 DEF Lookup
          <6> QED BY <3>1, <4>1, <4>2, <5>1, <6>1 DEF ExactIn, Lookup
        <5> QED BY <5>2, <5>3
      <4>3. CASE GetLookup(p)
        <5>1. UNCHANGED <<node, key, done, read>> /\ pc'[p] \in {"get", "got"}
          BY <4>3 DEF GetLookup
        <5> QED BY <3>1, <4>1, <5>1 DEF ExactIn
      <4>4. CASE OutOfMemory(p) \/ GetAnswers(p) \/ Dies(p)
        <5>1. UNCHANGED <<node, done>> /\ key'[p] = NoKey
          BY <4>4 DEF OutOfMemory, GetAnswers, Dies, Leave
        <5> QED BY <2>0, <3>1, <4>1, <5>1 DEF ExactIn
      <4>5. CASE WriteKey(p)
        <5>1. mine[p] = n
          BY <3>1, <4>1, <4>5, LoneMine DEF WriteKey
        <5>2. /\ node'[n].key = k /\ node'[n].val = node[n].val /\ pc'[p] = "attr" /\ pc[p] = "key"
              /\ UNCHANGED <<key, done>>
          BY <4>1, <4>5, <5>1 DEF WriteKey
        <5> QED BY <2>0, <3>1, <4>1, <5>2 DEF ExactIn
      <4>6. CASE WriteAttr(p)
        <5>1. mine[p] = n
          BY <3>1, <4>1, <4>6, LoneMine DEF WriteAttr
        <5>2. /\ node'[n].key = node[n].key /\ node'[n].val = node[n].val
              /\ pc'[p] = "zero" /\ pc[p] = "attr" /\ UNCHANGED <<key, done>>
          BY <4>6, <5>1 DEF WriteAttr
        <5> QED BY <3>1, <4>1, <5>2 DEF ExactIn
      <4>7. CASE ZeroVal(p)
        <5>1. mine[p] = n
          BY <3>1, <4>1, <4>7, LoneMine DEF ZeroVal
        <5>2. /\ node'[n].key = node[n].key /\ node'[n].val = 0
              /\ pc'[p] = "read" /\ pc[p] = "zero" /\ UNCHANGED <<key, done>>
          BY <4>7, <5>1 DEF ZeroVal
        <5> QED BY <3>1, <4>1, <5>2 DEF ExactIn
      <4>8. CASE ReadVal(p)
        <5>1. mine[p] = n
          BY <3>1, <4>1, <4>8, LoneMine DEF ReadVal
        <5>2. /\ read'[p] = node[n].val /\ pc'[p] = "write" /\ pc[p] = "read" /\ UNCHANGED <<node, key, done>>
          BY <4>8, <5>1 DEF ReadVal
        <5> QED BY <3>1, <4>1, <5>2 DEF ExactIn
      <4>9. CASE WriteVal(p) \/ SetVal(p)
        <5>1. mine[p] = n
          BY <3>1, <4>1, <4>9, LoneMine DEF WriteVal, SetVal
        <5>2. node'[n].key = node[n].key /\ node[n].key # NoKey
          BY <3>1, <4>1, <4>9, <5>1 DEF WriteVal, SetVal, ExactIn
        <5>3. node'[n].val = done'[k]
          BY <3>1, <4>1, <4>9, <5>1 DEF WriteVal, SetVal, ExactIn
        <5>4. key'[p] = NoKey
          BY <4>9 DEF WriteVal, SetVal, Leave
        <5> QED BY <2>0, <4>1, <5>2, <5>3, <5>4 DEF ExactIn
      <4>10. ~UpdateCall(p) /\ ~GetCall(p) /\ ~TakeFree(p)
        BY <2>2, <3>4 DEF UpdateCall, GetCall
      <4> QED BY <1>1, <4>2, <4>3, <4>4, <4>5, <4>6, <4>7, <4>8, <4>9, <4>10 DEF Step
    <3> QED BY <3>2, <3>3, <3>4
  <2> QED BY <2>1, <2>2
<1>2. CASE CollectorVisits
  <2>1. ASSUME NEW n \in Nodes, NEW k \in Keys, Lone(n, k)' PROVE ExactIn(n, k)'
    <3>1. Lone(n, k) /\ node'[n] = node[n]
      BY <1>2, <2>1, CollectorFrame DEF Lone
    <3> QED BY <1>2, <3>1, CollectorFrame DEF LoneExact, ExactIn, local
  <2> QED BY <2>1 DEF LoneExact
<1>3. CASE UNCHANGED <<node, local, ghost>>
  <2>1. ASSUME NEW n \in Nodes, NEW k \in Keys, Lone(n, k)' PROVE ExactIn(n, k)'
    BY <1>3, <2>1 DEF LoneExact, Lone, ExactIn, local, ghost
  <2> QED BY <2>1 DEF LoneExact
<1>4. ASSUME NEW p \in Procs, Step(p) PROVE LoneExact'
  BY <1>1, <1>4 DEF LoneExact
<1> QED BY <1>2, <1>3, <1>4, StillFrame DEF Next

---------------------------------------------------------------------------
(* No unit is counted without a call. *)

\* One unit more in one node is one unit more.
LEMMA UnitMore ==
  ASSUME NEW w \in [Nodes -> Nat], NEW n \in Nodes, IsFiniteSet(Units(w))
  PROVE  LET more == [w EXCEPT ![n] = @ + 1] IN
           /\ more \in [Nodes -> Nat]
           /\ IsFiniteSet(Units(more)) /\ Cardinality(Units(more)) = Cardinality(Units(w)) + 1
<1> DEFINE more == [w EXCEPT ![n] = @ + 1]
           unit == <<n, w[n] + 1>>
<1>1. more \in [Nodes -> Nat]
  OBVIOUS
<1>2. unit \notin Units(w)
  BY DEF Units
<1>3. Units(more) = Units(w) \cup {unit}
  <2>1. ASSUME NEW u \in Units(more) PROVE u \in Units(w) \cup {unit}
    <3>0. PICK m \in Nodes : u \in {m} \X (1..more[m])
      BY DEF Units
    <3>1. PICK i \in 1..more[m] : u = <<m, i>>
      BY <3>0
    <3>2. CASE m = n
      <4>1. i \in 1..w[n] \/ i = w[n] + 1
        BY <3>1, <3>2
      <4> QED BY <3>1, <3>2, <4>1 DEF Units
    <3>3. CASE m # n
      BY <3>1, <3>3 DEF Units
    <3> QED BY <3>2, <3>3
  <2>2. ASSUME NEW u \in Units(w) PROVE u \in Units(more)
    <3>0. PICK m \in Nodes : u \in {m} \X (1..w[m])
      BY DEF Units
    <3>1. PICK i \in 1..w[m] : u = <<m, i>>
      BY <3>0
    <3>2. i \in 1..more[m]
      BY <3>1
    <3> QED BY <3>1, <3>2 DEF Units
  <2>3. unit \in Units(more)
    <3>1. w[n] + 1 \in 1..more[n]
      OBVIOUS
    <3> QED BY <3>1 DEF Units
  <2> QED BY <2>1, <2>2, <2>3
<1>4. IsFiniteSet(Units(more)) /\ Cardinality(Units(more)) = Cardinality(Units(w)) + 1
  <2> HIDE DEF more, unit
  <2> QED BY <1>2, <1>3, FS_AddElement
<1> QED BY <1>1, <1>4

\* No unit in a node is more than the nodes are worth.
LEMMA UnitsFewer ==
  ASSUME NEW v \in [Nodes -> Nat], NEW w \in [Nodes -> Nat], \A n \in Nodes : v[n] <= w[n],
         IsFiniteSet(Units(w))
  PROVE  IsFiniteSet(Units(v)) /\ Cardinality(Units(v)) <= Cardinality(Units(w))
<1>1. ASSUME NEW u \in Units(v) PROVE u \in Units(w)
  <2>0. PICK m \in Nodes : u \in {m} \X (1..v[m])
    BY DEF Units
  <2>1. PICK i \in 1..v[m] : u = <<m, i>>
    BY <2>0
  <2>2. i \in 1..w[m]
    BY <2>1
  <2> QED BY <2>1, <2>2 DEF Units
<1>2. Units(v) \subseteq Units(w)
  BY <1>1
<1> QED BY <1>2, FS_Subset

LEMMA AccountedInit == Init => Accounted
<1> SUFFICES ASSUME Init PROVE Accounted
  OBVIOUS
<1> DEFINE w == [n \in Nodes |-> 0]
<1>1. Busy = {} /\ calls = 0 /\ \A p \in Procs : pc[p] # "write"
  BY DEF Init, Busy
<1>2. \A n \in Nodes : w[n] = 0 /\ node[n].val = 0
  BY DEF Init, Empty
<1>3. Units(w) = {}
  BY <1>2 DEF Units
<1>4. IsFiniteSet({}) /\ Cardinality({}) = 0
  BY FS_EmptySet
<1>5. AccountedFor(w)
  BY <1>1, <1>2, <1>3, <1>4 DEF AccountedFor
<1>6. w \in [Nodes -> Nat]
  OBVIOUS
<1> HIDE DEF w
<1> QED BY <1>1, <1>4, <1>5, <1>6 DEF Accounted

\* Who is busy after a step.
LEMMA BusyStep ==
  ASSUME TypeOK, NEW p \in Procs, Step(p)
  PROVE  IF UpdateCall(p) \/ GetCall(p) THEN Busy' = Busy \cup {p} /\ p \notin Busy
         ELSE IF OutOfMemory(p) \/ GetAnswers(p) \/ WriteVal(p) \/ SetVal(p) \/ Dies(p)
              THEN Busy' = Busy \ {p} /\ p \in Busy
              ELSE Busy' = Busy
<1> USE DEF TypeOK, At, Goto
<1>1. CASE UpdateCall(p) \/ GetCall(p)
  <2>1. pc[p] = "idle" /\ \A q \in Procs : pc'[q] # "idle" <=> pc[q] # "idle" \/ q = p
    BY <1>1 DEF UpdateCall, GetCall
  <2> QED BY <1>1, <2>1 DEF Busy
<1>2. CASE OutOfMemory(p) \/ GetAnswers(p) \/ WriteVal(p) \/ SetVal(p) \/ Dies(p)
  <2>1. pc[p] # "idle" /\ pc' = [pc EXCEPT ![p] = "idle"]
    BY <1>2 DEF OutOfMemory, GetAnswers, WriteVal, SetVal, Dies, Leave
  <2>2. \A q \in Procs : pc'[q] # "idle" <=> pc[q] # "idle" /\ q # p
    BY <2>1
  <2>3. ~UpdateCall(p) /\ ~GetCall(p)
    BY <2>1 DEF UpdateCall, GetCall
  <2> QED BY <1>2, <2>1, <2>2, <2>3 DEF Busy
<1>3. CASE Lookup(p) \/ TakeFree(p) \/ WriteKey(p) \/ WriteAttr(p) \/ ZeroVal(p) \/ ReadVal(p) \/ GetLookup(p)
  <2>1. pc[p] # "idle" /\ \A q \in Procs : pc'[q] # "idle" <=> pc[q] # "idle"
    BY <1>3 DEF Lookup, TakeFree, WriteKey, WriteAttr, ZeroVal, ReadVal, GetLookup
  <2>2. ~UpdateCall(p) /\ ~GetCall(p)
    BY <2>1 DEF UpdateCall, GetCall
  <2>3. pc'[p] # "idle"
    BY <2>1
  <2>4. ~(OutOfMemory(p) \/ GetAnswers(p) \/ WriteVal(p) \/ SetVal(p) \/ Dies(p))
    BY <2>3 DEF OutOfMemory, GetAnswers, WriteVal, SetVal, Dies, Leave
  <2> QED BY <2>1, <2>2, <2>4 DEF Busy
<1> QED BY <1>1, <1>2, <1>3 DEF Step

LEMMA AccountedStep ==
  TypeOK /\ Called /\ Walked /\ Accounted /\ [Next]_vars => Accounted'
<1> SUFFICES ASSUME TypeOK, Called, Walked, Accounted, [Next]_vars PROVE Accounted'
  OBVIOUS
<1>1. PICK w \in [Nodes -> Nat] : AccountedFor(w)
  BY DEF Accounted
<1>2. IsFiniteSet(Busy) /\ Cardinality(Busy) \in Nat /\ Cardinality(Units(w)) \in Nat /\ calls \in Nat
  BY <1>1, FS_CardinalityType, AttrAssumption DEF Accounted, AccountedFor, TypeOK, AttrAssumption
<1>3. ASSUME NEW p \in Procs, Step(p) PROVE Accounted'
  <2> USE DEF TypeOK, At, Goto
  <2>0. \A q \in Procs \ {p} : pc'[q] = pc[q] /\ read'[q] = read[q] /\ mine'[q] = mine[q]
    BY <1>3, StepFrame
  <2>1. CASE UpdateCall(p) \/ GetCall(p)
    <3>1. IsFiniteSet(Busy') /\ Cardinality(Busy') = Cardinality(Busy) + 1
      BY <1>2, <1>3, <2>1, BusyStep, FS_AddElement
    <3>2. calls' = calls + 1 /\ UNCHANGED node /\ pc'[p] # "write"
      BY <2>1 DEF UpdateCall, GetCall
    <3>3. AccountedFor(w)'
      BY <1>1, <1>2, <2>0, <3>1, <3>2 DEF AccountedFor
    <3> QED BY <3>1, <3>3 DEF Accounted
  <2>2. CASE Lookup(p) \/ TakeFree(p) \/ WriteKey(p) \/ WriteAttr(p) \/ ZeroVal(p) \/ GetLookup(p)
    <3>1. Busy' = Busy
      BY <1>3, <2>2, BusyStep DEF UpdateCall, GetCall, OutOfMemory, GetAnswers, WriteVal, SetVal, Dies, Leave,
         Lookup, TakeFree, WriteKey, WriteAttr, ZeroVal, GetLookup
    <3>2. calls' = calls /\ pc'[p] # "write" /\ \A n \in Nodes : node'[n].val \in {node[n].val, 0}
      BY <2>2 DEF Lookup, TakeFree, WriteKey, WriteAttr, ZeroVal, GetLookup, ghost
    <3>3. AccountedFor(w)'
      BY <1>1, <1>2, <2>0, <3>1, <3>2 DEF AccountedFor
    <3> QED BY <1>2, <3>1, <3>3 DEF Accounted
  <2>3. CASE ReadVal(p)
    <3>1. Busy' = Busy
      <4>1. pc[p] = "read" /\ pc'[p] = "write"
        BY <2>3 DEF ReadVal
      <4>2. \A q \in Procs : pc'[q] # "idle" <=> pc[q] # "idle"
        BY <2>0, <4>1
      <4> QED BY <4>2 DEF Busy
    <3>2. calls' = calls /\ UNCHANGED <<node, mine>> /\ read'[p] = node[mine[p]].val
      BY <2>3 DEF ReadVal, ghost
    <3>3. read'[p] <= w[mine'[p]]
      BY <1>1, <2>3, <3>2 DEF AccountedFor, ReadVal, Called, CalledBy
    <3>4. AccountedFor(w)'
      BY <1>1, <1>2, <2>0, <3>1, <3>2, <3>3 DEF AccountedFor
    <3> QED BY <1>2, <3>1, <3>4 DEF Accounted
  <2>4. CASE OutOfMemory(p) \/ GetAnswers(p) \/ WriteVal(p) \/ SetVal(p) \/ Dies(p)
    <3>1. Busy' = Busy \ {p} /\ p \in Busy /\ pc'[p] = "idle" /\ calls' = calls
      <4>1. pc'[p] = "idle" /\ calls' = calls /\ ~UpdateCall(p) /\ ~GetCall(p)
        BY <2>4 DEF OutOfMemory, GetAnswers, WriteVal, SetVal, Dies, Leave, UpdateCall, GetCall, ghost
      <4> QED BY <1>3, <2>4, <4>1, BusyStep
    <3>2. IsFiniteSet(Busy') /\ Cardinality(Busy') = Cardinality(Busy) - 1
      BY <1>2, <3>1, FS_RemoveElement
    <3>3. CASE OutOfMemory(p) \/ GetAnswers(p) \/ SetVal(p) \/ Dies(p)
      <4>1. \A n \in Nodes : node'[n].val \in {node[n].val, 0}
        BY <3>3 DEF OutOfMemory, GetAnswers, SetVal, Dies
      <4>2. AccountedFor(w)'
        <5>1. \A n \in Nodes : node'[n].val <= w[n]
          BY <1>1, <4>1 DEF AccountedFor
        <5>2. \A q \in Procs : pc'[q] = "write" => read'[q] <= w[mine'[q]]
          BY <1>1, <2>0, <3>1 DEF AccountedFor
        <5>3. IsFiniteSet(Units(w)) /\ Cardinality(Units(w)) + Cardinality(Busy') <= calls'
          BY <1>1, <1>2, <3>1, <3>2 DEF AccountedFor
        <5> QED BY <5>1, <5>2, <5>3 DEF AccountedFor
      <4> QED BY <3>2, <4>2 DEF Accounted
    <3>4. CASE WriteVal(p)
      <4>1. mine[p] \in Nodes /\ read[p] <= w[mine[p]] /\ IsFiniteSet(Units(w))
        BY <1>1, <3>4 DEF WriteVal, Called, CalledBy, AccountedFor
      <4> DEFINE more == [w EXCEPT ![mine[p]] = @ + 1]
      <4>2. /\ more \in [Nodes -> Nat]
            /\ IsFiniteSet(Units(more)) /\ Cardinality(Units(more)) = Cardinality(Units(w)) + 1
        BY <4>1, UnitMore
      <4>3. \A n \in Nodes : w[n] <= more[n]
        OBVIOUS
      <4>4. \A n \in Nodes : node'[n].val <= more[n]
        BY <1>1, <3>4, <4>1 DEF WriteVal, AccountedFor
      <4>5. PICK u \in [Nodes -> Nat] : u = more
        BY <4>2
      <4> HIDE DEF more
      <4>6. \A q \in Procs : pc'[q] = "write" => read'[q] <= u[mine'[q]]
        <5>1. ASSUME NEW q \in Procs, pc'[q] = "write" PROVE read'[q] <= u[mine'[q]]
          <6>1. pc[q] = "write" /\ read'[q] = read[q] /\ mine'[q] = mine[q] /\ mine[q] \in Nodes
            BY <2>0, <3>1, <5>1 DEF Called, CalledBy
          <6>2. read[q] <= w[mine[q]] /\ w[mine[q]] <= u[mine[q]] /\ read[q] \in Nat
            BY <1>1, <4>3, <4>5, <6>1 DEF AccountedFor
          <6> QED BY <6>1, <6>2
        <5> QED BY <5>1
      <4>7. Cardinality(Units(u)) + Cardinality(Busy') <= calls'
        BY <1>1, <1>2, <3>1, <3>2, <4>2, <4>5 DEF AccountedFor
      <4>8. AccountedFor(u)'
        BY <4>2, <4>4, <4>5, <4>6, <4>7 DEF AccountedFor
      <4> QED BY <3>2, <4>8 DEF Accounted
    <3> QED BY <2>4, <3>3, <3>4
  <2> QED BY <1>3, <2>1, <2>2, <2>3, <2>4 DEF Step
<1>4. CASE CollectorVisits
  <2>1. UNCHANGED <<local, calls>> /\ \A n \in Nodes : node'[n].val \in {node[n].val, 0}
    BY <1>4, CollectorFrame DEF Empty
  <2>2. Busy' = Busy
    BY <2>1 DEF Busy, local
  <2>3. AccountedFor(w)'
    BY <1>1, <2>1, <2>2 DEF AccountedFor, local
  <2> QED BY <1>2, <2>2, <2>3 DEF Accounted
<1>5. CASE UNCHANGED <<node, local, ghost>>
  <2>1. Busy' = Busy
    BY <1>5 DEF Busy, local
  <2>2. AccountedFor(w)'
    BY <1>1, <1>5, <2>1 DEF AccountedFor, local, ghost
  <2> QED BY <1>2, <2>1, <2>2 DEF Accounted
<1> QED BY <1>3, <1>4, <1>5, StillFrame DEF Next

---------------------------------------------------------------------------
(* The theorems. *)

LEMMA InitIInv == Init => IInv
  BY TypeInit, WalkedInit, KeysInit, LoneInit, AccountedInit DEF IInv

LEMMA StepIInv == IInv /\ [Next]_vars => IInv'
  BY TypeStep, WalkedStep, KeyUniqueStep, PlacedStep, UntakenStep, CalledStep, LoneStep, AccountedStep DEF IInv

\* The invariant holds in every state that processes and collector can reach.
THEOREM Invariant == Spec => []IInv
<1>1. Init => IInv
  BY InitIInv
<1>2. IInv /\ [Next]_vars => IInv'
  BY StepIInv
<1> QED BY <1>1, <1>2, PTL DEF Spec

\* However the writes of processes that met in one node of the table fall, and
\* whatever the collector clears, no key is in two nodes (attr_api.c,
\* update_attr): for any number of processes, rows and nodes.
THEOREM KeysAreUnique == Spec => []KeyUnique
<1>1. IInv => KeyUnique
  BY DEF IInv
<1> QED BY <1>1, Invariant, PTL

\* Together the nodes never count more than there were calls of update_attr,
\* though calls race in a node, die half-way and leave what they read there.
THEOREM NothingOvercounted == Spec => []NeverOvercounts
<1>1. ASSUME IInv PROVE NeverOvercounts
  <2>1. PICK w \in [Nodes -> Nat] : AccountedFor(w)
    BY <1>1 DEF IInv, Accounted
  <2> DEFINE v == [n \in Nodes |-> node[n].val]
  <2>2. v \in [Nodes -> Nat] /\ \A n \in Nodes : v[n] <= w[n]
    BY <1>1, <2>1 DEF IInv, TypeOK, AccountedFor
  <2>3. IsFiniteSet(Units(v)) /\ Cardinality(Units(v)) <= Cardinality(Units(w))
    BY <2>1, <2>2, UnitsFewer DEF AccountedFor
  <2>4. /\ Cardinality(Units(v)) \in Nat /\ Cardinality(Units(w)) \in Nat
        /\ Cardinality(Busy) \in Nat /\ calls \in Nat
    BY <1>1, <2>1, <2>3, FS_CardinalityType, AttrAssumption DEF IInv, TypeOK, Accounted, AccountedFor, AttrAssumption
  <2>5. Cardinality(Units(v)) <= calls
    BY <2>1, <2>3, <2>4 DEF AccountedFor
  <2> QED BY <2>5 DEF NeverOvercounts
<1> QED BY <1>1, Invariant, PTL

\* The count of a key that never met another in its node, nor a second node, is
\* exact whenever its process could read it, however many of its calls died.
THEOREM LoneCountsAreExact == Spec => []ExactUnlessShared
<1>1. ASSUME IInv PROVE ExactUnlessShared
  <2>1. ASSUME NEW n \in Nodes, NEW k \in takers[n], takers[n] = {k}, n \notin cleared,
               \A m \in Nodes \ {n} : k \notin takers[m]
        PROVE  node[n].val = done[k]
    <3>1. k \in Keys /\ Lone(n, k)
      BY <1>1, <2>1 DEF IInv, TypeOK, Lone
    <3> QED BY <1>1, <3>1 DEF IInv, LoneExact, ExactIn
  <2> QED BY <2>1 DEF ExactUnlessShared
<1> QED BY <1>1, Invariant, PTL

\* A process that get_attr tells that its counter does not exist has none: the
\* key is in no node of any row when the lookup ran past the last row.
THEOREM MissesAreTrue == Spec => []MissesOnlyMissing
<1>1. ASSUME IInv PROVE MissesOnlyMissing
  BY <1>1, LookedEverywhere DEF IInv, MissesOnlyMissing, At
<1> QED BY <1>1, Invariant, PTL

\* Together: what update_attr promises without a lock (attr_api.c:84).
THEOREM CountsAreRight == Spec => []CountsRight
<1>1. IInv => TypeOK
  BY DEF IInv
<1> QED BY <1>1, Invariant, KeysAreUnique, NothingOvercounted, LoneCountsAreExact, MissesAreTrue, PTL
  DEF CountsRight

\* A walk with hash_table_walk that is over has met every node, whatever the
\* lengths of the rows.
THEOREM WalkIsComplete == Spec => []WalkMeetsAll
<1>1. ASSUME IInv PROVE WalkMeetsAll
  <2>1. ASSUME ~Exists(at) PROVE seen = Nodes
    <3>1. at[1] \notin Rows
      BY <1>1, <2>1 DEF IInv, Walked, Exists
    <3>2. at[1] = Len(Mods) + 1
      BY <1>1, <3>1, RowsAre DEF IInv, Walked
    <3>3. \A n \in Nodes : n[1] < at[1]
      BY <3>2, RowsAre, NodesAre
    <3> QED BY <1>1, <3>3 DEF IInv, Walked
  <2> QED BY <2>1 DEF WalkMeetsAll
<1> QED BY <1>1, Invariant, PTL

=============================================================================
