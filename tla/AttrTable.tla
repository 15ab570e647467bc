----------------------------- MODULE AttrTable -----------------------------
(***************************************************************************)
(* The counters of attr_api/attr_api.c in the table of attr_api/           *)
(* hash_table.c: rows of nodes in shared memory, one node of each row open *)
(* to a key, and nothing that keeps processes apart.  A step is one access *)
(* to the shared memory.  The program that collects the counters is not    *)
(* part of the repository; of it the model has the walk over the table and *)
(* the clearing of nodes that check_attr_key_matchable finds disordered.   *)
(*                                                                         *)
(* A definition with an underscore in its name is a faulty variant of the  *)
(* one that follows it; none is used by the specification.                 *)
(***************************************************************************)
EXTENDS Integers, Sequences, FiniteSets

CONSTANTS
  Procs,      (* processes; each makes keys of its own                     *)
  Attrs,      (* attribute numbers, not 0                                  *)
  NodesNum,   (* _nodes_num: the nodes of each row                         *)
  Mods,       (* _mods: how many of them the keys are spread over          *)
  Short,      (* the short key of an attribute of a process                *)
  Clears,     (* the collector clears disordered nodes                     *)
  MaxCalls,   (* bound: calls of update_attr and get_attr                  *)
  MaxDeaths   (* bound: deaths of processes in the middle of a call        *)

Rows  == DOMAIN Mods
Keys  == Attrs \X Procs
Nodes == UNION {{r} \X (0..(NodesNum[r] - 1)) : r \in Rows}

ASSUME AttrAssumption ==
  /\ 0 \notin Attrs
  /\ NodesNum \in Seq(Nat \ {0}) /\ Mods \in Seq(Nat \ {0})
  /\ DOMAIN NodesNum = Rows /\ Rows # {}
  /\ \A r \in Rows : Mods[r] <= NodesNum[r]
  /\ Short \in [Keys -> Nat]
  /\ Clears \in BOOLEAN /\ MaxCalls \in Nat /\ MaxDeaths \in Nat

NoKey  == << >>
NoNode == << >>
Empty  == [key |-> NoKey, attr |-> 0, val |-> 0]

VARIABLES
  node,       (* node[n]: the attr_node_t at row and column n              *)
  pc, key,    (* where each process is in update_attr, and for which key   *)
  method,     (* how it changes the counter: "incr" by 1, "set" to 0       *)
  row,        (* the row its lookup looks at next                          *)
  free,       (* empty_node: the first free node the lookup met            *)
  mine,       (* the node it goes on to use                                *)
  read,       (* the val it read to add to                                 *)
  at, seen,   (* the collector: row and column it walks to, nodes it saw   *)
  \* History: the calls and deaths so far, the calls that returned 0 for each
  \* key since it was last set, the keys that ever took each node for theirs.
  \* The nodes the collector cleared.
  calls, deaths, done, takers, cleared

local  == <<pc, key, method, row, free, mine, read>>
walker == <<at, seen>>
ghost  == <<calls, deaths, done, takers, cleared>>
vars   == <<node, local, walker, ghost>>

Init ==
  /\ node = [n \in Nodes |-> Empty]
  /\ pc = [p \in Procs |-> "idle"] /\ key = [p \in Procs |-> NoKey]
  /\ method = [p \in Procs |-> "incr"]
  /\ row = [p \in Procs |-> 1]
  /\ free = [p \in Procs |-> NoNode] /\ mine = [p \in Procs |-> NoNode]
  /\ read = [p \in Procs |-> 0]
  /\ at = <<1, 0>> /\ seen = {}
  /\ calls = 0 /\ deaths = 0
  /\ done = [k \in Keys |-> 0] /\ takers = [n \in Nodes |-> {}] /\ cleared = {}

Slot(k, r) == <<r, Short[k] % Mods[r]>>

\* check_attr_key_matchable: a key holds its attribute.
Matchable(n) == node[n].key = NoKey \/ node[n].key[1] = node[n].attr

At(p, step) == pc[p] = step
Goto(p, step) == pc' = [pc EXCEPT ![p] = step]

---------------------------------------------------------------------------
(* update_attr(attr, 1, ATTR_UPDATE_METHOD_INCR) and (attr, 0, .._SET). *)

UpdateCall(p) ==
  /\ At(p, "idle")
  /\ calls < MaxCalls /\ calls' = calls + 1
  /\ \E a \in Attrs : key' = [key EXCEPT ![p] = <<a, p>>]
  /\ \E m \in {"incr", "set"} : method' = [method EXCEPT ![p] = m]
  /\ row' = [row EXCEPT ![p] = 1]
  /\ Goto(p, "lookup")
  /\ UNCHANGED <<node, free, mine, read, walker, deaths, done, takers, cleared>>

\* One turn of hash_table_lookup_node_ex.
Lookup_FirstFree(p) ==
  LET n == Slot(key[p], row[p]) IN
  /\ At(p, "lookup") /\ row[p] \in Rows
  /\ IF node[n].key \in {key[p], NoKey}
     THEN /\ mine' = [mine EXCEPT ![p] = n]
          /\ free' = [free EXCEPT ![p] = NoNode]
          /\ row' = [row EXCEPT ![p] = 1]
          /\ Goto(p, IF node[n].key = NoKey THEN "key" ELSE "read")
     ELSE /\ UNCHANGED <<mine, pc, free>>
          /\ row' = [row EXCEPT ![p] = @ + 1]
  /\ UNCHANGED <<node, key, method, read, walker, ghost>>

Lookup_AlwaysNew(p) ==
  LET n == Slot(key[p], row[p]) IN
  /\ At(p, "lookup") /\ row[p] \in Rows
  /\ IF node[n].key = key[p]
     THEN /\ mine' = [mine EXCEPT ![p] = n]
          /\ free' = [free EXCEPT ![p] = NoNode]
          /\ row' = [row EXCEPT ![p] = 1]
          /\ Goto(p, "key")
     ELSE /\ free' = [free EXCEPT ![p] =
                        IF @ = NoNode /\ node[n].key = NoKey THEN n ELSE @]
          /\ row' = [row EXCEPT ![p] = @ + 1]
          /\ UNCHANGED <<mine, pc>>
  /\ UNCHANGED <<node, key, method, read, walker, ghost>>

Lookup(p) ==
  LET n == Slot(key[p], row[p]) IN
  /\ At(p, "lookup") /\ row[p] \in Rows
  /\ IF node[n].key = key[p]
     THEN /\ mine' = [mine EXCEPT ![p] = n]
          /\ free' = [free EXCEPT ![p] = NoNode]
          /\ row' = [row EXCEPT ![p] = 1]
          /\ Goto(p, "read")
     ELSE /\ free' = [free EXCEPT ![p] =
                        IF @ = NoNode /\ node[n].key = NoKey THEN n ELSE @]
          /\ row' = [row EXCEPT ![p] = @ + 1]
          /\ UNCHANGED <<mine, pc>>
  /\ UNCHANGED <<node, key, method, read, walker, ghost>>

\* The lookup is over without the key: a new node, if one was free.
TakeFree(p) ==
  /\ At(p, "lookup") /\ row[p] \notin Rows /\ free[p] # NoNode
  /\ mine' = [mine EXCEPT ![p] = free[p]]
  /\ takers' = [takers EXCEPT ![free[p]] = @ \cup {key[p]}]
  /\ free' = [free EXCEPT ![p] = NoNode]
  /\ row' = [row EXCEPT ![p] = 1]
  /\ Goto(p, "key")
  /\ UNCHANGED <<node, key, method, read, walker, calls, deaths, done, cleared>>

Leave(p) ==
  /\ Goto(p, "idle")
  /\ key' = [key EXCEPT ![p] = NoKey]
  /\ method' = [method EXCEPT ![p] = "incr"]
  /\ row' = [row EXCEPT ![p] = 1]
  /\ free' = [free EXCEPT ![p] = NoNode]
  /\ mine' = [mine EXCEPT ![p] = NoNode]
  /\ read' = [read EXCEPT ![p] = 0]

OutOfMemory(p) ==
  /\ At(p, "lookup") /\ row[p] \notin Rows /\ free[p] = NoNode
  /\ Leave(p)
  /\ UNCHANGED <<node, walker, ghost>>

WriteKey(p) ==
  /\ At(p, "key")
  /\ node' = [node EXCEPT ![mine[p]].key = key[p]]
  /\ Goto(p, "attr")
  /\ UNCHANGED <<key, method, row, free, mine, read, walker, ghost>>

WriteAttr_Short(p) ==
  /\ At(p, "attr")
  /\ node' = [node EXCEPT ![mine[p]].attr = Short[key[p]]]
  /\ Goto(p, "zero")
  /\ UNCHANGED <<key, method, row, free, mine, read, walker, ghost>>

WriteAttr(p) ==
  /\ At(p, "attr")
  /\ node' = [node EXCEPT ![mine[p]].attr = key[p][1]]
  /\ Goto(p, "zero")
  /\ UNCHANGED <<key, method, row, free, mine, read, walker, ghost>>

ZeroVal(p) ==
  /\ At(p, "zero")
  /\ node' = [node EXCEPT ![mine[p]].val = 0]
  /\ Goto(p, "read")
  /\ UNCHANGED <<key, method, row, free, mine, read, walker, ghost>>

ReadVal(p) ==
  /\ At(p, "read") /\ method[p] = "incr"
  /\ read' = [read EXCEPT ![p] = node[mine[p]].val]
  /\ Goto(p, "write")
  /\ UNCHANGED <<node, key, method, row, free, mine, walker, ghost>>

WriteVal_Adds(p) ==
  /\ At(p, "write")
  /\ node' = [node EXCEPT ![mine[p]].val = @ + read[p] + 1]
  /\ done' = [done EXCEPT ![key[p]] = @ + 1]
  /\ Leave(p)
  /\ UNCHANGED <<walker, calls, deaths, takers, cleared>>

WriteVal(p) ==
  /\ At(p, "write")
  /\ node' = [node EXCEPT ![mine[p]].val = read[p] + 1]
  /\ done' = [done EXCEPT ![key[p]] = @ + 1]
  /\ Leave(p)
  /\ UNCHANGED <<walker, calls, deaths, takers, cleared>>

SetVal(p) ==
  /\ At(p, "read") /\ method[p] = "set"
  /\ node' = [node EXCEPT ![mine[p]].val = 0]
  /\ done' = [done EXCEPT ![key[p]] = 0]
  /\ Leave(p)
  /\ UNCHANGED <<walker, calls, deaths, takers, cleared>>

Dies(p) ==
  /\ ~At(p, "idle")
  /\ deaths < MaxDeaths /\ deaths' = deaths + 1
  /\ Leave(p)
  /\ UNCHANGED <<node, walker, calls, done, takers, cleared>>

---------------------------------------------------------------------------
(* get_self_attr(attr): get_attr of the key that update_attr makes too. *)

GetCall(p) ==
  /\ At(p, "idle")
  /\ calls < MaxCalls /\ calls' = calls + 1
  /\ \E a \in Attrs : key' = [key EXCEPT ![p] = <<a, p>>]
  /\ Goto(p, "get")
  /\ UNCHANGED <<node, method, row, free, mine, read, walker, deaths, done, takers, cleared>>

\* One turn of hash_table_lookup_node.
GetLookup_StopsAtFree(p) ==
  LET n == Slot(key[p], row[p]) IN
  /\ At(p, "get") /\ row[p] \in Rows
  /\ IF node[n].key = key[p]
     THEN /\ mine' = [mine EXCEPT ![p] = n]
          /\ row' = [row EXCEPT ![p] = 1]
          /\ Goto(p, "got")
     ELSE /\ row' = [row EXCEPT ![p] = IF node[n].key = NoKey THEN Cardinality(Rows) + 1 ELSE @ + 1]
          /\ UNCHANGED <<mine, pc>>
  /\ UNCHANGED <<node, key, method, free, read, walker, ghost>>

GetLookup(p) ==
  LET n == Slot(key[p], row[p]) IN
  /\ At(p, "get") /\ row[p] \in Rows
  /\ IF node[n].key = key[p]
     THEN /\ mine' = [mine EXCEPT ![p] = n]
          /\ row' = [row EXCEPT ![p] = 1]
          /\ Goto(p, "got")
     ELSE /\ row' = [row EXCEPT ![p] = @ + 1]
          /\ UNCHANGED <<mine, pc>>
  /\ UNCHANGED <<node, key, method, free, read, walker, ghost>>

\* It answers the val of the node it found, or that there is none.
GetAnswers(p) ==
  /\ At(p, "got") \/ (At(p, "get") /\ row[p] \notin Rows)
  /\ Leave(p)
  /\ UNCHANGED <<node, walker, ghost>>

---------------------------------------------------------------------------
(* The collector. *)

\* hash_table_walk: the node at the position, which moves on by one.
Walk_OneMore(p) == IF p[2] + 1 > NodesNum[p[1]] THEN <<p[1] + 1, 0>> ELSE <<p[1], p[2] + 1>>
Walk(p) == IF p[2] + 1 >= NodesNum[p[1]] THEN <<p[1] + 1, 0>> ELSE <<p[1], p[2] + 1>>

\* hash_table_get_node is not NULL.
Exists(p) == p[1] \in Rows /\ p[2] < NodesNum[p[1]]

CollectorVisits ==
  /\ Clears
  /\ Exists(at)
  /\ at' = Walk(at) /\ seen' = seen \cup {at}
  /\ node' = [node EXCEPT ![at] = IF Matchable(at) THEN @ ELSE Empty]
  /\ cleared' = IF Matchable(at) THEN cleared ELSE cleared \cup {at}
  /\ UNCHANGED <<local, calls, deaths, done, takers>>

CollectorStartsAgain ==
  /\ ~Exists(at)
  /\ at' = <<1, 0>> /\ seen' = {}
  /\ UNCHANGED <<node, local, ghost>>

\* The bound is reached and every call has returned.
Over ==
  /\ calls = MaxCalls /\ \A p \in Procs : At(p, "idle")
  /\ UNCHANGED vars

Step(p) ==
  \/ UpdateCall(p) \/ Lookup(p) \/ TakeFree(p) \/ OutOfMemory(p)
  \/ WriteKey(p) \/ WriteAttr(p) \/ ZeroVal(p) \/ ReadVal(p) \/ WriteVal(p)
  \/ SetVal(p) \/ GetCall(p) \/ GetLookup(p) \/ GetAnswers(p) \/ Dies(p)

Next == (\E p \in Procs : Step(p)) \/ CollectorVisits \/ CollectorStartsAgain \/ Over

Spec == Init /\ [][Next]_vars

---------------------------------------------------------------------------
(* Properties. *)

TypeOK ==
  /\ node \in [Nodes -> [key : Keys \cup {NoKey}, attr : Attrs \cup {0}, val : Nat]]
  /\ pc \in [Procs -> {"idle", "lookup", "key", "attr", "zero", "read", "write", "get", "got"}]
  /\ key \in [Procs -> Keys \cup {NoKey}] /\ method \in [Procs -> {"incr", "set"}]
  /\ row \in [Procs -> 1..(Cardinality(Rows) + 1)]
  /\ free \in [Procs -> Nodes \cup {NoNode}] /\ mine \in [Procs -> Nodes \cup {NoNode}]
  /\ read \in [Procs -> Nat]
  /\ seen \subseteq Nodes
  /\ calls \in 0..MaxCalls /\ deaths \in 0..MaxDeaths
  /\ done \in [Keys -> Nat] /\ takers \in [Nodes -> SUBSET Keys]
  /\ cleared \subseteq Nodes

\* However the writes of processes that met in one node fall, and whatever the
\* collector clears, no key is in two nodes: nothing is reported twice.
KeyUnique ==
  \A m, n \in Nodes : node[m].key = node[n].key /\ node[m].key # NoKey => m = n

\* The nodes together never count more than was reported (the counts w of the
\* nodes, one by one).
Units(w) == UNION {{n} \X (1..w[n]) : n \in Nodes}
NeverOvercounts == Cardinality(Units([n \in Nodes |-> node[n].val])) <= calls

\* A key that took one node, which no other key ever took, has its exact count
\* there when its process reads it, and between the calls of its process, unless
\* the collector cleared the node: the increments since the last set, however
\* long the chain of rows its lookup follows, whatever happens in the other
\* nodes, and if a call of its process died half-way.
ExactUnlessShared ==
  \A n \in Nodes : \A k \in takers[n] :
    takers[n] = {k} /\ n \notin cleared /\ (\A m \in Nodes \ {n} : k \notin takers[m])
      /\ pc[k[2]] \in {"idle", "get", "got"}
    => node[n].val = done[k]

\* A process that is told its counter does not exist has none in the table,
\* whichever row it was put in and whatever became free before it.
MissesOnlyMissing ==
  \A p \in Procs : At(p, "get") /\ row[p] \notin Rows => \A n \in Nodes : node[n].key # key[p]

\* Together: what the table holds is what was reported, once and no more, as far
\* as update_attr promises without a lock (attr_api.c:84), and get_attr finds it.
CountsRight == TypeOK /\ KeyUnique /\ NeverOvercounts /\ ExactUnlessShared /\ MissesOnlyMissing

\* A walk over the table with hash_table_walk meets every node.
WalkMeetsAll == ~Exists(at) => seen = Nodes
=============================================================================
