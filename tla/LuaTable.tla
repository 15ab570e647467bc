------------------------------ MODULE LuaTable ------------------------------
(***************************************************************************)
(* A Lua table (src/lua/ltable.c): an array for small integer keys and a   *)
(* hash part of chained nodes, both sized again whenever the hash part has *)
(* no free node for a new key.                                             *)
(*                                                                         *)
(* A key that shares its main position with another one lives in a free    *)
(* node of the chain that starts there.  Clearing a field leaves its node  *)
(* in the chain with a nil value, and the collector may turn the key of    *)
(* such a node into a dead key, which only "next" still recognises.        *)
(*                                                                         *)
(* Every key is stored with itself as its value; "present" remembers what  *)
(* the program has stored.                                                 *)
(***************************************************************************)
EXTENDS Integers, FiniteSets, SequencesExt

CONSTANTS Keys,      \* of the form Key(t, n), n a number, a hash code or an address
          MaxArray,  \* longest array part a SETLIST asks for
          MaxBits    \* no part has more than 2^MaxBits elements (26)

VARIABLES table,    \* the table
          present,  \* the keys that hold a value
          trav      \* a traversal: phase, key it is at, keys met, keys it owes
vars == <<table, present, trav>>

Key(t, n) == [t |-> t, n |-> n, dead |-> FALSE]
Nil == Key("nil", 0)
IntKey(n) == Key("num", n)
Collectable(k) == k.t \in {"str", "obj"}
Dead(k) == [k EXCEPT !.dead = TRUE]

NoNode == -1
EmptyNode == [k |-> Nil, v |-> Nil, next |-> NoNode]
Size(h) == Cardinality(DOMAIN h.node)

\* A table without a hash part shares the dummy node.
NodeVector(h, size) ==
  LET lsize == CHOOSE b \in 0 .. MaxBits : 2 ^ b >= size /\ \A c \in 0 .. b - 1 : 2 ^ c < size
  IN [h EXCEPT !.dummy = size = 0,
               !.node = [m \in 0 .. 2 ^ lsize - 1 |-> EmptyNode],
               !.lastfree = IF size = 0 THEN 0 ELSE 2 ^ lsize]
NewTable == NodeVector([arr |-> <<>>, node |-> <<>>, dummy |-> TRUE, lastfree |-> 0], 0)

-----------------------------------------------------------------------------
(* Where a key lives.                                                       *)

\* hashnum: the words of the double n + 1, added up; for a small positive
\* integer the low word is zero.
NumHash(n) ==
  LET m == n + 1
      e == CHOOSE b \in 0 .. 20 : 2 ^ b <= m /\ m < 2 ^ (b + 1)
  IN IF m = 0 THEN 0 ELSE (1023 + e) * 2 ^ 20 + (m - 2 ^ e) * 2 ^ (20 - e)

MainPosition(h, k) ==
  CASE k.t = "str" -> k.n % Size(h)
    [] k.t = "num" -> NumHash(k.n) % (IF Size(h) = 1 THEN 1 ELSE Size(h) - 1)
    [] OTHER -> k.n % (IF Size(h) = 1 THEN 1 ELSE Size(h) - 1)

RECURSIVE Chain(_, _)
Chain(h, m) == IF m = NoNode THEN <<>> ELSE <<m>> \o Chain(h, h.node[m].next)
ChainOf(h, k) == Chain(h, MainPosition(h, k))

InArray(h, k) == k.t = "num" /\ k.n \in 1 .. Len(h.arr)
NodesOf(h, k) == SelectSeq(ChainOf(h, k), LAMBDA m : h.node[m].k = k)

\* luaH_get and its versions for numbers and strings.
Get(h, k) == CASE InArray(h, k) -> h.arr[k.n]
               [] ~InArray(h, k) /\ NodesOf(h, k) # <<>> -> h.node[Head(NodesOf(h, k))].v
               [] OTHER -> Nil

-----------------------------------------------------------------------------
(* Sizes.                                                                   *)

Used(h) == {m \in DOMAIN h.node : h.node[m].v # Nil}

\* The integer keys the table will hold, with the new key among them.
IntsWith(h, new) ==
  {n \in 1 .. 2 ^ MaxBits :
     \/ n <= Len(h.arr) /\ h.arr[n] # Nil
     \/ \E m \in Used(h) : h.node[m].k = IntKey(n)
     \/ new = IntKey(n)}

\* computesizes: the largest n, a power of two, of which more than half the
\* slots 1 .. n will be in use.
ArraySize(ints) ==
  LET good == {n \in {2 ^ b : b \in 0 .. MaxBits} : 2 * Cardinality(ints \cap (1 .. n)) > n}
  IN IF good = {} THEN 0 ELSE CHOOSE n \in good : \A m \in good : m <= n

FreePos(h) == LET free == {m \in 0 .. h.lastfree - 1 : h.node[m].k = Nil}
              IN IF free = {} THEN NoNode ELSE CHOOSE m \in free : \A o \in free : o <= m

-----------------------------------------------------------------------------
(* Setting a field.                                                         *)

RECURSIVE Put(_, _, _)

Resize(h, narray, nhash) ==
  LET old == Len(h.arr)
      kept == [n \in 1 .. narray |-> IF n <= old THEN h.arr[n] ELSE Nil]
      bare == NodeVector([h EXCEPT !.arr = kept], nhash)
      lost == SelectSeq([j \in 1 .. old |-> j], LAMBDA j : j > narray /\ h.arr[j] # Nil)
      nodes == SelectSeq(Reverse([j \in 1 .. Size(h) |-> j - 1]), LAMBDA m : m \in Used(h))
      shrunk == FoldLeft(LAMBDA g, j : Put(g, IntKey(j), h.arr[j]), bare, lost)
  IN FoldLeft(LAMBDA g, m : Put(g, h.node[m].k, h.node[m].v), shrunk, nodes)

Rehash(h, new) ==
  LET ints == IntsWith(h, new)
      total == Cardinality(Used(h)) + Cardinality({n \in DOMAIN h.arr : h.arr[n] # Nil}) + 1
      n == ArraySize(ints)
  IN Resize(h, n, total - Cardinality(ints \cap (1 .. n)))

\* The colliding node leaves for the free one if it is not at home here.
Displace_Unlinked(h, mp, free, home) ==   \* the chain it is in loses its tail
  [h EXCEPT !.node[free] = h.node[mp], !.node[mp] = EmptyNode, !.lastfree = free]
Displace(h, mp, free, home) ==
  LET before == CHOOSE m \in ToSet(Chain(h, home)) : h.node[m].next = mp
  IN [h EXCEPT !.node[before].next = free, !.node[free] = [h.node[mp] EXCEPT !.next = @],
               !.node[mp] = EmptyNode, !.lastfree = free]

NewKey(h, k, v) ==
  LET mp == MainPosition(h, k)
      free == FreePos(h)
      home == MainPosition(h, h.node[mp].k)
      moved == Displace(h, mp, free, home)
  IN CASE h.node[mp].v = Nil /\ ~h.dummy ->
            [h EXCEPT !.node[mp].k = k, !.node[mp].v = v]
       [] (h.node[mp].v # Nil \/ h.dummy) /\ free = NoNode -> Put(Rehash(h, k), k, v)
       [] h.node[mp].v # Nil /\ free # NoNode /\ home # mp ->
            [moved EXCEPT !.node[mp].k = k, !.node[mp].v = v]
       [] OTHER ->
            [h EXCEPT !.node[free] = [k |-> k, v |-> v, next |-> h.node[mp].next],
                      !.node[mp].next = free, !.lastfree = free]

\* luaH_set and the assignment to the place it finds or makes.
Put(h, k, v) ==
  CASE InArray(h, k) -> [h EXCEPT !.arr[k.n] = v]
    [] ~InArray(h, k) /\ NodesOf(h, k) # <<>> -> [h EXCEPT !.node[Head(NodesOf(h, k))].v = v]
    [] OTHER -> NewKey(h, k, v)

-----------------------------------------------------------------------------
(* The length of a table: some n that is present while n + 1 is not.        *)

Has(h, n) == Get(h, IntKey(n)) # Nil

\* Between i, present or zero, and j, absent.
RECURSIVE Bisect(_, _, _)
Bisect(h, lo, hi) == IF hi - lo <= 1 THEN lo
                     ELSE LET mid == (lo + hi) \div 2
                          IN IF Has(h, mid) THEN Bisect(h, mid, hi) ELSE Bisect(h, lo, mid)

RECURSIVE Unbound(_, _, _)
Unbound(h, lo, hi) == IF Has(h, hi) THEN Unbound(h, hi, hi * 2) ELSE Bisect(h, lo, hi)

GetN(h) ==
  LET j == Len(h.arr)
  IN CASE j > 0 /\ h.arr[j] = Nil -> Bisect(h, 0, j)
       [] ~(j > 0 /\ h.arr[j] = Nil) /\ h.dummy -> j
       [] OTHER -> Unbound(h, j, j + 1)

-----------------------------------------------------------------------------
(* Traversal.                                                               *)

\* The place of a key, array first; a dead key still has its place.
FindIndex_NoDead(h, k) ==   \* dead keys are not recognised
  LET nodes == NodesOf(h, k)
  IN CASE k = Nil -> 0
       [] k # Nil /\ InArray(h, k) -> k.n
       [] OTHER -> IF nodes = <<>> THEN -1 ELSE Len(h.arr) + Head(nodes) + 1
FindIndex(h, k) ==
  LET nodes == SelectSeq(ChainOf(h, k), LAMBDA m : h.node[m].k \in {k, Dead(k)})
  IN CASE k = Nil -> 0
       [] k # Nil /\ InArray(h, k) -> k.n
       [] OTHER -> IF nodes = <<>> THEN -1 ELSE Len(h.arr) + Head(nodes) + 1

\* The key after k, or Nil.
NextKey(h, k) ==
  LET at(j) == IF j <= Len(h.arr) THEN [k |-> IntKey(j), v |-> h.arr[j]]
               ELSE h.node[j - Len(h.arr) - 1]
      rest == {j \in FindIndex(h, k) + 1 .. Len(h.arr) + Size(h) : at(j).v # Nil}
  IN IF rest = {} THEN Nil ELSE at(CHOOSE j \in rest : \A o \in rest : j <= o).k

-----------------------------------------------------------------------------

NoTrav == [phase |-> "off", at |-> Nil, met |-> {}, due |-> {}]

Init == table = NewTable /\ present = {} /\ trav = NoTrav

\* A new field ends what a traversal may rely on.
Set(k) ==
  /\ table' = Put(table, k, k)
  /\ present' = present \cup {k}
  /\ trav' = IF k \in present THEN trav ELSE NoTrav

Clear(k) ==
  /\ table' = Put(table, k, Nil)
  /\ present' = present \ {k}
  /\ trav' = IF k \in present THEN [trav EXCEPT !.due = @ \ {k}] ELSE NoTrav

\* The collector, in traversetable: a key without a value may die.
Collect ==
  /\ table' = [table EXCEPT !.node = [m \in DOMAIN @ |->
                 IF @[m].v = Nil /\ Collectable(@[m].k) THEN [@[m] EXCEPT !.k = Dead(@)]
                 ELSE @[m]]]
  /\ UNCHANGED <<present, trav>>

\* SETLIST makes room for the items of a constructor.
ResizeArray(n) ==
  /\ n > Len(table.arr)
  /\ table' = Resize(table, n, IF table.dummy THEN 0 ELSE Size(table))
  /\ trav' = NoTrav
  /\ UNCHANGED present

Start == /\ trav' = [phase |-> "on", at |-> Nil, met |-> {}, due |-> present]
         /\ UNCHANGED <<table, present>>

NextStep ==
  /\ trav.phase = "on"
  /\ LET found == FindIndex(table, trav.at)
         k == NextKey(table, trav.at)
     IN trav' = CASE found = -1 -> [trav EXCEPT !.phase = "invalid"]
                  [] found # -1 /\ k = Nil -> [trav EXCEPT !.phase = "ended"]
                  [] k \in trav.met -> [trav EXCEPT !.phase = "again"]
                  [] OTHER -> [trav EXCEPT !.at = k, !.met = @ \cup {k}]
  /\ UNCHANGED <<table, present>>

Next == \/ \E k \in Keys : Set(k) \/ Clear(k)
        \/ Collect
        \/ \E n \in 1 .. MaxArray : ResizeArray(n)
        \/ Start
        \/ NextStep

Spec == Init /\ [][Next]_vars

-----------------------------------------------------------------------------

\* Whatever was stored, cleared, collected and resized, a key has the value
\* stored last and nothing else; the length is a border; and a traversal that
\* only clears fields, however the collector interferes, never fails, meets no
\* key twice and none that is not there, and meets every key that stays
\* (luaH_get, luaH_getn, luaH_next).
TableIs ==
  /\ \A k \in Keys : Get(table, k) = IF k \in present THEN k ELSE Nil
  /\ LET n == GetN(table)
     IN (n = 0 \/ IntKey(n) \in present) /\ IntKey(n + 1) \notin present
  /\ trav.phase \notin {"invalid", "again"}
  /\ trav.met \subseteq Keys
  /\ trav.phase = "ended" => trav.due \subseteq trav.met
=============================================================================
