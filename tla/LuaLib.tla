------------------------------- MODULE LuaLib -------------------------------
(***************************************************************************)
(* Three pieces of Lua's libraries that keep data of their own: sorting,   *)
(* insertion and removal in a table used as an array (src/lua/ltablib.c),  *)
(* the text buffer that C functions build results in, and the references   *)
(* by which C code keeps values in a table (both src/lua/lauxlib.c).       *)
(*                                                                         *)
(* An array is a function on the keys around its elements, Nil where there *)
(* is none.  An order is a set of pairs, so that a program's own order     *)
(* function may be any relation, consistent or not.                        *)
(***************************************************************************)
EXTENDS Integers, SequencesExt, FiniteSetsExt

CONSTANTS Ranks,       \* what arrays are filled with
          MaxLen,      \* elements of an array that is sorted by a proper order
          MaxLoose,    \* elements of one that is sorted by any relation
          BufferSize,  \* LUAL_BUFFERSIZE
          Limit,       \* LIMIT: pieces of a buffer on the stack
          MaxText,     \* characters written to a buffer
          Referents,   \* values that references are made to
          MaxRefs,     \* calls of luaL_ref
          MaxRounds    \* rounds until a sort counts as endless

VARIABLES which,   \* what the program uses
          call,    \* the array and the order a sort begins with
          buf,     \* the buffer: chars, pieces on the stack, all that was written
          reg      \* the table of references: t, live (ref -> value), calls
vars == <<which, call, buf, reg>>

Nil == 0

-----------------------------------------------------------------------------
(* table.sort                                                               *)

\* A sort: the table a, the order lt, the pivot p, err, and the rounds left
\* until it counts as endless.
Swap(g, x, y) == [g EXCEPT !.a[x] = g.a[y], !.a[y] = g.a[x]]
SortComp(g, v, w) == <<v, w>> \in g.lt
SwapIf(g, x, y) == IF SortComp(g, g.a[y], g.a[x]) THEN Swap(g, x, y) ELSE g

\* The next element that is not below the pivot, and the next that is not above
\* it; an order that is none is found out one place too late.
Bad == -1
RECURSIVE Rise(_, _, _), Fall(_, _, _)
Rise(g, i, u) == CASE ~SortComp(g, g.a[i], g.p) -> i
                   [] SortComp(g, g.a[i], g.p) /\ i > u -> Bad
                   [] OTHER -> Rise(g, i + 1, u)
Fall(g, j, l) == CASE ~SortComp(g, g.p, g.a[j]) -> j
                   [] SortComp(g, g.p, g.a[j]) /\ j < l -> Bad
                   [] OTHER -> Fall(g, j - 1, l)

RECURSIVE Partition(_, _, _, _, _)
Partition(g, i0, j0, l, u) ==
  LET i == Rise(g, i0 + 1, u)
      j == Fall(g, j0 - 1, l)
  IN CASE i = Bad \/ j = Bad -> [g |-> [g EXCEPT !.err = TRUE], i |-> u]
       [] Bad \notin {i, j} /\ j < i -> [g |-> Swap(g, u - 1, i), i |-> i]
       [] OTHER -> Partition(Swap(g, i, j), i, j, l, u)

\* The first, the middle and the last element, in order.
Median_Two(g, l, u) ==   \* only the middle and the first
  LET m == (l + u) \div 2
      h == SwapIf(g, l, u)
  IN IF u - l = 1 THEN h ELSE SwapIf(h, l, m)
Median(g, l, u) ==
  LET m == (l + u) \div 2
      h == SwapIf(g, l, u)
  IN CASE u - l = 1 -> h
       [] u - l > 1 /\ SortComp(h, h.a[m], h.a[l]) -> Swap(h, m, l)
       [] OTHER -> SwapIf(h, m, u)

\* The smaller part is sorted first, by a call.
RECURSIVE AuxSort(_, _, _)
AuxSort(g, l, u) ==
  LET h == Median(g, l, u)
      m == (l + u) \div 2
      part == Partition([Swap(h, m, u - 1) EXCEPT !.p = h.a[m], !.left = @ - 1], l, u - 1, l, u)
      i == part.i
  IN CASE l >= u \/ g.err \/ g.left = 0 -> g
       [] l < u /\ u - l <= 2 -> h
       [] OTHER -> IF i - l < u - i THEN AuxSort(AuxSort(part.g, l, i - 1), i + 1, u)
                   ELSE AuxSort(AuxSort(part.g, i + 1, u), l, i - 1)

\* The elements are those up to the border that is found (here the only one).
GetN(a) == CHOOSE n \in DOMAIN a : (n = 0 \/ a[n] # Nil) /\ a[n + 1] = Nil
Sort(a, lt) == AuxSort([a |-> a, lt |-> lt, p |-> Nil, err |-> FALSE, left |-> MaxRounds], 1, GetN(a))

-----------------------------------------------------------------------------
(* table.insert and table.remove                                            *)

TInsert(a, pos, v) ==
  LET e == IF pos > GetN(a) + 1 THEN pos ELSE GetN(a) + 1
  IN [k \in DOMAIN a |-> CASE k = pos -> v [] k \in pos + 1 .. e -> a[k - 1] [] OTHER -> a[k]]
\* A position behind the end takes the last element away and returns nothing.
TRemove(a, pos) ==
  LET e == GetN(a)
  IN IF e = 0 THEN a
     ELSE [k \in DOMAIN a |-> CASE k = e -> Nil [] k \in pos .. e - 1 -> a[k + 1] [] OTHER -> a[k]]

-----------------------------------------------------------------------------
(* luaL_Buffer: characters in buf.chars, older pieces on the stack.         *)

EmptyBuffer(b) ==
  IF b.chars = <<>> THEN b
  ELSE [b EXCEPT !.stack = Append(@, b.chars), !.chars = <<>>]

\* How many of the pieces at the top become one.
RECURSIVE ToGet(_, _, _)
ToGet(stack, n, toplen) ==
  LET lvl == Len(stack)
      l == Len(stack[lvl - n])
  IN IF n < lvl /\ (lvl - n + 1 >= Limit \/ toplen > l) THEN ToGet(stack, n + 1, toplen + l) ELSE n
AdjustStack_Pairs(b) ==   \* never more than two at a time
  LET lvl == Len(b.stack)
  IN IF lvl < 2 \/ Len(b.stack[lvl]) <= Len(b.stack[lvl - 1]) THEN b
     ELSE [b EXCEPT !.stack = Append(SubSeq(@, 1, lvl - 2), @[lvl - 1] \o @[lvl])]
AdjustStack(b) ==
  LET lvl == Len(b.stack)
      from == lvl - ToGet(b.stack, 1, Len(b.stack[lvl]))
  IN IF lvl < 2 THEN b
     ELSE [b EXCEPT !.stack = Append(SubSeq(@, 1, from), FlattenSeq(SubSeq(@, from + 1, lvl)))]

PrepBuffer(b) == IF b.chars = <<>> THEN b ELSE AdjustStack(EmptyBuffer(b))
AddChar(b, c) ==
  LET room == IF Len(b.chars) < BufferSize THEN b ELSE PrepBuffer(b)
  IN [room EXCEPT !.chars = Append(@, c)]
AddLString(b, s) == FoldLeft(AddChar, b, s)
\* A value from the stack, copied if there is room and left on the stack if not.
AddValue(b, s) ==
  IF Len(s) <= BufferSize - Len(b.chars) THEN [b EXCEPT !.chars = @ \o s]
  ELSE LET e == EmptyBuffer(b) IN AdjustStack([e EXCEPT !.stack = Append(@, s)])
PushResult(b) == LET e == EmptyBuffer(b) IN FlattenSeq(e.stack)

-----------------------------------------------------------------------------
(* luaL_ref and luaL_unref: entry 0 begins the list of free references, each *)
(* of which has the next in its own entry.                                   *)

Borders(t) == {n \in 0 .. MaxRefs : (n = 0 \/ t[n] # Nil) /\ t[n + 1] = Nil}
Ref(v) ==
  \E border \in Borders(reg.t) :
    LET free == reg.t[0]
        ref == IF free # 0 THEN free ELSE border + 1
        t == IF free # 0 THEN [reg.t EXCEPT ![0] = reg.t[free]] ELSE reg.t
        live == [r \in DOMAIN reg.live \cup {ref} |-> IF r = ref THEN v ELSE reg.live[r]]
    IN /\ reg.calls < MaxRefs
       /\ reg' = [t |-> [t EXCEPT ![ref] = v], calls |-> reg.calls + 1,
                  live |-> live, most |-> IF Cardinality(DOMAIN live) > reg.most
                                          THEN Cardinality(DOMAIN live) ELSE reg.most,
                  twice |-> reg.twice \/ ref \in DOMAIN reg.live]
       /\ UNCHANGED <<which, call, buf>>

Unlinked_Drops(t, ref) == [t EXCEPT ![ref] = Nil]   \* the rest of the list is lost
Unlinked(t, ref) == [t EXCEPT ![ref] = t[0]]
Unref(ref) ==
  /\ reg' = [reg EXCEPT !.t = [Unlinked(@, ref) EXCEPT ![0] = ref],
                        !.live = [r \in DOMAIN @ \ {ref} |-> @[r]]]
  /\ UNCHANGED <<which, call, buf>>

-----------------------------------------------------------------------------

Array(s) == [k \in 0 .. Len(s) + 2 |-> IF k \in DOMAIN s THEN s[k] ELSE Nil]
Below == {<<x, y>> \in Ranks \X Ranks : x < y}
Few == {Min(Ranks), Max(Ranks)}
NoCall == [a |-> Array(<<>>), lt |-> Below]
NoBuffer == [chars |-> <<>>, stack |-> <<>>, text |-> 0]
NoRefs == [t |-> [k \in 0 .. MaxRefs + 1 |-> Nil], live |-> <<>>, calls |-> 0, most |-> 0, twice |-> FALSE]

Init ==
  /\ which \in {"sort", "loose", "buffer", "refs"}
  /\ call = NoCall /\ buf = NoBuffer /\ reg = NoRefs

\* A program sorts some array by some order.
AnySort ==
  /\ which = "sort" /\ call = NoCall
  /\ \E s \in SeqOf(Ranks, MaxLen) : call' = [a |-> Array(s), lt |-> Below]
  /\ UNCHANGED <<which, buf, reg>>
LooseSort ==
  /\ which = "loose" /\ call = NoCall
  /\ \E s \in SeqOf(Few, MaxLoose), lt \in SUBSET ((Few \cup {Nil}) \X (Few \cup {Nil})) :
       call' = [a |-> Array(s), lt |-> lt]
  /\ UNCHANGED <<which, buf, reg>>
\* It has the sorted array, and goes on.
Sorted == call # NoCall /\ call' = NoCall /\ UNCHANGED <<which, buf, reg>>

\* The text is 1, 2, 3 ..., so that no part of it equals another.
Write(b, n) == [b EXCEPT !.text = buf.text + n]
Chars(n) == [k \in 1 .. n |-> buf.text + k]
Add(n) ==
  /\ which = "buffer" /\ buf.text + n <= MaxText
  /\ buf' = Write(AddLString(buf, Chars(n)), n) \/ buf' = Write(AddValue(buf, Chars(n)), n)
  /\ UNCHANGED <<which, call, reg>>

Next == \/ AnySort \/ LooseSort \/ Sorted
        \/ \E n \in 1 .. BufferSize + 1 : Add(n)
        \/ which = "refs" /\ \E v \in Referents : Ref(v)
        \/ which = "refs" /\ \E r \in DOMAIN reg.live : Unref(r)
Spec == Init /\ [][Next]_vars

-----------------------------------------------------------------------------

Times(a, v) == Cardinality({k \in DOMAIN a : a[k] = v})

\* A sort ends and neither loses nor makes anything, whatever the order
\* function says; by an order that is one the elements end sorted, with none
\* moved behind the end (auxsort in ltablib.c).
SortIs ==
  LET r == Sort(call.a, call.lt)
      n == GetN(call.a)
  IN /\ r.left > 0 /\ r.a[0] = Nil
     /\ \A v \in Ranks \cup {Nil} : Times(r.a, v) = Times(call.a, v)
     /\ call.lt = Below => /\ ~r.err /\ GetN(r.a) = n
                           /\ \A k \in 1 .. n - 1 : r.a[k] <= r.a[k + 1]

\* Insertion and removal move what lies behind, by one place (tinsert and
\* tremove in ltablib.c).
ShiftsRight ==
  LET s == [k \in 1 .. GetN(call.a) |-> call.a[k]]
  IN \A v \in Ranks, pos \in 1 .. Len(s) + 1 :
       LET in == TInsert(call.a, pos, v)
       IN /\ \A k \in 1 .. Len(s) + 1 : in[k] = InsertAt(s, pos, v)[k]
          /\ pos <= Len(s) \/ in[pos] = v
          /\ TRemove(in, pos) = call.a

\* What was written is on the stack and in the buffer, in order; the stack is
\* short whatever was written (luaL_addlstring, luaL_addvalue and adjuststack
\* in lauxlib.c).
BufferKeepsText ==
  /\ FlattenSeq(buf.stack) \o buf.chars = [k \in 1 .. buf.text |-> k]
  /\ PushResult(buf) = [k \in 1 .. buf.text |-> k]
  /\ Len(buf.stack) < Limit /\ Len(buf.chars) <= BufferSize

\* A reference in use gives its value and is given to nobody else; no more
\* entries are used than there were references at once (luaL_ref and luaL_unref
\* in lauxlib.c).
RefsHold ==
  /\ ~reg.twice
  /\ \A r \in DOMAIN reg.live : reg.t[r] = reg.live[r] /\ r \in 1 .. reg.most

=============================================================================
