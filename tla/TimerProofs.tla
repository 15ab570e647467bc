---------------------------- MODULE TimerProofs ----------------------------
(***************************************************************************)
(* Why handle_timer may walk lists that its callbacks change: inductive    *)
(* invariants of Timer about the lists and the walk, about the times in    *)
(* the lists, and about callbacks, and the theorems that rest on them; and *)
(* one of MicroTimer about the walk of its single list.                    *)
(***************************************************************************)
EXTENDS MCTimer, FiniteSetTheorems, SequenceTheorems, WellFoundedInduction, TLAPS

\* a stands before b in s.
Before(s, a, b) == \E m, n \in 1..Len(s) : m < n /\ s[m] = a /\ s[n] = b

\* The types, but for what Linked says of the lists.
Shapes ==
  /\ now \in 1..MaxTime /\ last \in 0..now /\ jumped \in BOOLEAN
  /\ vec \in [Lists -> Seq(Timers)] /\ sprite \in [Heads -> Seq(Timers)]
  /\ min \in [Lists -> Nat]
  /\ held \subseteq alive /\ served \subseteq alive /\ alive \subseteq Timers
  /\ expire \in [Timers -> Nat]
  /\ function \in [Timers -> Funcs \cup {Null}]
  /\ func_indx \in [Timers -> Types \cup {0}]
  /\ tcfs \in [Types -> Funcs \cup {Null}] /\ stale \in BOOLEAN
  /\ pc \in At /\ {cur, next} \subseteq Timers \cup {Null} /\ idx \in Lists

\* Each allocated timer is once in one list, and no other is in one.
Apart ==
  /\ \A i \in Lists : IsInjective(vec[i])
  /\ \A i, j \in Lists, t \in Timers : Contains(vec[i], t) /\ Contains(vec[j], t) => i = j
  /\ \A t \in Timers : t \in alive <=> \E i \in Lists : Contains(vec[i], t)

\* The clients' lists.
Owned ==
  /\ \A h \in Heads, t \in Timers : Contains(sprite[h], t) => t \in alive
  /\ \A t \in held : \E h \in Heads : Contains(sprite[h], t)

\* Where the walk is, as far as the lists are concerned.
Walking ==
  /\ pc = "visit" => Contains(vec[0], cur)
  /\ pc = "callback" =>
       /\ Contains(vec[0], cur) /\ cur # next
       /\ next # Null => Contains(vec[0], next)
  /\ pc = "lists" => idx \in 1..TopList

\* A list is not skipped while one of its timers is near.
MinBelow ==
  \A i \in 1..TopList, t \in Timers :
    Contains(vec[i], t) => min[i] # 0 /\ min[i] <= expire[t]

\* What there is no more to do about in this second.
Settled(t) == jumped \/ t \in served \/ expire[t] > last

\* The timers of vec[0] the walk has left behind are settled.
Left(t) ==
  \/ pc = "visit" /\ Before(vec[0], t, cur)
  \/ pc = "callback" /\ (next = Null \/ Before(vec[0], t, next))
  \/ pc \in {"lists", "idle"}

Passed == \A t \in Timers : Contains(vec[0], t) /\ Left(t) => Settled(t)

\* The lists that were looked at hold nothing for this second or the next.
Looked(i) == pc = "idle" \/ (pc = "lists" /\ i < idx)

Far ==
  \A i \in 1..TopList, t \in Timers : Contains(vec[i], t) =>
    IF Looked(i) THEN expire[t] >= last + 2 ELSE Settled(t)

\* The fields of a timer nobody holds.
Dropped == \A t \in Timers \ held : function[t] = Null /\ func_indx[t] = 0

IInv == Shapes /\ Apart /\ Owned /\ Walking /\ MinBelow /\ Passed /\ Far

---------------------------------------------------------------------------
(* Sequences. *)

\* u is what s has of S, place nth[k] of s the k-th of u.
Taken(u, s, S, nth) ==
  /\ \A k \in 1..Len(u) : nth[k] \in 1..Len(s) /\ u[k] = s[nth[k]]
  /\ \A j, k \in 1..Len(u) : j < k => nth[j] < nth[k]
  /\ \A n \in 1..Len(s) : s[n] \in S => \E k \in 1..Len(u) : nth[k] = n

\* Keep takes the members of S one after the other and leaves none out.
LEMMA KeepIs ==
  ASSUME NEW A, NEW s \in Seq(A), NEW S
  PROVE  Keep(s, S) \in Seq(A \cap S) /\ \E nth : Taken(Keep(s, S), s, S, nth)
<1> DEFINE places == {n \in DOMAIN s : s[n] \in S}
           N == Cardinality(places)
           upto(n) == {m \in places : m <= n}
           at(k) == CHOOSE n \in places : Cardinality(upto(n)) = k
           rank == [n \in places |-> Cardinality(upto(n))]
<1>1. Len(s) \in Nat /\ DOMAIN s = 1..Len(s) /\ \A n \in 1..Len(s) : s[n] \in A
  BY LenProperties, ElementOfSeq
<1>2. IsFiniteSet(places) /\ N \in Nat /\ places \subseteq 1..Len(s)
  <2>1. places \in SUBSET (1..Len(s)) /\ IsFiniteSet(1..Len(s))
    BY <1>1, FS_Interval
  <2> QED BY <2>1, FS_Subset, FS_CardinalityType
<1>3. \A n \in places : IsFiniteSet(upto(n)) /\ Cardinality(upto(n)) \in 1..N
  <2> SUFFICES ASSUME NEW n \in places
               PROVE  IsFiniteSet(upto(n)) /\ Cardinality(upto(n)) \in 1..N
    OBVIOUS
  <2>1. upto(n) \in SUBSET places /\ n \in upto(n)
    BY <1>2
  <2> HIDE DEF upto, places
  <2>2. IsFiniteSet(upto(n)) /\ Cardinality(upto(n)) \in Nat /\ Cardinality(upto(n)) <= N
    BY <1>2, <2>1, FS_Subset, FS_CardinalityType
  <2>3. Cardinality(upto(n)) # 0
    BY <2>1, <2>2, FS_EmptySet
  <2> QED BY <2>2, <2>3
<1>4. \A m, n \in places : m < n => Cardinality(upto(m)) < Cardinality(upto(n))
  <2> SUFFICES ASSUME NEW m \in places, NEW n \in places, m < n
               PROVE  Cardinality(upto(m)) < Cardinality(upto(n))
    OBVIOUS
  <2>1. upto(m) \in SUBSET upto(n) /\ n \in upto(n) /\ n \notin upto(m)
    BY <1>2
  <2> HIDE DEF upto, places
  <2>2. Cardinality(upto(m)) <= Cardinality(upto(n)) /\ Cardinality(upto(m)) # Cardinality(upto(n))
    BY <1>3, <2>1, FS_Subset
  <2> QED BY <1>2, <1>3, <2>2
<1>5. \A k \in 1..N : at(k) \in places /\ Cardinality(upto(at(k))) = k
  <2>1. rank \in Injection(places, 1..N)
    <3>1. \A m, n \in places : rank[m] = rank[n] => m = n
      <4> SUFFICES ASSUME NEW m \in places, NEW n \in places, m # n PROVE rank[m] # rank[n]
        OBVIOUS
      <4>1. m < n \/ n < m
        BY <1>2
      <4>2. rank[m] = Cardinality(upto(m)) /\ rank[n] = Cardinality(upto(n))
        OBVIOUS
      <4> HIDE DEF upto, places, rank
      <4> QED BY <1>2, <1>3, <1>4, <4>1, <4>2
    <3>2. rank \in [places -> 1..N]
      BY <1>3
    <3> QED BY <3>1, <3>2 DEF Injection, IsInjective
  <2>2. IsFiniteSet(1..N) /\ Cardinality(1..N) = N
    BY <1>2, FS_Interval
  <2>3. rank \in Surjection(places, 1..N)
    <3> HIDE DEF rank, places
    <3> QED BY <1>2, <2>1, <2>2, FS_Injection
  <2>4. \A k \in 1..N : \E n \in places : Cardinality(upto(n)) = k
    <3>1. \A k \in 1..N : \E n \in places : rank[n] = k
      <4> HIDE DEF rank, places
      <4> QED BY <2>3 DEF Surjection
    <3> QED BY <3>1
  <2> QED BY <2>4
<1>6. Keep(s, S) = [k \in 1..N |-> s[at(k)]]
  BY DEF Keep
<1> HIDE DEF at, upto, N
<1>7. /\ Keep(s, S) \in Seq(A \cap S) /\ Len(Keep(s, S)) = N
      /\ \A k \in 1..N : Keep(s, S)[k] = s[at(k)]
  <2>1. \A k \in 1..N : s[at(k)] \in A \cap S
    BY <1>1, <1>5
  <2>2. Keep(s, S) \in [1..N -> A \cap S]
    BY <1>6, <2>1
  <2> QED BY <1>2, <1>6, <2>2
<1>8. \A j, k \in 1..N : j < k => at(j) < at(k)
  <2> SUFFICES ASSUME NEW j \in 1..N, NEW k \in 1..N, j < k PROVE at(j) < at(k)
    OBVIOUS
  <2>1. at(j) \in places /\ at(k) \in places /\ Cardinality(upto(at(j))) = j /\ Cardinality(upto(at(k))) = k
    BY <1>5
  <2>2. at(j) # at(k)
    BY <1>2, <2>1
  <2>5. at(j) \in Int /\ at(k) \in Int
    <3>1. at(j) \in 1..Len(s) /\ at(k) \in 1..Len(s)
      BY <1>1, <2>1
    <3> QED BY <3>1
  <2> HIDE DEF places
  <2>3. at(k) < at(j) => Cardinality(upto(at(k))) < Cardinality(upto(at(j)))
    BY <1>4, <2>1
  <2>4. ~(at(k) < at(j))
    BY <1>2, <2>1, <2>3
  <2> QED BY <2>2, <2>4, <2>5
<1>9. \A n \in places : \E k \in 1..N : at(k) = n
  <2> SUFFICES ASSUME NEW n \in places PROVE at(Cardinality(upto(n))) = n
    BY <1>3
  <2>1. Cardinality(upto(n)) \in 1..N
    BY <1>3
  <2>2. at(Cardinality(upto(n))) \in places /\ Cardinality(upto(at(Cardinality(upto(n))))) = Cardinality(upto(n))
    BY <1>5, <2>1
  <2> DEFINE x == at(Cardinality(upto(n)))
  <2> HIDE DEF places, x
  <2>3. x \in places /\ Cardinality(upto(x)) = Cardinality(upto(n))
    BY <2>2 DEF x
  <2>4. ~(x < n) /\ ~(n < x)
    BY <1>2, <1>3, <1>4, <2>3
  <2>5. x \in Int /\ n \in Int
    BY <1>1, <1>2, <2>3
  <2>6. x = n
    BY <2>4, <2>5
  <2> QED BY <2>6 DEF x
<1> DEFINE nth == [k \in 1..N |-> at(k)]
<1>10. \A k \in 1..N : nth[k] = at(k) /\ nth[k] \in 1..Len(s)
  BY <1>2, <1>5
<1>11. \A n \in 1..Len(s) : s[n] \in S => n \in places
  BY <1>1
<1> HIDE DEF places, nth
<1>12. Taken(Keep(s, S), s, S, nth)
  <2>1. \A k \in 1..N : nth[k] \in 1..Len(s) /\ Keep(s, S)[k] = s[nth[k]]
    BY <1>7, <1>10
  <2>2. \A j, k \in 1..N : j < k => nth[j] < nth[k]
    BY <1>8, <1>10
  <2>3. \A n \in 1..Len(s) : s[n] \in S => \E k \in 1..N : nth[k] = n
    BY <1>9, <1>10, <1>11
  <2> QED BY <1>7, <2>1, <2>2, <2>3 DEF Taken
<1> QED BY <1>7, <1>12

LEMMA KeepHas ==
  ASSUME NEW A, NEW s \in Seq(A), NEW S, NEW e
  PROVE  Contains(Keep(s, S), e) <=> Contains(s, e) /\ e \in S
<1>1. PICK nth : Taken(Keep(s, S), s, S, nth)
  BY KeepIs
<1>2. \A k \in 1..Len(Keep(s, S)) : Keep(s, S)[k] \in S
  <2>1. Keep(s, S) \in Seq(A \cap S)
    BY KeepIs
  <2> QED BY <2>1, ElementOfSeq
<1> QED BY <1>1, <1>2 DEF Contains, Taken

LEMMA KeepInjective ==
  ASSUME NEW A, NEW s \in Seq(A), NEW S, IsInjective(s)
  PROVE  IsInjective(Keep(s, S))
<1> DEFINE keep == Keep(s, S)
<1>1. keep \in Seq(A \cap S)
  BY KeepIs
<1>2. PICK nth : Taken(keep, s, S, nth)
  BY KeepIs
<1>3. DOMAIN keep = 1..Len(keep) /\ DOMAIN s = 1..Len(s) /\ Len(keep) \in Nat /\ Len(s) \in Nat
  BY <1>1, LenProperties
<1> HIDE DEF keep
<1>4. \A j, k \in 1..Len(keep) : nth[j] = nth[k] => j = k
  BY <1>2, <1>3 DEF Taken
<1>5. \A j, k \in 1..Len(keep) : keep[j] = keep[k] => nth[j] = nth[k]
  BY <1>2, <1>3 DEF IsInjective, Taken
<1>6. IsInjective(keep)
  BY <1>3, <1>4, <1>5 DEF IsInjective
<1> QED BY <1>6 DEF keep

LEMMA KeepBefore ==
  ASSUME NEW A, NEW s \in Seq(A), NEW S, NEW a, NEW b, Before(Keep(s, S), a, b)
  PROVE  Before(s, a, b)
<1>1. PICK nth : Taken(Keep(s, S), s, S, nth)
  BY KeepIs
<1>2. PICK m \in 1..Len(Keep(s, S)), n \in 1..Len(Keep(s, S)) :
        m < n /\ Keep(s, S)[m] = a /\ Keep(s, S)[n] = b
  BY DEF Before
<1>3. /\ nth[m] \in 1..Len(s) /\ nth[n] \in 1..Len(s) /\ nth[m] < nth[n]
      /\ s[nth[m]] = a /\ s[nth[n]] = b
  BY <1>1, <1>2 DEF Taken
<1> QED BY <1>3 DEF Before

\* The same of a sequence that goes on.
LEMMA JoinHas ==
  ASSUME NEW A, NEW s \in Seq(A), NEW u \in Seq(A), NEW e
  PROVE  Contains(s \o u, e) <=> Contains(s, e) \/ Contains(u, e)
<1>1. /\ Len(s) \in Nat /\ Len(u) \in Nat /\ Len(s \o u) = Len(s) + Len(u)
      /\ \A k \in 1..Len(s) + Len(u) : (s \o u)[k] = IF k <= Len(s) THEN s[k] ELSE u[k - Len(s)]
  BY ConcatProperties, LenProperties
<1>2. ASSUME Contains(s \o u, e) PROVE Contains(s, e) \/ Contains(u, e)
  <2>1. PICK k \in 1..Len(s) + Len(u) : (s \o u)[k] = e
    BY <1>1, <1>2 DEF Contains
  <2>2. CASE k <= Len(s)
    BY <1>1, <2>1, <2>2 DEF Contains
  <2>3. CASE k > Len(s)
    <3>1. k - Len(s) \in 1..Len(u) /\ u[k - Len(s)] = e
      BY <1>1, <2>1, <2>3
    <3> QED BY <3>1 DEF Contains
  <2> QED BY <1>1, <2>2, <2>3
<1>3. ASSUME Contains(s, e) PROVE Contains(s \o u, e)
  <2>1. PICK k \in 1..Len(s) : s[k] = e
    BY <1>3 DEF Contains
  <2>2. k \in 1..Len(s) + Len(u) /\ (s \o u)[k] = e
    BY <1>1, <2>1
  <2> QED BY <1>1, <2>2 DEF Contains
<1>4. ASSUME Contains(u, e) PROVE Contains(s \o u, e)
  <2>1. PICK k \in 1..Len(u) : u[k] = e
    BY <1>4 DEF Contains
  <2>2. k + Len(s) \in 1..Len(s) + Len(u) /\ (s \o u)[k + Len(s)] = e
    BY <1>1, <2>1
  <2> QED BY <1>1, <2>2 DEF Contains
<1> QED BY <1>2, <1>3, <1>4

LEMMA JoinInjective ==
  ASSUME NEW A, NEW s \in Seq(A), NEW u \in Seq(A), IsInjective(s), IsInjective(u),
         \A e \in A : ~(Contains(s, e) /\ Contains(u, e))
  PROVE  IsInjective(s \o u)
<1>1. /\ Len(s) \in Nat /\ Len(u) \in Nat /\ Len(s \o u) = Len(s) + Len(u)
      /\ \A k \in 1..Len(s) + Len(u) : (s \o u)[k] = IF k <= Len(s) THEN s[k] ELSE u[k - Len(s)]
      /\ DOMAIN s = 1..Len(s) /\ DOMAIN u = 1..Len(u) /\ DOMAIN (s \o u) = 1..Len(s) + Len(u)
      /\ \A k \in 1..Len(s) : s[k] \in A
  <2>1. s \o u \in Seq(A)
    BY ConcatProperties
  <2> QED BY <2>1, ConcatProperties, LenProperties, ElementOfSeq
<1> SUFFICES ASSUME NEW j \in 1..Len(s) + Len(u), NEW k \in 1..Len(s) + Len(u), j < k
             PROVE  (s \o u)[j] # (s \o u)[k]
  <2>1. \A j, k \in 1..Len(s) + Len(u) : j # k => j < k \/ k < j
    BY <1>1
  <2>2. \A j, k \in 1..Len(s) + Len(u) : j < k => (s \o u)[j] # (s \o u)[k]
    OBVIOUS
  <2> QED BY <1>1, <2>1, <2>2 DEF IsInjective
<1>2. CASE k <= Len(s)
  <2>1. j \in 1..Len(s) /\ k \in 1..Len(s) /\ (s \o u)[j] = s[j] /\ (s \o u)[k] = s[k] /\ j # k
    BY <1>1, <1>2
  <2> QED BY <1>1, <2>1 DEF IsInjective
<1>3. CASE j > Len(s)
  <2>1. /\ j - Len(s) \in 1..Len(u) /\ k - Len(s) \in 1..Len(u) /\ j - Len(s) # k - Len(s)
        /\ (s \o u)[j] = u[j - Len(s)] /\ (s \o u)[k] = u[k - Len(s)]
    BY <1>1, <1>3
  <2> QED BY <1>1, <2>1 DEF IsInjective
<1>4. CASE j <= Len(s) /\ k > Len(s)
  <2>1. /\ j \in 1..Len(s) /\ k - Len(s) \in 1..Len(u)
        /\ (s \o u)[j] = s[j] /\ (s \o u)[k] = u[k - Len(s)]
    BY <1>1, <1>4
  <2>2. Contains(s, s[j]) /\ Contains(u, u[k - Len(s)]) /\ s[j] \in A
    BY <1>1, <2>1 DEF Contains
  <2> QED BY <2>1, <2>2
<1> QED BY <1>1, <1>2, <1>3, <1>4

\* What stands before a member of s still did when s was all.
LEMMA JoinBefore ==
  ASSUME NEW A, NEW s \in Seq(A), NEW u \in Seq(A), IsInjective(s \o u),
         NEW a, NEW b, Contains(s, b), Before(s \o u, a, b)
  PROVE  Before(s, a, b)
<1>1. /\ Len(s) \in Nat /\ Len(u) \in Nat /\ Len(s \o u) = Len(s) + Len(u)
      /\ \A k \in 1..Len(s) : (s \o u)[k] = s[k]
      /\ DOMAIN (s \o u) = 1..Len(s) + Len(u)
  <2>1. s \o u \in Seq(A)
    BY ConcatProperties
  <2>2. /\ Len(s) \in Nat /\ Len(u) \in Nat /\ Len(s \o u) = Len(s) + Len(u)
        /\ \A k \in 1..Len(s) + Len(u) : (s \o u)[k] = IF k <= Len(s) THEN s[k] ELSE u[k - Len(s)]
        /\ DOMAIN (s \o u) = 1..Len(s \o u)
    BY <2>1, ConcatProperties, LenProperties
  <2> QED BY <2>2
<1>2. PICK m \in 1..Len(s) + Len(u), n \in 1..Len(s) + Len(u) :
        m < n /\ (s \o u)[m] = a /\ (s \o u)[n] = b
  BY <1>1 DEF Before
<1>3. PICK k \in 1..Len(s) : s[k] = b
  BY DEF Contains
<1>4. n = k
  <2>1. k \in 1..Len(s) + Len(u) /\ (s \o u)[k] = b
    BY <1>1, <1>3
  <2> QED BY <1>1, <1>2, <2>1 DEF IsInjective
<1>5. m \in 1..Len(s) /\ s[m] = a
  BY <1>1, <1>2, <1>4
<1> QED BY <1>2, <1>3, <1>4, <1>5 DEF Before

---------------------------------------------------------------------------
(* Numbers. *)

\* Every set of natural numbers that is not empty has a least one: strict
\* inclusion is well founded on the finite sets 0..n.
LEMMA Least ==
  ASSUME NEW S \in SUBSET Nat, S # {}
  PROVE  Min(S) \in S /\ \A n \in S : Min(S) <= n
<1> DEFINE T == {0..n : n \in S}
           R == StrictSubsetOrdering(Nat)
<1>1. T \subseteq FiniteSubsetsOf(Nat)
  <2>1. \A n \in S : 0..n \subseteq Nat /\ IsFiniteSet(0..n)
    BY FS_Interval
  <2> QED BY <2>1 DEF FiniteSubsetsOf
<1>2. \E x \in T : \A y \in T : ~(<<y, x>> \in R)
  <2>1. T # {}
    OBVIOUS
  <2> HIDE DEF T
  <2> QED BY <1>1, <2>1, FS_StrictSubsetOrderingWellFounded, WFMin
<1>3. PICK m \in S : \A k \in S : ~(<<0..k, 0..m>> \in R)
  BY <1>2
<1>4. \A k \in S : m <= k
  <2> SUFFICES ASSUME NEW k \in S, k < m PROVE FALSE
    OBVIOUS
  <2>1. m \in 0..m /\ m \notin 0..k
    OBVIOUS
  <2>2. 0..k \subseteq 0..m /\ 0..k # 0..m /\ 0..k \in SUBSET Nat /\ 0..m \in SUBSET Nat
    BY <2>1
  <2> QED BY <1>3, <2>2 DEF StrictSubsetOrdering
<1> QED BY <1>4 DEF Min

LEMMA LowestIs ==
  ASSUME NEW S \in SUBSET Nat
  PROVE  /\ Lowest(S) \in Nat
         /\ S # {} => Lowest(S) \in S /\ \A n \in S : Lowest(S) <= n
<1>1. CASE S = {}
  BY <1>1 DEF Lowest
<1>2. CASE S # {}
  <2>1. Lowest(S) = Min(S)
    BY <1>2 DEF Lowest
  <2>2. Min(S) \in S /\ \A n \in S : Min(S) <= n
    BY <1>2, Least
  <2> QED BY <2>1, <2>2
<1> QED BY <1>1, <1>2

\* A timer that goes to a list but the nearest is two seconds off or more.
LEMMA ListForIs ==
  ASSUME NEW diff \in Int, NEW m \in Lists
  PROVE  ListFor(diff, m) \in 0..m /\ (ListFor(diff, m) # 0 => diff >= 2)
<1> DEFINE S == {i \in 0..m : i = m \/ diff <= Span(i)}
<1>1. m \in Nat /\ m <= TopList /\ TopList \in Nat
  BY TimerAssumption DEF TimerAssumption, Lists
<1>2. m \in S /\ S \in SUBSET Nat
  BY <1>1
<1>3. ListFor(diff, m) = Min(S)
  BY DEF ListFor
<1>4. Min(S) \in S /\ \A n \in S : Min(S) <= n
  <2> HIDE DEF S
  <2> QED BY <1>2, Least
<1>5. Min(S) \in 0..m
  BY <1>4
<1>6. ASSUME Min(S) # 0 PROVE diff >= 2
  <2> DEFINE j == Min(S) - 1
  <2>1. j \in 0..m /\ j < Min(S) /\ j # m /\ j \in Lists
    <3> HIDE DEF S
    <3> QED BY <1>1, <1>5, <1>6 DEF Lists
  <2>2. j \notin S
    <3> HIDE DEF S
    <3> QED BY <1>1, <1>4, <1>5, <2>1
  <2>3. Span(j) \in Nat \ {0}
    BY <2>1, SpanAssumption
  <2>4. ~(diff <= Span(j))
    BY <2>1, <2>2
  <2> HIDE DEF j
  <2> QED BY <2>3, <2>4
<1> QED BY <1>3, <1>5, <1>6

---------------------------------------------------------------------------
(* What the operations do to the lists. *)

\* The timer the walk goes to is not where it was, and there is none between.
LEMMA SuccIs ==
  ASSUME Shapes, Apart, NEW t \in Timers, Contains(vec[0], t)
  PROVE  \/ /\ Succ(t) = Null
            /\ \A u \in Timers : Contains(vec[0], u) => u = t \/ Before(vec[0], u, t)
         \/ /\ Succ(t) \in Timers /\ Succ(t) # t /\ Contains(vec[0], Succ(t))
            /\ \A u \in Timers : Before(vec[0], u, Succ(t)) => u = t \/ Before(vec[0], u, t)
<1> DEFINE i == CHOOSE j \in Lists : Contains(vec[j], t)
           n == CHOOSE k \in DOMAIN vec[0] : vec[0][k] = t
<1>1. 0 \in Lists
  BY TimerAssumption DEF TimerAssumption, Lists
<1>2. i = 0
  <2>1. i \in Lists /\ Contains(vec[i], t)
    BY <1>1
  <2> HIDE DEF i
  <2> QED BY <1>1, <2>1 DEF Apart
<1>3. /\ vec[0] \in Seq(Timers) /\ DOMAIN vec[0] = 1..Len(vec[0]) /\ Len(vec[0]) \in Nat
      /\ \A j, k \in 1..Len(vec[0]) : vec[0][j] = vec[0][k] => j = k
      /\ \A k \in 1..Len(vec[0]) : vec[0][k] \in Timers
  <2>1. vec[0] \in Seq(Timers) /\ IsInjective(vec[0])
    BY <1>1 DEF Shapes, Apart
  <2>2. DOMAIN vec[0] = 1..Len(vec[0]) /\ Len(vec[0]) \in Nat
    BY <2>1, LenProperties
  <2> QED BY <2>1, <2>2, ElementOfSeq DEF IsInjective
<1>4. n \in 1..Len(vec[0]) /\ vec[0][n] = t
  BY <1>3 DEF Contains
<1>5. Succ(t) = IF n < Len(vec[0]) THEN vec[0][n + 1] ELSE Null
  <2>1. Succ(t) = IF (CHOOSE k \in DOMAIN vec[i] : vec[i][k] = t) < Len(vec[i])
                  THEN vec[i][(CHOOSE k \in DOMAIN vec[i] : vec[i][k] = t) + 1]
                  ELSE IF i = 0 THEN Null ELSE vec[i][1]
    BY DEF Succ
  <2> HIDE DEF i
  <2> QED BY <1>2, <2>1
<1> HIDE DEF i, n
<1>6. CASE n < Len(vec[0])
  <2>1. n + 1 \in 1..Len(vec[0]) /\ Succ(t) = vec[0][n + 1]
    BY <1>3, <1>4, <1>5, <1>6
  <2>2. Succ(t) \in Timers /\ Succ(t) # t /\ Contains(vec[0], Succ(t))
    BY <1>3, <1>4, <2>1 DEF Contains
  <2>3. ASSUME NEW u \in Timers, Before(vec[0], u, Succ(t)) PROVE u = t \/ Before(vec[0], u, t)
    <3>1. PICK j \in 1..Len(vec[0]), k \in 1..Len(vec[0]) : j < k /\ vec[0][j] = u /\ vec[0][k] = Succ(t)
      BY <2>3 DEF Before
    <3>2. k = n + 1
      BY <1>3, <2>1, <3>1
    <3>3. j = n \/ j < n
      BY <1>3, <1>4, <3>1, <3>2
    <3> QED BY <1>4, <3>1, <3>3 DEF Before
  <2> QED BY <2>2, <2>3
<1>7. CASE ~(n < Len(vec[0]))
  <2>1. Succ(t) = Null /\ n = Len(vec[0])
    BY <1>3, <1>4, <1>5, <1>7
  <2>2. ASSUME NEW u \in Timers, Contains(vec[0], u) PROVE u = t \/ Before(vec[0], u, t)
    <3>1. PICK k \in 1..Len(vec[0]) : vec[0][k] = u
      BY <2>2 DEF Contains
    <3>2. k = n \/ k < n
      BY <1>3, <2>1, <3>1
    <3> QED BY <1>4, <3>1, <3>2 DEF Before
  <2> QED BY <2>1, <2>2
<1> QED BY <1>6, <1>7

\* A timer that goes to the end of a list, alone or from another place.
LEMMA Alone ==
  ASSUME NEW t
  PROVE  IsInjective(<<t>>) /\ \A u : Contains(<<t>>, u) <=> u = t
  BY DEF IsInjective, Contains

LEMMA NewLists ==
  ASSUME Shapes, Apart, NEW t \in Timers \ alive, NEW i \in Lists,
         vec' = [vec EXCEPT ![i] = Append(@, t)], alive' = alive \cup {t}
  PROVE  /\ vec' \in [Lists -> Seq(Timers)]
         /\ Apart'
         /\ \A j \in Lists, u \in Timers : Contains(vec'[j], u) <=> Contains(vec[j], u) \/ (j = i /\ u = t)
         /\ \A a, b \in Timers : b # t /\ Before(vec'[0], a, b) => Before(vec[0], a, b)
<1>1. \A j \in Lists : vec[j] \in Seq(Timers) /\ IsInjective(vec[j])
  BY DEF Shapes, Apart
<1>2. vec'[i] = vec[i] \o <<t>> /\ \A j \in Lists \ {i} : vec'[j] = vec[j]
  <2>1. vec'[i] = Append(vec[i], t) /\ \A j \in Lists \ {i} : vec'[j] = vec[j]
    BY DEF Shapes
  <2> QED BY <1>1, <2>1, AppendIsConcat
<1>3. <<t>> \in Seq(Timers)
  OBVIOUS
<1>4. vec' \in [Lists -> Seq(Timers)]
  <2>1. vec'[i] \in Seq(Timers)
    BY <1>1, <1>2, <1>3, ConcatProperties
  <2>2. Append(vec[i], t) \in Seq(Timers)
    BY <1>1, AppendProperties
  <2> QED BY <2>2 DEF Shapes
<1>5. ASSUME NEW j \in Lists, NEW u \in Timers
      PROVE  Contains(vec'[j], u) <=> Contains(vec[j], u) \/ (j = i /\ u = t)
  <2>1. CASE j = i
    <3>1. Contains(vec[i] \o <<t>>, u) <=> Contains(vec[i], u) \/ Contains(<<t>>, u)
      BY <1>1, <1>3, JoinHas
    <3> QED BY <1>2, <2>1, <3>1, Alone
  <2> QED BY <1>2, <2>1
<1>6. \A j \in Lists : ~Contains(vec[j], t)
  BY DEF Apart
<1>7. IsInjective(vec'[i])
  <2>1. \A e \in Timers : ~(Contains(vec[i], e) /\ Contains(<<t>>, e))
    BY <1>6, Alone
  <2>2. IsInjective(vec[i] \o <<t>>)
    BY <1>1, <1>3, <2>1, Alone, JoinInjective
  <2> QED BY <1>2, <2>2
<1>8. Apart'
  <2>1. \A j \in Lists : IsInjective(vec'[j])
    BY <1>1, <1>2, <1>7
  <2>2. \A j, k \in Lists, u \in Timers : Contains(vec'[j], u) /\ Contains(vec'[k], u) => j = k
    BY <1>5, <1>6 DEF Apart
  <2>3. \A u \in Timers : u \in alive' <=> \E j \in Lists : Contains(vec'[j], u)
    BY <1>5 DEF Apart
  <2> QED BY <2>1, <2>2, <2>3 DEF Apart
<1>9. ASSUME NEW a \in Timers, NEW b \in Timers, b # t, Before(vec'[0], a, b) PROVE Before(vec[0], a, b)
  <2>1. 0 \in Lists
    BY TimerAssumption DEF TimerAssumption, Lists
  <2>2. CASE i = 0
    <3>1. Contains(vec'[0], b)
      BY <1>9 DEF Before, Contains
    <3>2. Contains(vec[0], b)
      BY <1>5, <1>9, <2>1, <3>1
    <3> QED BY <1>1, <1>2, <1>3, <1>7, <1>9, <2>2, <3>2, JoinBefore
  <2> QED BY <1>2, <1>9, <2>1, <2>2
<1> QED BY <1>4, <1>5, <1>8, <1>9

LEMMA LessHas ==
  ASSUME NEW s \in Seq(Timers), NEW S, NEW u \in Timers
  PROVE  Contains(Less(s, S), u) <=> Contains(s, u) /\ u \notin S
  BY KeepHas DEF Less

LEMMA LessIs ==
  ASSUME NEW s \in Seq(Timers), NEW S
  PROVE  /\ Less(s, S) \in Seq(Timers)
         /\ IsInjective(s) => IsInjective(Less(s, S))
         /\ \A a, b : Before(Less(s, S), a, b) => Before(s, a, b)
<1>1. Less(s, S) \in Seq(Timers \cap (Timers \ S))
  BY KeepIs DEF Less
<1>2. Less(s, S) \in Seq(Timers)
  BY <1>1, SeqMonotonic
<1> QED BY <1>2, KeepInjective, KeepBefore DEF Less

LEMMA MovedLists ==
  ASSUME Shapes, Apart, NEW t \in alive, NEW i \in Lists,
         NEW e, i = ListFor(e - now, TopList), Move(t, e), alive' = alive
  PROVE  /\ vec' \in [Lists -> Seq(Timers)]
         /\ Apart'
         /\ \A j \in Lists, u \in Timers :
              Contains(vec'[j], u) <=> IF u = t THEN j = i ELSE Contains(vec[j], u)
         /\ \A a, b \in Timers : b # t /\ Before(vec'[0], a, b) => Before(vec[0], a, b)
<1>1. /\ \A j \in Lists : vec[j] \in Seq(Timers) /\ IsInjective(vec[j])
      /\ t \in Timers /\ <<t>> \in Seq(Timers)
  BY DEF Shapes, Apart
<1>2. \A j \in Lists : Less(vec[j], {t}) \in Seq(Timers) /\ IsInjective(Less(vec[j], {t}))
  BY <1>1, LessIs
<1>3. /\ vec'[i] = Less(vec[i], {t}) \o <<t>>
      /\ \A j \in Lists \ {i} : vec'[j] = Less(vec[j], {t})
      /\ DOMAIN vec' = Lists /\ vec' = [j \in Lists |-> vec'[j]]
  <2>1. vec' = [j \in Lists |-> Less(vec[j], {t}) \o (IF j = i THEN <<t>> ELSE << >>)]
    BY DEF Move
  <2>2. \A j \in Lists \ {i} : vec'[j] = Less(vec[j], {t}) \o << >>
    BY <2>1
  <2> QED BY <1>2, <2>1, <2>2, ConcatEmptySeq
<1>4. vec' \in [Lists -> Seq(Timers)]
  <2>1. \A j \in Lists : vec'[j] \in Seq(Timers)
    <3>1. Less(vec[i], {t}) \o <<t>> \in Seq(Timers)
      BY <1>1, <1>2, ConcatProperties
    <3> QED BY <1>2, <1>3, <3>1
  <2> QED BY <1>3, <2>1
<1>5. ASSUME NEW j \in Lists, NEW u \in Timers
      PROVE  Contains(vec'[j], u) <=> IF u = t THEN j = i ELSE Contains(vec[j], u)
  <2>1. Contains(Less(vec[j], {t}), u) <=> Contains(vec[j], u) /\ u # t
    BY <1>1, LessHas
  <2>2. CASE j = i
    <3>1. Contains(Less(vec[i], {t}) \o <<t>>, u) <=> Contains(Less(vec[i], {t}), u) \/ Contains(<<t>>, u)
      BY <1>1, <1>2, JoinHas
    <3> QED BY <1>3, <2>1, <2>2, <3>1, Alone
  <2> QED BY <1>3, <2>1, <2>2
<1>6. IsInjective(vec'[i])
  <2>1. \A u \in Timers : ~(Contains(Less(vec[i], {t}), u) /\ Contains(<<t>>, u))
    BY <1>1, LessHas, Alone
  <2>2. IsInjective(Less(vec[i], {t}) \o <<t>>)
    BY <1>1, <1>2, <2>1, Alone, JoinInjective
  <2> QED BY <1>3, <2>2
<1>7. Apart'
  <2>1. \A j \in Lists : IsInjective(vec'[j])
    BY <1>2, <1>3, <1>6
  <2>2. \A j, k \in Lists, u \in Timers : Contains(vec'[j], u) /\ Contains(vec'[k], u) => j = k
    BY <1>5 DEF Apart
  <2>3. \A u \in Timers : u \in alive' <=> \E j \in Lists : Contains(vec'[j], u)
    BY <1>5 DEF Apart
  <2> QED BY <2>1, <2>2, <2>3 DEF Apart
<1>8. ASSUME NEW a \in Timers, NEW b \in Timers, b # t, Before(vec'[0], a, b) PROVE Before(vec[0], a, b)
  <2>1. 0 \in Lists
    BY TimerAssumption DEF TimerAssumption, Lists
  <2>2. Before(Less(vec[0], {t}), a, b)
    <3>1. CASE i = 0
      <4>1. Contains(vec'[0], b)
        BY <1>8 DEF Before, Contains
      <4>2. Contains(Less(vec[0], {t}), b)
        BY <1>1, <1>5, <1>8, <2>1, <4>1, LessHas
      <4>3. /\ Less(vec[0], {t}) \in Seq(Timers) /\ <<t>> \in Seq(Timers)
            /\ vec'[0] = Less(vec[0], {t}) \o <<t>>
        BY <1>1, <1>2, <1>3, <2>1, <3>1
      <4>4. IsInjective(Less(vec[0], {t}) \o <<t>>) /\ Before(Less(vec[0], {t}) \o <<t>>, a, b)
        BY <1>6, <1>8, <3>1, <4>3
      <4> QED BY <4>2, <4>3, <4>4, JoinBefore
    <3> QED BY <1>3, <1>8, <2>1, <3>1
  <2> QED BY <1>1, <2>1, <2>2, LessIs
<1> QED BY <1>4, <1>5, <1>7, <1>8

\* A timer that is freed.
LEMMA FreedLists ==
  ASSUME Shapes, Apart, NEW t \in alive,
         vec' = [j \in Lists |-> Less(vec[j], {t})], alive' = alive \ {t}
  PROVE  /\ vec' \in [Lists -> Seq(Timers)]
         /\ Apart'
         /\ \A j \in Lists, u \in Timers : Contains(vec'[j], u) <=> Contains(vec[j], u) /\ u # t
         /\ \A a, b : Before(vec'[0], a, b) => Before(vec[0], a, b)
<1>1. \A j \in Lists : vec[j] \in Seq(Timers) /\ IsInjective(vec[j]) /\ vec'[j] = Less(vec[j], {t})
  BY DEF Shapes, Apart
<1>2. /\ vec' \in [Lists -> Seq(Timers)]
      /\ \A j \in Lists : IsInjective(vec'[j])
  <2>1. \A j \in Lists : Less(vec[j], {t}) \in Seq(Timers) /\ IsInjective(vec'[j])
    BY <1>1, LessIs
  <2> QED BY <2>1
<1>3. \A j \in Lists, u \in Timers : Contains(vec'[j], u) <=> Contains(vec[j], u) /\ u # t
  BY <1>1, LessHas
<1>4. \A a, b : Before(vec'[0], a, b) => Before(vec[0], a, b)
  <2>1. 0 \in Lists
    BY TimerAssumption DEF TimerAssumption, Lists
  <2> QED BY <1>1, <2>1, LessIs
<1>5. Apart'
  <2>1. \A j, k \in Lists, u \in Timers : Contains(vec'[j], u) /\ Contains(vec'[k], u) => j = k
    BY <1>3 DEF Apart
  <2>2. \A u \in Timers : u \in alive' <=> \E j \in Lists : Contains(vec'[j], u)
    BY <1>3 DEF Apart
  <2> QED BY <1>2, <2>1, <2>2 DEF Apart
<1> QED BY <1>2, <1>3, <1>4, <1>5

\* What scan_timer_list takes from list i to list j.
Part(i, j) == Keep(vec[i], {t \in Timers : function[t] # Null /\ ListFor(expire[t] - now, i) = j})

LEMMA PartIs ==
  ASSUME Shapes, Apart, NEW i \in Lists, NEW j
  PROVE  /\ Part(i, j) \in Seq(Timers) /\ IsInjective(Part(i, j))
         /\ \A u \in Timers : Contains(Part(i, j), u) <=>
              Contains(vec[i], u) /\ function[u] # Null /\ ListFor(expire[u] - now, i) = j
<1> DEFINE S == {t \in Timers : function[t] # Null /\ ListFor(expire[t] - now, i) = j}
<1>1. vec[i] \in Seq(Timers) /\ IsInjective(vec[i])
  BY DEF Shapes, Apart
<1>2. Part(i, j) = Keep(vec[i], S)
  BY DEF Part
<1>3. \A u \in Timers : u \in S <=> function[u] # Null /\ ListFor(expire[u] - now, i) = j
  OBVIOUS
<1> HIDE DEF S
<1>4. Part(i, j) \in Seq(Timers)
  <2>1. Part(i, j) \in Seq(Timers \cap S)
    BY <1>1, <1>2, KeepIs
  <2> QED BY <2>1, SeqMonotonic
<1>5. IsInjective(Part(i, j))
  BY <1>1, <1>2, KeepInjective
<1>6. \A u \in Timers : Contains(Part(i, j), u) <=> Contains(vec[i], u) /\ u \in S
  BY <1>1, <1>2, KeepHas
<1> QED BY <1>3, <1>4, <1>5, <1>6

LEMMA ScannedLists ==
  ASSUME Shapes, Apart, idx \in 1..TopList, ScanTimerList
  PROVE  /\ vec' \in [Lists -> Seq(Timers)]
         /\ Apart'
         /\ \A j \in Lists, u \in Timers :
              Contains(vec'[j], u) <=>
                IF Contains(vec[idx], u) THEN function[u] # Null /\ ListFor(expire[u] - now, idx) = j
                ELSE Contains(vec[j], u)
<1> DEFINE i == idx
<1>1. i \in Lists /\ i \in Nat /\ Lists \subseteq Int
  BY TimerAssumption DEF TimerAssumption, Lists
<1>2. \A j \in Lists : vec[j] \in Seq(Timers) /\ IsInjective(vec[j])
  BY DEF Shapes, Apart
<1>3. \A u \in Timers : ListFor(expire[u] - now, i) \in 0..i
  <2>1. \A u \in Timers : expire[u] - now \in Int
    BY DEF Shapes
  <2> QED BY <1>1, <2>1, ListForIs
<1>4. /\ vec'[i] = Part(i, i)
      /\ \A j \in Lists : j < i => vec'[j] = vec[j] \o Part(i, j)
      /\ \A j \in Lists : j > i => vec'[j] = vec[j]
      /\ DOMAIN vec' = Lists
  <2>1. vec' = [j \in Lists |-> IF j = i THEN Part(i, i) ELSE IF j < i THEN vec[j] \o Part(i, j) ELSE vec[j]]
    BY DEF ScanTimerList, Part
  <2> HIDE DEF i
  <2> QED BY <1>1, <2>1
<1>5. \A j \in Lists : /\ Part(i, j) \in Seq(Timers) /\ IsInjective(Part(i, j))
                       /\ \A u \in Timers : Contains(Part(i, j), u) <=>
                            Contains(vec[i], u) /\ function[u] # Null /\ ListFor(expire[u] - now, i) = j
  BY <1>1, PartIs
<1> HIDE DEF i
<1>6. ASSUME NEW j \in Lists, NEW u \in Timers
      PROVE  Contains(vec'[j], u) <=>
               IF Contains(vec[i], u) THEN function[u] # Null /\ ListFor(expire[u] - now, i) = j
               ELSE Contains(vec[j], u)
  <2>1. CASE j = i
    BY <1>4, <1>5, <2>1
  <2>2. CASE j < i
    <3>1. Contains(vec[j] \o Part(i, j), u) <=> Contains(vec[j], u) \/ Contains(Part(i, j), u)
      BY <1>2, <1>5, JoinHas
    <3>2. ~(Contains(vec[j], u) /\ Contains(vec[i], u))
      BY <1>1, <2>2 DEF Apart
    <3> QED BY <1>4, <1>5, <2>2, <3>1, <3>2
  <2>3. CASE j > i
    <3>1. ~(Contains(vec[j], u) /\ Contains(vec[i], u))
      BY <1>1, <2>3 DEF Apart
    <3>2. ListFor(expire[u] - now, i) # j
      BY <1>1, <1>3, <2>3
    <3> QED BY <1>4, <2>3, <3>1, <3>2
  <2> QED BY <1>1, <2>1, <2>2, <2>3
<1>7. \A j \in Lists : vec'[j] \in Seq(Timers) /\ IsInjective(vec'[j])
  <2> SUFFICES ASSUME NEW j \in Lists PROVE vec'[j] \in Seq(Timers) /\ IsInjective(vec'[j])
    OBVIOUS
  <2>1. CASE j < i
    <3>1. vec[j] \o Part(i, j) \in Seq(Timers)
      BY <1>2, <1>5, ConcatProperties
    <3>2. \A e \in Timers : ~(Contains(vec[j], e) /\ Contains(Part(i, j), e))
      BY <1>1, <1>5, <2>1 DEF Apart
    <3>3. IsInjective(vec[j] \o Part(i, j))
      BY <1>2, <1>5, <3>2, JoinInjective
    <3> QED BY <1>4, <2>1, <3>1, <3>3
  <2> QED BY <1>1, <1>2, <1>4, <1>5, <2>1
<1>8. alive' = alive \ {u \in Timers : Contains(vec[i], u) /\ function[u] = Null}
  <2>1. vec[i] \in Seq(Timers) /\ DOMAIN vec[i] = 1..Len(vec[i])
    BY <1>1, <1>2, LenProperties
  <2>2. \A u : u \in ToSet(vec[i]) <=> u \in Timers /\ Contains(vec[i], u)
    BY <2>1, ElementOfSeq DEF ToSet, Contains
  <2>3. alive' = alive \ {t \in ToSet(vec[i]) : ~(function[t] # Null)}
    BY DEF ScanTimerList, Free, i
  <2> QED BY <2>2, <2>3
<1>9. Apart'
  <2>1. \A j, k \in Lists, u \in Timers : Contains(vec'[j], u) /\ Contains(vec'[k], u) => j = k
    BY <1>6 DEF Apart
  <2>2. \A u \in Timers : u \in alive' <=> \E j \in Lists : Contains(vec'[j], u)
    <3> SUFFICES ASSUME NEW u \in Timers PROVE u \in alive' <=> \E j \in Lists : Contains(vec'[j], u)
      OBVIOUS
    <3>1. CASE Contains(vec[i], u)
      <4>1. ListFor(expire[u] - now, i) \in Lists
        BY <1>1, <1>3, TimerAssumption DEF Lists, TimerAssumption
      <4> QED BY <1>1, <1>6, <1>8, <3>1, <4>1 DEF Apart
    <3>2. CASE ~Contains(vec[i], u)
      <4>1. u \in alive' <=> u \in alive
        BY <1>8, <3>2
      <4>2. \A j \in Lists : Contains(vec'[j], u) <=> Contains(vec[j], u)
        BY <1>6, <3>2
      <4> QED BY <4>1, <4>2 DEF Apart
    <3> QED BY <3>1, <3>2
  <2> QED BY <1>7, <2>1, <2>2 DEF Apart
<1>10. vec' \in [Lists -> Seq(Timers)]
  BY <1>7 DEF ScanTimerList
<1> QED BY <1>6, <1>9, <1>10 DEF i

---------------------------------------------------------------------------
(* The client's calls. *)

LEMMA Zero == 0 \in Lists /\ \A i \in 1..TopList : i \in Lists /\ i # 0
  BY TimerAssumption DEF TimerAssumption, Lists

\* A call leaves a timer where it was or marks it as set in this second.
LEMMA ClientKeeps ==
  ASSUME Shapes, Walking, MinBelow, Passed, Far, ClientRuns,
         UNCHANGED <<last, jumped, walk>>,
         \A j \in Lists, u \in Timers : Contains(vec'[j], u) =>
           \/ /\ Contains(vec[j], u) /\ expire'[u] = expire[u] /\ (u \in served => u \in served')
              /\ min[j] # 0 => min'[j] # 0 /\ min'[j] <= min[j]
           \/ /\ u \in served'
              /\ j # 0 => expire'[u] >= last + 2 /\ min'[j] # 0 /\ min'[j] <= expire'[u],
         pc = "callback" =>
           /\ Contains(vec'[0], cur) /\ (next # Null => Contains(vec'[0], next))
           /\ \A a \in Timers : next # Null /\ Before(vec'[0], a, next) => Before(vec[0], a, next),
         min' \in [Lists -> Nat], expire' \in [Timers -> Nat]
  PROVE  Walking' /\ MinBelow' /\ Passed' /\ Far'
<1>1. /\ last \in Nat
      /\ \A j \in Lists : min[j] \in Nat /\ min'[j] \in Nat
      /\ \A u \in Timers : expire[u] \in Nat /\ expire'[u] \in Nat
  BY DEF Shapes
<1>2. pc \in {"idle", "callback"} /\ pc' = pc /\ cur' = cur /\ next' = next /\ idx' = idx /\ last' = last /\ jumped' = jumped
  BY DEF ClientRuns, walk
<1>3. Walking'
  BY <1>2 DEF Walking
<1>4. MinBelow'
  <2> SUFFICES ASSUME NEW i \in 1..TopList, NEW u \in Timers, Contains(vec'[i], u)
               PROVE  min'[i] # 0 /\ min'[i] <= expire'[u]
    BY DEF MinBelow
  <2>1. i \in Lists /\ i # 0
    BY Zero
  <2>2. CASE /\ Contains(vec[i], u) /\ expire'[u] = expire[u]
             /\ min[i] # 0 => min'[i] # 0 /\ min'[i] <= min[i]
    <3>1. min[i] # 0 /\ min[i] <= expire[u]
      BY <2>2 DEF MinBelow
    <3> QED BY <1>1, <2>1, <2>2, <3>1
  <2> QED BY <2>1, <2>2
<1>5. Passed'
  <2> SUFFICES ASSUME NEW u \in Timers, Contains(vec'[0], u), Left(u)' PROVE Settled(u)'
    BY DEF Passed
  <2>1. CASE u \in served'
    BY <2>1 DEF Settled
  <2>2. CASE Contains(vec[0], u) /\ expire'[u] = expire[u] /\ (u \in served => u \in served')
    <3>1. Left(u)
      <4>1. CASE pc = "idle"
        BY <4>1 DEF Left
      <4>2. CASE pc = "callback"
        <5>1. next = Null \/ Before(vec'[0], u, next)
          BY <1>2, <4>2 DEF Left
        <5> QED BY <4>2, <5>1 DEF Left
      <4> QED BY <1>2, <4>1, <4>2
    <3>2. Settled(u)
      BY <2>2, <3>1 DEF Passed
    <3> QED BY <1>2, <2>2, <3>2 DEF Settled
  <2> QED BY <2>1, <2>2, Zero
<1>6. Far'
  <2> SUFFICES ASSUME NEW i \in 1..TopList, NEW u \in Timers, Contains(vec'[i], u)
               PROVE  IF Looked(i) THEN expire'[u] >= last + 2 ELSE Settled(u)'
    BY <1>2 DEF Far, Looked
  <2>1. i \in Lists /\ i # 0
    BY Zero
  <2>2. CASE u \in served' /\ expire'[u] >= last + 2
    BY <2>2 DEF Settled
  <2>3. CASE Contains(vec[i], u) /\ expire'[u] = expire[u] /\ (u \in served => u \in served')
    <3>1. IF Looked(i) THEN expire[u] >= last + 2 ELSE Settled(u)
      BY <2>3 DEF Far
    <3> QED BY <1>2, <2>3, <3>1 DEF Settled
  <2> QED BY <2>1, <2>2, <2>3
<1> QED BY <1>3, <1>4, <1>5, <1>6

LEMMA SetMinIs ==
  ASSUME Shapes, NEW e \in Nat \ {0}, NEW i \in Lists, SetMin(e, i)
  PROVE  /\ min' \in [Lists -> Nat] /\ min'[i] # 0 /\ min'[i] <= e
         /\ \A j \in Lists : min[j] # 0 => min'[j] # 0 /\ min'[j] <= min[j]
  BY DEF Shapes, SetMin

LEMMA AppendHas ==
  ASSUME NEW s \in Seq(Timers), NEW t \in Timers, NEW u \in Timers
  PROVE  Contains(Append(s, t), u) <=> Contains(s, u) \/ u = t
<1>1. <<t>> \in Seq(Timers) /\ Append(s, t) = s \o <<t>>
  BY AppendIsConcat
<1>2. Contains(s \o <<t>>, u) <=> Contains(s, u) \/ Contains(<<t>>, u)
  BY <1>1, JoinHas
<1> QED BY <1>1, <1>2, Alone

\* The list a timer d seconds off goes to, and its time.
LEMMA Place ==
  ASSUME Shapes, NEW d \in Delays, NEW e, e = now + d
  PROVE  /\ e \in Nat \ {0}
         /\ ListFor(e - now, TopList) \in Lists
         /\ ListFor(e - now, TopList) # 0 => e >= last + 2
<1>1. d \in Nat /\ TopList \in Lists /\ TopList \in Nat /\ now \in Nat \ {0} /\ last \in Nat /\ last <= now
  BY TimerAssumption DEF TimerAssumption, Lists, Shapes
<1>2. e - now = d /\ d \in Int
  BY <1>1
<1>3. ListFor(d, TopList) \in 0..TopList /\ (ListFor(d, TopList) # 0 => d >= 2)
  BY <1>1, <1>2, ListForIs
<1> QED BY <1>1, <1>2, <1>3 DEF Lists

\* Whom the walk stands at, and whom it goes to next, are timers.
LEMMA Standing ==
  ASSUME Shapes, Walking, pc = "callback"
  PROVE  cur \in Timers /\ (next # Null => next \in Timers)
<1>1. vec[0] \in Seq(Timers) /\ Null \notin Timers
  BY Zero, TimerAssumption DEF Shapes, TimerAssumption
<1>2. ~Contains(vec[0], Null)
  BY <1>1, ElementOfSeq DEF Contains
<1> QED BY <1>2 DEF Walking, Shapes

LEMMA NewKeeps ==
  ASSUME IInv, ClientRuns, NEW h \in Heads, NEW f \in Funcs, NEW x \in Types \cup {0}, NEW d \in Delays,
         NewTimer(h, f, x, now + d), UNCHANGED <<clock, walk, types>>
  PROVE  IInv'
<1> DEFINE e == now + d
           i == ListFor(e - now, TopList)
<1>1. PICK t \in Timers \ alive :
        /\ alive' = alive \cup {t} /\ held' = held \cup {t}
        /\ function' = [function EXCEPT ![t] = f]
        /\ func_indx' = [func_indx EXCEPT ![t] = x]
        /\ expire' = [expire EXCEPT ![t] = e]
        /\ served' = served \cup {t}
        /\ sprite' = [sprite EXCEPT ![h] = Append(@, t)]
        /\ vec' = [vec EXCEPT ![i] = Append(@, t)]
        /\ SetMin(e, i)
  BY DEF NewTimer
<1>2. Shapes /\ Apart /\ Owned /\ Walking /\ MinBelow /\ Passed /\ Far
  BY DEF IInv
<1>3. i \in Lists /\ e \in Nat \ {0} /\ (i # 0 => e >= last + 2)
  <2>1. e = now + d
    OBVIOUS
  <2> HIDE DEF e
  <2> QED BY <1>2, <2>1, Place
<1> HIDE DEF e, i
<1>4. /\ vec' \in [Lists -> Seq(Timers)]
      /\ Apart'
      /\ \A j \in Lists, u \in Timers : Contains(vec'[j], u) <=> Contains(vec[j], u) \/ (j = i /\ u = t)
      /\ \A a, b \in Timers : b # t /\ Before(vec'[0], a, b) => Before(vec[0], a, b)
  BY <1>1, <1>2, <1>3, NewLists
<1>5. /\ min' \in [Lists -> Nat] /\ min'[i] # 0 /\ min'[i] <= e
      /\ \A j \in Lists : min[j] # 0 => min'[j] # 0 /\ min'[j] <= min[j]
  BY <1>1, <1>2, <1>3, SetMinIs
<1>6. sprite' \in [Heads -> Seq(Timers)] /\ Owned'
  <2>1. \A g \in Heads : sprite[g] \in Seq(Timers)
    BY <1>2 DEF Shapes
  <2>2. sprite'[h] = Append(sprite[h], t) /\ \A g \in Heads \ {h} : sprite'[g] = sprite[g]
    BY <1>1, <1>2 DEF Shapes
  <2>3. \A g \in Heads, u \in Timers :
          Contains(sprite'[g], u) <=> Contains(sprite[g], u) \/ (g = h /\ u = t)
    <3>1. \A u \in Timers : Contains(Append(sprite[h], t), u) <=> Contains(sprite[h], u) \/ u = t
      BY <2>1, AppendHas
    <3> QED BY <2>2, <3>1
  <2>4. Append(sprite[h], t) \in Seq(Timers)
    BY <2>1, AppendProperties
  <2>5. sprite' \in [Heads -> Seq(Timers)]
    BY <1>1, <1>2, <2>4 DEF Shapes
  <2>6. held' \subseteq Timers
    BY <1>1, <1>2 DEF Shapes
  <2> QED BY <1>1, <1>2, <2>3, <2>5, <2>6 DEF Owned
<1>7. Shapes'
  <2>1. UNCHANGED <<now, last, jumped, pc, cur, next, idx, tcfs, stale>>
    BY DEF clock, walk, types
  <2>2. expire' \in [Timers -> Nat] /\ function' \in [Timers -> Funcs \cup {Null}] /\ func_indx' \in [Timers -> Types \cup {0}]
    BY <1>1, <1>2, <1>3 DEF Shapes
  <2> QED BY <1>1, <1>2, <1>4, <1>5, <1>6, <2>1, <2>2 DEF Shapes
<1>8. \A j \in Lists, u \in Timers : Contains(vec'[j], u) =>
        \/ /\ Contains(vec[j], u) /\ expire'[u] = expire[u] /\ (u \in served => u \in served')
           /\ min[j] # 0 => min'[j] # 0 /\ min'[j] <= min[j]
        \/ /\ u \in served'
           /\ j # 0 => expire'[u] >= last + 2 /\ min'[j] # 0 /\ min'[j] <= expire'[u]
  <2> SUFFICES ASSUME NEW j \in Lists, NEW u \in Timers, Contains(vec'[j], u)
               PROVE  \/ /\ Contains(vec[j], u) /\ expire'[u] = expire[u] /\ (u \in served => u \in served')
                         /\ min[j] # 0 => min'[j] # 0 /\ min'[j] <= min[j]
                      \/ /\ u \in served'
                         /\ j # 0 => expire'[u] >= last + 2 /\ min'[j] # 0 /\ min'[j] <= expire'[u]
    OBVIOUS
  <2>1. expire'[t] = e /\ (u # t => expire'[u] = expire[u])
    BY <1>1, <1>2 DEF Shapes
  <2>2. CASE j = i /\ u = t
    BY <1>1, <1>3, <1>5, <2>1, <2>2
  <2>3. CASE Contains(vec[j], u) /\ u # t
    BY <1>1, <1>5, <2>1, <2>3
  <2>4. Contains(vec[j], u) => u # t
    BY <1>2 DEF Apart
  <2> QED BY <1>4, <2>2, <2>3, <2>4
<1>9. pc = "callback" =>
        /\ Contains(vec'[0], cur) /\ (next # Null => Contains(vec'[0], next))
        /\ \A a \in Timers : next # Null /\ Before(vec'[0], a, next) => Before(vec[0], a, next)
  <2> SUFFICES ASSUME pc = "callback"
               PROVE  /\ Contains(vec'[0], cur) /\ (next # Null => Contains(vec'[0], next))
                      /\ \A a \in Timers : next # Null /\ Before(vec'[0], a, next) => Before(vec[0], a, next)
    OBVIOUS
  <2>1. cur \in Timers /\ (next # Null => next \in Timers)
    BY <1>2, Standing
  <2>2. next # Null => Contains(vec[0], next) /\ next # t
    BY <1>2, <2>1, Zero DEF Walking, Apart
  <2> QED BY <1>2, <1>4, <2>1, <2>2, Zero DEF Walking
<1>10. Walking' /\ MinBelow' /\ Passed' /\ Far'
  <2>1. UNCHANGED <<last, jumped, walk>>
    BY DEF clock
  <2>2. expire' \in [Timers -> Nat]
    BY <1>7 DEF Shapes
  <2> QED BY <1>2, <1>5, <1>8, <1>9, <2>1, <2>2, ClientKeeps
<1> QED BY <1>4, <1>6, <1>7, <1>10 DEF IInv

LEMMA MoveKeeps ==
  ASSUME IInv, ~ModNext, ClientRuns, NEW t \in Timers, MayMove(t), NEW d \in Delays,
         Move(t, now + d), UNCHANGED <<sprite, alive, held, clock, walk, types>>,
         function' \in [Timers -> Funcs \cup {Null}], func_indx' \in [Timers -> Types \cup {0}]
  PROVE  IInv'
<1> DEFINE e == now + d
           i == ListFor(e - now, TopList)
<1>1. /\ Move(t, e) /\ i = ListFor(e - now, TopList)
      /\ SetMin(e, i)
      /\ expire' = [expire EXCEPT ![t] = e]
      /\ served' = served \cup {t}
  BY DEF Move
<1>2. Shapes /\ Apart /\ Owned /\ Walking /\ MinBelow /\ Passed /\ Far
  BY DEF IInv
<1>3. i \in Lists /\ e \in Nat \ {0} /\ (i # 0 => e >= last + 2)
  <2>1. e = now + d
    OBVIOUS
  <2> HIDE DEF e
  <2> QED BY <1>2, <2>1, Place
<1> HIDE DEF e, i
<1>4. t \in alive /\ alive' = alive
  BY <1>2 DEF MayMove, Shapes
<1>5. /\ vec' \in [Lists -> Seq(Timers)]
      /\ Apart'
      /\ \A j \in Lists, u \in Timers :
           Contains(vec'[j], u) <=> IF u = t THEN j = i ELSE Contains(vec[j], u)
      /\ \A a, b \in Timers : b # t /\ Before(vec'[0], a, b) => Before(vec[0], a, b)
  BY <1>1, <1>2, <1>3, <1>4, MovedLists
<1>6. /\ min' \in [Lists -> Nat] /\ min'[i] # 0 /\ min'[i] <= e
      /\ \A j \in Lists : min[j] # 0 => min'[j] # 0 /\ min'[j] <= min[j]
  BY <1>1, <1>2, <1>3, SetMinIs
<1>7. Shapes'
  <2>1. UNCHANGED <<now, last, jumped, pc, cur, next, idx, tcfs, stale, sprite, alive, held>>
    BY DEF clock, walk, types
  <2>2. expire' \in [Timers -> Nat]
    BY <1>1, <1>2, <1>3 DEF Shapes
  <2> QED BY <1>1, <1>2, <1>4, <1>5, <1>6, <2>1, <2>2 DEF Shapes
<1>8. \A j \in Lists, u \in Timers : Contains(vec'[j], u) =>
        \/ /\ Contains(vec[j], u) /\ expire'[u] = expire[u] /\ (u \in served => u \in served')
           /\ min[j] # 0 => min'[j] # 0 /\ min'[j] <= min[j]
        \/ /\ u \in served'
           /\ j # 0 => expire'[u] >= last + 2 /\ min'[j] # 0 /\ min'[j] <= expire'[u]
  <2> SUFFICES ASSUME NEW j \in Lists, NEW u \in Timers, Contains(vec'[j], u)
               PROVE  \/ /\ Contains(vec[j], u) /\ expire'[u] = expire[u] /\ (u \in served => u \in served')
                         /\ min[j] # 0 => min'[j] # 0 /\ min'[j] <= min[j]
                      \/ /\ u \in served'
                         /\ j # 0 => expire'[u] >= last + 2 /\ min'[j] # 0 /\ min'[j] <= expire'[u]
    OBVIOUS
  <2>1. expire'[t] = e /\ (u # t => expire'[u] = expire[u])
    BY <1>1, <1>2 DEF Shapes
  <2>2. CASE u = t
    <3>1. j = i
      BY <1>5, <2>2
    <3> QED BY <1>1, <1>3, <1>6, <2>1, <2>2, <3>1
  <2>3. CASE u # t
    BY <1>1, <1>5, <1>6, <2>1, <2>3
  <2> QED BY <2>2, <2>3
<1>9. pc = "callback" =>
        /\ Contains(vec'[0], cur) /\ (next # Null => Contains(vec'[0], next))
        /\ \A a \in Timers : next # Null /\ Before(vec'[0], a, next) => Before(vec[0], a, next)
  <2> SUFFICES ASSUME pc = "callback"
               PROVE  /\ Contains(vec'[0], cur) /\ (next # Null => Contains(vec'[0], next))
                      /\ \A a \in Timers : next # Null /\ Before(vec'[0], a, next) => Before(vec[0], a, next)
    OBVIOUS
  <2>1. cur \in Timers /\ (next # Null => next \in Timers)
    BY <1>2, Standing
  <2>2. t # cur /\ t # next
    BY DEF MayMove
  <2> QED BY <1>2, <1>5, <2>1, <2>2, Zero DEF Walking
<1>10. Walking' /\ MinBelow' /\ Passed' /\ Far'
  <2>1. UNCHANGED <<last, jumped, walk>>
    BY DEF clock
  <2>2. expire' \in [Timers -> Nat]
    BY <1>7 DEF Shapes
  <2> QED BY <1>2, <1>6, <1>8, <1>9, <2>1, <2>2, ClientKeeps
<1>11. Owned'
  BY <1>2 DEF Owned
<1> QED BY <1>5, <1>7, <1>10, <1>11 DEF IInv

LEMMA AddKeeps == ASSUME IInv, ~ModNext, Add PROVE IInv'
<1>1. PICK h \in Heads, d \in Delays, flag \in {"new", "replace"}, f \in Funcs, x \in Kinds :
        AddEvent(h, f, x, now + d, flag)
  BY DEF Add
<1>2. x \in Types \cup {0} /\ ClientRuns /\ UNCHANGED <<clock, walk, types>>
  BY <1>1 DEF AddEvent, Kinds
<1>3. CASE NewTimer(h, f, x, now + d)
  BY <1>2, <1>3, NewKeeps
<1>4. ASSUME NEW t, MayMove(t), Move(t, now + d),
             func_indx' = [func_indx EXCEPT ![t] = IF x = 0 THEN @ ELSE x],
             UNCHANGED <<sprite, alive, function, held>>
      PROVE  IInv'
  <2>1. t \in Timers
    BY <1>4 DEF MayMove, IInv, Shapes
  <2>2. function' \in [Timers -> Funcs \cup {Null}] /\ func_indx' \in [Timers -> Types \cup {0}]
    BY <1>2, <1>4, <2>1 DEF IInv, Shapes
  <2>3. UNCHANGED <<sprite, alive, held, clock, walk, types>>
    BY <1>2, <1>4
  <2> QED BY <1>2, <1>4, <2>1, <2>2, <2>3, MoveKeeps
<1> QED BY <1>1, <1>3, <1>4 DEF AddEvent

LEMMA ModKeeps ==
  ASSUME IInv, ~ModNext, NEW t \in Timers, NEW d \in Delays, ModExpireTime(t, now + d)
  PROVE  IInv'
<1>1. /\ ClientRuns /\ MayMove(t) /\ Move(t, now + d)
      /\ UNCHANGED <<sprite, alive, held, clock, walk, types>>
      /\ UNCHANGED <<function, func_indx>>
  BY DEF ModExpireTime
<1>2. function' \in [Timers -> Funcs \cup {Null}] /\ func_indx' \in [Timers -> Types \cup {0}]
  BY <1>1 DEF IInv, Shapes
<1> QED BY <1>1, <1>2, MoveKeeps

\* The calls that leave the lists and the times as they are.
LEMMA QuietKeeps ==
  ASSUME IInv, ClientRuns, UNCHANGED <<vec, min, alive, expire, walk, last, jumped>>,
         served \subseteq served', Shapes', Owned'
  PROVE  IInv'
<1>1. Shapes /\ Apart /\ Owned /\ Walking /\ MinBelow /\ Passed /\ Far
  BY DEF IInv
<1>2. Apart'
  BY <1>1 DEF Apart
<1>3. min' \in [Lists -> Nat] /\ expire' \in [Timers -> Nat]
  BY DEF Shapes
<1>4. UNCHANGED <<last, jumped, walk>> /\ vec' = vec /\ min' = min /\ expire' = expire
  OBVIOUS
<1>5. \A j \in Lists : min[j] # 0 => min'[j] # 0 /\ min'[j] <= min[j]
  BY <1>1, <1>4 DEF Shapes
<1>6. Walking' /\ MinBelow' /\ Passed' /\ Far'
  BY <1>1, <1>3, <1>4, <1>5, ClientKeeps DEF Walking
<1> QED BY <1>2, <1>6 DEF IInv

LEMMA ForgetKeeps ==
  ASSUME IInv, ClientRuns, NEW S, S \subseteq alive, Forget(S) PROVE IInv'
<1>1. Shapes /\ Owned
  BY DEF IInv
<1>2. /\ \A h \in Heads : sprite'[h] = Less(sprite[h], S) /\ sprite[h] \in Seq(Timers)
      /\ sprite' \in [Heads -> Seq(Timers)]
      /\ held' = held \ S /\ served' = served \cup S /\ alive' = alive
  <2>1. \A h \in Heads : sprite'[h] = Less(sprite[h], S) /\ sprite[h] \in Seq(Timers)
    BY <1>1 DEF Forget, Shapes
  <2>2. \A h \in Heads : Less(sprite[h], S) \in Seq(Timers)
    BY <2>1, LessIs
  <2>3. sprite' = [h \in Heads |-> Less(sprite[h], S)]
    BY DEF Forget
  <2> QED BY <2>1, <2>2, <2>3 DEF Forget
<1>3. Shapes'
  <2>1. UNCHANGED <<vec, min, alive, expire, now, last, jumped, pc, cur, next, idx, tcfs, stale>>
    BY DEF Forget, clock, walk, types
  <2>2. function' \in [Timers -> Funcs \cup {Null}] /\ func_indx' \in [Timers -> Types \cup {0}]
    BY <1>1 DEF Forget, Shapes
  <2> QED BY <1>1, <1>2, <2>1, <2>2 DEF Shapes
<1>4. Owned'
  <2>1. \A h \in Heads, u \in Timers : Contains(sprite'[h], u) <=> Contains(sprite[h], u) /\ u \notin S
    BY <1>2, LessHas
  <2> QED BY <1>1, <1>2, <2>1 DEF Owned, Shapes
<1>5. UNCHANGED <<vec, min, alive, expire, walk, last, jumped>> /\ served \subseteq served'
  BY <1>2 DEF Forget, clock
<1> QED BY <1>3, <1>4, <1>5, QuietKeeps

LEMMA RemoveKeeps ==
  ASSUME IInv, (\E t \in Timers : RemoveTimer(t)) \/ (\E h \in Heads : RemoveTimers(h))
  PROVE  IInv'
<1>1. ASSUME NEW t \in Timers, RemoveTimer(t) PROVE IInv'
  <2>1. ClientRuns /\ {t} \subseteq alive /\ Forget({t})
    BY <1>1 DEF RemoveTimer, IInv, Shapes
  <2> QED BY <2>1, ForgetKeeps
<1>2. ASSUME NEW h \in Heads, RemoveTimers(h) PROVE IInv'
  <2>1. ClientRuns /\ Forget(ToSet(sprite[h]))
    BY <1>2 DEF RemoveTimers
  <2>2. sprite[h] \in Seq(Timers) /\ DOMAIN sprite[h] = 1..Len(sprite[h])
    BY LenProperties DEF IInv, Shapes
  <2>3. ToSet(sprite[h]) \subseteq alive
    BY <2>2, ElementOfSeq DEF ToSet, Contains, IInv, Owned
  <2> QED BY <2>1, <2>3, ForgetKeeps
<1> QED BY <1>1, <1>2

LEMMA EmptyHas == IsInjective(<< >>) /\ \A u : ~Contains(<< >>, u)
  BY DEF IsInjective, Contains

LEMMA DestroyKeeps == ASSUME IInv, DestroyTimer PROVE IInv'
<1>1. Shapes /\ Owned
  BY DEF IInv
<1>2. \A j \in Lists : vec'[j] = << >>
  BY DEF DestroyTimer
<1>3. /\ alive' = {} /\ held' = {} /\ served' = {}
      /\ sprite' = [h \in Heads |-> Less(sprite[h], alive)]
      /\ function' = [t \in Timers |-> IF t \in alive THEN Null ELSE function[t]]
      /\ func_indx' = [t \in Timers |-> IF t \in alive THEN 0 ELSE func_indx[t]]
      /\ expire' = [t \in Timers |-> IF t \in alive THEN 0 ELSE expire[t]]
      /\ UNCHANGED <<min, now, last, jumped, pc, cur, next, idx, tcfs, stale>>
  BY <1>1 DEF DestroyTimer, Free, clock, walk, types, Shapes
<1>4. \A h \in Heads : /\ sprite[h] \in Seq(Timers) /\ Less(sprite[h], alive) \in Seq(Timers)
                       /\ sprite'[h] = Less(sprite[h], alive)
  <2>1. \A h \in Heads : sprite[h] \in Seq(Timers) /\ sprite'[h] = Less(sprite[h], alive)
    BY <1>1, <1>3 DEF Shapes
  <2> QED BY <2>1, LessIs
<1>5. Shapes'
  <2>1. expire' \in [Timers -> Nat] /\ function' \in [Timers -> Funcs \cup {Null}] /\ func_indx' \in [Timers -> Types \cup {0}]
    BY <1>1, <1>3 DEF Shapes
  <2>2. sprite' \in [Heads -> Seq(Timers)]
    BY <1>3, <1>4
  <2>3. vec' \in [Lists -> Seq(Timers)]
    BY DEF DestroyTimer
  <2> QED BY <1>1, <1>3, <2>1, <2>2, <2>3 DEF Shapes
<1>6. Apart'
  BY <1>2, <1>3, EmptyHas, Zero DEF Apart
<1>7. Owned'
  <2>1. \A h \in Heads, u \in Timers : ~Contains(sprite'[h], u)
    BY <1>1, <1>4, LessHas DEF Owned
  <2> QED BY <1>3, <2>1 DEF Owned
<1>8. MinBelow' /\ Passed' /\ Far'
  BY <1>2, EmptyHas, Zero DEF MinBelow, Passed, Far
<1>9. Walking'
  BY <1>3 DEF Walking, DestroyTimer
<1> QED BY <1>5, <1>6, <1>7, <1>8, <1>9 DEF IInv

LEMMA CallbacksKeep ==
  ASSUME IInv,
         \/ \E x \in Types, f \in Funcs : RegisterTimerCallback(x, f)
         \/ UnregisterTimersCallback \/ RefreshTimersCallback \/ RenewNow
  PROVE  IInv'
<1>1. Shapes /\ Owned
  BY DEF IInv
<1>2. CASE \E x \in Types, f \in Funcs : RegisterTimerCallback(x, f)
  <2>1. ClientRuns /\ UNCHANGED <<timers, now, last, jumped, pc, cur, next, idx, stale>>
    BY <1>2 DEF RegisterTimerCallback, clock, walk
  <2>2. tcfs' \in [Types -> Funcs \cup {Null}]
    BY <1>1, <1>2 DEF RegisterTimerCallback, Shapes
  <2>3. Shapes' /\ Owned'
    BY <1>1, <2>1, <2>2 DEF Shapes, Owned, timers
  <2> QED BY <2>1, <2>3, QuietKeeps DEF timers, walk
<1>3. CASE UnregisterTimersCallback
  <2>1. ClientRuns /\ UNCHANGED <<timers, now, last, jumped, pc, cur, next, idx>>
    BY <1>3 DEF UnregisterTimersCallback, clock, walk, ClientRuns
  <2>2. tcfs' \in [Types -> Funcs \cup {Null}] /\ stale' \in BOOLEAN
    BY <1>3 DEF UnregisterTimersCallback
  <2>3. Shapes' /\ Owned'
    BY <1>1, <2>1, <2>2 DEF Shapes, Owned, timers
  <2> QED BY <2>1, <2>3, QuietKeeps DEF timers, walk
<1>4. CASE RefreshTimersCallback
  <2>1. ClientRuns /\ UNCHANGED <<vec, min, sprite, alive, expire, func_indx, held, served, now, last, jumped, pc, cur, next, idx, tcfs>>
    BY <1>4 DEF RefreshTimersCallback, clock, walk, ClientRuns
  <2>2. function' \in [Timers -> Funcs \cup {Null}] /\ stale' \in BOOLEAN
    BY <1>1, <1>4 DEF RefreshTimersCallback, Shapes
  <2>3. Shapes' /\ Owned'
    BY <1>1, <2>1, <2>2 DEF Shapes, Owned
  <2> QED BY <2>1, <2>3, QuietKeeps DEF walk
<1>5. CASE RenewNow
  <2>1. ClientRuns /\ UNCHANGED <<timers, last, jumped, pc, cur, next, idx, tcfs, stale>>
    BY <1>5 DEF RenewNow, types, walk
  <2>2. now' \in 1..MaxTime /\ now <= now'
    <3>1. PICK d \in 1..MaxJump : now + d <= MaxTime /\ now' = now + d
      BY <1>5 DEF RenewNow
    <3>2. MaxJump \in Nat /\ MaxTime \in Nat /\ now \in 1..MaxTime
      BY <1>1, TimerAssumption DEF Shapes, TimerAssumption
    <3> QED BY <3>1, <3>2
  <2>3. last' \in 0..now'
    BY <1>1, <2>1, <2>2, TimerAssumption DEF Shapes, TimerAssumption
  <2>4. Shapes' /\ Owned'
    BY <1>1, <2>1, <2>2, <2>3 DEF Shapes, Owned, timers
  <2> QED BY <2>1, <2>4, QuietKeeps DEF timers, walk
<1> QED BY <1>2, <1>3, <1>4, <1>5

---------------------------------------------------------------------------
(* handle_timer. *)

LEMMA FreeFields ==
  ASSUME Shapes, Owned, NEW S, Free(S)
  PROVE  /\ sprite' \in [Heads -> Seq(Timers)] /\ Owned'
         /\ alive' = alive \ S /\ held' = held \ S /\ served' = served \ S
         /\ expire' \in [Timers -> Nat]
         /\ function' \in [Timers -> Funcs \cup {Null}] /\ func_indx' \in [Timers -> Types \cup {0}]
         /\ \A u \in Timers \ S : expire'[u] = expire[u]
<1>1. /\ alive' = alive \ S /\ held' = held \ S /\ served' = served \ S
      /\ sprite' = [h \in Heads |-> Less(sprite[h], S)]
  BY DEF Free
<1>2. \A h \in Heads : sprite[h] \in Seq(Timers) /\ Less(sprite[h], S) \in Seq(Timers) /\ sprite'[h] = Less(sprite[h], S)
  <2>1. \A h \in Heads : sprite[h] \in Seq(Timers) /\ sprite'[h] = Less(sprite[h], S)
    BY <1>1 DEF Shapes
  <2> QED BY <2>1, LessIs
<1>3. sprite' \in [Heads -> Seq(Timers)]
  BY <1>1, <1>2
<1>4. Owned'
  <2>1. \A h \in Heads, u \in Timers : Contains(sprite'[h], u) <=> Contains(sprite[h], u) /\ u \notin S
    BY <1>2, LessHas
  <2> QED BY <1>1, <2>1 DEF Owned, Shapes
<1>5. /\ expire' \in [Timers -> Nat] /\ \A u \in Timers \ S : expire'[u] = expire[u]
      /\ function' \in [Timers -> Funcs \cup {Null}] /\ func_indx' \in [Timers -> Types \cup {0}]
  BY DEF Free, Shapes
<1> QED BY <1>1, <1>3, <1>4, <1>5

\* A step of the walk adds nothing to a list, and whom it leaves behind is
\* settled.
LEMMA WalkKeeps ==
  ASSUME Shapes, MinBelow, Passed, Far, pc \in {"visit", "callback"},
         pc' \in {"visit", "callback", "lists"}, pc' = "lists" => idx' = 1,
         UNCHANGED <<last, jumped, min>>,
         \A j \in Lists, u \in Timers : Contains(vec'[j], u) =>
           Contains(vec[j], u) /\ expire'[u] = expire[u] /\ (u \in served => u \in served'),
         \A u \in Timers : Contains(vec'[0], u) /\ Left(u)' => Left(u) \/ Settled(u)'
  PROVE  MinBelow' /\ Passed' /\ Far'
<1>1. MinBelow'
  BY Zero DEF MinBelow
<1>2. \A j \in Lists, u \in Timers : Contains(vec'[j], u) /\ Settled(u) => Settled(u)'
  BY DEF Settled
<1>3. Passed'
  BY <1>2, Zero DEF Passed
<1>4. Far'
  <2>1. \A i \in 1..TopList : ~Looked(i) /\ ~Looked(i)'
    BY DEF Looked
  <2> QED BY <1>2, <2>1, Zero DEF Far
<1> QED BY <1>1, <1>3, <1>4

LEMMA HandleKeeps == ASSUME IInv, HandleTimer PROVE IInv'
<1>1. Shapes /\ Apart /\ Owned /\ Walking /\ MinBelow /\ Passed /\ Far
  BY DEF IInv
<1>2. PICK d \in 0..MaxJump :
        /\ now + d <= MaxTime /\ now' = now + d /\ last' = now + d /\ jumped' = (now + d > last + 1)
  BY DEF HandleTimer
<1>3. /\ pc = "idle" /\ served' = {}
      /\ UNCHANGED <<vec, min, sprite, alive, expire, function, func_indx, held, next, tcfs, stale>>
      /\ GoTo(IF vec[0] = << >> THEN Null ELSE vec[0][1])
  BY DEF HandleTimer, types
<1>4. /\ vec[0] \in Seq(Timers) /\ DOMAIN vec[0] = 1..Len(vec[0]) /\ Len(vec[0]) \in Nat
      /\ IsInjective(vec[0]) /\ (vec[0] # << >> => 1 \in 1..Len(vec[0]))
      /\ \A k \in 1..Len(vec[0]) : vec[0][k] \in Timers
  <2>1. vec[0] \in Seq(Timers) /\ IsInjective(vec[0])
    BY <1>1, Zero DEF Shapes, Apart
  <2>2. DOMAIN vec[0] = 1..Len(vec[0]) /\ Len(vec[0]) \in Nat
    BY <2>1, LenProperties
  <2>3. vec[0] # << >> => Len(vec[0]) # 0
    BY <2>1, EmptySeq
  <2> QED BY <2>1, <2>2, <2>3, ElementOfSeq
<1>5. /\ now' \in 1..MaxTime /\ last' \in 0..now' /\ jumped' \in BOOLEAN
      /\ last' \in Nat /\ last \in Nat /\ (~jumped' => last' <= last + 1)
  <2>1. now \in Nat \ {0} /\ last \in Nat /\ d \in Nat /\ MaxTime \in Nat
    BY <1>1, TimerAssumption DEF Shapes, TimerAssumption
  <2>2. now' \in 1..MaxTime /\ last' \in 0..now' /\ last' \in Nat
    BY <1>2, <2>1
  <2>3. jumped' \in BOOLEAN
    <3>1. (now + d > last + 1) \in BOOLEAN
      BY <2>1
    <3> QED BY <1>2, <3>1, Zenon
  <2>4. ~jumped' => ~(now + d > last + 1)
    BY <1>2, Zenon
  <2>5. ~(now + d > last + 1) => last' <= last + 1
    BY <1>2, <2>1
  <2> QED BY <2>1, <2>2, <2>3, <2>4, <2>5
<1>6. \/ vec[0] = << >> /\ pc' = "lists" /\ idx' = 1 /\ cur' = Null
      \/ vec[0] # << >> /\ pc' = "visit" /\ idx' = 0 /\ cur' = vec[0][1] /\ cur' \in Timers
  BY <1>3, <1>4, TimerAssumption DEF GoTo, TimerAssumption
<1>7. Shapes'
  <2>1. pc' \in At /\ cur' \in Timers \cup {Null} /\ idx' \in Lists
    BY <1>6, Zero, TimerAssumption DEF At, Lists, TimerAssumption
  <2> QED BY <1>1, <1>3, <1>5, <2>1 DEF Shapes
<1>8. Apart' /\ Owned' /\ MinBelow'
  BY <1>1, <1>3 DEF Apart, Owned, MinBelow
<1>9. Walking'
  BY <1>3, <1>4, <1>6, TimerAssumption DEF Walking, Contains, TimerAssumption
<1>10. Passed'
  <2>1. CASE vec[0] = << >>
    BY <1>3, <2>1, EmptyHas DEF Passed
  <2>2. CASE vec[0] # << >>
    <3>1. \A u : ~Before(vec[0], u, vec[0][1])
      <4> SUFFICES ASSUME NEW m \in 1..Len(vec[0]), NEW n \in 1..Len(vec[0]), m < n, vec[0][n] = vec[0][1]
                   PROVE  FALSE
        BY DEF Before
      <4>1. n = 1
        BY <1>4, <2>2 DEF IsInjective
      <4> QED BY <1>4, <4>1
    <3>2. \A u \in Timers : ~Left(u)'
      BY <1>3, <1>6, <2>2, <3>1 DEF Left
    <3> QED BY <3>2 DEF Passed
  <2> QED BY <2>1, <2>2
<1>11. Far'
  <2>1. \A i \in 1..TopList : Looked(i) /\ ~Looked(i)'
    BY <1>3, <1>6 DEF Looked
  <2>2. \A i \in 1..TopList, u \in Timers : Contains(vec[i], u) => expire[u] >= last + 2
    BY <1>1, <2>1 DEF Far
  <2>3. \A i \in 1..TopList, u \in Timers : Contains(vec[i], u) => Settled(u)'
    <3> SUFFICES ASSUME NEW i \in 1..TopList, NEW u \in Timers, Contains(vec[i], u), ~jumped'
                 PROVE  expire'[u] > last'
      BY DEF Settled
    <3>1. expire[u] \in Nat /\ expire' = expire
      BY <1>1, <1>3 DEF Shapes
    <3>2. expire[u] >= last + 2
      BY <2>2
    <3> QED BY <1>5, <3>1, <3>2
  <2> QED BY <1>3, <2>1, <2>3 DEF Far
<1> QED BY <1>7, <1>8, <1>9, <1>10, <1>11 DEF IInv

\* Where the walk is after GoTo.
LEMMA GoIs ==
  ASSUME NEW t \in Timers \cup {Null}, GoTo(t)
  PROVE  /\ cur' = t /\ pc' \in {"visit", "lists"} /\ pc' \in At /\ idx' \in Lists /\ idx' \in Nat
         /\ pc' = "lists" <=> t = Null
         /\ pc' = "lists" => idx' = 1 /\ idx' \in 1..TopList
  BY Zero, TimerAssumption DEF GoTo, At, Lists, TimerAssumption

\* The walk leaves the timer it stands at.
LEMMA VisitKeeps ==
  ASSUME IInv, pc = "visit", GoTo(Succ(cur)), UNCHANGED <<last, jumped, min>>,
         \A j \in Lists, u \in Timers : Contains(vec'[j], u) =>
           Contains(vec[j], u) /\ expire'[u] = expire[u] /\ (u \in served => u \in served'),
         \A u \in Timers \ {cur} : Contains(vec[0], u) => Contains(vec'[0], u),
         \A a, b \in Timers : Before(vec'[0], a, b) => Before(vec[0], a, b),
         \A u \in Timers : u = cur /\ Contains(vec'[0], u) => Settled(u)'
  PROVE  /\ cur' \in Timers \cup {Null} /\ pc' \in At /\ idx' \in Lists
         /\ Walking' /\ MinBelow' /\ Passed' /\ Far'
<1>1. Shapes /\ Apart /\ Walking /\ MinBelow /\ Passed /\ Far /\ Contains(vec[0], cur)
  BY DEF IInv, Walking
<1>2. cur \in Timers /\ Null \notin Timers
  <2>1. vec[0] \in Seq(Timers)
    BY <1>1, Zero DEF Shapes
  <2> QED BY <1>1, <2>1, ElementOfSeq, TimerAssumption DEF Contains, TimerAssumption
<1>3. \/ /\ Succ(cur) = Null
         /\ \A u \in Timers : Contains(vec[0], u) => u = cur \/ Before(vec[0], u, cur)
      \/ /\ Succ(cur) \in Timers /\ Succ(cur) # cur /\ Contains(vec[0], Succ(cur))
         /\ \A u \in Timers : Before(vec[0], u, Succ(cur)) => u = cur \/ Before(vec[0], u, cur)
  BY <1>1, <1>2, SuccIs
<1>4. /\ cur' = Succ(cur) /\ pc' \in {"visit", "lists"} /\ pc' \in At /\ idx' \in Lists
      /\ pc' = "lists" <=> Succ(cur) = Null
      /\ pc' = "lists" => idx' = 1 /\ idx' \in 1..TopList
  <2>1. Succ(cur) \in Timers \cup {Null}
    BY <1>3
  <2> QED BY <2>1, GoIs
<1>5. Walking'
  BY <1>2, <1>3, <1>4 DEF Walking
<1>6. \A u \in Timers : Contains(vec'[0], u) /\ Left(u)' => Left(u) \/ Settled(u)'
  <2> SUFFICES ASSUME NEW u \in Timers, Contains(vec'[0], u), Left(u)' PROVE Left(u) \/ Settled(u)'
    OBVIOUS
  <2>1. u = cur \/ Before(vec[0], u, cur)
    <3>1. CASE Succ(cur) = Null
      BY <1>2, <1>3, <3>1, Zero
    <3>2. CASE Succ(cur) \in Timers
      <4>1. Before(vec'[0], u, Succ(cur))
        BY <1>2, <1>4, <3>2 DEF Left
      <4>2. Before(vec[0], u, Succ(cur))
        BY <3>2, <4>1
      <4> QED BY <1>2, <1>3, <3>2, <4>2
    <3> QED BY <1>3, <3>1, <3>2
  <2> QED BY <2>1 DEF Left
<1>7. MinBelow' /\ Passed' /\ Far'
  BY <1>1, <1>4, <1>6, WalkKeeps
<1> QED BY <1>2, <1>3, <1>4, <1>5, <1>7

LEMMA EarlyKeeps == ASSUME IInv, VisitEarly PROVE IInv'
<1>1. Shapes /\ Apart /\ Owned /\ cur \in Timers
  BY DEF IInv, VisitEarly, AtTimer, Shapes
<1>2. /\ pc = "visit" /\ GoTo(Succ(cur)) /\ ~IsDue(cur)
      /\ UNCHANGED <<vec, min, sprite, alive, expire, function, func_indx, held, served,
                     now, last, jumped, next, tcfs, stale>>
  BY DEF VisitEarly, AtTimer, timers, clock, types
<1>3. \A u \in Timers : u = cur => Settled(u)'
  BY <1>1, <1>2 DEF Settled, IsDue, Shapes
<1>4. /\ cur' \in Timers \cup {Null} /\ pc' \in At /\ idx' \in Lists
      /\ Walking' /\ MinBelow' /\ Passed' /\ Far'
  BY <1>2, <1>3, VisitKeeps
<1>5. Shapes' /\ Apart' /\ Owned'
  BY <1>1, <1>2, <1>4 DEF Shapes, Apart, Owned
<1> QED BY <1>4, <1>5 DEF IInv

\* A timer is freed and out of its list.
LEMMA FreeKeeps ==
  ASSUME Shapes, Apart, Owned, NEW t \in alive, Free({t}),
         vec' = [i \in Lists |-> Less(vec[i], {t})],
         UNCHANGED <<min, clock, types>>,
         pc' \in At, {cur', next'} \subseteq Timers \cup {Null}, idx' \in Lists
  PROVE  /\ Shapes' /\ Apart' /\ Owned'
         /\ \A j \in Lists, u \in Timers : Contains(vec'[j], u) =>
              Contains(vec[j], u) /\ expire'[u] = expire[u] /\ (u \in served => u \in served')
         /\ \A u \in Timers : Contains(vec'[0], u) <=> Contains(vec[0], u) /\ u # t
         /\ \A a, b \in Timers : Before(vec'[0], a, b) => Before(vec[0], a, b)
<1>1. /\ sprite' \in [Heads -> Seq(Timers)] /\ Owned'
      /\ alive' = alive \ {t} /\ held' = held \ {t} /\ served' = served \ {t}
      /\ expire' \in [Timers -> Nat]
      /\ function' \in [Timers -> Funcs \cup {Null}] /\ func_indx' \in [Timers -> Types \cup {0}]
      /\ \A u \in Timers \ {t} : expire'[u] = expire[u]
  BY FreeFields
<1>2. /\ vec' \in [Lists -> Seq(Timers)]
      /\ Apart'
      /\ \A j \in Lists, u \in Timers : Contains(vec'[j], u) <=> Contains(vec[j], u) /\ u # t
      /\ \A a, b : Before(vec'[0], a, b) => Before(vec[0], a, b)
  BY <1>1, FreedLists
<1>3. UNCHANGED <<min, now, last, jumped, tcfs, stale>>
  BY DEF clock, types
<1>4. Shapes'
  BY <1>1, <1>2, <1>3 DEF Shapes
<1> QED BY <1>1, <1>2, <1>4, Zero

LEMMA RemovedKeeps == ASSUME IInv, VisitRemoved PROVE IInv'
<1>1. Shapes /\ Apart /\ Owned /\ Walking /\ cur \in alive /\ cur \in Timers
  BY DEF IInv, VisitRemoved, AtTimer, Shapes
<1>2. /\ pc = "visit" /\ GoTo(Succ(cur)) /\ Free({cur})
      /\ vec' = [i \in Lists |-> Less(vec[i], {cur})]
      /\ UNCHANGED <<min, clock, types>> /\ next' = next /\ last' = last /\ jumped' = jumped
  BY DEF VisitRemoved, AtTimer, clock
<1>3. Succ(cur) \in Timers \cup {Null}
  BY <1>1, <1>2, SuccIs DEF Walking
<1>4. pc' \in At /\ {cur', next'} \subseteq Timers \cup {Null} /\ idx' \in Lists
  BY <1>1, <1>2, <1>3, GoIs DEF Shapes
<1>5. /\ Shapes' /\ Apart' /\ Owned'
      /\ \A j \in Lists, u \in Timers : Contains(vec'[j], u) =>
           Contains(vec[j], u) /\ expire'[u] = expire[u] /\ (u \in served => u \in served')
      /\ \A u \in Timers : Contains(vec'[0], u) <=> Contains(vec[0], u) /\ u # cur
      /\ \A a, b \in Timers : Before(vec'[0], a, b) => Before(vec[0], a, b)
  BY <1>1, <1>2, <1>4, FreeKeeps
<1>6. Walking' /\ MinBelow' /\ Passed' /\ Far'
  BY <1>1, <1>2, <1>5, VisitKeeps
<1> QED BY <1>5, <1>6 DEF IInv

LEMMA CallKeeps == ASSUME IInv, CallTimer PROVE IInv'
<1>1. Shapes /\ Apart /\ Owned /\ Walking /\ MinBelow /\ Passed /\ Far /\ cur \in Timers /\ cur \in alive
  BY DEF IInv, CallTimer, AtTimer, Shapes
<1>2. /\ pc = "visit" /\ pc' = "callback" /\ next' = Succ(cur) /\ served' = served \cup {cur}
      /\ UNCHANGED <<vec, min, sprite, alive, expire, function, func_indx, held,
                     cur, idx, now, last, jumped, tcfs, stale>>
  BY DEF CallTimer, AtTimer, clock, types
<1>3. Contains(vec[0], cur) /\ cur # Null /\ Null \notin Timers
  BY <1>1, <1>2, TimerAssumption DEF Walking, TimerAssumption
<1>4. \/ /\ Succ(cur) = Null
         /\ \A u \in Timers : Contains(vec[0], u) => u = cur \/ Before(vec[0], u, cur)
      \/ /\ Succ(cur) \in Timers /\ Succ(cur) # cur /\ Contains(vec[0], Succ(cur))
         /\ \A u \in Timers : Before(vec[0], u, Succ(cur)) => u = cur \/ Before(vec[0], u, cur)
  BY <1>1, <1>3, SuccIs
<1>5. Shapes' /\ Apart' /\ Owned'
  BY <1>1, <1>2, <1>4 DEF Shapes, Apart, Owned, At
<1>6. Walking'
  BY <1>2, <1>3, <1>4 DEF Walking
<1>7. \A u \in Timers : Contains(vec'[0], u) /\ Left(u)' => Left(u) \/ Settled(u)'
  <2> SUFFICES ASSUME NEW u \in Timers, Contains(vec[0], u), Left(u)' PROVE Left(u) \/ Settled(u)'
    BY <1>2
  <2>1. Succ(cur) = Null \/ Before(vec[0], u, Succ(cur))
    BY <1>2 DEF Left
  <2>2. u = cur \/ Before(vec[0], u, cur)
    BY <1>3, <1>4, <2>1
  <2> QED BY <1>2, <2>2 DEF Left, Settled
<1>8. MinBelow' /\ Passed' /\ Far'
  <2>1. pc' \in {"visit", "callback", "lists"} /\ (pc' = "lists" => idx' = 1) /\ pc \in {"visit", "callback"}
    BY <1>2
  <2>2. UNCHANGED <<last, jumped, min>> /\ served \subseteq served'
    BY <1>2
  <2>3. \A j \in Lists, u \in Timers : Contains(vec'[j], u) =>
           Contains(vec[j], u) /\ expire'[u] = expire[u] /\ (u \in served => u \in served')
    BY <1>2
  <2> QED BY <1>1, <1>7, <2>1, <2>2, <2>3, WalkKeeps
<1> QED BY <1>5, <1>6, <1>8 DEF IInv

LEMMA ReturnKeeps == ASSUME IInv, CallbackReturns PROVE IInv'
<1>1. Shapes /\ Apart /\ Owned /\ Walking /\ MinBelow /\ Passed /\ Far
  BY DEF IInv
<1>2. /\ pc = "callback" /\ GoTo(next) /\ next' = Null /\ UNCHANGED <<last, jumped, clock, types>>
      /\ \/ Free({cur}) /\ vec' = [i \in Lists |-> Less(vec[i], {cur})] /\ UNCHANGED min
         \/ UNCHANGED timers
  BY DEF CallbackReturns, clock
<1>3. /\ cur \in Timers /\ next \in Timers \cup {Null} /\ Null \notin Timers /\ cur # next
      /\ Contains(vec[0], cur) /\ (next # Null => Contains(vec[0], next)) /\ cur \in alive
  BY <1>1, <1>2, Standing, Zero, TimerAssumption DEF Walking, Apart, TimerAssumption
<1>4. /\ cur' = next /\ pc' \in {"visit", "lists"} /\ pc' \in At /\ idx' \in Lists
      /\ pc' = "lists" <=> next = Null
      /\ pc' = "lists" => idx' = 1 /\ idx' \in 1..TopList
  BY <1>2, <1>3, GoIs
<1>5. /\ Shapes' /\ Apart' /\ Owned' /\ min' = min
      /\ \A j \in Lists, u \in Timers : Contains(vec'[j], u) =>
           Contains(vec[j], u) /\ expire'[u] = expire[u] /\ (u \in served => u \in served')
      /\ next # Null => Contains(vec'[0], next)
      /\ \A a, b \in Timers : Before(vec'[0], a, b) => Before(vec[0], a, b)
  <2>1. CASE Free({cur}) /\ vec' = [i \in Lists |-> Less(vec[i], {cur})] /\ UNCHANGED min
    <3>1. UNCHANGED <<min, clock, types>> /\ {cur', next'} \subseteq Timers \cup {Null}
      BY <1>2, <1>3, <1>4, <2>1
    <3>2. /\ Shapes' /\ Apart' /\ Owned'
          /\ \A j \in Lists, u \in Timers : Contains(vec'[j], u) =>
               Contains(vec[j], u) /\ expire'[u] = expire[u] /\ (u \in served => u \in served')
          /\ \A u \in Timers : Contains(vec'[0], u) <=> Contains(vec[0], u) /\ u # cur
          /\ \A a, b \in Timers : Before(vec'[0], a, b) => Before(vec[0], a, b)
      BY <1>1, <1>3, <1>4, <2>1, <3>1, FreeKeeps
    <3> QED BY <1>3, <2>1, <3>2
  <2>2. CASE UNCHANGED timers
    <3>1. UNCHANGED <<vec, min, sprite, alive, expire, function, func_indx, held, served, now, last, jumped, tcfs, stale>>
      BY <1>2, <2>2 DEF timers, clock, types
    <3> QED BY <1>1, <1>2, <1>3, <1>4, <3>1 DEF Shapes, Apart, Owned
  <2> QED BY <1>2, <2>1, <2>2
<1>6. Walking'
  BY <1>3, <1>4, <1>5 DEF Walking
<1>7. \A u \in Timers : Contains(vec'[0], u) /\ Left(u)' => Left(u) \/ Settled(u)'
  <2> SUFFICES ASSUME NEW u \in Timers, Left(u)' PROVE Left(u)
    OBVIOUS
  <2>1. next = Null \/ Before(vec'[0], u, next)
    BY <1>4 DEF Left
  <2> QED BY <1>2, <1>3, <1>5, <2>1 DEF Left
<1>8. MinBelow' /\ Passed' /\ Far'
  <2>1. pc' \in {"visit", "callback", "lists"} /\ (pc' = "lists" => idx' = 1) /\ pc \in {"visit", "callback"}
    BY <1>2, <1>4
  <2>2. UNCHANGED <<last, jumped, min>>
    BY <1>2, <1>5
  <2> QED BY <1>1, <1>5, <1>7, <2>1, <2>2, WalkKeeps
<1> QED BY <1>5, <1>6, <1>8 DEF IInv

\* What scan_timer_list takes from list i for list j # 0 is far off, and the
\* lowest time of it is in times.
LEMMA FarIs ==
  ASSUME Shapes, Apart, NEW i \in Lists, NEW j \in Lists \ {0}, NEW u \in Timers, Contains(Part(i, j), u)
  PROVE  expire[u] >= now + 2 /\ expire[u] \in Nat \ {0}
<1>1. ListFor(expire[u] - now, i) = j /\ expire[u] \in Nat /\ now \in Nat
  BY PartIs DEF Shapes
<1>2. PICK d \in Int : d = expire[u] - now
  BY <1>1
<1>3. d >= 2
  BY <1>1, <1>2, ListForIs
<1> QED BY <1>1, <1>2, <1>3

\* The least of the times in list j once timers have come to it.
Times(i, j) == {expire[t] : t \in ToSet(Part(i, j))}

LEMMA TimesAre ==
  ASSUME Shapes, Apart, NEW i \in Lists, NEW j \in Lists
  PROVE  /\ Times(i, j) \subseteq Nat
         /\ j # 0 => 0 \notin Times(i, j)
         /\ \A u \in Timers : Contains(Part(i, j), u) => expire[u] \in Times(i, j)
<1>1. \A u \in ToSet(Part(i, j)) : u \in Timers /\ Contains(Part(i, j), u)
  <2>1. Part(i, j) \in Seq(Timers)
    BY PartIs
  <2> QED BY <2>1, LenProperties, ElementOfSeq DEF ToSet, Contains
<1>2. \A u : Contains(Part(i, j), u) => u \in ToSet(Part(i, j))
  <2>1. Part(i, j) \in Seq(Timers)
    BY PartIs
  <2> QED BY <2>1, LenProperties DEF ToSet, Contains
<1>3. Times(i, j) \subseteq Nat
  BY <1>1 DEF Times, Shapes
<1>4. j # 0 => 0 \notin Times(i, j)
  <2> SUFFICES ASSUME j # 0, NEW u \in ToSet(Part(i, j)) PROVE expire[u] # 0
    BY DEF Times
  <2> QED BY <1>1, FarIs
<1> QED BY <1>2, <1>3, <1>4 DEF Times

LEMMA ScannedMin ==
  ASSUME Shapes, Apart, MinBelow, idx \in 1..TopList, ScanTimerList
  PROVE  /\ min' \in [Lists -> Nat]
         /\ \A j \in 1..TopList, u \in Timers :
              Contains(Part(idx, j), u) /\ j <= idx => min'[j] # 0 /\ min'[j] <= expire[u]
         /\ \A j \in 1..TopList, u \in Timers :
              Contains(vec[j], u) /\ j # idx => min'[j] # 0 /\ min'[j] <= expire[u]
<1> DEFINE i == idx
<1>1. i \in Lists /\ i \in Nat /\ i # 0 /\ Lists \subseteq Nat
  BY TimerAssumption DEF TimerAssumption, Lists
<1>2. min' = [j \in Lists |->
         IF j = i THEN Lowest(Times(i, i))
         ELSE IF j < i THEN Lowest(Times(i, j) \cup ({min[j]} \ {0}))
         ELSE min[j]]
  BY DEF ScanTimerList, Part, Times
<1> HIDE DEF i
<1>3. \A j \in Lists : min[j] \in Nat
  BY DEF Shapes
<1>4. ASSUME NEW j \in Lists
      PROVE  /\ min'[j] \in Nat
             /\ j = i => min'[j] = Lowest(Times(i, j))
             /\ j < i => min'[j] = Lowest(Times(i, j) \cup ({min[j]} \ {0}))
             /\ j > i => min'[j] = min[j]
  <2>1. Times(i, j) \subseteq Nat /\ ({min[j]} \ {0}) \subseteq Nat
    BY <1>1, <1>3, TimesAre
  <2>2. Lowest(Times(i, j)) \in Nat /\ Lowest(Times(i, j) \cup ({min[j]} \ {0})) \in Nat
    BY <2>1, LowestIs
  <2> QED BY <1>1, <1>2, <1>3, <2>2
<1>5. min' \in [Lists -> Nat]
  BY <1>2, <1>4
<1>6. ASSUME NEW j \in 1..TopList, NEW u \in Timers, Contains(Part(i, j), u), j <= i
      PROVE  min'[j] # 0 /\ min'[j] <= expire[u]
  <2>1. j \in Lists /\ j # 0 /\ j \in Nat
    BY Zero
  <2>2. Times(i, j) \subseteq Nat /\ 0 \notin Times(i, j) /\ expire[u] \in Times(i, j)
    BY <1>1, <1>6, <2>1, TimesAre
  <2>3. PICK S \in SUBSET Nat : min'[j] = Lowest(S) /\ 0 \notin S /\ expire[u] \in S
    <3>1. CASE j = i
      BY <1>4, <2>1, <2>2, <3>1
    <3>2. CASE j < i
      <4>1. Times(i, j) \cup ({min[j]} \ {0}) \in SUBSET Nat
        BY <1>3, <2>1, <2>2
      <4> QED BY <1>4, <2>1, <2>2, <3>2, <4>1
    <3> QED BY <1>1, <1>6, <2>1, <3>1, <3>2
  <2>4. Lowest(S) \in S /\ \A n \in S : Lowest(S) <= n
    BY <2>3, LowestIs
  <2> QED BY <2>3, <2>4
<1>7. ASSUME NEW j \in 1..TopList, NEW u \in Timers, Contains(vec[j], u), j # i
      PROVE  min'[j] # 0 /\ min'[j] <= expire[u]
  <2>1. j \in Lists /\ j # 0 /\ j \in Nat
    BY Zero
  <2>2. min[j] # 0 /\ min[j] <= expire[u] /\ min[j] \in Nat /\ expire[u] \in Nat
    BY <1>3, <1>7, <2>1 DEF MinBelow, Shapes
  <2>3. CASE j > i
    BY <1>4, <2>1, <2>2, <2>3
  <2>4. CASE j < i
    <3>1. Times(i, j) \subseteq Nat /\ 0 \notin Times(i, j)
      BY <1>1, <2>1, TimesAre
    <3>2. PICK S \in SUBSET Nat : min'[j] = Lowest(S) /\ 0 \notin S /\ min[j] \in S
      <4>1. Times(i, j) \cup ({min[j]} \ {0}) \in SUBSET Nat /\ min[j] \in Times(i, j) \cup ({min[j]} \ {0})
        BY <2>2, <3>1
      <4> QED BY <1>4, <2>1, <2>4, <3>1, <4>1
    <3>3. Lowest(S) \in S /\ \A n \in S : Lowest(S) <= n
      BY <3>2, LowestIs
    <3>4. min'[j] # 0 /\ min'[j] <= min[j] /\ min'[j] \in Nat
      BY <3>2, <3>3
    <3> QED BY <2>2, <3>4
  <2> QED BY <1>1, <1>7, <2>1, <2>3, <2>4
<1> QED BY <1>5, <1>6, <1>7 DEF i

LEMMA ScanKeeps ==
  ASSUME IInv, ScanTimerList, UNCHANGED <<cur, next, clock, types>>,
         IF idx = TopList THEN pc' = "idle" /\ idx' = 0 ELSE pc' = "lists" /\ idx' = idx + 1
  PROVE  IInv'
<1>1. Shapes /\ Apart /\ Owned /\ Walking /\ MinBelow /\ Passed /\ Far
  BY DEF IInv
<1>2. pc = "lists" /\ idx \in 1..TopList /\ idx \in Lists /\ idx \in Nat /\ TopList \in Nat
  BY <1>1, Zero, TimerAssumption DEF ScanTimerList, Walking, TimerAssumption, Lists
<1>3. UNCHANGED <<cur, next, now, last, jumped, tcfs, stale>>
  BY DEF clock, types
<1>4. /\ pc' \in {"idle", "lists"} /\ pc' \in At /\ idx' \in Lists
      /\ pc' = "lists" => idx' \in 1..TopList
      /\ \A i \in 1..TopList : Looked(i)' <=> i <= idx
  BY <1>2 DEF At, Lists, Looked
<1>5. PICK S : Free(S) /\ \A u \in S : function[u] = Null
  BY DEF ScanTimerList
<1>6. /\ sprite' \in [Heads -> Seq(Timers)] /\ Owned'
      /\ alive' = alive \ S /\ held' = held \ S /\ served' = served \ S
      /\ expire' \in [Timers -> Nat]
      /\ function' \in [Timers -> Funcs \cup {Null}] /\ func_indx' \in [Timers -> Types \cup {0}]
      /\ \A u \in Timers \ S : expire'[u] = expire[u]
  BY <1>1, <1>5, FreeFields
<1>7. /\ vec' \in [Lists -> Seq(Timers)]
      /\ Apart'
      /\ \A j \in Lists, u \in Timers :
           Contains(vec'[j], u) <=>
             IF Contains(vec[idx], u) THEN function[u] # Null /\ ListFor(expire[u] - now, idx) = j
             ELSE Contains(vec[j], u)
  BY <1>1, <1>2, ScannedLists
<1>8. /\ min' \in [Lists -> Nat]
      /\ \A j \in 1..TopList, u \in Timers :
           Contains(Part(idx, j), u) /\ j <= idx => min'[j] # 0 /\ min'[j] <= expire[u]
      /\ \A j \in 1..TopList, u \in Timers :
           Contains(vec[j], u) /\ j # idx => min'[j] # 0 /\ min'[j] <= expire[u]
  BY <1>1, <1>2, ScannedMin
<1>9. \A u \in Timers : expire[u] - now \in Int /\ ListFor(expire[u] - now, idx) \in 0..idx
  <2>1. \A u \in Timers : expire[u] - now \in Int
    BY <1>1 DEF Shapes
  <2> QED BY <1>2, <2>1, ListForIs
\* A timer is in the part of list idx it goes to, or in its list as before.
<1>10. ASSUME NEW j \in Lists, NEW u \in Timers, Contains(vec'[j], u)
       PROVE  /\ expire'[u] = expire[u] /\ (u \in served => u \in served')
              /\ \/ Contains(Part(idx, j), u) /\ Contains(vec[idx], u) /\ j <= idx
                 \/ Contains(vec[j], u) /\ j # idx
  <2>1. u \notin S
    <3>1. CASE Contains(vec[idx], u)
      BY <1>5, <1>7, <1>10, <3>1
    <3>2. CASE ~Contains(vec[idx], u)
      <4>1. u \in alive'
        BY <1>7, <1>10 DEF Apart
      <4> QED BY <1>6, <4>1
    <3> QED BY <3>1, <3>2
  <2>2. CASE Contains(vec[idx], u)
    <3>1. function[u] # Null /\ ListFor(expire[u] - now, idx) = j
      BY <1>7, <1>10, <2>2
    <3>2. Contains(Part(idx, j), u)
      BY <1>1, <1>2, <2>2, <3>1, PartIs
    <3>3. j <= idx
      BY <1>2, <1>9, <3>1
    <3> QED BY <1>6, <2>1, <2>2, <3>2, <3>3
  <2>3. CASE ~Contains(vec[idx], u)
    BY <1>6, <1>7, <1>10, <2>1, <2>3
  <2> QED BY <2>2, <2>3
<1>11. Shapes'
  <2>1. held' \subseteq alive' /\ served' \subseteq alive' /\ alive' \subseteq Timers
    BY <1>1, <1>6 DEF Shapes
  <2>2. vec' \in [Lists -> Seq(Timers)] /\ min' \in [Lists -> Nat]
    BY <1>7, <1>8
  <2>3. /\ now \in 1..MaxTime /\ last \in 0..now /\ jumped \in BOOLEAN /\ stale \in BOOLEAN
        /\ tcfs \in [Types -> Funcs \cup {Null}] /\ {cur, next} \subseteq Timers \cup {Null}
        /\ pc' \in At /\ idx' \in Lists
    BY <1>1, <1>4 DEF Shapes
  <2>4. /\ sprite' \in [Heads -> Seq(Timers)] /\ expire' \in [Timers -> Nat]
        /\ function' \in [Timers -> Funcs \cup {Null}] /\ func_indx' \in [Timers -> Types \cup {0}]
    BY <1>6
  <2> QED BY <1>3, <2>1, <2>2, <2>3, <2>4 DEF Shapes
<1>12. Walking'
  BY <1>4 DEF Walking
<1>13. MinBelow'
  <2> SUFFICES ASSUME NEW j \in 1..TopList, NEW u \in Timers, Contains(vec'[j], u)
               PROVE  min'[j] # 0 /\ min'[j] <= expire'[u]
    BY DEF MinBelow
  <2>1. j \in Lists
    BY Zero
  <2> QED BY <1>8, <1>10, <2>1
<1>14. \A j \in Lists, u \in Timers : Contains(vec[j], u) /\ (j = 0 \/ j >= idx) => Settled(u)
  <2> SUFFICES ASSUME NEW j \in Lists, NEW u \in Timers, Contains(vec[j], u), j = 0 \/ j >= idx
               PROVE  Settled(u)
    OBVIOUS
  <2>1. CASE j = 0
    BY <1>1, <1>2, <2>1 DEF Passed, Left
  <2>2. CASE j >= idx
    <3>1. j \in 1..TopList
      BY <1>2, <2>2 DEF Lists
    <3>2. ~Looked(j)
      BY <1>2, <2>2, <3>1 DEF Looked
    <3> QED BY <1>1, <3>1, <3>2 DEF Far
  <2> QED BY <2>1, <2>2
<1>15. Passed'
  <2> SUFFICES ASSUME NEW u \in Timers, Contains(vec'[0], u) PROVE Settled(u)'
    BY DEF Passed
  <2>1. Contains(vec[idx], u) \/ Contains(vec[0], u)
    BY <1>10, Zero
  <2>2. Settled(u)
    BY <1>2, <1>14, <2>1, Zero
  <2> QED BY <1>3, <1>10, <2>2, Zero DEF Settled
<1>16. Far'
  <2> SUFFICES ASSUME NEW j \in 1..TopList, NEW u \in Timers, Contains(vec'[j], u)
               PROVE  IF j <= idx THEN expire'[u] >= last + 2 ELSE Settled(u)'
    BY <1>3, <1>4 DEF Far
  <2>1. j \in Lists /\ j # 0 /\ j \in Nat
    BY Zero
  <2>2. expire'[u] = expire[u] /\ (u \in served => u \in served')
    BY <1>10, <2>1
  <2>3. CASE Contains(Part(idx, j), u) /\ j <= idx
    <3>1. expire[u] >= now + 2 /\ expire[u] \in Nat
      BY <1>1, <1>2, <2>1, <2>3, FarIs
    <3>2. now \in Nat /\ last \in Nat /\ last <= now
      BY <1>1, TimerAssumption DEF Shapes, TimerAssumption
    <3> QED BY <2>2, <2>3, <3>1, <3>2
  <2>4. CASE Contains(vec[j], u) /\ j # idx
    <3>1. CASE j < idx
      <4>1. Looked(j)
        BY <1>2, <3>1 DEF Looked
      <4> QED BY <1>1, <2>2, <2>4, <3>1, <4>1, <2>1, <1>2 DEF Far
    <3>2. CASE j > idx
      <4>1. Settled(u)
        BY <1>2, <1>14, <2>1, <2>4, <3>2
      <4> QED BY <1>2, <1>3, <2>1, <2>2, <3>2, <4>1 DEF Settled
    <3> QED BY <1>2, <2>1, <2>4, <3>1, <3>2
  <2> QED BY <1>10, <2>1, <2>3, <2>4
<1> QED BY <1>6, <1>7, <1>11, <1>12, <1>13, <1>15, <1>16 DEF IInv

LEMMA SkipKeeps ==
  ASSUME IInv, SkipTimerList, UNCHANGED <<cur, next, clock, types>>,
         IF idx = TopList THEN pc' = "idle" /\ idx' = 0 ELSE pc' = "lists" /\ idx' = idx + 1
  PROVE  IInv'
<1>1. Shapes /\ Apart /\ Owned /\ Walking /\ MinBelow /\ Passed /\ Far
  BY DEF IInv
<1>2. /\ pc = "lists" /\ idx \in 1..TopList /\ idx \in Lists /\ idx \in Nat /\ TopList \in Nat
      /\ min[idx] - now >= 2
  BY <1>1, Zero, TimerAssumption DEF SkipTimerList, Walking, TimerAssumption, Lists
<1>3. UNCHANGED <<vec, min, sprite, alive, expire, function, func_indx, held, served,
                  cur, next, now, last, jumped, tcfs, stale>>
  BY DEF SkipTimerList, timers, clock, types
<1>4. /\ pc' \in {"idle", "lists"} /\ pc' \in At /\ idx' \in Lists
      /\ pc' = "lists" => idx' \in 1..TopList
      /\ \A i \in 1..TopList : Looked(i)' <=> i <= idx
  BY <1>2 DEF At, Lists, Looked
<1>5. Shapes' /\ Apart' /\ Owned' /\ MinBelow'
  BY <1>1, <1>3, <1>4 DEF Shapes, Apart, Owned, MinBelow
<1>6. Walking'
  BY <1>4 DEF Walking
<1>7. Passed'
  <2>1. \A u \in Timers : Left(u)
    BY <1>2 DEF Left
  <2>2. \A u \in Timers : Settled(u) => Settled(u)'
    BY <1>3 DEF Settled
  <2> QED BY <1>1, <1>3, <2>1, <2>2 DEF Passed
<1>8. Far'
  <2> SUFFICES ASSUME NEW j \in 1..TopList, NEW u \in Timers, Contains(vec[j], u)
               PROVE  IF j <= idx THEN expire[u] >= last + 2 ELSE Settled(u)'
    BY <1>3, <1>4 DEF Far
  <2>1. CASE j = idx
    <3>1. min[idx] <= expire[u]
      BY <1>1, <2>1 DEF MinBelow
    <3>2. now \in Nat /\ last \in Nat /\ last <= now /\ min[idx] \in Nat /\ expire[u] \in Nat
      BY <1>1, <1>2, TimerAssumption DEF Shapes, TimerAssumption
    <3> QED BY <1>2, <2>1, <3>1, <3>2
  <2>2. CASE j < idx
    <3>1. Looked(j)
      BY <1>2, <2>2 DEF Looked
    <3> QED BY <1>1, <1>2, <2>2, <3>1 DEF Far
  <2>3. CASE j > idx
    <3>1. ~Looked(j)
      BY <1>2, <2>3 DEF Looked
    <3>2. Settled(u)
      BY <1>1, <3>1 DEF Far
    <3> QED BY <1>2, <1>3, <2>3, <3>2 DEF Settled
  <2> QED BY <1>2, <2>1, <2>2, <2>3
<1> QED BY <1>5, <1>6, <1>7, <1>8 DEF IInv

---------------------------------------------------------------------------
(* The theorems about the lists. *)

LEMMA BeginsSound == Init => IInv
<1> SUFFICES ASSUME Init PROVE IInv
  OBVIOUS
<1>1. \A i \in Lists : vec[i] = << >>
  BY DEF Init
<1>2. << >> \in Seq(Timers)
  OBVIOUS
<1>3. Shapes
  <2>1. 1 \in 1..MaxTime /\ 0 \in 0..1
    BY TimerAssumption DEF TimerAssumption
  <2>2. vec \in [Lists -> Seq(Timers)] /\ sprite \in [Heads -> Seq(Timers)] /\ min \in [Lists -> Nat]
    BY <1>2 DEF Init
  <2> QED BY <2>1, <2>2, Zero DEF Init, Shapes, At
<1>4. Apart
  BY <1>1, EmptyHas, Zero DEF Init, Apart
<1>5. Owned
  BY EmptyHas DEF Init, Owned
<1>6. Walking /\ MinBelow /\ Passed /\ Far
  BY <1>1, EmptyHas, Zero DEF Init, Walking, MinBelow, Passed, Far
<1> QED BY <1>3, <1>4, <1>5, <1>6 DEF IInv

LEMMA StaysSound == ASSUME IInv, ~ModNext, [Next]_vars PROVE IInv'
<1>1. CASE Client
  <2>1. CASE Add
    BY <2>1, AddKeeps
  <2>2. ASSUME NEW t \in Timers, NEW d \in Delays, ModExpireTime(t, now + d) PROVE IInv'
    BY <2>2, ModKeeps
  <2>3. CASE (\E t \in Timers : RemoveTimer(t)) \/ (\E h \in Heads : RemoveTimers(h))
    BY <2>3, RemoveKeeps
  <2>4. CASE DestroyTimer
    BY <2>4, DestroyKeeps
  <2>5. CASE \/ \E x \in Types, f \in Funcs : RegisterTimerCallback(x, f)
             \/ UnregisterTimersCallback \/ RefreshTimersCallback \/ RenewNow
    BY <2>5, CallbacksKeep
  <2> QED BY <1>1, <2>1, <2>2, <2>3, <2>4, <2>5 DEF Client
<1>2. CASE HandleTimer
  BY <1>2, HandleKeeps
<1>3. CASE Walk
  <2>1. CASE NextList
    BY <2>1, ScanKeeps, SkipKeeps DEF NextList
  <2> QED BY <1>3, <2>1, RemovedKeeps, EarlyKeeps, CallKeeps, ReturnKeeps DEF Walk
<1>4. CASE UNCHANGED vars
  BY <1>4 DEF vars, timers, clock, walk, types, IInv, Shapes, Apart, Owned, Walking, MinBelow,
              Passed, Far, Left, Settled, Looked
<1> QED BY <1>1, <1>2, <1>3, <1>4 DEF Next

LEMMA SoundIs == ASSUME IInv PROVE ListsSound
<1>1. Shapes /\ Apart /\ Owned /\ Walking
  BY DEF IInv
<1>2. ASSUME NEW s \in Seq(Timers), \A u \in Timers : Contains(s, u) => u \in alive
      PROVE  s \in Seq(alive) /\ ToSet(s) \subseteq alive
  <2>1. Len(s) \in Nat /\ DOMAIN s = 1..Len(s) /\ s = [k \in 1..Len(s) |-> s[k]]
    BY LenProperties
  <2>2. \A k \in 1..Len(s) : s[k] \in alive
    BY <1>2, ElementOfSeq DEF Contains
  <2>3. s \in [1..Len(s) -> alive]
    BY <2>1, <2>2
  <2> QED BY <2>1, <2>2, <2>3 DEF ToSet
<1>3. \A i \in Lists : vec[i] \in Seq(alive) /\ ToSet(vec[i]) \subseteq alive
  <2>1. \A i \in Lists, u \in Timers : Contains(vec[i], u) => u \in alive
    BY <1>1 DEF Apart
  <2> QED BY <1>1, <1>2, <2>1 DEF Shapes
<1>4. \A h \in Heads : sprite[h] \in Seq(alive) /\ ToSet(sprite[h]) \subseteq alive
  <2>1. \A h \in Heads, u \in Timers : Contains(sprite[h], u) => u \in alive
    BY <1>1 DEF Owned
  <2> QED BY <1>1, <1>2, <2>1 DEF Shapes
<1>5. TypeOK
  <2>1. vec \in [Lists -> Seq(alive)] /\ sprite \in [Heads -> Seq(alive)]
    BY <1>1, <1>3, <1>4 DEF Shapes
  <2> QED BY <1>1, <2>1 DEF Shapes, TypeOK
<1>6. Linked
  BY <1>1, <1>3, <1>4 DEF Linked, Apart, Owned, Shapes
<1>7. CursorSafe
  BY <1>1 DEF CursorSafe, Walking
<1> QED BY <1>5, <1>6, <1>7 DEF ListsSound

\* As long as callbacks leave the timer alone that the walk visits next, the
\* lists of timer.c lead to allocated timers only, each of them in one place,
\* and so do the two pointers handle_timer walks them with, whatever else the
\* callbacks add, move and remove (timer.c:143, list.h).
THEOREM ListsSoundAlways == ASSUME ~ModNext PROVE Spec => []ListsSound
<1>1. Init => IInv
  BY BeginsSound
<1>2. IInv /\ [Next]_vars => IInv'
  BY StaysSound
<1>3. IInv => ListsSound
  BY SoundIs
<1> QED BY <1>1, <1>2, <1>3, PTL DEF Spec

LEMMA OnTimeIs == ASSUME IInv PROVE OnTime
<1> SUFFICES ASSUME pc = "idle", last = now, NEW t \in alive, expire[t] <= now
             PROVE  t \in served \/ (jumped /\ Contains(vec[0], t))
  BY DEF OnTime
<1>1. Shapes /\ Apart /\ Passed /\ Far
  BY DEF IInv
<1>2. t \in Timers /\ expire[t] \in Nat /\ now \in Nat
  BY <1>1 DEF Shapes
<1>3. PICK i \in Lists : Contains(vec[i], t)
  BY <1>1, <1>2 DEF Apart
<1>4. CASE i = 0
  <2>1. Settled(t)
    BY <1>1, <1>2, <1>3, <1>4 DEF Passed, Left
  <2> QED BY <1>2, <1>3, <1>4, <2>1 DEF Settled
<1>5. CASE i # 0
  <2>1. i \in 1..TopList
    BY <1>5 DEF Lists
  <2>2. expire[t] >= last + 2
    BY <1>1, <1>2, <1>3, <2>1 DEF Far, Looked
  <2> QED BY <1>2, <2>2
<1> QED BY <1>4, <1>5

\* Under the same condition a timer is handled in its second: when handle_timer
\* returns, whatever was due was called or, if seconds had gone by unhandled,
\* is in the list walked next (timer.c:143-159), for any number of timers, lists
\* and delays.
THEOREM OnTimeAlways == ASSUME ~ModNext PROVE Spec => []OnTime
<1>1. Init => IInv
  BY BeginsSound
<1>2. IInv /\ [Next]_vars => IInv'
  BY StaysSound
<1>3. IInv => OnTime
  BY OnTimeIs
<1> QED BY <1>1, <1>2, <1>3, PTL DEF Spec

---------------------------------------------------------------------------
(* Callbacks: an invariant that asks nothing of the lists or of ModNext. *)

Fields ==
  /\ held \subseteq alive /\ alive \subseteq Timers
  /\ sprite \in [Heads -> Seq(Timers)]
  /\ function \in [Timers -> Funcs \cup {Null}]
  /\ func_indx \in [Timers -> Types \cup {0}]
  /\ tcfs \in [Types -> Funcs \cup {Null}] /\ stale \in BOOLEAN

\* The timers that are held can be called, each through its type.
Live ==
  \A t \in held :
    /\ func_indx[t] \in Types /\ function[t] # Null
    /\ ~stale => function[t] = tcfs[func_indx[t]]

CInv == Fields /\ Dropped /\ (PlainAdd \/ Live)

LEMMA NewIsHeld ==
  ASSUME CInv, NEW h \in Heads, NEW f \in Funcs, NEW x \in Kinds, NEW e,
         NewTimer(h, f, x, e), UNCHANGED <<tcfs, stale>>, x # 0 => f = tcfs[x]
  PROVE  CInv'
<1>1. PICK t \in Timers \ alive :
        /\ alive' = alive \cup {t} /\ held' = held \cup {t}
        /\ function' = [function EXCEPT ![t] = f]
        /\ func_indx' = [func_indx EXCEPT ![t] = x]
        /\ sprite' = [sprite EXCEPT ![h] = Append(@, t)]
  BY DEF NewTimer
<1>2. Fields /\ Dropped /\ x \in Types \cup {0} /\ Null \notin Funcs
  BY TimerAssumption DEF CInv, Kinds, TimerAssumption
<1>3. Fields'
  <2>1. sprite[h] \in Seq(Timers) /\ Append(sprite[h], t) \in Seq(Timers)
    BY <1>2, AppendProperties DEF Fields
  <2>2. sprite' \in [Heads -> Seq(Timers)]
    BY <1>1, <1>2, <2>1 DEF Fields
  <2> QED BY <1>1, <1>2, <2>2 DEF Fields
<1>4. function'[t] = f /\ func_indx'[t] = x /\ \A u \in Timers \ {t} : function'[u] = function[u] /\ func_indx'[u] = func_indx[u]
  BY <1>1, <1>2 DEF Fields
<1>5. Dropped'
  BY <1>1, <1>2, <1>4 DEF Dropped
<1>6. PlainAdd \/ Live'
  <2> SUFFICES ASSUME ~PlainAdd PROVE Live'
    OBVIOUS
  <2>1. Live /\ x \in Types /\ x # 0
    BY TimerAssumption DEF CInv, Kinds, TimerAssumption
  <2>2. t \notin held /\ held \subseteq Timers
    BY <1>2 DEF Fields
  <2> QED BY <1>1, <1>2, <1>4, <2>1, <2>2 DEF Live
<1> QED BY <1>3, <1>5, <1>6 DEF CInv

\* The timer that add_event finds in a client's list has the callback asked for.
LEMMA FoundHas ==
  ASSUME Fields, NEW h \in Heads, NEW f, Found(h, f) # << >>
  PROVE  Head(Found(h, f)) \in Timers /\ function[Head(Found(h, f))] = f
<1> DEFINE S == {t \in Timers : function[t] = f}
<1>1. sprite[h] \in Seq(Timers) /\ Found(h, f) = Keep(sprite[h], S)
  BY DEF Fields, Found
<1>2. \A u \in S : u \in Timers /\ function[u] = f
  OBVIOUS
<1> HIDE DEF S
<1>3. Found(h, f) \in Seq(Timers \cap S)
  BY <1>1, KeepIs
<1>4. Head(Found(h, f)) \in Timers \cap S
  BY <1>3, HeadTailProperties
<1> QED BY <1>2, <1>4

LEMMA ReplacedIsHeld ==
  ASSUME CInv, NEW h \in Heads, NEW f \in Funcs, NEW x \in Kinds, Found(h, f) # << >>,
         Head(Found(h, f)) \in held,
         func_indx' = [func_indx EXCEPT ![Head(Found(h, f))] = IF x = 0 THEN @ ELSE x],
         UNCHANGED <<sprite, alive, function, held, tcfs, stale>>, x # 0 => f = tcfs[x]
  PROVE  CInv'
<1>1. Fields /\ Dropped /\ x \in Types \cup {0}
  BY DEF CInv, Kinds
<1>2. PICK t \in held : t \in Timers /\ function[t] = f /\ func_indx' = [func_indx EXCEPT ![t] = IF x = 0 THEN @ ELSE x]
  BY <1>1, FoundHas
<1>3. (x # 0 => func_indx'[t] = x) /\ \A u \in Timers \ {t} : func_indx'[u] = func_indx[u]
  BY <1>1, <1>2 DEF Fields
<1>4. Fields' /\ Dropped'
  BY <1>1, <1>2, <1>3 DEF Fields, Dropped
<1>5. PlainAdd \/ Live'
  <2> SUFFICES ASSUME ~PlainAdd PROVE Live'
    OBVIOUS
  <2>1. Live /\ x \in Types /\ x # 0
    BY TimerAssumption DEF CInv, Kinds, TimerAssumption
  <2> QED BY <1>1, <1>2, <1>3, <2>1 DEF Live, Fields
<1> QED BY <1>4, <1>5 DEF CInv

\* No timer is held that was not, and those that are keep their fields.
LEMMA FewerAreHeld ==
  ASSUME CInv, NEW S, UNCHANGED <<tcfs, stale>>,
         held' = held \ S, alive' \in {alive, alive \ S},
         sprite' = [h \in Heads |-> Less(sprite[h], S)],
         function' = [t \in Timers |-> IF t \in S THEN Null ELSE function[t]],
         func_indx' = [t \in Timers |-> IF t \in S THEN 0 ELSE func_indx[t]]
  PROVE  CInv'
<1>1. Fields /\ Dropped
  BY DEF CInv
<1>2. /\ held' \subseteq alive' /\ alive' \subseteq Timers
      /\ function' \in [Timers -> Funcs \cup {Null}] /\ func_indx' \in [Timers -> Types \cup {0}]
  BY <1>1 DEF Fields
<1>3. sprite' \in [Heads -> Seq(Timers)]
  <2>1. \A h \in Heads : sprite[h] \in Seq(Timers)
    BY <1>1 DEF Fields
  <2>2. \A h \in Heads : Less(sprite[h], S) \in Seq(Timers)
    BY <2>1, LessIs
  <2> QED BY <2>2
<1>4. Fields'
  BY <1>1, <1>2, <1>3 DEF Fields
<1>5. Dropped'
  BY <1>1 DEF Dropped
<1>6. ASSUME Live PROVE Live'
  BY <1>1, <1>6 DEF Live, Fields
<1> QED BY <1>4, <1>5, <1>6 DEF CInv

LEMMA CallbacksLive ==
  ASSUME CInv,
         \/ \E x \in Types, f \in Funcs : RegisterTimerCallback(x, f)
         \/ UnregisterTimersCallback \/ RefreshTimersCallback
  PROVE  CInv'
<1>1. Fields /\ Dropped
  BY DEF CInv
<1>2. ASSUME NEW x \in Types, NEW f \in Funcs, RegisterTimerCallback(x, f) PROVE CInv'
  <2>1. /\ UNCHANGED <<sprite, alive, function, func_indx, held, stale>>
        /\ tcfs[x] = Null /\ tcfs' = [tcfs EXCEPT ![x] = f]
    BY <1>2 DEF RegisterTimerCallback, timers
  <2>2. Fields' /\ Dropped'
    BY <1>1, <2>1 DEF Fields, Dropped
  <2>3. ASSUME Live PROVE Live'
    BY <1>1, <2>1, <2>3 DEF Live, Fields
  <2> QED BY <2>2, <2>3 DEF CInv
<1>3. CASE UnregisterTimersCallback
  <2>1. /\ UNCHANGED <<sprite, alive, function, func_indx, held>>
        /\ tcfs' = [x \in Types |-> Null] /\ stale' = TRUE
    BY <1>3 DEF UnregisterTimersCallback, timers
  <2>2. Fields' /\ Dropped'
    BY <1>1, <2>1 DEF Fields, Dropped
  <2>3. ASSUME Live PROVE Live'
    BY <1>1, <2>1, <2>3 DEF Live
  <2> QED BY <2>2, <2>3 DEF CInv
<1>4. CASE RefreshTimersCallback
  <2>1. /\ UNCHANGED <<sprite, alive, func_indx, held, tcfs>> /\ stale' = FALSE
        /\ \A t \in held : func_indx[t] # 0 => tcfs[func_indx[t]] # Null
        /\ function' = [t \in Timers |->
             IF t \notin alive THEN function[t]
             ELSE IF func_indx[t] = 0 THEN Null ELSE tcfs[func_indx[t]]]
    BY <1>4 DEF RefreshTimersCallback
  <2>2. Fields'
    BY <1>1, <2>1 DEF Fields
  <2>3. Dropped'
    BY <1>1, <2>1 DEF Fields, Dropped
  <2>4. ASSUME Live PROVE Live'
    BY <1>1, <2>1, <2>4, TimerAssumption DEF Live, Fields, TimerAssumption
  <2> QED BY <2>2, <2>3, <2>4 DEF CInv
<1> QED BY <1>2, <1>3, <1>4

LEMMA CallbacksStay == ASSUME CInv, [Next]_vars PROVE CInv'
<1>1. ASSUME UNCHANGED <<sprite, alive, function, func_indx, held, tcfs, stale>> PROVE CInv'
  BY <1>1 DEF CInv, Fields, Dropped, Live
<1>2. CASE Add
  <2>1. PICK h \in Heads, d \in Delays, flag \in {"new", "replace"}, f \in Funcs, x \in Kinds :
          (x # 0 => f = tcfs[x]) /\ AddEvent(h, f, x, now + d, flag)
    BY <1>2 DEF Add
  <2>2. UNCHANGED <<tcfs, stale>>
    BY <2>1 DEF AddEvent, types
  <2>3. CASE NewTimer(h, f, x, now + d)
    BY <2>1, <2>2, <2>3, NewIsHeld
  <2>4. CASE /\ Found(h, f) # << >> /\ Head(Found(h, f)) \in held
             /\ func_indx' = [func_indx EXCEPT ![Head(Found(h, f))] = IF x = 0 THEN @ ELSE x]
             /\ UNCHANGED <<sprite, alive, function, held>>
    BY <2>1, <2>2, <2>4, ReplacedIsHeld
  <2> QED BY <2>1, <2>3, <2>4 DEF AddEvent, MayMove
<1>3. ASSUME NEW t, NEW e, ModExpireTime(t, e) PROVE CInv'
  BY <1>1, <1>3 DEF ModExpireTime, types
<1>4. ASSUME NEW S, Forget(S) PROVE CInv'
  BY <1>4, FewerAreHeld DEF Forget, types
<1>5. ASSUME NEW S, Free(S), UNCHANGED types PROVE CInv'
  BY <1>5, FewerAreHeld DEF Free, types
<1>6. CASE Client
  <2>1. CASE RenewNow
    BY <1>1, <2>1 DEF RenewNow, timers, types
  <2>2. CASE DestroyTimer
    BY <1>5, <2>2 DEF DestroyTimer
  <2>3. ASSUME NEW t \in Timers, RemoveTimer(t) PROVE CInv'
    BY <1>4, <2>3 DEF RemoveTimer
  <2>4. ASSUME NEW h \in Heads, RemoveTimers(h) PROVE CInv'
    BY <1>4, <2>4 DEF RemoveTimers
  <2> QED BY <1>2, <1>3, <1>6, <2>1, <2>2, <2>3, <2>4, CallbacksLive DEF Client
<1>7. CASE HandleTimer
  BY <1>1, <1>7 DEF HandleTimer, types
<1>8. CASE Walk
  <2>1. CASE VisitRemoved
    BY <1>5, <2>1 DEF VisitRemoved
  <2>2. CASE VisitEarly \/ CallTimer
    BY <1>1, <2>2 DEF VisitEarly, CallTimer, timers, types
  <2>3. CASE CallbackReturns
    BY <1>1, <1>5, <2>3 DEF CallbackReturns, timers, types
  <2>4. CASE NextList
    BY <1>1, <1>5, <2>4 DEF NextList, ScanTimerList, SkipTimerList, timers, types
  <2> QED BY <1>8, <2>1, <2>2, <2>3, <2>4 DEF Walk
<1>9. CASE UNCHANGED vars
  BY <1>1, <1>9 DEF vars, timers, types
<1> QED BY <1>6, <1>7, <1>8, <1>9 DEF Next

LEMMA CallbacksBegin == Init => CInv
<1> SUFFICES ASSUME Init PROVE CInv
  OBVIOUS
<1>1. sprite \in [Heads -> Seq(Timers)]
  <2>1. << >> \in Seq(Timers)
    OBVIOUS
  <2> QED BY <2>1 DEF Init
<1>2. Fields
  BY <1>1 DEF Init, Fields
<1>3. Dropped /\ Live
  BY DEF Init, Dropped, Live
<1> QED BY <1>2, <1>3 DEF CInv

\* handle_timer calls a timer only while its client holds it: not after
\* REMOVE_TIMER, remove_timers or a return of 0, however the callbacks were
\* unloaded and refreshed in between (timer.c:145-148, 314-323), and whatever
\* a callback does to the lists.
THEOREM OnlyHeldCalledAlways == Spec => OnlyHeldCalled
<1>1. Init => CInv
  BY CallbacksBegin
<1>2. CInv /\ [Next]_vars => CInv'
  BY CallbacksStay
<1>3. CInv /\ [Next]_vars => [CallTimer => cur \in held]_vars
  <2> SUFFICES ASSUME CInv, CallTimer PROVE cur \in held
    OBVIOUS
  <2> QED BY DEF CallTimer, AtTimer, CInv, Fields, Dropped
<1>4. Spec => []CInv
  BY <1>1, <1>2, PTL DEF Spec
<1> QED BY <1>3, <1>4, PTL DEF Spec, OnlyHeldCalled

\* When every timer is set with a type, one that was neither removed nor
\* returned 0 keeps a callback, and after a refresh the one its type has now
\* (timer.c:314-323).
THEOREM HeldIsLiveAlways == ASSUME ~PlainAdd PROVE Spec => []HeldIsLive
<1>1. Init => CInv
  BY CallbacksBegin
<1>2. CInv /\ [Next]_vars => CInv'
  BY CallbacksStay
<1>3. CInv => HeldIsLive
  BY DEF CInv, Live, HeldIsLive
<1> QED BY <1>1, <1>2, <1>3, PTL DEF Spec

---------------------------------------------------------------------------
(* The microsecond timers (MicroTimer). *)

Distinct(l) == \A i, j \in 1..Len(l) : l[i] = l[j] => i = j

Fielded(r) == r = [tv |-> r.tv, owner |-> r.owner, func |-> r.func, idx |-> r.idx] /\ r.tv \in Nat

MicroShapes ==
  /\ mnow \in Nat /\ list \in Seq(Timers)
  /\ timer = [t \in Timers |-> timer[t]]
  /\ \A t \in Timers : timer[t] = Micro!Free \/ Fielded(timer[t])

\* The list holds each allocated timer, once.
MicroLinked ==
  /\ Distinct(list)
  /\ \A t \in Timers : timer[t] # Micro!Free <=> \E i \in 1..Len(list) : list[i] = t

\* The walk w is at place i of l, and those of D are still to come.
StandsAt(i, w, l, D) ==
  /\ w.t = l[i]
  /\ w.next = Null \/ (i < Len(l) /\ w.next = l[i + 1])
  /\ \A j \in 1..Len(l) : l[j] \in D =>
       /\ IF w.pc = "called" THEN j > i ELSE j >= i
       /\ w.next = Null => j <= i

Stands(w, l, D) ==
  \/ w = Micro!Idle /\ \A j \in 1..Len(l) : l[j] \notin D
  \/ /\ w = [pc |-> w.pc, t |-> w.t, next |-> w.next] /\ w.pc \in {"visit", "called"}
     /\ \E i \in 1..Len(l) : StandsAt(i, w, l, D)

\* Timers the walk has to call are such that it will; those removed are dropped.
MicroHeld ==
  /\ \A d \in due : d \in Timers /\ timer[d].func # Null /\ mnow > timer[d].tv
  /\ \A t \in removed : t \in Timers /\ timer[t].func = Null /\ timer[t].idx = 0

MicroInv == MicroShapes /\ MicroLinked /\ Stands(mwalk, list, due) /\ MicroHeld

LEMMA MicroNull == Null \notin Timers /\ Micro!Free.func = Null /\ Micro!Free.idx = 0 /\ Micro!Free.tv = -1
  BY TimerAssumption DEF TimerAssumption, Micro!Free

LEMMA AtIs ==
  ASSUME NEW l \in Seq(Timers), Distinct(l), NEW i \in 1..Len(l)
  PROVE  Micro!At(l[i], l) = i
<1>1. \E j \in 1..Len(l) : l[j] = l[i]
  OBVIOUS
<1>2. Micro!At(l[i], l) \in 1..Len(l) /\ l[Micro!At(l[i], l)] = l[i]
  BY <1>1 DEF Micro!At
<1> QED
  BY <1>2 DEF Distinct

\* list_del of the entry at i of l leaves r.
CutAt(r, l, i) ==
  /\ r \in Seq(Timers) /\ Len(r) = Len(l) - 1 /\ Distinct(r)
  /\ \A j \in 1..Len(r) : j \in 1..Len(l) /\ j + 1 \in 1..Len(l) /\ r[j] = IF j < i THEN l[j] ELSE l[j + 1]
  /\ \A t : (\E j \in 1..Len(r) : r[j] = t) <=> t # l[i] /\ \E j \in 1..Len(l) : l[j] = t

LEMMA CutIs ==
  ASSUME NEW l \in Seq(Timers), Distinct(l), NEW i \in 1..Len(l), NEW r, r = Micro!RemoveAt(l, i)
  PROVE  CutAt(r, l, i)
<1> DEFINE a == SubSeq(l, 1, i - 1)
           b == SubSeq(l, i + 1, Len(l))
<1>1. Len(l) \in Nat /\ i \in Nat /\ i >= 1 /\ i <= Len(l)
  OBVIOUS
<1>2. a \in Seq(Timers) /\ Len(a) = i - 1 /\ \A j \in 1..i - 1 : a[j] = l[j]
  <2>1. \A j \in 1..i - 1 : l[j] \in Timers /\ (1 + j - 1) = j
    BY <1>1, ElementOfSeq
  <2> QED
    BY <1>1, <2>1, SubSeqProperties
<1>3. b \in Seq(Timers) /\ Len(b) = Len(l) - i /\ \A j \in 1..Len(l) - i : b[j] = l[i + j]
  <2>1. \A j \in i + 1..Len(l) : l[j] \in Timers
    BY <1>1, ElementOfSeq
  <2>2. \A j \in 1..Len(l) - i : (i + 1) + j - 1 = i + j
    BY <1>1
  <2> QED
    BY <1>1, <2>1, <2>2, SubSeqProperties
<1>4. r = a \o b
  BY DEF Micro!RemoveAt
<1> HIDE DEF a, b
<1>5. r \in Seq(Timers) /\ Len(r) = Len(l) - 1
      /\ \A j \in 1..Len(l) - 1 : r[j] = IF j <= i - 1 THEN a[j] ELSE b[j - (i - 1)]
  <2>1. Len(a) + Len(b) = Len(l) - 1
    BY <1>1, <1>2, <1>3
  <2>2. /\ r \in Seq(Timers) /\ Len(r) = Len(a) + Len(b)
        /\ \A j \in 1..Len(a) + Len(b) : r[j] = IF j <= Len(a) THEN a[j] ELSE b[j - Len(a)]
    <3>1. a \in Seq(Timers) /\ b \in Seq(Timers)
      BY <1>2, <1>3
    <3>2. /\ a \o b \in Seq(Timers) /\ Len(a \o b) = Len(a) + Len(b)
          /\ \A j \in 1..Len(a) + Len(b) : (a \o b)[j] = IF j <= Len(a) THEN a[j] ELSE b[j - Len(a)]
      BY <3>1, ConcatProperties, Zenon
    <3> QED
      BY <1>4, <3>2
  <2>3. Len(a) = i - 1
    BY <1>2
  <2> QED
    BY <2>1, <2>2, <2>3
<1>6. \A j \in 1..Len(r) : j \in 1..Len(l) /\ j + 1 \in 1..Len(l) /\ r[j] = IF j < i THEN l[j] ELSE l[j + 1]
  <2> SUFFICES ASSUME NEW j \in 1..Len(r)
               PROVE  j \in 1..Len(l) /\ j + 1 \in 1..Len(l) /\ r[j] = IF j < i THEN l[j] ELSE l[j + 1]
    OBVIOUS
  <2>1. j \in 1..Len(l) - 1
    BY <1>5
  <2>2. CASE j < i
    <3>1. j <= i - 1 /\ j \in 1..i - 1
      BY <1>1, <2>1, <2>2
    <3> QED
      BY <1>1, <1>2, <1>5, <2>1, <2>2, <3>1
  <2>3. CASE ~(j < i)
    <3>1. ~(j <= i - 1) /\ j - (i - 1) \in 1..Len(l) - i /\ i + (j - (i - 1)) = j + 1
      BY <1>1, <2>1, <2>3
    <3> QED
      BY <1>1, <1>3, <1>5, <2>1, <2>3, <3>1
  <2> QED
    BY <2>2, <2>3
<1>7. Distinct(r)
  <2> SUFFICES ASSUME NEW j \in 1..Len(r), NEW k \in 1..Len(r), r[j] = r[k] PROVE j = k
    BY DEF Distinct
  <2> DEFINE up(m) == IF m < i THEN m ELSE m + 1
  <2>1. r[j] = l[up(j)] /\ r[k] = l[up(k)] /\ up(j) \in 1..Len(l) /\ up(k) \in 1..Len(l)
    BY <1>6
  <2>2. up(j) = up(k)
    BY <2>1 DEF Distinct
  <2> QED
    BY <1>1, <1>5, <2>2
<1>8. ASSUME NEW t PROVE (\E j \in 1..Len(r) : r[j] = t) <=> t # l[i] /\ \E j \in 1..Len(l) : l[j] = t
  <2>1. ASSUME NEW j \in 1..Len(r), r[j] = t PROVE t # l[i] /\ \E k \in 1..Len(l) : l[k] = t
    <3>1. CASE j < i
      <4>1. j \in 1..Len(l) /\ l[j] = t /\ j # i
        BY <1>1, <1>6, <2>1, <3>1
      <4> QED
        BY <4>1 DEF Distinct
    <3>2. CASE ~(j < i)
      <4>1. j + 1 \in 1..Len(l) /\ l[j + 1] = t /\ j + 1 # i
        BY <1>1, <1>5, <1>6, <2>1, <3>2
      <4> QED
        BY <4>1 DEF Distinct
    <3> QED
      BY <3>1, <3>2
  <2>2. ASSUME t # l[i], NEW j \in 1..Len(l), l[j] = t PROVE \E k \in 1..Len(r) : r[k] = t
    <3>1. j # i
      BY <2>2
    <3>2. CASE j < i
      <4>1. j \in 1..Len(r)
        BY <1>1, <1>5, <3>2
      <4>2. r[j] = t
        BY <1>6, <2>2, <3>2, <4>1
      <4> QED
        BY <4>1, <4>2
    <3>3. CASE j > i
      <4>1. j - 1 \in 1..Len(r) /\ ~(j - 1 < i) /\ (j - 1) + 1 = j
        BY <1>1, <1>5, <3>3
      <4>2. r[j - 1] = t
        BY <1>6, <2>2, <4>1
      <4> QED
        BY <4>1, <4>2
    <3> QED
      BY <1>1, <3>1, <3>2, <3>3
  <2> QED
    BY <2>1, <2>2
<1> QED
  BY <1>5, <1>6, <1>7, <1>8 DEF CutAt

\* Going on to n, at place k of l, before which nothing of D is left.
LEMMA GoesOn ==
  ASSUME NEW l \in Seq(Timers), Distinct(l), NEW D, NEW k \in Nat \ {0}, NEW n,
         n = Null \/ (k <= Len(l) /\ n = l[k]),
         \A j \in 1..Len(l) : l[j] \in D => j >= k /\ n # Null
  PROVE  Stands(Micro!Onto(n, l), l, D)
<1>1. CASE n = Null
  BY <1>1 DEF Stands, Micro!Onto
<1>2. CASE n # Null
  <2>1. k \in 1..Len(l) /\ n = l[k] /\ Len(l) \in Nat
    BY <1>2
  <2>2. Micro!At(n, l) = k
    BY <2>1, AtIs
  <2> DEFINE w == [pc |-> "visit", t |-> n, next |-> IF k = Len(l) THEN Null ELSE l[k + 1]]
  <2>3. Micro!Onto(n, l) = w
    BY <1>2, <2>2 DEF Micro!Onto
  <2>4. w = [pc |-> w.pc, t |-> w.t, next |-> w.next] /\ w.pc = "visit"
    OBVIOUS
  <2>5. w.t = l[k] /\ w.next = IF k = Len(l) THEN Null ELSE l[k + 1]
    BY <2>1
  <2> HIDE DEF w
  <2>6. w.next = Null => k = Len(l)
    <3>1. k # Len(l) => l[k + 1] \in Timers
      BY <2>1, ElementOfSeq
    <3> QED
      BY <2>5, <3>1, MicroNull
  <2>7. StandsAt(k, w, l, D)
    BY <2>1, <2>4, <2>5, <2>6 DEF StandsAt
  <2> QED
    BY <2>1, <2>3, <2>4, <2>7 DEF Stands
<1> QED
  BY <1>1, <1>2

\* The walk may leave a timer it has called or need not call, freed or not.
LEMMA Leaves ==
  ASSUME MicroInv, mwalk.pc \in {"visit", "called"}, mwalk.pc = "visit" => mwalk.t \notin due,
         NEW r, r = Micro!RemoveAt(list, Micro!At(mwalk.t, list))
  PROVE  /\ mwalk.t \in Timers /\ \E i \in 1..Len(list) : list[i] = mwalk.t
         /\ mwalk.t \notin due
         /\ Stands(Micro!Onto(mwalk.next, list), list, due)
         /\ r \in Seq(Timers) /\ Distinct(r)
         /\ \A u : (\E j \in 1..Len(r) : r[j] = u) <=> u # mwalk.t /\ \E j \in 1..Len(list) : list[j] = u
         /\ Stands(Micro!Onto(mwalk.next, r), r, due)
<1>1. list \in Seq(Timers) /\ Distinct(list) /\ Len(list) \in Nat
  BY DEF MicroInv, MicroShapes, MicroLinked
<1>2. PICK i \in 1..Len(list) : StandsAt(i, mwalk, list, due)
  <2>1. mwalk # Micro!Idle
    BY DEF Micro!Idle
  <2> QED
    BY <2>1 DEF MicroInv, Stands
<1>3. i \in Nat \ {0} /\ i <= Len(list) /\ mwalk.t = list[i] /\ list[i] \in Timers
  BY <1>1, <1>2, ElementOfSeq DEF StandsAt
<1>4. mwalk.next = Null \/ (i < Len(list) /\ mwalk.next = list[i + 1])
  BY <1>2 DEF StandsAt
<1>5. \A j \in 1..Len(list) : list[j] \in due => j > i /\ mwalk.next # Null
  <2> SUFFICES ASSUME NEW j \in 1..Len(list), list[j] \in due PROVE j > i /\ mwalk.next # Null
    OBVIOUS
  <2>1. (IF mwalk.pc = "called" THEN j > i ELSE j >= i) /\ (mwalk.next = Null => j <= i)
    BY <1>2 DEF StandsAt
  <2>2. j # i
    BY <1>3, <2>1
  <2> QED
    BY <1>3, <2>1, <2>2
<1>6. mwalk.t \notin due
  BY <1>3, <1>5
<1>7. Stands(Micro!Onto(mwalk.next, list), list, due)
  <2>1. i + 1 \in Nat \ {0} /\ (mwalk.next = Null \/ (i + 1 <= Len(list) /\ mwalk.next = list[i + 1]))
    BY <1>1, <1>3, <1>4
  <2>2. \A j \in 1..Len(list) : list[j] \in due => j >= i + 1 /\ mwalk.next # Null
    BY <1>3, <1>5
  <2> QED
    BY <1>1, <2>1, <2>2, GoesOn
<1>8. r = Micro!RemoveAt(list, i)
  BY <1>1, <1>3, AtIs
<1>9. CutAt(r, list, i)
  BY <1>1, <1>8, CutIs
<1>10. Stands(Micro!Onto(mwalk.next, r), r, due)
  <2>1. mwalk.next = Null \/ (i <= Len(r) /\ mwalk.next = r[i])
    <3>1. i < Len(list) => i \in 1..Len(r) /\ ~(i < i)
      BY <1>1, <1>3, <1>9 DEF CutAt
    <3> QED
      BY <1>3, <1>4, <1>9, <3>1 DEF CutAt
  <2>2. \A j \in 1..Len(r) : r[j] \in due => j >= i /\ mwalk.next # Null
    <3> SUFFICES ASSUME NEW j \in 1..Len(r), r[j] \in due PROVE j >= i /\ mwalk.next # Null
      OBVIOUS
    <3>1. CASE j < i
      <4>1. j \in 1..Len(list) /\ list[j] \in due
        BY <1>9, <3>1 DEF CutAt
      <4> QED
        BY <1>3, <1>5, <3>1, <4>1
    <3>2. CASE ~(j < i)
      <4>1. j + 1 \in 1..Len(list) /\ list[j + 1] \in due
        BY <1>9, <3>2 DEF CutAt
      <4> QED
        BY <1>3, <1>5, <3>2, <4>1
    <3> QED
      BY <3>1, <3>2
  <2> QED
    BY <1>3, <1>9, <2>1, <2>2, GoesOn DEF CutAt
<1> QED
  BY <1>3, <1>6, <1>7, <1>9, <1>10 DEF CutAt

\* Freeing the timer the walk is at keeps the lists and what is due.
LEMMA FreedKeeps ==
  ASSUME MicroInv, mwalk.pc \in {"visit", "called"}, mwalk.pc = "visit" => mwalk.t \notin due,
         Micro!Freed(mwalk.t), mwalk' = Micro!Onto(mwalk.next, list'), UNCHANGED <<mnow, due>>
  PROVE  MicroInv'
<1>1. /\ list' = Micro!RemoveAt(list, Micro!At(mwalk.t, list))
      /\ timer' = [timer EXCEPT ![mwalk.t] = Micro!Free]
      /\ removed' = removed \ {mwalk.t}
  BY DEF Micro!Freed
<1>2. /\ mwalk.t \in Timers /\ mwalk.t \notin due
      /\ list' \in Seq(Timers) /\ Distinct(list')
      /\ \A u : (\E j \in 1..Len(list') : list'[j] = u) <=> u # mwalk.t /\ \E j \in 1..Len(list) : list[j] = u
      /\ Stands(mwalk', list', due)
  BY <1>1, Leaves
<1>3. /\ timer' = [t \in Timers |-> timer'[t]]
      /\ \A t \in Timers : timer'[t] = IF t = mwalk.t THEN Micro!Free ELSE timer[t]
  BY <1>1 DEF MicroInv, MicroShapes
<1>4. MicroShapes'
  BY <1>2, <1>3 DEF MicroInv, MicroShapes
<1>5. MicroLinked'
  BY <1>2, <1>3 DEF MicroInv, MicroLinked
<1>6. MicroHeld'
  BY <1>1, <1>2, <1>3 DEF MicroInv, MicroHeld
<1> QED
  BY <1>2, <1>4, <1>5, <1>6 DEF MicroInv

LEMMA MicroBegins == Micro!Init => MicroInv
<1> SUFFICES ASSUME Micro!Init PROVE MicroInv
  OBVIOUS
<1>1. /\ mnow = 0 /\ list = <<>> /\ timer = [t \in Timers |-> Micro!Free] /\ mwalk = Micro!Idle
      /\ due = {} /\ removed = {}
  BY DEF Micro!Init
<1>2. list \in Seq(Timers) /\ Len(list) = 0
  BY <1>1
<1> QED
  BY <1>1, <1>2 DEF MicroInv, MicroShapes, MicroLinked, MicroHeld, Stands, Distinct

\* A new entry at the end of the list leaves the walk where it is.
LEMMA AddStep ==
  ASSUME MicroInv, MicroAssumption, NEW t \in Timers, NEW o, NEW d \in MicroDelays, NEW i, Micro!Add(t, o, d, i)
  PROVE  MicroInv'
<1>1. /\ mwalk.pc \in {"idle", "called"} /\ timer[t] = Micro!Free /\ list' = Append(list, t)
      /\ removed' = removed \ {t} /\ UNCHANGED <<mnow, mwalk, due>>
  BY DEF Micro!Add, Micro!MayCall
<1> DEFINE f == IF i = 0 THEN 1 ELSE mtcfs[i]
           r == [tv |-> mnow + d, owner |-> o, idx |-> i, func |-> f]
<1>2. timer' = [timer EXCEPT ![t] = r]
  BY DEF Micro!Add
<1>3. Fielded(r) /\ r # Micro!Free
  <2>1. mnow + d \in Nat
    BY DEF MicroInv, MicroShapes, MicroAssumption
  <2>2. r.tv = mnow + d /\ r.owner = o /\ r.idx = i /\ r.func = f
    OBVIOUS
  <2>3. r.tv \in Nat
    BY <2>1, <2>2
  <2>4. r # Micro!Free
    BY <2>3, MicroNull
  <2>5. r = [tv |-> r.tv, owner |-> r.owner, func |-> r.func, idx |-> r.idx]
    OBVIOUS
  <2> HIDE DEF r
  <2> QED
    BY <2>3, <2>4, <2>5 DEF Fielded
<1> HIDE DEF r
<1>4. /\ timer' = [u \in Timers |-> timer'[u]]
      /\ \A u \in Timers : timer'[u] = IF u = t THEN r ELSE timer[u]
  BY <1>2 DEF MicroInv, MicroShapes
<1>5. list \in Seq(Timers) /\ Len(list) \in Nat /\ Distinct(list) /\ t \notin due
      /\ \A j \in 1..Len(list) : list[j] # t
  <2>1. t \notin due
    BY <1>1, MicroNull DEF MicroInv, MicroHeld
  <2>2. \A j \in 1..Len(list) : list[j] # t
    BY <1>1 DEF MicroInv, MicroLinked
  <2> QED
    BY <2>1, <2>2 DEF MicroInv, MicroShapes, MicroLinked
<1>6. /\ list' \in Seq(Timers) /\ Len(list') = Len(list) + 1
      /\ list'[Len(list) + 1] = t /\ \A j \in 1..Len(list) : list'[j] = list[j]
  BY <1>1, <1>5, AppendProperties
<1>7. \A j \in 1..Len(list') : j \in 1..Len(list) \/ (j = Len(list) + 1 /\ list'[j] = t)
  BY <1>5, <1>6
<1>8. MicroShapes'
  BY <1>1, <1>3, <1>4, <1>6 DEF MicroInv, MicroShapes
<1>9. MicroLinked'
  <2>1. Distinct(list')
    BY <1>5, <1>6, <1>7 DEF Distinct
  <2>2. ASSUME NEW u \in Timers PROVE timer'[u] # Micro!Free <=> \E j \in 1..Len(list') : list'[j] = u
    <3>1. CASE u = t
      <4>1. Len(list) + 1 \in 1..Len(list')
        BY <1>5, <1>6
      <4> QED
        BY <1>3, <1>4, <1>6, <3>1, <4>1
    <3>2. CASE u # t
      <4>1. timer'[u] = timer[u]
        BY <1>4, <3>2
      <4>2. \A j \in 1..Len(list) : j \in 1..Len(list')
        BY <1>5, <1>6
      <4>3. (\E j \in 1..Len(list) : list[j] = u) <=> \E j \in 1..Len(list') : list'[j] = u
        BY <1>6, <1>7, <3>2, <4>2
      <4> QED
        BY <4>1, <4>3 DEF MicroInv, MicroLinked
    <3> QED
      BY <3>1, <3>2
  <2> QED
    BY <2>1, <2>2 DEF MicroLinked
<1>10. MicroHeld'
  BY <1>1, <1>4, <1>5 DEF MicroInv, MicroHeld
<1>11. Stands(mwalk', list', due')
  <2>1. \A j \in 1..Len(list') : list'[j] \in due => j \in 1..Len(list) /\ list'[j] = list[j]
    BY <1>5, <1>6, <1>7
  <2>2. CASE mwalk = Micro!Idle
    <3>1. \A j \in 1..Len(list) : list[j] \notin due
      <4>1. ~(mwalk.pc \in {"visit", "called"})
        BY <2>2 DEF Micro!Idle
      <4> QED
        BY <4>1 DEF MicroInv, Stands
    <3> QED
      BY <1>1, <2>1, <2>2, <3>1 DEF Stands
  <2>3. CASE mwalk # Micro!Idle
    <3>1. PICK k \in 1..Len(list) : StandsAt(k, mwalk, list, due)
      BY <2>3 DEF MicroInv, Stands
    <3>2. k \in 1..Len(list') /\ list'[k] = list[k] /\ (k < Len(list) => k < Len(list') /\ list'[k + 1] = list[k + 1])
      BY <1>5, <1>6
    <3>3. StandsAt(k, mwalk, list', due)
      BY <1>6, <2>1, <3>1, <3>2 DEF StandsAt
    <3>4. mwalk = [pc |-> mwalk.pc, t |-> mwalk.t, next |-> mwalk.next] /\ mwalk.pc \in {"visit", "called"}
      BY <2>3 DEF MicroInv, Stands
    <3> QED
      BY <1>1, <3>2, <3>3, <3>4 DEF Stands
  <2> QED
    BY <2>2, <2>3
<1> QED
  BY <1>8, <1>9, <1>10, <1>11 DEF MicroInv

\* Fewer timers are due: the walk stands as it did.
LEMMA FewerDue ==
  ASSUME NEW w, NEW l, NEW D, NEW E, E \subseteq D, Stands(w, l, D)
  PROVE  Stands(w, l, E)
<1>1. ASSUME NEW i \in 1..Len(l), StandsAt(i, w, l, D) PROVE StandsAt(i, w, l, E)
  BY <1>1 DEF StandsAt
<1> QED
  BY <1>1 DEF Stands

MarkedOf(r, m) ==
  /\ IF r = Micro!Free THEN m = Micro!Free ELSE Fielded(m) /\ m # Micro!Free
  /\ m.func = Null /\ m.idx = 0

LEMMA MarkedRecord ==
  ASSUME NEW r, r = Micro!Free \/ Fielded(r), NEW m, m = [r EXCEPT !.func = Null, !.idx = 0]
  PROVE  MarkedOf(r, m)
<1>1. CASE r = Micro!Free
  BY <1>1 DEF Micro!Free, MarkedOf
<1>2. CASE Fielded(r) /\ r # Micro!Free
  <2>1. r = [tv |-> r.tv, owner |-> r.owner, func |-> r.func, idx |-> r.idx] /\ r.tv \in Nat
    BY <1>2 DEF Fielded
  <2>2. m = [tv |-> r.tv, owner |-> r.owner, func |-> Null, idx |-> 0]
    BY <2>1
  <2>3. m.tv = r.tv /\ m.owner = r.owner /\ m.func = Null /\ m.idx = 0
    BY <2>2
  <2>4. m = [tv |-> m.tv, owner |-> m.owner, func |-> m.func, idx |-> m.idx]
    BY <2>2, <2>3
  <2>5. m # Micro!Free
    <3>1. Micro!Free.tv \notin Nat
      BY MicroNull
    <3> QED
      BY <2>1, <2>3, <3>1, Zenon
  <2> QED
    BY <1>2, <2>1, <2>3, <2>4, <2>5 DEF Fielded, MarkedOf
<1> QED
  BY <1>1, <1>2

LEMMA ForgetStep ==
  ASSUME MicroInv, NEW S \in SUBSET Timers, Micro!Forget(S)
  PROVE  MicroInv'
<1>1. /\ timer' = [t \in Timers |-> IF t \in S THEN Micro!Marked(t) ELSE timer[t]]
      /\ removed' = removed \cup S /\ due' = due \ S /\ UNCHANGED <<mnow, list, mwalk>>
  BY DEF Micro!Forget
<1>2. ASSUME NEW t \in Timers
      PROVE  /\ timer'[t] = Micro!Free <=> timer[t] = Micro!Free
             /\ timer'[t] = Micro!Free \/ Fielded(timer'[t])
             /\ IF t \in S THEN timer'[t].func = Null /\ timer'[t].idx = 0 ELSE timer'[t] = timer[t]
  <2>1. timer[t] = Micro!Free \/ Fielded(timer[t])
    BY DEF MicroInv, MicroShapes
  <2>2. Micro!Marked(t) = [timer[t] EXCEPT !.func = Null, !.idx = 0]
    BY DEF Micro!Marked
  <2>3. timer'[t] = IF t \in S THEN Micro!Marked(t) ELSE timer[t]
    BY <1>1
  <2>4. MarkedOf(timer[t], Micro!Marked(t))
    BY <2>1, <2>2, MarkedRecord, Zenon
  <2> QED
    BY <2>1, <2>3, <2>4 DEF MarkedOf
<1>3. timer' = [t \in Timers |-> timer'[t]]
  BY <1>1
<1>4. MicroShapes'
  BY <1>1, <1>2, <1>3 DEF MicroInv, MicroShapes
<1>5. MicroLinked'
  BY <1>1, <1>2 DEF MicroInv, MicroLinked
<1>6. MicroHeld'
  <2>1. \A d \in due' : d \in Timers /\ timer'[d] = timer[d] /\ timer[d].func # Null /\ mnow > timer[d].tv
    BY <1>1, <1>2 DEF MicroInv, MicroHeld
  <2>2. \A t \in removed' : t \in Timers /\ timer'[t].func = Null /\ timer'[t].idx = 0
    BY <1>1, <1>2 DEF MicroInv, MicroHeld
  <2> QED
    BY <1>1, <2>1, <2>2 DEF MicroHeld
<1>7. Stands(mwalk', list', due')
  BY <1>1, FewerDue DEF MicroInv
<1> QED
  BY <1>4, <1>5, <1>6, <1>7 DEF MicroInv

\* Nothing is due while no walk is on.
LEMMA NoneDue == ASSUME MicroInv, mwalk = Micro!Idle PROVE due = {}
<1>1. \A j \in 1..Len(list) : list[j] \notin due
  <2>1. ~(mwalk.pc \in {"visit", "called"})
    BY DEF Micro!Idle
  <2> QED
    BY <2>1 DEF MicroInv, Stands
<1>2. ASSUME NEW d \in due PROVE FALSE
  <2>1. d \in Timers /\ timer[d] # Micro!Free
    BY MicroNull DEF MicroInv, MicroHeld
  <2> QED
    BY <1>1, <2>1 DEF MicroInv, MicroLinked
<1> QED
  BY <1>2

\* The fields of a timer that a reload leaves.
ReloadedOf(r, m) == Fielded(m) /\ m # Micro!Free /\ m.idx = r.idx /\ (r.idx = 0 => m.func = Null)

LEMMA ReloadedRecord ==
  ASSUME NEW r, Fielded(r), NEW f, r.idx = 0 => f = Null
  PROVE  ReloadedOf(r, [r EXCEPT !.func = f])
<1> DEFINE m == [r EXCEPT !.func = f]
<1>1. r = [tv |-> r.tv, owner |-> r.owner, func |-> r.func, idx |-> r.idx] /\ r.tv \in Nat
  BY DEF Fielded
<1>2. m = [tv |-> r.tv, owner |-> r.owner, func |-> f, idx |-> r.idx]
  BY <1>1
<1> HIDE DEF m
<1>3. m.tv = r.tv /\ m.owner = r.owner /\ m.func = f /\ m.idx = r.idx
  BY <1>2
<1>4. m = [tv |-> m.tv, owner |-> m.owner, func |-> m.func, idx |-> m.idx]
  BY <1>2, <1>3
<1>5. m # Micro!Free
  <2>1. Micro!Free.tv \notin Nat
    BY MicroNull
  <2> QED
    BY <1>1, <1>3, <2>1, Zenon
<1>6. ReloadedOf(r, m)
  BY <1>1, <1>3, <1>4, <1>5 DEF ReloadedOf, Fielded
<1> QED
  BY <1>6 DEF m

LEMMA ReloadStep ==
  ASSUME MicroInv, NEW kept, Micro!Reload(kept)
  PROVE  MicroInv'
<1>1. mwalk = Micro!Idle /\ UNCHANGED <<mnow, list, mwalk, due, removed>>
  BY DEF Micro!Reload
<1> DEFINE f(t) == IF timer[t].idx = 0 THEN Null ELSE mtcfs'[timer[t].idx]
<1>2. timer' = [t \in Timers |-> IF timer[t] = Micro!Free THEN Micro!Free ELSE [timer[t] EXCEPT !.func = f(t)]]
  BY DEF Micro!Reload
<1>3. \A t \in Timers : timer[t].idx = 0 => f(t) = Null
  OBVIOUS
<1> HIDE DEF f
<1>4. ASSUME NEW t \in Timers
      PROVE  /\ timer'[t] = Micro!Free <=> timer[t] = Micro!Free
             /\ timer'[t] = Micro!Free \/ Fielded(timer'[t])
             /\ timer[t].idx = 0 => timer'[t].idx = 0 /\ timer'[t].func = Null
  <2>1. CASE timer[t] = Micro!Free
    BY <1>2, <2>1, MicroNull
  <2>2. CASE timer[t] # Micro!Free
    <3>1. Fielded(timer[t])
      BY <2>2 DEF MicroInv, MicroShapes
    <3>2. ReloadedOf(timer[t], [timer[t] EXCEPT !.func = f(t)])
      BY <1>3, <3>1, ReloadedRecord
    <3>3. timer'[t] = [timer[t] EXCEPT !.func = f(t)]
      BY <1>2, <2>2
    <3>4. ReloadedOf(timer[t], timer'[t])
      BY <3>2, <3>3
    <3>5. timer[t].idx = 0 => timer'[t].idx = 0 /\ timer'[t].func = Null
      <4>1. timer'[t].func = f(t)
        <5>1. timer[t] = [tv |-> timer[t].tv, owner |-> timer[t].owner, func |-> timer[t].func, idx |-> timer[t].idx]
          BY <3>1 DEF Fielded
        <5> QED
          BY <3>3, <5>1
      <4> QED
        BY <3>4 DEF ReloadedOf
    <3> QED
      BY <2>2, <3>4, <3>5 DEF ReloadedOf
  <2> QED
    BY <2>1, <2>2
<1>5. timer' = [t \in Timers |-> timer'[t]]
  BY <1>2
<1>6. MicroShapes'
  BY <1>1, <1>4, <1>5 DEF MicroInv, MicroShapes
<1>7. MicroLinked'
  BY <1>1, <1>4 DEF MicroInv, MicroLinked
<1>8. MicroHeld'
  <2>1. due' = {}
    BY <1>1, NoneDue
  <2>2. \A t \in removed' : t \in Timers /\ timer'[t].func = Null /\ timer'[t].idx = 0
    BY <1>1, <1>4 DEF MicroInv, MicroHeld
  <2> QED
    BY <2>1, <2>2 DEF MicroHeld
<1>9. Stands(mwalk', list', due')
  BY <1>1 DEF MicroInv
<1> QED
  BY <1>6, <1>7, <1>8, <1>9 DEF MicroInv

\* A walk begins at the first entry; none that is due stands before it.
LEMMA HandleStep ==
  ASSUME MicroInv, MicroAssumption, NEW time \in mnow..MicroTime, Micro!HandleTimer(time)
  PROVE  MicroInv'
<1>1. /\ mnow' = time
      /\ due' = {t \in {list[i] : i \in 1..Len(list)} : timer[t].func # Null /\ time > timer[t].tv}
      /\ mwalk' = Micro!Onto(Micro!First, list)
      /\ UNCHANGED <<list, timer, removed>>
  BY DEF Micro!HandleTimer
<1>2. list \in Seq(Timers) /\ Len(list) \in Nat /\ Distinct(list) /\ time \in Nat
  BY DEF MicroInv, MicroShapes, MicroLinked, MicroAssumption
<1>3. \A i \in 1..Len(list) : list[i] \in Timers
  BY <1>2, ElementOfSeq
<1>4. \A d \in due' : d \in Timers /\ timer[d].func # Null /\ time > timer[d].tv
  BY <1>1, <1>3
<1>5. Stands(mwalk', list, due')
  <2> DEFINE n == Micro!First
             D == due'
  <2>1. IF list = <<>> THEN n = Null ELSE n = list[1]
    BY DEF Micro!First
  <2>2. list = <<>> => Len(list) = 0
    OBVIOUS
  <2>3. list # <<>> => 1 \in 1..Len(list) /\ list[1] # Null
    <3>1. list # <<>> => Len(list) >= 1
      BY <1>2, EmptySeq
    <3> QED
      BY <1>2, <1>3, <3>1, MicroNull
  <2> HIDE DEF n, D
  <2>4. n = Null \/ (1 <= Len(list) /\ n = list[1])
    BY <1>2, <2>1, <2>3
  <2>5. \A j \in 1..Len(list) : list[j] \in D => j >= 1 /\ n # Null
    BY <1>2, <2>1, <2>2, <2>3
  <2>6. Stands(Micro!Onto(n, list), list, D)
    BY <1>2, <2>4, <2>5, GoesOn
  <2> QED
    BY <1>1, <2>6 DEF n, D
<1>6. MicroShapes' /\ MicroLinked'
  BY <1>1, <1>2 DEF MicroInv, MicroShapes, MicroLinked
<1>7. MicroHeld'
  BY <1>1, <1>4 DEF MicroInv, MicroHeld
<1> QED
  BY <1>1, <1>5, <1>6, <1>7 DEF MicroInv

LEMMA VisitRemovedStep == ASSUME MicroInv, Micro!VisitRemoved PROVE MicroInv'
<1>1. /\ mwalk.pc = "visit" /\ timer[mwalk.t].func = Null /\ Micro!Freed(mwalk.t)
      /\ mwalk' = Micro!Onto(mwalk.next, list') /\ UNCHANGED <<mnow, due>>
  BY DEF Micro!VisitRemoved
<1>2. mwalk.t \notin due
  BY <1>1 DEF MicroInv, MicroHeld
<1> QED
  BY <1>1, <1>2, FreedKeeps

LEMMA VisitEarlyStep == ASSUME MicroInv, Micro!VisitEarly PROVE MicroInv'
<1>1. /\ mwalk.pc = "visit" /\ ~(mnow > timer[mwalk.t].tv) /\ mwalk' = Micro!Onto(mwalk.next, list)
      /\ UNCHANGED <<mnow, list, timer, due, removed>>
  BY DEF Micro!VisitEarly, Micro!IsDue
<1>2. mwalk.t \notin due
  BY <1>1 DEF MicroInv, MicroHeld
<1>3. Stands(mwalk', list, due)
  BY <1>1, <1>2, Leaves
<1> QED
  BY <1>1, <1>3 DEF MicroInv, MicroShapes, MicroLinked, MicroHeld

LEMMA CalledRecord ==
  ASSUME NEW w, w = [pc |-> w.pc, t |-> w.t, next |-> w.next]
  PROVE  [w EXCEPT !.pc = "called"] = [pc |-> "called", t |-> w.t, next |-> w.next]
  OBVIOUS

LEMMA CallMicroStep == ASSUME MicroInv, Micro!CallMicro PROVE MicroInv'
<1>1. /\ mwalk.pc = "visit" /\ mwalk' = [mwalk EXCEPT !.pc = "called"] /\ due' = due \ {mwalk.t}
      /\ UNCHANGED <<mnow, list, timer, removed>>
  BY DEF Micro!CallMicro
<1>2. mwalk # Micro!Idle
  BY <1>1 DEF Micro!Idle
<1>3. PICK i \in 1..Len(list) : StandsAt(i, mwalk, list, due)
  BY <1>2 DEF MicroInv, Stands
<1>4. mwalk' = [pc |-> "called", t |-> mwalk.t, next |-> mwalk.next]
  BY <1>1, <1>2, CalledRecord DEF MicroInv, Stands
<1>5. mwalk'.pc = "called" /\ mwalk'.t = mwalk.t /\ mwalk'.next = mwalk.next
  BY <1>4
<1>6. StandsAt(i, mwalk', list, due')
  <2>1. \A j \in 1..Len(list) : list[j] \in due' => j > i /\ (mwalk.next = Null => j <= i)
    <3> SUFFICES ASSUME NEW j \in 1..Len(list), list[j] \in due'
                 PROVE  j > i /\ (mwalk.next = Null => j <= i)
      OBVIOUS
    <3>1. list[j] \in due /\ list[j] # mwalk.t
      BY <1>1
    <3>2. j >= i /\ (mwalk.next = Null => j <= i) /\ mwalk.t = list[i]
      BY <1>1, <1>3, <3>1 DEF StandsAt
    <3>3. j # i
      BY <3>1, <3>2
    <3> QED
      BY <3>2, <3>3
  <2>2. mwalk'.t = list[i] /\ (mwalk'.next = Null \/ (i < Len(list) /\ mwalk'.next = list[i + 1]))
    BY <1>3, <1>5 DEF StandsAt
  <2> QED
    BY <1>5, <2>1, <2>2 DEF StandsAt
<1>7. Stands(mwalk', list', due')
  BY <1>1, <1>4, <1>5, <1>6 DEF Stands
<1> QED
  BY <1>1, <1>7 DEF MicroInv, MicroShapes, MicroLinked, MicroHeld

LEMMA CallReturnsStep ==
  ASSUME MicroInv, NEW again \in BOOLEAN, Micro!CallReturns(again)
  PROVE  MicroInv'
<1>1. /\ mwalk.pc = "called" /\ mwalk' = Micro!Onto(mwalk.next, list') /\ UNCHANGED <<mnow, due>>
      /\ IF again THEN UNCHANGED <<list, timer, removed>> ELSE Micro!Freed(mwalk.t)
  BY DEF Micro!CallReturns
<1>2. CASE again
  <2>1. Stands(mwalk', list, due)
    BY <1>1, <1>2, Leaves
  <2> QED
    BY <1>1, <1>2, <2>1 DEF MicroInv, MicroShapes, MicroLinked, MicroHeld
<1>3. CASE ~again
  BY <1>1, <1>3, FreedKeeps
<1> QED
  BY <1>2, <1>3

LEMMA DestroyStep == ASSUME MicroInv, Micro!Destroy PROVE MicroInv'
<1>1. /\ mwalk = Micro!Idle /\ list' = <<>> /\ timer' = [t \in Timers |-> Micro!Free] /\ removed' = {}
      /\ due' = {} /\ UNCHANGED <<mnow, mwalk>>
  BY DEF Micro!Destroy
<1>2. list' \in Seq(Timers) /\ Len(list') = 0
  BY <1>1
<1> QED
  BY <1>1, <1>2 DEF MicroInv, MicroShapes, MicroLinked, MicroHeld, Stands, Distinct

LEMMA MicroInvariant == MicroAssumption /\ MicroInv /\ [Micro!Next]_micro => MicroInv'
<1>1. ASSUME MicroInv, UNCHANGED micro PROVE MicroInv'
  <2>1. UNCHANGED <<mnow, list, timer, mwalk, due, removed>>
    BY <1>1 DEF micro
  <2> QED
    BY <1>1, <2>1 DEF MicroInv, MicroShapes, MicroLinked, MicroHeld
<1>2. ASSUME MicroAssumption, MicroInv, Micro!Next PROVE MicroInv'
  <2>1. ASSUME NEW t \in Timers, Micro!RemoveMicroTimer(t) PROVE MicroInv'
    BY <1>2, <2>1, ForgetStep DEF Micro!RemoveMicroTimer
  <2>2. ASSUME NEW o, Micro!RemoveMicroTimers(o) PROVE MicroInv'
    BY <1>2, <2>2, ForgetStep DEF Micro!RemoveMicroTimers
  <2> QED
    BY <1>2, <2>1, <2>2, AddStep, ReloadStep, HandleStep, VisitRemovedStep, VisitEarlyStep, CallMicroStep,
       CallReturnsStep, DestroyStep DEF Micro!Next
<1> QED
  BY <1>1, <1>2

LEMMA MicroIsSound == MicroInv => Micro!MicroSound
<1> SUFFICES ASSUME MicroInv PROVE Micro!MicroSound
  OBVIOUS
<1>1. list \in Seq(Timers) /\ DOMAIN list = 1..Len(list) /\ \A i \in 1..Len(list) : list[i] \in Timers
  BY ElementOfSeq, LenProperties DEF MicroInv, MicroShapes
<1>2. Micro!IsInjective(list)
  BY <1>1 DEF Micro!IsInjective, MicroInv, MicroLinked, Distinct
<1>3. Micro!ToSet(list) = {t \in Timers : timer[t] # Micro!Free}
  BY <1>1 DEF Micro!ToSet, MicroInv, MicroLinked
<1>4. ASSUME mwalk # Micro!Idle
      PROVE  /\ {mwalk.t, mwalk.next} \subseteq Micro!ToSet(list) \cup {Null}
             /\ mwalk.pc = "called" => mwalk.t \notin due
  <2>1. PICK i \in 1..Len(list) : StandsAt(i, mwalk, list, due)
    BY <1>4 DEF MicroInv, Stands
  <2>2. mwalk.t = list[i] /\ (mwalk.next = Null \/ (i + 1 \in 1..Len(list) /\ mwalk.next = list[i + 1]))
    BY <2>1 DEF StandsAt
  <2>3. mwalk.pc = "called" => mwalk.t \notin due
    BY <2>1, <2>2 DEF StandsAt
  <2> QED
    BY <1>1, <2>2, <2>3 DEF Micro!ToSet
<1>5. mwalk.pc = "called" => mwalk # Micro!Idle
  BY DEF Micro!Idle
<1>6. \A t \in removed : timer[t].func = Null
  BY DEF MicroInv, MicroHeld
<1> QED
  BY <1>2, <1>3, <1>4, <1>5, <1>6, NoneDue DEF Micro!MicroSound

\* scan_microseconds_timer: whatever its callbacks add, remove and drop, the walk
\* stands on allocated timers, leaves out none that is due and calls none that its
\* client has removed, a reload of the callbacks in between included.
THEOREM MicroSoundAlways == Micro!Spec => []Micro!MicroSound
<1>1. Micro!Init => MicroInv
  BY MicroBegins
<1>2. MicroInv /\ [Micro!Next]_(Micro!vars) => MicroInv'
  BY MicroInvariant, MicroAssumption DEF Micro!vars, micro
<1> QED
  BY <1>1, <1>2, MicroIsSound, PTL DEF Micro!Spec

\* The same on the bench, beside the second timers.
THEOREM BenchMicroAlways == MCSpec => []MCMicroSound
<1>1. MCInit => MicroInv
  BY MicroBegins DEF MCInit
<1>2. MicroInv /\ [MCNext]_<<vars, micro, part>> => MicroInv'
  BY MicroInvariant, MicroAssumption DEF MCNext
<1> QED
  BY <1>1, <1>2, MicroIsSound, PTL DEF MCSpec, MCMicroSound
=============================================================================
