------------------------- MODULE RotatingLogProofs -------------------------
(***************************************************************************)
(* The descriptors of RotatingLog, for any threads: an inductive invariant *)
(* about the mutex and the levels whose file is closed.  And its files, in *)
(* a program of one thread: why rotation never has more than its number of *)
(* them, each record is in the file of its day, and the files go and come  *)
(* in the order of the days.                                               *)
(***************************************************************************)
EXTENDS RotatingLog, FiniteSetTheorems, WellFoundedInduction, TLAPS

Open == {l \in Levels : opfd[l] \notin {NoFd, Closed}}

Types ==
  /\ lvl \in [Threads -> Levels]
  /\ DOMAIN pc = Threads
  /\ opfd = [l \in Levels |-> opfd[l]]
  /\ mutex \in Threads \cup {Nobody}

\* Who is between SHIFT_FD_LOCK and SHIFT_FD_UNLOCK holds the mutex.
Excluded == \A t \in Threads : pc[t] \in {"check", "open"} => mutex = t

\* opfd names a closed descriptor exactly while its thread goes on to open the
\* next file.
ClosedMeansOpening ==
  /\ \A t \in Threads : pc[t] = "open" => opfd[lvl[t]] = Closed
  /\ \A l \in Levels : opfd[l] = Closed => \E t \in Threads : pc[t] = "open" /\ lvl[t] = l

Counted == descriptors = Cardinality(Open)

IInv == Types /\ Excluded /\ ClosedMeansOpening /\ Counted

---------------------------------------------------------------------------
(* Lemmas. *)

LEMMA Distinct == NoFd # Closed
  BY DEF NoFd, Closed

\* The name of a file is neither of the two other values of opfd.
LEMMA PathIsFile ==
  ASSUME NEW l, NEW d PROVE Path(l, d) \notin {NoFd, Closed}
<1>1. DOMAIN Path(l, d) = {"lvl", "date", "seq"}
  BY DEF Path, File
<1>2. DOMAIN NoFd = {"fd"} /\ DOMAIN Closed = {"fd"}
  BY DEF NoFd, Closed
<1> QED BY <1>1, <1>2

LEMMA OpenFinite == IsFiniteSet(Open) /\ Cardinality(Open) \in Nat
<1>1. Open \in SUBSET Levels
  BY DEF Open
<1>2. IsFiniteSet(Levels)
  BY LogAssumption DEF LogAssumption
<1> QED BY <1>1, <1>2, FS_Subset, FS_CardinalityType

\* One level more, or one less, has its file open.
LEMMA OneMore ==
  ASSUME Types, NEW l \in Levels, l \notin Open, NEW f, f \notin {NoFd, Closed},
         opfd' = [opfd EXCEPT ![l] = f]
  PROVE  Cardinality(Open') = Cardinality(Open) + 1
<1>1. Open' = Open \cup {l}
  BY DEF Open, Types, NoFd, Closed
<1> QED BY <1>1, OpenFinite, FS_AddElement

LEMMA OneLess ==
  ASSUME Types, NEW l \in Open, NEW f \in {NoFd, Closed},
         opfd' = [opfd EXCEPT ![l] = f]
  PROVE  Cardinality(Open') = Cardinality(Open) - 1
<1>1. Open' = Open \ {l}
  BY DEF Open, Types, NoFd, Closed
<1> QED BY <1>1, OpenFinite, FS_RemoveElement

LEMMA Unchanged ==
  ASSUME Types, NEW l \in Levels, l \notin Open, NEW f \in {NoFd, Closed},
         opfd' = [opfd EXCEPT ![l] = f]
  PROVE  Open' = Open
  BY DEF Open, Types, NoFd, Closed

\* What open_fd does to the descriptors when it opens a file, and when not.
LEMMA Opens ==
  ASSUME Types, Counted, NEW l \in Levels, l \notin Open, NEW d, OpenFd(l, d)
  PROVE  Counted' /\ opfd' = [opfd EXCEPT ![l] = Path(l, d)]
<1>1. opfd' = [opfd EXCEPT ![l] = Path(l, d)] /\ descriptors' = descriptors + 1
  BY DEF OpenFd
<1>2. Cardinality(Open') = Cardinality(Open) + 1
  BY <1>1, PathIsFile, OneMore
<1> QED BY <1>1, <1>2 DEF Counted

LEMMA Fails ==
  ASSUME Types, Counted, NEW l \in Levels, l \notin Open, OpenFails(l)
  PROVE  Counted' /\ opfd' = [opfd EXCEPT ![l] = NoFd]
<1>1. opfd' = [opfd EXCEPT ![l] = NoFd] /\ descriptors' = descriptors
  BY DEF OpenFails
<1>2. Open' = Open
  BY <1>1, Unchanged
<1> QED BY <1>1, <1>2 DEF Counted

LEMMA InitIInv == Init => IInv
<1> SUFFICES ASSUME Init PROVE IInv
  OBVIOUS
<1>1. Types /\ Excluded /\ ClosedMeansOpening
  BY Distinct DEF Init, Types, Excluded, ClosedMeansOpening
<1>2. Open = {}
  BY DEF Init, Open
<1>3. Counted
  BY <1>2, FS_EmptySet DEF Init, Counted
<1> QED BY <1>1, <1>3 DEF IInv

---------------------------------------------------------------------------
(* The steps of a thread. *)

\* A step of t that leaves the descriptors alone.
LEMMA QuietStep ==
  ASSUME IInv, NEW t \in Threads,
         NEW here \in {"idle", "lock", "check", "write"},
         NEW there \in {"idle", "lock", "check", "write"},
         pc[t] = here, pc' = [pc EXCEPT ![t] = there],
         opfd' = opfd, descriptors' = descriptors,
         lvl' \in [Threads -> Levels], \A u \in Threads : u # t => lvl'[u] = lvl[u],
         \/ here # "check" /\ there # "check" /\ mutex' = mutex
         \/ there = "check" /\ mutex = Nobody /\ mutex' = t
         \/ here = "check" /\ there # "check" /\ mutex' = Nobody
  PROVE  IInv'
<1>1. Types' /\ Counted'
  BY DEF IInv, Types, Counted, Open
<1>2. Nobody \notin Threads
  BY LogAssumption DEF LogAssumption
<1>3. Excluded'
  BY <1>2 DEF IInv, Types, Excluded
<1>4. \A u \in Threads : pc[u] = "open" <=> pc'[u] = "open"
  BY DEF IInv, Types
<1>5. ClosedMeansOpening'
  BY <1>4 DEF IInv, Types, ClosedMeansOpening
<1> QED BY <1>1, <1>3, <1>5 DEF IInv

\* A thread that holds the mutex and has yet to test its file: no level's
\* descriptor is closed and still named.
LEMMA NoneClosed ==
  ASSUME IInv, NEW t \in Threads, pc[t] = "check"
  PROVE  /\ \A l \in Levels : opfd[l] # Closed
         /\ \A u \in Threads : pc[u] # "open"
<1>1. \A u \in Threads : pc[u] # "open"
  BY DEF IInv, Excluded
<1>2. \A l \in Levels : opfd[l] # Closed
  BY <1>1 DEF IInv, ClosedMeansOpening
<1> QED BY <1>1, <1>2

LEMMA OpenFirstStep ==
  ASSUME IInv, NEW t \in Threads, OpenFirst(t)
  PROVE  IInv'
<1>1. /\ pc[t] = "check" /\ opfd[lvl[t]] = NoFd /\ lvl[t] \in Levels
      /\ UNCHANGED <<mutex, pc, lvl>> /\ OpenFd(lvl[t], tm[t])
  BY DEF IInv, Types, OpenFirst, At, thread
<1>2. lvl[t] \notin Open
  BY <1>1 DEF Open
<1>3. Counted' /\ opfd' = [opfd EXCEPT ![lvl[t]] = Path(lvl[t], tm[t])]
  BY <1>1, <1>2, Opens DEF IInv
<1>4. Types' /\ Excluded'
  BY <1>1, <1>3 DEF IInv, Types, Excluded
<1>5. \A l \in Levels : opfd'[l] # Closed
  BY <1>1, <1>3, NoneClosed, PathIsFile DEF IInv, Types
<1>6. \A u \in Threads : pc[u] # "open"
  BY <1>1, NoneClosed
<1>7. ClosedMeansOpening'
  BY <1>1, <1>5, <1>6 DEF ClosedMeansOpening
<1> QED BY <1>3, <1>4, <1>7 DEF IInv

LEMMA OpenFirstFailsStep ==
  ASSUME IInv, NEW t \in Threads, OpenFirstFails(t)
  PROVE  IInv'
<1>1. /\ pc[t] = "check" /\ opfd[lvl[t]] = NoFd /\ lvl[t] \in Levels
      /\ OpenFails(lvl[t]) /\ UNCHANGED lvl
      /\ mutex' = Nobody /\ pc' = [pc EXCEPT ![t] = "idle"]
  BY DEF IInv, Types, OpenFirstFails, GiveUp, At, Goto
<1>2. opfd' = opfd /\ descriptors' = descriptors
  BY <1>1 DEF OpenFails, IInv, Types
<1> QED BY <1>1, <1>2, QuietStep DEF IInv, Types

LEMMA CloseFileStep ==
  ASSUME IInv, NEW t \in Threads, CloseFile(t)
  PROVE  IInv'
<1>1. /\ pc[t] = "check" /\ opfd[lvl[t]] # NoFd /\ lvl[t] \in Levels
      /\ descriptors' = descriptors - 1
      /\ opfd' = [opfd EXCEPT ![lvl[t]] = Closed]
      /\ pc' = [pc EXCEPT ![t] = "open"] /\ UNCHANGED <<mutex, lvl>>
  BY DEF IInv, Types, CloseFile, At, Goto
<1>2. lvl[t] \in Open
  BY <1>1, NoneClosed DEF Open
<1>3. Cardinality(Open') = Cardinality(Open) - 1
  BY <1>1, <1>2, OneLess DEF IInv
<1>4. Counted'
  BY <1>1, <1>3 DEF IInv, Counted
<1>5. Types' /\ Excluded'
  BY <1>1 DEF IInv, Types, Excluded
<1>6. \A u \in Threads : pc[u] # "open"
  BY <1>1, NoneClosed
<1>7. ClosedMeansOpening'
  BY <1>1, <1>6, NoneClosed DEF IInv, Types, ClosedMeansOpening
<1> QED BY <1>4, <1>5, <1>7 DEF IInv

LEMMA OpenNextStep ==
  ASSUME IInv, NEW t \in Threads, OpenNext(t) \/ OpenNextFails(t)
  PROVE  IInv'
<1> DEFINE l == lvl[t]
<1>1. /\ pc[t] = "open" /\ l \in Levels /\ opfd[l] = Closed
      /\ mutex = t /\ mutex' = Nobody /\ UNCHANGED lvl
      /\ pc' \in {[pc EXCEPT ![t] = "write"], [pc EXCEPT ![t] = "idle"]}
      /\ OpenFd(l, tm[t]) \/ OpenFails(l)
  BY DEF IInv, Types, Excluded, ClosedMeansOpening, OpenNext, OpenNextFails, GiveUp, At, Goto
<1>2. l \notin Open
  BY <1>1 DEF Open
<1>3. PICK f : Counted' /\ f # Closed /\ opfd' = [opfd EXCEPT ![l] = f]
  <2>1. CASE OpenFd(l, tm[t])
    BY <1>1, <1>2, <2>1, Opens, PathIsFile DEF IInv
  <2>2. CASE OpenFails(l)
    BY <1>1, <1>2, <2>2, Fails, Distinct DEF IInv
  <2> QED BY <1>1, <2>1, <2>2
<1>4. \A u \in Threads : pc'[u] \notin {"check", "open"}
  BY <1>1 DEF IInv, Types, Excluded
<1>5. \A k \in Levels : opfd'[k] # Closed
  <2>1. \A u \in Threads : pc[u] = "open" => u = t
    BY <1>1 DEF IInv, Excluded
  <2>2. \A k \in Levels : opfd[k] = Closed => k = l
    BY <2>1 DEF IInv, ClosedMeansOpening
  <2> QED BY <1>1, <1>3, <2>2 DEF IInv, Types
<1>6. Types'
  BY <1>1, <1>3 DEF IInv, Types
<1> QED BY <1>3, <1>4, <1>5, <1>6 DEF IInv, Excluded, ClosedMeansOpening

LEMMA ThreadStep ==
  ASSUME IInv, NEW t \in Threads, Step(t)
  PROVE  IInv'
<1>1. CASE Call(t)
  <2>1. /\ pc[t] = "idle" /\ pc' = [pc EXCEPT ![t] = "lock"]
        /\ opfd' = opfd /\ descriptors' = descriptors /\ mutex' = mutex
    BY <1>1 DEF Call, At, Goto, info
  <2>2. PICK l \in Levels : lvl' = [lvl EXCEPT ![t] = l]
    BY <1>1 DEF Call
  <2>3. /\ lvl' \in [Threads -> Levels]
        /\ \A u \in Threads : u # t => lvl'[u] = lvl[u]
    BY <2>2 DEF IInv, Types
  <2> QED BY <2>1, <2>3, QuietStep
<1>2. CASE Lock(t)
  BY <1>2, QuietStep DEF Lock, At, Goto, info, IInv, Types
<1>3. CASE OpenFirst(t)
  BY <1>3, OpenFirstStep
<1>4. CASE OpenFirstFails(t)
  BY <1>4, OpenFirstFailsStep
<1>5. CASE KeepFile(t)
  BY <1>5, QuietStep DEF KeepFile, At, Goto, info, IInv, Types
<1>6. CASE CloseFile(t)
  BY <1>6, CloseFileStep
<1>7. CASE OpenNext(t) \/ OpenNextFails(t)
  BY <1>7, OpenNextStep
<1>8. CASE Write(t)
  BY <1>8, QuietStep DEF Write, At, Goto, info, IInv, Types
<1> QED BY <1>1, <1>2, <1>3, <1>4, <1>5, <1>6, <1>7, <1>8 DEF Step

LEMMA RestartStep == ASSUME IInv, Restart PROVE IInv'
<1>1. /\ opfd' = [l \in Levels |-> NoFd] /\ mutex' = Nobody
      /\ pc' = [t \in Threads |-> "idle"] /\ UNCHANGED lvl
  BY DEF Restart
<1>2. Types' /\ Excluded'
  BY <1>1 DEF IInv, Types, Excluded
<1>3. ClosedMeansOpening'
  BY <1>1, Distinct DEF ClosedMeansOpening
<1>4. Open' = {}
  BY DEF Restart, Open
<1>5. Counted'
  BY <1>4, FS_EmptySet DEF Restart, Counted
<1> QED BY <1>2, <1>3, <1>5 DEF IInv

---------------------------------------------------------------------------

\* Whatever the threads do between SHIFT_FD_LOCK and SHIFT_FD_UNLOCK of shift_fd
\* and wherever the program is started again, the invariant holds.
THEOREM Invariance == Spec => []IInv
<1>1. Init => IInv
  BY InitIInv
<1>2. IInv /\ [Next]_vars => IInv'
  <2> SUFFICES ASSUME IInv, [Next]_vars PROVE IInv'
    OBVIOUS
  <2>1. ASSUME NEW t \in Threads, Step(t) PROVE IInv'
    BY <2>1, ThreadStep
  <2>2. CASE Restart
    BY <2>2, RestartStep
  <2>3. CASE Midnight \/ UNCHANGED vars
    BY <2>3 DEF Midnight, vars, thread, info, IInv, Types, Excluded,
                ClosedMeansOpening, Counted, Open
  <2> QED BY <2>1, <2>2, <2>3 DEF Next, Over
<1> QED BY <1>1, <1>2, PTL DEF Spec

\* However many threads write however many levels, and wherever open fails or
\* the program is started again, there is one open descriptor for each level
\* whose opfd names one.
THEOREM OneDescriptorAlways == Spec => []OneDescriptor
<1>1. IInv => OneDescriptor
  BY DEF IInv, Types, Counted, Open, OneDescriptor
<1> QED BY <1>1, Invariance, PTL

---------------------------------------------------------------------------
(* The types, for any threads. *)

AllFiles == [lvl : Levels, date : Nat, seq : Nat]

Whole ==
  /\ TypeOK
  /\ config \in Nat /\ interval \in Nat /\ 0 \in {config, interval}
  /\ calls \in 0..PerDay
  /\ IsFiniteSet(DOMAIN disk) /\ disk \in [DOMAIN disk -> Nat]

LEMMA MinIs ==
  ASSUME NEW S \in SUBSET Nat, S # {}
  PROVE  Min(S) \in S /\ \A n \in S : Min(S) <= n
<1> DEFINE T == {0..n : n \in S}
<1>1. T # {} /\ T \subseteq FiniteSubsetsOf(Nat)
  <2>1. \A n \in S : 0..n \subseteq Nat /\ IsFiniteSet(0..n)
    BY FS_Interval
  <2> QED BY <2>1 DEF FiniteSubsetsOf
<1>2. \E x \in T : \A y \in T : ~(<<y, x>> \in StrictSubsetOrdering(Nat))
  <2> HIDE DEF T
  <2> QED BY <1>1, FS_StrictSubsetOrderingWellFounded, WFMin
<1>3. PICK m \in S : \A k \in S : ~(<<0..k, 0..m>> \in StrictSubsetOrdering(Nat))
  BY <1>2
<1>4. \A k \in S : m <= k
  <2> SUFFICES ASSUME NEW k \in S, k < m PROVE FALSE
    OBVIOUS
  <2>1. m \in 0..m /\ m \notin 0..k
    OBVIOUS
  <2>2. 0..k \subseteq 0..m /\ 0..k # 0..m /\ 0..k \in SUBSET Nat /\ 0..m \in SUBSET Nat
    BY <2>1
  <2> QED BY <1>3, <2>2 DEF StrictSubsetOrdering
<1> QED BY <1>4 DEF Min

LEMMA MaxIs ==
  ASSUME NEW S \in SUBSET Nat, IsFiniteSet(S), S # {}
  PROVE  Max(S) \in S /\ \A n \in S : n <= Max(S)
<1> DEFINE from(n) == {k \in S : n <= k}
           T == {from(n) : n \in S}
<1>1. T # {} /\ T \subseteq FiniteSubsetsOf(S)
  <2>1. \A n \in S : from(n) \in SUBSET S
    OBVIOUS
  <2>2. \A n \in S : IsFiniteSet(from(n))
    <3> HIDE DEF from
    <3> QED BY <2>1, FS_Subset
  <2> HIDE DEF from
  <2> QED BY <2>1, <2>2 DEF FiniteSubsetsOf
<1>2. \E x \in T : \A y \in T : ~(<<y, x>> \in StrictSubsetOrdering(S))
  <2> HIDE DEF T
  <2> QED BY <1>1, FS_StrictSubsetOrderingWellFounded, WFMin
<1>3. PICK m \in S : \A k \in S : ~(<<from(k), from(m)>> \in StrictSubsetOrdering(S))
  <2> HIDE DEF from
  <2> QED BY <1>2
<1>4. \A k \in S : k <= m
  <2> SUFFICES ASSUME NEW k \in S, m < k PROVE FALSE
    OBVIOUS
  <2>1. m \in from(m) /\ m \notin from(k)
    OBVIOUS
  <2>2. from(k) # from(m) /\ from(k) \in SUBSET S /\ from(m) \in SUBSET S
    BY <2>1
  <2>3. \A j \in S : k <= j => m <= j
    OBVIOUS
  <2>4. from(k) \subseteq from(m)
    BY <2>3
  <2> HIDE DEF from
  <2> QED BY <1>3, <2>2, <2>4 DEF StrictSubsetOrdering
<1> QED BY <1>4 DEF Max

\* The period of a day, and of a later one.
LEMMA PeriodIs ==
  ASSUME interval \in Nat, NEW d \in Nat
  PROVE  Period(d) \in Nat /\ \A e \in Nat : d <= e => Period(d) <= Period(e)
<1>1. CASE interval = 0
  BY <1>1 DEF Period
<1>2. CASE interval # 0
  <2>1. \A e \in Nat : e \div interval \in Nat
    BY <1>2
  <2>2. \A e \in Nat : d <= e => d \div interval <= e \div interval
    BY <1>2
  <2> QED BY <1>2, <2>1, <2>2 DEF Period
<1> QED BY <1>1, <1>2

LEMMA NamesFinite ==
  ASSUME Whole, NEW l
  PROVE  /\ IsFiniteSet(Names(l)) /\ Cardinality(Names(l)) \in Nat
         /\ \A f \in Names(l) : f \in DOMAIN disk /\ f \in AllFiles /\ f.lvl = l /\ f.date \in Nat /\ f.seq \in Nat
<1>1. Names(l) \in SUBSET DOMAIN disk /\ \A f \in Names(l) : f.lvl = l
  BY DEF Names
<1>2. \A f \in DOMAIN disk : f \in AllFiles /\ f.date \in Nat /\ f.seq \in Nat
  BY DEF Whole, TypeOK, AllFiles
<1> QED BY <1>1, <1>2, FS_Subset, FS_CardinalityType DEF Whole

\* get_log_seq_recycle and get_log_seq_nonrecycle return a number; the former
\* the greatest of the day if there are files of it, the latter none below a
\* number up to which there is no gap.
LEMMA RecycleIs ==
  ASSUME Whole, NEW l, config # 0
  PROVE  /\ SeqRecycle(l) \in 0..(config - 1)
         /\ today \in {f.date : f \in Names(l)} /\ (\A f \in Names(l) : f.date <= today /\ f.seq < config)
              => \E f \in Names(l) : f.date = today /\ f.seq = SeqRecycle(l)
<1> DEFINE dates == {f.date : f \in Names(l)}
           date == Max(dates)
           last1 == {f \in Names(l) : f.date = date}
           seqs == {f.seq : f \in last1}
<1>1. /\ IsFiniteSet(Names(l)) /\ config \in Nat \ {0} /\ today \in Nat
      /\ \A f \in Names(l) : f.date \in Nat /\ f.seq \in Nat
  BY NamesFinite DEF Whole, TypeOK
<1>2. IsFiniteSet(dates) /\ dates \in SUBSET Nat
  <2> DEFINE g == [f \in Names(l) |-> f.date]
  <2>1. g \in Surjection(Names(l), dates)
    BY DEF Surjection
  <2> HIDE DEF g
  <2> QED BY <1>1, <2>1, FS_Surjection
<1>3. IsFiniteSet(seqs) /\ seqs \in SUBSET Nat
  <2> DEFINE g == [f \in last1 |-> f.seq]
  <2>1. g \in Surjection(last1, seqs)
    BY DEF Surjection
  <2>2. last1 \in SUBSET Names(l)
    OBVIOUS
  <2> HIDE DEF g, last1
  <2>3. IsFiniteSet(last1)
    BY <1>1, <2>2, FS_Subset
  <2>4. seqs \in SUBSET Nat
    BY <1>1, <2>2
  <2> QED BY <2>1, <2>3, <2>4, FS_Surjection
<1>4. SeqRecycle(l) = IF Names(l) = {} THEN 0
                      ELSE (IF date = today THEN Max(seqs) ELSE Max(seqs) + 1) % config
  BY DEF SeqRecycle
<1>5. ASSUME Names(l) # {}
      PROVE  /\ date \in dates /\ \A n \in dates : n <= date
             /\ Max(seqs) \in seqs /\ Max(seqs) \in Nat
  <2>1. dates # {}
    BY <1>5
  <2>2. date \in dates /\ \A n \in dates : n <= date
    <3> HIDE DEF dates
    <3> QED BY <1>2, <2>1, MaxIs
  <2>3. seqs # {}
    BY <2>2
  <2>4. Max(seqs) \in seqs
    <3> HIDE DEF seqs
    <3> QED BY <1>3, <2>3, MaxIs
  <2> HIDE DEF dates, seqs, last1
  <2> QED BY <1>3, <2>2, <2>4
<1>6. SeqRecycle(l) \in 0..(config - 1)
  <2> HIDE DEF dates, date, seqs
  <2>1. \A n \in Nat : n % config \in 0..(config - 1)
    BY <1>1
  <2>2. 0 \in 0..(config - 1)
    BY <1>1
  <2> QED BY <1>4, <1>5, <2>1, <2>2
<1>7. ASSUME today \in dates, \A f \in Names(l) : f.date <= today /\ f.seq < config
      PROVE  \E f \in Names(l) : f.date = today /\ f.seq = SeqRecycle(l)
  <2>1. Names(l) # {}
    BY <1>7
  <2>2. date = today
    <3>1. today <= date /\ date \in dates
      BY <1>5, <1>7, <2>1
    <3>2. date <= today /\ date \in Nat
      BY <1>2, <1>7, <3>1
    <3> HIDE DEF date
    <3> QED BY <1>1, <3>1, <3>2
  <2>3. PICK f \in last1 : f.seq = Max(seqs)
    BY <1>5, <2>1
  <2>4. f \in Names(l) /\ f.date = today /\ f.seq < config
    BY <1>7, <2>2, <2>3
  <2> HIDE DEF date, seqs, last1
  <2>5. \A n \in Nat : n < config => n % config = n
    BY <1>1
  <2> QED BY <1>1, <1>4, <2>1, <2>2, <2>3, <2>4, <2>5
<1> QED BY <1>6, <1>7

LEMMA NonrecycleIs ==
  ASSUME Whole, NEW l
  PROVE  /\ SeqNonrecycle(l) \in Nat
         /\ \A m \in Nat : (\A n \in 0..m : File(l, today, n) \in DOMAIN disk) => m <= SeqNonrecycle(l)
<1> DEFINE c == Cardinality(Names(l))
           S == {n \in 0..c : File(l, today, n) \notin DOMAIN disk}
<1>1. IsFiniteSet(Names(l)) /\ c \in Nat
  BY NamesFinite
<1>2. S # {}
  <2> SUFFICES ASSUME S = {} PROVE FALSE
    OBVIOUS
  <2>1. \A n \in 0..c : File(l, today, n) \in Names(l)
    BY DEF Names, File
  <2> DEFINE f == [n \in 0..c |-> File(l, today, n)]
  <2>2. f \in [0..c -> Names(l)]
    BY <2>1
  <2>3. IsFiniteSet(0..c) /\ Cardinality(0..c) = c + 1
    BY <1>1, FS_Interval
  <2> HIDE DEF f
  <2>4. \E x, y \in 0..c : x # y /\ f[x] = f[y]
    BY <1>1, <2>2, <2>3, FS_PigeonHole
  <2> QED BY <2>4 DEF f, File
<1>3. S \in SUBSET Nat /\ SeqNonrecycle(l) = IF Min(S) = 0 THEN 0 ELSE Min(S) - 1
  BY <1>1 DEF SeqNonrecycle
<1>4. Min(S) \in S
  <2> HIDE DEF S
  <2> QED BY <1>2, <1>3, MinIs
<1>5. Min(S) \in Nat /\ File(l, today, Min(S)) \notin DOMAIN disk
  <2>1. Min(S) \in Nat
    <3> HIDE DEF S
    <3> QED BY <1>3, <1>4
  <2> QED BY <1>4, <2>1
<1>6. ASSUME NEW m \in Nat, \A n \in 0..m : File(l, today, n) \in DOMAIN disk
      PROVE  m < Min(S)
  <2> HIDE DEF S
  <2> QED BY <1>5, <1>6
<1> HIDE DEF S
<1> QED BY <1>3, <1>5, <1>6

LEMMA PathFile ==
  ASSUME Whole, NEW l \in Levels, NEW d \in Nat
  PROVE  /\ Path(l, d) \in AllFiles /\ Path(l, d).lvl = l
         /\ interval = 0 => Path(l, d) = File(l, d, seq[l])
         /\ interval # 0 => Path(l, d).date = Period(today)
<1>1. interval \in Nat /\ today \in Nat /\ seq[l] \in Nat
  BY DEF Whole, TypeOK
<1>2. Period(today) \in Nat
  BY <1>1, PeriodIs
<1> QED BY <1>1, <1>2 DEF Path, File, AllFiles

\* What open_fd does to the directory: at most one file goes, of the same level
\* and number, and the one that is opened is there.
Goes(f, gone) ==
  /\ gone \subseteq Removable(f)
  /\ maxFiles' # 0 => gone # {} \/ Removable(f) = {}
  /\ \A g, h \in gone : g = h

LEMMA OpenDisk ==
  ASSUME Whole, NEW l \in Levels, NEW d \in Nat, OpenFd(l, d)
  PROVE  \E gone :
           /\ Goes(Path(l, d), gone)
           /\ DOMAIN disk' = (DOMAIN disk \ gone) \cup {Path(l, d)}
           /\ \A g \in DOMAIN disk \ gone : disk'[g] = disk[g]
           /\ Path(l, d) \notin DOMAIN disk => disk'[Path(l, d)] = 0
           /\ disk' \in [DOMAIN disk' -> Nat]
           /\ IsFiniteSet(DOMAIN disk')
<1>1. PICK f : f = Path(l, d)
  OBVIOUS
<1>2. PICK gone \in (IF maxFiles' = 0 THEN {{}} ELSE Removals(f)) :
        disk' = Touched(Without(disk, gone), f)
  BY <1>1 DEF OpenFd
<1>3. Goes(f, gone)
  BY <1>2 DEF Goes, Removals
<1>4. f \notin gone
  BY <1>3 DEF Goes, Removable
<1>5. Without(disk, gone) = [g \in DOMAIN disk \ gone |-> disk[g]]
  BY DEF Without
<1>6. disk' = [g \in (DOMAIN disk \ gone) \cup {f} |-> IF g \in DOMAIN disk \ gone THEN disk[g] ELSE 0]
  BY <1>2, <1>5 DEF Touched
<1>7. disk \in [DOMAIN disk -> Nat] /\ IsFiniteSet(DOMAIN disk)
  BY DEF Whole
<1>8. DOMAIN disk' = (DOMAIN disk \ gone) \cup {f}
  BY <1>6
<1>9. IsFiniteSet(DOMAIN disk')
  <2>1. (DOMAIN disk \ gone) \in SUBSET DOMAIN disk
    OBVIOUS
  <2>2. IsFiniteSet(DOMAIN disk \ gone)
    BY <1>7, <2>1, FS_Subset
  <2> QED BY <1>8, <2>2, FS_AddElement
<1> QED BY <1>1, <1>3, <1>4, <1>6, <1>7, <1>8, <1>9

\* open_fd keeps the types.
LEMMA OpenWhole ==
  ASSUME Whole, NEW l \in Levels, NEW d \in 1..MaxDay, OpenFd(l, d)
  PROVE  /\ DOMAIN disk' \subseteq AllFiles /\ disk' \in [DOMAIN disk' -> Nat] /\ IsFiniteSet(DOMAIN disk')
         /\ seq' \in [Levels -> Nat] /\ count' \in [Levels -> Nat]
         /\ opfd' \in [Levels -> AllFiles \cup {NoFd, Closed}]
         /\ day' \in [Levels -> 0..MaxDay] /\ maxFiles' \in {0, config}
<1>1. d \in Nat
  OBVIOUS
<1>2. PICK f : f = Path(l, d) /\ f \in AllFiles
  BY <1>1, PathFile
<1>3. /\ seq \in [Levels -> Nat] /\ count \in [Levels -> Nat] /\ day \in [Levels -> 0..MaxDay]
      /\ opfd \in [Levels -> AllFiles \cup {NoFd, Closed}] /\ DOMAIN disk \subseteq AllFiles
      /\ config \in Nat /\ maxFiles \in {0, config}
  BY DEF Whole, TypeOK, AllFiles
<1>4. PICK limit, nth, overflow :
        /\ limit \in {0, config} /\ nth \in Nat
        /\ opfd' = [opfd EXCEPT ![l] = f] /\ day' = [day EXCEPT ![l] = d]
        /\ count' = [count EXCEPT ![l] = nth]
        /\ maxFiles' = IF overflow THEN 0 ELSE limit
        /\ seq' = IF overflow THEN [seq EXCEPT ![l] = limit] ELSE seq
  <2>1. /\ (IF day[l] # d THEN config ELSE maxFiles) \in {0, config}
        /\ (IF day[l] # d THEN 1 ELSE count[l] + 1) \in Nat
    BY <1>3
  <2> QED BY <1>2, <2>1 DEF OpenFd
<1>5. \E gone : DOMAIN disk' = (DOMAIN disk \ gone) \cup {f} /\ disk' \in [DOMAIN disk' -> Nat] /\ IsFiniteSet(DOMAIN disk')
  BY <1>1, <1>2, OpenDisk
<1>6. DOMAIN disk' \subseteq AllFiles
  BY <1>2, <1>3, <1>5
<1> QED BY <1>2, <1>3, <1>4, <1>5, <1>6

\* What open_fd leaves alone, and what a call of open that fails does.
LEMMA OpenStep ==
  ASSUME Whole, IInv', NEW t \in Threads, OpenFd(lvl[t], tm[t]) \/ OpenFails(lvl[t]),
         UNCHANGED <<setup, today, lvl, tm, calls>>,
         NEW there \in {"idle", "lock", "check", "open", "write"}, pc' = [pc EXCEPT ![t] = there]
  PROVE  Whole'
<1>1. /\ lvl[t] \in Levels /\ tm[t] \in 1..MaxDay
      /\ pc' \in [Threads -> {"idle", "lock", "check", "open", "write"}]
  BY DEF Whole, TypeOK
<1>2. mutex' \in Threads \cup {Nobody} /\ descriptors' \in Nat
  <2>1. Cardinality(Open)' \in Nat
    <3>1. Open' \in SUBSET Levels /\ IsFiniteSet(Levels)
      BY LogAssumption DEF Open, LogAssumption
    <3> QED BY <3>1, FS_Subset, FS_CardinalityType
  <2> QED BY <2>1 DEF IInv, Types, Counted
<1>3. CASE OpenFd(lvl[t], tm[t])
  <2>1. /\ DOMAIN disk' \subseteq AllFiles /\ disk' \in [DOMAIN disk' -> Nat] /\ IsFiniteSet(DOMAIN disk')
        /\ seq' \in [Levels -> Nat] /\ count' \in [Levels -> Nat]
        /\ opfd' \in [Levels -> AllFiles \cup {NoFd, Closed}]
        /\ day' \in [Levels -> 0..MaxDay] /\ maxFiles' \in {0, config}
    BY <1>1, <1>3, OpenWhole
  <2> QED BY <1>1, <1>2, <2>1 DEF Whole, TypeOK, AllFiles, setup
<1>4. CASE OpenFails(lvl[t])
  <2>1. /\ UNCHANGED <<disk, seq, day, count, maxFiles>>
        /\ opfd' \in [Levels -> AllFiles \cup {NoFd, Closed}]
    BY <1>1, <1>4 DEF OpenFails, Whole, TypeOK, AllFiles
  <2> QED BY <1>1, <1>2, <2>1 DEF Whole, TypeOK, AllFiles, setup
<1> QED BY <1>3, <1>4

LEMMA InitWhole == Init => Whole
<1> SUFFICES ASSUME Init PROVE Whole
  OBVIOUS
<1>1. /\ config \in Nat /\ interval \in Nat /\ 0 \in {config, interval} /\ MaxDay \in Nat \ {0}
      /\ today = 1 /\ PerDay \in Nat /\ calls = 0
  BY LogAssumption DEF Init, LogAssumption
<1>2. Period(1) \in Nat
  BY <1>1, PeriodIs
<1>3. DOMAIN disk = {} /\ IsFiniteSet(DOMAIN disk) /\ disk \in [DOMAIN disk -> Nat]
  BY FS_EmptySet DEF Init
<1>4. TypeOK
  BY <1>1, <1>2, <1>3 DEF Init, TypeOK
<1> QED BY <1>1, <1>3, <1>4 DEF Whole

LEMMA StepWhole ==
  ASSUME Whole, IInv, IInv', NEW t \in Threads, Step(t)
  PROVE  Whole'
<1>1. /\ lvl[t] \in Levels /\ tm[t] \in 1..MaxDay /\ pc \in [Threads -> {"idle", "lock", "check", "open", "write"}]
      /\ lvl \in [Threads -> Levels] /\ tm \in [Threads -> 1..MaxDay] /\ today \in 1..MaxDay
  BY DEF Whole, TypeOK
<1>2. mutex' \in Threads \cup {Nobody} /\ descriptors' \in Nat
  <2>1. Cardinality(Open)' \in Nat
    <3>1. Open' \in SUBSET Levels /\ IsFiniteSet(Levels)
      BY LogAssumption DEF Open, LogAssumption
    <3> QED BY <3>1, FS_Subset, FS_CardinalityType
  <2> QED BY <2>1 DEF IInv, Types, Counted
<1>3. CASE Call(t)
  <2>1. /\ calls' \in 0..PerDay /\ tm' \in [Threads -> 1..MaxDay] /\ lvl' \in [Threads -> Levels]
        /\ pc' \in [Threads -> {"idle", "lock", "check", "open", "write"}]
    <3>1. calls' \in 0..PerDay
      BY <1>3, LogAssumption DEF Whole, Call, LogAssumption
    <3>2. \E l \in Levels : lvl' = [lvl EXCEPT ![t] = l]
      BY <1>3 DEF Call
    <3> QED BY <1>1, <1>3, <3>1, <3>2 DEF Call, Goto
  <2>2. UNCHANGED <<config, interval, today, disk, seq, opfd, day, count, maxFiles>>
    BY <1>3 DEF Call, setup, info
  <2> QED BY <1>2, <2>1, <2>2 DEF Whole, TypeOK
<1>4. CASE Lock(t) \/ KeepFile(t)
  <2>1. /\ pc' \in [Threads -> {"idle", "lock", "check", "open", "write"}]
        /\ UNCHANGED <<config, interval, today, disk, seq, opfd, day, count, maxFiles, lvl, tm, calls>>
    BY <1>1, <1>4 DEF Lock, KeepFile, Goto, setup, info
  <2> QED BY <1>2, <2>1 DEF Whole, TypeOK
<1>5. CASE OpenFirst(t)
  <2>1. pc' = [pc EXCEPT ![t] = pc[t]]
    BY <1>1, <1>5 DEF OpenFirst, thread
  <2>2. OpenFd(lvl[t], tm[t]) /\ UNCHANGED <<setup, today, lvl, tm, calls>>
    BY <1>5 DEF OpenFirst, thread
  <2> QED BY <1>1, <2>1, <2>2, OpenStep
<1>6. CASE OpenFirstFails(t) \/ OpenNextFails(t)
  <2>1. OpenFails(lvl[t]) /\ UNCHANGED <<setup, today, lvl, tm, calls>> /\ pc' = [pc EXCEPT ![t] = "idle"]
    BY <1>6 DEF OpenFirstFails, OpenNextFails, GiveUp, Goto
  <2> QED BY <2>1, OpenStep
<1>7. CASE OpenNext(t)
  <2>1. OpenFd(lvl[t], tm[t]) /\ UNCHANGED <<setup, today, lvl, tm, calls>> /\ pc' = [pc EXCEPT ![t] = "write"]
    BY <1>7 DEF OpenNext, Goto
  <2> QED BY <2>1, OpenStep
<1>8. CASE CloseFile(t)
  <2>1. NextSeq(lvl[t], tm[t]) \in Nat
    <3>1. /\ interval \in Nat /\ today \in Nat /\ seq[lvl[t]] \in Nat /\ maxFiles \in Nat
      BY <1>1 DEF Whole, TypeOK
    <3>2. Period(today) \in Nat
      BY <3>1, PeriodIs
    <3>3. maxFiles # 0 => (seq[lvl[t]] + 1) % maxFiles \in Nat
      BY <3>1
    <3> QED BY <3>1, <3>2, <3>3 DEF NextSeq
  <2>2. /\ opfd' = [opfd EXCEPT ![lvl[t]] = Closed]
        /\ seq' = [seq EXCEPT ![lvl[t]] = NextSeq(lvl[t], tm[t])]
        /\ pc' = [pc EXCEPT ![t] = "open"]
        /\ UNCHANGED <<config, interval, today, disk, day, count, maxFiles, lvl, tm, calls>>
    BY <1>8 DEF CloseFile, Goto, setup
  <2>3. /\ opfd' \in [Levels -> [lvl : Levels, date : Nat, seq : Nat] \cup {NoFd, Closed}]
        /\ seq' \in [Levels -> Nat]
        /\ pc' \in [Threads -> {"idle", "lock", "check", "open", "write"}]
    BY <1>1, <2>1, <2>2 DEF Whole, TypeOK
  <2> QED BY <1>2, <2>2, <2>3 DEF Whole, TypeOK
<1>9. CASE Write(t)
  <2>1. /\ pc' \in [Threads -> {"idle", "lock", "check", "open", "write"}]
        /\ UNCHANGED <<config, interval, today, seq, opfd, day, count, maxFiles, lvl, tm, calls>>
    BY <1>1, <1>9 DEF Write, Goto, setup, info
  <2>2. DOMAIN disk' = DOMAIN disk /\ disk' \in [DOMAIN disk -> Nat]
    <3>1. PICK f : disk' = disk \/ disk' = [disk EXCEPT ![f] = @ + 1]
      BY <1>9 DEF Write
    <3> QED BY <3>1 DEF Whole
  <2> QED BY <1>2, <2>1, <2>2 DEF Whole, TypeOK
<1> QED BY <1>3, <1>4, <1>5, <1>6, <1>7, <1>8, <1>9 DEF Step

LEMMA RestartWhole ==
  ASSUME Whole, Restart PROVE Whole'
<1>1. \A l \in Levels : InitialSeq(l) \in Nat
  <2>1. /\ interval \in Nat /\ today \in Nat /\ config \in Nat
    BY DEF Whole, TypeOK
  <2>2. Period(today) \in Nat
    BY <2>1, PeriodIs
  <2>3. \A l : config # 0 => SeqRecycle(l) \in Nat
    <3>1. \A l : config # 0 => SeqRecycle(l) \in 0..(config - 1)
      BY RecycleIs
    <3> QED BY <2>1, <3>1
  <2>4. \A l : SeqNonrecycle(l) \in Nat
    BY NonrecycleIs
  <2> QED BY <2>2, <2>3, <2>4 DEF InitialSeq
<1>2. /\ opfd' = [l \in Levels |-> NoFd] /\ seq' = [l \in Levels |-> InitialSeq(l)]
      /\ day' = [l \in Levels |-> 0] /\ count' = [l \in Levels |-> 0]
      /\ maxFiles' = config /\ mutex' = Nobody
      /\ pc' = [t \in Threads |-> "idle"]
      /\ descriptors' = 0
      /\ UNCHANGED <<config, interval, today, disk, lvl, tm, calls>>
  BY DEF Restart, setup
<1>3. /\ seq' \in [Levels -> Nat] /\ count' \in [Levels -> Nat] /\ day' \in [Levels -> 0..MaxDay]
      /\ opfd' \in [Levels -> [lvl : Levels, date : Nat, seq : Nat] \cup {NoFd, Closed}]
      /\ pc' \in [Threads -> {"idle", "lock", "check", "open", "write"}]
  BY <1>1, <1>2, LogAssumption DEF LogAssumption
<1> QED BY <1>2, <1>3 DEF Whole, TypeOK

LEMMA WholeKept ==
  ASSUME Whole, IInv, IInv', [Next]_vars PROVE Whole'
<1>1. ASSUME NEW t \in Threads, Step(t) PROVE Whole'
  BY <1>1, StepWhole
<1>2. CASE Restart
  BY <1>2, RestartWhole
<1>3. CASE Midnight
  <2>1. /\ today' \in 1..MaxDay /\ calls' \in 0..PerDay
        /\ UNCHANGED <<config, interval, disk, seq, opfd, day, count, maxFiles, mutex, pc, lvl, tm, descriptors>>
    BY <1>3, LogAssumption DEF Midnight, Whole, TypeOK, setup, info, thread, LogAssumption
  <2> QED BY <2>1 DEF Whole, TypeOK
<1>4. CASE UNCHANGED vars
  <2>1. UNCHANGED <<config, interval, today, calls, disk, seq, opfd, day, count, maxFiles, mutex, pc, lvl, tm, descriptors>>
    BY <1>4 DEF vars, setup, info, thread
  <2> QED BY <2>1 DEF Whole, TypeOK
<1> QED BY <1>1, <1>2, <1>3, <1>4 DEF Next, Over

\* Whatever the directory holds when the program is started again, the numbers
\* of the files, the days and the descriptors are what the types say.
THEOREM TypesAlways == Spec => [](Whole /\ TypeOK)
<1>1. Init => Whole
  BY InitWhole
<1>2. Whole /\ IInv /\ IInv' /\ [Next]_vars => Whole'
  BY WholeKept
<1>3. Whole => TypeOK
  BY DEF Whole
<1> QED BY <1>1, <1>2, <1>3, Invariance, PTL DEF Spec

---------------------------------------------------------------------------
(* One thread: the day of a record. *)

Only == \A s, t \in Threads : s = t
Me == CHOOSE t \in Threads : TRUE

InUse(l) == opfd[l] \notin {NoFd, Closed}

\* The file in use is of the day its level is at, or of a period that has come
\* by now; while a record is about to be written, of the record's.
Dated ==
  /\ tm[Me] <= today /\ last.made \in Nat
  /\ \A l \in Levels :
       /\ interval # 0 => seq[l] <= Period(today)
       /\ InUse(l) =>
            IF interval = 0 THEN opfd[l].date = day[l]
            ELSE seq[l] <= opfd[l].date /\ opfd[l].date <= Period(today)
  /\ pc[Me] = "write" /\ InUse(lvl[Me]) =>
       IF interval = 0 THEN opfd[lvl[Me]].date = tm[Me]
       ELSE Period(tm[Me]) <= opfd[lvl[Me]].date
  /\ InItsDay

LEMMA OneThread == Only => Threads = {Me}
  BY LogAssumption DEF Only, Me, LogAssumption

LEMMA FileIsInUse == \A f \in AllFiles : f \notin {NoFd, Closed}
<1> SUFFICES ASSUME NEW f \in AllFiles PROVE f \notin {NoFd, Closed}
  OBVIOUS
<1>1. DOMAIN f = {"lvl", "date", "seq"}
  BY DEF AllFiles
<1>2. DOMAIN NoFd = {"fd"} /\ DOMAIN Closed = {"fd"}
  BY DEF NoFd, Closed
<1> QED BY <1>1, <1>2

LEMMA InitDated == Init => Dated
<1> SUFFICES ASSUME Init PROVE Dated
  OBVIOUS
<1>1. Me \in Threads /\ interval \in Nat
  BY LogAssumption DEF Me, Init, LogAssumption
<1>2. Period(1) \in Nat
  BY <1>1, PeriodIs
<1>3. ~InFile(last)
  BY DEF Init, InFile
<1> QED BY <1>1, <1>2, <1>3 DEF Init, Dated, InUse, InItsDay

\* The facts that the steps below need of the types.
LEMMA Facts ==
  ASSUME Whole, Only
  PROVE  /\ Me \in Threads /\ Threads = {Me} /\ lvl[Me] \in Levels
         /\ tm[Me] \in 1..MaxDay /\ today \in 1..MaxDay /\ tm[Me] \in Nat /\ today \in Nat
         /\ MaxDay \in Nat /\ config \in Nat /\ interval \in Nat
         /\ interval # 0 => maxFiles = 0
         /\ \A l \in Levels : seq[l] \in Nat /\ day[l] \in Nat /\ count[l] \in Nat
         /\ \A l \in Levels : InUse(l) => opfd[l] \in AllFiles
         /\ \A d \in Nat : Period(d) \in Nat
         /\ \A d, e \in Nat : d <= e => Period(d) <= Period(e)
<1>1. Threads = {Me} /\ Me \in Threads
  BY OneThread
<1>2. /\ config \in Nat /\ interval \in Nat /\ (interval # 0 => maxFiles = 0)
      /\ \A l \in Levels : InUse(l) => opfd[l] \in AllFiles
  BY DEF Whole, TypeOK, AllFiles, InUse
<1>3. \A d \in Nat : Period(d) \in Nat /\ \A e \in Nat : d <= e => Period(d) <= Period(e)
  BY <1>2, PeriodIs
<1> QED BY <1>1, <1>2, <1>3, LogAssumption DEF Whole, TypeOK, LogAssumption

\* open_fd, in a program that names its files by period: no number is spent.
LEMMA OpenDated ==
  ASSUME Whole, Only, Dated, OpenFd(lvl[Me], tm[Me]),
         UNCHANGED <<setup, today, lvl, tm, last>>,
         pc' = pc \/ pc' = [pc EXCEPT ![Me] = "write"]
  PROVE  Dated'
<1> DEFINE l == lvl[Me]
<1>1. /\ opfd' = [opfd EXCEPT ![l] = Path(l, tm[Me])] /\ day' = [day EXCEPT ![l] = tm[Me]]
      /\ interval # 0 => seq' = seq
  BY Facts DEF OpenFd
<1>2. /\ interval = 0 => Path(l, tm[Me]).date = tm[Me]
      /\ interval # 0 => Path(l, tm[Me]).date = Period(today)
  BY Facts, PathFile DEF File
<1>3. /\ \A k \in Levels : opfd'[k] = IF k = l THEN Path(l, tm[Me]) ELSE opfd[k]
      /\ \A k \in Levels : day'[k] = IF k = l THEN tm[Me] ELSE day[k]
  BY <1>1, Facts DEF Whole, TypeOK
<1>4. Period(tm[Me]) <= Period(today)
  BY Facts DEF Dated
<1>5. UNCHANGED <<interval, today, lvl, tm, last>>
  BY DEF setup
<1>6. \A d : Period(d)' = Period(d)
  BY <1>5 DEF Period
<1>7. InItsDay'
  BY <1>5, <1>6 DEF Dated, InItsDay, InFile
<1>8. \A k \in Levels :
        /\ (interval # 0 => seq[k] <= Period(today))'
        /\ (InUse(k) =>
              IF interval = 0 THEN opfd[k].date = day[k]
              ELSE seq[k] <= opfd[k].date /\ opfd[k].date <= Period(today))'
  <2> SUFFICES ASSUME NEW k \in Levels
               PROVE  /\ (interval # 0 => seq[k] <= Period(today))'
                      /\ (InUse(k) =>
                            IF interval = 0 THEN opfd[k].date = day[k]
                            ELSE seq[k] <= opfd[k].date /\ opfd[k].date <= Period(today))'
    OBVIOUS
  <2>1. CASE k = l
    BY <1>1, <1>2, <1>3, <1>5, <1>6, <2>1, Facts DEF Dated
  <2>2. CASE k # l
    BY <1>1, <1>3, <1>5, <1>6, <2>2 DEF Dated, InUse
  <2> QED BY <2>1, <2>2
<1>9. (IF interval = 0 THEN opfd[lvl[Me]].date = tm[Me]
       ELSE Period(tm[Me]) <= opfd[lvl[Me]].date)'
  BY <1>2, <1>3, <1>4, <1>5, <1>6, Facts
<1> QED BY <1>5, <1>7, <1>8, <1>9 DEF Dated

LEMMA StepDated ==
  ASSUME Whole, IInv, Only, Dated, Step(Me)
  PROVE  Dated'
<1>1. CASE Call(Me)
  <2>1. /\ UNCHANGED <<interval, today, seq, opfd, day, last>> /\ tm'[Me] = today /\ pc'[Me] = "lock"
    BY <1>1, Facts DEF Call, Goto, setup, info, Whole, TypeOK
  <2>2. \A d : Period(d)' = Period(d)
    BY <2>1 DEF Period
  <2> QED BY <2>1, <2>2, Facts DEF Dated, InUse, InItsDay, InFile
<1>2. CASE Lock(Me) \/ OpenFirstFails(Me) \/ OpenNextFails(Me)
  <2>1. /\ UNCHANGED <<interval, today, seq, day, last, tm, lvl>> /\ pc'[Me] # "write"
        /\ \A l \in Levels : opfd'[l] = opfd[l] \/ opfd'[l] = NoFd
    BY <1>2, Facts DEF Lock, OpenFirstFails, OpenNextFails, GiveUp, OpenFails, Goto, setup, info, Whole, TypeOK
  <2>2. \A d : Period(d)' = Period(d)
    BY <2>1 DEF Period
  <2> QED BY <2>1, <2>2 DEF Dated, InUse, InItsDay, InFile
<1>3. CASE OpenFirst(Me)
  BY <1>3, OpenDated DEF OpenFirst, thread
<1>4. CASE OpenNext(Me)
  BY <1>4, OpenDated DEF OpenNext, Goto
<1>5. CASE KeepFile(Me)
  <2>1. /\ UNCHANGED <<interval, today, seq, opfd, day, last, tm, lvl>> /\ Usable(lvl[Me], tm[Me])
    BY <1>5 DEF KeepFile, setup, info
  <2>2. \A d : Period(d)' = Period(d)
    BY <2>1 DEF Period
  <2>3. InUse(lvl[Me]) =>
          IF interval = 0 THEN opfd[lvl[Me]].date = tm[Me]
          ELSE Period(tm[Me]) <= opfd[lvl[Me]].date
    <3>1. CASE interval = 0
      BY <2>1, <3>1, Facts DEF Dated, Usable
    <3>2. CASE interval # 0
      <4>1. seq[lvl[Me]] = Period(today) /\ Period(tm[Me]) <= Period(today)
        BY <2>1, <3>2, Facts DEF Usable, Dated
      <4>2. InUse(lvl[Me]) => Period(today) <= opfd[lvl[Me]].date
        BY <3>2, <4>1, Facts DEF Dated
      <4>3. InUse(lvl[Me]) => opfd[lvl[Me]].date \in Nat
        BY Facts DEF AllFiles
      <4> QED BY <3>2, <4>1, <4>2, <4>3, Facts
    <3> QED BY <3>1, <3>2
  <2> QED BY <2>1, <2>2, <2>3 DEF Dated, InUse, InItsDay, InFile
<1>6. CASE CloseFile(Me)
  <2>1. /\ UNCHANGED <<interval, today, day, last, tm, lvl>> /\ pc'[Me] = "open"
        /\ \A l \in Levels : l # lvl[Me] => opfd'[l] = opfd[l] /\ seq'[l] = seq[l]
        /\ opfd'[lvl[Me]] = Closed /\ (interval # 0 => seq'[lvl[Me]] = Period(today))
    BY <1>6, Facts DEF CloseFile, Goto, setup, NextSeq, Whole, TypeOK
  <2>2. \A d : Period(d)' = Period(d)
    BY <2>1 DEF Period
  <2>3. \A k \in Levels :
        /\ (interval # 0 => seq[k] <= Period(today))'
        /\ (InUse(k) =>
              IF interval = 0 THEN opfd[k].date = day[k]
              ELSE seq[k] <= opfd[k].date /\ opfd[k].date <= Period(today))'
    <3> SUFFICES ASSUME NEW k \in Levels
                 PROVE  /\ (interval # 0 => seq[k] <= Period(today))'
                        /\ (InUse(k) =>
                              IF interval = 0 THEN opfd[k].date = day[k]
                              ELSE seq[k] <= opfd[k].date /\ opfd[k].date <= Period(today))'
      OBVIOUS
    <3>1. CASE k = lvl[Me]
      BY <2>1, <2>2, <3>1, Facts DEF InUse
    <3>2. CASE k # lvl[Me]
      BY <2>1, <2>2, <3>2 DEF Dated, InUse
    <3> QED BY <3>1, <3>2
  <2> QED BY <2>1, <2>2, <2>3 DEF Dated, InItsDay, InFile
<1>7. CASE Write(Me)
  <2>1. /\ UNCHANGED <<interval, today, seq, opfd, day, tm, lvl>> /\ pc'[Me] = "idle" /\ pc[Me] = "write"
        /\ last' = [made |-> tm[Me], in |-> opfd[lvl[Me]]]
    BY <1>7, Facts DEF Write, At, Goto, setup, info, Whole, TypeOK
  <2>2. \A d : Period(d)' = Period(d)
    BY <2>1 DEF Period
  <2>3. InItsDay'
    <3>1. CASE ~InUse(lvl[Me])
      BY <2>1, <3>1 DEF InItsDay, InFile, InUse
    <3>2. CASE InUse(lvl[Me]) /\ interval = 0
      BY <2>1, <3>2 DEF InItsDay, Dated
    <3>3. CASE InUse(lvl[Me]) /\ interval # 0
      <4>1. /\ Period(tm[Me]) <= opfd[lvl[Me]].date /\ opfd[lvl[Me]].date <= Period(today)
            /\ opfd[lvl[Me]] \in AllFiles
        BY <2>1, <3>3, Facts DEF Dated
      <4>2. opfd[lvl[Me]].date \in Period(tm[Me])..Period(today)
        <5>1. opfd[lvl[Me]].date \in Nat
          BY <4>1 DEF AllFiles
        <5> QED BY <4>1, <5>1, Facts
      <4> QED BY <2>1, <2>2, <3>3, <4>2 DEF InItsDay
    <3> QED BY <3>1, <3>2, <3>3
  <2> QED BY <2>1, <2>2, <2>3, Facts DEF Dated, InUse
<1> QED BY <1>1, <1>2, <1>3, <1>4, <1>5, <1>6, <1>7 DEF Step

LEMMA DatedKept ==
  ASSUME Whole, IInv, Only, Dated, [Next]_vars PROVE Dated'
<1>1. CASE \E t \in Threads : Step(t)
  <2>1. Step(Me)
    BY <1>1, OneThread
  <2> QED BY <2>1, StepDated
<1>2. CASE Midnight
  <2>1. /\ UNCHANGED <<interval, seq, opfd, day, last, tm, lvl, pc>> /\ today' = today + 1
    BY <1>2 DEF Midnight, setup, info, thread
  <2>2. \A d : Period(d)' = Period(d)
    BY <2>1 DEF Period
  <2>3. Period(today + 1) \in Nat /\ Period(today) \in Nat /\ Period(today) <= Period(today + 1) /\ Period(today)' = Period(today + 1)
    BY <2>1, Facts DEF Period
  <2>4. \A l \in Levels : interval # 0 /\ InUse(l) => opfd[l].date \in Nat
    BY Facts DEF AllFiles
  <2>5. tm'[Me] <= today' /\ last'.made \in Nat
    BY <2>1, Facts DEF Dated
  <2>6. InItsDay'
    <3>1. CASE InFile(last) /\ interval # 0
      <4>1. Period(last.made) \in Nat /\ last.in.date \in Period(last.made)..Period(today)
        BY <3>1, Facts DEF Dated, InItsDay
      <4>2. last.in.date \in Period(last.made)..Period(today + 1)
        BY <2>3, <4>1
      <4> QED BY <2>1, <2>2, <2>3, <3>1, <4>2 DEF InItsDay, InFile
    <3>2. CASE ~(InFile(last) /\ interval # 0)
      BY <2>1, <3>2 DEF Dated, InItsDay, InFile
    <3> QED BY <3>1, <3>2
  <2>7. \A k \in Levels :
        /\ (interval # 0 => seq[k] <= Period(today))'
        /\ (InUse(k) =>
              IF interval = 0 THEN opfd[k].date = day[k]
              ELSE seq[k] <= opfd[k].date /\ opfd[k].date <= Period(today))'
    BY <2>1, <2>2, <2>3, <2>4, Facts DEF Dated, InUse
  <2> QED BY <2>1, <2>2, <2>5, <2>6, <2>7 DEF Dated, InUse
<1>3. CASE Restart
  <2>1. /\ UNCHANGED <<interval, today, last, tm, lvl>> /\ pc'[Me] = "idle"
        /\ \A l \in Levels : opfd'[l] = NoFd /\ (interval # 0 => seq'[l] = Period(today))
    BY <1>3, Facts DEF Restart, setup, InitialSeq
  <2>2. \A d : Period(d)' = Period(d)
    BY <2>1 DEF Period
  <2> QED BY <2>1, <2>2, Facts DEF Dated, InUse, InItsDay, InFile
<1>4. CASE UNCHANGED vars
  <2>1. UNCHANGED <<interval, today, seq, opfd, day, last, tm, lvl, pc>>
    BY <1>4 DEF vars, setup, info, thread
  <2>2. \A d : Period(d)' = Period(d)
    BY <2>1 DEF Period
  <2> QED BY <2>1, <2>2 DEF Dated, InUse, InItsDay, InFile
<1> QED BY <1>1, <1>2, <1>3, <1>4 DEF Next, Over

---------------------------------------------------------------------------
(* One thread: the number of files. *)

Today(l, n) == File(l, tm[Me], n)

\* The place of a number in the round that began with a.
Pos(a, n) == IF n >= a THEN n - a ELSE n - a + config

Mid(l) == IF pc[Me] # "idle" /\ lvl[Me] = l THEN 1 ELSE 0
Budget == IF tm[Me] = today THEN calls ELSE PerDay
Room(k) == LogSize * k
Rested == pc[Me] = "idle" /\ tm[Me] < today

\* The files of the day of the last call have k numbers that follow each other
\* in the round; all but the last are full, so that the calls of the day are at
\* least as many as the records they have room for.
Filled(l, a, k) ==
  /\ \A n \in 0..(config - 1) : Today(l, n) \in DOMAIN disk <=> Pos(a, n) < k
  /\ \A n \in 0..(config - 1) : Pos(a, n) < k - 1 => disk[Today(l, n)] >= LogSize
  /\ \A n \in 0..(config - 1) : Pos(a, n) = k - 1 =>
       IF disk[Today(l, n)] >= LogSize THEN Room(k) + Mid(l) <= Budget
       ELSE Room(k - 1) + disk[Today(l, n)] + Mid(l) <= Budget

\* The next number is one of theirs, or the one after the last if that is full;
\* since the level opened its first file of the day no more files were opened.
NextIs(l, a, k) ==
  /\ k = 0 => day[l] # tm[Me]
  /\ k > 0 /\ ~Rested =>
       /\ Pos(a, seq[l]) <= k
       /\ Pos(a, seq[l]) = k =>
            /\ ~InUse(l)
            /\ \A n \in 0..(config - 1) : Pos(a, n) = k - 1 => disk[Today(l, n)] >= LogSize
       /\ IF day[l] = tm[Me]
          THEN count[l] <= Pos(a, seq[l]) + (IF InUse(l) THEN 1 ELSE 0)
          ELSE opfd[l] = NoFd

Rounds ==
  \A l \in Levels : \E a \in 0..(config - 1), k \in 0..config :
    Filled(l, a, k) /\ NextIs(l, a, k)

\* No two files of a level have the same number.
OwnNumbers ==
  \A f, g \in DOMAIN disk : f.lvl = g.lvl /\ f.seq = g.seq => f = g

Kept ==
  /\ tm[Me] <= today
  /\ maxFiles = config
  /\ \A f \in DOMAIN disk : f.seq < config /\ f.date <= tm[Me]
  /\ \A l \in Levels : seq[l] < config /\ day[l] <= tm[Me]
  /\ \A l \in Levels : InUse(l) => opfd[l] = File(l, day[l], seq[l])
  /\ pc[Me] # "idle" => Budget >= 1
  /\ pc[Me] = "write" => InUse(lvl[Me]) /\ day[lvl[Me]] = tm[Me]
  /\ OwnNumbers /\ Rounds

Rotating == config # 0 /\ PerDay <= LogSize * config

LEMMA NumberFacts ==
  ASSUME Whole, Only, Rotating
  PROVE  /\ interval = 0 /\ config \in Nat \ {0} /\ LogSize \in Nat \ {0} /\ PerDay \in Nat
         /\ Room(0) = 0
         /\ \A k \in Nat : Room(k) \in Nat /\ Room(k + 1) = Room(k) + LogSize
         /\ PerDay <= Room(config)
         /\ Budget \in 0..PerDay
         /\ \A l : Mid(l) \in {0, 1}
<1>1. interval = 0 /\ config \in Nat \ {0}
  BY DEF Whole, Rotating
<1>2. LogSize \in Nat \ {0} /\ PerDay \in Nat
  BY LogAssumption DEF LogAssumption
<1>3. Room(0) = 0 /\ \A k \in Nat : Room(k) \in Nat /\ Room(k + 1) = Room(k) + LogSize
  BY <1>2 DEF Room
<1>4. PerDay <= Room(config)
  BY DEF Room, Rotating
<1>5. Budget \in 0..PerDay
  BY <1>2 DEF Budget, Whole
<1> QED BY <1>1, <1>2, <1>3, <1>4, <1>5 DEF Mid

\* A round visits every number once.
LEMMA PosIs ==
  ASSUME config \in Nat \ {0}, NEW a \in 0..(config - 1)
  PROVE  /\ \A n \in 0..(config - 1) : Pos(a, n) \in 0..(config - 1)
         /\ \A n, m \in 0..(config - 1) : Pos(a, n) = Pos(a, m) => n = m
         /\ Pos(a, a) = 0
         /\ \A p \in 0..(config - 1) : \E n \in 0..(config - 1) : Pos(a, n) = p
         /\ \A n \in 0..(config - 1) :
              /\ (n + 1) % config \in 0..(config - 1)
              /\ Pos(a, n) # config - 1 => Pos(a, (n + 1) % config) = Pos(a, n) + 1
<1>1. \A n \in 0..(config - 1) : Pos(a, n) \in 0..(config - 1)
  BY DEF Pos
<1>2. \A n, m \in 0..(config - 1) : Pos(a, n) = Pos(a, m) => n = m
  BY DEF Pos
<1>3. Pos(a, a) = 0
  BY DEF Pos
<1>4. ASSUME NEW p \in 0..(config - 1) PROVE \E n \in 0..(config - 1) : Pos(a, n) = p
  <2>1. CASE a + p < config
    <3>1. a + p \in 0..(config - 1) /\ Pos(a, a + p) = p
      BY <2>1 DEF Pos
    <3> QED BY <3>1
  <2>2. CASE a + p >= config
    <3>1. a + p - config \in 0..(config - 1) /\ Pos(a, a + p - config) = p
      BY <2>2 DEF Pos
    <3> QED BY <3>1
  <2> QED BY <2>1, <2>2
<1>5. ASSUME NEW n \in 0..(config - 1)
      PROVE  /\ (n + 1) % config \in 0..(config - 1)
             /\ Pos(a, n) # config - 1 => Pos(a, (n + 1) % config) = Pos(a, n) + 1
  <2>1. CASE n + 1 < config
    <3>1. (n + 1) % config = n + 1
      BY <2>1
    <3>2. n + 1 \in 0..(config - 1)
      BY <2>1
    <3>3. Pos(a, n) # config - 1 => Pos(a, n + 1) = Pos(a, n) + 1
      BY <2>1 DEF Pos
    <3> QED BY <3>1, <3>2, <3>3
  <2>2. CASE n + 1 = config
    <3>1. (n + 1) % config = 0
      BY <2>2
    <3>2. 0 \in 0..(config - 1) /\ (Pos(a, n) # config - 1 => Pos(a, 0) = Pos(a, n) + 1)
      BY <2>2 DEF Pos
    <3> QED BY <3>1, <3>2
  <2> QED BY <2>1, <2>2
<1> QED BY <1>1, <1>2, <1>3, <1>4, <1>5

LEMMA FileIs ==
  /\ \A l, d, n, k, e, m : File(l, d, n) = File(k, e, m) <=> l = k /\ d = e /\ n = m
  /\ \A l, d, n : File(l, d, n).lvl = l /\ File(l, d, n).date = d /\ File(l, d, n).seq = n
  /\ \A f \in AllFiles : f = File(f.lvl, f.date, f.seq)
  BY DEF File, AllFiles

---------------------------------------------------------------------------

\* A level whose files of the day do not change, while the calls of the day grow
\* as its records do.
LEMMA FilledStays ==
  ASSUME Whole, Only, Rotating, Whole', Rotating', config' = config,
         tm'[Me] = tm[Me], NEW l \in Levels,
         \A n \in 0..(config - 1) :
           /\ Today(l, n) \in DOMAIN disk' <=> Today(l, n) \in DOMAIN disk
           /\ Today(l, n) \in DOMAIN disk => disk'[Today(l, n)] = disk[Today(l, n)],
         Mid(l)' + Budget <= Mid(l) + Budget',
         NEW a \in 0..(config - 1), NEW k \in 0..config, Filled(l, a, k)
  PROVE  Filled(l, a, k)'
<1>1. /\ \A n : Today(l, n)' = Today(l, n) /\ \A m : Pos(m, n)' = Pos(m, n)
      /\ \A n : Room(n)' = Room(n)
  BY DEF Today, Pos, Room
<1>2. /\ Budget \in Nat /\ Budget' \in Nat /\ Mid(l) \in Nat /\ Mid(l)' \in Nat
      /\ Room(k) \in Nat /\ (k # 0 => Room(k - 1) \in Nat)
  <2>1. Budget \in 0..PerDay /\ PerDay \in Nat /\ Mid(l) \in {0, 1} /\ \A n \in Nat : Room(n) \in Nat
    BY NumberFacts
  <2>2. Budget' \in 0..PerDay /\ Mid(l)' \in {0, 1}
    <3>1. LogSize \in Nat \ {0} /\ PerDay \in Nat
      BY LogAssumption DEF LogAssumption
    <3> QED BY <3>1 DEF Budget, Whole, Mid
  <2> QED BY <2>1, <2>2
<1>3. \A n \in 0..(config - 1) : Today(l, n) \in DOMAIN disk' <=> Pos(a, n) < k
  BY DEF Filled
<1>4. ASSUME NEW n \in 0..(config - 1), Pos(a, n) <= k - 1
      PROVE  /\ disk'[Today(l, n)] = disk[Today(l, n)] /\ disk[Today(l, n)] \in Nat
             /\ (Pos(a, n) = k - 1 => k # 0)
  <2>1. Pos(a, n) \in 0..(config - 1)
    BY NumberFacts, PosIs
  <2>2. Pos(a, n) < k
    BY <1>4, <2>1, NumberFacts
  <2>3. Today(l, n) \in DOMAIN disk
    BY <2>2 DEF Filled
  <2> QED BY <1>4, <2>1, <2>2, <2>3 DEF Whole
<1>5. \A n \in 0..(config - 1) : Pos(a, n) \in Int
  BY NumberFacts, PosIs
<1>6. \A n \in 0..(config - 1) : Pos(a, n) < k - 1 => disk'[Today(l, n)] >= LogSize
  BY <1>4, <1>5, NumberFacts DEF Filled
<1>7. ASSUME NEW n \in 0..(config - 1), Pos(a, n) = k - 1
      PROVE  IF disk'[Today(l, n)] >= LogSize THEN Room(k) + Mid(l)' <= Budget'
             ELSE Room(k - 1) + disk'[Today(l, n)] + Mid(l)' <= Budget'
  <2>1. /\ disk'[Today(l, n)] = disk[Today(l, n)] /\ disk[Today(l, n)] \in Nat /\ k # 0
    BY <1>4, <1>5, <1>7, NumberFacts
  <2>2. IF disk[Today(l, n)] >= LogSize THEN Room(k) + Mid(l) <= Budget
        ELSE Room(k - 1) + disk[Today(l, n)] + Mid(l) <= Budget
    BY <1>7 DEF Filled
  <2> QED BY <1>2, <2>1, <2>2
<1> QED BY <1>1, <1>3, <1>6, <1>7 DEF Filled

\* And whose next number stays what it is.
LEMMA NextStays ==
  ASSUME Whole, Only, Rotating, config' = config, tm'[Me] = tm[Me], NEW l \in Levels,
         \A n \in 0..(config - 1) :
           Today(l, n) \in DOMAIN disk => disk'[Today(l, n)] = disk[Today(l, n)],
         seq'[l] = seq[l], day'[l] = day[l], count'[l] = count[l],
         \/ opfd'[l] = opfd[l]
         \/ opfd'[l] = NoFd /\ ~InUse(l),
         Rested => Rested',
         NEW a \in 0..(config - 1), NEW k \in 0..config, Filled(l, a, k), NextIs(l, a, k)
  PROVE  NextIs(l, a, k)'
<1>1. \A n : Today(l, n)' = Today(l, n) /\ \A m : Pos(m, n)' = Pos(m, n)
  BY DEF Today, Pos
<1>2. InUse(l)' = InUse(l)
  BY DEF InUse
<1>3. \A n \in 0..(config - 1) : Pos(a, n) = k - 1 => disk'[Today(l, n)] = disk[Today(l, n)]
  <2>1. \A n \in 0..(config - 1) : Pos(a, n) \in Int
    BY NumberFacts, PosIs
  <2>2. \A n \in 0..(config - 1) : Pos(a, n) = k - 1 => Pos(a, n) < k
    BY <2>1, NumberFacts
  <2> QED BY <2>2 DEF Filled
<1> QED BY <1>1, <1>2, <1>3 DEF NextIs

\* open_fd, when the numbers of a day suffice: another file of the level with
\* the number goes, and only that.
LEMMA OpenEffect ==
  ASSUME Whole, Only, Rotating, Kept, NEW l \in Levels, l = lvl[Me], ~InUse(l), pc[Me] # "idle",
         OpenFd(l, tm[Me])
  PROVE  /\ maxFiles' = config /\ seq' = seq
         /\ opfd' = [opfd EXCEPT ![l] = Today(l, seq[l])]
         /\ day' = [day EXCEPT ![l] = tm[Me]]
         /\ count' = [count EXCEPT ![l] = IF day[l] # tm[Me] THEN 1 ELSE count[l] + 1]
         /\ Today(l, seq[l]) \in DOMAIN disk'
         /\ \A g \in DOMAIN disk' : g # Today(l, seq[l]) =>
              g \in DOMAIN disk /\ disk'[g] = disk[g] /\ ~(g.lvl = l /\ g.seq = seq[l])
         /\ \A g \in DOMAIN disk : ~(g.lvl = l /\ g.seq = seq[l]) => g \in DOMAIN disk'
         /\ disk'[Today(l, seq[l])] = IF Today(l, seq[l]) \in DOMAIN disk THEN disk[Today(l, seq[l])] ELSE 0
<1> DEFINE f == Today(l, seq[l])
           limit == IF day[l] # tm[Me] THEN config ELSE maxFiles
           nth == IF day[l] # tm[Me] THEN 1 ELSE count[l] + 1
<1>1. /\ interval = 0 /\ config \in Nat \ {0} /\ maxFiles = config /\ tm[Me] \in Nat /\ ~Rested
      /\ seq[l] \in 0..(config - 1) /\ count[l] \in Nat
  <2>1. interval = 0 /\ config \in Nat \ {0}
    BY NumberFacts
  <2>2. tm[Me] \in Nat /\ seq[l] \in Nat /\ count[l] \in Nat
    BY Facts
  <2>3. maxFiles = config /\ seq[l] < config /\ ~Rested
    BY DEF Kept, Rested
  <2>4. seq[l] \in 0..(config - 1)
    BY <2>1, <2>2, <2>3
  <2> QED BY <2>1, <2>2, <2>3, <2>4
<1>2. Path(l, tm[Me]) = f
  BY <1>1 DEF Path, Today
<1>3. nth <= limit /\ limit = config
  <2>1. CASE day[l] # tm[Me]
    BY <1>1, <2>1
  <2>2. CASE day[l] = tm[Me]
    <3>1. PICK a \in 0..(config - 1), k \in 0..config : NextIs(l, a, k)
      BY DEF Kept, Rounds
    <3>2. Pos(a, seq[l]) \in 0..(config - 1)
      BY <1>1, PosIs
    <3>3. k # 0
      BY <2>2, <3>1 DEF NextIs
    <3>4. k > 0
      BY <1>1, <3>3
    <3>5. count[l] <= Pos(a, seq[l]) + 0
      BY <1>1, <2>2, <3>1, <3>4 DEF NextIs
    <3> QED BY <1>1, <2>2, <3>2, <3>5
  <2> QED BY <2>1, <2>2
<1>4. ~(limit # 0 /\ nth > limit)
  <2>1. nth \in Nat
    BY <1>1
  <2> QED BY <1>1, <1>3, <2>1
<1>5. /\ maxFiles' = config /\ seq' = seq
      /\ opfd' = [opfd EXCEPT ![l] = f]
      /\ day' = [day EXCEPT ![l] = tm[Me]]
      /\ count' = [count EXCEPT ![l] = nth]
  BY <1>2, <1>3, <1>4 DEF OpenFd
<1>6. PICK gone :
        /\ Goes(f, gone)
        /\ DOMAIN disk' = (DOMAIN disk \ gone) \cup {f}
        /\ \A g \in DOMAIN disk \ gone : disk'[g] = disk[g]
        /\ f \notin DOMAIN disk => disk'[f] = 0
  <2>1. PICK g : g = Path(l, tm[Me])
    OBVIOUS
  <2>2. \E gone :
          /\ Goes(g, gone)
          /\ DOMAIN disk' = (DOMAIN disk \ gone) \cup {g}
          /\ \A h \in DOMAIN disk \ gone : disk'[h] = disk[h]
          /\ g \notin DOMAIN disk => disk'[g] = 0
    BY <1>1, <2>1, OpenDisk
  <2> HIDE DEF f
  <2> QED BY <1>2, <2>1, <2>2
<1>7. f.lvl = l /\ f.seq = seq[l]
  BY FileIs DEF Today
<1>8. gone = Removable(f)
  <2>1. \A g, h \in Removable(f) : g = h
    BY DEF Removable, Names, Kept, OwnNumbers
  <2> QED BY <1>1, <1>5, <1>6, <2>1 DEF Goes
<1>9. Removable(f) = {g \in DOMAIN disk : g.lvl = l /\ g.seq = seq[l] /\ g # f}
  BY <1>7 DEF Removable, Names
<1> QED BY <1>5, <1>6, <1>7, <1>8, <1>9

\* The level whose file is opened.
LEMMA OpenRound ==
  ASSUME Whole, Whole', Only, Rotating, Rotating', config' = config, Kept, NEW l \in Levels, l = lvl[Me], ~InUse(l), pc[Me] # "idle",
         OpenFd(l, tm[Me]), tm' = tm, Mid(l)' = Mid(l), Budget' = Budget
  PROVE  \E a \in 0..(config - 1), k \in 0..config : Filled(l, a, k)' /\ NextIs(l, a, k)'
<1> DEFINE f == Today(l, seq[l])
<1>1. /\ seq' = seq /\ day'[l] = tm[Me]
      /\ count'[l] = IF day[l] # tm[Me] THEN 1 ELSE count[l] + 1
      /\ opfd'[l] = f /\ f \in DOMAIN disk'
  BY OpenEffect DEF Whole, TypeOK
<1>2. /\ config \in Nat \ {0} /\ LogSize \in Nat \ {0} /\ ~Rested /\ seq[l] \in 0..(config - 1)
      /\ \A k \in Nat : Room(k) \in Nat /\ Room(k + 1) = Room(k) + LogSize
      /\ Room(0) = 0 /\ Budget \in Nat /\ Budget >= 1 /\ Mid(l) = 1 /\ count[l] \in Nat /\ tm[Me] \in Nat
  <2>1. Budget \in 0..PerDay /\ PerDay \in Nat
    BY NumberFacts
  <2>2. config \in Nat \ {0} /\ LogSize \in Nat \ {0} /\ Room(0) = 0
    BY NumberFacts
  <2>3. \A k \in Nat : Room(k) \in Nat /\ Room(k + 1) = Room(k) + LogSize
    BY NumberFacts
  <2>4. tm[Me] \in Nat /\ seq[l] \in Nat /\ count[l] \in Nat
    BY Facts
  <2>5. seq[l] < config /\ ~Rested /\ Budget >= 1 /\ Mid(l) = 1
    BY DEF Kept, Rested, Mid
  <2>6. seq[l] \in 0..(config - 1)
    BY <2>2, <2>4, <2>5
  <2>7. Budget \in Nat
    BY <2>1
  <2> QED BY <2>2, <2>3, <2>4, <2>5, <2>6, <2>7
<1>3. /\ \A n : Today(l, n)' = Today(l, n) /\ \A m : Pos(m, n)' = Pos(m, n)
      /\ \A n : Room(n)' = Room(n)
  BY DEF Today, Pos, Room
<1>4. /\ \A n \in 0..(config - 1) : n # seq[l] =>
           /\ Today(l, n) \in DOMAIN disk' <=> Today(l, n) \in DOMAIN disk
           /\ Today(l, n) \in DOMAIN disk => disk'[Today(l, n)] = disk[Today(l, n)]
      /\ disk'[f] = IF f \in DOMAIN disk THEN disk[f] ELSE 0
  <2>1. \A n : Today(l, n).lvl = l /\ Today(l, n).seq = n /\ (Today(l, n) = f <=> n = seq[l])
    BY FileIs DEF Today
  <2> QED BY <2>1, OpenEffect
<1>5. InUse(l)'
  <2>1. Today(l, seq[l]) \in AllFiles
    BY <1>2 DEF Today, File, AllFiles
  <2> QED BY <1>1, <2>1, FileIsInUse DEF InUse
<1>6. PICK a \in 0..(config - 1), k \in 0..config : Filled(l, a, k) /\ NextIs(l, a, k)
  BY DEF Kept, Rounds
\* The first file of the day.
<1>7. CASE k = 0
  <2>1. \A n \in 0..(config - 1) : Pos(a, n) \in 0..(config - 1)
    BY <1>2, PosIs
  <2>2. \A n \in 0..(config - 1) : Today(l, n) \notin DOMAIN disk
    <3>1. \A n \in 0..(config - 1) : ~(Pos(a, n) < k)
      BY <1>2, <1>7, <2>1
    <3> QED BY <1>6, <3>1 DEF Filled
  <2>3. day[l] # tm[Me]
    BY <1>6, <1>7 DEF NextIs
  <2>4. PICK b \in 0..(config - 1) : b = seq[l]
    BY <1>2
  <2>5. /\ Pos(b, b) = 0 /\ \A n \in 0..(config - 1) : Pos(b, n) \in 0..(config - 1)
        /\ \A n \in 0..(config - 1) : Pos(b, n) = Pos(b, b) => n = b
    <3>1. \A n, m \in 0..(config - 1) : Pos(b, n) = Pos(b, m) => n = m
      BY <1>2, PosIs
    <3>2. Pos(b, b) = 0 /\ \A n \in 0..(config - 1) : Pos(b, n) \in 0..(config - 1)
      BY <1>2, PosIs
    <3> QED BY <3>1, <3>2
  <2>6. \A n \in 0..(config - 1) : Pos(b, n) < 1 <=> n = b
    BY <2>5
  <2>7. \A n \in 0..(config - 1) : Today(l, n) \in DOMAIN disk' <=> Pos(b, n) < 1
    BY <1>1, <1>4, <2>2, <2>4, <2>6
  <2>8. disk'[Today(l, b)] = 0 /\ Room(0) + 0 + Mid(l) <= Budget
    BY <1>2, <1>4, <2>2, <2>4
  <2>9. Filled(l, b, 1)'
    <3>1. \A n \in 0..(config - 1) : ~(Pos(b, n) < 1 - 1)
      BY <2>5
    <3>2. 1 - 1 = 0 /\ ~(0 >= LogSize)
      BY <1>2
    <3>3. \A n \in 0..(config - 1) : Pos(b, n) = 1 - 1 =>
            IF disk'[Today(l, n)] >= LogSize THEN Room(1) + Mid(l) <= Budget
            ELSE Room(1 - 1) + disk'[Today(l, n)] + Mid(l) <= Budget
      BY <2>5, <2>8, <3>2
    <3> QED BY <1>3, <2>7, <3>1, <3>3 DEF Filled
  <2>10. NextIs(l, b, 1)'
    <3>1. count'[l] <= 0 + 1
      BY <1>1, <2>3
    <3> QED BY <1>1, <1>3, <1>5, <2>4, <2>5, <3>1 DEF NextIs
  <2>11. 1 \in 0..config
    BY <1>2
  <2> QED BY <2>9, <2>10, <2>11
\* A file of the day that is there.
<1>8. CASE k # 0 /\ Pos(a, seq[l]) # k
  <2>1. \A n \in 0..(config - 1) : Pos(a, n) \in 0..(config - 1)
    BY <1>2, PosIs
  <2>2. Pos(a, seq[l]) < k
    <3>1. k > 0 /\ Pos(a, seq[l]) \in 0..(config - 1)
      BY <1>2, <1>8, <2>1
    <3>2. Pos(a, seq[l]) <= k
      BY <1>2, <1>6, <3>1 DEF NextIs
    <3>3. k \in Nat /\ Pos(a, seq[l]) \in Nat
      BY <1>2, <3>1
    <3> QED BY <1>8, <3>2, <3>3
  <2>3. f \in DOMAIN disk
    BY <1>2, <1>6, <2>2 DEF Filled
  <2>4. \A n \in 0..(config - 1) :
           /\ Today(l, n) \in DOMAIN disk' <=> Today(l, n) \in DOMAIN disk
           /\ Today(l, n) \in DOMAIN disk => disk'[Today(l, n)] = disk[Today(l, n)]
    BY <1>1, <1>4, <2>3
  <2>5. Filled(l, a, k)'
    <3>1. tm'[Me] = tm[Me] /\ Mid(l)' + Budget <= Mid(l) + Budget'
      BY <1>2
    <3> QED BY <1>6, <2>4, <3>1, FilledStays
  <2>6. NextIs(l, a, k)'
    <3>1. count'[l] <= Pos(a, seq[l]) + 1
      <4>1. Pos(a, seq[l]) \in Nat /\ k > 0
        BY <1>2, <1>8, <2>1
      <4>2. CASE day[l] # tm[Me]
        BY <1>1, <4>1, <4>2
      <4>3. CASE day[l] = tm[Me]
        <5>1. count[l] <= Pos(a, seq[l]) + 0
          BY <1>2, <1>6, <4>1, <4>3 DEF NextIs
        <5>2. count'[l] = count[l] + 1
          BY <1>1, <4>3
        <5> QED BY <1>2, <4>1, <5>1, <5>2
      <4> QED BY <4>2, <4>3
    <3> QED BY <1>1, <1>2, <1>3, <1>5, <1>8, <2>1, <2>2, <3>1 DEF NextIs
  <2> QED BY <2>5, <2>6
\* The one after the last, which is full.
<1>9. CASE k # 0 /\ Pos(a, seq[l]) = k
  <2>1. /\ \A n \in 0..(config - 1) : Pos(a, n) \in 0..(config - 1)
        /\ \A n, m \in 0..(config - 1) : Pos(a, n) = Pos(a, m) => n = m
    BY <1>2, PosIs
  <2>2. k \in 0..(config - 1) /\ k + 1 \in 0..config /\ k - 1 \in 0..(config - 1)
    <3>1. Pos(a, seq[l]) \in 0..(config - 1)
      BY <1>2, <2>1
    <3>2. k \in 0..(config - 1) /\ k # 0
      BY <1>9, <3>1
    <3> QED BY <1>2, <3>2
  <2>3. \A n \in 0..(config - 1) : Pos(a, n) = k - 1 => disk[Today(l, n)] >= LogSize
    BY <1>2, <1>6, <1>9 DEF NextIs
  <2>4. Room(k) + Mid(l) <= Budget
    <3>1. PICK n \in 0..(config - 1) : Pos(a, n) = k - 1
      BY <1>2, <2>2, PosIs
    <3> QED BY <1>6, <2>3, <3>1 DEF Filled
  <2>5. \A n \in 0..(config - 1) : Pos(a, n) = k <=> n = seq[l]
    BY <1>2, <1>9, <2>1
  <2>6. f \notin DOMAIN disk /\ disk'[f] = 0
    BY <1>2, <1>4, <1>6, <1>9, <2>2 DEF Filled
  <2>7. \A n \in 0..(config - 1) : Today(l, n) \in DOMAIN disk' <=> Pos(a, n) < k + 1
    <3>1. \A n \in 0..(config - 1) : Pos(a, n) < k + 1 <=> Pos(a, n) < k \/ n = seq[l]
      BY <2>1, <2>2, <2>5
    <3> QED BY <1>1, <1>4, <1>6, <3>1 DEF Filled
  <2>8. \A n \in 0..(config - 1) : Pos(a, n) < k => disk'[Today(l, n)] >= LogSize
    <3>1. \A n \in 0..(config - 1) : Pos(a, n) < k =>
            n # seq[l] /\ Today(l, n) \in DOMAIN disk /\ (Pos(a, n) < k - 1 \/ Pos(a, n) = k - 1)
      BY <1>6, <2>1, <2>2, <2>5 DEF Filled
    <3> QED BY <1>4, <1>6, <2>3, <3>1 DEF Filled
  <2>9. \A n \in 0..(config - 1) : Pos(a, n) = k => disk'[Today(l, n)] = 0
    BY <2>5, <2>6
  <2>10. Filled(l, a, k + 1)'
    <3>1. (k + 1) - 1 = k
      BY <2>2
    <3>2. \A n \in 0..(config - 1) : Pos(a, n) = k =>
            IF disk'[Today(l, n)] >= LogSize THEN Room(k + 1) + Mid(l) <= Budget
            ELSE Room(k) + disk'[Today(l, n)] + Mid(l) <= Budget
      BY <1>2, <2>2, <2>4, <2>9
    <3> QED BY <1>3, <2>7, <2>8, <3>1, <3>2 DEF Filled
  <2>11. NextIs(l, a, k + 1)'
    <3>1. count'[l] <= Pos(a, seq[l]) + 1
      <4>1. Pos(a, seq[l]) \in Nat /\ k > 0
        BY <1>2, <1>9, <2>1
      <4>2. CASE day[l] # tm[Me]
        BY <1>1, <4>1, <4>2
      <4>3. CASE day[l] = tm[Me]
        <5>1. count[l] <= Pos(a, seq[l]) + 0
          BY <1>2, <1>6, <4>1, <4>3 DEF NextIs
        <5>2. count'[l] = count[l] + 1
          BY <1>1, <4>3
        <5> QED BY <1>2, <4>1, <5>1, <5>2
      <4> QED BY <4>2, <4>3
    <3>2. k + 1 # 0 /\ Pos(a, seq[l]) <= k + 1 /\ Pos(a, seq[l]) # k + 1
      BY <1>9, <2>2
    <3> QED BY <1>1, <1>3, <1>5, <3>1, <3>2 DEF NextIs
  <2> QED BY <2>2, <2>10, <2>11
<1> QED BY <1>7, <1>8, <1>9

LEMMA LevelStays ==
  ASSUME Whole, Only, Rotating, Kept, Whole', Rotating', config' = config,
         tm'[Me] = tm[Me], NEW l \in Levels,
         \A n \in 0..(config - 1) :
           /\ Today(l, n) \in DOMAIN disk' <=> Today(l, n) \in DOMAIN disk
           /\ Today(l, n) \in DOMAIN disk => disk'[Today(l, n)] = disk[Today(l, n)],
         Mid(l)' + Budget <= Mid(l) + Budget',
         seq'[l] = seq[l], day'[l] = day[l], count'[l] = count[l],
         \/ opfd'[l] = opfd[l]
         \/ opfd'[l] = NoFd /\ ~InUse(l),
         Rested => Rested'
  PROVE  \E a \in 0..(config - 1), k \in 0..config : Filled(l, a, k)' /\ NextIs(l, a, k)'
<1>1. PICK a \in 0..(config - 1), k \in 0..config : Filled(l, a, k) /\ NextIs(l, a, k)
  BY DEF Kept, Rounds
<1>2. Filled(l, a, k)'
  BY <1>1, FilledStays
<1>3. NextIs(l, a, k)'
  BY <1>1, NextStays
<1> QED BY <1>2, <1>3

LEMMA OpenKept ==
  ASSUME Whole, Whole', Only, Rotating, Rotating', Kept,
         UNCHANGED <<config, today, lvl, tm, calls>>,
         ~InUse(lvl[Me]), pc[Me] # "idle", pc'[Me] # "idle", OpenFd(lvl[Me], tm[Me])
  PROVE  Kept'
<1>1. PICK l \in Levels : l = lvl[Me]
  BY Facts
<1>2. /\ maxFiles' = config /\ seq' = seq
      /\ opfd' = [opfd EXCEPT ![l] = Today(l, seq[l])]
      /\ day' = [day EXCEPT ![l] = tm[Me]]
      /\ count' = [count EXCEPT ![l] = IF day[l] # tm[Me] THEN 1 ELSE count[l] + 1]
      /\ Today(l, seq[l]) \in DOMAIN disk'
      /\ \A g \in DOMAIN disk' : g # Today(l, seq[l]) =>
           g \in DOMAIN disk /\ disk'[g] = disk[g] /\ ~(g.lvl = l /\ g.seq = seq[l])
      /\ \A g \in DOMAIN disk : ~(g.lvl = l /\ g.seq = seq[l]) => g \in DOMAIN disk'
  BY <1>1, OpenEffect
<1>3. /\ \A k \in Levels : opfd'[k] = IF k = l THEN Today(l, seq[l]) ELSE opfd[k]
      /\ \A k \in Levels : day'[k] = IF k = l THEN tm[Me] ELSE day[k]
      /\ \A k \in Levels : k # l => count'[k] = count[k]
  BY <1>2 DEF Whole, TypeOK
<1>4. /\ Budget' = Budget /\ Budget \in Nat
      /\ \A k : Mid(k)' = Mid(k) /\ Mid(k) \in {0, 1}
  <2>1. Budget \in 0..PerDay /\ PerDay \in Nat /\ \A k : Mid(k) \in {0, 1}
    BY NumberFacts
  <2> QED BY <2>1 DEF Budget, Mid
<1>5. \A f \in DOMAIN disk' : f.seq < config /\ f.date <= tm[Me]
  <2>1. Today(l, seq[l]).seq = seq[l] /\ Today(l, seq[l]).date = tm[Me]
    BY FileIs DEF Today
  <2>2. seq[l] < config /\ tm[Me] <= tm[Me]
    BY <1>1, Facts DEF Kept
  <2> QED BY <1>2, <2>1, <2>2 DEF Kept
<1>6. \A k \in Levels : seq'[k] < config /\ day'[k] <= tm[Me]
  <2>1. tm[Me] <= tm[Me]
    BY Facts
  <2> QED BY <1>2, <1>3, <2>1 DEF Kept
<1>7. \A k \in Levels : InUse(k)' => opfd'[k] = File(k, day'[k], seq'[k])
  BY <1>2, <1>3 DEF Kept, InUse, Today
<1>8. pc'[Me] = "write" => InUse(l)' /\ day'[l] = tm[Me]
  <2>1. Today(l, seq[l]) \in AllFiles
    BY <1>2 DEF Whole, TypeOK, AllFiles
  <2> QED BY <1>1, <1>3, <2>1, FileIsInUse DEF InUse
<1>9. OwnNumbers'
  <2>1. Today(l, seq[l]).lvl = l /\ Today(l, seq[l]).seq = seq[l]
    BY FileIs DEF Today
  <2> QED BY <1>2, <2>1 DEF Kept, OwnNumbers
<1>10. ASSUME NEW k \in Levels
       PROVE  \E a \in 0..(config - 1), j \in 0..config : Filled(k, a, j)' /\ NextIs(k, a, j)'
  <2>1. CASE k = l
    BY <1>1, <1>4, <2>1, OpenRound
  <2>2. CASE k # l
    <3>1. \A n : Today(k, n).lvl = k /\ Today(k, n) # Today(l, seq[l])
      BY <2>2, FileIs DEF Today
    <3>2. \A n \in 0..(config - 1) :
           /\ Today(k, n) \in DOMAIN disk' <=> Today(k, n) \in DOMAIN disk
           /\ Today(k, n) \in DOMAIN disk => disk'[Today(k, n)] = disk[Today(k, n)]
      BY <1>2, <2>2, <3>1
    <3>3. Mid(k)' + Budget <= Mid(k) + Budget'
      BY <1>4
    <3>4. ~Rested
      BY DEF Rested
    <3>5. seq'[k] = seq[k] /\ day'[k] = day[k] /\ count'[k] = count[k] /\ opfd'[k] = opfd[k]
      BY <1>2, <1>3, <2>2
    <3> QED BY <3>2, <3>3, <3>4, <3>5, LevelStays
  <2> QED BY <2>1, <2>2
<1>11. Rounds'
  BY <1>10 DEF Rounds
<1> QED BY <1>1, <1>2, <1>4, <1>5, <1>6, <1>7, <1>8, <1>9, <1>11 DEF Kept

\* A step that leaves the files and their numbers alone.
LEMMA QuietKept ==
  ASSUME Whole, Whole', Only, Rotating, Rotating', Kept, config' = config,
         UNCHANGED <<disk, seq, day, count, maxFiles>>, tm'[Me] = tm[Me], tm'[Me] <= today',
         \A l \in Levels : opfd'[l] = opfd[l] \/ (opfd'[l] = NoFd /\ ~InUse(l)),
         \A l \in Levels : Mid(l)' + Budget <= Mid(l) + Budget',
         Rested => Rested',
         pc'[Me] # "idle" => Budget' >= 1,
         pc'[Me] = "write" => InUse(lvl[Me])' /\ day[lvl[Me]] = tm[Me] /\ lvl'[Me] = lvl[Me]
  PROVE  Kept'
<1>1. ASSUME NEW l \in Levels
      PROVE  \E a \in 0..(config - 1), k \in 0..config : Filled(l, a, k)' /\ NextIs(l, a, k)'
  BY LevelStays
<1>2. Rounds'
  BY <1>1 DEF Rounds
<1>3. \A l \in Levels : InUse(l)' => opfd'[l] = File(l, day'[l], seq'[l])
  BY DEF Kept, InUse
<1>4. OwnNumbers'
  BY DEF Kept, OwnNumbers
<1>5. pc'[Me] = "write" => (InUse(lvl[Me]) /\ day[lvl[Me]] = tm[Me])'
  BY DEF InUse
<1> QED BY <1>2, <1>3, <1>4, <1>5 DEF Kept

\* The file is full, so that it is the last of the day or not the last, or it is
\* of an earlier day: in no case is it the last number of the round.
LEMMA CloseKept ==
  ASSUME Whole, Whole', IInv, Only, Rotating, Rotating', Kept, CloseFile(Me)
  PROVE  Kept'
<1>1. PICK l \in Levels : l = lvl[Me]
  BY Facts
<1>2. /\ pc[Me] = "check" /\ pc'[Me] = "open" /\ opfd[l] # NoFd /\ ~Usable(l, tm[Me])
      /\ opfd' = [opfd EXCEPT ![l] = Closed] /\ seq' = [seq EXCEPT ![l] = NextSeq(l, tm[Me])]
      /\ UNCHANGED <<config, today, disk, day, count, maxFiles, lvl, tm, calls>>
  BY <1>1, Facts DEF CloseFile, At, Goto, setup, Whole, TypeOK
<1>3. InUse(l)
  BY <1>2, NoneClosed, Facts DEF InUse
<1>4. /\ config \in Nat \ {0} /\ maxFiles = config /\ seq[l] \in 0..(config - 1)
      /\ interval = 0 /\ LogSize \in Nat \ {0} /\ PerDay \in Nat
      /\ Budget \in 0..PerDay /\ PerDay <= Room(config)
      /\ \A k \in Nat : Room(k) \in Nat
      /\ Mid(l) = 1 /\ count[l] \in Nat /\ ~Rested
  <2>1. config \in Nat \ {0} /\ LogSize \in Nat \ {0} /\ PerDay \in Nat /\ interval = 0
    BY NumberFacts
  <2>2. Budget \in 0..PerDay /\ PerDay <= Room(config) /\ \A k \in Nat : Room(k) \in Nat
    BY NumberFacts
  <2>3. seq[l] < config /\ maxFiles = config /\ ~Rested /\ Mid(l) = 1
    BY <1>1, <1>2 DEF Kept, Rested, Mid
  <2>4. seq[l] \in Nat /\ count[l] \in Nat
    BY Facts
  <2>5. seq[l] \in 0..(config - 1)
    BY <2>1, <2>3, <2>4
  <2> QED BY <2>1, <2>2, <2>3, <2>4, <2>5
<1>5. NextSeq(l, tm[Me]) = (seq[l] + 1) % config /\ (seq[l] + 1) % config \in 0..(config - 1)
  <2>1. (seq[l] + 1) % config \in 0..(config - 1)
    BY <1>4, PosIs
  <2> QED BY <1>4, <2>1 DEF NextSeq
<1>6. /\ \A k \in Levels : opfd'[k] = IF k = l THEN Closed ELSE opfd[k]
      /\ \A k \in Levels : seq'[k] = IF k = l THEN (seq[l] + 1) % config ELSE seq[k]
  BY <1>2, <1>5 DEF Whole, TypeOK
<1>7. /\ \A n : Today(l, n)' = Today(l, n) /\ \A m : Pos(m, n)' = Pos(m, n)
      /\ Budget' = Budget /\ \A k : Mid(k)' = Mid(k) /\ Mid(k) \in {0, 1}
      /\ ~Rested'
  BY <1>2 DEF Today, Pos, Budget, Mid, Rested
<1>8. \A k \in Levels : Mid(k)' + Budget <= Mid(k) + Budget'
  BY <1>4, <1>7
<1>9. \E a \in 0..(config - 1), k \in 0..config : Filled(l, a, k)' /\ NextIs(l, a, k)'
  <2>1. PICK a \in 0..(config - 1), k \in 0..config : Filled(l, a, k) /\ NextIs(l, a, k)
    BY DEF Kept, Rounds
  <2>2. Filled(l, a, k)'
    <3>1. \A n \in 0..(config - 1) :
           /\ Today(l, n) \in DOMAIN disk' <=> Today(l, n) \in DOMAIN disk
           /\ Today(l, n) \in DOMAIN disk => disk'[Today(l, n)] = disk[Today(l, n)]
      BY <1>2
    <3>2. config' = config /\ tm'[Me] = tm[Me] /\ Mid(l)' + Budget <= Mid(l) + Budget'
      BY <1>2, <1>8
    <3> QED BY <2>1, <3>1, <3>2, FilledStays
  <2>3. CASE k = 0
    <3>1. NextIs(l, a, k)'
      <4>1. day[l] # tm[Me]
        BY <2>1, <2>3 DEF NextIs
      <4> QED BY <1>2, <2>3, <4>1 DEF NextIs
    <3> QED BY <2>2, <3>1
  <2>4. CASE k # 0
    <3>1. k > 0 /\ k \in Nat
      BY <1>4, <2>4
    <3>2. day[l] = tm[Me]
      BY <1>2, <1>4, <2>1, <3>1 DEF NextIs
    \* The file in use is one of the day, and full.
    <3>3. opfd[l] = Today(l, seq[l])
      BY <1>3, <3>2 DEF Kept, Today
    <3>4. ~(Length(opfd[l]) < LogSize)
      BY <1>2, <1>4, <3>2 DEF Usable
    <3>5. Today(l, seq[l]) \in DOMAIN disk /\ disk[Today(l, seq[l])] >= LogSize
      <4>1. Today(l, seq[l]) \in DOMAIN disk
        BY <1>4, <3>3, <3>4 DEF Length
      <4>2. disk[Today(l, seq[l])] \in Nat
        BY <4>1 DEF Whole
      <4> QED BY <1>4, <3>3, <3>4, <4>1, <4>2 DEF Length
    <3>6. /\ \A n \in 0..(config - 1) : Pos(a, n) \in 0..(config - 1)
          /\ \A n, m \in 0..(config - 1) : Pos(a, n) = Pos(a, m) => n = m
      BY <1>4, PosIs
    <3>7. Pos(a, seq[l]) \in 0..(config - 1) /\ Pos(a, seq[l]) < k /\ Pos(a, seq[l]) <= k - 1
      <4>1. Pos(a, seq[l]) < k
        BY <1>4, <2>1, <3>5 DEF Filled
      <4> QED BY <1>4, <3>1, <3>6, <4>1
    <3>8. Pos(a, seq[l]) # config - 1
      <4> SUFFICES ASSUME Pos(a, seq[l]) = config - 1 PROVE FALSE
        OBVIOUS
      <4>1. k = config /\ Pos(a, seq[l]) = k - 1
        BY <1>4, <3>1, <3>7
      <4>2. Room(config) + 1 <= Budget
        BY <1>4, <2>1, <3>5, <4>1 DEF Filled
      <4>3. Budget \in Nat /\ Budget <= PerDay /\ Room(config) \in Nat
        BY <1>4
      <4> QED BY <1>4, <4>2, <4>3
    <3>9. Pos(a, (seq[l] + 1) % config) = Pos(a, seq[l]) + 1
      BY <1>4, <3>8, PosIs
    <3>10. count[l] <= Pos(a, seq[l]) + 1
      BY <1>3, <1>4, <2>1, <3>1, <3>2 DEF NextIs
    <3>11. Pos(a, seq[l]) + 1 = k =>
             \A n \in 0..(config - 1) : Pos(a, n) = k - 1 => disk[Today(l, n)] >= LogSize
      <4>1. ASSUME Pos(a, seq[l]) + 1 = k, NEW n \in 0..(config - 1), Pos(a, n) = k - 1
            PROVE  n = seq[l]
        <5>1. Pos(a, n) = Pos(a, seq[l])
          BY <3>7, <4>1
        <5> QED BY <1>4, <3>6, <5>1
      <4> QED BY <3>5, <4>1
    <3>12. Pos(a, seq'[l]) = Pos(a, seq[l]) + 1
      BY <1>6, <3>9
    <3>13. ~InUse(l)'
      BY <1>6 DEF InUse
    <3>14. Pos(a, seq[l]) + 1 <= k /\ count[l] <= Pos(a, seq[l]) + 1 + 0
      BY <1>4, <3>1, <3>7, <3>10
    <3>15. NextIs(l, a, k)'
      BY <1>2, <1>7, <2>4, <3>2, <3>11, <3>12, <3>13, <3>14 DEF NextIs
    <3> QED BY <2>2, <3>15
  <2> QED BY <2>3, <2>4
<1>10. ASSUME NEW k \in Levels
       PROVE  \E a \in 0..(config - 1), j \in 0..config : Filled(k, a, j)' /\ NextIs(k, a, j)'
  <2>1. CASE k = l
    BY <1>9, <2>1
  <2>2. CASE k # l
    BY <1>2, <1>4, <1>6, <1>8, <2>2, LevelStays
  <2> QED BY <2>1, <2>2
<1>11. Rounds'
  BY <1>2, <1>10 DEF Rounds
<1>12. \A k \in Levels : seq'[k] < config
  <2>1. (seq[l] + 1) % config < config
    BY <1>4, <1>5
  <2> QED BY <1>6, <2>1 DEF Kept
<1>13. \A k \in Levels : InUse(k)' => opfd'[k] = File(k, day'[k], seq'[k])
  BY <1>2, <1>6 DEF Kept, InUse
<1>14. OwnNumbers'
  BY <1>2 DEF Kept, OwnNumbers
<1>15. Budget' >= 1
  BY <1>2, <1>7 DEF Kept
<1> QED BY <1>2, <1>11, <1>12, <1>13, <1>14, <1>15 DEF Kept

\* The record goes to a file of the day, which may be full by now.
LEMMA WriteKept ==
  ASSUME Whole, Whole', Only, Rotating, Rotating', Kept, Write(Me)
  PROVE  Kept'
<1>1. PICK l \in Levels : l = lvl[Me]
  BY Facts
<1> DEFINE f == Today(l, seq[l])
<1>2. /\ pc[Me] = "write" /\ pc'[Me] = "idle"
      /\ UNCHANGED <<config, today, seq, opfd, day, count, maxFiles, lvl, tm, calls>>
  BY <1>1, Facts DEF Write, At, Goto, setup, info, Whole, TypeOK
<1>3. InUse(l) /\ day[l] = tm[Me] /\ opfd[l] = f
  BY <1>1, <1>2 DEF Kept, Today
<1>4. disk' = [disk EXCEPT ![f] = @ + 1]
  BY <1>1, <1>3 DEF Write, InUse
<1>5. /\ DOMAIN disk' = DOMAIN disk /\ \A g \in DOMAIN disk : g # f => disk'[g] = disk[g]
      /\ f \in DOMAIN disk => disk'[f] = disk[f] + 1
  BY <1>4
<1>6. /\ config \in Nat \ {0} /\ LogSize \in Nat \ {0} /\ seq[l] \in 0..(config - 1)
      /\ Budget \in Nat /\ Mid(l) = 1 /\ ~Rested
      /\ \A k \in Nat : Room(k) \in Nat /\ Room(k + 1) = Room(k) + LogSize
  <2>1. config \in Nat \ {0} /\ LogSize \in Nat \ {0} /\ PerDay \in Nat
    BY NumberFacts
  <2>2. Budget \in 0..PerDay
    BY NumberFacts
  <2>3. seq[l] < config /\ ~Rested /\ Mid(l) = 1
    BY <1>1, <1>2 DEF Kept, Rested, Mid
  <2>4. seq[l] \in Nat
    BY Facts
  <2>5. seq[l] \in 0..(config - 1)
    BY <2>1, <2>3, <2>4
  <2>6. Budget \in Nat
    BY <2>1, <2>2
  <2>7. \A k \in Nat : Room(k) \in Nat /\ Room(k + 1) = Room(k) + LogSize
    BY NumberFacts
  <2> QED BY <2>1, <2>3, <2>5, <2>6, <2>7
<1>7. /\ \A n : Today(l, n)' = Today(l, n) /\ \A m : Pos(m, n)' = Pos(m, n)
      /\ \A n : Room(n)' = Room(n)
      /\ Budget' = Budget /\ \A k : Mid(k)' = 0 /\ Mid(k) \in {0, 1}
  BY <1>2 DEF Today, Pos, Room, Budget, Mid
<1>8. \A k \in Levels : Mid(k)' + Budget <= Mid(k) + Budget'
  BY <1>6, <1>7
<1>9. \E a \in 0..(config - 1), k \in 0..config : Filled(l, a, k)' /\ NextIs(l, a, k)'
  <2>1. PICK a \in 0..(config - 1), k \in 0..config : Filled(l, a, k) /\ NextIs(l, a, k)
    BY DEF Kept, Rounds
  <2>2. k # 0 /\ k > 0
    BY <1>3, <1>6, <2>1 DEF NextIs
  <2>3. /\ \A n \in 0..(config - 1) : Pos(a, n) \in 0..(config - 1)
        /\ \A n, m \in 0..(config - 1) : Pos(a, n) = Pos(a, m) => n = m
    BY <1>6, PosIs
  <2>4. Pos(a, seq[l]) < k /\ Pos(a, seq[l]) # k
    <3>1. Pos(a, seq[l]) <= k /\ Pos(a, seq[l]) # k
      BY <1>3, <1>6, <2>1, <2>2 DEF NextIs
    <3>2. Pos(a, seq[l]) \in 0..(config - 1)
      BY <1>6, <2>3
    <3>3. k \in Nat /\ Pos(a, seq[l]) \in Nat
      BY <1>6, <3>2
    <3> QED BY <3>1, <3>3
  <2>5. f \in DOMAIN disk
    BY <1>6, <2>1, <2>4 DEF Filled
  <2>6. \A n \in 0..(config - 1) : Pos(a, n) < k =>
          /\ Today(l, n) \in DOMAIN disk /\ disk[Today(l, n)] \in Nat
          /\ disk'[Today(l, n)] = IF n = seq[l] THEN disk[Today(l, n)] + 1 ELSE disk[Today(l, n)]
    <3>1. \A n \in 0..(config - 1) : Pos(a, n) < k => Today(l, n) \in DOMAIN disk
      BY <2>1 DEF Filled
    <3>2. \A n : Today(l, n) = f <=> n = seq[l]
      BY FileIs DEF Today
    <3>3. \A g \in DOMAIN disk : disk[g] \in Nat
      BY DEF Whole
    <3> QED BY <1>5, <2>5, <3>1, <3>2, <3>3
  <2>7. \A n \in 0..(config - 1) : Pos(a, n) < k - 1 => disk'[Today(l, n)] >= LogSize
    <3>1. ASSUME NEW n \in 0..(config - 1), Pos(a, n) < k - 1
          PROVE  disk'[Today(l, n)] >= LogSize
      <4>1. Pos(a, n) < k
        BY <1>6, <2>3, <3>1
      <4>2. disk[Today(l, n)] >= LogSize
        BY <2>1, <3>1 DEF Filled
      <4> QED BY <1>6, <2>6, <4>1, <4>2
    <3> QED BY <3>1
  <2>8. ASSUME NEW n \in 0..(config - 1), Pos(a, n) = k - 1
        PROVE  IF disk'[Today(l, n)] >= LogSize THEN Room(k) + 0 <= Budget
               ELSE Room(k - 1) + disk'[Today(l, n)] + 0 <= Budget
    <3>1. Pos(a, n) < k
      BY <1>6, <2>8
    <3>2. IF disk[Today(l, n)] >= LogSize THEN Room(k) + 1 <= Budget
          ELSE Room(k - 1) + disk[Today(l, n)] + 1 <= Budget
      BY <1>6, <2>1, <2>8 DEF Filled
    <3>3. k - 1 \in Nat /\ (k - 1) + 1 = k
      BY <1>6, <2>2
    <3>4. Room(k - 1) \in Nat /\ Room(k) = Room(k - 1) + LogSize /\ Room(k) \in Nat
      BY <1>6, <3>3
    <3>5. \E e \in Nat : e = disk[Today(l, n)] /\ disk'[Today(l, n)] \in {e, e + 1}
      BY <2>6, <3>1
    <3> QED BY <1>6, <3>2, <3>4, <3>5
  <2>9. Filled(l, a, k)'
    <3>1. \A n \in 0..(config - 1) : Today(l, n) \in DOMAIN disk' <=> Pos(a, n) < k
      BY <1>5, <2>1 DEF Filled
    <3> QED BY <1>2, <1>7, <2>7, <2>8, <3>1 DEF Filled
  <2>10. NextIs(l, a, k)'
    <3>1. InUse(l)' = InUse(l)
      BY <1>2 DEF InUse
    <3>2. Pos(a, seq[l]) <= k
      BY <1>3, <1>6, <2>1, <2>2 DEF NextIs
    <3>3. count[l] <= Pos(a, seq[l]) + (IF InUse(l) THEN 1 ELSE 0)
      BY <1>3, <1>6, <2>1, <2>2 DEF NextIs
    <3> QED BY <1>2, <1>3, <1>7, <2>2, <2>4, <3>1, <3>2, <3>3 DEF NextIs
  <2> QED BY <2>9, <2>10
<1>10. ASSUME NEW k \in Levels
       PROVE  \E a \in 0..(config - 1), j \in 0..config : Filled(k, a, j)' /\ NextIs(k, a, j)'
  <2>1. CASE k = l
    BY <1>9, <2>1
  <2>2. CASE k # l
    <3>1. \A n : Today(k, n) # f
      BY <2>2, FileIs DEF Today
    <3> QED BY <1>2, <1>5, <1>6, <1>8, <2>2, <3>1, LevelStays
  <2> QED BY <2>1, <2>2
<1>11. Rounds'
  BY <1>2, <1>10 DEF Rounds
<1>12. \A k \in Levels : InUse(k)' => opfd'[k] = File(k, day'[k], seq'[k])
  BY <1>2 DEF Kept, InUse
<1>13. OwnNumbers'
  BY <1>5 DEF Kept, OwnNumbers
<1> QED BY <1>2, <1>5, <1>11, <1>12, <1>13 DEF Kept

\* A call of a new day finds no file of that day.
LEMMA CallKept ==
  ASSUME Whole, Whole', Only, Rotating, Rotating', Kept, Call(Me)
  PROVE  Kept'
<1>1. /\ pc[Me] = "idle" /\ pc'[Me] = "lock" /\ tm'[Me] = today /\ calls' = calls + 1
      /\ UNCHANGED <<config, today, disk, seq, opfd, day, count, maxFiles>>
  BY Facts DEF Call, At, Goto, setup, info, Whole, TypeOK
<1>2. calls \in Nat
  BY LogAssumption DEF Whole, LogAssumption
<1>3. Budget' = calls + 1
  BY <1>1 DEF Budget
<1>4. CASE tm[Me] = today
  <2>1. \A l \in Levels : Mid(l)' + Budget <= Mid(l) + Budget'
    <3>1. Budget = calls /\ \A l : Mid(l) = 0 /\ Mid(l)' \in {0, 1}
      BY <1>1, <1>4 DEF Budget, Mid
    <3> QED BY <1>2, <1>3, <3>1
  <2>2. Budget' >= 1 /\ tm'[Me] <= today' /\ ~Rested
    BY <1>1, <1>2, <1>3, <1>4, Facts DEF Rested
  <2>3. tm'[Me] = tm[Me] /\ pc'[Me] # "write" /\ \A l \in Levels : opfd'[l] = opfd[l]
    BY <1>1, <1>4
  <2>4. config' = config /\ UNCHANGED <<disk, seq, day, count, maxFiles>>
    BY <1>1
  <2> QED BY <2>1, <2>2, <2>3, <2>4, QuietKept
<1>5. CASE tm[Me] # today
  <2>1. /\ tm[Me] < today /\ today \in Nat /\ tm[Me] \in Nat
        /\ \A l \in Levels : day[l] \in Nat
    BY <1>5, Facts DEF Kept
  <2>2. \A f \in DOMAIN disk : f.date \in Nat /\ f.date <= today /\ f.date # today
    BY <2>1 DEF Kept, Whole, TypeOK
  <2>3. \A l \in Levels : day[l] <= today /\ day[l] # today
    BY <2>1 DEF Kept
  <2>4. config \in Nat \ {0}
    BY NumberFacts
  <2>5. ASSUME NEW l \in Levels PROVE Filled(l, 0, 0)' /\ NextIs(l, 0, 0)'
    <3>1. \A n : Today(l, n)' \notin DOMAIN disk
      BY <1>1, <2>2, FileIs DEF Today
    <3>2. \A n \in 0..(config - 1) : Pos(0, n)' = n
      BY <1>1 DEF Pos
    <3>3. \A n \in 0..(config - 1) : ~(n < 0) /\ ~(n < 0 - 1) /\ n # 0 - 1
      OBVIOUS
    <3>4. Filled(l, 0, 0)'
      BY <1>1, <3>1, <3>2, <3>3 DEF Filled
    <3>5. NextIs(l, 0, 0)'
      BY <1>1, <2>3 DEF NextIs
    <3> QED BY <3>4, <3>5
  <2>6. Rounds'
    <3>1. 0 \in 0..(config - 1) /\ 0 \in 0..config
      BY <2>4
    <3> QED BY <1>1, <2>5, <3>1 DEF Rounds
  <2>7. Budget' >= 1 /\ tm'[Me] <= today'
    BY <1>1, <1>2, <1>3, Facts
  <2>8. \A l \in Levels : InUse(l)' => opfd'[l] = File(l, day'[l], seq'[l])
    BY <1>1 DEF Kept, InUse
  <2>9. OwnNumbers'
    BY <1>1 DEF Kept, OwnNumbers
  <2> QED BY <1>1, <2>2, <2>3, <2>6, <2>7, <2>8, <2>9 DEF Kept
<1> QED BY <1>4, <1>5

\* get_log_seq_recycle finds a file of the day again, if there is one.
LEMMA RestartKept ==
  ASSUME Whole, Whole', Only, Rotating, Rotating', Kept, Restart
  PROVE  Kept'
<1>1. /\ UNCHANGED <<config, interval, today, disk, tm, lvl, calls>> /\ pc'[Me] = "idle" /\ maxFiles' = config
      /\ \A l \in Levels : opfd'[l] = NoFd /\ day'[l] = 0 /\ seq'[l] = InitialSeq(l)
  BY Facts DEF Restart, setup
<1>2. /\ config \in Nat \ {0} /\ interval = 0 /\ tm[Me] \in 1..MaxDay /\ today \in Nat
      /\ tm[Me] \in Nat /\ PerDay \in Nat
  <2>1. config \in Nat \ {0} /\ interval = 0 /\ PerDay \in Nat
    BY NumberFacts
  <2> QED BY <2>1, Facts
<1>3. \A l \in Levels :
        /\ seq'[l] \in 0..(config - 1)
        /\ today \in {f.date : f \in Names(l)} /\ (\A f \in Names(l) : f.date <= today /\ f.seq < config)
             => \E f \in Names(l) : f.date = today /\ f.seq = seq'[l]
  <2>1. \A l \in Levels : seq'[l] = SeqRecycle(l)
    BY <1>1, <1>2 DEF InitialSeq
  <2>2. \A l \in Levels : SeqRecycle(l) \in 0..(config - 1)
    BY <1>2, RecycleIs
  <2>3. \A l \in Levels :
          today \in {f.date : f \in Names(l)} /\ (\A f \in Names(l) : f.date <= today /\ f.seq < config)
             => \E f \in Names(l) : f.date = today /\ f.seq = SeqRecycle(l)
    BY <1>2, RecycleIs
  <2> QED BY <2>1, <2>2, <2>3
<1>4. ASSUME NEW l \in Levels
      PROVE  \E a \in 0..(config - 1), k \in 0..config : Filled(l, a, k)' /\ NextIs(l, a, k)'
  <2>1. PICK a \in 0..(config - 1), k \in 0..config : Filled(l, a, k) /\ NextIs(l, a, k)
    BY DEF Kept, Rounds
  <2>2. Mid(l)' + Budget <= Mid(l) + Budget'
    <3>1. Budget \in 0..PerDay /\ Mid(l) \in {0, 1}
      BY NumberFacts
    <3>2. Budget' = Budget /\ Mid(l)' = 0 /\ Budget \in Nat
      BY <1>1, <1>2, <3>1 DEF Budget, Mid
    <3> QED BY <3>1, <3>2
  <2>3. Filled(l, a, k)'
    BY <1>1, <2>1, <2>2, FilledStays
  <2>4. day'[l] # tm[Me]
    BY <1>1, <1>2
  <2>5. ASSUME k > 0, tm[Me] = today PROVE Pos(a, seq'[l]) < k
    <3>1. PICK n \in 0..(config - 1) : Pos(a, n) = 0
      BY <1>2, PosIs
    <3>2. Today(l, n) \in DOMAIN disk
      BY <2>1, <2>5, <3>1 DEF Filled
    <3>3. Today(l, n) \in Names(l) /\ Today(l, n).date = today
      BY <2>5, <3>2, FileIs DEF Today, Names
    <3>4. today \in {f.date : f \in Names(l)}
      BY <3>3
    <3>5. \A f \in Names(l) : f.date <= today /\ f.seq < config
      BY <2>5 DEF Kept, Names
    <3>6. PICK f \in Names(l) : f.date = today /\ f.seq = seq'[l]
      BY <1>3, <3>4, <3>5
    <3>7. f = Today(l, seq'[l])
      BY <2>5, <3>6, NamesFinite, FileIs DEF Today
    <3>8. Today(l, seq'[l]) \in DOMAIN disk
      BY <3>6, <3>7 DEF Names
    <3> QED BY <1>3, <2>1, <3>8 DEF Filled
  <2>6. NextIs(l, a, k)'
    <3>1. ~Rested' => tm[Me] = today
      BY <1>1, <1>2 DEF Rested, Kept
    <3>2. k > 0 /\ ~Rested' => Pos(a, seq'[l]) <= k /\ Pos(a, seq'[l]) # k
      <4>1. Pos(a, seq'[l]) \in Int
        <5>1. \A n \in 0..(config - 1) : Pos(a, n) \in 0..(config - 1)
          BY <1>2, PosIs
        <5>2. seq'[l] \in 0..(config - 1)
          BY <1>3
        <5>3. Pos(a, seq'[l]) \in 0..(config - 1)
          BY <5>1, <5>2
        <5> QED BY <5>3
      <4>2. \A p \in Int : p < k => p <= k /\ p # k
        BY <1>2
      <4> QED BY <2>5, <3>1, <4>1, <4>2
    <3>3. \A m : Pos(a, m)' = Pos(a, m)
      BY <1>1 DEF Pos
    <3> QED BY <1>1, <2>4, <3>2, <3>3 DEF NextIs
  <2> QED BY <2>3, <2>6
<1>5. Rounds'
  BY <1>1, <1>4 DEF Rounds
<1>6. \A l \in Levels : seq'[l] < config /\ day'[l] <= tm[Me]
  BY <1>1, <1>2, <1>3
<1>7. OwnNumbers' /\ \A l \in Levels : ~InUse(l)'
  BY <1>1 DEF Kept, OwnNumbers, InUse
<1> QED BY <1>1, <1>5, <1>6, <1>7 DEF Kept

LEMMA KeptKept ==
  ASSUME Whole, Whole', IInv, Only, Rotating, Rotating', Kept, [Next]_vars
  PROVE  Kept'
<1>1. /\ PerDay \in Nat /\ Budget \in Nat /\ \A l : Mid(l) \in {0, 1}
  <2>1. PerDay \in Nat /\ Budget \in 0..PerDay /\ \A l : Mid(l) \in {0, 1}
    BY NumberFacts
  <2> QED BY <2>1
<1>2. CASE \E t \in Threads : Step(t)
  <2>1. Step(Me)
    BY <1>2, OneThread
  <2>2. CASE Call(Me)
    BY <2>2, CallKept
  <2>3. CASE Lock(Me) \/ OpenFirstFails(Me) \/ KeepFile(Me) \/ OpenNextFails(Me)
    <3>1. /\ UNCHANGED <<config, today, disk, seq, day, count, maxFiles, lvl, tm, calls>>
          /\ pc[Me] # "idle"
      BY <2>3, Facts DEF Lock, OpenFirstFails, KeepFile, OpenNextFails, GiveUp, OpenFails, At, setup, info
    <3>2. \A l \in Levels : opfd'[l] = opfd[l] \/ (opfd'[l] = NoFd /\ ~InUse(l))
      <4>1. CASE Lock(Me) \/ KeepFile(Me)
        BY <4>1 DEF Lock, KeepFile, info
      <4>2. CASE OpenFirstFails(Me) \/ OpenNextFails(Me)
        <5>1. opfd' = [opfd EXCEPT ![lvl[Me]] = NoFd]
          BY <4>2 DEF OpenFirstFails, OpenNextFails, GiveUp, OpenFails
        <5>2. ~InUse(lvl[Me])
          BY <4>2, Facts DEF OpenFirstFails, OpenNextFails, At, InUse, IInv, ClosedMeansOpening
        <5> QED BY <5>1, <5>2, Facts DEF Whole, TypeOK
      <4> QED BY <2>3, <4>1, <4>2
    <3>3. pc'[Me] = "write" => InUse(lvl[Me])' /\ day[lvl[Me]] = tm[Me] /\ lvl'[Me] = lvl[Me]
      <4>1. CASE ~KeepFile(Me)
        <5>1. pc'[Me] # "write"
          BY <2>3, <4>1, Facts DEF Lock, OpenFirstFails, OpenNextFails, GiveUp, Goto, Whole, TypeOK
        <5> QED BY <5>1
      <4>2. CASE KeepFile(Me)
        <5>1. /\ opfd' = opfd /\ opfd[lvl[Me]] # NoFd /\ pc[Me] = "check" /\ Usable(lvl[Me], tm[Me])
          BY <4>2 DEF KeepFile, At, info
        <5>2. interval = 0
          BY NumberFacts
        <5>3. opfd[lvl[Me]] # Closed
          BY <5>1, NoneClosed, Facts
        <5> QED BY <3>1, <5>1, <5>2, <5>3 DEF InUse, Usable
      <4> QED BY <4>1, <4>2
    <3>4. \A l \in Levels : Mid(l)' + Budget <= Mid(l) + Budget'
      <4>1. Budget' = Budget
        BY <3>1 DEF Budget
      <4>2. \A l \in Levels : Mid(l)' \in {0, Mid(l)}
        BY <3>1 DEF Mid
      <4> QED BY <1>1, <4>1, <4>2
    <3>5. tm'[Me] <= today' /\ Budget' >= 1 /\ ~Rested
      BY <3>1 DEF Kept, Budget, Rested
    <3> QED BY <3>1, <3>2, <3>3, <3>4, <3>5, QuietKept
  <2>4. CASE OpenFirst(Me)
    <3>1. /\ UNCHANGED <<config, today, lvl, tm, calls, pc>> /\ pc[Me] = "check"
          /\ OpenFd(lvl[Me], tm[Me]) /\ ~InUse(lvl[Me])
      BY <2>4 DEF OpenFirst, At, thread, setup, InUse
    <3> QED BY <3>1, OpenKept
  <2>5. CASE OpenNext(Me)
    <3>1. /\ UNCHANGED <<config, today, lvl, tm, calls>> /\ pc[Me] = "open" /\ pc'[Me] = "write"
          /\ OpenFd(lvl[Me], tm[Me]) /\ ~InUse(lvl[Me])
      BY <2>5, Facts DEF OpenNext, At, Goto, setup, InUse, IInv, ClosedMeansOpening, Whole, TypeOK
    <3> QED BY <3>1, OpenKept
  <2>6. CASE CloseFile(Me)
    BY <2>6, CloseKept
  <2>7. CASE Write(Me)
    BY <2>7, WriteKept
  <2> QED BY <2>1, <2>2, <2>3, <2>4, <2>5, <2>6, <2>7 DEF Step
<1>3. CASE Midnight
  <2>1. /\ UNCHANGED <<config, disk, seq, opfd, day, count, maxFiles, pc, lvl, tm>> /\ today' = today + 1
    BY <1>3 DEF Midnight, setup, info, thread
  <2>2. tm[Me] <= today /\ tm[Me] < today + 1 /\ tm[Me] # today + 1 /\ tm[Me] <= today + 1
    BY Facts DEF Kept
  <2>3. Budget' = PerDay
    BY <2>1, <2>2 DEF Budget
  <2>4. \A l \in Levels : Mid(l)' + Budget <= Mid(l) + Budget'
    <3>1. Budget <= PerDay
      BY NumberFacts
    <3>2. \A l \in Levels : Mid(l)' = Mid(l)
      BY <2>1 DEF Mid
    <3> QED BY <1>1, <2>3, <3>1, <3>2
  <2>5. Rested => Rested'
    BY <2>1, <2>2 DEF Rested
  <2>6. pc'[Me] # "idle" => Budget' >= 1
    <3>1. Budget <= PerDay
      BY NumberFacts
    <3> QED BY <1>1, <2>1, <2>3, <3>1 DEF Kept
  <2>7. pc'[Me] = "write" => InUse(lvl[Me])' /\ day[lvl[Me]] = tm[Me] /\ lvl'[Me] = lvl[Me]
    BY <2>1 DEF Kept, InUse
  <2> QED BY <2>1, <2>2, <2>4, <2>5, <2>6, <2>7, QuietKept
<1>4. CASE Restart
  BY <1>4, RestartKept
<1>5. CASE UNCHANGED vars
  <2>1. UNCHANGED <<config, today, disk, seq, opfd, day, count, maxFiles, pc, lvl, tm, calls>>
    BY <1>5 DEF vars, setup, info, thread
  <2>2. Budget' = Budget /\ (\A l : Mid(l)' = Mid(l)) /\ Rested' = Rested
    BY <2>1 DEF Budget, Mid, Rested
  <2>3. \A l \in Levels : Mid(l)' + Budget <= Mid(l) + Budget'
    BY <1>1, <2>2
  <2>4. pc'[Me] = "write" => InUse(lvl[Me])' /\ day[lvl[Me]] = tm[Me] /\ lvl'[Me] = lvl[Me]
    BY <2>1 DEF Kept, InUse
  <2>5. tm'[Me] <= today' /\ (pc'[Me] # "idle" => Budget' >= 1)
    BY <2>1, <2>2 DEF Kept
  <2> QED BY <2>1, <2>2, <2>3, <2>4, <2>5, QuietKept
<1> QED BY <1>2, <1>3, <1>4, <1>5 DEF Next, Over

LEMMA InitKept ==
  ASSUME Init, Only, Rotating PROVE Kept
<1>1. Whole
  BY InitWhole
<1>2. /\ config \in Nat \ {0} /\ interval = 0 /\ Me \in Threads /\ tm[Me] = 1
  BY <1>1, NumberFacts, Facts DEF Init
<1>3. /\ today = 1 /\ DOMAIN disk = {} /\ maxFiles = config /\ pc[Me] = "idle"
      /\ \A l \in Levels : opfd[l] = NoFd /\ day[l] = 0 /\ seq[l] = 0
  BY <1>2 DEF Init, Period
<1>4. ASSUME NEW l \in Levels PROVE Filled(l, 0, 0) /\ NextIs(l, 0, 0)
  <2>1. \A n \in 0..(config - 1) : Pos(0, n) = n
    BY DEF Pos
  <2>2. \A n \in 0..(config - 1) : ~(n < 0) /\ ~(n < 0 - 1) /\ n # 0 - 1
    OBVIOUS
  <2>3. Filled(l, 0, 0)
    BY <1>3, <2>1, <2>2 DEF Filled
  <2>4. NextIs(l, 0, 0)
    BY <1>2, <1>3 DEF NextIs
  <2> QED BY <2>3, <2>4
<1>5. Rounds
  <2>1. 0 \in 0..(config - 1) /\ 0 \in 0..config
    BY <1>2
  <2> QED BY <1>4, <2>1 DEF Rounds
<1> QED BY <1>2, <1>3, <1>5 DEF Kept, InUse, OwnNumbers

LEMMA KeptBounded ==
  ASSUME Whole, Only, Rotating, Kept, NEW l \in Levels
  PROVE  Cardinality(Names(l)) <= config
<1> DEFINE N == Names(l)
           S == 0..(config - 1)
           g == [f \in N |-> f.seq]
<1>1. config \in Nat \ {0}
  BY NumberFacts
<1>2. g \in Injection(N, S)
  <2>1. \A f \in N : f \in DOMAIN disk /\ f.lvl = l /\ f.seq \in Nat /\ f.seq < config
    BY NamesFinite DEF Kept
  <2>2. \A f \in N : f.seq \in S
    BY <1>1, <2>1
  <2>3. \A f, h \in N : f.seq = h.seq => f = h
    BY <2>1 DEF Kept, OwnNumbers
  <2> QED BY <2>2, <2>3 DEF Injection, IsInjective
<1>3. IsFiniteSet(S) /\ Cardinality(S) = config
  BY <1>1, FS_Interval
<1> HIDE DEF N, S, g
<1>4. Cardinality(N) <= Cardinality(S)
  BY <1>2, <1>3, FS_Injection
<1> QED BY <1>3, <1>4 DEF N

---------------------------------------------------------------------------

FInv == Whole /\ IInv /\ (Only => Dated /\ (Rotating => Kept))

\* The invariant of a program with one thread is one.
LEMMA FilesInvariance == Spec => []FInv
<1>1. Init => FInv
  <2> SUFFICES ASSUME Init PROVE FInv
    OBVIOUS
  <2>1. Whole /\ IInv
    BY InitWhole, InitIInv
  <2>2. Dated
    BY InitDated
  <2>3. Only /\ Rotating => Kept
    BY InitKept
  <2> QED BY <2>1, <2>2, <2>3 DEF FInv
<1>2. FInv /\ IInv' /\ [Next]_vars => FInv'
  <2> SUFFICES ASSUME FInv, IInv', [Next]_vars PROVE FInv'
    OBVIOUS
  <2>1. Whole'
    BY WholeKept DEF FInv
  <2>2. Only => Dated'
    BY DatedKept DEF FInv
  <2>3. Rotating' => Rotating
    <3>1. config' = config
      BY DEF Next, Step, Call, Lock, OpenFirst, OpenFirstFails, KeepFile, CloseFile, OpenNext,
             OpenNextFails, GiveUp, Write, Midnight, Restart, Over, vars, setup
    <3> QED BY <3>1 DEF Rotating
  <2>4. ASSUME Only, Rotating' PROVE Kept'
    <3>1. Rotating /\ Kept /\ Whole /\ IInv
      BY <2>3, <2>4 DEF FInv
    <3> QED BY <2>1, <2>4, <3>1, KeptKept
  <2> QED BY <2>1, <2>2, <2>4 DEF FInv
<1> QED BY <1>1, <1>2, Invariance, PTL DEF Spec

\* A program with one thread, of whichever number of files, length of file and
\* levels: while no day writes more than its files hold, a level never has more
\* files than it may, wherever the program was started again, open failed or the
\* clock passed midnight; and each record is in the file of its day or period.
THEOREM FilesRightAlways == Spec => []FilesRight
<1>1. FInv => FilesRight
  <2> SUFFICES ASSUME FInv, Alone PROVE TypeOK /\ FilesBounded /\ InItsDay
    BY DEF FilesRight
  <2>1. Only
    BY DEF FInv, IInv, Types, Alone, Only
  <2>2. TypeOK /\ InItsDay
    BY <2>1 DEF FInv, Whole, Dated
  <2>3. FilesBounded
    BY <2>1, KeptBounded DEF FInv, FilesBounded, Rotating
  <2> QED BY <2>2, <2>3
<1> QED BY <1>1, FilesInvariance, PTL

---------------------------------------------------------------------------
(* One thread: the order of the files. *)

\* The number that is opened next: from it on, round the numbers, the files of a
\* level are of later and later days.
Upcoming(l) == IF InUse(l) THEN (seq[l] + 1) % config ELSE seq[l]

Ring ==
  \A l \in Levels : \A f, g \in Names(l) :
    Pos(Upcoming(l), f.seq) < Pos(Upcoming(l), g.seq) => f.date <= g.date

\* Without rotation: the files of a day are numbered from 0 on without a gap, as
\* long as the program was not started again.
Gapless ==
  \A l \in Levels :
    /\ opfd[l] = NoFd => seq[l] = 0
    /\ InUse(l) => \A n \in 0..seq[l] : File(l, day[l], n) \in DOMAIN disk
    /\ opfd[l] = Closed => \A n \in 0..(seq[l] - 1) : Today(l, n) \in DOMAIN disk
    /\ \A f \in Names(l) : \A n \in 0..f.seq : File(l, f.date, n) \in DOMAIN disk

\* Of the day of the last record, no lower number is in use or comes next.
NotBack ==
  InFile(last) =>
    /\ last.in \in DOMAIN disk /\ last.in.date <= tm[Me]
    /\ last.in.date = tm[Me] /\ ~Rested =>
         /\ seq[last.in.lvl] >= last.in.seq
         /\ day[last.in.lvl] = tm[Me] \/ opfd[last.in.lvl] = NoFd

Counting ==
  /\ \A l \in Levels : InUse(l) => opfd[l] = File(l, day[l], seq[l]) /\ opfd[l] \in DOMAIN disk
  /\ restarts = 0 => Gapless
  /\ restarts <= 1 => NotBack

Ordered ==
  /\ fails \in Nat /\ restarts \in Nat
  /\ InFile(last) => last.in \in AllFiles
  /\ interval # 0 =>
       /\ \A l \in Levels : InUse(l) => opfd[l].seq = 0
       /\ InFile(last) => last.in.seq = 0
  /\ Rotating /\ restarts = 0 => Ring
  /\ config = 0 /\ interval = 0 /\ fails = 0 => Counting

\* One number further round, the number left behind is the last.
LEMMA PosShift ==
  ASSUME config \in Nat \ {0}, NEW p \in 0..(config - 1), NEW n \in 0..(config - 1)
  PROVE  Pos((p + 1) % config, n) = IF n = p THEN config - 1 ELSE Pos(p, n) - 1
<1>1. CASE p + 1 < config
  <2>1. (p + 1) % config = p + 1
    BY <1>1
  <2> QED BY <1>1, <2>1 DEF Pos
<1>2. CASE p + 1 = config
  <2>1. (p + 1) % config = 0
    BY <1>2
  <2> QED BY <1>2, <2>1 DEF Pos
<1> QED BY <1>1, <1>2

\* open_fd takes the place of the oldest file.
LEMMA OpenRing ==
  ASSUME Whole, Only, Rotating, config' = config, Kept, Ring, NEW l \in Levels, l = lvl[Me], ~InUse(l), pc[Me] # "idle",
         OpenFd(l, tm[Me])
  PROVE  Ring' /\ OldestGoes
<1> DEFINE f == Today(l, seq[l])
<1>1. /\ seq' = seq /\ opfd' = [opfd EXCEPT ![l] = f]
      /\ f \in DOMAIN disk'
      /\ \A g \in DOMAIN disk' : g # f => g \in DOMAIN disk /\ ~(g.lvl = l /\ g.seq = seq[l])
      /\ \A g \in DOMAIN disk : ~(g.lvl = l /\ g.seq = seq[l]) => g \in DOMAIN disk'
  BY OpenEffect
<1>2. config \in Nat \ {0} /\ seq[l] \in 0..(config - 1) /\ tm[Me] \in Nat
  <2>1. config \in Nat \ {0} /\ seq[l] < config /\ seq[l] \in Nat /\ tm[Me] \in Nat
    BY NumberFacts, Facts DEF Kept
  <2> QED BY <2>1
<1>3. f.lvl = l /\ f.seq = seq[l] /\ f.date = tm[Me]
  BY FileIs DEF Today
<1>4. f \in AllFiles
  BY <1>2 DEF Today, File, AllFiles
<1>5. \A n, m : Pos(n, m)' = Pos(n, m)
  BY DEF Pos
<1>6. /\ Upcoming(l) = seq[l] /\ Upcoming(l)' = (seq[l] + 1) % config
      /\ \A k \in Levels : k # l => Upcoming(k)' = Upcoming(k)
  <2>1. opfd'[l] = f /\ \A k \in Levels : k # l => opfd'[k] = opfd[k]
    BY <1>1 DEF Whole, TypeOK
  <2>2. InUse(l)' /\ \A k \in Levels : k # l => InUse(k)' = InUse(k)
    BY <1>4, <2>1, FileIsInUse DEF InUse
  <2> QED BY <1>1, <2>2 DEF Upcoming
\* The files of the level there were.
<1>7. \A g \in Names(l) : g.seq \in 0..(config - 1) /\ g.date \in Nat /\ g.date <= tm[Me]
  <2>1. \A g \in Names(l) : g \in DOMAIN disk /\ g.date \in Nat /\ g.seq \in Nat
    BY NamesFinite
  <2> QED BY <1>2, <2>1 DEF Kept
<1>8. \A g \in Names(l)' : g = f \/ (g \in Names(l) /\ g.seq # seq[l])
  BY <1>1 DEF Names
<1>9. ASSUME NEW g \in Names(l), NEW h \in Names(l), Pos(seq[l], g.seq) < Pos(seq[l], h.seq)
      PROVE  g.date <= h.date
  BY <1>6, <1>9 DEF Ring
<1>10. ASSUME NEW g \in Names(l)', NEW h \in Names(l)', (Pos(Upcoming(l), g.seq) < Pos(Upcoming(l), h.seq))'
       PROVE  g.date <= h.date
  <2>1. Pos((seq[l] + 1) % config, g.seq) < Pos((seq[l] + 1) % config, h.seq)
    BY <1>5, <1>6, <1>10
  <2>2. g.seq \in 0..(config - 1) /\ h.seq \in 0..(config - 1)
    BY <1>2, <1>3, <1>7, <1>8
  <2>3. /\ Pos(seq[l], g.seq) \in 0..(config - 1) /\ Pos(seq[l], h.seq) \in 0..(config - 1)
    BY <1>2, <2>2, PosIs
  <2>4. /\ Pos((seq[l] + 1) % config, g.seq) = IF g.seq = seq[l] THEN config - 1 ELSE Pos(seq[l], g.seq) - 1
        /\ Pos((seq[l] + 1) % config, h.seq) = IF h.seq = seq[l] THEN config - 1 ELSE Pos(seq[l], h.seq) - 1
    BY <1>2, <2>2, PosShift
  <2>5. g # f
    BY <1>2, <1>3, <2>1, <2>3, <2>4
  <2>6. g \in Names(l) /\ g.seq # seq[l]
    BY <1>8, <2>5
  <2>7. CASE h = f
    BY <1>3, <1>7, <2>6, <2>7
  <2>8. CASE h # f
    <3>1. h \in Names(l) /\ h.seq # seq[l]
      BY <1>8, <2>8
    <3>2. Pos(seq[l], g.seq) < Pos(seq[l], h.seq)
      BY <2>1, <2>3, <2>4, <2>6, <3>1
    <3> QED BY <1>9, <2>6, <3>1, <3>2
  <2> QED BY <2>7, <2>8
<1>11. ASSUME NEW k \in Levels, k # l, NEW g \in Names(k)', NEW h \in Names(k)', (Pos(Upcoming(k), g.seq) < Pos(Upcoming(k), h.seq))'
       PROVE  g.date <= h.date
  <2>1. g \in Names(k) /\ h \in Names(k)
    BY <1>1, <1>3, <1>11 DEF Names
  <2>2. Pos(Upcoming(k), g.seq) < Pos(Upcoming(k), h.seq)
    BY <1>5, <1>6, <1>11
  <2> QED BY <2>1, <2>2 DEF Ring
<1>12. Ring'
  BY <1>10, <1>11 DEF Ring
<1>13. OldestGoes
  <2> SUFFICES ASSUME NEW g \in DOMAIN disk, g \notin DOMAIN disk', NEW h \in DOMAIN disk', h.lvl = g.lvl
               PROVE  h.date >= g.date
    BY DEF OldestGoes
  <2>1. g.lvl = l /\ g.seq = seq[l] /\ g \in Names(l)
    BY <1>1 DEF Names
  <2>2. CASE h = f
    BY <1>2, <1>3, <1>7, <2>1, <2>2
  <2>3. CASE h # f
    <3>1. h \in Names(l) /\ h.seq # seq[l]
      BY <1>1, <2>1, <2>3 DEF Names
    <3>2. h.seq \in 0..(config - 1)
      BY <1>7, <3>1
    <3>3. \A n, m \in 0..(config - 1) : Pos(seq[l], n) = Pos(seq[l], m) => n = m
      BY <1>2, PosIs
    <3>4. Pos(seq[l], seq[l]) = 0
      BY <1>2, PosIs
    <3>5. Pos(seq[l], h.seq) \in 0..(config - 1)
      BY <1>2, <3>2, PosIs
    <3>6. Pos(seq[l], h.seq) # 0
      BY <1>2, <3>1, <3>2, <3>3, <3>4
    <3>7. Pos(seq[l], g.seq) < Pos(seq[l], h.seq)
      BY <2>1, <3>4, <3>5, <3>6
    <3>8. g.date <= h.date /\ g.date \in Nat /\ h.date \in Nat
      BY <1>7, <1>9, <2>1, <3>1, <3>7
    <3> QED BY <3>8
  <2> QED BY <2>2, <2>3
<1> QED BY <1>12, <1>13

LEMMA RingKept ==
  ASSUME Whole, IInv, Only, Rotating, config' = config, Kept, Ring, [Next]_vars, ~Restart
  PROVE  Ring' /\ OldestGoes
<1>1. ASSUME DOMAIN disk' = DOMAIN disk, \A l \in Levels : Upcoming(l)' = Upcoming(l)
      PROVE  Ring' /\ OldestGoes
  <2>1. \A l : Names(l)' = Names(l)
    BY <1>1 DEF Names
  <2>2. \A n, m : Pos(n, m)' = Pos(n, m)
    BY DEF Pos
  <2>3. Ring'
    BY <1>1, <2>1, <2>2 DEF Ring
  <2> QED BY <1>1, <2>3 DEF OldestGoes
<1>2. CASE \E t \in Threads : Step(t)
  <2>1. Step(Me)
    BY <1>2, OneThread
  <2>2. CASE Call(Me) \/ Lock(Me) \/ KeepFile(Me)
    <3>1. UNCHANGED <<disk, seq, opfd>>
      BY <2>2 DEF Call, Lock, KeepFile, info
    <3>2. \A l \in Levels : Upcoming(l)' = Upcoming(l)
      BY <3>1 DEF Upcoming, InUse
    <3> QED BY <1>1, <3>1, <3>2
  <2>3. CASE OpenFirstFails(Me) \/ OpenNextFails(Me)
    <3>1. opfd' = [opfd EXCEPT ![lvl[Me]] = NoFd] /\ disk' = disk /\ seq' = seq
      BY <2>3 DEF OpenFirstFails, OpenNextFails, GiveUp, OpenFails
    <3>2. ~InUse(lvl[Me])
      BY <2>3, Facts DEF OpenFirstFails, OpenNextFails, At, InUse, IInv, ClosedMeansOpening
    <3>3. \A l \in Levels : InUse(l)' = InUse(l)
      BY <3>1, <3>2 DEF InUse, Whole, TypeOK
    <3>4. \A l \in Levels : Upcoming(l)' = Upcoming(l)
      BY <3>1, <3>3 DEF Upcoming
    <3> QED BY <1>1, <3>1, <3>4
  <2>4. CASE OpenFirst(Me) \/ OpenNext(Me)
    <3>1. pc[Me] # "idle" /\ OpenFd(lvl[Me], tm[Me]) /\ ~InUse(lvl[Me])
      BY <2>4, Facts DEF OpenFirst, OpenNext, At, InUse, IInv, ClosedMeansOpening
    <3>2. PICK l \in Levels : l = lvl[Me]
      BY Facts
    <3> QED BY <3>1, <3>2, OpenRing
  <2>5. CASE CloseFile(Me)
    <3>1. PICK l \in Levels : l = lvl[Me]
      BY Facts
    <3>2. /\ pc[Me] = "check" /\ opfd[l] # NoFd
          /\ opfd' = [opfd EXCEPT ![l] = Closed] /\ seq' = [seq EXCEPT ![l] = NextSeq(l, tm[Me])]
          /\ disk' = disk
      BY <2>5, <3>1 DEF CloseFile, At
    <3>3. InUse(l)
      BY <3>2, NoneClosed, Facts DEF InUse
    <3>4. NextSeq(l, tm[Me]) = (seq[l] + 1) % config
      BY NumberFacts DEF NextSeq, Kept
    <3>5. /\ \A k \in Levels : opfd'[k] = IF k = l THEN Closed ELSE opfd[k]
          /\ \A k \in Levels : seq'[k] = IF k = l THEN (seq[l] + 1) % config ELSE seq[k]
      BY <3>2, <3>4 DEF Whole, TypeOK
    <3>6. \A k \in Levels : Upcoming(k)' = Upcoming(k)
      BY <3>3, <3>5 DEF Upcoming, InUse
    <3> QED BY <1>1, <3>2, <3>6
  <2>6. CASE Write(Me)
    <3>1. DOMAIN disk' = DOMAIN disk /\ UNCHANGED <<seq, opfd>>
      BY <2>6 DEF Write, info
    <3>2. \A l \in Levels : Upcoming(l)' = Upcoming(l)
      BY <3>1 DEF Upcoming, InUse
    <3> QED BY <1>1, <3>1, <3>2
  <2> QED BY <2>1, <2>2, <2>3, <2>4, <2>5, <2>6 DEF Step
<1>3. CASE Midnight \/ UNCHANGED vars
  <2>1. UNCHANGED <<disk, seq, opfd>>
    BY <1>3 DEF Midnight, vars, info
  <2>2. \A l \in Levels : Upcoming(l)' = Upcoming(l)
    BY <2>1 DEF Upcoming, InUse
  <2> QED BY <1>1, <2>1, <2>2
<1> QED BY <1>2, <1>3 DEF Next, Over

---------------------------------------------------------------------------

Numbered == config = 0 /\ interval = 0 /\ Counting

\* open_fd without a limit: nothing goes, no number is passed over.
LEMMA OpenCounting ==
  ASSUME Whole, Only, Numbered, NEW l \in Levels, l = lvl[Me],
         ~InUse(l), pc[Me] # "idle", pc'[Me] # "idle", OpenFd(l, tm[Me]),
         UNCHANGED <<today, tm, last, restarts>>
  PROVE  Counting'
<1> DEFINE f == Today(l, seq[l])
<1>1. /\ maxFiles = 0 /\ tm[Me] \in Nat /\ seq[l] \in Nat /\ config = 0 /\ interval = 0
      /\ Path(l, tm[Me]) = f
  BY Facts DEF Numbered, Whole, TypeOK, Path, Today
<1>2. /\ seq' = seq /\ maxFiles' = 0
      /\ opfd' = [opfd EXCEPT ![l] = f] /\ day' = [day EXCEPT ![l] = tm[Me]]
  BY <1>1 DEF OpenFd
<1>3. DOMAIN disk' = DOMAIN disk \cup {f}
  <2>1. disk' = Touched(Without(disk, {}), f)
    BY <1>1, <1>2 DEF OpenFd
  <2> QED BY <2>1 DEF Touched, Without
<1>4. /\ \A k \in Levels : opfd'[k] = IF k = l THEN f ELSE opfd[k]
      /\ \A k \in Levels : day'[k] = IF k = l THEN tm[Me] ELSE day[k]
  BY <1>2 DEF Whole, TypeOK
<1>5. f \in AllFiles /\ f \notin {NoFd, Closed} /\ f.lvl = l /\ f.date = tm[Me] /\ f.seq = seq[l]
  <2>1. f \in AllFiles
    BY <1>1 DEF Today, File, AllFiles
  <2> QED BY <2>1, FileIsInUse, FileIs DEF Today
<1>6. \A k, n : Today(k, n)' = Today(k, n)
  BY DEF Today
<1>7. \A k \in Levels : InUse(k)' => opfd'[k] = File(k, day'[k], seq'[k]) /\ opfd'[k] \in DOMAIN disk'
  BY <1>2, <1>3, <1>4 DEF Numbered, Counting, InUse, Today
<1>8. ASSUME Gapless PROVE Gapless'
  <2>1. \A n \in 0..seq[l] : Today(l, n) \in DOMAIN disk'
    <3> SUFFICES ASSUME NEW n \in 0..seq[l] PROVE Today(l, n) \in DOMAIN disk'
      OBVIOUS
    <3>1. CASE n = seq[l]
      BY <1>3, <3>1
    <3>2. CASE n # seq[l]
      <4>1. n \in 0..(seq[l] - 1) /\ seq[l] # 0
        BY <1>1, <3>2
      <4>2. opfd[l] = Closed
        BY <1>8, <4>1 DEF Gapless, InUse
      <4> QED BY <1>3, <1>8, <4>1, <4>2 DEF Gapless
    <3> QED BY <3>1, <3>2
  <2>2. ASSUME NEW k \in Levels
        PROVE  /\ (opfd[k] = NoFd => seq[k] = 0)'
               /\ (InUse(k) => \A n \in 0..seq[k] : File(k, day[k], n) \in DOMAIN disk)'
               /\ (opfd[k] = Closed => \A n \in 0..(seq[k] - 1) : Today(k, n) \in DOMAIN disk)'
    <3>1. CASE k = l
      BY <1>2, <1>4, <1>5, <2>1, <3>1 DEF Today
    <3>2. CASE k # l
      BY <1>2, <1>3, <1>4, <1>6, <1>8, <3>2 DEF Gapless, InUse
    <3> QED BY <3>1, <3>2
  <2>3. ASSUME NEW k \in Levels, NEW g \in Names(k)'
        PROVE  \A n \in 0..g.seq : File(k, g.date, n) \in DOMAIN disk'
    <3>1. CASE g = f
      <4>1. k = l
        BY <1>5, <2>3, <3>1 DEF Names
      <4> QED BY <1>5, <2>1, <3>1, <4>1 DEF Today
    <3>2. CASE g # f
      BY <1>3, <1>8, <2>3, <3>2 DEF Gapless, Names
    <3> QED BY <3>1, <3>2
  <2> QED BY <2>2, <2>3 DEF Gapless
<1>9. ASSUME NotBack, InFile(last) => last.in \in AllFiles PROVE NotBack'
  <2>1. ~Rested /\ InFile(last)' = InFile(last)
    BY DEF Rested, InFile
  <2> SUFFICES ASSUME InFile(last)
               PROVE  /\ last.in \in DOMAIN disk' /\ last.in.date <= tm[Me]
                      /\ last.in.date = tm[Me] =>
                           /\ seq'[last.in.lvl] >= last.in.seq
                           /\ day'[last.in.lvl] = tm[Me] \/ opfd'[last.in.lvl] = NoFd
    BY <2>1 DEF NotBack
  <2>2. last.in.lvl \in Levels
    BY <1>9 DEF AllFiles
  <2>3. last.in \in DOMAIN disk' /\ last.in.date <= tm[Me]
    BY <1>3, <1>9 DEF NotBack
  <2> QED BY <1>2, <1>4, <1>9, <2>1, <2>2, <2>3 DEF NotBack
<1>10. NotBack => (InFile(last) => last.in \in AllFiles)
  BY DEF NotBack, Whole, TypeOK, AllFiles
<1> QED BY <1>7, <1>8, <1>9, <1>10 DEF Numbered, Counting

LEMMA CloseCounting ==
  ASSUME Whole, IInv, Only, Numbered, CloseFile(Me)
  PROVE  Counting'
<1>1. PICK l \in Levels : l = lvl[Me]
  BY Facts
<1>2. /\ pc[Me] = "check" /\ pc'[Me] = "open" /\ opfd[l] # NoFd
      /\ opfd' = [opfd EXCEPT ![l] = Closed] /\ seq' = [seq EXCEPT ![l] = NextSeq(l, tm[Me])]
      /\ UNCHANGED <<today, disk, day, tm, last, restarts>>
  BY <1>1, Facts DEF CloseFile, At, Goto, bounds, Whole, TypeOK
<1>3. InUse(l)
  BY <1>2, NoneClosed, Facts DEF InUse
<1>4. /\ config = 0 /\ interval = 0 /\ maxFiles = 0 /\ seq[l] \in Nat
      /\ NextSeq(l, tm[Me]) = IF day[l] # tm[Me] THEN 0 ELSE seq[l] + 1
  BY Facts DEF Numbered, Whole, TypeOK, NextSeq
<1>5. /\ \A k \in Levels : opfd'[k] = IF k = l THEN Closed ELSE opfd[k]
      /\ \A k \in Levels : seq'[k] = IF k # l THEN seq[k] ELSE IF day[l] # tm[Me] THEN 0 ELSE seq[l] + 1
  BY <1>2, <1>4 DEF Whole, TypeOK
<1>6. \A k, n : Today(k, n)' = Today(k, n)
  BY <1>2 DEF Today
<1>7. \A k \in Levels : InUse(k)' => opfd'[k] = File(k, day'[k], seq'[k]) /\ opfd'[k] \in DOMAIN disk'
  BY <1>2, <1>5 DEF Numbered, Counting, InUse
<1>8. ASSUME Gapless PROVE Gapless'
  <2>1. ASSUME NEW k \in Levels
        PROVE  /\ (opfd[k] = NoFd => seq[k] = 0)'
               /\ (InUse(k) => \A n \in 0..seq[k] : File(k, day[k], n) \in DOMAIN disk)'
               /\ (opfd[k] = Closed => \A n \in 0..(seq[k] - 1) : Today(k, n) \in DOMAIN disk)'
    <3>1. CASE k = l
      <4>1. \A n \in 0..(seq'[l] - 1) : Today(l, n) \in DOMAIN disk
        <5> SUFFICES ASSUME NEW n \in 0..(seq'[l] - 1) PROVE Today(l, n) \in DOMAIN disk
          OBVIOUS
        <5>1. day[l] = tm[Me] /\ n \in 0..seq[l]
          BY <1>4, <1>5
        <5> QED BY <1>3, <1>8, <5>1 DEF Gapless, Today
      <4> QED BY <1>2, <1>5, <1>6, <3>1, <4>1, Distinct DEF InUse
    <3>2. CASE k # l
      BY <1>2, <1>5, <1>6, <1>8, <3>2 DEF Gapless, InUse
    <3> QED BY <3>1, <3>2
  <2>2. \A k \in Levels : Names(k)' = Names(k)
    BY <1>2 DEF Names
  <2> QED BY <1>2, <1>8, <2>1, <2>2 DEF Gapless
<1>9. ASSUME NotBack PROVE NotBack'
  <2>1. ~Rested /\ InFile(last)' = InFile(last)
    BY <1>2 DEF Rested, InFile
  <2> SUFFICES ASSUME InFile(last)
               PROVE  /\ last.in \in DOMAIN disk /\ last.in.date <= tm[Me]
                      /\ last.in.date = tm[Me] =>
                           /\ seq'[last.in.lvl] >= last.in.seq
                           /\ day[last.in.lvl] = tm[Me] \/ opfd'[last.in.lvl] = NoFd
    BY <1>2, <2>1 DEF NotBack
  <2>2. last.in \in DOMAIN disk /\ last.in.date <= tm[Me]
    BY <1>9 DEF NotBack
  <2>3. last.in.lvl \in Levels /\ last.in.seq \in Nat
    BY <2>2 DEF Whole, TypeOK
  <2>4. ASSUME last.in.date = tm[Me]
        PROVE  /\ seq'[last.in.lvl] >= last.in.seq
               /\ day[last.in.lvl] = tm[Me] \/ opfd'[last.in.lvl] = NoFd
    <3>1. /\ seq[last.in.lvl] >= last.in.seq
          /\ day[last.in.lvl] = tm[Me] \/ opfd[last.in.lvl] = NoFd
      BY <1>9, <2>1, <2>4 DEF NotBack
    <3>2. CASE last.in.lvl = l
      <4>1. day[l] = tm[Me] /\ seq'[l] = seq[l] + 1
        BY <1>2, <1>5, <3>1, <3>2
      <4> QED BY <1>4, <2>3, <3>1, <3>2, <4>1
    <3>3. CASE last.in.lvl # l
      BY <1>5, <2>3, <3>1, <3>3
    <3> QED BY <3>2, <3>3
  <2> QED BY <2>2, <2>4
<1> QED BY <1>2, <1>7, <1>8, <1>9 DEF Numbered, Counting

\* The write, to a file whose number is not below that of the record before.
LEMMA WriteCounting ==
  ASSUME Whole, Only, Dated, Numbered, Write(Me)
  PROVE  Counting' /\ InOrder
<1>1. PICK l \in Levels : l = lvl[Me]
  BY Facts
<1>2. /\ pc[Me] = "write" /\ last' = [made |-> tm[Me], in |-> opfd[l]]
      /\ DOMAIN disk' = DOMAIN disk
      /\ UNCHANGED <<today, seq, opfd, day, tm, restarts>>
  BY <1>1 DEF Write, At, info, bounds
<1>3. ASSUME InUse(l)
      PROVE  /\ opfd[l] = File(l, tm[Me], seq[l]) /\ opfd[l] \in DOMAIN disk /\ day[l] = tm[Me]
             /\ opfd[l].lvl = l /\ opfd[l].date = tm[Me] /\ opfd[l].seq = seq[l]
  <2>1. opfd[l] = File(l, day[l], seq[l]) /\ opfd[l] \in DOMAIN disk
    BY <1>3 DEF Numbered, Counting
  <2>2. opfd[l].date = tm[Me]
    BY <1>1, <1>2, <1>3 DEF Dated, Numbered
  <2> QED BY <2>1, <2>2, FileIs
<1>4. InFile(last)' => InUse(l)
  BY <1>2 DEF InFile, InUse
<1>5. NotBack'
  <2>1. seq[l] >= seq[l] /\ tm[Me] <= tm[Me]
    BY <1>1, Facts
  <2> QED BY <1>2, <1>3, <1>4, <2>1 DEF NotBack
<1>6. \A k \in Levels : InUse(k)' => opfd'[k] = File(k, day'[k], seq'[k]) /\ opfd'[k] \in DOMAIN disk'
  BY <1>2 DEF Numbered, Counting, InUse
<1>7. Gapless => Gapless'
  BY <1>2 DEF Gapless, InUse, Names, Today
<1>8. Counting'
  BY <1>2, <1>5, <1>6, <1>7 DEF Numbered, Counting
<1>9. InOrder
  <2> SUFFICES ASSUME restarts <= 1, InFile(last), InFile(last)',
                      last'.in.lvl = last.in.lvl, last'.in.date = last.in.date
               PROVE  last'.in.seq >= last.in.seq
    BY DEF InOrder, InFile
  <2>1. NotBack /\ ~Rested
    BY <1>2 DEF Numbered, Counting, Rested
  <2> QED BY <1>2, <1>3, <1>4, <2>1 DEF NotBack
<1> QED BY <1>8, <1>9

\* log_init finds the number at which the files of the day end.
LEMMA RestartCounting ==
  ASSUME Whole, Only, Dated, Numbered, restarts \in Nat, Restart
  PROVE  Counting'
<1>1. /\ UNCHANGED <<today, disk, tm, last>> /\ pc'[Me] = "idle" /\ restarts' = restarts + 1
      /\ \A l \in Levels : opfd'[l] = NoFd /\ seq'[l] = SeqNonrecycle(l)
  BY Facts DEF Restart, InitialSeq, Numbered
<1>2. ASSUME restarts = 0 PROVE NotBack'
  <2> SUFFICES ASSUME InFile(last)
               PROVE  /\ last.in \in DOMAIN disk /\ last.in.date <= tm[Me]
                      /\ last.in.date = tm[Me] /\ ~(tm[Me] < today) => seq'[last.in.lvl] >= last.in.seq
    BY <1>1 DEF NotBack, InFile, Rested, Whole, TypeOK
  <2>1. /\ last.in \in DOMAIN disk /\ last.in.date <= tm[Me] /\ Gapless
    BY <1>2 DEF Numbered, Counting, NotBack
  <2>2. last.in.lvl \in Levels /\ last.in.seq \in Nat /\ last.in \in Names(last.in.lvl)
    BY <2>1 DEF Whole, TypeOK, Names
  <2>3. ASSUME last.in.date = tm[Me], ~(tm[Me] < today)
        PROVE  seq'[last.in.lvl] >= last.in.seq
    <3>1. tm[Me] = today
      BY <2>3, Facts DEF Dated
    <3>2. \A n \in 0..last.in.seq : File(last.in.lvl, today, n) \in DOMAIN disk
      BY <2>1, <2>2, <2>3, <3>1 DEF Gapless
    <3>3. last.in.seq <= SeqNonrecycle(last.in.lvl) /\ SeqNonrecycle(last.in.lvl) \in Nat
      BY <2>2, <3>2, NonrecycleIs
    <3> QED BY <1>1, <2>2, <3>3
  <2> QED BY <2>1, <2>3
<1>3. \A l \in Levels : ~InUse(l)'
  BY <1>1 DEF InUse
<1>4. restarts' # 0 /\ (restarts' <= 1 => restarts = 0)
  BY <1>1
<1> QED BY <1>2, <1>3, <1>4 DEF Counting

\* A step that leaves the files and their numbers alone.
LEMMA QuietCounting ==
  ASSUME Whole, Numbered, UNCHANGED <<seq, opfd, day, disk, last, restarts>>,
         tm[Me] <= tm'[Me], tm[Me] \in Nat, tm'[Me] \in Nat, Rested => Rested' \/ tm'[Me] # tm[Me],
         tm'[Me] # tm[Me] => \A l \in Levels : opfd[l] # Closed
  PROVE  Counting'
<1>1. \A k \in Levels : InUse(k)' => opfd'[k] = File(k, day'[k], seq'[k]) /\ opfd'[k] \in DOMAIN disk'
  BY DEF Numbered, Counting, InUse
<1>2. ASSUME Gapless PROVE Gapless'
  <2>1. \A l : Names(l)' = Names(l) /\ InUse(l)' = InUse(l)
    BY DEF Names, InUse
  <2>2. \A l \in Levels : opfd[l] = Closed => \A n : Today(l, n)' = Today(l, n)
    BY DEF Today
  <2> QED BY <1>2, <2>1, <2>2 DEF Gapless
<1>3. ASSUME NotBack PROVE NotBack'
  <2>1. InFile(last)' = InFile(last)
    BY DEF InFile
  <2>2. InFile(last) => last.in.date \in Nat
    BY <1>3 DEF NotBack, Whole, TypeOK
  <2>3. InFile(last) => last.in.date <= tm'[Me]
    BY <1>3, <2>2 DEF NotBack
  <2>4. InFile(last) /\ last.in.date = tm'[Me] => tm'[Me] = tm[Me]
    BY <1>3, <2>2 DEF NotBack
  <2> QED BY <1>3, <2>1, <2>3, <2>4 DEF NotBack
<1> QED BY <1>1, <1>2, <1>3 DEF Numbered, Counting

LEMMA CountingKept ==
  ASSUME Whole, IInv, Only, Dated, Numbered, fails = 0, fails' = 0, restarts \in Nat, [Next]_vars
  PROVE  Counting'
<1>1. tm[Me] \in Nat /\ today \in Nat /\ tm[Me] <= tm[Me] /\ tm[Me] <= today
  BY Facts DEF Dated
<1>2. CASE \E t \in Threads : Step(t)
  <2>1. Step(Me)
    BY <1>2, OneThread
  <2>2. CASE Call(Me)
    <3>1. UNCHANGED <<seq, opfd, day, disk, last, restarts>> /\ tm'[Me] = today /\ pc[Me] = "idle"
      BY <2>2, Facts DEF Call, At, info, bounds, Whole, TypeOK
    <3>2. \A l \in Levels : opfd[l] # Closed
      BY <3>1, Facts DEF IInv, ClosedMeansOpening
    <3>3. Rested => tm'[Me] # tm[Me]
      BY <1>1, <3>1 DEF Rested
    <3> QED BY <1>1, <3>1, <3>2, <3>3, QuietCounting
  <2>3. CASE Lock(Me) \/ KeepFile(Me)
    <3>1. UNCHANGED <<seq, opfd, day, disk, last, restarts, tm>> /\ pc[Me] # "idle"
      BY <2>3 DEF Lock, KeepFile, At, info, bounds
    <3>2. ~Rested
      BY <3>1 DEF Rested
    <3> QED BY <1>1, <3>1, <3>2, QuietCounting
  <2>4. ~OpenFirstFails(Me) /\ ~OpenNextFails(Me)
    BY DEF OpenFirstFails, OpenNextFails, GiveUp, OpenFails
  <2>5. CASE OpenFirst(Me) \/ OpenNext(Me)
    <3>1. /\ pc[Me] # "idle" /\ pc'[Me] # "idle" /\ OpenFd(lvl[Me], tm[Me]) /\ ~InUse(lvl[Me])
          /\ UNCHANGED <<today, tm, last, restarts>>
      BY <2>5, Facts DEF OpenFirst, OpenNext, At, Goto, thread, InUse, IInv, ClosedMeansOpening, Whole, TypeOK
    <3>2. PICK l \in Levels : l = lvl[Me]
      BY Facts
    <3> QED BY <3>1, <3>2, OpenCounting
  <2>6. CASE CloseFile(Me)
    BY <2>6, CloseCounting
  <2>7. CASE Write(Me)
    BY <2>7, WriteCounting
  <2> QED BY <2>1, <2>2, <2>3, <2>4, <2>5, <2>6, <2>7 DEF Step
<1>3. CASE Midnight
  <2>1. UNCHANGED <<seq, opfd, day, disk, last, restarts, tm, pc>> /\ today' = today + 1
    BY <1>3 DEF Midnight, info, bounds, thread
  <2>2. Rested => Rested'
    BY <1>1, <2>1 DEF Rested
  <2> QED BY <1>1, <2>1, <2>2, QuietCounting
<1>4. CASE Restart
  BY <1>4, RestartCounting
<1>5. CASE UNCHANGED vars
  <2>1. UNCHANGED <<seq, opfd, day, disk, last, restarts, tm, pc, today>>
    BY <1>5 DEF vars, info, bounds, thread
  <2>2. Rested => Rested'
    BY <2>1 DEF Rested
  <2> QED BY <1>1, <2>1, <2>2, QuietCounting
<1> QED BY <1>2, <1>3, <1>4, <1>5 DEF Next, Over

\* The record of a step is the one before, or that of the write.
LEMMA LastIs ==
  ASSUME Only, [Next]_vars
  PROVE  last' = last \/ Write(Me)
<1>1. CASE \E t \in Threads : Step(t)
  <2>1. Step(Me)
    BY <1>1, OneThread
  <2> QED BY <2>1 DEF Step, Call, Lock, OpenFirst, OpenFirstFails, KeepFile, CloseFile, OpenNext,
                      OpenNextFails, GiveUp
<1>2. CASE Midnight \/ Restart \/ UNCHANGED vars
  BY <1>2 DEF Midnight, Restart, vars
<1> QED BY <1>1, <1>2 DEF Next, Over

\* With an interval no file has a number.
LEMMA UnnumberedKept ==
  ASSUME Whole, Only, [Next]_vars, interval # 0, NEW l \in Levels,
         InUse(l) => opfd[l].seq = 0, InUse(l)'
  PROVE  opfd'[l].seq = 0
<1>1. CASE opfd'[l] = opfd[l]
  BY <1>1 DEF InUse
<1>2. CASE opfd'[l] # opfd[l]
  <2>1. \E t \in Threads : Step(t)
    BY <1>2 DEF Next, Midnight, Restart, Over, vars, info, InUse
  <2>2. Step(Me)
    BY <2>1, OneThread
  <2>3. OpenFd(lvl[Me], tm[Me])
    BY <1>2, <2>2, Facts DEF Step, Call, Lock, OpenFirst, OpenFirstFails, KeepFile, CloseFile,
         OpenNext, OpenNextFails, GiveUp, OpenFails, Write, info, InUse, Whole, TypeOK
  <2>4. opfd'[l] = Path(lvl[Me], tm[Me])
    BY <1>2, <2>3, Facts DEF OpenFd, Whole, TypeOK
  <2> QED BY <2>4 DEF Path, File
<1> QED BY <1>1, <1>2

LEMMA FieldsKept ==
  ASSUME Whole, Only, [Next]_vars PROVE UNCHANGED <<config, interval>>
  BY DEF Next, Step, Call, Lock, OpenFirst, OpenFirstFails, KeepFile, CloseFile, OpenNext,
         OpenNextFails, GiveUp, Write, Midnight, Restart, Over, vars, setup

LEMMA BoundsKept ==
  ASSUME Ordered, Only, [Next]_vars
  PROVE  /\ fails' \in Nat /\ restarts' \in Nat
         /\ fails' = 0 => fails = 0
         /\ restarts' = 0 => restarts = 0 /\ ~Restart
<1>1. fails \in Nat /\ restarts \in Nat
  BY DEF Ordered
<1>2. CASE \E t \in Threads : Step(t)
  <2>1. PICK t \in Threads : Step(t)
    BY <1>2
  <2>2. restarts' = restarts /\ fails' \in {fails, fails + 1}
    BY <2>1 DEF Step, Call, Lock, OpenFirst, OpenFirstFails, KeepFile, CloseFile, OpenNext,
                OpenNextFails, GiveUp, OpenFails, OpenFd, Write, bounds
  <2>3. ~Restart
    BY <1>1, <2>2 DEF Restart
  <2> QED BY <1>1, <2>2, <2>3
<1>3. CASE Restart
  BY <1>1, <1>3 DEF Restart
<1>4. CASE Midnight \/ UNCHANGED vars
  <2>1. UNCHANGED <<fails, restarts>>
    BY <1>4 DEF Midnight, vars, bounds
  <2>2. ~Restart
    BY <1>1, <2>1 DEF Restart
  <2> QED BY <1>1, <2>1, <2>2
<1> QED BY <1>2, <1>3, <1>4 DEF Next, Over

\* Without a limit nothing is removed.
LEMMA KeepsAll ==
  ASSUME Whole, Only, config = 0, config' = 0, [Next]_vars
  PROVE  DOMAIN disk \subseteq DOMAIN disk'
<1>1. CASE \E t \in Threads : OpenFd(lvl[t], tm[t])
  <2>1. PICK t \in Threads : OpenFd(lvl[t], tm[t])
    BY <1>1
  <2>2. maxFiles = 0
    BY DEF Whole, TypeOK
  <2>3. maxFiles' = 0
    BY <2>1, <2>2 DEF OpenFd
  <2>4. \E f : disk' = Touched(Without(disk, {}), f)
    BY <2>1, <2>3 DEF OpenFd
  <2> QED BY <2>4 DEF Touched, Without
<1>2. CASE ~\E t \in Threads : OpenFd(lvl[t], tm[t])
  <2>1. DOMAIN disk' = DOMAIN disk
    BY <1>2 DEF Next, Step, Call, Lock, OpenFirst, OpenFirstFails, KeepFile, CloseFile, OpenNext,
         OpenNextFails, GiveUp, OpenFails, Write, Midnight, Restart, Over, vars
  <2> QED BY <2>1
<1> QED BY <1>1, <1>2

LEMMA InitOrdered == Init => Ordered
<1> SUFFICES ASSUME Init PROVE Ordered
  OBVIOUS
<1>1. /\ fails = 0 /\ restarts = 0 /\ DOMAIN disk = {} /\ ~InFile(last)
      /\ \A l \in Levels : opfd[l] = NoFd /\ (interval = 0 => seq[l] = 0)
  BY DEF Init, InFile, Period
<1>2. \A l \in Levels : ~InUse(l) /\ opfd[l] # Closed
  BY <1>1, Distinct DEF InUse
<1>3. Ring
  BY <1>1 DEF Ring, Names
<1>4. config = 0 /\ interval = 0 => Counting
  BY <1>1, <1>2 DEF Counting, Gapless, NotBack, Names
<1> QED BY <1>1, <1>2, <1>3, <1>4 DEF Ordered

LEMMA OrderedKept ==
  ASSUME FInv, Only, Ordered, [Next]_vars PROVE Ordered' /\ RemovesOldest /\ InOrder
<1>1. Whole /\ IInv /\ Dated /\ (Rotating => Kept)
  BY DEF FInv
<1>2. UNCHANGED <<config, interval>> /\ Rotating' = Rotating
  BY <1>1, FieldsKept DEF Rotating
<1>3. /\ fails' \in Nat /\ restarts' \in Nat
      /\ fails' = 0 => fails = 0
      /\ restarts' = 0 => restarts = 0 /\ ~Restart
  BY BoundsKept
<1>4. last' = last \/ Write(Me)
  BY LastIs
<1>5. Write(Me) => last'.in = opfd[lvl[Me]] /\ (InFile(last)' => InUse(lvl[Me])) /\ lvl[Me] \in Levels
  BY <1>1, Facts DEF Write, InFile, InUse
<1>6. InFile(last)' => last'.in \in AllFiles
  BY <1>1, <1>4, <1>5, Facts DEF Ordered, InFile
<1>7. ASSUME interval # 0
      PROVE  (\A l \in Levels : InUse(l)' => opfd'[l].seq = 0) /\ (InFile(last)' => last'.in.seq = 0)
  <2>1. \A l \in Levels : InUse(l)' => opfd'[l].seq = 0
    BY <1>1, <1>7, UnnumberedKept DEF Ordered
  <2>2. InFile(last)' => last'.in.seq = 0
    BY <1>4, <1>5, <1>7 DEF Ordered, InFile
  <2> QED BY <2>1, <2>2
<1>8. Rotating /\ restarts = 0 /\ ~Restart => Ring' /\ OldestGoes
  BY <1>1, <1>2, RingKept DEF Ordered
<1>9. ASSUME config = 0, interval = 0, fails = 0, fails' = 0 PROVE Counting'
  <2>1. Numbered /\ restarts \in Nat
    BY <1>9 DEF Ordered, Numbered
  <2> QED BY <1>1, <1>9, <2>1, CountingKept
<1>10. Ordered'
  BY <1>2, <1>3, <1>6, <1>7, <1>8, <1>9 DEF Ordered
<1>11. RemovesOldest
  <2> SUFFICES ASSUME restarts = 0, PerDay <= LogSize * config PROVE OldestGoes
    BY DEF RemovesOldest
  <2>1. CASE config # 0 /\ ~Restart
    BY <1>8, <2>1 DEF Rotating
  <2>2. CASE Restart
    BY <2>2 DEF Restart, OldestGoes
  <2>3. CASE config = 0
    <3>1. DOMAIN disk \subseteq DOMAIN disk'
      BY <1>1, <1>2, <2>3, KeepsAll
    <3> QED BY <3>1 DEF OldestGoes
  <2> QED BY <2>1, <2>2, <2>3
<1>12. InOrder
  <2> SUFFICES ASSUME config = 0, fails = 0, restarts <= 1, InFile(last), InFile(last)',
                      last'.in.lvl = last.in.lvl, last'.in.date = last.in.date
               PROVE  last'.in.seq >= last.in.seq
    BY DEF InOrder, InFile
  <2>1. last.in.seq \in Nat /\ last'.in.seq \in Nat
    BY <1>6 DEF Ordered, AllFiles
  <2>2. CASE last' = last
    BY <2>1, <2>2
  <2>3. CASE interval # 0
    BY <1>7, <2>1, <2>3 DEF Ordered
  <2>4. CASE Write(Me) /\ interval = 0
    <3>1. Numbered
      BY <2>4 DEF Ordered, Numbered
    <3>2. InOrder
      BY <1>1, <2>4, <3>1, WriteCounting
    <3>3. InFile(last')
      BY DEF InFile
    <3> QED BY <3>2, <3>3 DEF InOrder
  <2> QED BY <1>4, <2>2, <2>3, <2>4
<1> QED BY <1>10, <1>11, <1>12

\* A program with one thread.  With rotation, and while no day needs more files
\* than the limit and the program is not started again, the file that
\* rm_files_by_seqno removes is not of a later day than any that stays, though
\* open failed any number of times in between.  Without rotation the records
\* of a day are written to files of numbers that do not fall, also after the
\* program was started again once.
THEOREM FilesFollowAlways == Spec => FilesFollow
<1>1. Init => Ordered
  BY InitOrdered
<1>2. FInv /\ (Only => Ordered) /\ [Next]_vars => (Only => Ordered)'
  BY OrderedKept
<1>3. FInv /\ (Only => Ordered) /\ [Next]_vars => [Alone => RemovesOldest /\ InOrder]_vars
  <2> SUFFICES ASSUME FInv, Only => Ordered, [Next]_vars, Alone PROVE RemovesOldest /\ InOrder
    OBVIOUS
  <2>1. Only
    BY DEF FInv, IInv, Types, Alone, Only
  <2> QED BY <2>1, OrderedKept
<1>4. Spec => []FInv
  BY FilesInvariance
<1> QED BY <1>1, <1>2, <1>3, <1>4, PTL DEF Spec, FilesFollow
=============================================================================
