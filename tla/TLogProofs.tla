----------------------------- MODULE TLogProofs -----------------------------
(***************************************************************************)
(* The inductive invariant of TLog and the proofs that rest on it.         *)
(***************************************************************************)
EXTENDS TLog, FiniteSetTheorems, WellFoundedInduction, TLAPS

\* The file a level has open exists, is of the day and slice the logger
\* remembers, and is the only one of its slice that may be of the last record
\* or of a later one.
Opened(l) ==
  LET lf == logfile[l] IN
  lf.fd # NoFile =>
    /\ lf.fd \in DOMAIN disk
    /\ lf.fd.lvl = l
    /\ lf.fd.day = lf.yday
    /\ slice # 0 => lf.fd.at = (lf.sliceSeq * slice) % DayLen

\* The files of a slice of secs before f are full.
FullIn(files, secs, f) ==
  IF secs = 0 THEN f.no = 0
  ELSE \A n \in 0..(f.no - 1) :
         LET g == [f EXCEPT !.no = n] IN g \in DOMAIN files /\ files[g] >= MaxOne

FullBefore(f) == FullIn(disk, slice, f)

SameSlice(f, g) == f.day = g.day /\ f.at = g.at

\* Nothing goes back to a file before that of the last record.
Ordered(l) ==
  /\ last[l] \in FileName \cup {NoFile}
  /\ last[l] # NoFile => last[l].lvl = l /\ FullBefore(last[l])
  /\ logfile[l].fd # NoFile => FullBefore(logfile[l].fd)
  /\ last[l] # NoFile /\ logfile[l].fd # NoFile /\ SameSlice(last[l], logfile[l].fd)
       => logfile[l].fd.no >= last[l].no

\* The files created today are among those daily_seq counts.
Limited(l) ==
  dailyMax # 0 =>
    /\ logfile[l].dailySeq <= dailyMax
    /\ created[l] <= IF logfile[l].yday = Day(now) THEN logfile[l].dailySeq ELSE 0

\* What is in an open file beyond its length now was there when it was opened,
\* which was less than max_one_size, or is the head written then.
Largest == 2 * (MaxOne - 1) + HeadLen + BufSize

Within(size, lf) == size <= (MaxOne - 1) + HeadLen + lf.fileLen

Sized ==
  dailyMax = 0 /\ slice # 0 =>
    /\ \A f \in DOMAIN disk : disk[f] <= Largest
    /\ \A l \in Levels : logfile[l].fd # NoFile => Within(disk[logfile[l].fd], logfile[l])

\* When a full disk may be tried again.
Resting ==
  /\ foundFull \in Nat \X Nat
  /\ stop \/ (status = "writing" /\ foundFull = <<0, 0>>)
  /\ foundFull[2] <= now
  /\ status = "writing" => foundFull[2] <= lastCheck /\ foundFull[1] + Rest <= now
  /\ status = "stop" => foundFull[1] <= lastCheck

Types ==
  /\ TypeOK
  /\ IsFiniteSet(DOMAIN disk)
  /\ created \in [Levels -> Nat] /\ DOMAIN last = Levels

IInv ==
  /\ Types /\ Sized /\ Resting
  /\ \A l \in Levels : Opened(l) /\ Ordered(l) /\ Limited(l)

---------------------------------------------------------------------------
(* Numbers and names. *)

LEMMA Constants ==
  /\ MaxOne \in Nat \ {0} /\ DayLen \in Nat \ {0} /\ Rest \in Nat \ {0}
  /\ Start \in Nat /\ Rest <= Start /\ MaxTicks \in Nat
  /\ BufSize \in Nat /\ HeadLen \in Nat /\ Lens \subseteq 1..BufSize /\ Largest \in Nat
<1>1. /\ MaxOne \in Nat \ {0} /\ DayLen \in Nat \ {0} /\ Rest \in Nat \ {0} /\ MaxTicks \in Nat
      /\ BufSize \in Nat /\ HeadLen \in Nat /\ Lens \subseteq 1..BufSize
  BY TLogAssumption DEF TLogAssumption
<1>2. \A a, b \in Nat \ {0} : a * b \in Nat /\ b <= a * b
  BY SMT
<1> QED BY <1>1, <1>2 DEF Start, Largest

LEMMA Quotient ==
  ASSUME NEW a \in Nat, NEW b \in Nat \ {0}
  PROVE  a \div b \in Nat /\ a % b \in 0..(b - 1)
  BY SMT

LEMMA Today == ASSUME now \in Nat PROVE Day(now) \in Nat
  BY Quotient, Constants DEF Day

LEMMA NoFileIsNone == NoFile \notin FileName
<1>1. DOMAIN NoFile = {"name"} /\ \A f \in FileName : DOMAIN f = {"lvl", "day", "at", "no"}
  BY DEF NoFile, FileName
<1> QED BY <1>1

LEMMA NameIsName ==
  ASSUME now \in Nat, NEW l \in Levels, NEW at \in Nat, NEW no \in Nat
  PROVE  Name(l, at, no) \in FileName
  BY Today, Quotient, Constants DEF Name, FileName

\* A set of naturals that is not empty has a least element, which Min is.
LEMMA MinIs ==
  ASSUME NEW S \in SUBSET Nat, S # {}
  PROVE  Min(S) \in S /\ \A n \in S : Min(S) <= n
<1> DEFINE T == {0..n : n \in S}
           R == StrictSubsetOrdering(Nat)
<1>1. T \subseteq FiniteSubsetsOf(Nat)
  <2>1. \A n \in S : 0..n \subseteq Nat /\ IsFiniteSet(0..n)
    BY FS_Interval
  <2> QED BY <2>1 DEF FiniteSubsetsOf
<1>2. T # {}
  OBVIOUS
<1>3. IsWellFoundedOn(R, FiniteSubsetsOf(Nat))
  BY FS_StrictSubsetOrderingWellFounded
<1>4. \E x \in T : \A y \in T : ~(<<y, x>> \in R)
  <2> HIDE DEF T, R
  <2> QED BY <1>1, <1>2, <1>3, WFMin
<1>5. PICK m \in S : \A k \in S : ~(<<0..k, 0..m>> \in R)
  BY <1>4
<1>6. \A k \in S : m <= k
  <2> SUFFICES ASSUME NEW k \in S, k < m PROVE FALSE
    OBVIOUS
  <2>1. 0..k \subseteq 0..m /\ m \in 0..m /\ m \notin 0..k
    OBVIOUS
  <2>2. 0..k # 0..m
    BY <2>1
  <2>3. 0..k \in SUBSET Nat /\ 0..m \in SUBSET Nat
    OBVIOUS
  <2>4. <<0..k, 0..m>> \in R
    BY <2>1, <2>2, <2>3 DEF StrictSubsetOrdering
  <2> QED BY <1>5, <2>4
<1> QED BY <1>6 DEF Min

\* get_time_slice_no finds a number whose file is missing or has room, and
\* those before it are full: there are more numbers than files.
LEMMA SliceNoIs ==
  ASSUME Types, NEW l \in Levels, NEW at \in Nat
  PROVE  /\ SliceNo(l, at) \in Nat
         /\ Name(l, at, SliceNo(l, at)) \in DOMAIN disk => disk[Name(l, at, SliceNo(l, at))] < MaxOne
         /\ \A n \in 0..(SliceNo(l, at) - 1) :
              Name(l, at, n) \in DOMAIN disk /\ disk[Name(l, at, n)] >= MaxOne
<1> DEFINE E == Existing(l, at)
           c == Cardinality(E)
           S == {no \in 0..c : Name(l, at, no) \in DOMAIN disk => disk[Name(l, at, no)] < MaxOne}
<1>1. IsFiniteSet(E) /\ c \in Nat
  BY FS_Subset, FS_CardinalityType DEF Existing, Types
<1>2. S # {}
  <2> SUFFICES ASSUME S = {} PROVE FALSE
    OBVIOUS
  <2>1. \A no \in 0..c : Name(l, at, no) \in E
    BY DEF Existing, Name
  <2> DEFINE f == [no \in 0..c |-> Name(l, at, no)]
  <2>2. f \in [0..c -> E]
    BY <2>1
  <2>3. IsFiniteSet(0..c) /\ Cardinality(0..c) = c + 1
    BY <1>1, FS_Interval
  <2> HIDE DEF f
  <2>4. \E x, y \in 0..c : x # y /\ f[x] = f[y]
    BY <1>1, <2>2, <2>3, FS_PigeonHole
  <2> QED BY <2>4 DEF f, Name
<1>3. S \in SUBSET Nat /\ SliceNo(l, at) = Min(S)
  BY <1>1 DEF SliceNo
<1>4. Min(S) \in S /\ \A n \in S : Min(S) <= n
  BY <1>2, <1>3, MinIs
<1>5. \A n \in 0..(Min(S) - 1) : n \in 0..c /\ n \notin S
  BY <1>1, <1>3, <1>4
<1>6. \A f \in DOMAIN disk : disk[f] \in Nat
  BY DEF Types, TypeOK
<1> QED BY <1>3, <1>4, <1>5, <1>6, Constants
---------------------------------------------------------------------------
(* The file a shift opens. *)

Logfile == [fd : FileName \cup {NoFile}, dailySeq : Nat, sliceSeq : Nat,
            yday : Nat, fileLen : Nat]

LEMMA Typed ==
  ASSUME Types
  PROVE  /\ now \in Nat /\ dailyMax \in Nat /\ slice \in Nat
         /\ DOMAIN disk \subseteq FileName /\ \A f \in DOMAIN disk : disk[f] \in Nat
         /\ logfile \in [Levels -> Logfile] /\ created \in [Levels -> Nat]
  BY Constants, TLogAssumption DEF Types, TypeOK, Logfile, TLogAssumption

LEMMA NewNameIs ==
  ASSUME IInv, NEW l \in Levels
  PROVE  LET f == NewName(l) IN
         /\ f \in FileName /\ f.lvl = l /\ f.day = Day(now)
         /\ slice # 0 => f.at = ((now \div slice) * slice) % DayLen
         /\ slice # 0 /\ f \in DOMAIN disk => disk[f] < MaxOne
         /\ FullBefore(f)
         /\ \A g \in FileName : g.lvl = l /\ FullBefore(g) /\ SameSlice(g, f) => f.no >= g.no
<1> DEFINE f == NewName(l)
<1>1. Types /\ now \in Nat /\ slice \in Nat
  BY Typed DEF IInv
<1>2. CASE slice = 0
  <2>1. f = Name(l, now, 0)
    BY <1>2 DEF NewName
  <2>2. f \in FileName
    BY <1>1, <2>1, NameIsName
  <2>3. f.lvl = l /\ f.day = Day(now) /\ f.no = 0
    BY <2>1 DEF Name
  <2> QED BY <1>2, <2>2, <2>3 DEF FullBefore, FullIn
<1>3. CASE slice # 0
  <2> DEFINE at == (now \div slice) * slice
             no == SliceNo(l, at)
  <2>1. at \in Nat
    <3>1. now \div slice \in Nat
      BY <1>1, <1>3, Quotient
    <3>2. \A a, b \in Nat : a * b \in Nat
      BY SMT
    <3> QED BY <1>1, <3>1, <3>2
  <2>2. f = Name(l, at, no)
    BY <1>3 DEF NewName
  <2> HIDE DEF at
  <2>3. /\ no \in Nat
        /\ f \in DOMAIN disk => disk[f] < MaxOne
        /\ \A n \in 0..(no - 1) : Name(l, at, n) \in DOMAIN disk /\ disk[Name(l, at, n)] >= MaxOne
    BY <1>1, <2>1, <2>2, SliceNoIs
  <2> HIDE DEF no
  <2>4. f \in FileName
    BY <1>1, <2>1, <2>2, <2>3, NameIsName
  <2>5. f.lvl = l /\ f.day = Day(now) /\ f.at = at % DayLen /\ f.no = no
    BY <2>2 DEF Name
  <2>6. \A n : [f EXCEPT !.no = n] = Name(l, at, n)
    BY <2>2 DEF Name
  <2>7. FullBefore(f)
    BY <1>3, <2>3, <2>5, <2>6 DEF FullBefore, FullIn
  <2>8. ASSUME NEW g \in FileName, g.lvl = l, FullBefore(g), SameSlice(g, f), f.no < g.no
        PROVE  FALSE
    <3>1. [g EXCEPT !.no = no] = f
      BY <2>4, <2>5, <2>8 DEF FileName, SameSlice
    <3>2. no \in 0..(g.no - 1)
      BY <2>3, <2>5, <2>8 DEF FileName
    <3>3. f \in DOMAIN disk /\ disk[f] >= MaxOne
      BY <1>3, <2>8, <3>1, <3>2 DEF FullBefore, FullIn
    <3> QED BY <1>1, <2>3, <3>3, Typed, Constants
  <2>9. \A g \in FileName : g.lvl = l /\ FullBefore(g) /\ SameSlice(g, f) => f.no >= g.no
    BY <2>3, <2>5, <2>8 DEF FileName
  <2> QED BY <2>3, <2>4, <2>5, <2>7, <2>9 DEF at
<1> QED BY <1>2, <1>3

\* What shift_logger_file makes of a level's file, whether it shifts or not.
Grown(files) ==
  /\ IsFiniteSet(DOMAIN files)
  /\ DOMAIN disk \subseteq DOMAIN files /\ DOMAIN files \subseteq FileName
  /\ \A f \in DOMAIN files : files[f] \in Nat
  /\ \A f \in DOMAIN disk : files[f] >= disk[f]

InUse(l, files, lf) ==
  lf.fd # NoFile =>
    /\ lf.fd \in DOMAIN files
    /\ lf.fd.lvl = l /\ lf.fd.day = lf.yday
    /\ slice # 0 => lf.fd.at = (lf.sliceSeq * slice) % DayLen
    /\ FullBefore(lf.fd)
    /\ last[l] # NoFile /\ SameSlice(last[l], lf.fd) => lf.fd.no >= last[l].no

\* Level l has files of its limit left.
Unlimited(l) == dailyMax = 0 \/ logfile[l].dailySeq < dailyMax

Roomy(l, files, lf) ==
  /\ Unlimited(l) => /\ lf.fd # NoFile /\ lf.yday = Day(now)
                     /\ slice # 0 => lf.sliceSeq = now \div slice
                     /\ lf.fileLen < MaxOne
  /\ dailyMax = 0 /\ slice # 0 => /\ \A f \in DOMAIN files : files[f] <= Largest
                                  /\ Within(files[lf.fd], lf)
                                  /\ \A f \in DOMAIN disk : f # lf.fd => files[f] = disk[f]

WithinDay(lf, n) ==
  dailyMax # 0 =>
    /\ lf.dailySeq <= dailyMax
    /\ n <= IF lf.yday = Day(now) THEN lf.dailySeq ELSE 0

LEMMA ClearedIs ==
  ASSUME IInv, NEW l \in Levels
  PROVE  /\ Cleared(logfile[l]) \in Logfile
         /\ Cleared(logfile[l]).fd = NoFile
         /\ Cleared(logfile[l]).yday = Day(now)
         /\ Cleared(logfile[l]).fileLen = 0
         /\ slice # 0 => Cleared(logfile[l]).sliceSeq = now \div slice
         /\ WithinDay(Cleared(logfile[l]), created[l])
         /\ logfile[l].dailySeq < dailyMax =>
              Cleared(logfile[l]).dailySeq < dailyMax
<1>1. Types
  BY DEF IInv
<1>2. logfile[l] \in Logfile /\ created[l] \in Nat /\ dailyMax \in Nat
  BY <1>1, Typed
<1>3. Day(now) \in Nat /\ (slice # 0 => now \div slice \in Nat)
  BY <1>1, Typed, Today, Quotient
<1>4. Cleared(logfile[l]) \in Logfile
  BY <1>2, <1>3 DEF Cleared, Logfile
<1>5. Limited(l)
  BY DEF IInv
<1>6. WithinDay(Cleared(logfile[l]), created[l])
  BY <1>2, <1>5 DEF WithinDay, Cleared, Limited, Logfile
<1> QED BY <1>2, <1>4, <1>6 DEF Cleared, Logfile

LEMMA ShiftedIs ==
  ASSUME IInv, NEW l \in Levels, NEW head \in 0..HeadLen, Count(l)
  PROVE  LET s == Shifted(l, head) IN
         /\ s.lf \in Logfile /\ Grown(s.files) /\ InUse(l, s.files, s.lf)
         /\ Roomy(l, s.files, s.lf)
         /\ created' \in [Levels -> Nat] /\ WithinDay(s.lf, created'[l])
         /\ \A k \in Levels \ {l} : created'[k] = created[k]
<1> DEFINE s == Shifted(l, head)
           lf == logfile[l]
<1>1. Types /\ Sized /\ Opened(l) /\ Ordered(l) /\ Limited(l)
  BY DEF IInv
<1>2. lf \in Logfile /\ now \in Nat /\ dailyMax \in Nat /\ slice \in Nat /\ created[l] \in Nat
  BY <1>1, Typed
<1>3. CASE ~NeedShift(lf)
  <2>1. s.files = disk /\ s.lf = lf /\ created' = created
    BY <1>3 DEF Shifted, Count
  <2>2. Grown(disk)
    BY <1>1, Typed DEF Grown, Types
  <2>3. InUse(l, disk, lf)
    BY <1>1 DEF InUse, Opened, Ordered
  <2>4. Unlimited(l) => /\ lf.fd # NoFile /\ lf.fileLen < MaxOne /\ lf.yday = Day(now)
                        /\ slice # 0 => lf.sliceSeq = now \div slice
    BY <1>2, <1>3, Constants DEF NeedShift, Sliced, Logfile, Unlimited
  <2>5. Roomy(l, disk, lf)
    BY <1>1, <2>4 DEF Roomy, Sized, Unlimited
  <2>6. WithinDay(lf, created[l])
    BY <1>1 DEF WithinDay, Limited
  <2> QED BY <1>1, <1>2, <2>1, <2>2, <2>3, <2>5, <2>6, Typed
<1>4. CASE NeedShift(lf)
  <2> DEFINE f == NewName(l)
             c == Cleared(lf)
             n == [c EXCEPT !.fd = f, !.dailySeq = @ + 1]
             files == [g \in DOMAIN disk \cup {f} |-> Size(g) + (IF g = f THEN head ELSE 0)]
  <2>1. s.files = files /\ s.lf = n
    BY <1>4 DEF Shifted, CreateNewLogfile
  <2>2. /\ f \in FileName /\ f.lvl = l /\ f.day = Day(now)
        /\ slice # 0 => f.at = ((now \div slice) * slice) % DayLen
        /\ slice # 0 /\ f \in DOMAIN disk => disk[f] < MaxOne
        /\ FullBefore(f)
        /\ \A g \in FileName : g.lvl = l /\ FullBefore(g) /\ SameSlice(g, f) => f.no >= g.no
    BY NewNameIs
  <2> HIDE DEF f
  <2>3. /\ c \in Logfile /\ c.yday = Day(now) /\ c.fileLen = 0
        /\ slice # 0 => c.sliceSeq = now \div slice
        /\ WithinDay(c, created[l])
        /\ lf.dailySeq < dailyMax => c.dailySeq < dailyMax
    BY ClearedIs
  <2> HIDE DEF c
  <2>4. /\ n \in Logfile /\ n.fd = f /\ n.yday = Day(now) /\ n.fileLen = 0
        /\ n.dailySeq = c.dailySeq + 1
        /\ slice # 0 => n.sliceSeq = now \div slice
    <3> DEFINE m == [c EXCEPT !.fd = f]
    <3>1. /\ m \in Logfile /\ m.fd = f /\ m.yday = c.yday /\ m.fileLen = c.fileLen
          /\ m.dailySeq = c.dailySeq /\ m.sliceSeq = c.sliceSeq
      BY <2>2, <2>3 DEF Logfile
    <3>2. n = [m EXCEPT !.dailySeq = c.dailySeq + 1]
      OBVIOUS
    <3> HIDE DEF m, n
    <3>3. /\ n \in Logfile /\ n.fd = f /\ n.yday = c.yday /\ n.fileLen = c.fileLen
          /\ n.dailySeq = c.dailySeq + 1 /\ n.sliceSeq = c.sliceSeq
      BY <2>3, <3>1, <3>2 DEF Logfile
    <3> QED BY <2>3, <3>3
  <2> HIDE DEF n
  <2>0. /\ \A g : Size(g) \in Nat /\ (g \in DOMAIN disk => Size(g) = disk[g])
        /\ f \notin DOMAIN disk => Size(f) = 0
        /\ DOMAIN files = DOMAIN disk \cup {f}
        /\ files[f] = Size(f) + head
        /\ \A g \in DOMAIN disk : g # f => files[g] = disk[g]
        /\ head \in Nat
    <3>1. \A g : Size(g) \in Nat /\ (g \in DOMAIN disk => Size(g) = disk[g])
      BY <1>1, Typed DEF Size
    <3>2. \A g \in DOMAIN disk : g # f => files[g] = Size(g) + 0
      OBVIOUS
    <3>3. head \in Nat
      BY Constants
    <3> QED BY <3>1, <3>2, <3>3 DEF Size
  <2> HIDE DEF files
  <2>5. Grown(files)
    <3>1. IsFiniteSet(DOMAIN disk \cup {f})
      BY <1>1, FS_AddElement DEF Types
    <3>2. DOMAIN disk \subseteq FileName /\ \A g \in DOMAIN disk : disk[g] \in Nat
      BY <1>1, Typed
    <3>3. ASSUME NEW g \in DOMAIN files
          PROVE  files[g] \in Nat /\ (g \in DOMAIN disk => files[g] >= disk[g])
      <4>1. CASE g = f
        BY <2>0, <4>1
      <4>2. CASE g # f
        BY <2>0, <3>2, <4>2
      <4> QED BY <4>1, <4>2
    <3> QED BY <2>2, <2>0, <3>1, <3>2, <3>3 DEF Grown
  <2>6. InUse(l, files, n)
    BY <1>1, <2>2, <2>4, <2>0 DEF InUse, Ordered
  <2>7. f # NoFile
    BY <2>2, NoFileIsNone
  <2>8. Roomy(l, files, n)
    <3> SUFFICES ASSUME dailyMax = 0, slice # 0
                 PROVE  (\A g \in DOMAIN files : files[g] <= Largest) /\ Within(files[f], n)
      BY <2>4, <2>7, <2>0, Constants DEF Roomy
    <3>1. Size(f) <= MaxOne - 1
      BY <2>2, <2>0, Constants
    <3>2. files[f] <= (MaxOne - 1) + HeadLen
      BY <2>0, <3>1, Constants
    <3>3. Within(files[f], n)
      BY <2>4, <2>0, <3>2, Constants DEF Within
    <3>4. files[f] <= Largest
      BY <2>0, <3>2, Constants DEF Largest
    <3>5. \A g \in DOMAIN disk : disk[g] <= Largest
      BY <1>1 DEF Sized
    <3> QED BY <2>0, <3>3, <3>4, <3>5
  <2>9. /\ dailyMax # 0 => created' = [created EXCEPT ![l] = @ + 1]
        /\ dailyMax = 0 => created' = created
    BY <1>4 DEF Count
  <2>10. WithinDay(n, created'[l])
    <3>1. dailyMax # 0 => lf.dailySeq < dailyMax
      BY <1>2, <1>4 DEF NeedShift, Logfile
    <3>2. dailyMax # 0 => created'[l] = created[l] + 1
      BY <1>1, <2>9, Typed
    <3>3. c.dailySeq \in Nat
      BY <2>3 DEF Logfile
    <3> QED BY <1>2, <2>3, <2>4, <3>1, <3>2, <3>3 DEF WithinDay
  <2>11. created' \in [Levels -> Nat] /\ \A k \in Levels \ {l} : created'[k] = created[k]
    BY <1>1, <2>9, Typed
  <2> QED BY <2>1, <2>4, <2>5, <2>6, <2>8, <2>10, <2>11
<1> QED BY <1>3, <1>4

---------------------------------------------------------------------------
(* The steps. *)

\* Files only grow, so what is full stays full.
LEMMA FullStays ==
  ASSUME Types, slice' = slice, DOMAIN disk \subseteq DOMAIN disk',
         \A f \in DOMAIN disk : disk'[f] \in Nat /\ disk'[f] >= disk[f]
  PROVE  \A f \in FileName : FullBefore(f) => FullIn(disk', slice, f)
  BY Typed, Constants DEF FullBefore, FullIn

\* A call that shifts the file, or need not, then puts bytes of a record into it
\* and counts some.
Moved(l, head, put, more) ==
  /\ Put(l, head, put, more) /\ UNCHANGED <<now, cfg>>
  /\ last' \in {last, [last EXCEPT ![l] = logfile'[l].fd]}

\* What the steps that move a file keep: all but the parts of the invariant
\* that are not about files.
FilesKept ==
  /\ \A k \in Levels : (Opened(k) /\ Ordered(k) /\ Limited(k))'
  /\ Sized' /\ IsFiniteSet(DOMAIN disk')
  /\ DOMAIN disk' \subseteq FileName /\ \A f \in DOMAIN disk' : disk'[f] \in Nat
  /\ logfile' \in [Levels -> Logfile] /\ created' \in [Levels -> Nat]
  /\ DOMAIN last' = Levels

LEMMA ShiftStep ==
  ASSUME IInv, NEW l \in Levels, NEW head \in 0..HeadLen, NEW more \in 0..BufSize,
         NEW put \in 0..more, Moved(l, head, put, more)
  PROVE  FilesKept
<1> DEFINE s == Shifted(l, head)
           lf == [s.lf EXCEPT !.fileLen = @ + more]
<1>1. /\ s.lf \in Logfile /\ Grown(s.files) /\ InUse(l, s.files, s.lf)
      /\ Roomy(l, s.files, s.lf)
      /\ created' \in [Levels -> Nat] /\ WithinDay(s.lf, created'[l])
      /\ \A k \in Levels \ {l} : created'[k] = created[k]
  BY ShiftedIs DEF Moved, Put
<1>2. /\ DOMAIN disk' = DOMAIN s.files
      /\ \A f \in DOMAIN s.files : disk'[f] = s.files[f] + (IF f = s.lf.fd THEN put ELSE 0)
      /\ logfile' = [logfile EXCEPT ![l] = lf]
      /\ last' \in {last, [last EXCEPT ![l] = logfile'[l].fd]}
      /\ Count(l) /\ UNCHANGED <<now, cfg>> /\ more \in Nat /\ put \in Nat
  BY Constants DEF Moved, Put
<1> HIDE DEF s
<1>3. /\ lf \in Logfile /\ lf.fd = s.lf.fd /\ lf.yday = s.lf.yday
      /\ lf.sliceSeq = s.lf.sliceSeq /\ lf.dailySeq = s.lf.dailySeq
      /\ lf.fileLen = s.lf.fileLen + more
  BY <1>1 DEF Logfile
<1> HIDE DEF lf
<1>4. /\ Types /\ logfile \in [Levels -> Logfile] /\ DOMAIN last = Levels
      /\ DOMAIN disk \subseteq FileName /\ \A f \in DOMAIN disk : disk[f] \in Nat
  BY Typed DEF IInv, Types
<1>5. logfile' \in [Levels -> Logfile] /\ logfile'[l] = lf /\ \A k \in Levels \ {l} : logfile'[k] = logfile[k]
  BY <1>2, <1>3, <1>4
<1>6. /\ DOMAIN disk' = DOMAIN s.files
      /\ \A f \in DOMAIN s.files : disk'[f] = s.files[f] + (IF f = s.lf.fd THEN put ELSE 0)
  BY <1>2
<1>7. /\ IsFiniteSet(DOMAIN disk') /\ DOMAIN disk' \subseteq FileName
      /\ DOMAIN disk \subseteq DOMAIN disk'
      /\ \A f \in DOMAIN disk' : disk'[f] \in Nat
      /\ \A f \in DOMAIN disk : disk'[f] >= disk[f]
  <2>1. ASSUME NEW f \in DOMAIN s.files
        PROVE  /\ disk'[f] \in Nat /\ disk'[f] >= s.files[f] /\ s.files[f] \in Nat
               /\ f \in DOMAIN disk => s.files[f] >= disk[f]
    BY <1>1, <1>2, <1>6 DEF Grown
  <2>2. IsFiniteSet(DOMAIN disk') /\ DOMAIN disk' \subseteq FileName /\ DOMAIN disk \subseteq DOMAIN disk'
    BY <1>1, <1>6 DEF Grown
  <2>3. \A f \in DOMAIN disk : f \in DOMAIN s.files
    BY <1>1 DEF Grown
  <2> QED BY <1>4, <1>6, <2>1, <2>2, <2>3
<1>8. \A f \in FileName : FullBefore(f) => FullIn(disk', slice, f)
  BY <1>2, <1>4, <1>7, FullStays DEF cfg
<1>9. DOMAIN last' = Levels /\ \A k \in Levels \ {l} : last'[k] = last[k]
  BY <1>2, <1>4
<1>10. slice' = slice /\ dailyMax' = dailyMax /\ Day(now)' = Day(now) /\ now' = now
  BY <1>2 DEF cfg, Day
<1>11. ASSUME NEW k \in Levels PROVE Opened(k)'
  <2>1. CASE k = l
    BY <1>1, <1>3, <1>5, <1>6, <1>10, <2>1 DEF Opened, InUse
  <2>2. CASE k # l
    <3>1. Opened(k)
      BY DEF IInv
    <3> QED BY <1>5, <1>7, <1>10, <2>2, <3>1 DEF Opened
  <2> QED BY <2>1, <2>2
<1>12. ASSUME NEW k \in Levels PROVE Limited(k)'
  <2>1. CASE k = l
    BY <1>1, <1>3, <1>5, <1>10, <2>1 DEF Limited, WithinDay
  <2>2. CASE k # l
    <3>1. Limited(k)
      BY DEF IInv
    <3> QED BY <1>1, <1>5, <1>10, <2>2, <3>1 DEF Limited
  <2> QED BY <2>1, <2>2
<1>13. ASSUME NEW k \in Levels PROVE Ordered(k)'
  <2>1. Ordered(k) /\ logfile[k] \in Logfile
    BY <1>4 DEF IInv
  <2>2. CASE k # l
    <3>1. last'[k] = last[k] /\ logfile'[k] = logfile[k]
      BY <1>5, <1>9, <2>2
    <3>2. logfile[k].fd \in FileName \cup {NoFile}
      BY <2>1 DEF Logfile
    <3> QED BY <1>8, <1>10, <2>1, <3>1, <3>2 DEF Ordered, SameSlice, FullBefore
  <2>3. CASE k = l
    <3>1. s.lf.fd \in FileName \cup {NoFile}
      BY <1>1 DEF Logfile
    <3>2. s.lf.fd # NoFile => FullIn(disk', slice, s.lf.fd) /\ s.lf.fd.lvl = l /\ s.lf.fd.no \in Nat
      BY <1>1, <1>8, <3>1 DEF InUse, FileName
    <3>3. last'[l] \in {last[l], s.lf.fd}
      BY <1>2, <1>3, <1>4, <1>5
    <3>4. logfile'[l].fd = s.lf.fd
      BY <1>3, <1>5
    <3>5. last[l] # NoFile => FullIn(disk', slice, last[l])
      BY <1>8, <2>1, <2>3 DEF Ordered
    <3> QED BY <1>1, <2>1, <2>3, <3>1, <3>2, <3>3, <3>4, <3>5, <1>10 DEF Ordered, InUse, SameSlice, FullBefore, FileName
  <2> QED BY <2>2, <2>3
<1>14. Sized'
  <2> SUFFICES ASSUME dailyMax = 0, slice # 0
               PROVE  /\ \A f \in DOMAIN disk' : disk'[f] <= Largest
                      /\ \A k \in Levels : logfile'[k].fd # NoFile =>
                           Within(disk'[logfile'[k].fd], logfile'[k])
    BY <1>10 DEF Sized
  <2>1. /\ s.lf.fd # NoFile /\ s.lf.fileLen <= MaxOne - 1 /\ s.lf.fileLen \in Nat
        /\ \A f \in DOMAIN s.files : s.files[f] <= Largest /\ s.files[f] \in Nat
        /\ \A f \in DOMAIN disk : f # s.lf.fd => s.files[f] = disk[f]
        /\ s.files[s.lf.fd] <= (MaxOne - 1) + HeadLen + s.lf.fileLen
        /\ s.lf.fd \in DOMAIN s.files /\ s.lf.fd.lvl = l
    <3>1. s.lf.fileLen \in Nat
      BY <1>1 DEF Logfile
    <3>2. /\ s.lf.fd # NoFile /\ s.lf.fileLen < MaxOne
          /\ \A f \in DOMAIN s.files : s.files[f] <= Largest
          /\ \A f \in DOMAIN disk : f # s.lf.fd => s.files[f] = disk[f]
          /\ s.files[s.lf.fd] <= (MaxOne - 1) + HeadLen + s.lf.fileLen
      BY <1>1 DEF Roomy, Unlimited, Within
    <3>3. s.lf.fd \in DOMAIN s.files /\ s.lf.fd.lvl = l
      BY <1>1, <3>2 DEF InUse
    <3>4. \A f \in DOMAIN s.files : s.files[f] \in Nat
      BY <1>1 DEF Grown
    <3> QED BY <3>1, <3>2, <3>3, <3>4, Constants
  <2>2. disk'[s.lf.fd] = s.files[s.lf.fd] + put
    BY <1>6, <2>1
  <2>3. \A f \in DOMAIN disk' : disk'[f] <= Largest
    <3>1. s.files[s.lf.fd] + put <= Largest
      <4>1. put <= BufSize /\ put \in Nat
        BY Constants
      <4> QED BY <2>1, <4>1, Constants DEF Largest
    <3>2. ASSUME NEW f \in DOMAIN s.files, f # s.lf.fd PROVE disk'[f] = s.files[f]
      <4>1. disk'[f] = s.files[f] + 0
        BY <1>6, <3>2
      <4> QED BY <2>1, <4>1
    <3> QED BY <1>6, <2>1, <2>2, <3>1, <3>2
  <2>4. Within(disk'[lf.fd], lf)
    <3>1. s.files[s.lf.fd] + put <= (MaxOne - 1) + HeadLen + (s.lf.fileLen + more)
      BY <1>2, <2>1, Constants
    <3> QED BY <1>3, <2>2, <3>1 DEF Within
  <2>5. ASSUME NEW k \in Levels, k # l, logfile[k].fd # NoFile
        PROVE  Within(disk'[logfile[k].fd], logfile[k])
    <3>1. Opened(k) /\ Sized
      BY DEF IInv
    <3>2. /\ logfile[k].fd \in DOMAIN disk /\ logfile[k].fd # s.lf.fd
          /\ Within(disk[logfile[k].fd], logfile[k])
      BY <2>1, <2>5, <3>1 DEF Opened, Sized
    <3>3. /\ logfile[k].fd \in DOMAIN s.files
          /\ s.files[logfile[k].fd] = disk[logfile[k].fd] /\ disk[logfile[k].fd] \in Nat
      BY <1>1, <1>4, <2>1, <3>2 DEF Grown
    <3>4. disk'[logfile[k].fd] = disk[logfile[k].fd] + 0
      BY <1>6, <3>2, <3>3
    <3> QED BY <3>2, <3>3, <3>4
  <2> QED BY <1>5, <2>3, <2>4, <2>5
<1> QED BY <1>1, <1>5, <1>7, <1>9, <1>11, <1>12, <1>13, <1>14 DEF FilesKept

LEMMA InitIInv == Init => IInv
<1> SUFFICES ASSUME Init PROVE IInv
  OBVIOUS
<1>1. DOMAIN disk = {} /\ IsFiniteSet({})
  BY FS_EmptySet DEF Init
<1>2. /\ logfile = [l \in Levels |-> Fresh] /\ last = [l \in Levels |-> NoFile]
      /\ created = [l \in Levels |-> 0]
  BY DEF Init
<1>3. TypeOK
  <2>1. logfile \in [Levels -> Logfile]
    BY <1>2 DEF Fresh, Logfile
  <2>2. now \in Start..(Start + MaxTicks) /\ lastCheck \in 0..now
    BY Constants DEF Init
  <2>3. /\ dailyMax \in DailyMaxes /\ slice \in Slices /\ stop \in Stops
        /\ full \in BOOLEAN /\ status \in {"writing", "stop"}
    BY DEF Init
  <2> QED BY <1>1, <2>1, <2>2, <2>3 DEF TypeOK, Logfile
<1>4. Types
  BY <1>1, <1>2, <1>3 DEF Types
<1>5. Sized
  BY <1>1, <1>2 DEF Sized, Fresh
<1>6. Resting
  BY Constants DEF Init, Resting
<1>7. ASSUME NEW l \in Levels PROVE Opened(l) /\ Ordered(l) /\ Limited(l)
  BY <1>2, <1>4, Typed DEF Opened, Ordered, Limited, Fresh
<1> QED BY <1>4, <1>5, <1>6, <1>7 DEF IInv

\* What the other parts of TypeOK need.
LEMMA TypesFrom ==
  ASSUME Types, UNCHANGED cfg, now' \in now..(Start + MaxTicks), full' \in BOOLEAN,
         status' \in {"writing", "stop"}, lastCheck' \in 0..now',
         IsFiniteSet(DOMAIN disk'), DOMAIN disk' \subseteq FileName,
         \A f \in DOMAIN disk' : disk'[f] \in Nat,
         logfile' \in [Levels -> Logfile], created' \in [Levels -> Nat], DOMAIN last' = Levels
  PROVE  Types'
<1>1. now' \in Start..(Start + MaxTicks)
  BY Constants DEF Types, TypeOK
<1>2. TypeOK'
  BY <1>1 DEF Types, TypeOK, cfg, Logfile, FileName
<1> QED BY <1>2 DEF Types


\* A call that leaves the rest of the logger alone.
LEMMA RestingStays ==
  ASSUME Resting, UNCHANGED <<now, stop, status, lastCheck, foundFull>>
  PROVE  Resting'
  BY DEF Resting

LEMMA WriteStep ==
  ASSUME IInv, NEW l \in Levels, NEW len \in Lens, Write(l, len)
  PROVE  IInv'
<1>0. 0 \in 0..HeadLen /\ HeadLen \in 0..HeadLen /\ len \in 0..BufSize /\ len \in 0..len
  BY Constants
<1>1. /\ \E head \in 0..HeadLen : Moved(l, head, len, len)
      /\ UNCHANGED <<now, cfg, full, status, lastCheck, foundFull>>
  BY <1>0 DEF Write, Called, Moved
<1>2. FilesKept
  BY <1>0, <1>1, ShiftStep
<1>3. Types'
  BY <1>1, <1>2, TypesFrom DEF IInv, Types, TypeOK, FilesKept
<1>4. Resting'
  BY <1>1, RestingStays DEF IInv, cfg
<1> QED BY <1>2, <1>3, <1>4 DEF IInv, FilesKept

\* write fails, or the disk is full: a part is added to the file, or nothing.
LEMMA NoWriteStep ==
  ASSUME IInv, NEW l \in Levels, NEW len \in Lens, DiskFull(l, len) \/ WriteFails(l, len)
  PROVE  IInv'
<1>1. UNCHANGED <<now, cfg, full, lastCheck, last>>
  BY DEF DiskFull, WriteFails, Called
<1>2. /\ len \in 0..BufSize /\ {0, HeadLen} \subseteq 0..HeadLen /\ 0 \in 0..0 /\ 0 \in 0..BufSize
      /\ 0 \in 0..len /\ 0..(len - 1) \subseteq 0..len
  BY Constants
<1>3. \E head \in 0..HeadLen, more \in 0..BufSize : \E put \in 0..more : Moved(l, head, put, more)
  BY <1>1, <1>2 DEF DiskFull, WriteFails, Moved
<1>4. FilesKept
  BY <1>3, ShiftStep
<1>5. \/ UNCHANGED <<status, foundFull>>
      \/ stop /\ status = "writing" /\ status' = "stop" /\ foundFull' = <<foundFull[2], now>>
  BY DEF DiskFull, WriteFails
<1>6. Types'
  BY <1>1, <1>4, <1>5, TypesFrom DEF IInv, Types, TypeOK, FilesKept
<1>7. Resting'
  <2>1. CASE UNCHANGED <<status, foundFull>>
    BY <1>1, <2>1, RestingStays DEF IInv, cfg
  <2>2. CASE stop /\ status = "writing" /\ status' = "stop" /\ foundFull' = <<foundFull[2], now>>
    BY <1>1, <2>2, Typed DEF IInv, Resting, cfg
  <2> QED BY <1>5, <2>1, <2>2
<1> QED BY <1>4, <1>6, <1>7 DEF IInv, FilesKept

\* A step that leaves the files and what is remembered of them alone.
LEMMA FilesStay ==
  ASSUME IInv, UNCHANGED <<cfg, disk, logfile, last>>, now' \in Nat, created' \in [Levels -> Nat],
         \/ created' = created /\ Day(now)' = Day(now)
         \/ created' = [l \in Levels |-> 0]
  PROVE  Sized' /\ \A k \in Levels : (Opened(k) /\ Ordered(k) /\ Limited(k))'
<1>1. Sized'
  BY DEF IInv, Sized, cfg
<1>2. ASSUME NEW k \in Levels PROVE (Opened(k) /\ Ordered(k))'
  BY DEF IInv, Opened, Ordered, FullBefore, cfg
<1>3. ASSUME NEW k \in Levels PROVE Limited(k)'
  <2>1. Limited(k) /\ logfile[k] \in Logfile
    BY Typed DEF IInv
  <2>2. CASE created' = created /\ Day(now)' = Day(now)
    BY <2>1, <2>2 DEF Limited, cfg
  <2>3. CASE created' = [l \in Levels |-> 0]
    BY <2>1, <2>3 DEF Limited, cfg, Logfile
  <2> QED BY <2>2, <2>3
<1> QED BY <1>1, <1>2, <1>3

\* mkdir fails and nothing changes, or the old file was closed and none opened.
LEMMA ShiftFailsStep ==
  ASSUME IInv, NEW l \in Levels, ShiftFails(l)
  PROVE  IInv'
<1>1. /\ UNCHANGED <<now, cfg, full, disk, status, lastCheck, last, created, foundFull>>
      /\ logfile' \in {logfile, [logfile EXCEPT ![l] = Cleared(logfile[l])]}
  BY DEF ShiftFails, Called
<1> DEFINE c == Cleared(logfile[l])
<1>2. /\ Types /\ logfile \in [Levels -> Logfile] /\ created \in [Levels -> Nat]
      /\ IsFiniteSet(DOMAIN disk) /\ DOMAIN disk \subseteq FileName
      /\ \A f \in DOMAIN disk : disk[f] \in Nat
      /\ DOMAIN last = Levels
  BY Typed DEF IInv, Types
<1>3. c \in Logfile /\ c.fd = NoFile /\ WithinDay(c, created[l])
  BY ClearedIs
<1> HIDE DEF c
<1>4. /\ logfile' \in [Levels -> Logfile] /\ logfile'[l] \in {logfile[l], c}
      /\ \A k \in Levels \ {l} : logfile'[k] = logfile[k]
  BY <1>1, <1>2, <1>3 DEF c
<1>5. slice' = slice /\ dailyMax' = dailyMax /\ Day(now)' = Day(now)
  BY <1>1 DEF cfg, Day
<1>6. ASSUME NEW k \in Levels PROVE (Opened(k) /\ Ordered(k) /\ Limited(k))'
  <2>1. Opened(k) /\ Ordered(k) /\ Limited(k)
    BY DEF IInv
  <2>2. CASE logfile'[k] = logfile[k]
    BY <1>1, <1>5, <2>1, <2>2 DEF Opened, Ordered, Limited, FullBefore
  <2>3. CASE logfile'[k] = c /\ k = l
    <3>1. Opened(k)'
      BY <1>3, <2>3 DEF Opened
    <3>2. Ordered(k)'
      BY <1>1, <1>3, <1>5, <2>1, <2>3 DEF Ordered, FullBefore
    <3>3. Limited(k)'
      BY <1>1, <1>3, <1>5, <2>3 DEF Limited, WithinDay
    <3> QED BY <3>1, <3>2, <3>3
  <2> QED BY <1>4, <2>2, <2>3
<1>7. Sized'
  BY <1>1, <1>3, <1>4, <1>5 DEF IInv, Sized
<1>8. Types'
  BY <1>1, <1>2, <1>4, TypesFrom DEF Types, TypeOK
<1>9. Resting'
  BY <1>1, RestingStays DEF IInv, cfg
<1> QED BY <1>6, <1>7, <1>8, <1>9 DEF IInv

\* A call while the logger rests, which may end the rest.
LEMMA CallWhileStoppedStep ==
  ASSUME IInv, CallWhileStopped
  PROVE  IInv'
<1>1. /\ UNCHANGED <<now, cfg, full, disk, logfile, last, created, foundFull>>
      /\ status = "stop"
      /\ \/ now - lastCheck >= Rest /\ status' = "writing" /\ lastCheck' = now
         \/ UNCHANGED <<status, lastCheck>>
  BY DEF CallWhileStopped, Resume, Called
<1>2. now \in Nat /\ lastCheck \in 0..now /\ Day(now)' = Day(now) /\ created \in [Levels -> Nat]
  BY <1>1, Typed DEF IInv, Types, TypeOK, Day
<1>3. Sized' /\ \A k \in Levels : (Opened(k) /\ Ordered(k) /\ Limited(k))'
  BY <1>1, <1>2, FilesStay
<1>4. /\ Types /\ logfile' \in [Levels -> Logfile]
      /\ now' \in now..(Start + MaxTicks) /\ lastCheck' \in 0..now'
  BY <1>1, <1>2, Typed DEF IInv, Types, TypeOK
<1>5. Types'
  BY <1>1, <1>2, <1>4, TypesFrom, Typed DEF Types, TypeOK
<1>6. Resting'
  <2>1. foundFull \in Nat \X Nat /\ foundFull[2] <= now /\ foundFull[1] <= lastCheck /\ stop
    BY <1>1 DEF IInv, Resting
  <2>2. CASE now - lastCheck >= Rest /\ status' = "writing" /\ lastCheck' = now
    <3>1. foundFull[1] + Rest <= now
      BY <1>2, <2>1, <2>2, Constants
    <3> QED BY <1>1, <2>1, <2>2, <3>1 DEF Resting, cfg
  <2>3. CASE UNCHANGED <<status, lastCheck>>
    BY <1>1, <2>3, RestingStays DEF IInv, cfg
  <2> QED BY <1>1, <2>2, <2>3
<1> QED BY <1>3, <1>5, <1>6 DEF IInv

\* The clock: at midnight no file was created today.
LEMMA TickStep ==
  ASSUME IInv, Tick
  PROVE  IInv'
<1>1. /\ UNCHANGED <<cfg, disk, full, logfile, status, lastCheck, last, foundFull>>
      /\ now' = now + 1 /\ now < Start + MaxTicks
      /\ created' = IF Day(now') # Day(now) THEN [l \in Levels |-> 0] ELSE created
  BY DEF Tick
<1>2. /\ Types /\ Resting /\ now \in Nat /\ now' \in Nat /\ lastCheck \in 0..now
      /\ logfile \in [Levels -> Logfile] /\ created \in [Levels -> Nat]
      /\ now' \in now..(Start + MaxTicks)
  BY <1>1, Typed, Constants DEF IInv, Types, TypeOK
<1>3. /\ created' \in [Levels -> Nat]
      /\ \/ created' = created /\ Day(now)' = Day(now)
         \/ created' = [l \in Levels |-> 0]
  BY <1>1, <1>2 DEF Day
<1>4. Sized' /\ \A k \in Levels : (Opened(k) /\ Ordered(k) /\ Limited(k))'
  BY <1>1, <1>2, <1>3, FilesStay
<1>5. Types'
  BY <1>1, <1>2, <1>3, TypesFrom DEF Types, TypeOK
<1>6. Resting'
  <2>1. foundFull[1] \in Nat /\ foundFull[2] \in Nat
    BY <1>2 DEF Resting
  <2>2. /\ foundFull[2] <= now => foundFull[2] <= now + 1
        /\ foundFull[1] + Rest <= now => foundFull[1] + Rest <= now + 1
    BY <1>2, <2>1, Constants
  <2> QED BY <1>1, <1>2, <2>2 DEF Resting, cfg
<1> QED BY <1>4, <1>5, <1>6 DEF IInv

LEMMA DiskFillsOrFreesStep ==
  ASSUME IInv, DiskFillsOrFrees
  PROVE  IInv'
<1>1. /\ UNCHANGED <<cfg, now, disk, logfile, status, lastCheck, last, created, foundFull>>
      /\ full' = ~full
  BY DEF DiskFillsOrFrees
<1>2. now \in Nat /\ created \in [Levels -> Nat] /\ Day(now)' = Day(now)
  BY <1>1, Typed DEF IInv, Day
<1>3. Sized' /\ \A k \in Levels : (Opened(k) /\ Ordered(k) /\ Limited(k))'
  BY <1>1, <1>2, FilesStay
<1>4. Types'
  <2>1. Types /\ logfile \in [Levels -> Logfile] /\ now' \in now..(Start + MaxTicks)
    BY <1>1, <1>2, Typed DEF IInv, Types, TypeOK
  <2> QED BY <1>1, <1>2, <2>1, TypesFrom DEF Types, TypeOK
<1>5. Resting'
  BY <1>1, RestingStays DEF IInv, cfg
<1> QED BY <1>3, <1>4, <1>5 DEF IInv

\* A restart opens no file, so that every order is still possible.
LEMMA RestartStep ==
  ASSUME IInv, Restart
  PROVE  IInv'
<1>1. /\ UNCHANGED <<cfg, now, disk, full, last>>
      /\ logfile' = [l \in Levels |-> Fresh]
      /\ status' = "writing" /\ lastCheck' = 0
      /\ created' = [l \in Levels |-> 0] /\ foundFull' = <<0, 0>>
  BY DEF Restart
<1>2. /\ Types /\ Sized /\ now \in Nat /\ dailyMax \in Nat /\ Rest <= now
      /\ now' \in now..(Start + MaxTicks)
  BY <1>1, Typed, Constants DEF IInv, Types, TypeOK
<1>3. Fresh \in Logfile /\ Fresh.fd = NoFile /\ Fresh.dailySeq = 0
  BY DEF Fresh, Logfile
<1>4. ASSUME NEW k \in Levels PROVE (Opened(k) /\ Ordered(k) /\ Limited(k))'
  <2>1. Ordered(k)
    BY DEF IInv
  <2>2. logfile'[k].fd = NoFile /\ logfile'[k].dailySeq = 0 /\ created'[k] = 0
    BY <1>1, <1>3
  <2> QED BY <1>1, <1>2, <2>1, <2>2 DEF Opened, Ordered, Limited, FullBefore, cfg
<1>5. Sized'
  BY <1>1, <1>2, <1>3 DEF Sized, cfg
<1>6. Types'
  BY <1>1, <1>2, <1>3, TypesFrom DEF Types, TypeOK
<1>7. Resting'
  BY <1>1, <1>2, Constants DEF IInv, Resting, cfg
<1> QED BY <1>4, <1>5, <1>6, <1>7 DEF IInv

LEMMA StutterStep == ASSUME IInv, UNCHANGED vars PROVE IInv'
<1>1. UNCHANGED <<cfg, now, disk, full, logfile, status, lastCheck, last, created, foundFull>>
  BY DEF vars
<1>2. now \in Nat /\ created \in [Levels -> Nat] /\ Day(now)' = Day(now)
  BY <1>1, Typed DEF IInv, Day
<1>3. Sized' /\ \A k \in Levels : (Opened(k) /\ Ordered(k) /\ Limited(k))'
  BY <1>1, <1>2, FilesStay
<1>4. Types'
  BY <1>1 DEF IInv, Types, TypeOK, cfg
<1>5. Resting'
  BY <1>1, RestingStays DEF IInv, cfg
<1> QED BY <1>3, <1>4, <1>5 DEF IInv

---------------------------------------------------------------------------
(* The theorems. *)

\* Whatever write_to_logger meets, between restarts and over midnights, the
\* invariant of its files and of its rest holds.
THEOREM Invariance == Spec => []IInv
<1>1. Init => IInv
  BY InitIInv
<1>2. IInv /\ [Next]_vars => IInv'
  <2> SUFFICES ASSUME IInv, [Next]_vars PROVE IInv'
    OBVIOUS
  <2>1. ASSUME NEW l \in Levels, WriteToLogger(l) PROVE IInv'
    BY <2>1, CallWhileStoppedStep, ShiftFailsStep, WriteStep, NoWriteStep DEF WriteToLogger
  <2> QED BY <2>1, TickStep, DiskFillsOrFreesStep, RestartStep, StutterStep DEF Next
<1> QED BY <1>1, <1>2, PTL DEF Spec

\* What the logger keeps and the files have the types the code gives them
\* (log_file_t), whatever the limits asked for.
THEOREM TypeCorrect == Spec => []TypeOK
<1>1. IInv => TypeOK
  BY DEF IInv, Types
<1> QED BY <1>1, Invariance, PTL

\* With time slices no file exceeds twice max_one_size by as much as a head and a
\* record (get_time_slice_no, create_new_logfile, write_to_logger), for any sizes
\* of records, slice, day and number of failures and restarts.
THEOREM SizeBoundedAlways == Spec => []SizeBounded
<1>1. IInv => SizeBounded
  BY DEF IInv, Sized, SizeBounded, Largest
<1> QED BY <1>1, Invariance, PTL

\* A program that asks for a limit of files a day never creates more in a day
\* (is_need_shift_file, init_logfile).
THEOREM FilesPerDayAlways == Spec => []FilesPerDay
<1>1. IInv => FilesPerDay
  <2> SUFFICES ASSUME IInv, dailyMax # 0, NEW l \in Levels PROVE created[l] <= dailyMax
    BY DEF FilesPerDay
  <2>1. /\ logfile[l].dailySeq <= dailyMax
        /\ created[l] <= IF logfile[l].yday = Day(now) THEN logfile[l].dailySeq ELSE 0
    BY DEF IInv, Limited
  <2>2. logfile[l].dailySeq \in Nat /\ dailyMax \in Nat /\ created[l] \in Nat
    BY Typed DEF IInv, Logfile
  <2> QED BY <2>1, <2>2
<1> QED BY <1>1, Invariance, PTL

\* A record is written to the file the shift left open.
LEMMA FileOfRecord ==
  ASSUME IInv, NEW l \in Levels, NEW head \in 0..HeadLen, NEW put, NEW more,
         Put(l, head, put, more), last' = [last EXCEPT ![l] = logfile'[l].fd]
  PROVE  last'[l] = Shifted(l, head).lf.fd
<1> DEFINE s == Shifted(l, head)
<1>1. s.lf \in Logfile /\ logfile' = [logfile EXCEPT ![l] = [s.lf EXCEPT !.fileLen = @ + more]]
  BY ShiftedIs DEF Put
<1> HIDE DEF s
<1>2. logfile \in [Levels -> Logfile] /\ DOMAIN last = Levels
  BY Typed DEF IInv, Types
<1>3. [s.lf EXCEPT !.fileLen = @ + more].fd = s.lf.fd
  BY <1>1 DEF Logfile
<1> QED BY <1>1, <1>2, <1>3 DEF s

\* While the level has files of its limit left, each record is in the file of its
\* day and its time slice (is_need_shift_file, gen_timestring).
THEOREM InItsSliceAlways == Spec => InItsSlice
<1>1. ASSUME IInv, NEW l \in Levels, Unlimited(l), NEW len \in Lens, Write(l, len)
      PROVE  /\ last'[l] # NoFile
             /\ last'[l].day = Day(now)
             /\ slice # 0 => last'[l].at = ((now \div slice) * slice) % DayLen
  <2>1. PICK head \in 0..HeadLen : /\ Put(l, head, len, len)
                                  /\ last' = [last EXCEPT ![l] = logfile'[l].fd]
    <3>1. 0 \in 0..HeadLen /\ HeadLen \in 0..HeadLen
      BY Constants
    <3> QED BY <1>1, <3>1 DEF Write
  <2> DEFINE s == Shifted(l, head)
  <2>2. InUse(l, s.files, s.lf) /\ Roomy(l, s.files, s.lf)
    BY <1>1, <2>1, ShiftedIs DEF Put
  <2>3. last'[l] = s.lf.fd
    BY <1>1, <2>1, FileOfRecord
  <2> HIDE DEF s
  <2> QED BY <1>1, <2>2, <2>3 DEF InUse, Roomy
<1>2. IInv /\ [Next]_vars =>
        [\A l \in Levels :
           /\ dailyMax = 0 \/ logfile[l].dailySeq < dailyMax
           /\ \E len \in Lens : Write(l, len)
           => /\ last'[l] # NoFile
              /\ last'[l].day = Day(now)
              /\ slice # 0 => last'[l].at = ((now \div slice) * slice) % DayLen]_vars
  BY <1>1 DEF Unlimited
<1> QED BY <1>2, Invariance, PTL DEF Spec, InItsSlice

\* The files of a slice, by their numbers, hold its records in the order they
\* were made (get_time_slice_no): the file of a record is never one before that
\* of the record that went before it.
THEOREM InOrderAlways == Spec => InOrder
<1> DEFINE Later(k) == /\ NoFile \notin {last[k], last'[k]}
                       /\ last'[k].day = last[k].day /\ last'[k].at = last[k].at
                       => last'[k].no >= last[k].no
<1>1. ASSUME IInv, [Next]_vars, NEW k \in Levels PROVE Later(k)
  <2>1. Types /\ Ordered(k) /\ DOMAIN last = Levels
    BY <1>1 DEF IInv, Types
  <2>2. last[k] # NoFile => last[k].no \in Nat
    BY <2>1 DEF Ordered, FileName
  <2>3. CASE last' = last
    BY <2>2, <2>3
  <2>4. ASSUME NEW l \in Levels, NEW len \in Lens, Write(l, len) PROVE Later(k)
    <3>1. PICK head \in 0..HeadLen : /\ Put(l, head, len, len)
                                    /\ last' = [last EXCEPT ![l] = logfile'[l].fd]
      <4>1. 0 \in 0..HeadLen /\ HeadLen \in 0..HeadLen
        BY Constants
      <4> QED BY <2>4, <4>1 DEF Write
    <3> DEFINE s == Shifted(l, head)
    <3>2. InUse(l, s.files, s.lf)
      BY <1>1, <3>1, ShiftedIs DEF Put
    <3>3. last'[l] = s.lf.fd
      BY <1>1, <3>1, FileOfRecord
    <3> HIDE DEF s
    <3>4. CASE k = l
      BY <2>1, <3>2, <3>3, <3>4 DEF InUse, SameSlice
    <3>5. CASE k # l
      BY <2>1, <2>2, <3>1, <3>5
    <3> QED BY <3>4, <3>5
  <2>5. last' = last \/ \E l \in Levels, len \in Lens : Write(l, len)
    BY <1>1 DEF Next, WriteToLogger, CallWhileStopped, ShiftFails, DiskFull, WriteFails,
                Tick, DiskFillsOrFrees, Restart, vars
  <2> QED BY <2>3, <2>4, <2>5
<1>2. IInv /\ [Next]_vars => [\A l \in Levels : Later(l)]_vars
  BY <1>1
<1> QED BY <1>2, Invariance, PTL DEF Spec, InOrder

\* With stop_if_diskfull, when a write finds the disk full the one before the
\* last such write is CHECK_DISKFULL_DUR ago (write_to_logger).
THEOREM RestsWhenFullAlways == Spec => RestsWhenFull
<1>1. ASSUME IInv, stop, NEW l \in Levels, NEW len \in Lens, DiskFull(l, len) PROVE now - foundFull[1] >= Rest
  <2>1. status = "writing" /\ foundFull[1] \in Nat /\ foundFull[1] + Rest <= now
    BY <1>1 DEF DiskFull, IInv, Resting
  <2> QED BY <1>1, <2>1, Typed, Constants DEF IInv
<1>2. IInv /\ [Next]_vars =>
        [stop /\ (\E l \in Levels, len \in Lens : DiskFull(l, len)) => now - foundFull[1] >= Rest]_vars
  BY <1>1
<1> QED BY <1>2, Invariance, PTL DEF Spec, RestsWhenFull

\* Files are neither too large nor too many (write_to_logger).
THEOREM FilesSoundAlways == Spec => []FilesSound
<1>1. TypeOK /\ SizeBounded /\ FilesPerDay => FilesSound
  BY DEF FilesSound
<1> QED BY <1>1, TypeCorrect, SizeBoundedAlways, FilesPerDayAlways, PTL

\* Each record lies in the file of its day and slice, and in order.
THEOREM RecordsPlacedAlways == Spec => RecordsPlaced
BY InItsSliceAlways, InOrderAlways DEF RecordsPlaced
=============================================================================
