------------------------- MODULE DirtyUpdateProofs --------------------------
(***************************************************************************)
(* The safety properties of DirtyUpdate, for any dictionaries, any number  *)
(* of checkers and any bounds; and those of DirtyDaemon, for any file that *)
(* ends and any servers: how its lines are read, how a server is found.    *)
(***************************************************************************)
EXTENDS MCDirtyUpdate, FiniteSetTheorems, SequenceTheorems, WellFoundedInduction, TLAPS

\* What is received: blocks of a dictionary not complete yet.
Fetching ==
  /\ pc = "compare" => servrMd5 = Zero
  /\ pc = "receive" /\ servrMd5 # Zero => new \in Seq(Block) /\ Len(new) < Len(servrMd5)
  /\ pc = "verify" => new \in Seq(Block)
  /\ pc \in {"remove", "rename"} => new \in Whole

\* What the two automata hold: the one that was switched to a dictionary, the
\* other one the file once it is compiled.
Loading ==
  /\ pc = "compile" => dat # NoFile
  /\ pc = "switch" => dat # NoFile /\ mem[1 - flag] = dat
  /\ ready => mem[flag] \in Whole
  /\ ready /\ ~loadFailed /\ pc \in {"sleep", "look", "compare", "receive", "verify", "remove"}
       => mem[flag] = dat

\* While the daemon is awake every check that runs is on the automaton in use.
OnFlag == pc \notin {"sleep", "down"} => \A c \in Checkers : check[c] # Idle => check[c].flag = flag

IInv == TypeOK /\ LocalWhole /\ CheckWhole /\ Fetching /\ Loading /\ OnFlag

---------------------------------------------------------------------------

\* A dictionary is a sequence of blocks, and none of the marks.
LEMMA ContentIs ==
  ASSUME NEW v \in Versions
  PROVE  /\ Content(v) \in Seq(Block) /\ Len(Content(v)) = Size[v]
         /\ Size[v] # 0 => Content(v) \in Whole
<1>1. Size[v] \in Nat
  BY UpdateAssumption
<1>2. \A i \in 1..Size[v] : <<v, i>> \in Block
  BY <1>1 DEF Block
<1> QED
  BY <1>1, <1>2 DEF Content, Whole

LEMMA WholeIs ==
  /\ Whole \subseteq Seq(Block)
  /\ NoFile \notin Whole /\ Zero \notin Whole /\ Torn \notin Whole /\ Blank \notin Whole
<1>1. Whole \subseteq Seq(Block)
  BY ContentIs DEF Whole
<1> QED
  BY <1>1, UpdateAssumption

\* Where the daemon goes when a load returns.
LEMMA ReturnsTo ==
  ASSUME NEW ok \in BOOLEAN, TypeOK, Returns(ok)
  PROVE  /\ pc' \in {"sleep", "open", "down"}
         /\ mode' \in {"none", "first", "fallback", "thread"}
BY DEF Returns, TypeOK

LEMMA InitInv == Init => IInv
<1> SUFFICES ASSUME Init PROVE IInv
  OBVIOUS
<1>1. TypeOK
  <2>1. dat \in {NoFile} \cup Seq(Block)
    BY WholeIs DEF Init
  <2>2. left \in [changes : 0..MaxChanges, fails : 0..MaxFails, crashes : 0..MaxCrashes]
    BY UpdateAssumption DEF Init
  <2>3. mem \in [{0, 1} -> {Blank, Torn} \cup Seq(Block)]
    BY DEF Init
  <2>4. check \in [Checkers -> {Idle} \cup Check]
    BY DEF Init
  <2> QED
    BY <2>1, <2>2, <2>3, <2>4 DEF Init, TypeOK
<1>2. LocalWhole /\ CheckWhole
  BY DEF Init, LocalWhole, CheckWhole
<1>3. Fetching /\ Loading /\ OnFlag
  BY DEF Init, Fetching, Loading, OnFlag
<1> QED
  BY <1>1, <1>2, <1>3 DEF IInv

---------------------------------------------------------------------------
(* What one step does to each part of the invariant. *)

\* A step leaves the file alone or makes it one that was verified.
LEMMA LocalWholeKept == ASSUME IInv, Next PROVE LocalWhole'
<1> USE DEF IInv, LocalWhole, Fetching
<1>1. CASE Start \/ GoesWrong \/ Crash
  BY <1>1 DEF Start, GoesWrong, Crash
<1>2. CASE \E c \in Checkers : CheckBegins(c) \/ CheckEnds(c)
  BY <1>2 DEF CheckBegins, CheckEnds
<1>3. CASE \E v \in Versions : ServerChanges(v)
  BY <1>3 DEF ServerChanges
<1>4. CASE Daemon
  <2>1. CASE LookLocal \/ UpToDate \/ Request \/ ReceiveNothing \/ LengthDiffers \/ Receive \/ Verify
    BY <2>1 DEF LookLocal, UpToDate, Request, ReceiveNothing, LengthDiffers, Receive, Verify
  <2>2. CASE Remove
    BY <2>2 DEF Remove
  <2>3. CASE Rename
    BY <2>3 DEF Rename
  <2>4. CASE Open \/ OpenMissing \/ Compile \/ Switch \/ Wake
    BY <2>4 DEF Open, OpenMissing, Compile, Switch, Wake
  <2> QED
    BY <1>4, <2>1, <2>2, <2>3, <2>4 DEF Daemon
<1> QED
  BY <1>1, <1>2, <1>3, <1>4 DEF Next

\* A received block continues the dictionary that was announced.
LEMMA ReceiveTypes ==
  ASSUME IInv, Receive
  PROVE  /\ new' \in Seq(Block) /\ servrMd5' \in Whole /\ pc' \in {"receive", "verify"}
         /\ pc' = "receive" => Len(new') < Len(servrMd5')
<1>1. /\ srv \in Versions /\ Size[srv] \in Nat \ {0}
      /\ Content(srv) \in Whole /\ Len(Content(srv)) = Size[srv]
  BY ContentIs, UpdateAssumption DEF Receive, IInv, TypeOK
<1>2. pc' \in {"receive", "verify"}
  BY DEF Receive
<1>3. CASE First
  <2>1. /\ new' = << <<srv, 1>> >> /\ servrMd5' = Content(srv)
        /\ pc' = "receive" => Size[srv] # 1
    BY <1>3 DEF Receive, Number, Endable
  <2>2. <<srv, 1>> \in Block
    BY <1>1 DEF Block
  <2>3. new' \in Seq(Block) /\ Len(new') = 1
    BY <2>1, <2>2
  <2> QED
    BY <1>1, <1>2, <2>1, <2>3
<1>4. CASE ~First
  <2>1. /\ new \in Seq(Block) /\ Len(new) < Size[srv] /\ Len(servrMd5) = Size[srv]
        /\ servrMd5 \in Whole
    BY <1>4 DEF Receive, First, IInv, Fetching, TypeOK
  <2>2. <<srv, Len(new) + 1>> \in Block
    BY <1>1, <2>1, LenProperties DEF Block
  <2>3. /\ new' = Append(new, <<srv, Len(new) + 1>>) /\ servrMd5' = servrMd5
        /\ pc' = "receive" => Len(new) + 1 # Size[srv]
    BY <1>4 DEF Receive, Number, Endable
  <2>4. new' \in Seq(Block) /\ Len(new') = Len(new) + 1
    BY <2>1, <2>2, <2>3
  <2> QED
    BY <1>1, <1>2, <2>1, <2>3, <2>4
<1> QED
  BY <1>3, <1>4

\* Only Receive and Verify change what is received or lead past it.
LEMMA FetchingKept == ASSUME IInv, Next PROVE Fetching'
<1> USE DEF IInv, Fetching, net
<1>1. CASE Start \/ Crash
  BY <1>1 DEF Start, Crash
<1>2. CASE GoesWrong
  BY <1>2, ReturnsTo DEF GoesWrong
<1>3. CASE \E c \in Checkers : CheckBegins(c) \/ CheckEnds(c)
  BY <1>3 DEF CheckBegins, CheckEnds
<1>4. CASE \E v \in Versions : ServerChanges(v)
  BY <1>4 DEF ServerChanges
<1>5. CASE Daemon
  <2>1. CASE UpToDate \/ ReceiveNothing \/ LengthDiffers \/ OpenMissing \/ Switch
    BY <2>1, ReturnsTo DEF UpToDate, ReceiveNothing, LengthDiffers, OpenMissing, Switch
  <2>2. CASE LookLocal \/ Open \/ Compile \/ Wake \/ Rename
    BY <2>2 DEF LookLocal, Open, Compile, Wake, Rename
  <2>3. CASE Request
    BY <2>3 DEF Request
  <2>4. CASE Receive
    BY <2>4, ReceiveTypes
  <2>5. CASE Verify
    <3>1. pc' = "remove" => new \in Whole
      BY <2>5, ReturnsTo, UpdateAssumption DEF Verify, TypeOK
    <3> QED
      BY <2>5, <3>1, ReturnsTo DEF Verify
  <2>6. CASE Remove
    BY <2>6 DEF Remove
  <2> QED
    BY <1>5, <2>1, <2>2, <2>3, <2>4, <2>5, <2>6 DEF Daemon
<1> QED
  BY <1>1, <1>2, <1>3, <1>4, <1>5 DEF Next

\* Open and Compile write the automaton that no check uses, and Remove makes the
\* file differ from the memory until Switch.
LEMMA LoadingKept == ASSUME IInv, Next PROVE Loading'
<1> USE DEF IInv, Loading, net, shm
<1>1. CASE Start \/ Crash
  BY <1>1 DEF Start, Crash
<1>2. CASE GoesWrong
  BY <1>2, ReturnsTo DEF GoesWrong
<1>3. CASE \E c \in Checkers : CheckBegins(c) \/ CheckEnds(c)
  BY <1>3 DEF CheckBegins, CheckEnds
<1>4. CASE \E v \in Versions : ServerChanges(v)
  BY <1>4 DEF ServerChanges
<1>5. CASE Daemon
  <2>1. CASE UpToDate \/ ReceiveNothing \/ LengthDiffers
    <3>1. /\ pc \in {"compare", "receive"} /\ pc' \in {"sleep", "open", "down"}
          /\ UNCHANGED <<dat, net, shm>>
      BY <2>1, ReturnsTo DEF UpToDate, ReceiveNothing, LengthDiffers
    <3> QED
      BY <3>1
  <2>2. CASE LookLocal \/ Request \/ Wake
    BY <2>2 DEF LookLocal, Request, Wake
  <2>3. CASE Receive
    BY <2>3 DEF Receive
  <2>4. CASE Remove \/ Rename
    BY <2>4 DEF Remove, Rename
  <2>5. CASE Verify
    BY <2>5, ReturnsTo DEF Verify
  <2>8. CASE OpenMissing
    BY <2>8, ReturnsTo DEF OpenMissing
  <2>6. CASE Open \/ Compile
    <3>1. /\ mem' \in [{0, 1} -> {Torn, dat} \cup {mem[0], mem[1]}] /\ mem'[flag] = mem[flag]
          /\ Compile => mem'[1 - flag] = dat
      BY <2>6 DEF Open, Compile, UpdateFlag, TypeOK
    <3> QED
      BY <2>6, <3>1 DEF Open, Compile
  <2>7. CASE Switch
    <3>1. pc' = "sleep"
      BY <2>7 DEF Switch, Returns
    <3>2. flag' = 1 - flag /\ mem[1 - flag] = dat /\ dat \in Whole
      BY <2>7 DEF Switch, UpdateFlag, LocalWhole
    <3> QED
      BY <2>7, <3>1, <3>2 DEF Switch
  <2> QED
    BY <1>5, <2>1, <2>2, <2>3, <2>4, <2>5, <2>6, <2>7, <2>8 DEF Daemon
<1> QED
  BY <1>1, <1>2, <1>3, <1>4, <1>5 DEF Next

\* A check begins on the automaton in use, and the daemon only wakes when no
\* other check is left.
LEMMA ChecksKept == ASSUME IInv, Next PROVE CheckWhole' /\ OnFlag'
<1> USE DEF IInv, CheckWhole, OnFlag, net, shm
<1>1. CASE Start
  BY <1>1 DEF Start
<1>2. CASE Crash
  BY <1>2 DEF Crash, TypeOK
<1>3. CASE GoesWrong
  BY <1>3 DEF GoesWrong
<1>4. CASE \E v \in Versions : ServerChanges(v)
  BY <1>4 DEF ServerChanges
<1>5. ASSUME NEW c \in Checkers, CheckBegins(c)
      PROVE  CheckWhole' /\ OnFlag'
  <2>1. /\ check' \in [Checkers -> {Idle} \cup Check]
        /\ check'[c] = [flag |-> flag, saw |-> mem[flag], ready |-> ready]
        /\ \A d \in Checkers \ {c} : check'[d] = check[d]
    BY <1>5 DEF CheckBegins, TypeOK, Check
  <2>2. ready => mem[flag] \in Whole
    BY DEF Loading
  <2> QED
    BY <1>5, <2>1, <2>2 DEF CheckBegins
<1>6. ASSUME NEW c \in Checkers, CheckEnds(c)
      PROVE  CheckWhole' /\ OnFlag'
  <2>1. /\ check'[c] = Idle
        /\ \A d \in Checkers \ {c} : check'[d] = check[d]
    BY <1>6 DEF CheckEnds, TypeOK
  <2> QED
    BY <1>6, <2>1 DEF CheckEnds
<1>7. CASE Daemon
  <2>1. CASE UpToDate \/ ReceiveNothing \/ LengthDiffers \/ OpenMissing \/ LookLocal
               \/ Request \/ Receive \/ Verify \/ Remove \/ Rename
    BY <2>1 DEF UpToDate, ReceiveNothing, LengthDiffers, OpenMissing, LookLocal, Request,
                Receive, Verify, Remove, Rename
  <2>2. CASE Wake
    BY <2>2 DEF Wake
  <2>3. CASE Switch
    BY <2>3 DEF Switch, Returns
  <2>4. CASE Open \/ Compile
    <3>1. mem'[flag] = mem[flag]
      BY <2>4 DEF Open, Compile, UpdateFlag, TypeOK
    <3>2. \A c \in Checkers : check[c] # Idle => check[c].flag = flag
      BY <2>4 DEF Open, Compile
    <3> QED
      BY <2>4, <3>1, <3>2 DEF Open, Compile
  <2> QED
    BY <1>7, <2>1, <2>2, <2>3, <2>4 DEF Daemon
<1> QED
  BY <1>1, <1>2, <1>3, <1>4, <1>5, <1>6, <1>7 DEF Next

\* The bounds only go down.
LEMMA SpendKeeps ==
  ASSUME NEW what \in {"changes", "fails", "crashes"}, TypeOK, Spend(what)
  PROVE  left' \in [changes : 0..MaxChanges, fails : 0..MaxFails, crashes : 0..MaxCrashes]
<1>1. /\ left[what] \in Nat \ {0}
      /\ left' = [left EXCEPT ![what] = left[what] - 1]
  BY UpdateAssumption DEF Spend, TypeOK
<1>2. CASE what = "changes"
  BY <1>1, <1>2, UpdateAssumption DEF TypeOK
<1>3. CASE what = "fails"
  BY <1>1, <1>3, UpdateAssumption DEF TypeOK
<1>4. CASE what = "crashes"
  BY <1>1, <1>4, UpdateAssumption DEF TypeOK
<1> QED
  BY <1>2, <1>3, <1>4

LEMMA TypeKept == ASSUME IInv, Next PROVE TypeOK'
<1> USE DEF IInv, net, shm
<1>0. TypeOK
  OBVIOUS
<1>1. CASE Start
  BY <1>0, <1>1 DEF Start, TypeOK
<1>2. CASE Crash
  <2>1. check' \in [Checkers -> {Idle} \cup Check]
    BY <1>2 DEF Crash, TypeOK
  <2>2. left' \in [changes : 0..MaxChanges, fails : 0..MaxFails, crashes : 0..MaxCrashes]
    BY <1>2, SpendKeeps DEF Crash
  <2> QED
    BY <1>0, <1>2, <2>1, <2>2 DEF Crash, TypeOK
<1>3. CASE GoesWrong
  <2>1. left' \in [changes : 0..MaxChanges, fails : 0..MaxFails, crashes : 0..MaxCrashes]
    BY <1>3, SpendKeeps DEF GoesWrong
  <2> QED
    BY <1>0, <1>3, <2>1, ReturnsTo DEF GoesWrong, TypeOK
<1>4. CASE \E v \in Versions : ServerChanges(v)
  <2>1. left' \in [changes : 0..MaxChanges, fails : 0..MaxFails, crashes : 0..MaxCrashes]
    BY <1>4, SpendKeeps DEF ServerChanges
  <2> QED
    BY <1>0, <1>4, <2>1 DEF ServerChanges, TypeOK
<1>5. ASSUME NEW c \in Checkers, CheckBegins(c)  PROVE TypeOK'
  <2>1. [flag |-> flag, saw |-> mem[flag], ready |-> ready] \in Check
    BY DEF TypeOK, Check
  <2>2. check' \in [Checkers -> {Idle} \cup Check]
    BY <1>5, <2>1 DEF CheckBegins, TypeOK
  <2> QED
    BY <1>0, <1>5, <2>2 DEF CheckBegins, TypeOK
<1>6. ASSUME NEW c \in Checkers, CheckEnds(c)  PROVE TypeOK'
  <2>1. check' \in [Checkers -> {Idle} \cup Check]
    BY <1>6 DEF CheckEnds, TypeOK
  <2> QED
    BY <1>0, <1>6, <2>1 DEF CheckEnds, TypeOK
<1>7. CASE Daemon
  <2>1. CASE UpToDate \/ ReceiveNothing \/ LengthDiffers \/ OpenMissing
    BY <1>0, <2>1, ReturnsTo DEF UpToDate, ReceiveNothing, LengthDiffers, OpenMissing, TypeOK
  <2>2. CASE LookLocal \/ Request \/ Wake \/ Remove
    BY <1>0, <2>2 DEF LookLocal, Request, Wake, Remove, TypeOK
  <2>3. CASE Receive
    <3>1. new' \in Seq(Block) /\ servrMd5' \in Whole
      BY <2>3, ReceiveTypes
    <3> QED
      BY <1>0, <2>3, <3>1 DEF Receive, TypeOK
  <2>4. CASE Verify
    <3>1. new \in Seq(Block)
      BY <2>4 DEF Verify, Fetching
    <3> QED
      BY <1>0, <2>4, <3>1, ReturnsTo DEF Verify, TypeOK
  <2>5. CASE Rename
    <3>1. left' \in [changes : 0..MaxChanges, fails : 0..MaxFails, crashes : 0..MaxCrashes]
      BY <1>0, <2>5, SpendKeeps DEF Rename, TypeOK
    <3> QED
      BY <1>0, <2>5, <3>1 DEF Rename, TypeOK
  <2>6. CASE Open \/ Compile
    <3>1. mem' \in [{0, 1} -> {Blank, Torn} \cup Seq(Block)]
      BY <2>6, WholeIs DEF Open, Compile, TypeOK, Loading, LocalWhole
    <3> QED
      BY <1>0, <2>6, <3>1 DEF Open, Compile, TypeOK
  <2>7. CASE Switch
    <3>1. flag' \in {0, 1}
      BY <2>7 DEF Switch, UpdateFlag, TypeOK
    <3> QED
      BY <1>0, <2>7, <3>1, ReturnsTo DEF Switch, TypeOK
  <2> QED
    BY <1>7, <2>1, <2>2, <2>3, <2>4, <2>5, <2>6, <2>7 DEF Daemon
<1> QED
  BY <1>1, <1>2, <1>3, <1>4, <1>5, <1>6, <1>7 DEF Next

---------------------------------------------------------------------------
(* The theorems. *)

\* The invariant is inductive.
THEOREM Invariance == Spec => []IInv
<1>1. IInv /\ [Next]_vars => IInv'
  <2> SUFFICES ASSUME IInv, [Next]_vars PROVE IInv'
    OBVIOUS
  <2>1. CASE Next
    BY <2>1, TypeKept, LocalWholeKept, FetchingKept, LoadingKept, ChecksKept DEF IInv
  <2>2. CASE UNCHANGED vars
    BY <2>2 DEF vars, IInv, TypeOK, LocalWhole, CheckWhole, Fetching, Loading, OnFlag
  <2> QED
    BY <2>1, <2>2
<1> QED
  BY <1>1, InitInv, PTL DEF Spec

\* Every variable keeps its type.
THEOREM TypeCorrect == Spec => []TypeOK
BY Invariance, PTL DEF IInv

\* The local file is a whole dictionary of the server, whatever is lost, changed
\* or dies while tm_dirty_load_from_server runs.
THEOREM LocalWholeAlways == Spec => []LocalWhole
BY Invariance, PTL DEF IInv

\* No check walks an automaton that tm_dirty_load_new writes.
THEOREM CheckWholeAlways == Spec => []CheckWhole
BY Invariance, PTL DEF IInv

\* The dictionary in use is the one in the file while the thread sleeps.
THEOREM MemoryFollowsFileAlways == Spec => []MemoryFollowsFile
<1>1. IInv => MemoryFollowsFile
  BY DEF IInv, Loading, MemoryFollowsFile
<1> QED
  BY <1>1, Invariance, PTL

\* The file, the automaton in use and what the checks walk are whole dictionaries.
THEOREM UpdateSoundAlways == Spec => []UpdateSound
<1>1. TypeOK /\ LocalWhole /\ CheckWhole /\ MemoryFollowsFile => UpdateSound
  BY DEF UpdateSound
<1> QED
  BY <1>1, TypeCorrect, LocalWholeAlways, CheckWholeAlways, MemoryFollowsFileAlways, PTL

---------------------------------------------------------------------------
(* The choice of a server (tm_dirty_load_from_server). *)

LEMMA Lowest ==
  ASSUME NEW S \in SUBSET Nat, S # {}
  PROVE  \E m \in S : \A n \in S : m <= n
<1> DEFINE T == {0..n : n \in S}
           R == StrictSubsetOrdering(Nat)
<1>1. T \subseteq FiniteSubsetsOf(Nat)
  <2>1. \A n \in S : 0..n \subseteq Nat /\ IsFiniteSet(0..n)
    BY FS_Interval
  <2> QED BY <2>1 DEF FiniteSubsetsOf
<1>2. T # {}
  OBVIOUS
<1>3. \E x \in T : \A y \in T : ~(<<y, x>> \in R)
  <2> HIDE DEF T
  <2> QED BY <1>1, <1>2, FS_StrictSubsetOrderingWellFounded, WFMin
<1>4. PICK m \in S : \A k \in S : ~(<<0..k, 0..m>> \in R)
  BY <1>3
<1>5. \A k \in S : m <= k
  <2> SUFFICES ASSUME NEW k \in S, k < m PROVE FALSE
    OBVIOUS
  <2>1. 0..k \subseteq 0..m /\ 0..k # 0..m /\ 0..k \in SUBSET Nat /\ 0..m \in SUBSET Nat
    <3>1. m \in 0..m /\ m \notin 0..k
      OBVIOUS
    <3> QED BY <3>1
  <2> QED BY <1>4, <2>1 DEF StrictSubsetOrdering
<1> QED BY <1>5

\* The remainder of n * q + r is r: the turn over the servers
\* (tm_dirty.c:342) meets each of them, since it wraps by a remainder.
LEMMA ModIs ==
  ASSUME NEW n \in Nat \ {0}, NEW q \in Nat, NEW r \in 0..n - 1
  PROVE  (n * q + r) % n = r
<1> DEFINE x == n * q + r
           d == (x \div n) - q
<1>1. x \in Nat /\ n * q \in Nat
  OBVIOUS
<1> HIDE DEF x
<1>2. x = n * (x \div n) + (x % n) /\ x % n \in 0..n - 1 /\ x \div n \in Int
  BY <1>1
<1>3. n * d = n * (x \div n) - n * q /\ d \in Int
  BY <1>1, <1>2
<1>4. n * d = r - (x % n)
  BY <1>1, <1>2, <1>3 DEF x
<1> HIDE DEF d
<1>5. d >= 1 => n * d >= n
  BY <1>3
<1>6. d <= -1 => n * d <= -n
  BY <1>3
<1>7. d = 0
  <2>1. x % n \in Int /\ 0 <= x % n /\ x % n < n /\ r \in Int /\ 0 <= r /\ r < n
    BY <1>2
  <2>2. ~(n * d >= n)
    BY <1>4, <2>1
  <2>3. ~(n * d <= -n)
    BY <1>4, <2>1
  <2>4. ~(d >= 1) /\ ~(d <= -1) /\ d \in Int
    BY <1>3, <1>5, <1>6, <2>2, <2>3
  <2> QED
    BY <2>4
<1>8. n * d = 0
  BY <1>7
<1> QED
  BY <1>1, <1>2, <1>4, <1>8 DEF x

\* From any server on, n steps come to each of n.
LEMMA AllTried ==
  ASSUME NEW n \in Nat \ {0}, NEW a \in Nat, NEW k \in 1..n
  PROVE  \E j \in 0..n - 1 : ((j + a) % n) + 1 = k
<1> DEFINE r == a % n
           q == a \div n
<1>1. q \in Nat /\ r \in 0..n - 1 /\ a = n * q + r
  OBVIOUS
<1> HIDE DEF r, q
<1>2. n * q \in Nat /\ n * (q + 1) = n * q + n
  BY <1>1
<1>3. CASE k - 1 >= r
  <2>1. (n * q + (k - 1)) % n = k - 1
    BY <1>1, ModIs
  <2>2. (k - 1 - r) \in 0..n - 1 /\ (k - 1 - r) + a = n * q + (k - 1)
    BY <1>1, <1>2, <1>3
  <2> DEFINE j == k - 1 - r
  <2> HIDE DEF j
  <2>3. j \in 0..n - 1 /\ (j + a) % n = k - 1
    BY <2>1, <2>2 DEF j
  <2>4. ((j + a) % n) + 1 = k
    BY <2>3
  <2> QED
    BY <2>3, <2>4
<1>4. CASE k - 1 < r
  <2>1. (n * (q + 1) + (k - 1)) % n = k - 1
    BY <1>1, ModIs
  <2>2. (n + k - 1 - r) \in 0..n - 1 /\ (n + k - 1 - r) + a = n * (q + 1) + (k - 1)
    BY <1>1, <1>2, <1>4
  <2> DEFINE j == n + k - 1 - r
  <2> HIDE DEF j
  <2>3. j \in 0..n - 1 /\ (j + a) % n = k - 1
    BY <2>1, <2>2 DEF j
  <2>4. ((j + a) % n) + 1 = k
    BY <2>3
  <2> QED
    BY <2>3, <2>4
<1> QED
  BY <1>1, <1>3, <1>4

Chooses == place = "choose"

\* The list that is in use was read to its end; those tried so far did not listen
\* all through the choice; the failures in a row are those since the last warning
\* and four for each warning.
ServersInv ==
  /\ valid \in Nat \ {0} /\ available \in Nat
  /\ counter \in 0..3 /\ warned \in Nat /\ row = 4 * warned + counter
  /\ place \in {"start", "update", "choose", "chosen", "idle"}
  /\ place # "start" => \A k \in 1..valid : ip[k] \in Legal
  /\ Chooses => /\ tries \in 0..valid /\ steady \subseteq up
                /\ \A j \in 0..tries - 1 : ip[((j + available) % valid) + 1] \notin steady
  /\ place = "chosen" => fd = ip[available + 1]

LEMMA ServersBegin == Edge!ServersInit => ServersInv
  BY DEF Edge!ServersInit, ServersInv, Chooses

LEMMA ServersFound == ServersInv => Edge!ServerFound
<1> SUFFICES ASSUME ServersInv PROVE Edge!ServerFound
  OBVIOUS
<1>1. place = "choose" /\ tries = valid => \A k \in 1..valid : ip[k] \notin steady
  <2> SUFFICES ASSUME place = "choose", tries = valid, NEW k \in 1..valid PROVE ip[k] \notin steady
    OBVIOUS
  <2>1. PICK j \in 0..valid - 1 : ((j + available) % valid) + 1 = k
    BY AllTried DEF ServersInv
  <2> QED
    BY <2>1 DEF ServersInv, Chooses
<1>2. warned = row \div 4
  BY DEF ServersInv
<1> QED
  BY <1>1, <1>2 DEF Edge!ServerFound, ServersInv

\* An address list without a bad address is legal to its end.
LEMMA GoodIs ==
  ASSUME NEW s \in Seq(Legal \cup Illegal), Legal \cap Illegal = {}, Edge!Good(s) = Len(s)
  PROVE  \A k \in 1..Len(s) : s[k] \in Legal
<1>1. DOMAIN s = 1..Len(s) /\ Len(s) \in Nat /\ \A k \in 1..Len(s) : s[k] \in Legal \cup Illegal
  BY LenProperties, ElementOfSeq
<1> DEFINE B == {k \in 1..Len(s) : s[k] \in Illegal}
<1>2. ASSUME B # {} PROVE FALSE
  <2>1. PICK m \in B : \A k \in B : m <= k
    <3>1. B \in SUBSET Nat
      BY <1>1
    <3> HIDE DEF B
    <3> QED
      BY <1>2, <3>1, Lowest
  <2>2. \A j \in 1..m - 1 : s[j] \in Legal
    BY <1>1, <2>1
  <2> DEFINE c == CHOOSE k \in DOMAIN s : s[k] \in Illegal /\ \A j \in 1..k - 1 : s[j] \in Legal
  <2>3. c \in DOMAIN s
    BY <1>1, <2>1, <2>2
  <2>4. \E k \in DOMAIN s : s[k] \in Illegal
    BY <1>1, <2>1
  <2>5. Edge!Good(s) = c - 1
    BY <2>4 DEF Edge!Good
  <2> HIDE DEF c
  <2> QED
    BY <1>1, <2>3, <2>5
<1> QED
  BY <1>1, <1>2

LEMMA DaemonServers ==
  ASSUME DaemonAssumption, ServersInv, NEW s \in Addresses, NEW warn \in BOOLEAN, Edge!Daemon(s, warn)
  PROVE  ServersInv'
<1>1. s \in Seq(Legal \cup Illegal) /\ Legal \cap Illegal = {}
  BY DEF DaemonAssumption
<1>2. place = "start" /\ UNCHANGED <<available, counter, row, warned>>
  BY DEF Edge!Daemon, Edge!hist
<1>3. CASE s # <<>> /\ Edge!Good(s) = Len(s)
  <2>1. ip' = Edge!Over(s, Len(s)) /\ valid' = Len(s) /\ place' = "update"
    BY <1>3 DEF Edge!Daemon
  <2>2. Len(s) \in Nat \ {0}
    BY <1>1, <1>3, EmptySeq
  <2>3. \A k \in 1..Len(s) : s[k] \in Legal
    BY <1>1, <1>3, GoodIs
  <2>4. \A k \in 1..Len(s) : ip'[k] = s[k]
    <3>1. ip' = [k \in 1..(IF Len(s) > Len(ip) THEN Len(s) ELSE Len(ip)) |-> IF k <= Len(s) THEN s[k] ELSE ip[k]]
      BY <2>1 DEF Edge!Over
    <3> QED
      BY <2>2, <3>1
  <2> QED
    BY <1>2, <2>1, <2>2, <2>3, <2>4 DEF ServersInv, Chooses
<1>4. CASE ~(s # <<>> /\ Edge!Good(s) = Len(s))
  <2>1. UNCHANGED <<valid, place>>
    BY <1>4 DEF Edge!Daemon
  <2> QED
    BY <1>2, <2>1 DEF ServersInv, Chooses
<1> QED
  BY <1>3, <1>4

LEMMA ServersStep == ASSUME DaemonAssumption, ServersInv, Edge!ServersNext PROVE ServersInv'
<1>1. ASSUME NEW s \in Addresses, NEW warn \in BOOLEAN, Edge!Daemon(s, warn) PROVE ServersInv'
  BY <1>1, DaemonServers
<1>2. CASE Edge!Update
  BY <1>2 DEF Edge!Update, Edge!conf, Edge!hist, ServersInv, Chooses
<1>3. CASE Edge!Connect
  <2>1. /\ place = "choose" /\ tries < valid /\ UNCHANGED <<ip, valid, counter, up, steady, row, warned>>
        /\ tries \in 0..valid /\ valid \in Nat \ {0} /\ available \in Nat
    BY <1>3 DEF Edge!Connect, Edge!conf, Edge!hist, ServersInv, Chooses
  <2> DEFINE f == (tries + available) % valid
  <2>2. f \in 0..valid - 1
    BY <2>1
  <2>3. CASE ip[f + 1] \in up
    <3>1. available' = f /\ fd' = ip[f + 1] /\ place' = "chosen"
      BY <1>3, <2>3 DEF Edge!Connect, Edge!Flag
    <3> QED
      BY <2>1, <2>2, <3>1 DEF ServersInv, Chooses
  <2>4. CASE ip[f + 1] \notin up
    <3>1. tries' = tries + 1 /\ UNCHANGED <<available, fd, place>>
      BY <1>3, <2>4 DEF Edge!Connect, Edge!Flag
    <3>2. \A j \in 0..tries' - 1 : ip[((j + available) % valid) + 1] \notin steady
      <4> SUFFICES ASSUME NEW j \in 0..tries' - 1 PROVE ip[((j + available) % valid) + 1] \notin steady
        OBVIOUS
      <4>1. j \in 0..tries - 1 \/ j = tries
        BY <2>1, <3>1
      <4> QED
        BY <2>1, <2>4, <4>1 DEF ServersInv, Chooses
    <3>3. tries' \in 0..valid
      BY <2>1, <3>1
    <3> HIDE DEF f
    <3> QED
      BY <2>1, <3>1, <3>2, <3>3 DEF ServersInv, Chooses
  <2> QED
    BY <2>3, <2>4
<1>4. CASE Edge!Chosen
  BY <1>4 DEF Edge!Chosen, Edge!Ends, Edge!conf, ServersInv, Chooses
<1>5. CASE Edge!NoneAnswers
  <2>1. /\ place' \in {"idle", "start"} /\ UNCHANGED <<ip, valid, available>> /\ place = "choose"
        /\ counter' = IF Edge!Warns THEN 0 ELSE IF warns THEN counter + 1 ELSE counter
        /\ row' = IF warns THEN row + 1 ELSE row
        /\ warned' = IF Edge!Warns THEN warned + 1 ELSE warned
    BY <1>5 DEF Edge!NoneAnswers, Edge!Ends, Edge!conf
  <2>2. counter' \in 0..3 /\ warned' \in Nat /\ row' = 4 * warned' + counter'
    BY <2>1 DEF Edge!Warns, ServersInv
  <2> QED
    BY <2>1, <2>2 DEF ServersInv, Chooses
<1>6. ASSUME NEW s \in Legal, Edge!ServerTurns(s) PROVE ServersInv'
  BY <1>6 DEF Edge!ServerTurns, Edge!conf, Edge!hist, ServersInv, Chooses
<1>7. ASSUME NEW S \in SUBSET Legal, Edge!ServersTurn(S) PROVE ServersInv'
  BY <1>7 DEF Edge!ServersTurn, Edge!conf, Edge!hist, ServersInv, Chooses
<1> QED
  BY <1>1, <1>2, <1>3, <1>4, <1>5, <1>6, <1>7 DEF Edge!ServersNext

---------------------------------------------------------------------------
(* The lines of the dictionary's file (tm_dirty_load_new). *)

IsFile == file \in Seq(STRING)

LEMMA FileLen == IsFile => Len(file) \in Nat /\ \A j \in 1..Len(file) : file[j] \in STRING
  BY LenProperties, ElementOfSeq DEF IsFile

LEMMA EdgeCard == \A S : Edge!Cardinality(S) = Cardinality(S)
  BY Zenon DEF Edge!Cardinality, Cardinality

\* Where a run of the signs in S ends.
RunEnds(S, k, n) ==
  /\ n \in k..Len(file) + 1
  /\ \A j \in k..n - 1 : file[j] \in S
  /\ n <= Len(file) => file[n] \notin S

LEMMA PastIs ==
  ASSUME IsFile, NEW S, NEW k \in 1..Len(file) + 1
  PROVE  RunEnds(S, k, Edge!Past(S, k))
<1> DEFINE T == {n \in k..Len(file) + 1 : n = Len(file) + 1 \/ file[n] \notin S}
<1>1. Len(file) \in Nat
  BY FileLen
<1>2. PICK m \in T : \A n \in T : m <= n
  <2>1. T \in SUBSET Nat /\ Len(file) + 1 \in T
    BY <1>1
  <2> HIDE DEF T
  <2> QED
    BY <2>1, Lowest
<1>3. m \in k..Len(file) + 1 /\ (m <= Len(file) => file[m] \notin S)
  BY <1>1
<1>4. \A j \in k..m - 1 : file[j] \in S
  <2> SUFFICES ASSUME NEW j \in k..m - 1, file[j] \notin S PROVE FALSE
    OBVIOUS
  <2>1. j \in T /\ j < m /\ j \in Int /\ m \in Int
    BY <1>1, <1>3
  <2> HIDE DEF T
  <2>2. m <= j
    BY <1>2, <2>1
  <2> QED
    BY <2>1, <2>2
<1> QED
  BY <1>3, <1>4 DEF Edge!Past, RunEnds

\* In a file that ends, a line does, and so do the blanks of one.
LEMMA LineEnds ==
  ASSUME IsFile, Edge!Ended, NEW k \in 1..Len(file)
  PROVE  LET n == Edge!Past(Edge!NotNewline, k)
         IN  n \in k..Len(file) /\ file[n] = "nl" /\ \A j \in k..n - 1 : file[j] # "nl"
<1> DEFINE n == Edge!Past(Edge!NotNewline, k)
<1>1. Len(file) \in Nat /\ file[Len(file)] = "nl"
  BY FileLen DEF Edge!Ended, Edge!Last, Edge!Newline
<1>2. RunEnds(Edge!NotNewline, k, n)
  BY <1>1, PastIs
<1> HIDE DEF n
<1>3. \A j \in 1..Len(file) : file[j] \in Edge!NotNewline <=> file[j] # "nl"
  BY DEF Edge!NotNewline, Edge!Newline
<1>4. n # Len(file) + 1
  <2> SUFFICES ASSUME n = Len(file) + 1 PROVE FALSE
    OBVIOUS
  <2>1. Len(file) \in k..n - 1 /\ Len(file) \in 1..Len(file)
    BY <1>1
  <2> QED
    BY <1>1, <1>2, <1>3, <2>1 DEF RunEnds
<1>5. n \in k..Len(file)
  BY <1>1, <1>2, <1>4 DEF RunEnds
<1>6. n \in 1..Len(file) /\ \A j \in k..n - 1 : j \in 1..Len(file)
  BY <1>1, <1>5
<1>7. file[n] = "nl" /\ \A j \in k..n - 1 : file[j] # "nl"
  BY <1>1, <1>2, <1>3, <1>5, <1>6 DEF RunEnds
<1> QED
  BY <1>5, <1>7 DEF n

LEMMA BlanksEnd ==
  ASSUME IsFile, Edge!Ended, NEW k \in 1..Len(file)
  PROVE  LET n == Edge!Past(Edge!Blanks, k)
         IN  n \in k..Len(file) /\ file[n] \notin Edge!Blanks /\ \A j \in k..n - 1 : file[j] \in Edge!Blanks
<1> DEFINE n == Edge!Past(Edge!Blanks, k)
<1>1. Len(file) \in Nat /\ file[Len(file)] = "nl"
  BY FileLen DEF Edge!Ended, Edge!Last, Edge!Newline
<1>2. RunEnds(Edge!Blanks, k, n)
  BY <1>1, PastIs
<1> HIDE DEF n
<1>3. "nl" \notin Edge!Blanks
  BY DEF Edge!Blanks
<1>4. n # Len(file) + 1
  <2> SUFFICES ASSUME n = Len(file) + 1 PROVE FALSE
    OBVIOUS
  <2>1. Len(file) \in k..n - 1
    BY <1>1
  <2> QED
    BY <1>1, <1>2, <1>3, <2>1 DEF RunEnds
<1>5. n \in k..Len(file)
  BY <1>1, <1>2, <1>4 DEF RunEnds
<1>6. file[n] \notin Edge!Blanks /\ \A j \in k..n - 1 : file[j] \in Edge!Blanks
  BY <1>1, <1>2, <1>5 DEF RunEnds
<1> QED
  BY <1>5, <1>6 DEF n

---------------------------------------------------------------------------
(* Where the words begin. *)

\* p signs have been read, the last of them of the blanks a line begins with.
Margin(p) == \E s \in Edge!Starts : s <= p + 1 /\ \A j \in s..p : file[j] \in Edge!Blanks

LEMMA StartIs ==
  ASSUME IsFile, NEW p \in 0..Len(file) - 1, Margin(p), Edge!Letter(p + 1), file[p + 1] # "#"
  PROVE  p + 1 \in Edge!WordStarts
<1>1. PICK s \in Edge!Starts : s <= p + 1 /\ \A j \in s..p : file[j] \in Edge!Blanks
  BY DEF Margin
<1>2. p + 1 \in 1..Len(file) /\ (p + 1) - 1 = p
  BY FileLen
<1> QED
  BY <1>1, <1>2 DEF Edge!WordStarts

\* Behind a sign that is not a blank, none begins before the line's end.
LEMMA NoStart ==
  ASSUME IsFile, NEW p \in 1..Len(file), file[p] \notin Edge!Blanks,
         NEW k \in p + 1..Len(file), \A j \in p..k - 1 : file[j] # "nl"
  PROVE  k \notin Edge!WordStarts
<1> SUFFICES ASSUME k \in Edge!WordStarts PROVE FALSE
  OBVIOUS
<1>1. PICK s \in Edge!Starts : s <= k /\ \A j \in s..k - 1 : file[j] \in Edge!Blanks
  BY DEF Edge!WordStarts
<1>2. s \in 1..Len(file) /\ (s = 1 \/ file[s - 1] = "nl") /\ Len(file) \in Nat
  BY FileLen DEF Edge!Starts, Edge!Newline
<1>3. CASE s <= p
  <2>1. p \in s..k - 1
    BY <1>2, <1>3
  <2> QED
    BY <1>1, <2>1
<1>4. CASE s > p
  <2>1. s - 1 \in p..k - 1 /\ s # 1
    BY <1>1, <1>2, <1>4
  <2> QED
    BY <1>2, <2>1
<1> QED
  BY <1>2, <1>3, <1>4

LEMMA NotLetter == \A k \in Edge!WordStarts : file[k] \notin Edge!Blanks /\ file[k] # "nl" /\ file[k] # "#"
  BY DEF Edge!WordStarts, Edge!Letter, Edge!Newline

---------------------------------------------------------------------------
(* How many words begin up to a place. *)

Upto(p) == {j \in Edge!WordStarts : j <= p}

LEMMA RankIs == \A k : Edge!Rank(k) = Cardinality(Upto(k))
  BY EdgeCard DEF Edge!Rank, Upto

LEMMA RankType ==
  ASSUME IsFile
  PROVE  /\ IsFiniteSet(Edge!WordStarts) /\ Cardinality(Edge!WordStarts) \in Nat
         /\ \A p : /\ IsFiniteSet(Upto(p)) /\ Edge!Rank(p) \in Nat
                   /\ Edge!Rank(p) <= Cardinality(Edge!WordStarts)
<1>1. Len(file) \in Nat
  BY FileLen
<1>2. IsFiniteSet(1..Len(file))
  BY <1>1, FS_Interval
<1>3. Edge!WordStarts \subseteq 1..Len(file)
  BY DEF Edge!WordStarts
<1>4. IsFiniteSet(Edge!WordStarts)
  BY <1>2, <1>3, FS_Subset
<1>5. ASSUME NEW p PROVE IsFiniteSet(Upto(p)) /\ Cardinality(Upto(p)) <= Cardinality(Edge!WordStarts)
  <2>1. Upto(p) \subseteq Edge!WordStarts
    BY DEF Upto
  <2> QED
    BY <1>4, <2>1, FS_Subset
<1> QED
  BY <1>4, <1>5, FS_CardinalityType, RankIs

LEMMA RankAll == ASSUME IsFile PROVE Edge!Rank(Len(file)) = Cardinality(Edge!WordStarts)
<1>1. Upto(Len(file)) = Edge!WordStarts
  BY FileLen DEF Upto, Edge!WordStarts
<1> QED
  BY <1>1, RankIs

\* Two places with no word between them have the same rank.
LEMMA RankSame ==
  ASSUME IsFile, NEW p \in Nat, NEW q \in Nat, p <= q, \A k \in p + 1..q : k \notin Edge!WordStarts
  PROVE  Edge!Rank(q) = Edge!Rank(p)
<1>1. Edge!WordStarts \subseteq 1..Len(file) /\ Len(file) \in Nat
  BY FileLen DEF Edge!WordStarts
<1>2. \A j \in Edge!WordStarts : j <= q => j <= p
  BY <1>1
<1>3. \A j \in Edge!WordStarts : j <= p => j <= q
  BY <1>1
<1>4. Upto(q) = Upto(p)
  BY <1>2, <1>3 DEF Upto
<1> QED
  BY <1>4, RankIs

LEMMA RankNext ==
  ASSUME IsFile, NEW p \in Nat, p + 1 \in Edge!WordStarts
  PROVE  Edge!Rank(p + 1) = Edge!Rank(p) + 1
<1>1. Edge!WordStarts \subseteq 1..Len(file) /\ Len(file) \in Nat
  BY FileLen DEF Edge!WordStarts
<1>2. Upto(p + 1) = Upto(p) \cup {p + 1} /\ p + 1 \notin Upto(p)
  <2>1. \A j \in Edge!WordStarts : j <= p + 1 <=> j <= p \/ j = p + 1
    BY <1>1
  <2>2. ~(p + 1 <= p)
    OBVIOUS
  <2> QED
    BY <2>1, <2>2 DEF Upto
<1>3. IsFiniteSet(Upto(p))
  BY RankType
<1> QED
  BY <1>2, <1>3, FS_AddElement, RankIs

LEMMA RankStrict ==
  ASSUME IsFile, NEW k \in Edge!WordStarts, NEW l \in Edge!WordStarts, Edge!Rank(k) = Edge!Rank(l)
  PROVE  k = l
<1>1. Edge!WordStarts \subseteq Nat
  BY FileLen DEF Edge!WordStarts
<1>2. ASSUME NEW a \in Edge!WordStarts, NEW b \in Edge!WordStarts, a < b PROVE Edge!Rank(a) # Edge!Rank(b)
  <2>1. Upto(a) \subseteq Upto(b) /\ b \in Upto(b) /\ b \notin Upto(a)
    <3>1. a \in Nat /\ b \in Nat
      BY <1>1
    <3>2. \A j \in Edge!WordStarts : j <= a => j <= b
      BY <1>1, <1>2, <3>1
    <3>3. b <= b /\ ~(b <= a)
      BY <1>2, <3>1
    <3> QED
      BY <3>2, <3>3 DEF Upto
  <2>2. IsFiniteSet(Upto(b))
    BY RankType
  <2> QED
    BY <2>1, <2>2, FS_Subset, RankIs
<1> QED
  BY <1>1, <1>2

---------------------------------------------------------------------------
(* The word a line gives is the one that begins there. *)

LEMMA SubSeqIs ==
  ASSUME IsFile, NEW m \in 1..Len(file) + 1, NEW n \in m - 1..Len(file)
  PROVE  /\ SubSeq(file, m, n) \in Seq(STRING) /\ Len(SubSeq(file, m, n)) = n - m + 1
         /\ \A j \in 1..n - m + 1 : SubSeq(file, m, n)[j] = file[m + j - 1]
<1>1. m \in Int /\ n \in Int /\ \A j \in m..n : file[j] \in STRING
  BY FileLen
<1> QED
  BY <1>1, SubSeqProperties

\* A start of a part of the file is a part of it.
LEMMA StartOf ==
  ASSUME IsFile, NEW m \in 1..Len(file), NEW n \in m..Len(file), NEW c \in 0..n - m + 1
  PROVE  SubSeq(SubSeq(file, m, n), 1, c) = SubSeq(file, m, m + c - 1)
<1>1. m \in Nat /\ n \in Nat /\ c \in Nat /\ Len(file) \in Nat /\ c <= n - m + 1
  BY FileLen
<1> DEFINE s == SubSeq(file, m, n)
           t == SubSeq(file, m, m + c - 1)
           u == SubSeq(s, 1, c)
<1>2. s \in Seq(STRING) /\ \A j \in 1..n - m + 1 : s[j] = file[m + j - 1] /\ s[j] \in STRING
  <2>1. s \in Seq(STRING) /\ Len(s) = n - m + 1 /\ \A j \in 1..n - m + 1 : s[j] = file[m + j - 1]
    BY <1>1, SubSeqIs
  <2> HIDE DEF s
  <2> QED
    BY <2>1, ElementOfSeq
<1>3. t \in Seq(STRING) /\ Len(t) = c /\ \A j \in 1..c : t[j] = file[m + j - 1]
  <2>1. m + c - 1 \in m - 1..Len(file) /\ (m + c - 1) - m + 1 = c /\ m \in 1..Len(file) + 1
    BY <1>1
  <2> DEFINE e == m + c - 1
  <2> HIDE DEF e
  <2>2. e \in m - 1..Len(file) /\ e - m + 1 = c
    BY <2>1 DEF e
  <2>3. /\ SubSeq(file, m, e) \in Seq(STRING) /\ Len(SubSeq(file, m, e)) = e - m + 1
        /\ \A j \in 1..e - m + 1 : SubSeq(file, m, e)[j] = file[m + j - 1]
    BY <2>1, <2>2, SubSeqIs
  <2> QED
    BY <2>2, <2>3 DEF e
<1> HIDE DEF s, t
<1>4. u \in Seq(STRING) /\ Len(u) = c /\ \A j \in 1..c : u[j] = s[j]
  <2>1. \A j \in 1..c : s[j] \in STRING
    BY <1>1, <1>2
  <2>2. /\ u \in Seq(STRING) /\ Len(u) = IF 1 <= c THEN c - 1 + 1 ELSE 0
        /\ \A j \in 1..c - 1 + 1 : u[j] = s[1 + j - 1]
    BY <1>1, <2>1, SubSeqProperties
  <2> HIDE DEF u
  <2> QED
    BY <1>1, <2>2
<1> HIDE DEF u
<1>5. ASSUME NEW j \in 1..c PROVE u[j] = t[j]
  <2>1. j \in 1..n - m + 1
    BY <1>1
  <2>2. u[j] = s[j] /\ s[j] = file[m + j - 1] /\ t[j] = file[m + j - 1]
    BY <1>2, <1>3, <1>4, <2>1
  <2> QED
    BY <2>2
<1>6. u = t
  BY <1>3, <1>4, <1>5, SeqEqual
<1> QED
  BY <1>6 DEF u, t, s

\* Where the word that begins at k stops.
StopsAt(k, n) == file[n] \in {"tab", "nl"} /\ \A j \in k..n - 1 : file[j] \notin {"tab", "nl"}

LEMMA StopIs ==
  ASSUME IsFile, NEW k \in 1..Len(file), NEW n \in k..Len(file), StopsAt(k, n)
  PROVE  Edge!Stop(k) = n
<1>1. Edge!Stop(k) = CHOOSE m \in k..Len(file) : StopsAt(k, m)
  BY DEF Edge!Stop, StopsAt, Edge!Newline
<1>2. \A m \in k..Len(file) : StopsAt(k, m) => m = n
  <2> SUFFICES ASSUME NEW m \in k..Len(file), StopsAt(k, m), m # n PROVE FALSE
    OBVIOUS
  <2>1. Len(file) \in Nat
    BY FileLen
  <2>2. m \in k..n - 1 \/ n \in k..m - 1
    BY <2>1
  <2> QED
    BY <2>2 DEF StopsAt
<1> QED
  BY <1>1, <1>2

LEMMA WordIs ==
  ASSUME IsFile, Edge!Ended, pos \in 0..Len(file) - 1, Edge!Char \notin Edge!Blanks \cup {"nl", "#"}
  PROVE  /\ Edge!Word(Edge!Line) = Edge!WordAt(pos + 1)
         /\ Edge!WordAt(pos + 1) \in Seq(STRING) /\ Edge!WordAt(pos + 1) # <<>>
         /\ \E n \in pos + 1..Len(file) :
              /\ pos + Len(Edge!Line) = n /\ file[n] = "nl" /\ \A j \in pos + 1..n - 1 : file[j] # "nl"
<1> DEFINE k == pos + 1
           n == Edge!Past(Edge!NotNewline, k)
<1>1. k \in 1..Len(file) /\ Len(file) \in Nat /\ k - 1 = pos
  BY FileLen
<1> HIDE DEF k
<1>2. n \in k..Len(file) /\ file[n] = "nl" /\ \A j \in k..n - 1 : file[j] # "nl"
  BY <1>1, LineEnds
<1>3. Edge!Line = SubSeq(file, k, n)
  BY <1>1, <1>2 DEF Edge!Line, k
<1>4. file[k] \notin {" ", "tab", "nl"}
  <2>1. Edge!Char = file[k]
    BY DEF Edge!Char, k
  <2>2. file[k] \notin Edge!Blanks /\ file[k] # "nl"
    BY <2>1
  <2> QED
    BY <2>2, Zenon DEF Edge!Blanks
<1> HIDE DEF n
<1> DEFINE l == SubSeq(file, k, n)
<1>5. l \in Seq(STRING) /\ Len(l) = n - k + 1 /\ \A j \in 1..n - k + 1 : l[j] = file[k + j - 1]
  BY <1>1, <1>2, SubSeqIs
<1>6. \A c \in 0..n - k + 1 : SubSeq(l, 1, c) = SubSeq(file, k, k + c - 1)
  BY <1>1, <1>2, StartOf
<1> HIDE DEF l
<1>7. PICK m \in k..n : StopsAt(k, m) /\ Edge!Word(l) = SubSeq(file, k, m - 1)
  <2>1. DOMAIN l = 1..Len(l) /\ Len(l) = n - k + 1 /\ n - k + 1 \in Nat \ {0}
    BY <1>1, <1>2, <1>5, LenProperties
  <2>2. CASE Edge!Contains(l, "tab")
    <3> DEFINE T == {j \in 1..Len(l) : l[j] = "tab"}
               IsC(j) == l[j] = "tab" /\ \A i \in 1..j - 1 : l[i] # "tab"
               c == CHOOSE j \in DOMAIN l : l[j] = "tab" /\ \A i \in 1..j - 1 : l[i] # "tab"
    <3>1. T # {} /\ T \in SUBSET Nat
      BY <2>1, <2>2 DEF Edge!Contains
    <3>2. PICK m \in T : \A j \in T : m <= j
      <4> HIDE DEF T
      <4> QED
        BY <3>1, Lowest
    <3>3. m \in DOMAIN l /\ IsC(m)
      <4>1. m \in 1..Len(l) /\ l[m] = "tab"
        OBVIOUS
      <4>2. \A i \in 1..m - 1 : l[i] # "tab"
        <5> SUFFICES ASSUME NEW i \in 1..m - 1, l[i] = "tab" PROVE FALSE
          OBVIOUS
        <5>1. i \in T /\ i < m /\ i \in Int /\ m \in Int
          BY <2>1
        <5> HIDE DEF T
        <5>2. m <= i
          BY <3>2, <5>1
        <5> QED
          BY <5>1, <5>2
      <4> QED
        BY <2>1, <4>1, <4>2
    <3>4. c \in DOMAIN l /\ IsC(c)
      BY <3>3
    <3>5. Edge!Word(l) = SubSeq(l, 1, c - 1)
      BY <2>2 DEF Edge!Word
    <3> HIDE DEF c, T
    <3>6. c \in 1..n - k + 1
      BY <2>1, <3>4
    <3>7. k + c - 1 \in k..n /\ (c - 1) \in 0..n - k + 1 /\ k + (c - 1) - 1 = (k + c - 1) - 1
      BY <1>1, <1>2, <3>6
    <3>8. Edge!Word(l) = SubSeq(file, k, (k + c - 1) - 1)
      BY <1>6, <3>5, <3>7
    <3>9. file[k + c - 1] = "tab"
      BY <1>5, <3>4, <3>6
    <3>10. \A j \in k..(k + c - 1) - 1 : file[j] \notin {"tab", "nl"}
      <4> SUFFICES ASSUME NEW j \in k..(k + c - 1) - 1 PROVE file[j] \notin {"tab", "nl"}
        OBVIOUS
      <4>1. j - k + 1 \in 1..c - 1 /\ j - k + 1 \in 1..n - k + 1 /\ k + (j - k + 1) - 1 = j /\ j \in k..n - 1
        BY <1>1, <1>2, <3>6
      <4>2. l[j - k + 1] # "tab"
        BY <3>4, <4>1
      <4>3. l[j - k + 1] = file[j]
        BY <1>5, <4>1
      <4> QED
        BY <1>2, <4>1, <4>2, <4>3
    <3>11. StopsAt(k, k + c - 1)
      BY <3>9, <3>10 DEF StopsAt
    <3> QED
      BY <3>7, <3>8, <3>11
  <2>3. CASE ~Edge!Contains(l, "tab")
    <3>1. Edge!Word(l) = SubSeq(l, 1, Len(l) - 1)
      BY <2>3 DEF Edge!Word, Edge!Front
    <3>2. Len(l) - 1 = n - k /\ n - k \in 0..n - k + 1 /\ k + (n - k) - 1 = n - 1 /\ n \in k..n
      BY <1>1, <1>2, <2>1
    <3>3. Edge!Word(l) = SubSeq(file, k, n - 1)
      BY <1>6, <3>1, <3>2
    <3>4. \A j \in k..n - 1 : file[j] \notin {"tab", "nl"}
      <4> SUFFICES ASSUME NEW j \in k..n - 1 PROVE file[j] \notin {"tab", "nl"}
        OBVIOUS
      <4>1. j - k + 1 \in 1..n - k + 1 /\ k + (j - k + 1) - 1 = j
        BY <1>1, <1>2
      <4>2. l[j - k + 1] # "tab"
        BY <2>1, <2>3, <4>1 DEF Edge!Contains
      <4>3. l[j - k + 1] = file[j]
        BY <1>5, <4>1
      <4> QED
        BY <1>2, <4>1, <4>2, <4>3
    <3> QED
      BY <1>2, <3>2, <3>3, <3>4 DEF StopsAt
  <2> QED
    BY <2>2, <2>3
<1>8. m \in k..Len(file) /\ m # k
  <2>1. m # k
    <3>1. file[m] \in {"tab", "nl"}
      BY <1>7 DEF StopsAt
    <3> QED
      BY <1>4, <3>1, Zenon
  <2> QED
    BY <1>1, <1>2, <1>7, <2>1
<1>9. Edge!WordAt(k) = SubSeq(file, k, m - 1)
  <2>1. Edge!Stop(k) = m
    BY <1>1, <1>7, <1>8, StopIs
  <2> QED
    BY <2>1 DEF Edge!WordAt
<1>10. SubSeq(file, k, m - 1) \in Seq(STRING) /\ SubSeq(file, k, m - 1) # <<>>
  <2>1. k \in 1..Len(file) + 1 /\ m - 1 \in k - 1..Len(file) /\ (m - 1) - k + 1 # 0
    BY <1>1, <1>8
  <2>2. SubSeq(file, k, m - 1) \in Seq(STRING) /\ Len(SubSeq(file, k, m - 1)) # 0
    BY <2>1, SubSeqIs
  <2> QED
    BY <2>2, EmptySeq
<1>11. pos + Len(Edge!Line) = n
  <2>1. Len(Edge!Line) = n - k + 1
    BY <1>3, <1>5 DEF l
  <2> QED
    BY <1>1, <1>2, <2>1
<1> QED
  BY <1>2, <1>3, <1>7, <1>9, <1>10, <1>11 DEF k, l

---------------------------------------------------------------------------
(* The reading of the file. *)

\* With p signs read in r rounds: each word taken is the one the file means there,
\* and all that begin so far are taken, unless there was no room for the last.
ReadTo(p, words, isFull, isDone, r) ==
  /\ p \in 0..Len(file) /\ r \in Nat /\ r <= p + 1 /\ (isDone \/ r <= p)
  /\ ~isDone /\ p < Len(file) => Margin(p)
  /\ words \in Seq(Seq(STRING))
  /\ \A n \in 1..Len(words) : \E k \in Edge!WordStarts : Edge!Rank(k) = n /\ words[n] = Edge!WordAt(k)
  /\ isFull \/ Len(words) = Edge!Rank(p)
  /\ isFull => isDone /\ Len(words) = MaxPatterns /\ Cardinality(Edge!WordStarts) > MaxPatterns
  /\ isDone /\ ~isFull => p = Len(file)

LinesInv == IsFile /\ (Edge!Ended => ReadTo(pos, taken, full, done, rounds))

\* No step writes the file.
LEMMA FileSame ==
  ASSUME file' = file
  PROVE  LinesInv' <=> IsFile /\ (Edge!Ended => ReadTo(pos', taken', full', done', rounds'))
<1>1. Edge!WordStarts' = Edge!WordStarts /\ Edge!Starts' = Edge!Starts /\ (Edge!Ended)' = Edge!Ended /\ IsFile' = IsFile
  BY DEF Edge!WordStarts, Edge!Starts, Edge!Ended, Edge!Letter, Edge!Last, IsFile
<1>2. \A k : Edge!WordAt(k)' = Edge!WordAt(k)
  BY DEF Edge!WordAt, Edge!Stop
<1>3. \A k : Edge!Rank(k)' = Edge!Rank(k)
  BY <1>1 DEF Edge!Rank
<1>4. \A p : Margin(p)' <=> Margin(p)
  BY <1>1 DEF Margin
<1>5. ReadTo(pos, taken, full, done, rounds)' <=> ReadTo(pos', taken', full', done', rounds')
  BY <1>1, <1>2, <1>3, <1>4 DEF ReadTo
<1> QED
  BY <1>1, <1>5 DEF LinesInv

LEMMA LinesBegin == ASSUME DaemonAssumption, Edge!LinesInit PROVE LinesInv
<1>1. /\ IsFile /\ pos = 0 /\ taken = <<>> /\ full = FALSE /\ done = FALSE /\ rounds = 0
  BY DEF DaemonAssumption, Edge!LinesInit, IsFile
<1>2. Len(file) \in Nat
  BY <1>1, FileLen
<1>3. 0 < Len(file) => Margin(0)
  <2> SUFFICES ASSUME 0 < Len(file) PROVE Margin(0)
    OBVIOUS
  <2>1. 1 \in Edge!Starts /\ 1 <= 0 + 1 /\ \A j \in 1..0 : FALSE
    BY <1>2 DEF Edge!Starts
  <2> QED
    BY <2>1 DEF Margin
<1>4. Edge!Rank(0) = 0
  <2>1. Upto(0) = {}
    BY <1>2 DEF Upto, Edge!WordStarts
  <2> QED
    BY <2>1, RankIs, FS_EmptySet
<1>5. taken \in Seq(Seq(STRING)) /\ Len(taken) = 0
  BY <1>1, EmptySeq
<1>6. ReadTo(pos, taken, full, done, rounds)
  BY <1>1, <1>2, <1>3, <1>4, <1>5 DEF ReadTo
<1> QED
  BY <1>1, <1>6 DEF LinesInv

\* A round that takes no word and passes none.
LEMMA PassesOn ==
  ASSUME IsFile, NEW p \in Int, NEW words, NEW r \in Int, NEW f, NEW d, NEW e, ~f, ~d, ~e,
         ReadTo(p, words, f, d, r),
         NEW q \in p + 1..Len(file),
         \A k \in p + 1..q : k \notin Edge!WordStarts, q < Len(file) => Margin(q)
  PROVE  ReadTo(q, words, f, e, r + 1)
<1>1. p \in 0..Len(file) /\ Len(file) \in Nat /\ p \in Nat /\ q \in Nat /\ r \in Nat /\ r <= p
  BY FileLen DEF ReadTo
<1>2. Edge!Rank(q) = Edge!Rank(p)
  BY <1>1, RankSame
<1>3. q \in 0..Len(file) /\ r + 1 \in Nat /\ r + 1 <= q
  BY <1>1
<1>4. /\ words \in Seq(Seq(STRING))
      /\ \A n \in 1..Len(words) : \E k \in Edge!WordStarts : Edge!Rank(k) = n /\ words[n] = Edge!WordAt(k)
      /\ Len(words) = Edge!Rank(p)
  BY DEF ReadTo
<1>5. r + 1 <= q + 1
  BY <1>3
<1> QED
  BY <1>2, <1>3, <1>4, <1>5 DEF ReadTo

\* A line begins behind the end of another.
LEMMA NewMargin ==
  ASSUME IsFile, NEW n \in 1..Len(file) - 1, file[n] = "nl"
  PROVE  Margin(n)
<1>1. n + 1 \in 1..Len(file) /\ (n + 1) - 1 = n /\ \A j \in n + 1..n : FALSE
  BY FileLen
<1>2. n + 1 \in Edge!Starts
  BY <1>1 DEF Edge!Starts, Edge!Newline
<1> QED
  BY <1>1, <1>2 DEF Margin

\* What a line has behind its first sign that is not a blank begins no word.
LEMMA RestOfLine ==
  ASSUME IsFile, NEW p \in 1..Len(file), file[p] \notin Edge!Blanks,
         NEW n \in p..Len(file), file[n] = "nl", \A j \in p..n - 1 : file[j] # "nl"
  PROVE  \A k \in p + 1..n : k \notin Edge!WordStarts
<1> SUFFICES ASSUME NEW k \in p + 1..n PROVE k \notin Edge!WordStarts
  OBVIOUS
<1>1. k \in p + 1..Len(file) /\ \A j \in p..k - 1 : j \in p..n - 1
  BY FileLen
<1> QED
  BY <1>1, NoStart

LEMMA CommentStep ==
  ASSUME IsFile, Edge!Ended, ReadTo(pos, taken, full, done, rounds), Edge!SkipComment
  PROVE  ReadTo(pos', taken', full', done', rounds')
<1> DEFINE k == pos + 1
           n == Edge!Past(Edge!NotNewline, k)
<1>1. /\ ~done /\ rounds' = rounds + 1 /\ pos # Len(file) /\ file[k] = "#"
      /\ pos' = (IF n > Len(file) THEN Len(file) ELSE n) /\ done' = (n > Len(file))
      /\ UNCHANGED <<taken, full>>
  BY DEF Edge!SkipComment, Edge!Round, Edge!AtEnd, Edge!Char
<1>2. k \in 1..Len(file) /\ Len(file) \in Nat /\ pos \in Nat /\ rounds \in Nat /\ pos = k - 1
  BY <1>1, FileLen DEF ReadTo
<1> HIDE DEF k
<1>3. n \in k..Len(file) /\ file[n] = "nl" /\ \A j \in k..n - 1 : file[j] # "nl"
  BY <1>2, LineEnds
<1> HIDE DEF n
<1>4. pos' = n /\ ~done'
  <2>1. ~(n > Len(file))
    BY <1>2, <1>3
  <2>2. pos' = n
    BY <1>1, <2>1
  <2>3. ~done'
    BY <1>1, <2>1, Zenon
  <2> QED
    BY <2>2, <2>3
<1>5. file[k] \notin Edge!Blanks
  BY <1>1, Zenon DEF Edge!Blanks
<1>6. \A j \in k + 1..n : j \notin Edge!WordStarts
  BY <1>2, <1>3, <1>5, RestOfLine
<1>7. k \notin Edge!WordStarts
  BY <1>1, NotLetter
<1>8. \A j \in pos + 1..n : j \notin Edge!WordStarts
  <2> SUFFICES ASSUME NEW j \in pos + 1..n PROVE j \notin Edge!WordStarts
    OBVIOUS
  <2>1. j = k \/ j \in k + 1..n
    BY <1>2, <1>3
  <2> QED
    BY <1>6, <1>7, <2>1
<1>9. n < Len(file) => Margin(n)
  <2>1. n < Len(file) => n \in 1..Len(file) - 1
    BY <1>2, <1>3
  <2> QED
    BY <1>3, <2>1, NewMargin
<1>10. ~full
  BY <1>1 DEF ReadTo
<1>11. ReadTo(n, taken, full, done', rounds + 1)
  <2>1. n \in pos + 1..Len(file) /\ pos \in Int /\ rounds \in Int
    BY <1>2, <1>3
  <2> QED
    BY <1>1, <1>4, <1>8, <1>9, <1>10, <2>1, PassesOn
<1> QED
  BY <1>1, <1>4, <1>11

LEMMA BlanksStep ==
  ASSUME IsFile, Edge!Ended, ReadTo(pos, taken, full, done, rounds), Edge!SkipBlanks
  PROVE  ReadTo(pos', taken', full', done', rounds')
<1> DEFINE k == pos + 1
           n == Edge!Past(Edge!Blanks, k)
<1>1. /\ ~done /\ rounds' = rounds + 1 /\ pos # Len(file) /\ file[k] \in Edge!Blanks
      /\ pos' = (IF n > Len(file) THEN Len(file) - 1 ELSE n - 1)
      /\ UNCHANGED <<taken, full, done>>
  BY DEF Edge!SkipBlanks, Edge!Round, Edge!AtEnd, Edge!Char
<1>2. k \in 1..Len(file) /\ Len(file) \in Nat /\ pos \in Nat /\ rounds \in Nat /\ pos = k - 1 /\ Margin(pos)
  BY <1>1, FileLen DEF ReadTo
<1> HIDE DEF k
<1>3. n \in k..Len(file) /\ file[n] \notin Edge!Blanks /\ \A j \in k..n - 1 : file[j] \in Edge!Blanks
  BY <1>2, BlanksEnd
<1> HIDE DEF n
<1>4. pos' = n - 1
  <2>1. ~(n > Len(file))
    BY <1>2, <1>3
  <2> QED
    BY <1>1, <2>1
<1>5. n # k
  BY <1>1, <1>3
<1>6. \A j \in pos + 1..n - 1 : j \notin Edge!WordStarts
  BY <1>2, <1>3, NotLetter
<1>7. Margin(n - 1)
  <2>1. PICK s \in Edge!Starts : s <= pos + 1 /\ \A j \in s..pos : file[j] \in Edge!Blanks
    BY <1>2 DEF Margin
  <2>2. s \in Nat
    BY <1>2 DEF Edge!Starts
  <2>3. \A j \in s..n - 1 : j \in s..pos \/ j \in k..n - 1
    BY <1>2, <1>3, <2>2
  <2>4. s <= (n - 1) + 1
    BY <1>2, <1>3, <2>1, <2>2
  <2> QED
    BY <1>3, <2>1, <2>3, <2>4 DEF Margin
<1>8. ~full
  BY <1>1 DEF ReadTo
<1>9. ReadTo(n - 1, taken, full, done, rounds + 1)
  <2>1. n - 1 \in pos + 1..Len(file) /\ pos \in Int /\ rounds \in Int
    BY <1>2, <1>3, <1>5
  <2> QED
    BY <1>1, <1>6, <1>7, <1>8, <2>1, PassesOn
<1> QED
  BY <1>1, <1>4, <1>9

LEMMA NewlineStep ==
  ASSUME IsFile, Edge!Ended, ReadTo(pos, taken, full, done, rounds), Edge!SkipNewline
  PROVE  ReadTo(pos', taken', full', done', rounds')
<1> DEFINE k == pos + 1
<1>1. /\ ~done /\ rounds' = rounds + 1 /\ pos # Len(file) /\ file[k] = "nl" /\ pos' = k
      /\ UNCHANGED <<taken, full, done>>
  BY DEF Edge!SkipNewline, Edge!Round, Edge!AtEnd, Edge!Char, Edge!Newline
<1>2. k \in 1..Len(file) /\ Len(file) \in Nat /\ pos \in Nat /\ rounds \in Nat /\ pos = k - 1
  BY <1>1, FileLen DEF ReadTo
<1> HIDE DEF k
<1>3. \A j \in pos + 1..k : j \notin Edge!WordStarts
  BY <1>1, <1>2, NotLetter
<1>4. k < Len(file) => Margin(k)
  <2>1. k < Len(file) => k \in 1..Len(file) - 1
    BY <1>2
  <2> QED
    BY <1>1, <2>1, NewMargin
<1>5. ~full
  BY <1>1 DEF ReadTo
<1>6. ReadTo(k, taken, full, done, rounds + 1)
  <2>1. k \in pos + 1..Len(file) /\ pos \in Int /\ rounds \in Int
    BY <1>2
  <2> QED
    BY <1>1, <1>3, <1>4, <1>5, <2>1, PassesOn
<1> QED
  BY <1>1, <1>6

LEMMA EndStep ==
  ASSUME IsFile, Edge!Ended, ReadTo(pos, taken, full, done, rounds), Edge!End
  PROVE  ReadTo(pos', taken', full', done', rounds')
<1>1. ~done /\ pos = Len(file) /\ done' /\ rounds' = rounds + 1 /\ UNCHANGED <<pos, taken, full>>
  BY DEF Edge!End, Edge!Round, Edge!AtEnd
<1>2. rounds \in Nat /\ pos \in Nat /\ rounds <= pos /\ ~full
  BY <1>1, FileLen DEF ReadTo
<1>3. rounds + 1 \in Nat /\ rounds + 1 <= pos + 1
  BY <1>2
<1> QED
  BY <1>1, <1>2, <1>3 DEF ReadTo

---------------------------------------------------------------------------
(* A line with a word. *)

LEMMA TakeStep ==
  ASSUME IsFile, Edge!Ended, ReadTo(pos, taken, full, done, rounds), Edge!TakeLine
  PROVE  ReadTo(pos', taken', full', done', rounds')
<1> DEFINE k == pos + 1
           w == Edge!WordAt(k)
<1>1. /\ ~done /\ rounds' = rounds + 1 /\ pos # Len(file) /\ pos' = pos + Len(Edge!Line)
      /\ Edge!Char \notin Edge!Blanks \cup {"nl", "#"} /\ file[k] = Edge!Char
  BY DEF Edge!TakeLine, Edge!Round, Edge!AtEnd, Edge!Char, Edge!Newline
<1>2. k \in 1..Len(file) /\ Len(file) \in Nat /\ pos \in Nat /\ rounds \in Nat /\ pos = k - 1 /\ rounds <= pos
  BY <1>1, FileLen DEF ReadTo
<1>3. pos \in 0..Len(file) - 1
  BY <1>2
<1>4. Edge!Word(Edge!Line) = w /\ w \in Seq(STRING) /\ w # <<>>
  BY <1>1, <1>3, WordIs
<1>5. PICK n \in k..Len(file) : pos' = n /\ file[n] = "nl" /\ \A j \in k..n - 1 : file[j] # "nl"
  BY <1>1, <1>3, WordIs
<1>6. k \in Edge!WordStarts
  <2>1. Margin(pos)
    BY <1>1, <1>3 DEF ReadTo
  <2>2. Edge!Letter(pos + 1) /\ file[pos + 1] # "#"
    BY <1>1 DEF Edge!Letter, Edge!Newline
  <2> QED
    BY <1>3, <2>1, <2>2, StartIs
<1>7. Edge!Rank(k) = Edge!Rank(pos) + 1 /\ Edge!Rank(pos) \in Nat
  BY <1>2, <1>6, RankNext, RankType
<1> HIDE DEF k, w
<1>8. Edge!Rank(n) = Edge!Rank(k)
  <2>1. file[k] \notin Edge!Blanks
    BY <1>1
  <2>2. \A j \in k + 1..n : j \notin Edge!WordStarts
    BY <1>2, <1>5, <2>1, RestOfLine
  <2>3. k \in Nat /\ n \in Nat /\ k <= n
    BY <1>2, <1>5
  <2> QED
    BY <2>2, <2>3, RankSame
<1>9. n < Len(file) => Margin(n)
  <2>1. n < Len(file) => n \in 1..Len(file) - 1
    BY <1>2, <1>5
  <2> QED
    BY <1>5, <2>1, NewMargin
<1>10. n \in 0..Len(file) /\ rounds + 1 \in Nat /\ rounds + 1 <= n /\ rounds + 1 <= n + 1
  BY <1>2, <1>5
<1>11. /\ taken \in Seq(Seq(STRING)) /\ Len(taken) = Edge!Rank(pos) /\ ~full
       /\ \A m \in 1..Len(taken) : \E j \in Edge!WordStarts : Edge!Rank(j) = m /\ taken[m] = Edge!WordAt(j)
  BY <1>1 DEF ReadTo
<1>12. CASE Len(taken) = MaxPatterns
  <2>1. full' /\ done' /\ taken' = taken
    BY <1>4, <1>12 DEF Edge!TakeLine
  <2>2. Cardinality(Edge!WordStarts) > MaxPatterns
    <3>1. Edge!Rank(k) <= Cardinality(Edge!WordStarts) /\ Cardinality(Edge!WordStarts) \in Nat
      BY RankType
    <3> QED
      BY <1>7, <1>11, <1>12, <3>1
  <2>3. ReadTo(n, taken, full', done', rounds + 1)
    BY <1>10, <1>11, <1>12, <2>1, <2>2 DEF ReadTo
  <2> QED
    BY <1>1, <1>5, <2>1, <2>3
<1>13. CASE Len(taken) # MaxPatterns
  <2>1. taken' = Append(taken, w) /\ full' = full /\ done' = (pos' = Len(file) /\ file[pos'] # "nl")
    BY <1>4, <1>13 DEF Edge!TakeLine, Edge!Newline
  <2>2. ~done' /\ ~full'
    <3>1. ~(pos' = Len(file) /\ file[pos'] # "nl")
      BY <1>5
    <3> QED
      BY <1>11, <2>1, <3>1, Zenon
  <2> DEFINE t == Append(taken, w)
  <2>3. t \in Seq(Seq(STRING)) /\ Len(t) = Len(taken) + 1 /\ Len(taken) \in Nat
        /\ t[Len(taken) + 1] = w /\ \A m \in 1..Len(taken) : t[m] = taken[m]
    BY <1>4, <1>11, LenProperties
  <2> HIDE DEF t
  <2>4. Len(t) = Edge!Rank(n)
    BY <1>7, <1>8, <1>11, <2>3
  <2>5. ASSUME NEW m \in 1..Len(t)
        PROVE  \E j \in Edge!WordStarts : Edge!Rank(j) = m /\ t[m] = Edge!WordAt(j)
    <3>1. m \in 1..Len(taken) \/ m = Len(taken) + 1
      BY <2>3
    <3>2. CASE m \in 1..Len(taken)
      BY <1>11, <2>3, <3>2
    <3>3. CASE m = Len(taken) + 1
      <4>1. Edge!Rank(k) = m /\ t[m] = Edge!WordAt(k)
        BY <1>7, <1>11, <2>3, <3>3 DEF w
      <4> QED
        BY <1>6, <4>1
    <3> QED
      BY <3>1, <3>2, <3>3
  <2>6. ReadTo(n, t, full', done', rounds + 1)
    BY <1>9, <1>10, <2>2, <2>3, <2>4, <2>5 DEF ReadTo
  <2> QED
    BY <1>1, <1>5, <2>1, <2>6 DEF t
<1> QED
  BY <1>12, <1>13

LEMMA LinesStep == ASSUME LinesInv, Edge!LinesNext PROVE LinesInv'
<1>1. IsFile /\ (Edge!Ended => ReadTo(pos, taken, full, done, rounds))
  BY DEF LinesInv
<1>2. file' = file
  BY DEF Edge!LinesNext, Edge!End, Edge!SkipComment, Edge!SkipBlanks, Edge!SkipNewline, Edge!TakeLine
<1>3. ASSUME Edge!Ended PROVE ReadTo(pos', taken', full', done', rounds')
  BY <1>1, <1>3, EndStep, CommentStep, BlanksStep, NewlineStep, TakeStep DEF Edge!LinesNext
<1> QED
  BY <1>1, <1>2, <1>3, FileSame

\* The word of each rank is the one that begins there.
LEMMA MeantIs ==
  ASSUME IsFile
  PROVE  /\ Len(Edge!Meant) = Cardinality(Edge!WordStarts)
         /\ \A k \in Edge!WordStarts :
              Edge!Rank(k) \in 1..Cardinality(Edge!WordStarts) => Edge!Meant[Edge!Rank(k)] = Edge!WordAt(k)
<1> DEFINE c == Cardinality(Edge!WordStarts)
           P(n) == CHOOSE k \in Edge!WordStarts : Edge!Rank(k) = n
           M == [n \in 1..c |-> Edge!WordAt(P(n))]
           S == {M[n] : n \in 1..c}
<1>1. Edge!Meant = M
  BY EdgeCard DEF Edge!Meant
<1>2. c \in Nat
  BY RankType
<1> HIDE DEF c
<1>3. M \in [1..c -> S]
  OBVIOUS
<1>4. Len(M) = c
  <2> HIDE DEF M, S
  <2> QED
    BY <1>2, <1>3
<1>5. ASSUME NEW k \in Edge!WordStarts, Edge!Rank(k) \in 1..c PROVE M[Edge!Rank(k)] = Edge!WordAt(k)
  <2>1. P(Edge!Rank(k)) = k
    <3>1. \A j \in Edge!WordStarts : Edge!Rank(j) = Edge!Rank(k) => j = k
      BY RankStrict
    <3> QED
      BY <3>1
  <2> HIDE DEF P
  <2> QED
    BY <1>5, <2>1
<1> HIDE DEF M
<1> QED
  BY <1>1, <1>4, <1>5 DEF c

\* What is taken in the end are the first of the words that are meant.
LEMMA LinesFound == LinesInv => Edge!LinesRead
<1> SUFFICES ASSUME LinesInv, Edge!Ended
             PROVE  /\ rounds <= Len(file) + 1
                    /\ done => taken = SubSeq(Edge!Meant, 1, IF full THEN MaxPatterns ELSE Len(Edge!Meant))
                    /\ full => Len(Edge!Meant) > MaxPatterns
  BY DEF Edge!LinesRead
<1> DEFINE c == Cardinality(Edge!WordStarts)
<1>1. IsFile /\ ReadTo(pos, taken, full, done, rounds)
  BY DEF LinesInv
<1>2. Len(file) \in Nat /\ c \in Nat /\ Len(Edge!Meant) = c
  BY <1>1, FileLen, RankType, MeantIs
<1>3. rounds <= Len(file) + 1
  BY <1>1, <1>2 DEF ReadTo
<1>4. full => c > MaxPatterns /\ Len(taken) = MaxPatterns
  BY <1>1 DEF ReadTo
<1>5. done /\ ~full => Len(taken) = c
  <2> SUFFICES ASSUME done, ~full PROVE Len(taken) = c
    OBVIOUS
  <2>1. pos = Len(file) /\ Len(taken) = Edge!Rank(pos)
    BY <1>1 DEF ReadTo
  <2> QED
    BY <1>1, <2>1, RankAll
<1>6. taken \in Seq(Seq(STRING)) /\ Len(taken) \in Nat
  BY <1>1, LenProperties DEF ReadTo
<1>7. ASSUME done PROVE taken = SubSeq(Edge!Meant, 1, Len(taken))
  <2>1. Len(taken) <= c
    <3>1. Len(taken) <= c \/ (c > MaxPatterns /\ Len(taken) = MaxPatterns) \/ Len(taken) = c
      BY <1>4, <1>5, <1>7
    <3> QED
      BY <1>2, <1>6, <3>1
  <2>2. ASSUME NEW n \in 1..Len(taken) PROVE Edge!Meant[n] = taken[n] /\ taken[n] \in Seq(STRING)
    <3>1. PICK k \in Edge!WordStarts : Edge!Rank(k) = n /\ taken[n] = Edge!WordAt(k)
      BY <1>1 DEF ReadTo
    <3>2. n \in 1..c
      BY <1>2, <1>6, <2>1
    <3>3. Edge!Meant[n] = taken[n]
      BY <1>1, <3>1, <3>2, MeantIs
    <3>4. taken[n] \in Seq(STRING)
      BY <1>6, ElementOfSeq
    <3> QED
      BY <3>3, <3>4
  <2> DEFINE l == Len(taken)
             t == SubSeq(Edge!Meant, 1, l)
  <2> HIDE DEF l
  <2>3. /\ t \in Seq(Seq(STRING)) /\ Len(t) = IF 1 <= l THEN l - 1 + 1 ELSE 0
        /\ \A n \in 1..l - 1 + 1 : t[n] = Edge!Meant[1 + n - 1]
    <3>1. l \in Int /\ \A n \in 1..l : Edge!Meant[n] \in Seq(STRING)
      BY <1>6, <2>2 DEF l
    <3> QED
      BY <3>1, SubSeqProperties
  <2> HIDE DEF t
  <2>4. l \in Nat
    BY <1>6 DEF l
  <2>5. Len(t) = l /\ \A n \in 1..l : t[n] = Edge!Meant[n]
    BY <2>3, <2>4
  <2>6. \A n \in 1..l : t[n] = taken[n]
    BY <2>2, <2>5 DEF l
  <2>7. taken = t
    BY <1>6, <2>3, <2>5, <2>6, SeqEqual DEF l
  <2> QED
    BY <2>7 DEF t, l
<1>8. ASSUME done PROVE Len(taken) = IF full THEN MaxPatterns ELSE Len(Edge!Meant)
  BY <1>2, <1>4, <1>5, <1>8
<1>9. full => Len(Edge!Meant) > MaxPatterns
  BY <1>2, <1>4
<1> QED
  BY <1>3, <1>7, <1>8, <1>9

---------------------------------------------------------------------------
(* The two ends of an update, each by itself and on the bench. *)

LEMMA LinesStill == ASSUME LinesInv, UNCHANGED lines PROVE LinesInv'
<1>1. file' = file /\ pos' = pos /\ taken' = taken /\ full' = full /\ done' = done /\ rounds' = rounds
  BY DEF lines
<1> QED
  BY <1>1, FileSame DEF LinesInv

LEMMA ServersStill == ASSUME ServersInv, UNCHANGED servers PROVE ServersInv'
  BY DEF servers, ServersInv, Chooses

\* A file that ends is read to its end, in no more rounds than it has characters and
\* one, and gives the words it means, as many as there is room for
\* (tm_dirty_load_new, tm_dirty.c:855).
THEOREM LinesReadAlways == Edge!LinesInit /\ [][Edge!LinesNext]_lines => []Edge!LinesRead
<1>1. Edge!LinesInit => LinesInv
  BY LinesBegin, DaemonAssumption
<1>2. LinesInv /\ [Edge!LinesNext]_lines => LinesInv'
  BY LinesStep, LinesStill
<1>3. LinesInv => Edge!LinesRead
  BY LinesFound
<1> QED
  BY <1>1, <1>2, <1>3, PTL

\* An update that ends without a server was refused by each address of the list that
\* is in use, and every fourth such update in a row warns
\* (tm_dirty_load_from_server, tm_dirty.c:345).
THEOREM ServerFoundAlways == Edge!ServersInit /\ [][Edge!ServersNext]_servers => []Edge!ServerFound
<1>1. Edge!ServersInit => ServersInv
  BY ServersBegin
<1>2. ServersInv /\ [Edge!ServersNext]_servers => ServersInv'
  BY ServersStep, ServersStill, DaemonAssumption
<1>3. ServersInv => Edge!ServerFound
  BY ServersFound
<1> QED
  BY <1>1, <1>2, <1>3, PTL

\* Both, of the bench that runs them beside an update: the words are found in the file
\* and a server that listens is (tm_dirty.c:855 and 345).
THEOREM BenchDictionaryAlways == MCSpec => []MCDictionaryFound
<1> DEFINE Inv == LinesInv /\ ServersInv
<1>1. MCInit => Inv
  BY LinesBegin, ServersBegin, DaemonAssumption DEF MCInit
<1>2. Inv /\ [MCNext]_<<vars, lines, servers, part>> => Inv'
  <2> SUFFICES ASSUME Inv, [MCNext]_<<vars, lines, servers, part>> PROVE Inv'
    OBVIOUS
  <2>1. /\ UNCHANGED lines \/ Edge!LinesNext
        /\ UNCHANGED servers \/ Edge!ServersNext
    BY DEF MCNext, UpdateStep
  <2>2. LinesInv'
    BY <2>1, LinesStep, LinesStill
  <2>3. ServersInv'
    BY <2>1, ServersStep, ServersStill, DaemonAssumption
  <2> QED
    BY <2>2, <2>3
<1>3. Inv => MCDictionaryFound
  BY LinesFound, ServersFound DEF MCDictionaryFound
<1> QED
  BY <1>1, <1>2, <1>3, PTL DEF MCSpec

\* Beside them the bench lets an update take its steps and no other.
LEMMA BenchIsUpdate == MCSpec => Spec
<1>1. MCInit => Init
  BY DEF MCInit
<1>2. [MCNext]_<<vars, lines, servers, part>> => [Next]_vars
  <2> SUFFICES ASSUME [MCNext]_<<vars, lines, servers, part>> PROVE [Next]_vars
    OBVIOUS
  <2> QED
    BY DEF MCNext, UpdateStep
<1> QED
  BY <1>1, <1>2, PTL DEF MCSpec, Spec

\* So what holds of an update holds on the bench: the file is whole, what is searched is
\* the dictionary in use (tm_dirty_load_from_server, tm_dirty.c:345).
THEOREM BenchUpdateAlways == MCSpec => []UpdateSound
BY BenchIsUpdate, UpdateSoundAlways, PTL
=============================================================================
