--------------------------- MODULE SegmentsProofs ---------------------------
(***************************************************************************)
(* Why get_shm hands out filled segments and no attachment is leaked: an   *)
(* inductive invariant of Segments, which relates the counts of the system *)
(* to the calls under way, and the theorems that rest on it; and why what  *)
(* is read of a mapped configuration is whole (CfgMmap).                   *)
(***************************************************************************)
EXTENDS MCSharedMemory, Sequences, FiniteSetTheorems, TLAPS

\* A segment that is gone is as none was; the key names one that is not, and
\* identifiers are given in turn.
Alive ==
  /\ \A i \in Ids : segs[i].data = "none" => segs[i] = Absent
  /\ \A i \in Ids : i >= nextId => segs[i] = Absent
  /\ key # NoSeg => Lives(key)

\* The system counts the attachments of managers and of calls on their way.
Counted == \A i \in Ids : segs[i].n = Holders(i)

\* What a manager knows of the segment it is attached to.
Managed(c) ==
  /\ mgr[c].shmid = mgr[c].shm
  /\ mgr[c].shm # NoSeg => Lives(mgr[c].shm) /\ mgr[c].size = segs[mgr[c].shm].size

\* What a call has found out.
InCall(c) ==
  /\ pc[c] \in {"create", "fill", "detach"} => call[c].op = "get"
  /\ pc[c] = "updated" => call[c].op = "update" /\ mgr[c].shm \in seen[c]
  /\ pc[c] \in {"attach", "fill", "detach"} => call[c].id \in Ids /\ call[c].id < nextId
  /\ pc[c] \in {"fill", "detach"} => Lives(call[c].id)
  /\ pc[c] \in {"attach", "fill"} /\ call[c].op = "get" /\ Lives(call[c].id) =>
       call[c].init = "yes" \/ segs[call[c].id].by = c
  /\ pc[c] \in {"info", "attach"} /\ call[c].op = "update" => key \in seen[c]
  /\ pc[c] = "attach" /\ call[c].op = "update" =>
       call[c].id \in seen[c] /\ (Lives(call[c].id) => call[c].size = segs[call[c].id].size)

\* A segment that nobody filled has a maker, who is on the way or gave up.
Made(i) ==
  segs[i].data = "zero" => segs[i].by \in Clients /\ (i \in unfilled \/ OnTheWay(segs[i].by, i))

IInv ==
  /\ TypeOK /\ Alive /\ Counted
  /\ \A c \in Clients : Managed(c) /\ InCall(c)
  /\ \A i \in Ids : Made(i)

---------------------------------------------------------------------------
(* The constants, and the helpers of the actions. *)

LEMMA TypesAre ==
  /\ Absent \in Segment /\ NoCall \in Call /\ Nothing \in Manager
  /\ NoSeg \notin Ids /\ NoSeg \notin Clients
  /\ \A i \in Ids : i \in Nat /\ i + 1 \in Nat /\ 1 <= i
  BY SegAssumption DEF SegAssumption, Segment, Call, Manager, Absent, NoCall, Nothing

\* Detached takes one attachment away, and the segment with the last.
LEMMA DetachedIs ==
  ASSUME NEW s \in [Ids -> Segment], NEW i \in Ids \cup {NoSeg}, i # NoSeg => s[i].n >= 1
  PROVE  /\ Detached(s, i) \in [Ids -> Segment]
         /\ \A j \in Ids : Detached(s, i)[j].n = IF j = i THEN s[j].n - 1 ELSE s[j].n
         /\ \A j \in Ids : \/ Detached(s, i)[j] = Absent /\ j = i /\ key # j /\ s[j].n = 1
                           \/ /\ Detached(s, i)[j].size = s[j].size /\ Detached(s, i)[j].by = s[j].by
                              /\ Detached(s, i)[j].data = s[j].data
<1> USE DEF Segment
<1>1. CASE i = NoSeg
  BY <1>1, TypesAre DEF Detached
<1>2. CASE i # NoSeg /\ s[i].n = 1 /\ key # i
  BY <1>2, TypesAre DEF Detached, Absent
<1>3. CASE i # NoSeg /\ ~(s[i].n = 1 /\ key # i)
  BY <1>3, TypesAre DEF Detached
<1> QED BY <1>1, <1>2, <1>3

LEMMA AttachedIs ==
  ASSUME NEW s \in [Ids -> Segment], NEW i \in Ids
  PROVE  /\ Attached(s, i) \in [Ids -> Segment]
         /\ \A j \in Ids : /\ Attached(s, i)[j].n = IF j = i THEN s[j].n + 1 ELSE s[j].n
                           /\ Attached(s, i)[j].size = s[j].size /\ Attached(s, i)[j].by = s[j].by
                           /\ Attached(s, i)[j].data = s[j].data
  BY DEF Attached, Segment

\* Finite sets, counted.
LEMMA HoldersAre ==
  ASSUME NEW i
  PROVE  /\ IsFiniteSet(Managers(i)) /\ Cardinality(Managers(i)) \in Nat
         /\ IsFiniteSet(Fillers(i)) /\ Cardinality(Fillers(i)) \in Nat
<1>1. Managers(i) \subseteq Clients /\ Fillers(i) \subseteq Clients
  BY DEF Managers, Fillers
<1> QED BY <1>1, SegAssumption, FS_Subset, FS_CardinalityType DEF SegAssumption

LEMMA Member ==
  ASSUME NEW S, IsFiniteSet(S), NEW x \in S
  PROVE  Cardinality(S) >= 1
<1>1. Cardinality(S) # 0 /\ Cardinality(S) \in Nat
  BY FS_EmptySet, FS_CardinalityType
<1> QED BY <1>1

\* Who holds a segment is counted in it.
LEMMA HolderCounts ==
  ASSUME TypeOK, Counted, NEW c \in Clients, NEW i \in Ids
  PROVE  /\ mgr[c].shm = i => segs[i].n >= 1
         /\ pc[c] \in {"fill", "detach"} /\ call[c].id = i => segs[i].n >= 1
         /\ mgr[c].shm = i /\ pc[c] \in {"fill", "detach"} /\ call[c].id = i => segs[i].n >= 2
<1>1. mgr[c].shm = i => Cardinality(Managers(i)) >= 1
  BY Member, HoldersAre DEF Managers
<1>2. pc[c] \in {"fill", "detach"} /\ call[c].id = i => Cardinality(Fillers(i)) >= 1
  BY Member, HoldersAre DEF Fillers
<1>3. segs[i].n = Cardinality(Managers(i)) + Cardinality(Fillers(i))
  BY DEF Counted, Holders
<1> QED BY <1>1, <1>2, <1>3, HoldersAre

---------------------------------------------------------------------------
(* The types. *)

LEMMA TypeInit == Init => TypeOK
<1> SUFFICES ASSUME Init PROVE TypeOK
  OBVIOUS
<1> QED BY TypesAre, SegAssumption DEF Init, TypeOK, SegAssumption

\* The two budgets only go down.
LEMMA SpendType ==
  ASSUME TypeOK, NEW what \in {"calls", "fails"}, Spend(what)
  PROVE  left' \in [calls : 0..MaxCalls, fails : 0..MaxFails]
  BY SegAssumption DEF TypeOK, Spend, SegAssumption

\* An exit gives back what the client was attached to.
LEMMA ExitIs ==
  ASSUME TypeOK, Counted, NEW c \in Clients, InCall(c), Exit(c)
  PROVE  LET busy == pc[c] \in {"fill", "detach"} IN
         /\ segs' \in [Ids -> Segment]
         /\ \A j \in Ids :
              /\ segs'[j].n = segs[j].n - (IF mgr[c].shm = j THEN 1 ELSE 0)
                                        - (IF busy /\ call[c].id = j THEN 1 ELSE 0)
              /\ \/ segs'[j] = Absent /\ key # j
                 \/ segs'[j].size = segs[j].size /\ segs'[j].by = segs[j].by /\ segs'[j].data = segs[j].data
<1> DEFINE busy == pc[c] \in {"fill", "detach"}
           s == IF busy THEN Detached(segs, call[c].id) ELSE segs
<1>0. segs \in [Ids -> Segment] /\ mgr[c].shm \in Ids \cup {NoSeg} /\ call[c].id \in Ids \cup {NoSeg}
  BY DEF TypeOK, Manager, Call
<1>1. busy => call[c].id \in Ids /\ segs[call[c].id].n >= 1
  BY HolderCounts DEF InCall
<1>2. /\ s \in [Ids -> Segment]
      /\ \A j \in Ids : /\ s[j].n = segs[j].n - (IF busy /\ call[c].id = j THEN 1 ELSE 0)
                        /\ \/ s[j] = Absent /\ key # j
                           \/ s[j].size = segs[j].size /\ s[j].by = segs[j].by /\ s[j].data = segs[j].data
  <2>0. \A j \in Ids : segs[j].n \in Nat
    BY <1>0 DEF Segment
  <2>1. CASE busy
    <3>1. /\ Detached(segs, call[c].id) \in [Ids -> Segment]
          /\ \A j \in Ids : Detached(segs, call[c].id)[j].n = IF j = call[c].id THEN segs[j].n - 1 ELSE segs[j].n
          /\ \A j \in Ids : \/ Detached(segs, call[c].id)[j] = Absent /\ key # j
                            \/ /\ Detached(segs, call[c].id)[j].size = segs[j].size
                               /\ Detached(segs, call[c].id)[j].by = segs[j].by
                               /\ Detached(segs, call[c].id)[j].data = segs[j].data
      BY <1>0, <1>1, <2>1, DetachedIs
    <3> QED BY <2>0, <2>1, <3>1
  <2>2. CASE ~busy
    BY <1>0, <2>0, <2>2
  <2> QED BY <2>1, <2>2
<1>3. mgr[c].shm # NoSeg => s[mgr[c].shm].n >= 1
  <2>1. ASSUME NEW i \in Ids, mgr[c].shm = i PROVE s[i].n >= 1
    <3>1. segs[i].n >= 1 /\ (busy /\ call[c].id = i => segs[i].n >= 2) /\ segs[i].n \in Nat
      BY <1>0, <2>1, HolderCounts DEF Segment
    <3> QED BY <1>2, <3>1
  <2> QED BY <1>0, <2>1
<1>4. segs' = Detached(s, mgr[c].shm)
  BY DEF Exit
<1> HIDE DEF s
<1>5. /\ segs' \in [Ids -> Segment]
      /\ \A j \in Ids : segs'[j].n = IF j = mgr[c].shm THEN s[j].n - 1 ELSE s[j].n
      /\ \A j \in Ids : \/ segs'[j] = Absent /\ key # j
                        \/ segs'[j].size = s[j].size /\ segs'[j].by = s[j].by /\ segs'[j].data = s[j].data
  BY <1>0, <1>2, <1>3, <1>4, DetachedIs
<1>6. \A j \in Ids : segs[j].n \in Nat /\ s[j].n \in Nat
  BY <1>0, <1>2 DEF Segment
<1>7. ASSUME NEW j \in Ids
      PROVE  /\ segs'[j].n = segs[j].n - (IF mgr[c].shm = j THEN 1 ELSE 0)
                                       - (IF busy /\ call[c].id = j THEN 1 ELSE 0)
             /\ \/ segs'[j] = Absent /\ key # j
                \/ segs'[j].size = segs[j].size /\ segs'[j].by = segs[j].by /\ segs'[j].data = segs[j].data
  <2>1. /\ s[j].n = segs[j].n - (IF busy /\ call[c].id = j THEN 1 ELSE 0)
        /\ segs'[j].n = IF j = mgr[c].shm THEN s[j].n - 1 ELSE s[j].n
        /\ mgr[c].shm = j => s[j].n >= 1
    BY <1>2, <1>3, <1>5, TypesAre
  <2>2. segs'[j].n = segs[j].n - (IF mgr[c].shm = j THEN 1 ELSE 0) - (IF busy /\ call[c].id = j THEN 1 ELSE 0)
    <3> HIDE DEF busy
    <3>1. CASE mgr[c].shm = j
      BY <1>6, <2>1, <3>1
    <3>2. CASE mgr[c].shm # j
      BY <1>6, <2>1, <3>2
    <3> QED BY <3>1, <3>2
  <2>3. ASSUME s[j] = Absent PROVE segs'[j] = Absent
    <3>1. /\ segs'[j].n = 0
          /\ segs'[j] = Absent \/ (segs'[j].size = 0 /\ segs'[j].by = NoSeg /\ segs'[j].data = "none")
      BY <1>5, <2>1, <2>3 DEF Absent
    <3> QED BY <1>5, <3>1 DEF Absent, Segment
  <2>4. \/ segs'[j] = Absent /\ key # j
        \/ segs'[j].size = segs[j].size /\ segs'[j].by = segs[j].by /\ segs'[j].data = segs[j].data
    <3> HIDE DEF busy
    <3>1. \/ segs'[j] = Absent /\ key # j
          \/ segs'[j].size = s[j].size /\ segs'[j].by = s[j].by /\ segs'[j].data = s[j].data
      BY <1>5
    <3>2. \/ s[j] = Absent /\ key # j
          \/ s[j].size = segs[j].size /\ s[j].by = segs[j].by /\ s[j].data = segs[j].data
      BY <1>2
    <3> QED BY <2>3, <3>1, <3>2
  <2> QED BY <2>2, <2>4
<1> QED BY <1>5, <1>7

\* A swap gives the manager the new segment for the old one.
LEMMA SwapIs ==
  ASSUME TypeOK, Counted, NEW c \in Clients, NEW id \in Ids, Swap(c, id)
  PROVE  /\ segs' \in [Ids -> Segment]
         /\ \A j \in Ids :
              /\ segs'[j].n = segs[j].n + (IF id = j THEN 1 ELSE 0) - (IF mgr[c].shm = j THEN 1 ELSE 0)
              /\ \/ segs'[j] = Absent /\ key # j /\ id # j
                 \/ segs'[j].size = segs[j].size /\ segs'[j].by = segs[j].by /\ segs'[j].data = segs[j].data
<1> DEFINE s == Attached(segs, id)
<1>0. segs \in [Ids -> Segment] /\ mgr[c].shm \in Ids \cup {NoSeg}
  BY DEF TypeOK, Manager
<1>1. /\ s \in [Ids -> Segment]
      /\ \A j \in Ids : /\ s[j].n = IF j = id THEN segs[j].n + 1 ELSE segs[j].n
                        /\ s[j].size = segs[j].size /\ s[j].by = segs[j].by /\ s[j].data = segs[j].data
  BY <1>0, AttachedIs
<1>2. \A j \in Ids : segs[j].n \in Nat /\ (mgr[c].shm = j => segs[j].n >= 1)
  BY <1>0, HolderCounts DEF Segment
<1>3. mgr[c].shm # NoSeg => s[mgr[c].shm].n >= 1
  BY <1>0, <1>1, <1>2
<1>4. segs' = Detached(s, mgr[c].shm)
  BY DEF Swap
<1> HIDE DEF s
<1>5. /\ segs' \in [Ids -> Segment]
      /\ \A j \in Ids : segs'[j].n = IF j = mgr[c].shm THEN s[j].n - 1 ELSE s[j].n
      /\ \A j \in Ids : \/ segs'[j] = Absent /\ j = mgr[c].shm /\ key # j /\ s[j].n = 1
                        \/ segs'[j].size = s[j].size /\ segs'[j].by = s[j].by /\ segs'[j].data = s[j].data
  BY <1>0, <1>1, <1>3, <1>4, DetachedIs
<1>6. ASSUME NEW j \in Ids
      PROVE  /\ segs'[j].n = segs[j].n + (IF id = j THEN 1 ELSE 0) - (IF mgr[c].shm = j THEN 1 ELSE 0)
             /\ \/ segs'[j] = Absent /\ key # j /\ id # j
                \/ segs'[j].size = segs[j].size /\ segs'[j].by = segs[j].by /\ segs'[j].data = segs[j].data
  <2>1. /\ s[j].n = segs[j].n + (IF id = j THEN 1 ELSE 0)
        /\ segs'[j].n = s[j].n - (IF mgr[c].shm = j THEN 1 ELSE 0)
    BY <1>1, <1>2, <1>5
  <2>2. segs'[j] = Absent /\ j = mgr[c].shm /\ s[j].n = 1 => id # j
    BY <1>2, <2>1
  <2>3. \/ segs'[j] = Absent /\ j = mgr[c].shm /\ key # j /\ s[j].n = 1
        \/ segs'[j].size = s[j].size /\ segs'[j].by = s[j].by /\ segs'[j].data = s[j].data
    BY <1>5
  <2>4. segs'[j].n = segs[j].n + (IF id = j THEN 1 ELSE 0) - (IF mgr[c].shm = j THEN 1 ELSE 0)
    BY <1>2, <2>1
  <2>5. s[j].size = segs[j].size /\ s[j].by = segs[j].by /\ s[j].data = segs[j].data
    BY <1>1
  <2> QED BY <2>2, <2>3, <2>4, <2>5
<1> QED BY <1>5, <1>6

\* Where a call goes, and what it is about.
PcType == pc' \in [Clients -> {"idle", "info", "create", "attach", "fill", "detach", "updated"}]
CallType == call' \in [Clients -> Call]

LEMMA GoesType ==
  ASSUME TypeOK, NEW c \in Clients,
         NEW w \in {"idle", "info", "create", "attach", "fill", "detach", "updated"}, Goes(c, w)
  PROVE  PcType
  BY DEF TypeOK, Goes, PcType

LEMMA ReturnsType ==
  ASSUME TypeOK, NEW c \in Clients, Returns(c)
  PROVE  PcType /\ CallType
  BY GoesType, TypesAre DEF TypeOK, Returns, CallType

LEMMA FoundIs ==
  ASSUME NEW r \in Call, NEW i \in Ids, NEW z \in Sizes \cup {0}
  PROVE  [r EXCEPT !.id = i] \in Call /\ [r EXCEPT !.id = i, !.size = z] \in Call
  BY DEF Call

LEMMA IdType ==
  ASSUME TypeOK, NEW c \in Clients, NEW i \in Ids, call' = [call EXCEPT ![c].id = i]
  PROVE  CallType
<1>1. [call[c] EXCEPT !.id = i] \in Call
  <2>1. call[c] \in Call
    BY DEF TypeOK
  <2> QED BY <2>1, FoundIs
<1>2. call' = [call EXCEPT ![c] = [call[c] EXCEPT !.id = i]]
  BY DEF TypeOK
<1> QED BY <1>1, <1>2 DEF TypeOK, CallType

LEMMA TypeStep ==
  TypeOK /\ Alive /\ Counted /\ (\A c \in Clients : InCall(c)) /\ [Next]_vars => TypeOK'
<1> SUFFICES ASSUME TypeOK, Alive, Counted, \A c \in Clients : InCall(c), [Next]_vars PROVE TypeOK'
  OBVIOUS
<1> USE DEF TypeOK, PcType, CallType
<1>0. Sizes \subseteq Nat
  BY SegAssumption DEF SegAssumption
<1>1. CASE Remove
  <2>1. segs' \in [Ids -> Segment]
    BY <1>1, TypesAre DEF Remove
  <2> QED BY <1>1, <2>1 DEF Remove, SeenBy
<1>2. ASSUME NEW c \in Clients, Exit(c) PROVE TypeOK'
  <2>1. segs' \in [Ids -> Segment]
    BY <1>2, ExitIs
  <2>2. unfilled' \subseteq Ids
    BY <1>2 DEF Exit, GivesUp, InCall
  <2>3. left' \in [calls : 0..MaxCalls, fails : 0..MaxFails]
    BY <1>2, SpendType DEF Exit
  <2>4. PcType /\ CallType
    BY <1>2, ReturnsType DEF Exit
  <2> QED BY <1>2, <2>1, <2>2, <2>3, <2>4, TypesAre DEF Exit
<1>3. ASSUME NEW c \in Clients, Use(c) PROVE TypeOK'
  <2>1. segs' \in [Ids -> Segment]
    BY <1>3 DEF Use, Segment, Manager
  <2> QED BY <1>3, <2>1 DEF Use
<1>4. ASSUME NEW c \in Clients, NEW z \in Sizes, CreateShm(c, z) PROVE TypeOK'
  <2>1. left' \in [calls : 0..MaxCalls, fails : 0..MaxFails]
    BY <1>4, SpendType DEF CreateShm
  <2>2. PcType
    BY <1>4, GoesType DEF CreateShm
  <2>3. [NoCall EXCEPT !.op = "get", !.size = z, !.make = TRUE, !.init = "refuse"] \in Call
    BY TypesAre DEF Call
  <2>4. CallType
    BY <1>4, <2>3 DEF CreateShm
  <2> QED BY <1>4, <2>1, <2>2, <2>4 DEF CreateShm
<1>5. ASSUME NEW c \in Clients, NEW z \in Sizes, NEW m \in BOOLEAN, NEW t \in {"no", "yes", "refuse"},
             Get(c, z, m, t)
      PROVE  TypeOK'
  <2>1. left' \in [calls : 0..MaxCalls, fails : 0..MaxFails]
    BY <1>5, SpendType DEF Get
  <2>2. PcType
    BY <1>5, GoesType DEF Get
  <2>3. [NoCall EXCEPT !.op = "get", !.size = z, !.make = m, !.init = t] \in Call
    BY TypesAre DEF Call
  <2>4. CallType
    BY <1>5, <2>3 DEF Get
  <2> QED BY <1>5, <2>1, <2>2, <2>4 DEF Get
<1>6. ASSUME NEW c \in Clients, GetInfo(c) PROVE TypeOK'
  <2>1. Exist => key \in Ids
    BY DEF Exist
  <2>2. PcType
    BY <1>6, GoesType, ReturnsType DEF GetInfo
  <2>3. CallType
    BY <1>6, <2>1, IdType, ReturnsType DEF GetInfo
  <2>4. got' \in [Clients -> Ids \cup {NoSeg}]
    BY <1>6 DEF GetInfo
  <2> QED BY <1>6, <2>2, <2>3, <2>4 DEF GetInfo
<1>7. ASSUME NEW c \in Clients, Create(c) PROVE TypeOK'
  <2>1. CASE Exist
    <3>1. PcType /\ CallType
      BY <1>7, <2>1, ReturnsType DEF Create, Exclusive
    <3> QED BY <1>7, <2>1, <3>1 DEF Create
  <2>2. CASE ~Exist
    <3>1. nextId \in Ids /\ nextId' = nextId + 1 /\ key' = nextId
      BY <1>7, <2>2 DEF Create
    <3>2. [size |-> call[c].size, n |-> 0, data |-> "zero", by |-> c] \in Segment
      BY DEF Segment, Call
    <3>3. segs' \in [Ids -> Segment]
      BY <1>7, <2>2, <3>2 DEF Create
    <3>4. seen' \in [Clients -> SUBSET (Ids \cup {NoSeg})]
      BY <1>7, <2>2, <3>1 DEF Create, SeenBy
    <3>5. PcType
      BY <1>7, <2>2, GoesType DEF Create
    <3>6. CallType
      BY <1>7, <2>2, <3>1, IdType DEF Create
    <3> QED BY <1>7, <2>2, <3>1, <3>3, <3>4, <3>5, <3>6 DEF Create
  <2> QED BY <2>1, <2>2
<1>8. ASSUME NEW c \in Clients, GetAttach(c) PROVE TypeOK'
  <2>1. call[c].id \in Ids
    BY <1>8 DEF GetAttach, InCall
  <2>2. segs' \in [Ids -> Segment]
    BY <1>8, <2>1, AttachedIs DEF GetAttach
  <2>3. left' \in [calls : 0..MaxCalls, fails : 0..MaxFails]
    BY <1>8, SpendType DEF GetAttach
  <2>4. unfilled' \subseteq Ids
    BY <1>8, <2>1 DEF GetAttach, GivesUp
  <2>5. PcType /\ CallType
    BY <1>8, GoesType, ReturnsType DEF GetAttach
  <2> QED BY <1>8, <2>2, <2>3, <2>4, <2>5 DEF GetAttach
<1>9. ASSUME NEW c \in Clients, Fill(c) PROVE TypeOK'
  <2>1. segs' \in [Ids -> Segment]
    <3>1. call[c].id \in Ids
      BY <1>9 DEF Fill, InCall
    <3>2. [segs[call[c].id] EXCEPT !.data = "init"] \in Segment
      BY <3>1 DEF Segment
    <3>3. segs' = [segs EXCEPT ![call[c].id] = [segs[call[c].id] EXCEPT !.data = "init"]]
      BY <1>9, <3>1 DEF Fill
    <3> QED BY <3>2, <3>3
  <2>2. PcType
    BY <1>9, GoesType DEF Fill
  <2> QED BY <1>9, <2>1, <2>2 DEF Fill
<1>10. ASSUME NEW c \in Clients, GetDetach(c) PROVE TypeOK'
  <2>1. call[c].id \in Ids /\ segs[call[c].id].n >= 1
    BY <1>10, HolderCounts DEF GetDetach, InCall
  <2>2. segs' \in [Ids -> Segment]
    BY <1>10, <2>1, DetachedIs DEF GetDetach
  <2>3. PcType /\ CallType
    BY <1>10, ReturnsType DEF GetDetach
  <2> QED BY <1>10, <2>1, <2>2, <2>3 DEF GetDetach
<1>11. ASSUME NEW c \in Clients, NEW again \in BOOLEAN, Update(c, again) PROVE TypeOK'
  <2>1. left' \in [calls : 0..MaxCalls, fails : 0..MaxFails]
    BY <1>11, SpendType DEF Update
  <2>2. PcType
    BY <1>11, GoesType DEF Update
  <2>3. [NoCall EXCEPT !.op = "update", !.again = again] \in Call
    BY TypesAre DEF Call
  <2>4. CallType
    BY <1>11, <2>3 DEF Update
  <2> QED BY <1>11, <2>1, <2>2, <2>4 DEF Update
<1>12. ASSUME NEW c \in Clients, UpdateInfo(c) PROVE TypeOK'
  <2>1. Exist => key \in Ids /\ segs[key].size \in Sizes \cup {0}
    BY DEF Segment, Exist
  <2>2. PcType
    BY <1>12, GoesType, ReturnsType DEF UpdateInfo
  <2>3. ASSUME Exist, call' = [call EXCEPT ![c].id = key, ![c].size = segs[key].size] PROVE CallType
    <3>1. [call[c] EXCEPT !.id = key, !.size = segs[key].size] \in Call
      <4>1. call[c] \in Call /\ segs[key].size \in Sizes \cup {0} /\ key \in Ids
        BY <2>1, <2>3
      <4> QED BY <4>1, FoundIs
    <3>2. call' = [call EXCEPT ![c] = [call[c] EXCEPT !.id = key, !.size = segs[key].size]]
      BY <2>3
    <3> QED BY <3>1, <3>2
  <2>4. CallType
    BY <1>12, <2>3, ReturnsType DEF UpdateInfo
  <2> QED BY <1>12, <2>2, <2>4 DEF UpdateInfo
<1>13. ASSUME NEW c \in Clients, UpdateAttach(c) PROVE TypeOK'
  <2>1. call[c].id \in Ids /\ call[c].size \in Sizes \cup {0}
    BY <1>13 DEF UpdateAttach, InCall, Call
  <2>2. segs' \in [Ids -> Segment]
    BY <1>13, <2>1, SwapIs DEF UpdateAttach
  <2>3. left' \in [calls : 0..MaxCalls, fails : 0..MaxFails]
    BY <1>13, SpendType DEF UpdateAttach
  <2>4. PcType /\ CallType
    BY <1>13, GoesType, ReturnsType DEF UpdateAttach
  <2>5. [shmid |-> call[c].id, size |-> call[c].size, shm |-> call[c].id] \in Manager
    BY <2>1 DEF Manager
  <2>6. mgr' \in [Clients -> Manager]
    BY <1>13, <2>5 DEF UpdateAttach
  <2> QED BY <1>13, <2>2, <2>3, <2>4, <2>6 DEF UpdateAttach
<1>14. ASSUME NEW c \in Clients, Updated(c) PROVE TypeOK'
  <2>1. PcType /\ CallType
    BY <1>14, ReturnsType DEF Updated
  <2> QED BY <1>14, <2>1 DEF Updated
<1>15. CASE UNCHANGED vars
  BY <1>15 DEF vars
<1>16. ASSUME NEW c \in Clients, NEW z \in Sizes, GetShm(c, z) \/ TmCreateInit(c, z) \/ TmCreateNew(c, z)
       PROVE  TypeOK'
  <2>1. PICK m \in BOOLEAN, t \in {"no", "yes", "refuse"} : Get(c, z, m, t)
    BY <1>16 DEF GetShm, TmCreateInit, TmCreateNew
  <2> QED BY <1>5, <2>1
<1> QED BY <1>1, <1>2, <1>3, <1>4, <1>6, <1>7, <1>8, <1>9, <1>10, <1>11, <1>12, <1>13, <1>14, <1>15, <1>16
  DEF Next

---------------------------------------------------------------------------
(* Attachments are counted. *)

\* A call begins, without having changed anything of the system.
Begins(c) ==
  \/ \E z \in Sizes : GetShm(c, z) \/ TmCreateInit(c, z) \/ TmCreateNew(c, z) \/ CreateShm(c, z)
  \/ \E again \in BOOLEAN : Update(c, again)

\* Every step but the removal of the segment is a client's.
Acts(c) ==
  \/ Exit(c) \/ Use(c) \/ Begins(c) \/ GetInfo(c) \/ Create(c) \/ GetAttach(c) \/ Fill(c) \/ GetDetach(c)
  \/ UpdateInfo(c) \/ UpdateAttach(c) \/ Updated(c)

LEMMA NextIs == [Next]_vars => Remove \/ (\E c \in Clients : Acts(c)) \/ UNCHANGED vars
  BY DEF Next, Acts, Begins

LEMMA BeginsIs ==
  ASSUME TypeOK, NEW c \in Clients, Begins(c)
  PROVE  /\ pc[c] = "idle" /\ UNCHANGED <<segs, key, nextId, mgr, unfilled, got>>
         /\ pc' = [pc EXCEPT ![c] = pc'[c]] /\ call' = [call EXCEPT ![c] = call'[c]]
         /\ \/ pc'[c] \in {"info", "create"} /\ call'[c].op = "get" /\ seen' = seen
            \/ pc'[c] = "info" /\ call'[c].op = "update" /\ seen' = [seen EXCEPT ![c] = {key}]
<1> USE DEF TypeOK, Goes, NoCall
<1>1. ASSUME NEW z, NEW m, NEW t, Get(c, z, m, t)
      PROVE  /\ pc[c] = "idle" /\ UNCHANGED <<segs, key, nextId, mgr, seen, unfilled, got>>
             /\ pc' = [pc EXCEPT ![c] = "info"] /\ call'[c].op = "get" /\ call' = [call EXCEPT ![c] = call'[c]]
  BY <1>1 DEF Get
<1>2. ASSUME NEW z, CreateShm(c, z)
      PROVE  /\ pc[c] = "idle" /\ UNCHANGED <<segs, key, nextId, mgr, seen, unfilled, got>>
             /\ pc' = [pc EXCEPT ![c] = "create"] /\ call'[c].op = "get" /\ call' = [call EXCEPT ![c] = call'[c]]
  BY <1>2 DEF CreateShm
<1>3. ASSUME NEW again, Update(c, again)
      PROVE  /\ pc[c] = "idle" /\ UNCHANGED <<segs, key, nextId, mgr, unfilled, got>>
             /\ pc' = [pc EXCEPT ![c] = "info"] /\ call'[c].op = "update" /\ call' = [call EXCEPT ![c] = call'[c]]
             /\ seen' = [seen EXCEPT ![c] = {key}]
  BY <1>3 DEF Update
<1>4. \/ \E z, m, t : Get(c, z, m, t)
      \/ \E z : CreateShm(c, z)
      \/ \E again : Update(c, again)
  BY DEF Begins, GetShm, TmCreateInit, TmCreateNew
<1> QED BY <1>1, <1>2, <1>3, <1>4

\* A client's step is none of the others' business.
LEMMA Others ==
  ASSUME TypeOK, NEW c \in Clients, Acts(c)
  PROVE  /\ \A d \in Clients \ {c} : pc'[d] = pc[d] /\ call'[d] = call[d] /\ mgr'[d] = mgr[d]
         /\ ~UpdateAttach(c) /\ ~Exit(c) => mgr' = mgr
<1> USE DEF TypeOK, Goes, Returns
<1>1. CASE Begins(c)
  BY <1>1, BeginsIs
<1>2. CASE Exit(c) \/ UpdateAttach(c)
  BY <1>2 DEF Exit, UpdateAttach
<1>3. CASE Use(c) \/ GetInfo(c) \/ Create(c) \/ GetAttach(c)
  BY <1>3 DEF Use, GetInfo, Create, GetAttach
<1>4. CASE Fill(c) \/ GetDetach(c) \/ UpdateInfo(c) \/ Updated(c)
  BY <1>4 DEF Fill, GetDetach, UpdateInfo, Updated
<1> QED BY <1>1, <1>2, <1>3, <1>4 DEF Acts

\* Sets that differ in one element differ by one.
LEMMA ButOne ==
  ASSUME NEW S, NEW T, NEW x, IsFiniteSet(S), S \ {x} = T \ {x}
  PROVE  Cardinality(T) = Cardinality(S) - (IF x \in S THEN 1 ELSE 0) + (IF x \in T THEN 1 ELSE 0)
<1>1. IsFiniteSet(S \ {x}) /\ Cardinality(S) \in Nat /\ Cardinality(S \ {x}) \in Nat
  BY FS_RemoveElement, FS_CardinalityType
<1>2. Cardinality(S \ {x}) = Cardinality(S) - (IF x \in S THEN 1 ELSE 0)
  BY <1>1, FS_RemoveElement
<1>3. Cardinality((S \ {x}) \cup {x}) = Cardinality(S \ {x}) + 1
  BY <1>1, FS_AddElement
<1>4. CASE x \in T
  <2>1. T = (S \ {x}) \cup {x}
    BY <1>4
  <2> QED BY <1>1, <1>2, <1>3, <1>4, <2>1
<1>5. CASE x \notin T
  <2>1. T = S \ {x}
    BY <1>5
  <2> QED BY <1>1, <1>2, <1>5, <2>1
<1> QED BY <1>4, <1>5

LEMMA HoldersStep ==
  ASSUME NEW c \in Clients, NEW i \in Ids,
         \A d \in Clients \ {c} : pc'[d] = pc[d] /\ call'[d] = call[d] /\ mgr'[d] = mgr[d]
  PROVE  Holders(i)' = Holders(i) - (IF mgr[c].shm = i THEN 1 ELSE 0)
                                  - (IF pc[c] \in {"fill", "detach"} /\ call[c].id = i THEN 1 ELSE 0)
                                  + (IF mgr'[c].shm = i THEN 1 ELSE 0)
                                  + (IF pc'[c] \in {"fill", "detach"} /\ call'[c].id = i THEN 1 ELSE 0)
<1>1. Managers(i) \ {c} = Managers(i)' \ {c} /\ Fillers(i) \ {c} = Fillers(i)' \ {c}
  BY DEF Managers, Fillers
<1>2. Cardinality(Managers(i)') = Cardinality(Managers(i)) - (IF c \in Managers(i) THEN 1 ELSE 0)
                                                           + (IF c \in Managers(i)' THEN 1 ELSE 0)
  BY <1>1, HoldersAre, ButOne
<1>3. Cardinality(Fillers(i)') = Cardinality(Fillers(i)) - (IF c \in Fillers(i) THEN 1 ELSE 0)
                                                         + (IF c \in Fillers(i)' THEN 1 ELSE 0)
  BY <1>1, HoldersAre, ButOne
<1>4. /\ c \in Managers(i) <=> mgr[c].shm = i
      /\ c \in Managers(i)' <=> mgr'[c].shm = i
      /\ c \in Fillers(i) <=> pc[c] \in {"fill", "detach"} /\ call[c].id = i
      /\ c \in Fillers(i)' <=> pc'[c] \in {"fill", "detach"} /\ call'[c].id = i
  BY DEF Managers, Fillers
<1>5. Cardinality(Managers(i)) \in Nat /\ Cardinality(Fillers(i)) \in Nat
  BY HoldersAre
<1> QED BY <1>2, <1>3, <1>4, <1>5 DEF Holders

\* What a step does to the segments: it lets one be as it was, fills or uses it,
\* takes it away when nobody holds it any more, or makes it.
Kept(i) ==
  /\ segs'[i].size = segs[i].size /\ segs'[i].by = segs[i].by
  /\ segs[i] = Absent => segs'[i].n = 0 /\ segs'[i].data = "none"
  /\ segs'[i].data = "none" => segs[i].data = "none"
  /\ segs'[i].data = "zero" => segs[i].data = "zero"

Gone(i) == segs'[i] = Absent /\ key' # i

Born(i) == key = NoSeg /\ i = nextId /\ nextId' = nextId + 1 /\ key' = i /\ \E c \in Clients : Create(c)

LEMMA SegsStep ==
  ASSUME TypeOK, Alive, Counted, \A c \in Clients : InCall(c) /\ Managed(c), [Next]_vars, NEW i \in Ids
  PROVE  Kept(i) \/ Gone(i) \/ Born(i)
<1> USE DEF TypeOK
<1>0. segs[i] = Absent => segs[i].n = 0 /\ segs[i].data = "none"
  BY DEF Absent
<1>1. CASE Remove
  <2>1. key' = NoSeg /\ segs' \in {segs, [segs EXCEPT ![key] = Absent]} /\ key \in Ids
    BY <1>1 DEF Remove
  <2>2. key' # i
    BY <2>1, TypesAre
  <2> QED BY <1>0, <2>1, <2>2 DEF Kept, Gone
<1>2. ASSUME NEW c \in Clients, Acts(c) PROVE Kept(i) \/ Gone(i) \/ Born(i)
  <2>1. CASE Begins(c) \/ GetInfo(c) \/ UpdateInfo(c) \/ Updated(c)
    <3>1. segs' = segs
      BY <2>1, BeginsIs DEF GetInfo, UpdateInfo, Updated
    <3> QED BY <1>0, <3>1 DEF Kept
  <2>2. CASE Exit(c)
    <3>1. key' = key
      BY <2>2 DEF Exit
    <3> QED BY <1>0, <2>2, <3>1, HolderCounts, ExitIs DEF Kept, Gone, Lives
  <2>3. CASE Use(c)
    <3>1. mgr[c].shm \in Ids /\ Lives(mgr[c].shm)
      BY <2>3 DEF Use, Managed, Manager
    <3> QED BY <1>0, <2>3, <3>1 DEF Use, Kept, Lives, Segment
  <2>4. CASE Create(c)
    <3>1. CASE Exist
      BY <1>0, <2>4, <3>1 DEF Create, Kept
    <3>2. CASE ~Exist
      <4>1. /\ key = NoSeg /\ nextId \in Ids /\ nextId' = nextId + 1 /\ key' = nextId
            /\ \A j \in Ids \ {nextId} : segs'[j] = segs[j]
        BY <2>4, <3>2 DEF Create, Exist
      <4>2. CASE i = nextId
        BY <2>4, <4>1, <4>2 DEF Born
      <4>3. CASE i # nextId
        BY <1>0, <4>1, <4>3 DEF Kept
      <4> QED BY <4>2, <4>3
    <3> QED BY <3>1, <3>2
  <2>5. CASE GetAttach(c)
    <3>1. call[c].id \in Ids
      BY <2>5 DEF GetAttach, InCall
    <3>2. CASE Lives(call[c].id) /\ segs' = Attached(segs, call[c].id)
      <4>1. i = call[c].id => segs[i] # Absent
        BY <1>0, <3>2 DEF Lives
      <4> QED BY <1>0, <3>1, <3>2, <4>1, AttachedIs DEF Kept
    <3>3. CASE segs' = segs
      BY <1>0, <3>3 DEF Kept
    <3> QED BY <2>5, <3>2, <3>3 DEF GetAttach
  <2>6. CASE Fill(c)
    <3>1. call[c].id \in Ids /\ Lives(call[c].id)
      BY <2>6 DEF Fill, InCall
    <3> QED BY <1>0, <2>6, <3>1 DEF Fill, Kept, Lives, Segment
  <2>7. CASE GetDetach(c)
    <3>1. call[c].id \in Ids /\ segs[call[c].id].n >= 1 /\ key' = key
      BY <2>7, HolderCounts DEF GetDetach, InCall
    <3>2. segs' = Detached(segs, call[c].id)
      BY <2>7 DEF GetDetach
    <3>3. segs[i] = Absent => i # call[c].id
      BY <1>0, <3>1
    <3>4. segs'[i].n = IF i = call[c].id THEN segs[i].n - 1 ELSE segs[i].n
      BY <3>1, <3>2, DetachedIs
    <3>5. \/ segs'[i] = Absent /\ key # i
          \/ segs'[i].size = segs[i].size /\ segs'[i].by = segs[i].by /\ segs'[i].data = segs[i].data
      BY <3>1, <3>2, DetachedIs
    <3> QED BY <1>0, <3>1, <3>3, <3>4, <3>5 DEF Kept, Gone
  <2>8. CASE UpdateAttach(c)
    <3>1. call[c].id \in Ids /\ key' = key
      BY <2>8 DEF UpdateAttach, InCall
    <3>2. CASE segs' = segs
      BY <1>0, <3>2 DEF Kept
    <3>3. CASE Lives(call[c].id) /\ Swap(c, call[c].id)
      <4>1. segs[i] = Absent => i # call[c].id /\ mgr[c].shm # i
        BY <1>0, <3>3, HolderCounts DEF Lives
      <4>2. segs'[i].n = segs[i].n + (IF call[c].id = i THEN 1 ELSE 0) - (IF mgr[c].shm = i THEN 1 ELSE 0)
        BY <3>1, <3>3, SwapIs
      <4>3. \/ segs'[i] = Absent /\ key # i
            \/ segs'[i].size = segs[i].size /\ segs'[i].by = segs[i].by /\ segs'[i].data = segs[i].data
        BY <3>1, <3>3, SwapIs
      <4> QED BY <1>0, <3>1, <4>1, <4>2, <4>3 DEF Kept, Gone
    <3> QED BY <2>8, <3>2, <3>3 DEF UpdateAttach
  <2> QED BY <1>2, <2>1, <2>2, <2>3, <2>4, <2>5, <2>6, <2>7, <2>8 DEF Acts
<1>3. CASE UNCHANGED vars
  BY <1>0, <1>3 DEF vars, Kept
<1> QED BY <1>1, <1>2, <1>3, NextIs

LEMMA CountedStep ==
  ASSUME TypeOK, Alive, Counted, \A c \in Clients : InCall(c) /\ Managed(c), [Next]_vars
  PROVE  Counted'
<1> USE DEF TypeOK
<1>0. \A i \in Ids : segs[i].n \in Nat /\ segs[i].n = Holders(i)
  BY DEF Segment, Counted
<1>1. CASE Remove
  <2>1. key \in Ids /\ UNCHANGED <<pc, call, mgr>>
    BY <1>1 DEF Remove
  <2>2. \A i \in Ids : segs'[i].n = segs[i].n
    BY <1>1, <2>1 DEF Remove, Absent
  <2>3. \A i \in Ids : Holders(i)' = Holders(i)
    BY <2>1 DEF Holders, Managers, Fillers
  <2> QED BY <1>0, <2>2, <2>3 DEF Counted
<1>2. ASSUME NEW c \in Clients, Acts(c), NEW i \in Ids PROVE segs'[i].n = Holders(i)'
  <2> DEFINE managed == mgr[c].shm = i
             filling == pc[c] \in {"fill", "detach"} /\ call[c].id = i
             manages == mgr'[c].shm = i
             fills   == pc'[c] \in {"fill", "detach"} /\ call'[c].id = i
  <2>0. Holders(i)' = segs[i].n - (IF managed THEN 1 ELSE 0) - (IF filling THEN 1 ELSE 0)
                                + (IF manages THEN 1 ELSE 0) + (IF fills THEN 1 ELSE 0)
    BY <1>0, <1>2, Others, HoldersStep
  <2>1. ASSUME segs'[i].n = segs[i].n, managed <=> manages, filling <=> fills PROVE segs'[i].n = Holders(i)'
    <3> HIDE DEF managed, manages, filling, fills
    <3> QED BY <1>0, <2>0, <2>1
  <2>2. CASE Begins(c) \/ GetInfo(c) \/ UpdateInfo(c) \/ Updated(c)
    <3>1. segs' = segs /\ mgr' = mgr /\ pc[c] \notin {"fill", "detach"}
      BY <2>2, BeginsIs DEF GetInfo, UpdateInfo, Updated
    <3>2. pc'[c] \notin {"fill", "detach"}
      BY <2>2, BeginsIs DEF GetInfo, UpdateInfo, Updated, Goes, Returns
    <3> QED BY <2>1, <3>1, <3>2
  <2>3. CASE Use(c)
    <3>1. segs'[i].n = segs[i].n /\ UNCHANGED <<mgr, pc, call>>
      BY <2>3 DEF Use
    <3> QED BY <2>1, <3>1
  <2>4. CASE Create(c)
    <3>1. pc[c] = "create" /\ pc'[c] \in {"idle", "attach"} /\ mgr' = mgr
      BY <2>4 DEF Create, Goes, Returns, Exclusive
    <3>2. segs'[i].n = segs[i].n
      <4>1. nextId \in Ids => segs[nextId] = Absent
        BY DEF Alive
      <4> QED BY <2>4, <4>1 DEF Create, Absent
    <3> QED BY <2>1, <3>1, <3>2
  <2>5. CASE GetAttach(c)
    <3>1. call[c].id \in Ids /\ pc[c] = "attach" /\ mgr' = mgr
      BY <2>5 DEF GetAttach, InCall
    <3>2. CASE segs' = segs
      <4>1. pc'[c] = "idle"
        <5>1. Attached(segs, call[c].id)[call[c].id].n = segs[call[c].id].n + 1
          BY <3>1, AttachedIs
        <5> QED BY <1>0, <2>5, <3>1, <3>2, <5>1 DEF GetAttach, Returns, Goes
      <4> QED BY <2>1, <3>1, <3>2, <4>1
    <3>3. CASE segs' = Attached(segs, call[c].id) /\ segs' # segs
      <4>1. pc'[c] = "fill" /\ call' = call
        BY <2>5, <3>3 DEF GetAttach, Goes
      <4>2. segs'[i].n = segs[i].n + (IF call[c].id = i THEN 1 ELSE 0)
        BY <1>0, <3>1, <3>3, AttachedIs
      <4> QED BY <1>0, <2>0, <3>1, <4>1, <4>2
    <3> QED BY <2>5, <3>2, <3>3 DEF GetAttach
  <2>6. CASE Fill(c)
    <3>1. segs'[i].n = segs[i].n /\ mgr' = mgr /\ call' = call /\ pc[c] = "fill" /\ pc'[c] = "detach"
      BY <2>6 DEF Fill, Goes
    <3> QED BY <2>1, <3>1
  <2>7. CASE GetDetach(c)
    <3>1. call[c].id \in Ids /\ segs[call[c].id].n >= 1 /\ pc[c] = "detach" /\ pc'[c] = "idle" /\ mgr' = mgr
      BY <2>7, HolderCounts DEF GetDetach, InCall, Returns, Goes
    <3>2. segs'[i].n = segs[i].n - (IF call[c].id = i THEN 1 ELSE 0)
      BY <1>0, <2>7, <3>1, DetachedIs DEF GetDetach
    <3> QED BY <1>0, <2>0, <3>1, <3>2
  <2>8. CASE UpdateAttach(c)
    <3>1. call[c].id \in Ids /\ pc[c] = "attach" /\ pc'[c] \notin {"fill", "detach"}
      BY <2>8 DEF UpdateAttach, InCall, Returns, Goes
    <3>2. CASE segs' = segs /\ mgr' = mgr
      BY <2>1, <3>1, <3>2
    <3>3. CASE Swap(c, call[c].id) /\ mgr'[c].shm = call[c].id
      <4>1. segs'[i].n = segs[i].n + (IF manages THEN 1 ELSE 0) - (IF managed THEN 1 ELSE 0)
        BY <3>1, <3>3, SwapIs
      <4>2. ~filling /\ ~fills
        BY <3>1
      <4> HIDE DEF managed, manages, filling, fills
      <4> QED BY <1>0, <2>0, <4>1, <4>2
    <3> QED BY <2>8, <3>2, <3>3 DEF UpdateAttach
  <2>9. CASE Exit(c)
    <3>1. pc'[c] = "idle" /\ mgr'[c].shm = NoSeg
      BY <2>9 DEF Exit, Returns, Goes, Nothing
    <3>2. ~manages /\ ~fills
      BY <3>1, TypesAre
    <3>3. segs'[i].n = segs[i].n - (IF managed THEN 1 ELSE 0) - (IF filling THEN 1 ELSE 0)
      BY <2>9, ExitIs
    <3> HIDE DEF managed, manages, filling, fills
    <3> QED BY <1>0, <2>0, <3>2, <3>3
  <2> QED BY <1>2, <2>2, <2>3, <2>4, <2>5, <2>6, <2>7, <2>8, <2>9 DEF Acts
<1>3. CASE UNCHANGED vars
  <2>1. \A i \in Ids : Holders(i)' = Holders(i)
    BY <1>3 DEF Holders, Managers, Fillers, vars
  <2> QED BY <1>0, <1>3, <2>1 DEF Counted, vars
<1> QED BY <1>1, <1>2, <1>3, NextIs DEF Counted

---------------------------------------------------------------------------
(* Segments, managers and calls. *)

\* The key and the identifiers.
LEMMA KeyStep ==
  ASSUME TypeOK, [Next]_vars
  PROVE  /\ nextId' \in {nextId, nextId + 1}
         /\ (key' \in {key, NoSeg} /\ nextId' = nextId) \/ Born(nextId)
<1>1. ASSUME NEW c \in Clients, Create(c)
      PROVE  (key' = key /\ nextId' = nextId) \/ (nextId' = nextId + 1 /\ Born(nextId))
  BY <1>1 DEF Create, Exist, Born
<1>2. ASSUME NEW c \in Clients, Acts(c), ~Create(c) PROVE key' = key /\ nextId' = nextId
  <2>1. CASE Begins(c)
    BY <2>1, BeginsIs
  <2> QED BY <1>2, <2>1 DEF Acts, Exit, Use, GetInfo, GetAttach, Fill, GetDetach, UpdateInfo, UpdateAttach, Updated
<1>3. Remove => key' = NoSeg /\ nextId' = nextId
  BY DEF Remove
<1>4. UNCHANGED vars => key' = key /\ nextId' = nextId
  BY DEF vars
<1> QED BY <1>1, <1>2, <1>3, <1>4, NextIs

LEMMA AliveStep ==
  ASSUME TypeOK, TypeOK', Alive, Counted, \A c \in Clients : InCall(c) /\ Managed(c), [Next]_vars
  PROVE  Alive'
<1>1. \A i \in Ids : Kept(i) \/ Gone(i) \/ Born(i)
  BY SegsStep
<1>2. \A i \in Ids : Born(i) => segs'[i].data = "zero"
  BY DEF Born, Create, TypeOK, Exist
<1>3. ASSUME NEW i \in Ids, segs'[i].data = "none" PROVE segs'[i] = Absent
  <2>1. CASE Kept(i)
    <3>1. segs[i] = Absent /\ segs'[i] \in Segment
      BY <1>3, <2>1 DEF Kept, Alive, TypeOK
    <3>2. segs'[i].n = 0 /\ segs'[i].size = 0 /\ segs'[i].by = NoSeg
      BY <2>1, <3>1 DEF Kept, Absent
    <3> QED BY <1>3, <3>1, <3>2 DEF Segment, Absent
  <2> QED BY <1>1, <1>2, <1>3, <2>1 DEF Gone
<1>4. ASSUME NEW i \in Ids, i >= nextId' PROVE segs'[i] = Absent
  <2>1. i >= nextId /\ ~Born(i)
    BY <1>4, KeyStep, TypesAre DEF TypeOK, Born
  <2>2. segs[i] = Absent
    BY <2>1 DEF Alive
  <2>3. Kept(i) => segs'[i].data = "none"
    BY <2>2 DEF Kept
  <2> QED BY <1>1, <1>3, <2>1, <2>3 DEF Gone
<1>5. key' # NoSeg => segs'[key'].data # "none"
  <2>1. CASE key' = key /\ key # NoSeg
    BY <1>1, <1>2, <2>1 DEF Alive, Lives, Kept, Gone, TypeOK
  <2>2. CASE Born(nextId)
    <3>1. key' = nextId /\ key' \in Ids
      BY <2>2, TypesAre DEF Born, TypeOK, Create, Exist
    <3> QED BY <1>2, <2>2, <3>1
  <2> QED BY <2>1, <2>2, KeyStep
<1> QED BY <1>3, <1>4, <1>5 DEF Alive, Lives

\* A segment that somebody holds after a step, or that lives, was there before,
\* of the same size and maker.
LEMMA OldOne ==
  ASSUME TypeOK, Alive, Counted, \A c \in Clients : InCall(c) /\ Managed(c), [Next]_vars,
         NEW i \in Ids, i < nextId, Lives(i)'
  PROVE  Kept(i) /\ Lives(i)
<1>1. ~Gone(i)
  BY DEF Gone, Lives, Absent
<1>2. ~Born(i)
  BY TypesAre DEF Born, TypeOK
<1>3. Kept(i)
  BY <1>1, <1>2, SegsStep
<1>4. Lives(i)
  <2>1. segs[i].data = "none" => segs[i] = Absent
    BY DEF Alive
  <2> QED BY <1>3, <2>1 DEF Kept, Lives
<1> QED BY <1>3, <1>4

\* Who holds a segment holds one that lives.
LEMMA HeldLives ==
  ASSUME TypeOK, Alive, Counted, NEW c \in Clients, NEW i \in Ids,
         mgr[c].shm = i \/ (pc[c] \in {"fill", "detach"} /\ call[c].id = i)
  PROVE  Lives(i)
<1>1. segs[i].n >= 1
  BY HolderCounts
<1> QED BY <1>1 DEF Alive, Lives, Absent

LEMMA Older ==
  ASSUME TypeOK, Alive, NEW i \in Ids, Lives(i)
  PROVE  i < nextId
  BY TypesAre DEF TypeOK, Alive, Lives, Absent

LEMMA ManagedStep ==
  ASSUME TypeOK, TypeOK', Alive, Alive', Counted, Counted', \A c \in Clients : InCall(c) /\ Managed(c),
         [Next]_vars, NEW d \in Clients
  PROVE  Managed(d)'
<1>1. ASSUME mgr'[d] = mgr[d] PROVE Managed(d)'
  <2>1. CASE mgr[d].shm = NoSeg
    BY <1>1, <2>1 DEF Managed
  <2>2. CASE mgr[d].shm # NoSeg
    <3>1. mgr[d].shm \in Ids /\ Lives(mgr[d].shm) /\ mgr[d].shm < nextId
      BY <2>2, Older DEF Managed, TypeOK, Manager
    <3>2. Lives(mgr[d].shm)'
      <4>1. mgr'[d].shm = mgr[d].shm
        BY <1>1
      <4>2. segs'[mgr[d].shm].n >= 1
        <5>1. Cardinality(Managers(mgr[d].shm)') >= 1
          <6>1. Managers(mgr[d].shm)' \subseteq Clients /\ d \in Managers(mgr[d].shm)'
            BY <4>1 DEF Managers
          <6> QED BY <6>1, Member, SegAssumption, FS_Subset DEF SegAssumption
        <5>2. Cardinality(Fillers(mgr[d].shm)') \in Nat /\ Cardinality(Managers(mgr[d].shm)') \in Nat
          <6>1. Managers(mgr[d].shm)' \subseteq Clients /\ Fillers(mgr[d].shm)' \subseteq Clients
            BY DEF Managers, Fillers
          <6> QED BY <6>1, SegAssumption, FS_Subset, FS_CardinalityType DEF SegAssumption
        <5>3. segs'[mgr[d].shm].n = Cardinality(Managers(mgr[d].shm)') + Cardinality(Fillers(mgr[d].shm)')
          BY <3>1, <4>1 DEF Counted, Holders, Managers, Fillers
        <5> QED BY <5>1, <5>2, <5>3
      <4> QED BY <3>1, <4>1, <4>2 DEF Alive, Lives, Absent
    <3> QED BY <1>1, <3>1, <3>2, OldOne DEF Managed, Kept
  <2> QED BY <2>1, <2>2
<1>2. ASSUME Exit(d) PROVE Managed(d)'
  BY <1>2 DEF Exit, Nothing, Managed, TypeOK
<1>3. ASSUME UpdateAttach(d), mgr'[d] # mgr[d] PROVE Managed(d)'
  <2> DEFINE id == call[d].id
  <2>1. /\ id \in Ids /\ Lives(id) /\ Swap(d, id) /\ call[d].size = segs[id].size
        /\ mgr'[d] = [shmid |-> id, size |-> call[d].size, shm |-> id]
    BY <1>3 DEF UpdateAttach, InCall, TypeOK
  <2>2. \/ segs'[id] = Absent /\ key # id /\ id # id
        \/ segs'[id].size = segs[id].size /\ segs'[id].by = segs[id].by /\ segs'[id].data = segs[id].data
    BY <2>1, SwapIs
  <2> QED BY <2>1, <2>2 DEF Managed, Lives
<1>4. mgr'[d] = mgr[d] \/ Exit(d) \/ UpdateAttach(d)
  <2>1. ASSUME NEW c \in Clients, Acts(c) PROVE mgr'[d] = mgr[d] \/ (c = d /\ (Exit(d) \/ UpdateAttach(d)))
    BY <2>1, Others
  <2>2. Remove \/ UNCHANGED vars => mgr' = mgr
    BY DEF Remove, vars
  <2> QED BY <2>1, <2>2, NextIs
<1> QED BY <1>1, <1>2, <1>3, <1>4

LEMMA MadeStep ==
  ASSUME TypeOK, TypeOK', Alive, Counted, \A c \in Clients : InCall(c) /\ Managed(c),
         \A i \in Ids : Made(i), [Next]_vars, NEW i \in Ids
  PROVE  Made(i)'
<1> SUFFICES ASSUME segs'[i].data = "zero"
             PROVE  segs'[i].by \in Clients /\ (i \in unfilled' \/ OnTheWay(segs[i].by, i)')
  BY DEF Made
<1>0. unfilled \subseteq unfilled'
  <2>1. ASSUME NEW c \in Clients, Begins(c) PROVE unfilled \subseteq unfilled'
    BY <2>1, BeginsIs
  <2> QED BY <2>1, NextIs DEF Acts, Remove, vars, Exit, Use, GetInfo, Create, GetAttach, GivesUp, Fill, GetDetach,
             UpdateInfo, UpdateAttach, Updated
<1>1. CASE Born(i)
  <2>1. PICK c \in Clients : Create(c) /\ key = NoSeg /\ i = nextId
    BY <1>1 DEF Born
  <2>2. /\ segs'[i].by = c /\ pc'[c] = "attach" /\ call'[c].op = "get" /\ call'[c].id = i
    BY <2>1 DEF Create, Exist, TypeOK, Goes, InCall, Call
  <2> QED BY <2>2 DEF OnTheWay
<1>2. CASE Kept(i)
  <2>0. segs[i].data = "zero" /\ segs[i].by \in Clients
    BY <1>2 DEF Kept, Made
  <2> PICK d \in Clients : d = segs[i].by
    BY <2>0
  <2>1. segs[i].data = "zero" /\ segs'[i].by = d /\ (i \in unfilled \/ OnTheWay(d, i))
    BY <1>2 DEF Kept, Made
  <2>2. ASSUME i \in unfilled PROVE i \in unfilled'
    BY <1>0, <2>2
  <2>3. ASSUME OnTheWay(d, i) PROVE i \in unfilled' \/ OnTheWay(d, i)'
    <3>1. CASE pc'[d] = pc[d] /\ call'[d] = call[d]
      BY <2>3, <3>1 DEF OnTheWay
    <3>2. ASSUME Acts(d) PROVE i \in unfilled' \/ OnTheWay(d, i)'
      <4>1. ~Begins(d) /\ ~GetInfo(d) /\ ~Create(d) /\ ~GetDetach(d) /\ ~UpdateInfo(d) /\ ~UpdateAttach(d)
              /\ ~Updated(d)
        BY <2>1, <2>3, BeginsIs DEF OnTheWay, GetInfo, Create, GetDetach, UpdateInfo, UpdateAttach, Updated
      <4>2. CASE Use(d)
        BY <2>3, <4>2 DEF Use, OnTheWay
      <4>3. CASE Exit(d)
        BY <2>3, <4>3 DEF Exit, GivesUp, OnTheWay
      <4>4. CASE GetAttach(d)
        BY <2>1, <2>3, <4>4 DEF GetAttach, GivesUp, OnTheWay, Goes, TypeOK
      <4>5. CASE Fill(d)
        BY <2>3, <4>5 DEF Fill, OnTheWay, TypeOK, Segment
      <4> QED BY <3>2, <4>1, <4>2, <4>3, <4>4, <4>5 DEF Acts
    <3>3. Acts(d) \/ (pc'[d] = pc[d] /\ call'[d] = call[d])
      <4>1. ASSUME NEW c \in Clients, Acts(c) PROVE Acts(d) \/ (pc'[d] = pc[d] /\ call'[d] = call[d])
        BY <2>1, <4>1, Others
      <4>2. Remove \/ UNCHANGED vars => pc' = pc /\ call' = call
        BY DEF Remove, vars
      <4> QED BY <4>1, <4>2, NextIs
    <3> QED BY <2>1, <3>1, <3>2, <3>3
  <2>4. OnTheWay(d, i)' => OnTheWay(segs[i].by, i)'
    BY <2>1 DEF OnTheWay
  <2> QED BY <2>1, <2>2, <2>3, <2>4
<1>3. ~Gone(i)
  BY DEF Gone, Absent
<1> QED BY <1>1, <1>2, <1>3, SegsStep

\* An update under way is told of every segment the key comes to name.
LEMMA SeenStep ==
  ASSUME TypeOK, [Next]_vars, NEW d \in Clients, call[d].op = "update", ~Updated(d), ~Begins(d)
  PROVE  seen[d] \subseteq seen'[d] /\ (key' = key \/ key' \in seen'[d])
<1> USE DEF TypeOK
<1>1. ASSUME NEW c \in Clients, Create(c) PROVE seen[d] \subseteq seen'[d] /\ (key' = key \/ key' \in seen'[d])
  BY <1>1 DEF Create, SeenBy
<1>2. CASE Remove
  BY <1>2 DEF Remove, SeenBy
<1>3. ASSUME NEW c \in Clients, Acts(c), ~Create(c) PROVE seen[d] \subseteq seen'[d] /\ key' = key
  <2>1. CASE Begins(c)
    <3>1. c # d
      BY <2>1
    <3> QED BY <2>1, <3>1, BeginsIs
  <2>2. CASE Updated(c)
    <3>1. c # d
      BY <2>2
    <3> QED BY <2>2, <3>1 DEF Updated
  <2> QED BY <1>3, <2>1, <2>2 DEF Acts, Exit, Use, GetInfo, GetAttach, Fill, GetDetach, UpdateInfo, UpdateAttach
<1>4. CASE UNCHANGED vars
  BY <1>4 DEF vars
<1> QED BY <1>1, <1>2, <1>3, <1>4, NextIs

LEMMA InCallStep ==
  ASSUME TypeOK, TypeOK', Alive, Alive', Counted, Counted', \A c \in Clients : InCall(c) /\ Managed(c),
         [Next]_vars, NEW d \in Clients
  PROVE  InCall(d)'
<1>0. InCall(d) /\ Managed(d) /\ nextId' \in Nat /\ nextId <= nextId'
  BY KeyStep DEF TypeOK
<1>1. ASSUME pc'[d] = pc[d], call'[d] = call[d], mgr'[d] = mgr[d] PROVE InCall(d)'
  <2>1. ASSUME pc[d] \in {"info", "attach", "updated"}, call[d].op = "update"
        PROVE  seen[d] \subseteq seen'[d] /\ (key' = key \/ key' \in seen'[d])
    <3>1. ~Updated(d) /\ ~Begins(d)
      <4>1. Updated(d) => pc'[d] = "idle"
        BY DEF Updated, Returns, Goes, TypeOK
      <4>2. Begins(d) => pc[d] = "idle"
        BY BeginsIs
      <4> QED BY <1>1, <2>1, <4>1, <4>2
    <3> QED BY <2>1, <3>1, SeenStep
  <2>2. pc[d] \in {"attach", "fill", "detach"} => call[d].id \in Ids /\ call[d].id < nextId'
    BY <1>0, TypesAre DEF InCall, TypeOK
  <2>3. pc[d] \in {"fill", "detach"} => Lives(call[d].id)'
    <3>1. ASSUME pc[d] \in {"fill", "detach"} PROVE segs'[call[d].id].data # "none"
      <4>1. PICK i \in Ids : i = call[d].id
        BY <2>2, <3>1
      <4>2. d \in Fillers(i)' /\ Fillers(i)' \subseteq Clients /\ Managers(i)' \subseteq Clients
        BY <1>1, <3>1, <4>1 DEF Fillers, Managers
      <4>3. Cardinality(Fillers(i)') >= 1 /\ Cardinality(Fillers(i)') \in Nat /\ Cardinality(Managers(i)') \in Nat
        BY <4>2, Member, FS_Subset, FS_CardinalityType, SegAssumption DEF SegAssumption
      <4>4. segs'[i].n = Cardinality(Managers(i)') + Cardinality(Fillers(i)')
        BY DEF Counted, Holders
      <4>5. segs'[i].n >= 1
        BY <4>3, <4>4
      <4> QED BY <4>1, <4>5 DEF Alive, Absent
    <3> QED BY <1>1, <3>1 DEF Lives
  <2>4. ASSUME pc[d] \in {"attach", "fill"}, segs'[call[d].id].data # "none"
        PROVE  Lives(call[d].id) /\ Kept(call[d].id)
    <3>1. PICK i \in Ids : i = call[d].id /\ i < nextId
      BY <1>0, <2>4 DEF InCall
    <3>2. Lives(i)'
      BY <2>4, <3>1 DEF Lives
    <3> QED BY <3>1, <3>2, OldOne
  <2> QED BY <1>0, <1>1, <2>1, <2>2, <2>3, <2>4 DEF InCall, Lives, Kept
<1>2. ASSUME Acts(d) PROVE InCall(d)'
  <2>0. key # NoSeg => key \in Ids /\ key < nextId
    BY Older DEF Alive, TypeOK
  <2> USE DEF TypeOK
  <2>1. ASSUME pc'[d] = "idle" PROVE InCall(d)'
    BY <2>1 DEF InCall
  <2>2. CASE Begins(d)
    BY <2>2, BeginsIs DEF InCall
  <2>3. CASE Use(d)
    BY <1>1, <2>3 DEF Use
  <2>4. CASE Exit(d) \/ GetDetach(d) \/ Updated(d)
    BY <2>1, <2>4 DEF Exit, GetDetach, Updated, Returns, Goes
  <2>5. CASE GetInfo(d)
    <3>1. CASE pc'[d] = "create" /\ call' = call
      BY <2>5, <3>1 DEF GetInfo, InCall
    <3>2. CASE pc'[d] = "attach" /\ key # NoSeg /\ call' = [call EXCEPT ![d].id = key] /\ call[d].init = "yes"
      <4>1. call'[d].id = key /\ call'[d].op = "get" /\ call'[d].init = "yes" /\ nextId' = nextId
        BY <2>5, <3>2 DEF GetInfo, Call
      <4> QED BY <2>0, <3>2, <4>1 DEF InCall
    <3>3. \/ pc'[d] = "idle" \/ (pc'[d] = "create" /\ call' = call)
          \/ (pc'[d] = "attach" /\ key # NoSeg /\ call' = [call EXCEPT ![d].id = key] /\ call[d].init = "yes")
      <4>1. call[d].init \in {"no", "yes", "refuse"}
        BY DEF Call
      <4> QED BY <2>5, <4>1 DEF GetInfo, Goes, Returns, Exist
    <3> QED BY <2>1, <3>1, <3>2, <3>3
  <2>6. CASE Create(d)
    <3>1. CASE Exist
      BY <2>1, <2>6, <3>1 DEF Create, Exclusive, Returns, Goes
    <3>2. CASE ~Exist
      <4>1. /\ pc'[d] = "attach" /\ call'[d].id = nextId /\ call'[d].op = "get" /\ nextId \in Ids
            /\ nextId' = nextId + 1 /\ segs'[nextId].by = d
        BY <1>0, <2>6, <3>2 DEF Create, Goes, Call, InCall
      <4>2. nextId < nextId'
        BY <4>1, TypesAre
      <4> QED BY <4>1, <4>2 DEF InCall
    <3> QED BY <3>1, <3>2
  <2>7. CASE GetAttach(d)
    <3>1. CASE Lives(call[d].id) /\ segs' = Attached(segs, call[d].id) /\ pc'[d] = "fill" /\ call' = call
      <4>1. call[d].id \in Ids /\ call[d].op = "get" /\ nextId' = nextId /\ call[d].id < nextId
        BY <1>0, <2>7 DEF GetAttach, InCall
      <4>2. segs'[call[d].id].data = segs[call[d].id].data /\ segs'[call[d].id].by = segs[call[d].id].by
        <5>1. segs \in [Ids -> Segment]
          BY Zenon
        <5> QED BY <3>1, <4>1, <5>1, AttachedIs
      <4>3. call[d].init = "yes" \/ segs[call[d].id].by = d
        BY <1>0, <2>7, <3>1, <4>1 DEF GetAttach, InCall
      <4> QED BY <3>1, <4>1, <4>2, <4>3 DEF InCall, Lives
    <3>2. \/ pc'[d] = "idle"
          \/ Lives(call[d].id) /\ segs' = Attached(segs, call[d].id) /\ pc'[d] = "fill" /\ call' = call
      BY <2>7 DEF GetAttach, Goes, Returns
    <3> QED BY <2>1, <3>1, <3>2
  <2>8. CASE Fill(d)
    <3>1. call[d].id \in Ids /\ call[d].op = "get" /\ call[d].id < nextId
      BY <1>0, <2>8 DEF Fill, InCall
    <3>2. pc'[d] = "detach" /\ call' = call /\ nextId' = nextId /\ segs'[call[d].id].data = "init"
      BY <2>8, <3>1 DEF Fill, Goes, Segment
    <3> QED BY <3>1, <3>2 DEF InCall, Lives
  <2>9. CASE UpdateInfo(d)
    <3>1. call[d].op = "update" /\ key \in seen[d] /\ UNCHANGED <<segs, key, nextId, mgr, seen>>
      BY <1>0, <2>9 DEF UpdateInfo, InCall
    <3>2. CASE pc'[d] = "updated" /\ call' = call /\ Current(d)
      BY <1>0, <3>1, <3>2 DEF InCall, Current, Managed
    <3>3. CASE pc'[d] = "attach" /\ key # NoSeg /\ call' = [call EXCEPT ![d].id = key, ![d].size = segs[key].size]
      <4>1. call'[d].id = key /\ call'[d].op = "update" /\ call'[d].size = segs[key].size
        BY <3>1, <3>3 DEF Call
      <4> QED BY <2>0, <3>1, <3>3, <4>1 DEF InCall
    <3>4. \/ pc'[d] = "idle" \/ (pc'[d] = "updated" /\ call' = call /\ Current(d))
          \/ (pc'[d] = "attach" /\ key # NoSeg
                /\ call' = [call EXCEPT ![d].id = key, ![d].size = segs[key].size])
      BY <2>9 DEF UpdateInfo, Goes, Returns, Exist
    <3> QED BY <2>1, <3>2, <3>3, <3>4
  <2>10. CASE UpdateAttach(d)
    <3>1. CASE pc'[d] = "updated" /\ call' = call /\ mgr'[d].shm = call[d].id
      BY <1>0, <2>10, <3>1 DEF UpdateAttach, InCall
    <3>2. pc'[d] = "idle" \/ (pc'[d] = "updated" /\ call' = call /\ mgr'[d].shm = call[d].id)
      BY <2>10 DEF UpdateAttach, Goes, Returns
    <3> QED BY <2>1, <3>1, <3>2
  <2> QED BY <1>2, <2>2, <2>3, <2>4, <2>5, <2>6, <2>7, <2>8, <2>9, <2>10 DEF Acts
<1>3. Acts(d) \/ (pc'[d] = pc[d] /\ call'[d] = call[d] /\ mgr'[d] = mgr[d])
  <2>1. ASSUME NEW c \in Clients, Acts(c)
        PROVE  Acts(d) \/ (pc'[d] = pc[d] /\ call'[d] = call[d] /\ mgr'[d] = mgr[d])
    BY <2>1, Others
  <2>2. Remove \/ UNCHANGED vars => pc' = pc /\ call' = call /\ mgr' = mgr
    BY DEF Remove, vars
  <2> QED BY <2>1, <2>2, NextIs
<1> QED BY <1>1, <1>2, <1>3

---------------------------------------------------------------------------
(* The theorems. *)

LEMMA InitIInv == Init => IInv
<1> SUFFICES ASSUME Init PROVE IInv
  OBVIOUS
<1>1. TypeOK
  BY TypeInit
<1>2. Alive
  BY DEF Init, Alive
<1>3. Counted
  <2>1. ASSUME NEW i \in Ids PROVE segs[i].n = Holders(i)
    <3>1. Managers(i) = {} /\ Fillers(i) = {} /\ segs[i].n = 0
      BY TypesAre DEF Init, Managers, Fillers, Nothing, Absent
    <3> QED BY <3>1, FS_EmptySet DEF Holders
  <2> QED BY <2>1 DEF Counted
<1>4. \A c \in Clients : Managed(c) /\ InCall(c)
  BY DEF Init, Managed, InCall, Nothing
<1>5. \A i \in Ids : Made(i)
  BY DEF Init, Made, Absent
<1> QED BY <1>1, <1>2, <1>3, <1>4, <1>5 DEF IInv

LEMMA StepIInv == IInv /\ [Next]_vars => IInv'
<1> SUFFICES ASSUME IInv, [Next]_vars PROVE IInv'
  OBVIOUS
<1>1. TypeOK'
  BY TypeStep DEF IInv
<1>2. Counted'
  BY CountedStep DEF IInv
<1>3. Alive'
  BY <1>1, AliveStep DEF IInv
<1>4. \A c \in Clients : Managed(c)'
  BY <1>1, <1>2, <1>3, ManagedStep DEF IInv
<1>5. \A c \in Clients : InCall(c)'
  BY <1>1, <1>2, <1>3, InCallStep DEF IInv
<1>6. \A i \in Ids : Made(i)'
  BY <1>1, MadeStep DEF IInv
<1> QED BY <1>1, <1>2, <1>3, <1>4, <1>5, <1>6 DEF IInv

\* The invariant holds in every state that clients and administrator can reach.
THEOREM Invariant == Spec => []IInv
<1>1. Init => IInv
  BY InitIInv
<1>2. IInv /\ [Next]_vars => IInv'
  BY StepIInv
<1> QED BY <1>1, <1>2, PTL DEF Spec

\* Whoever gets a segment from get_shm or create_shm_init gets it filled, or its
\* maker is on the way to fill it or failed to: no other client can take its part.
THEOREM ReadyAlways == Spec => []Ready
<1>1. ASSUME IInv PROVE Ready
  <2>1. ASSUME NEW c \in Clients, got[c] # NoSeg, segs[got[c]].data = "zero"
        PROVE  got[c] \in unfilled \/ OnTheWay(segs[got[c]].by, got[c])
    BY <1>1, <2>1 DEF IInv, Made, TypeOK
  <2>2. ASSUME NEW c \in Clients, pc[c] = "fill" PROVE call[c].init = "yes" \/ segs[call[c].id].by = c
    BY <1>1, <2>2 DEF IInv, InCall
  <2> QED BY <2>1, <2>2 DEF Ready
<1> QED BY <1>1, Invariant, PTL

\* Through calls that fail half-way, exits and removals, shm_nattch is the number
\* of managers and calls that hold the segment, and no manager's pointer dangles.
THEOREM AttachmentsAlways == Spec => []AttachmentsKept
<1>1. IInv => AttachmentsKept
  BY DEF IInv, Counted, Managed, AttachmentsKept
<1> QED BY <1>1, Invariant, PTL

\* An update_shm_attach that succeeds leaves the manager on a segment the key
\* named while the call ran, however often it was removed and made again.
THEOREM UpdatedAlways == Spec => []UpdatedToCurrent
<1>1. IInv => UpdatedToCurrent
  BY DEF IInv, InCall, UpdatedToCurrent
<1> QED BY <1>1, Invariant, PTL

\* The three together, as the run checks them.
THEOREM SegmentsRightAlways == Spec => []SegmentsRight
<1>1. IInv => TypeOK
  BY DEF IInv
<1> QED BY <1>1, Invariant, ReadyAlways, AttachmentsAlways, UpdatedAlways, PTL DEF SegmentsRight

---------------------------------------------------------------------------
(* The configuration in a mapped file (tm_shm.c). *)

Blocks == 1..n
Loading == owner.pc \in {"first", "load", "copy"}
Reading(r) == reader[r].pc = "reads"

MmapTypes ==
  /\ n \in Nat \ {0}
  /\ file \in {"none", "empty", "sized"} /\ disturbed \subseteq Readers
  /\ mem = [i \in 1..2*n |-> mem[i]]
  /\ owner.pc \in {"down", "truncate", "up", "first", "load", "copy"}
  /\ Loading => owner = [pc |-> owner.pc, next |-> owner.next, v |-> owner.v] /\ owner.next \in 1..n+1
  /\ owner.pc = "copy" => owner.next <= n
  /\ reader = [r \in Readers |-> reader[r]]
  /\ \A r \in Readers : Reading(r) =>
       reader[r] = [pc |-> "reads", got |-> reader[r].got, loaded |-> reader[r].loaded]

\* The half that is loaded has what the callback has written so far.
HalfLoaded ==
  /\ owner.pc = "first" => \A i \in Blocks : i < owner.next => mem[i] = owner.v
  /\ owner.pc = "load" => \A i \in Blocks : i < owner.next => mem[n + i] = owner.v
  /\ owner.pc = "copy" => \A i \in Blocks : mem[n + i] = owner.v

\* A configuration is in use, in a file that has its size, until it is loaded
\* anew.
Used ==
  /\ cur # Zero => file = "sized"
  /\ cur # Zero /\ owner.pc # "copy" => \A i \in Blocks : mem[i] = cur
  /\ owner.pc \in {"first", "up", "load", "copy"} => file = "sized"

\* An undisturbed reader has read what is still there.
ReadIsThere ==
  \A r \in Readers : Reading(r) =>
    /\ Len(reader[r].got) \in 0..n /\ reader[r].got = [i \in 1..Len(reader[r].got) |-> reader[r].got[i]]
    /\ r \notin disturbed /\ reader[r].loaded =>
         /\ \A i, j \in Blocks : mem[i] = mem[j]
         /\ \A i \in 1..Len(reader[r].got) : reader[r].got[i] = mem[i]

NoBus == \A r \in Readers : reader[r].pc = "bus" => cur = Zero \/ file = "sized"

MmapInv == MmapTypes /\ HalfLoaded /\ Used /\ Mmap!InUse /\ ReadIsThere /\ NoBus

LEMMA MmapInit == MmapAssumption /\ Mmap!Init => MmapInv
  BY DEF MmapAssumption, Mmap!Init, MmapInv, MmapTypes, Reading, Loading, HalfLoaded, Used, Mmap!InUse, ReadIsThere,
    NoBus, Blocks

LEMMA MappingIsRight == MmapInv => Mmap!MappingRight
<1>1. ASSUME MmapInv, NEW r \in Readers, reader[r].pc = "reads", r \notin disturbed, reader[r].loaded,
             NEW i \in DOMAIN reader[r].got, NEW j \in DOMAIN reader[r].got
      PROVE  reader[r].got[i] = reader[r].got[j]
  <2>1. i \in 1..Len(reader[r].got) /\ j \in 1..Len(reader[r].got) /\ Len(reader[r].got) \in 0..n
    BY <1>1 DEF MmapInv, ReadIsThere, Reading
  <2>2. n \in Nat
    BY <1>1 DEF MmapInv, MmapTypes
  <2>3. i \in Blocks /\ j \in Blocks
    BY <2>1, <2>2 DEF Blocks
  <2>4. (\A k, l \in Blocks : mem[k] = mem[l]) /\ \A k \in 1..Len(reader[r].got) : reader[r].got[k] = mem[k]
    BY <1>1, Zenon DEF MmapInv, ReadIsThere, Reading
  <2> QED
    BY <2>1, <2>3, <2>4
<1> QED
  BY <1>1 DEF MmapInv, NoBus, Mmap!MappingRight, Mmap!ReadsWhole

---------------------------------------------------------------------------
(* The steps. *)

\* What an undisturbed reader has read.
IsThere(r) ==
  /\ \A i, j \in Blocks : mem[i] = mem[j]
  /\ \A i \in 1..Len(reader[r].got) : reader[r].got[i] = mem[i]

\* A step that leaves the readers alone, and the first half unless it disturbs them.
LEMMA MmapQuiet ==
  ASSUME MmapInv, MmapTypes', HalfLoaded', Mmap!InUse', Used',
         UNCHANGED <<n, reader>>,
         \/ disturbed' = disturbed /\ \A i \in Blocks : mem'[i] = mem[i]
         \/ Mmap!Disturb,
         cur = Zero \/ file = "sized" => cur' = Zero \/ file' = "sized"
  PROVE  MmapInv'
<1>1. ASSUME NEW r \in Readers, Reading(r), r \notin disturbed', reader[r].loaded
      PROVE  IsThere(r)'
  <2>1. disturbed' = disturbed /\ \A i \in Blocks : mem'[i] = mem[i]
    BY <1>1 DEF Mmap!Disturb, Reading
  <2>2. IsThere(r) /\ Len(reader[r].got) \in 0..n /\ n \in Nat
    BY <1>1, <2>1 DEF MmapInv, ReadIsThere, IsThere, MmapTypes
  <2>3. \A i \in 1..Len(reader[r].got) : i \in Blocks
    BY <2>2 DEF Blocks
  <2>4. Blocks' = Blocks
    BY DEF Blocks
  <2> QED
    BY <2>1, <2>2, <2>3, <2>4 DEF IsThere
<1>2. ReadIsThere'
  <2>1. \A r \in Readers : Reading(r)' <=> Reading(r)
    BY DEF Reading
  <2> QED
    BY <1>1, <2>1 DEF MmapInv, ReadIsThere, IsThere
<1>3. NoBus'
  BY DEF MmapInv, NoBus
<1> QED
  BY <1>2, <1>3 DEF MmapInv

LEMMA Halves ==
  ASSUME n \in Nat \ {0}
  PROVE  /\ Blocks \subseteq Nat \ {0}
         /\ \A i \in Blocks : i \in 1..2*n /\ n + i \in 1..2*n /\ i <= n
         /\ \A i, j \in Blocks : n + i # j /\ (n + i = n + j => i = j)
  BY DEF Blocks

LEMMA EditStep == ASSUME MmapInv, Mmap!Edit PROVE MmapInv'
<1> n \in Nat \ {0} /\ Blocks \subseteq Nat \ {0}
  BY Halves DEF MmapInv, MmapTypes
<1>1. owner' = owner
  BY DEF Mmap!Edit, MmapInv, MmapTypes, Reading, Loading
<1>2. mem' = mem
  BY <1>1, Halves DEF Mmap!Edit, MmapInv, MmapTypes
<1>3. UNCHANGED <<n, file, reader, cur, overrun, disturbed>>
  BY DEF Mmap!Edit
<1>4. MmapTypes'
  BY <1>1, <1>2, <1>3 DEF MmapInv, MmapTypes, Reading, Loading
<1>5. Blocks' = Blocks
  BY <1>3 DEF Blocks
<1>6. HalfLoaded'
  BY <1>1, <1>2, <1>3, <1>5 DEF MmapInv, HalfLoaded
<1>7. Used'
  BY <1>1, <1>2, <1>3, <1>5 DEF MmapInv, HalfLoaded, Used, Mmap!InUse
<1>8. \A i \in 1..n : mem'[i] = mem[i] \/ Mmap!Disturb
  BY <1>2, <1>3 DEF Blocks
<1>9. Mmap!InUse'
  BY <1>1, <1>2, <1>3 DEF MmapInv, HalfLoaded, Used, Mmap!InUse, Blocks
<1> QED
  BY <1>3, <1>4, <1>6, <1>7, <1>8, <1>9, MmapQuiet DEF Blocks

LEMMA OpenStep == ASSUME MmapInv, Mmap!Open PROVE MmapInv'
<1> n \in Nat \ {0} /\ Blocks \subseteq Nat \ {0}
  BY Halves DEF MmapInv, MmapTypes
<1>1. owner'.pc = "truncate" /\ owner.pc = "down"
  BY DEF Mmap!Open, MmapInv, MmapTypes, Reading, Loading
<1>2. mem' = mem
  BY <1>1, Halves DEF Mmap!Open, MmapInv, MmapTypes
<1>3. /\ (file = "sized" => file' = "sized") /\ file' \in {"empty", file}
      /\ UNCHANGED <<n, reader, cur, overrun, disturbed>>
  BY DEF Mmap!Open
<1>4. MmapTypes'
  BY <1>1, <1>2, <1>3 DEF MmapInv, MmapTypes, Reading, Loading
<1>5. Blocks' = Blocks
  BY <1>3 DEF Blocks
<1>6. HalfLoaded'
  BY <1>1, <1>2, <1>3, <1>5 DEF MmapInv, HalfLoaded
<1>7. Used'
  BY <1>1, <1>2, <1>3, <1>5 DEF MmapInv, HalfLoaded, Used, Mmap!InUse
<1>8. \A i \in 1..n : mem'[i] = mem[i] \/ Mmap!Disturb
  BY <1>2, <1>3 DEF Blocks
<1>9. Mmap!InUse'
  BY <1>1, <1>2, <1>3 DEF MmapInv, HalfLoaded, Used, Mmap!InUse, Blocks
<1> QED
  BY <1>3, <1>4, <1>6, <1>7, <1>8, <1>9, MmapQuiet DEF Blocks

LEMMA TruncateStep == ASSUME MmapInv, Mmap!Truncate PROVE MmapInv'
<1> n \in Nat \ {0} /\ Blocks \subseteq Nat \ {0}
  BY Halves DEF MmapInv, MmapTypes
<1>1. /\ owner' = [pc |-> "first", next |-> 1, v |-> version]
      /\ owner'.pc = "first" /\ owner'.next = 1 /\ owner'.v = version /\ owner.pc = "truncate"
  BY DEF Mmap!Truncate, MmapInv, MmapTypes, Reading, Loading
<1>2. mem' = mem
  BY <1>1, Halves DEF Mmap!Truncate, MmapInv, MmapTypes
<1>3. file' = "sized" /\ UNCHANGED <<n, reader, cur, overrun, disturbed>>
  BY DEF Mmap!Truncate
<1>4. MmapTypes'
  BY <1>1, <1>2, <1>3 DEF MmapInv, MmapTypes, Reading, Loading
<1>5. Blocks' = Blocks
  BY <1>3 DEF Blocks
<1>6. HalfLoaded'
  BY <1>1, <1>2, <1>3, <1>5 DEF MmapInv, HalfLoaded
<1>7. Used'
  BY <1>1, <1>2, <1>3, <1>5 DEF MmapInv, HalfLoaded, Used, Mmap!InUse
<1>8. \A i \in 1..n : mem'[i] = mem[i] \/ Mmap!Disturb
  BY <1>2, <1>3 DEF Blocks
<1>9. Mmap!InUse'
  BY <1>1, <1>2, <1>3 DEF MmapInv, HalfLoaded, Used, Mmap!InUse, Blocks
<1> QED
  BY <1>3, <1>4, <1>6, <1>7, <1>8, <1>9, MmapQuiet DEF Blocks

LEMMA FirstLoadStep == ASSUME MmapInv, Mmap!FirstLoad PROVE MmapInv'
<1> n \in Nat \ {0} /\ Blocks \subseteq Nat \ {0}
  BY Halves DEF MmapInv, MmapTypes
<1>1. /\ owner' = [pc |-> "first", next |-> owner.next + 1, v |-> owner.v]
      /\ owner'.pc = "first" /\ owner'.next = owner.next + 1 /\ owner'.v = owner.v
      /\ owner.pc = "first" /\ owner.next \in Blocks
  BY DEF Mmap!FirstLoad, MmapInv, MmapTypes, Reading, Loading, Blocks
<1>2. /\ mem' = [i \in 1..2*n |-> mem'[i]]
      /\ \A i \in Blocks : mem'[i] = IF i = owner.next THEN owner.v ELSE mem[i]
  BY <1>1, Halves DEF Mmap!FirstLoad, MmapInv, MmapTypes
<1>3. cur' = Zero /\ Mmap!Disturb /\ UNCHANGED <<n, file, reader, overrun>>
  BY DEF Mmap!FirstLoad
<1>4. MmapTypes'
  BY <1>1, <1>2, <1>3 DEF MmapInv, MmapTypes, Reading, Loading, Blocks, Mmap!Disturb
<1>5. Blocks' = Blocks
  BY <1>3 DEF Blocks
<1>6. HalfLoaded'
  BY <1>1, <1>2, <1>3, <1>5 DEF MmapInv, HalfLoaded
<1>7. Used'
  BY <1>1, <1>2, <1>3, <1>5 DEF MmapInv, HalfLoaded, Used, Mmap!InUse
<1>8. \A i \in 1..n : mem'[i] = mem[i] \/ Mmap!Disturb
  BY <1>2, <1>3 DEF Blocks
<1>9. Mmap!InUse'
  BY <1>1, <1>2, <1>3 DEF MmapInv, HalfLoaded, Used, Mmap!InUse, Blocks
<1> QED
  BY <1>3, <1>4, <1>6, <1>7, <1>8, <1>9, MmapQuiet DEF Blocks

LEMMA FirstLoadedStep == ASSUME MmapInv, Mmap!FirstLoaded PROVE MmapInv'
<1> n \in Nat \ {0} /\ Blocks \subseteq Nat \ {0}
  BY Halves DEF MmapInv, MmapTypes
<1>1. owner' = [pc |-> "up"] /\ owner'.pc = "up" /\ owner.pc = "first" /\ owner.next = n + 1
  BY DEF Mmap!FirstLoaded, MmapInv, MmapTypes, Reading, Loading
<1>2. mem' = mem
  BY <1>1, Halves DEF Mmap!FirstLoaded, MmapInv, MmapTypes
<1>3. cur' = owner.v /\ UNCHANGED <<n, file, reader, overrun, disturbed>>
  BY DEF Mmap!FirstLoaded
<1>4. MmapTypes'
  BY <1>1, <1>2, <1>3 DEF MmapInv, MmapTypes, Reading, Loading
<1>5. Blocks' = Blocks
  BY <1>3 DEF Blocks
<1>6. HalfLoaded'
  BY <1>1, <1>2, <1>3, <1>5 DEF MmapInv, HalfLoaded
<1>7. Used'
  BY <1>1, <1>2, <1>3, <1>5 DEF MmapInv, HalfLoaded, Used, Mmap!InUse, Blocks
<1>8. \A i \in 1..n : mem'[i] = mem[i] \/ Mmap!Disturb
  BY <1>2, <1>3 DEF Blocks
<1>9. Mmap!InUse'
  BY <1>1, <1>2, <1>3 DEF MmapInv, HalfLoaded, Used, Mmap!InUse, Blocks
<1>10. file = "sized"
  BY <1>1 DEF MmapInv, Used
<1> QED
  BY <1>3, <1>10, <1>4, <1>6, <1>7, <1>8, <1>9, MmapQuiet DEF Blocks

LEMMA DownStep == ASSUME MmapInv, Mmap!Down PROVE MmapInv'
<1> n \in Nat \ {0} /\ Blocks \subseteq Nat \ {0}
  BY Halves DEF MmapInv, MmapTypes
<1>1. owner' = [pc |-> "down"] /\ owner'.pc = "down" /\ owner.pc # "down"
  BY DEF Mmap!Down, MmapInv, MmapTypes, Reading, Loading
<1>2. mem' = mem
  BY <1>1, Halves DEF Mmap!Down, MmapInv, MmapTypes
<1>3. /\ cur' = IF owner.pc = "up" \/ owner.pc = "load" THEN cur ELSE Zero
      /\ UNCHANGED <<n, file, reader, overrun, disturbed>>
  BY DEF Mmap!Down
<1>4. MmapTypes'
  BY <1>1, <1>2, <1>3 DEF MmapInv, MmapTypes, Reading, Loading
<1>5. Blocks' = Blocks
  BY <1>3 DEF Blocks
<1>6. HalfLoaded'
  BY <1>1, <1>2, <1>3, <1>5 DEF MmapInv, HalfLoaded
<1>7. Used'
  BY <1>1, <1>2, <1>3, <1>5 DEF MmapInv, HalfLoaded, Used, Mmap!InUse
<1>8. \A i \in 1..n : mem'[i] = mem[i] \/ Mmap!Disturb
  BY <1>2, <1>3 DEF Blocks
<1>9. Mmap!InUse'
  BY <1>1, <1>2, <1>3 DEF MmapInv, HalfLoaded, Used, Mmap!InUse, Blocks
<1> QED
  BY <1>3, <1>4, <1>6, <1>7, <1>8, <1>9, MmapQuiet DEF Blocks

LEMMA UpdateStep == ASSUME MmapInv, Mmap!Update PROVE MmapInv'
<1> n \in Nat \ {0} /\ Blocks \subseteq Nat \ {0}
  BY Halves DEF MmapInv, MmapTypes
<1>1. /\ owner' = [pc |-> "load", next |-> 1, v |-> version]
      /\ owner'.pc = "load" /\ owner'.next = 1 /\ owner'.v = version /\ owner.pc = "up"
  BY DEF Mmap!Update, MmapInv, MmapTypes, Reading, Loading
<1>2. mem' = mem
  BY <1>1, Halves DEF Mmap!Update, MmapInv, MmapTypes
<1>3. UNCHANGED <<n, file, reader, cur, overrun, disturbed>>
  BY DEF Mmap!Update
<1>4. MmapTypes'
  BY <1>1, <1>2, <1>3 DEF MmapInv, MmapTypes, Reading, Loading
<1>5. Blocks' = Blocks
  BY <1>3 DEF Blocks
<1>6. HalfLoaded'
  BY <1>1, <1>2, <1>3, <1>5 DEF MmapInv, HalfLoaded
<1>7. Used'
  BY <1>1, <1>2, <1>3, <1>5 DEF MmapInv, HalfLoaded, Used, Mmap!InUse
<1>8. \A i \in 1..n : mem'[i] = mem[i] \/ Mmap!Disturb
  BY <1>2, <1>3 DEF Blocks
<1>9. Mmap!InUse'
  BY <1>1, <1>2, <1>3 DEF MmapInv, HalfLoaded, Used, Mmap!InUse, Blocks
<1> QED
  BY <1>3, <1>4, <1>6, <1>7, <1>8, <1>9, MmapQuiet DEF Blocks

LEMMA LoadStep == ASSUME MmapInv, Mmap!Load PROVE MmapInv'
<1> n \in Nat \ {0} /\ Blocks \subseteq Nat \ {0}
  BY Halves DEF MmapInv, MmapTypes
<1>1. /\ owner' = [pc |-> "load", next |-> owner.next + 1, v |-> owner.v]
      /\ owner'.pc = "load" /\ owner'.next = owner.next + 1 /\ owner'.v = owner.v
      /\ owner.pc = "load" /\ owner.next \in Blocks
  BY DEF Mmap!Load, MmapInv, MmapTypes, Reading, Loading, Blocks, Mmap!Half
<1>2. /\ mem' = [i \in 1..2*n |-> mem'[i]] /\ \A i \in Blocks : mem'[i] = mem[i]
      /\ \A i \in Blocks : mem'[n + i] = IF i = owner.next THEN owner.v ELSE mem[n + i]
  <2>1. /\ mem = [i \in 1..2*n |-> mem[i]] /\ mem' = [mem EXCEPT ![n + owner.next] = owner.v]
        /\ owner.next \in Blocks
    BY <1>1 DEF Mmap!Load, Mmap!Half, MmapInv, MmapTypes
  <2> QED
    BY <2>1, Halves
<1>3. UNCHANGED <<n, file, reader, cur, overrun, disturbed>>
  BY DEF Mmap!Load, Mmap!Half
<1>4. MmapTypes'
  BY <1>1, <1>2, <1>3 DEF MmapInv, MmapTypes, Reading, Loading, Blocks
<1>5. Blocks' = Blocks
  BY <1>3 DEF Blocks
<1>6. HalfLoaded'
  BY <1>1, <1>2, <1>3, <1>5 DEF MmapInv, HalfLoaded
<1>7. Used'
  BY <1>1, <1>2, <1>3, <1>5 DEF MmapInv, HalfLoaded, Used, Mmap!InUse
<1>8. \A i \in 1..n : mem'[i] = mem[i] \/ Mmap!Disturb
  BY <1>2, <1>3 DEF Blocks
<1>9. Mmap!InUse'
  BY <1>1, <1>2, <1>3 DEF MmapInv, HalfLoaded, Used, Mmap!InUse, Blocks
<1> QED
  BY <1>3, <1>4, <1>6, <1>7, <1>8, <1>9, MmapQuiet DEF Blocks

LEMMA LoadFailsStep == ASSUME MmapInv, Mmap!LoadFails PROVE MmapInv'
<1> n \in Nat \ {0} /\ Blocks \subseteq Nat \ {0}
  BY Halves DEF MmapInv, MmapTypes
<1>1. owner' = [pc |-> "up"] /\ owner'.pc = "up" /\ owner.pc = "load"
  BY DEF Mmap!LoadFails, MmapInv, MmapTypes, Reading, Loading
<1>2. mem' = mem
  BY <1>1, Halves DEF Mmap!LoadFails, MmapInv, MmapTypes
<1>3. UNCHANGED <<n, file, reader, cur, overrun, disturbed>>
  BY DEF Mmap!LoadFails
<1>4. MmapTypes'
  BY <1>1, <1>2, <1>3 DEF MmapInv, MmapTypes, Reading, Loading
<1>5. Blocks' = Blocks
  BY <1>3 DEF Blocks
<1>6. HalfLoaded'
  BY <1>1, <1>2, <1>3, <1>5 DEF MmapInv, HalfLoaded
<1>7. Used'
  BY <1>1, <1>2, <1>3, <1>5 DEF MmapInv, HalfLoaded, Used, Mmap!InUse
<1>8. \A i \in 1..n : mem'[i] = mem[i] \/ Mmap!Disturb
  BY <1>2, <1>3 DEF Blocks
<1>9. Mmap!InUse'
  BY <1>1, <1>2, <1>3 DEF MmapInv, HalfLoaded, Used, Mmap!InUse, Blocks
<1> QED
  BY <1>3, <1>4, <1>6, <1>7, <1>8, <1>9, MmapQuiet DEF Blocks

LEMMA LoadedStep == ASSUME MmapInv, Mmap!Loaded PROVE MmapInv'
<1> n \in Nat \ {0} /\ Blocks \subseteq Nat \ {0}
  BY Halves DEF MmapInv, MmapTypes
<1>1. /\ owner' = [pc |-> "copy", next |-> 1, v |-> owner.v]
      /\ owner'.pc = "copy" /\ owner'.next = 1 /\ owner'.v = owner.v
      /\ owner.pc = "load" /\ owner.next = n + 1
  BY DEF Mmap!Loaded, MmapInv, MmapTypes, Reading, Loading
<1>2. mem' = mem
  BY <1>1, Halves DEF Mmap!Loaded, MmapInv, MmapTypes
<1>3. UNCHANGED <<n, file, reader, cur, overrun, disturbed>>
  BY DEF Mmap!Loaded
<1>4. MmapTypes'
  BY <1>1, <1>2, <1>3 DEF MmapInv, MmapTypes, Reading, Loading
<1>5. Blocks' = Blocks
  BY <1>3 DEF Blocks
<1>6. HalfLoaded'
  BY <1>1, <1>2, <1>3, <1>5, Halves DEF MmapInv, HalfLoaded
<1>7. Used'
  BY <1>1, <1>2, <1>3, <1>5, Halves DEF MmapInv, HalfLoaded, Used, Mmap!InUse
<1>8. \A i \in 1..n : mem'[i] = mem[i] \/ Mmap!Disturb
  BY <1>2, <1>3 DEF Blocks
<1>9. Mmap!InUse'
  BY <1>1, <1>2, <1>3, Halves DEF MmapInv, HalfLoaded, Used, Mmap!InUse, Blocks
<1> QED
  BY <1>3, <1>4, <1>6, <1>7, <1>8, <1>9, MmapQuiet DEF Blocks

LEMMA CopyStep == ASSUME MmapInv, Mmap!Copy PROVE MmapInv'
<1> n \in Nat \ {0} /\ Blocks \subseteq Nat \ {0}
  BY Halves DEF MmapInv, MmapTypes
<1>1. /\ owner' = [pc |-> "copy", next |-> owner.next + 1, v |-> owner.v]
      /\ owner'.pc = "copy" /\ owner'.next = owner.next + 1 /\ owner'.v = owner.v
      /\ owner.pc = "copy" /\ owner.next \in Blocks /\ owner.next < n
  BY DEF Mmap!Copy, MmapInv, MmapTypes, Reading, Loading, Blocks
<1>2. /\ mem' = [i \in 1..2*n |-> mem'[i]]
      /\ \A i \in Blocks : mem'[i] = IF i = owner.next THEN mem[n + i] ELSE mem[i]
      /\ \A i \in Blocks : mem'[n + i] = mem[n + i]
  BY <1>1, Halves DEF Mmap!Copy, MmapInv, MmapTypes
<1>3. Mmap!Disturb /\ UNCHANGED <<n, file, reader, cur, overrun>>
  BY DEF Mmap!Copy
<1>4. MmapTypes'
  BY <1>1, <1>2, <1>3 DEF MmapInv, MmapTypes, Reading, Loading, Blocks, Mmap!Disturb
<1>5. Blocks' = Blocks
  BY <1>3 DEF Blocks
<1>6. HalfLoaded'
  BY <1>1, <1>2, <1>3, <1>5 DEF MmapInv, HalfLoaded
<1>7. Used'
  BY <1>1, <1>2, <1>3, <1>5 DEF MmapInv, HalfLoaded, Used, Mmap!InUse
<1>8. \A i \in 1..n : mem'[i] = mem[i] \/ Mmap!Disturb
  BY <1>2, <1>3 DEF Blocks
<1>9. Mmap!InUse'
  BY <1>1, <1>2, <1>3 DEF MmapInv, HalfLoaded, Used, Mmap!InUse, Blocks
<1> QED
  BY <1>3, <1>4, <1>6, <1>7, <1>8, <1>9, MmapQuiet DEF Blocks

LEMMA CopyLastStep == ASSUME MmapInv, Mmap!CopyLast PROVE MmapInv'
<1> n \in Nat \ {0} /\ Blocks \subseteq Nat \ {0}
  BY Halves DEF MmapInv, MmapTypes
<1>1. owner' = [pc |-> "up"] /\ owner'.pc = "up" /\ owner.pc = "copy" /\ owner.next = n
  BY DEF Mmap!CopyLast, MmapInv, MmapTypes, Reading, Loading, Mmap!LastLength
<1>2. /\ mem' = [i \in 1..2*n |-> mem'[i]]
      /\ \A i \in 1..n : i < n => mem'[i] = mem[i]
      /\ mem'[n] = IF n = 1 THEN mem[n] ELSE mem[n + n]
  BY <1>1, Halves DEF Mmap!CopyLast, MmapInv, MmapTypes, Mmap!LastLength
<1>3. /\ Mmap!Disturb /\ cur' = (IF n = 1 THEN cur ELSE owner.v) /\ UNCHANGED <<n, file, reader>>
      /\ overrun' = (overrun \/ n + (n - 1) - 1 + n > 2*n)
  BY DEF Mmap!CopyLast, Mmap!LastLength
<1>4. MmapTypes'
  BY <1>1, <1>2, <1>3 DEF MmapInv, MmapTypes, Reading, Loading, Mmap!Disturb
<1>5. Blocks' = Blocks
  BY <1>3 DEF Blocks
<1>6. HalfLoaded'
  BY <1>1, <1>2, <1>3, <1>5 DEF MmapInv, HalfLoaded
<1>7. Used'
  BY <1>1, <1>2, <1>3, <1>5 DEF MmapInv, HalfLoaded, Used, Mmap!InUse, Blocks
<1>8. \A i \in 1..n : mem'[i] = mem[i] \/ Mmap!Disturb
  BY <1>2, <1>3 DEF Blocks
<1>9. Mmap!InUse'
  <2>1. overrun' => n > 2
    <3>1. (overrun => n > 2) /\ (n + (n - 1) - 1 + n > 2*n => n > 2)
      BY DEF MmapInv, Mmap!InUse
    <3> QED
      BY <1>3, <3>1, Zenon
  <2>2. \A i \in 1..n : mem'[i] = cur'
    <3>1. mem'[n] = cur' /\ \A i \in 1..n : i < n => mem[i] = cur'
      BY <1>1, <1>2, <1>3 DEF MmapInv, HalfLoaded, Mmap!InUse, Blocks
    <3> QED
      BY <1>2, <3>1
  <2> QED
    BY <1>1, <1>3, <2>1, <2>2 DEF Mmap!InUse
<1>10. file = "sized"
  BY <1>1 DEF MmapInv, Used
<1> QED
  BY <1>3, <1>4, <1>6, <1>7, <1>8, <1>9, <1>10, MmapQuiet DEF Blocks

---------------------------------------------------------------------------
(* The readers. *)

LEMMA AttachStep == ASSUME MmapInv, NEW r \in Readers, Mmap!Attach(r) PROVE MmapInv'
<1> DEFINE Has == cur # Zero
<1>1. /\ reader[r].pc = "off" /\ UNCHANGED <<n, file, mem, owner, version, cur, overrun>>
      /\ reader' = [reader EXCEPT ![r] = [pc |-> "reads", got |-> <<>>, loaded |-> Has]]
      /\ disturbed' = IF owner.pc \in {"copy", "first"} THEN disturbed \cup {r} ELSE disturbed \ {r}
  BY DEF Mmap!Attach
<1> HIDE DEF Has
<1>2. /\ reader' = [q \in Readers |-> reader'[q]]
      /\ reader'[r] = [pc |-> "reads", got |-> <<>>, loaded |-> Has]
      /\ \A q \in Readers : q # r => reader'[q] = reader[q]
  BY <1>1 DEF MmapInv, MmapTypes
<1>3. MmapTypes' /\ HalfLoaded' /\ Used' /\ Mmap!InUse' /\ Blocks' = Blocks
  BY <1>1, <1>2 DEF MmapInv, MmapTypes, Reading, Loading, HalfLoaded, Used, Mmap!InUse, Blocks
<1>4. reader'[r].pc = "reads" /\ reader'[r].got = <<>> /\ reader'[r].loaded = Has
  BY <1>2
<1>5. ReadIsThere'
  <2>1. ASSUME r \notin disturbed', Has PROVE \A i, j \in Blocks : mem[i] = mem[j]
    <3>1. owner.pc # "copy" /\ cur # Zero
      BY <1>1, <2>1 DEF Has
    <3> QED
      BY <3>1 DEF MmapInv, Used
  <2>2. Len(reader'[r].got) = 0 /\ reader'[r].got = [i \in 1..0 |-> reader'[r].got[i]] /\ n \in Nat
    BY <1>4 DEF MmapInv, MmapTypes
  <2>3. ASSUME NEW q \in Readers, q # r
        PROVE  reader'[q] = reader[q] /\ (q \in disturbed' <=> q \in disturbed)
    BY <1>1, <1>2, <2>3
  <2> QED
    BY <1>1, <1>3, <1>4, <2>1, <2>2, <2>3 DEF MmapInv, ReadIsThere, Reading
<1>6. NoBus'
  BY <1>1, <1>2, <1>4 DEF MmapInv, NoBus
<1> QED
  BY <1>3, <1>5, <1>6 DEF MmapInv

LEMMA DetachStep == ASSUME MmapInv, NEW r \in Readers, Mmap!Detach(r) PROVE MmapInv'
<1>1. /\ UNCHANGED <<n, file, mem, owner, version, cur, overrun>>
      /\ reader' = [reader EXCEPT ![r] = [pc |-> "off"]] /\ disturbed' = disturbed \ {r}
  BY DEF Mmap!Detach
<1>2. /\ reader' = [q \in Readers |-> reader'[q]] /\ reader'[r].pc = "off"
      /\ \A q \in Readers : q # r => reader'[q] = reader[q]
  BY <1>1 DEF MmapInv, MmapTypes
<1>3. MmapTypes' /\ HalfLoaded' /\ Used' /\ Mmap!InUse' /\ Blocks' = Blocks
  BY <1>1, <1>2 DEF MmapInv, MmapTypes, Reading, Loading, HalfLoaded, Used, Mmap!InUse, Blocks
<1>4. ReadIsThere'
  <2>1. ASSUME NEW q \in Readers, q # r
        PROVE  reader'[q] = reader[q] /\ (q \in disturbed' <=> q \in disturbed)
    BY <1>1, <1>2, <2>1
  <2> QED
    BY <1>1, <1>2, <1>3, <2>1 DEF MmapInv, ReadIsThere, Reading
<1>5. NoBus'
  BY <1>1, <1>2 DEF MmapInv, NoBus
<1> QED
  BY <1>3, <1>4, <1>5 DEF MmapInv

LEMMA GotMore ==
  ASSUME NEW x, x = [pc |-> "reads", got |-> x.got, loaded |-> x.loaded], NEW g1
  PROVE  [x EXCEPT !.got = g1] = [pc |-> "reads", got |-> g1, loaded |-> x.loaded]
  OBVIOUS

LEMMA ReadStep == ASSUME MmapInv, NEW r \in Readers, Mmap!Read(r) PROVE MmapInv'
<1>1. /\ UNCHANGED <<n, file, mem, owner, version, cur, overrun, disturbed>>
      /\ reader[r].pc = "reads" /\ Len(reader[r].got) < n /\ Blocks' = Blocks
  BY DEF Mmap!Read, Blocks
<1>2. CASE file = "sized"
  <2> DEFINE l == Len(reader[r].got)
             b == mem[l + 1]
  <2>1. reader' = [reader EXCEPT ![r].got = Append(@, b)]
    BY <1>2 DEF Mmap!Read
  <2>2. l \in 0..n-1 /\ n \in Nat /\ reader[r].got = [i \in 1..l |-> reader[r].got[i]]
    BY <1>1 DEF MmapInv, MmapTypes, ReadIsThere, Reading
  <2>3. reader[r] = [pc |-> "reads", got |-> reader[r].got, loaded |-> reader[r].loaded]
    BY <1>1 DEF MmapInv, MmapTypes, Reading
  <2> HIDE DEF l, b
  <2>4. /\ reader' = [q \in Readers |-> reader'[q]]
        /\ reader'[r] = [pc |-> "reads", got |-> Append(reader[r].got, b), loaded |-> reader[r].loaded]
        /\ \A q \in Readers : q # r => reader'[q] = reader[q]
    <3>1. reader = [q \in Readers |-> reader[q]]
      BY DEF MmapInv, MmapTypes
    <3>2. reader'[r] = [reader[r] EXCEPT !.got = Append(reader[r].got, b)]
      BY <2>1, <3>1
    <3>3. /\ reader' = [q \in Readers |-> reader'[q]]
          /\ \A q \in Readers : q # r => reader'[q] = reader[q]
      BY <2>1, <3>1
    <3>4. [reader[r] EXCEPT !.got = Append(reader[r].got, b)]
            = [pc |-> "reads", got |-> Append(reader[r].got, b), loaded |-> reader[r].loaded]
      BY <2>3, GotMore, Zenon
    <3> QED
      BY <3>2, <3>3, <3>4
  <2>5. reader'[r].pc = "reads" /\ reader'[r].got = Append(reader[r].got, b) /\ reader'[r].loaded = reader[r].loaded
    BY <2>4
  <2>6. MmapTypes' /\ HalfLoaded' /\ Used' /\ Mmap!InUse'
    <3>1. reader'[r] = [pc |-> "reads", got |-> reader'[r].got, loaded |-> reader'[r].loaded]
      BY <2>4, <2>5
    <3>2. MmapTypes'
      BY <1>1, <2>4, <3>1 DEF MmapInv, MmapTypes, Loading, Reading
    <3> QED
      BY <1>1, <3>2 DEF MmapInv, HalfLoaded, Used, Mmap!InUse
  <2>7. /\ Len(reader'[r].got) = l + 1 /\ reader'[r].got = [i \in 1..l + 1 |-> reader'[r].got[i]]
        /\ reader'[r].got[l + 1] = b /\ \A i \in 1..l : reader'[r].got[i] = reader[r].got[i]
    <3>1. Append(reader[r].got, b) = [i \in 1..l + 1 |-> IF i = l + 1 THEN b ELSE reader[r].got[i]]
      BY <2>2 DEF l
    <3> QED
      BY <2>2, <2>5, <3>1
  <2>8. ASSUME r \notin disturbed, reader[r].loaded PROVE IsThere(r)'
    <3>1. (\A i, j \in Blocks : mem[i] = mem[j]) /\ \A i \in 1..l : reader[r].got[i] = mem[i]
      BY <1>1, <2>8 DEF MmapInv, ReadIsThere, Reading, l
    <3>2. \A i \in 1..l + 1 : reader'[r].got[i] = mem[i]
      <4>1. ASSUME NEW i \in 1..l + 1 PROVE i = l + 1 \/ i \in 1..l
        BY <2>2
      <4> QED
        BY <2>7, <3>1, <4>1 DEF b
    <3> QED
      BY <1>1, <2>2, <2>7, <3>1, <3>2 DEF IsThere
  <2>9. ReadIsThere'
    <3>1. Len(reader'[r].got) \in 0..n /\ reader'[r].got = [i \in 1..Len(reader'[r].got) |-> reader'[r].got[i]]
      BY <2>2, <2>7
    <3>2. \A q \in Readers : q # r => (Reading(q)' <=> Reading(q)) /\ (IsThere(q)' <=> IsThere(q))
      BY <1>1, <2>4 DEF Reading, IsThere
    <3>3. /\ Reading(r)' => Len(reader'[r].got) \in 0..n
                              /\ reader'[r].got = [i \in 1..Len(reader'[r].got) |-> reader'[r].got[i]]
          /\ r \notin disturbed' /\ reader'[r].loaded => IsThere(r)'
      BY <1>1, <2>5, <2>8, <3>1
    <3>4. ASSUME NEW q \in Readers, q # r, Reading(q)'
          PROVE  /\ Len(reader'[q].got) \in 0..n
                 /\ reader'[q].got = [i \in 1..Len(reader'[q].got) |-> reader'[q].got[i]]
                 /\ q \notin disturbed' /\ reader'[q].loaded => IsThere(q)'
      <4>1. reader'[q] = reader[q] /\ Reading(q)
        BY <2>4, <3>2, <3>4
      <4> QED
        BY <1>1, <3>2, <3>4, <4>1 DEF MmapInv, ReadIsThere, IsThere
    <3> QED
      BY <1>1, <3>3, <3>4 DEF ReadIsThere, IsThere
  <2>10. NoBus'
    BY <1>1, <1>2 DEF NoBus
  <2> QED
    BY <2>6, <2>9, <2>10 DEF MmapInv
<1>3. CASE file # "sized"
  <2>1. reader' = [reader EXCEPT ![r] = [pc |-> "bus"]]
    BY <1>3 DEF Mmap!Read
  <2>2. /\ reader' = [q \in Readers |-> reader'[q]] /\ reader'[r].pc = "bus"
        /\ \A q \in Readers : q # r => reader'[q] = reader[q]
    BY <2>1 DEF MmapInv, MmapTypes
  <2>3. MmapTypes' /\ HalfLoaded' /\ Used' /\ Mmap!InUse'
    BY <1>1, <2>2 DEF MmapInv, MmapTypes, Loading, Reading, HalfLoaded, Used, Mmap!InUse, Blocks
  <2>4. ReadIsThere'
    BY <1>1, <2>2 DEF MmapInv, ReadIsThere, Reading
  <2>5. NoBus'
    BY <1>1, <1>3, <2>2 DEF MmapInv, Used, NoBus
  <2> QED
    BY <2>3, <2>4, <2>5 DEF MmapInv
<1> QED
  BY <1>2, <1>3

LEMMA MmapInvariant == MmapInv /\ [Mmap!Next]_mapping => MmapInv'
<1>1. ASSUME MmapInv, UNCHANGED mapping PROVE MmapInv'
  <2>1. UNCHANGED <<n, file, mem, owner, reader, cur, overrun, disturbed>>
    BY <1>1 DEF mapping
  <2>2. MmapTypes' /\ HalfLoaded' /\ Used' /\ Mmap!InUse'
    BY <1>1, <2>1 DEF MmapInv, MmapTypes, Reading, Loading, HalfLoaded, Used, Mmap!InUse, Blocks
  <2> QED
    BY <1>1, <2>1, <2>2, MmapQuiet
<1>2. ASSUME MmapInv, Mmap!Next PROVE MmapInv'
  BY <1>2, EditStep, OpenStep, TruncateStep, FirstLoadStep, FirstLoadedStep, DownStep, UpdateStep, LoadStep,
     LoadFailsStep, LoadedStep, CopyStep, CopyLastStep, AttachStep, ReadStep, DetachStep
     DEF Mmap!Next, Mmap!Owner
<1> QED
  BY <1>1, <1>2

\* update_cfg_on_mmap: for every number of blocks and of readers, a configuration in
\* use is never torn, and a reader no copy came between reads one configuration.
THEOREM MappingRightAlways == Mmap!Spec => []Mmap!MappingRight
<1>1. MmapInv /\ [Mmap!Next]_(Mmap!vars) => MmapInv'
  BY MmapInvariant DEF mapping, Mmap!vars
<1>2. Mmap!Init => MmapInv
  BY MmapInit, MmapAssumption
<1> QED
  BY <1>1, <1>2, MappingIsRight, PTL DEF Mmap!Spec

\* The same on the bench, beside the segments and the configuration file.
THEOREM BenchMappingAlways == MCSpec => []MCMappingRight
<1> DEFINE BenchInv == part = "mapping" => MmapInv
<1>1. MCInit => BenchInv
  BY MmapInit, MmapAssumption DEF MCInit
<1>2. ASSUME BenchInv, [MCNext]_<<vars, mapping, config, part>> PROVE BenchInv'
  <2>1. part' = part /\ (part = "mapping" => [Mmap!Next]_mapping)
    BY <1>2 DEF MCNext
  <2> QED
    BY <1>2, <2>1, MmapInvariant
<1>3. BenchInv => MCMappingRight
  BY MappingIsRight DEF MCMappingRight
<1>4. BenchInv /\ [MCNext]_<<vars, mapping, config, part>> => BenchInv'
  BY <1>2
<1> HIDE DEF BenchInv
<1> QED
  BY <1>1, <1>3, <1>4, PTL DEF MCSpec
=============================================================================
