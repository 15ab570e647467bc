------------------------------ MODULE Segments ------------------------------
(***************************************************************************)
(* Shared-memory segments of one key, as attr_api/shm.c and tm_shm.c make  *)
(* and attach them: processes that look whether the segment exists, create *)
(* it, fill it and attach it, each call of the system being one step, and  *)
(* an administrator who removes it.  The two files differ in what an       *)
(* update does with a segment that is attached already.                    *)
(*                                                                         *)
(* A definition with an underscore in its name is a faulty variant of the  *)
(* one that follows it; none is used by the specification.                 *)
(***************************************************************************)
EXTENDS Integers, FiniteSets

CONSTANTS
  Clients, Sizes,
  Ids,              (* identifiers the system gives, 1, 2, ... in turn      *)
  NoSeg,            (* no segment                                           *)
  MaxCalls, MaxFails

ASSUME SegAssumption ==
  /\ IsFiniteSet(Clients)
  /\ Ids \subseteq Nat \ {0} /\ NoSeg \notin Ids /\ NoSeg \notin Clients
  /\ Sizes \subseteq Nat
  /\ MaxCalls \in Nat /\ MaxFails \in Nat

VARIABLES
  segs,             (* identifier -> size, attachments, what is in it, maker*)
  key,              (* the segment the key names                            *)
  nextId,
  pc, call,         (* where each client is in its call, and its arguments  *)
  mgr,              (* its shm_mgr: shmid, size and what is attached        *)
  \* History.
  seen,             (* segments the key named during the call               *)
  unfilled,         (* segments whose creator could not fill them           *)
  got,              (* the segment its last get_shm found or made           *)
  left

vars == <<segs, key, nextId, pc, call, mgr, seen, unfilled, got, left>>

Absent  == [size |-> 0, n |-> 0, data |-> "none", by |-> NoSeg]
NoCall  == [op |-> "none", size |-> 0, make |-> FALSE, init |-> "no", again |-> FALSE, id |-> NoSeg]
Nothing == [shmid |-> NoSeg, size |-> 0, shm |-> NoSeg]

Init ==
  /\ segs = [i \in Ids |-> Absent]
  /\ key = NoSeg /\ nextId = 1
  /\ pc = [c \in Clients |-> "idle"]
  /\ call = [c \in Clients |-> NoCall]
  /\ mgr = [c \in Clients |-> Nothing]
  /\ seen = [c \in Clients |-> {}]
  /\ unfilled = {} /\ got = [c \in Clients |-> NoSeg]
  /\ left = [calls |-> MaxCalls, fails |-> MaxFails]

Spend(what) == left[what] > 0 /\ left' = [left EXCEPT ![what] = @ - 1]

Goes(c, where) == pc' = [pc EXCEPT ![c] = where]

Returns(c) == Goes(c, "idle") /\ call' = [call EXCEPT ![c] = NoCall]

\* A segment no key names lives until its last attachment is gone.
Lives(i) == segs[i].data # "none"

Attached(s, i) == [s EXCEPT ![i].n = @ + 1]

Detached(s, i) ==
  IF i = NoSeg THEN s
  ELSE IF s[i].n = 1 /\ key # i THEN [s EXCEPT ![i] = Absent] ELSE [s EXCEPT ![i].n = @ - 1]

\* get_shm_info: shmget and shmctl find the segment the key names.
Exist == key # NoSeg

SeenBy(i) == seen' = [c \in Clients |-> IF call[c].op # "update" THEN seen[c] ELSE seen[c] \cup {i}]

---------------------------------------------------------------------------
(* The functions that make a segment: they look whether it exists, and go on *)
(* to create it (make), to fill the one that exists (init = "yes"), to leave *)
(* it as it is ("no") or to refuse it ("refuse").                            *)

Get(c, size, make, init) ==
  /\ pc[c] = "idle" /\ Spend("calls")
  /\ call' = [call EXCEPT ![c] = [NoCall EXCEPT !.op = "get", !.size = size, !.make = make, !.init = init]]
  /\ Goes(c, "info")
  /\ UNCHANGED <<segs, key, nextId, mgr, seen, unfilled, got>>

GetShm(c, size) == \E make \in BOOLEAN, init \in {"no", "yes"} : Get(c, size, make, init)

\* tm_shm_create, tm_shm_create_init.
TmCreateInit(c, size) == Get(c, size, TRUE, "yes")

\* tm_shm_create_new, tm_shm_create_new_init.
TmCreateNew(c, size) == Get(c, size, TRUE, "refuse")

\* create_shm, create_shm_init: without a look.
CreateShm(c, size) ==
  /\ pc[c] = "idle" /\ Spend("calls")
  /\ call' = [call EXCEPT ![c] = [NoCall EXCEPT !.op = "get", !.size = size, !.make = TRUE, !.init = "refuse"]]
  /\ Goes(c, "create")
  /\ UNCHANGED <<segs, key, nextId, mgr, seen, unfilled, got>>

\* get_shm_info, and what its result leads to.
GetInfo(c) ==
  /\ pc[c] = "info" /\ call[c].op = "get"
  /\ IF ~Exist
     THEN /\ IF call[c].make THEN Goes(c, "create") /\ UNCHANGED call ELSE Returns(c)
          /\ UNCHANGED got
     ELSE IF segs[key].size # call[c].size \/ call[c].init = "refuse"
     THEN Returns(c) /\ UNCHANGED got
     ELSE IF call[c].init = "no"
     THEN Returns(c) /\ got' = [got EXCEPT ![c] = key]
     ELSE Goes(c, "attach") /\ UNCHANGED got
          /\ call' = [call EXCEPT ![c].id = key]
  /\ UNCHANGED <<segs, key, nextId, mgr, seen, unfilled, left>>

\* shmget with IPC_EXCL: refused when another made the segment in between.
Exclusive_Not == FALSE

Exclusive == TRUE

Create(c) ==
  /\ pc[c] = "create"
  /\ IF Exist
     THEN /\ IF Exclusive THEN Returns(c)
             ELSE Goes(c, "attach") /\ call' = [call EXCEPT ![c].id = key]
          /\ UNCHANGED <<segs, key, nextId, seen>>
     ELSE /\ nextId \in Ids /\ nextId' = nextId + 1
          /\ segs' = [segs EXCEPT ![nextId] = [size |-> call[c].size, n |-> 0, data |-> "zero", by |-> c]]
          /\ key' = nextId
          /\ SeenBy(nextId)
          /\ call' = [call EXCEPT ![c].id = nextId]
          /\ Goes(c, "attach")
  /\ UNCHANGED <<mgr, unfilled, got, left>>

\* The one who made a segment does not come to fill it.
GivesUp(c) ==
  unfilled' = IF call[c].op = "get" /\ segs[call[c].id].by = c THEN unfilled \cup {call[c].id} ELSE unfilled

\* shmat fails on a segment that is gone, and for want of room.
GetAttach(c) ==
  /\ pc[c] = "attach" /\ call[c].op = "get"
  /\ \/ /\ Lives(call[c].id)
        /\ segs' = Attached(segs, call[c].id)
        /\ Goes(c, "fill") /\ UNCHANGED <<call, unfilled, left>>
     \/ /\ IF Lives(call[c].id) THEN Spend("fails") ELSE UNCHANGED left
        /\ GivesUp(c)
        /\ Returns(c) /\ UNCHANGED segs
  /\ UNCHANGED <<key, nextId, mgr, seen, got>>

Fill(c) ==
  /\ pc[c] = "fill"
  /\ segs' = [segs EXCEPT ![call[c].id].data = "init"]
  /\ Goes(c, "detach")
  /\ UNCHANGED <<key, nextId, call, mgr, seen, unfilled, got, left>>

GetDetach(c) ==
  /\ pc[c] = "detach"
  /\ segs' = Detached(segs, call[c].id)
  /\ got' = [got EXCEPT ![c] = call[c].id]
  /\ Returns(c)
  /\ UNCHANGED <<key, nextId, mgr, seen, unfilled, left>>

---------------------------------------------------------------------------
(* update_shm_attach (again = FALSE), tm_shm_update_attach (again = TRUE).   *)

Update(c, again) ==
  /\ pc[c] = "idle" /\ Spend("calls")
  /\ call' = [call EXCEPT ![c] = [NoCall EXCEPT !.op = "update", !.again = again]]
  /\ seen' = [seen EXCEPT ![c] = {key}]
  /\ Goes(c, "info")
  /\ UNCHANGED <<segs, key, nextId, mgr, unfilled, got>>

Current_SizeOnly(c) == mgr[c].size = segs[key].size

Current(c) == mgr[c].shmid = key /\ mgr[c].size = segs[key].size

UpdateInfo(c) ==
  /\ pc[c] = "info" /\ call[c].op = "update"
  /\ IF ~Exist THEN Returns(c)
     ELSE IF Current(c) /\ ~call[c].again THEN Goes(c, "updated") /\ UNCHANGED call
     ELSE /\ call' = [call EXCEPT ![c].id = key, ![c].size = segs[key].size]
          /\ Goes(c, "attach")
  /\ UNCHANGED <<segs, key, nextId, mgr, seen, unfilled, got, left>>

Swap_KeepsOld(c, id) == segs' = Attached(segs, id)

Swap(c, id) == segs' = Detached(Attached(segs, id), mgr[c].shm)

UpdateAttach(c) ==
  /\ pc[c] = "attach" /\ call[c].op = "update"
  /\ LET id == call[c].id IN
       \/ /\ Lives(id)
          /\ Swap(c, id)
          /\ mgr' = [mgr EXCEPT ![c] = [shmid |-> id, size |-> call[c].size, shm |-> id]]
          /\ Goes(c, "updated") /\ UNCHANGED <<call, left>>
       \/ /\ IF Lives(id) THEN Spend("fails") ELSE UNCHANGED left
          /\ Returns(c) /\ UNCHANGED <<segs, mgr>>
  /\ UNCHANGED <<key, nextId, seen, unfilled, got>>

Updated(c) ==
  /\ pc[c] = "updated" /\ Returns(c)
  /\ seen' = [seen EXCEPT ![c] = {}]
  /\ UNCHANGED <<segs, key, nextId, mgr, unfilled, got, left>>

---------------------------------------------------------------------------
(* The administrator: ipcrm. *)
Remove ==
  /\ key # NoSeg
  /\ key' = NoSeg
  /\ segs' = IF segs[key].n = 0 THEN [segs EXCEPT ![key] = Absent] ELSE segs
  /\ SeenBy(NoSeg)
  /\ UNCHANGED <<nextId, pc, call, mgr, unfilled, got, left>>

\* A client ends: what it has attached is detached.
Exit(c) ==
  /\ Spend("calls")
  /\ LET busy == pc[c] \in {"fill", "detach"} IN
       segs' = Detached(IF busy THEN Detached(segs, call[c].id) ELSE segs, mgr[c].shm)
  /\ IF pc[c] \in {"attach", "fill"} THEN GivesUp(c) ELSE UNCHANGED unfilled
  /\ mgr' = [mgr EXCEPT ![c] = Nothing]
  /\ got' = [got EXCEPT ![c] = NoSeg]
  /\ Returns(c)
  /\ UNCHANGED <<key, nextId, seen>>

\* The program writes to what it has attached.
Use(c) ==
  /\ mgr[c].shm # NoSeg /\ segs[mgr[c].shm].data # "used"
  /\ segs' = [segs EXCEPT ![mgr[c].shm].data = "used"]
  /\ UNCHANGED <<key, nextId, pc, call, mgr, seen, unfilled, got, left>>

Next ==
  \/ Remove
  \/ \E c \in Clients :
       \/ Exit(c) \/ Use(c)
       \/ \E s \in Sizes : GetShm(c, s) \/ TmCreateInit(c, s) \/ TmCreateNew(c, s) \/ CreateShm(c, s)
       \/ GetInfo(c) \/ Create(c) \/ GetAttach(c) \/ Fill(c) \/ GetDetach(c)
       \/ \E again \in BOOLEAN : Update(c, again)
       \/ UpdateInfo(c) \/ UpdateAttach(c) \/ Updated(c)

Spec == Init /\ [][Next]_vars

---------------------------------------------------------------------------
(* Properties. *)

Segment ==
  [size : Sizes \cup {0}, n : Nat, data : {"none", "zero", "init", "used"}, by : Clients \cup {NoSeg}]
Call ==
  [op : {"none", "get", "update"}, size : Sizes \cup {0}, make : BOOLEAN, init : {"no", "yes", "refuse"},
   again : BOOLEAN, id : Ids \cup {NoSeg}]
Manager == [shmid : Ids \cup {NoSeg}, size : Sizes \cup {0}, shm : Ids \cup {NoSeg}]

TypeOK ==
  /\ segs \in [Ids -> Segment]
  /\ key \in Ids \cup {NoSeg} /\ nextId \in Nat
  /\ pc \in [Clients -> {"idle", "info", "create", "attach", "fill", "detach", "updated"}]
  /\ call \in [Clients -> Call]
  /\ mgr \in [Clients -> Manager]
  /\ seen \in [Clients -> SUBSET (Ids \cup {NoSeg})]
  /\ unfilled \subseteq Ids /\ got \in [Clients -> Ids \cup {NoSeg}]
  /\ left \in [calls : 0..MaxCalls, fails : 0..MaxFails]

\* A client whose get_shm succeeded finds the segment filled, unless the one who
\* made it is on the way to fill it yet, or could not: the check and the creation
\* are two calls of the system, and so are the creation and the filling.  A
\* segment is filled by who made it, or by who asked for one that exists to be
\* filled: not by one that lost the race to create it.
OnTheWay(d, i) == pc[d] \in {"attach", "fill"} /\ call[d].op = "get" /\ call[d].id = i

Ready ==
  /\ \A c \in Clients : got[c] # NoSeg /\ segs[got[c]].data = "zero" =>
       got[c] \in unfilled \/ OnTheWay(segs[got[c]].by, got[c])
  /\ \A c \in Clients : pc[c] = "fill" => call[c].init = "yes" \/ segs[call[c].id].by = c

\* Every attachment is that of a manager, or of a get_shm on its way: none is
\* leaked or given back twice, a manager never points to a segment that is gone,
\* and knows its size.
Managers(i) == {c \in Clients : mgr[c].shm = i}
Fillers(i)  == {c \in Clients : pc[c] \in {"fill", "detach"} /\ call[c].id = i}

Holders(i) == Cardinality(Managers(i)) + Cardinality(Fillers(i))

AttachmentsKept ==
  /\ \A i \in Ids : segs[i].n = Holders(i)
  /\ \A c \in Clients : mgr[c].shm # NoSeg =>
       Lives(mgr[c].shm) /\ mgr[c].shmid = mgr[c].shm /\ mgr[c].size = segs[mgr[c].shm].size

\* An update that succeeds leaves the manager on a segment the key named at some
\* moment of the call.
UpdatedToCurrent ==
  \A c \in Clients : pc[c] = "updated" => mgr[c].shm \in seen[c]

\* Together: who gets a segment gets it filled, and no attachment is leaked or
\* stale (get_shm, create_shm_init, update_shm_attach).
SegmentsRight == TypeOK /\ Ready /\ AttachmentsKept /\ UpdatedToCurrent
=============================================================================
