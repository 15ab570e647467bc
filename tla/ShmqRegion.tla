---------------------------- MODULE ShmqRegion -----------------------------
(***************************************************************************)
(* The region of a circular queue of shmq.c and its name: shm_cq_create,   *)
(* shm_cq_attach, shm_cq_detach and shm_cq_destroy, call of the system by  *)
(* call, while other processes do the same and die.                        *)
(*                                                                         *)
(* A definition with an underscore in its name is a faulty variant of the  *)
(* one that follows it; none is used by the specification.                 *)
(***************************************************************************)
EXTENDS Integers, FiniteSets

CONSTANTS
  Users,        (* the processes                                           *)
  Regions,      (* shared memory objects, 1, 2, ... in turn                *)
  MaxFails      (* bound: calls of the system that fail, and deaths        *)

None == 0

VARIABLES
  name,         (* the object that has the queue's name                    *)
  sized,        (* objects ftruncate gave their size                       *)
  stored,       (* fields of shm_cq_t the creator stored, see Fields       *)
  pc, of,       (* where each process is, and the object it works on       *)
  maps,         (* objects each process has mapped                         *)
  fails,
  early         (* history: processes that attached before the last field  *)

vars == <<name, sized, stored, pc, of, maps, fails, early>>

Ends == {"head", "tail"}
Size == "shm_size"
Rest == {"elem_max_sz", "name"}
Fields == Ends \cup {Size} \cup Rest

Init ==
  /\ name = None /\ sized = {} /\ stored = [r \in Regions |-> {}]
  /\ pc = [p \in Users |-> "idle"] /\ of = [p \in Users |-> None]
  /\ maps = [p \in Users |-> {}] /\ fails = MaxFails /\ early = {}

Used == {r \in Regions : r = name \/ \E p \in Users : of[p] = r \/ r \in maps[p]} \cup sized

To(p, at) == pc' = [pc EXCEPT ![p] = at]
Fails == fails > 0 /\ fails' = fails - 1

\* Back to the caller with 0, the descriptor closed.
Back(p) == To(p, "idle") /\ of' = [of EXCEPT ![p] = None]

---------------------------------------------------------------------------
(* shm_cq_create. *)

Fresh(r) == r \in Regions \ Used /\ \A q \in Regions \ Used : r <= q

\* O_EXCL: where the name exists the call fails and nothing happens.
CreateOpen_Shares(p, r) ==
  /\ pc[p] = "idle"
  /\ IF name = None THEN Fresh(r) ELSE r = name
  /\ name' = r /\ of' = [of EXCEPT ![p] = r] /\ To(p, "created")
  /\ UNCHANGED <<sized, stored, maps, fails, early>>

CreateOpen(p, r) ==
  /\ pc[p] = "idle" /\ name = None /\ Fresh(r)
  /\ name' = r /\ of' = [of EXCEPT ![p] = r] /\ To(p, "created")
  /\ UNCHANGED <<sized, stored, maps, fails, early>>

Truncate(p) ==
  /\ pc[p] = "created"
  /\ sized' = sized \cup {of[p]} /\ To(p, "sized")
  /\ UNCHANGED <<name, stored, of, maps, fails, early>>

CreateMap(p) ==
  /\ pc[p] = "sized"
  /\ maps' = [maps EXCEPT ![p] = @ \cup {of[p]}] /\ To(p, "store")
  /\ UNCHANGED <<name, sized, stored, of, fails, early>>

\* The name is taken away again, whatever has it by now.
CreateFails(p) ==
  /\ pc[p] \in {"created", "sized"} /\ Fails
  /\ name' = None /\ Back(p)
  /\ UNCHANGED <<sized, stored, maps, early>>

\* The stores, in the order of the program.
Order_SizeFirst(done) ==
  IF Size \notin done THEN {Size}
  ELSE IF ~(Ends \subseteq done) THEN Ends \ done
  ELSE IF "elem_max_sz" \notin done THEN {"elem_max_sz"} ELSE {"name"}

Order(done) ==
  IF "head" \notin done THEN {"head"}
  ELSE IF "tail" \notin done THEN {"tail"}
  ELSE IF Size \notin done THEN {Size}
  ELSE IF "elem_max_sz" \notin done THEN {"elem_max_sz"} ELSE {"name"}

Store(p) ==
  /\ pc[p] = "store"
  /\ \E f \in Order(stored[of[p]]) :
       /\ stored' = [stored EXCEPT ![of[p]] = @ \cup {f}]
       /\ IF stored[of[p]] \cup {f} = Fields THEN To(p, "has") ELSE UNCHANGED pc
  /\ UNCHANGED <<name, sized, of, maps, fails, early>>

---------------------------------------------------------------------------
(* shm_cq_attach. *)

AttachOpen(p) ==
  /\ pc[p] = "idle" /\ name # None
  /\ of' = [of EXCEPT ![p] = name] /\ To(p, "opened")
  /\ UNCHANGED <<name, sized, stored, maps, fails, early>>

\* The object is mapped and shm_size read: without a size of its own that is a
\* bus error; a length of 0 cannot be mapped.
ReadSize(p) ==
  /\ pc[p] = "opened"
  /\ IF of[p] \notin sized THEN To(p, "dead") /\ UNCHANGED of
     ELSE IF Size \in stored[of[p]] THEN To(p, "length") /\ UNCHANGED of
     ELSE Back(p)
  /\ UNCHANGED <<name, sized, stored, maps, fails, early>>

AttachMap(p) ==
  /\ pc[p] = "length"
  /\ maps' = [maps EXCEPT ![p] = @ \cup {of[p]}] /\ To(p, "has")
  /\ early' = IF stored[of[p]] = Fields THEN early ELSE early \cup {p}
  /\ UNCHANGED <<name, sized, stored, of, fails>>

AttachFails(p) ==
  /\ pc[p] \in {"opened", "length"} /\ Fails
  /\ Back(p)
  /\ UNCHANGED <<name, sized, stored, maps, early>>

---------------------------------------------------------------------------
Gone(p) ==
  /\ maps' = [maps EXCEPT ![p] = @ \ {of[p]}]
  /\ Back(p) /\ early' = early \ {p}

Detach(p) ==
  /\ pc[p] = "has"
  /\ Gone(p)
  /\ UNCHANGED <<name, sized, stored, fails>>

\* shm_unlink of the name in the region; where it fails the region stays mapped.
Destroy(p) ==
  /\ pc[p] = "has"
  /\ IF "name" \in stored[of[p]] /\ name # None
     THEN name' = None /\ Gone(p)
     ELSE Back(p) /\ early' = early \ {p} /\ UNCHANGED <<name, maps>>
  /\ UNCHANGED <<sized, stored, fails>>

\* A process dies and is started again.
Dies(p) ==
  /\ pc[p] # "idle"
  /\ \/ pc[p] = "dead" /\ UNCHANGED fails
     \/ pc[p] # "dead" /\ Fails
  /\ Back(p) /\ maps' = [maps EXCEPT ![p] = {}] /\ early' = early \ {p}
  /\ UNCHANGED <<name, sized, stored>>

Next ==
  \E p \in Users :
    \/ \E r \in Regions : CreateOpen(p, r)
    \/ Truncate(p) \/ CreateMap(p) \/ CreateFails(p) \/ Store(p)
    \/ AttachOpen(p) \/ ReadSize(p) \/ AttachMap(p) \/ AttachFails(p)
    \/ Detach(p) \/ Destroy(p) \/ Dies(p)

Spec == Init /\ [][Next]_vars

---------------------------------------------------------------------------
\* Who has the queue has it at its full length, with head and tail that nobody
\* will set to the beginning any more, and all of it unless the attach fell before
\* the last store; only one process fills a region.
RegionSound ==
  /\ \A p \in Users : pc[p] = "has" =>
       /\ of[p] \in sized /\ of[p] \in maps[p]
       /\ Ends \cup {Size} \subseteq stored[of[p]]
       /\ p \notin early => stored[of[p]] = Fields
  /\ \A p, q \in Users :
       pc[p] \in {"created", "sized", "store"} /\ pc[q] \in {"created", "sized", "store"} /\ of[p] = of[q]
         => p = q
=============================================================================
