----------------------------- MODULE MCShmQueue -----------------------------
(***************************************************************************)
(* Interprocess communication: ShmQueue on a region of a few bytes, with a *)
(* header of 1 and length words of 2; beside it the making of the region   *)
(* (ShmqRegion) by three processes, and the lock of interprocess/lock.c    *)
(* (SemLock) of two.                                                       *)
(***************************************************************************)
EXTENDS ShmQueue

CONSTANTS
  Users, Regions, MaxFails,          (* of ShmqRegion                      *)
  Procs, MaxStarts, MaxValue         (* of SemLock                         *)

\* 0 is no object of shared memory.
ASSUME RegionAssumption == 0 \notin Regions

VARIABLES
  part,
  name, sized, stored, at, of, maps, fails, early,
  value, undo, place, starts, reset

region == <<name, sized, stored, at, of, maps, fails, early>>
lock   == <<value, undo, place, starts, reset>>

MCLengths == {1, 2}

Region == INSTANCE ShmqRegion WITH pc <- at

Sem == INSTANCE SemLock WITH pc <- place

MCInit ==
  /\ part \in {"queue", "region", "lock"}
  /\ Init /\ Region!Init /\ Sem!Init

\* The parts that are not looked at stay in one state.
QueueStep(A) == part = "queue" /\ A /\ UNCHANGED <<region, lock>>

MCNext ==
  /\ part' = part
  /\ \/ QueueStep(Next)
     \/ part = "region" /\ Region!Next /\ UNCHANGED <<vars, lock>>
     \/ part = "lock" /\ Sem!Next /\ UNCHANGED <<vars, region>>

MCSpec ==
  /\ MCInit /\ [][MCNext]_<<vars, region, lock, part>>
  /\ WF_vars(QueueStep(Producer)) /\ WF_vars(QueueStep(Consumer))
  /\ Sem!Fairness

\* shm_cq_push_wait and shm_cq_pop: every message is pushed and popped in the end.
MCAllDelivered == \A n \in Msgs : <>(part = "queue" => popped >= n)

\* shm_cq_create and shm_cq_attach (shmq.c:38, 87): who has the queue has it whole;
\* sem_lock and sem_unlock (lock.c:20): one process at a time, unless one starts
\* while another is in.
MCSharedSound == /\ part = "region" => Region!RegionSound
                 /\ part = "lock" => Sem!Exclusive

\* sem_lock: a process that wants the lock gets it, or dies.
MCGetsIn == Sem!GetsIn
=============================================================================
