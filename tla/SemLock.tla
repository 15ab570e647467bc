------------------------------ MODULE SemLock ------------------------------
(***************************************************************************)
(* The lock of interprocess/lock.c: a System V semaphore of one value that *)
(* every process sets to 1 when it starts, takes and gives back with       *)
(* SEM_UNDO, so that the system gives it back for a process that dies.     *)
(*                                                                         *)
(* A definition with an underscore in its name is a faulty variant of the  *)
(* one that follows it; none is used by the specification.                 *)
(***************************************************************************)
EXTENDS Integers, FiniteSets

CONSTANTS Procs, MaxStarts, MaxValue

VARIABLES
  value,            (* of the semaphore, -1 before it is made              *)
  undo,             (* what the system adds when a process dies            *)
  pc,               (* off, made (no value of its own yet), out, wants, in *)
  starts,
  reset             (* history: the value was set while a process was in   *)

vars == <<value, undo, pc, starts, reset>>

Init ==
  /\ value = -1 /\ undo = [p \in Procs |-> 0]
  /\ pc = [p \in Procs |-> "off"] /\ starts = 0 /\ reset = FALSE

Holders == {p \in Procs : pc[p] = "in"}

\* sem_init: semget, then semctl, which forgets what was to be undone.
Get(p) ==
  /\ pc[p] = "off" /\ starts < MaxStarts /\ starts' = starts + 1
  /\ value' = IF value = -1 THEN 0 ELSE value
  /\ pc' = [pc EXCEPT ![p] = "made"]
  /\ UNCHANGED <<undo, reset>>

SetVal(p) ==
  /\ pc[p] = "made"
  /\ value' = 1 /\ undo' = [q \in Procs |-> 0]
  /\ reset' = (reset \/ Holders # {})
  /\ pc' = [pc EXCEPT ![p] = "out"]
  /\ UNCHANGED starts

Want(p) ==
  /\ pc[p] = "out" /\ pc' = [pc EXCEPT ![p] = "wants"]
  /\ UNCHANGED <<value, undo, starts, reset>>

Undo_Not == 0

Undo == 1

\* A semop a signal interrupts is called again.
Lock(p) ==
  /\ pc[p] = "wants" /\ value > 0
  /\ value' = value - 1 /\ undo' = [undo EXCEPT ![p] = @ + Undo]
  /\ pc' = [pc EXCEPT ![p] = "in"]
  /\ UNCHANGED <<starts, reset>>

Unlock(p) ==
  /\ pc[p] = "in" /\ value < MaxValue
  /\ value' = value + 1 /\ undo' = [undo EXCEPT ![p] = @ - Undo]
  /\ pc' = [pc EXCEPT ![p] = "out"]
  /\ UNCHANGED <<starts, reset>>

\* The system undoes as much as it can without a negative value.
Dies(p) ==
  /\ pc[p] # "off"
  /\ value' = IF value + undo[p] < 0 THEN 0 ELSE value + undo[p]
  /\ undo' = [undo EXCEPT ![p] = 0]
  /\ pc' = [pc EXCEPT ![p] = "off"]
  /\ UNCHANGED <<starts, reset>>

Next == \E p \in Procs : Get(p) \/ SetVal(p) \/ Want(p) \/ Lock(p) \/ Unlock(p) \/ Dies(p)

\* A process in the critical section leaves it, and the system wakes those that
\* wait in the order they came.
Fairness == \A p \in Procs : WF_vars(SetVal(p)) /\ WF_vars(Unlock(p)) /\ SF_vars(Lock(p))

Spec == Init /\ [][Next]_vars

FairSpec == Spec /\ Fairness

---------------------------------------------------------------------------
\* One process at a time is in, and the lock is free exactly when none is: a
\* process that dies gives it back, as long as none starts while another is in.
\* (Before the first value is set nobody can be in.)
Exclusive ==
  ~reset => \/ value + Cardinality(Holders) = 1
            \/ value <= 0 /\ Holders = {} /\ \A p \in Procs : pc[p] \in {"off", "made"}

\* A process that starts finds the lock usable: one that wants it gets in, or dies.
GetsIn == \A p \in Procs : pc[p] = "wants" ~> pc[p] # "wants"

=============================================================================
