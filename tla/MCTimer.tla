------------------------------ MODULE MCTimer ------------------------------
(***************************************************************************)
(* Timer with three timers, on lists that hold a few seconds, and beside   *)
(* it MicroTimer with three timers of two owners.                          *)
(***************************************************************************)
EXTENDS Timer, TLC

CONSTANTS
  Owners, MicroTypes, MicroDelays, MicroTime, MaxAdds     (* of MicroTimer *)

\* A delay of add_micro_event is a non-negative number of microseconds, and the clock
\* of the bench stops somewhere.
ASSUME MicroAssumption == MicroDelays \subseteq Nat /\ MicroTime \in Nat

VARIABLES part, mnow, list, timer, mtcfs, mwalk, adds, due, removed

micro == <<mnow, list, timer, mtcfs, mwalk, adds, due, removed>>

Micro == INSTANCE MicroTimer WITH
  Types <- MicroTypes, Delays <- MicroDelays, MaxTime <- MicroTime,
  now <- mnow, tcfs <- mtcfs, walk <- mwalk

MCDelaysWalk == {0, 3}     (* at once, and through all lists               *)
Addresses == Permutations(Timers)

MCInit == Init /\ Micro!Init /\ part \in {"seconds", "micro"}

MCNext ==
  /\ part' = part
  /\ \/ part = "seconds" /\ Next /\ UNCHANGED micro
     \/ part = "micro" /\ Micro!Next /\ UNCHANGED vars

MCSpec == MCInit /\ [][MCNext]_<<vars, micro, part>>

\* scan_microseconds_timer (timer.c:204): the walk of the microsecond timers stays
\* on allocated timers, calls each that is due and never one that was removed.
MCMicroSound == Micro!MicroSound
=============================================================================
