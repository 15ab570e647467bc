--------------------------- MODULE MCRotatingLog ---------------------------
(***************************************************************************)
(* RotatingLog twice, over the same variables: one thread that rotates,    *)
(* counts or names by period the files of one level over four days (the    *)
(* constants of MCRotatingLog.cfg), and two threads that shift two levels. *)
(***************************************************************************)
EXTENDS RotatingLog

CONSTANTS t1, t2, info1, error1

VARIABLE part

Pair == INSTANCE RotatingLog WITH
  Threads <- {t1, t2}, Levels <- {info1, error1}, LogSize <- 1, Configs <- {2},
  Intervals <- {0}, MaxDay <- 2, PerDay <- 3, MaxFails <- 1, MaxRestarts <- 1

MCInit ==
  \/ part = "files" /\ Init
  \/ part = "threads" /\ Pair!Init

MCNext ==
  /\ part' = part
  /\ \/ part = "files" /\ Next
     \/ part = "threads" /\ Pair!Next

MCSpec == MCInit /\ [][MCNext]_<<vars, part>>
=============================================================================
