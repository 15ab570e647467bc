------------------------------ MODULE ShmFifo ------------------------------
(***************************************************************************)
(* What the shared-memory queue of interprocess/shmq.h promises its two    *)
(* users, without offsets or memory: messages leave in the order in which  *)
(* they were put, each at most once, and the buffer handed out by a pop is *)
(* the message that was put, for as long as the consumer may look at it.   *)
(***************************************************************************)
EXTENDS Naturals, Sequences

CONSTANTS
  Lengths,    (* the lengths of the messages a client pushes               *)
  None        (* no buffer is lent to the consumer                         *)

VARIABLES
  queue,      (* the messages put and not yet taken, oldest first          *)
  lent,       (* the message in the buffer the consumer was handed         *)
  sent        (* how many messages were put: it numbers them               *)

fifo == <<queue, lent, sent>>

Message(n, l) == [id |-> n, len |-> l]

Init ==
  /\ queue = << >>
  /\ lent = None
  /\ sent = 0

\* shm_cq_push returning 0.
Put ==
  /\ \E l \in Lengths : queue' = Append(queue, Message(sent + 1, l))
  /\ sent' = sent + 1
  /\ UNCHANGED lent

\* shm_cq_pop returning a buffer.
Get ==
  /\ lent = None
  /\ queue # << >>
  /\ lent' = Head(queue)
  /\ queue' = Tail(queue)
  /\ UNCHANGED sent

\* The consumer is done with the buffer: it calls shm_cq_pop again, or dies.
GiveBack ==
  /\ lent # None
  /\ lent' = None
  /\ UNCHANGED <<queue, sent>>

Next == Put \/ Get \/ GiveBack

Spec == Init /\ [][Next]_fifo
=============================================================================
