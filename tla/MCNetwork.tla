----------------------------- MODULE MCNetwork -----------------------------
(***************************************************************************)
(* The network: UdpSink with two hosts, two ports and two users; beside it *)
(* Sockets, with a connection that holds two bytes, and the functions that *)
(* make sockets.                                                           *)
(***************************************************************************)
EXTENDS UdpSink, TLC

CONSTANTS
  i1, i2, p1, p2,
  Totals, Room, MaxBytes, MaxBreaks, MaxCalls        (* of Sockets         *)

ASSUME StreamAssumption == Totals \subseteq Nat /\ Room \in Nat

VARIABLES
  part,
  wire, up, snd, rcv, next, got, fails, dropped,
  fn, pc, fd, open, addrs, err, errno, failed, kept, calls

stream  == <<wire, up, snd, rcv, next, got, fails, dropped>>
sockets == <<fn, pc, fd, open, addrs, err, errno, failed, kept, calls>>

Net == INSTANCE Sockets WITH
  MaxFails <- MaxBreaks

Symmetry == Permutations({i1, i2}) \cup Permutations({p1, p2})

\* The parts that are not looked at stay in one state.
MCInit == part \in {"sink", "stream", "sockets"} /\ Init /\ Net!Init

MCNext ==
  /\ part' = part
  /\ \/ part = "sink" /\ Next /\ UNCHANGED <<stream, sockets>>
     \/ part = "stream" /\ Net!StreamNext /\ UNCHANGED <<vars, sockets>>
     \/ part = "sockets" /\ Net!EndsNext /\ UNCHANGED <<vars, stream>>

MCSpec == MCInit /\ [][MCNext]_<<vars, stream, sockets, part>>

\* safe_tcp_send_n, safe_tcp_recv_n (tcp.c:45): no byte is lost, doubled or moved.
MCStreamIntact == Net!StreamIntact

\* create_passive_endpoint and the others (tcp.c, mcast.c, netutils.c): over any calls
\* of them, each path that fails gives back what was taken on the way to it.
MCReturnsClean == Net!ReturnsClean
=============================================================================
