------------------------------ MODULE UdpSink ------------------------------
(***************************************************************************)
(* The network side of tlog (netutils.c): the thread that writes the log   *)
(* sends records to a host by UDP while the thread of udp_sink_server      *)
(* obeys packets that say where to, how fast and for which users.  The two *)
(* share the structure udp_sink without a lock.  The packets are those     *)
(* tools/ctrl_tlog.c sends.                                                *)
(*                                                                         *)
(* A definition with an underscore in its name is a faulty variant of the  *)
(* one that follows it; none is used by the specification.                 *)
(***************************************************************************)
EXTENDS Integers

CONSTANTS
  Ips, Ports,        (* what an address is made of                         *)
  Uids, Lives,       (* users and the life times asked for                 *)
  Limits,            (* limits asked for, in bytes a second                *)
  MinLimit, MaxLimit, DefLimit, MinLife, MaxLife, Wait,
  Sizes,             (* lengths of records                                 *)
  Slots,             (* MAX_TRACE_UID_NUM                                  *)
  None, Torn,        (* no address, an address half written                *)
  MaxTicks, MaxPackets, MaxSends, MaxFails

\* A user's number is not 0, nor is a limit (MIN_RATE_LIMIT); an address half
\* written is not one that is asked for.
ASSUME UdpAssumption ==
  /\ 0 \notin Uids /\ Lives \subseteq Nat /\ Limits \subseteq Nat /\ Sizes \subseteq Nat
  /\ MinLimit \in Nat \ {0} /\ MaxLimit \in Nat /\ DefLimit \in Nat
  /\ MinLife \in Nat /\ MaxLife \in Nat /\ Wait \in Nat /\ Slots \in Nat
  /\ Torn \notin Ips \cup {None}
  /\ MaxTicks \in Nat /\ MaxPackets \in Nat /\ MaxSends \in Nat /\ MaxFails \in Nat

VARIABLES
  clock,
  ip, port, changed, (* udp_sink: ip, port, addr_changed                   *)
  toaddr, sendfd,    (* udp_sink: toaddr, sendfd                           *)
  rate,              (* udp_sink->rate_limit                               *)
  traces,            (* udp_sink->trace_uid_list                           *)
  server,            (* where udp_sink_server is, and the packet it obeys  *)
  writer,            (* where sendlog_to_udp_sink is, and its record       *)
  now,               (* logger->now                                        *)
  overflow, lastInit,(* is_send_overflow, last_init_time                   *)
  \* History.
  wanted,            (* the address and the limit asked for last           *)
  lost,              (* which of them may be lost by a race                *)
  sent,              (* what left in the second sent.at                    *)
  granted,           (* traces that found a slot                           *)
  left               (* what the bounds still allow                        *)

addr == <<ip, port, changed, toaddr, sendfd>>
time == <<clock, now>>
local == <<overflow, lastInit>>
vars == <<addr, rate, traces, server, writer, time, local, wanted, lost, sent, granted, left>>

Init ==
  /\ clock = Wait /\ now = Wait
  /\ ip = None /\ port = None /\ changed = FALSE /\ toaddr = [ip |-> None, port |-> None]
  /\ sendfd = -1 /\ rate = [last |-> 0, token |-> 0, limit |-> 0, chg |-> 0]
  /\ traces = [s \in 1..Slots |-> [uid |-> 0, end |-> 0]]
  /\ server = [pc |-> "starts"] /\ writer = [pc |-> "idle"]
  /\ overflow = FALSE /\ lastInit = 0
  /\ wanted = [addr |-> toaddr, limit |-> DefLimit] /\ lost = [addr |-> FALSE, limit |-> FALSE]
  /\ sent = [at |-> 0, bytes |-> 0, notices |-> 0] /\ granted = {}
  /\ left = [ticks |-> MaxTicks, packets |-> MaxPackets, sends |-> MaxSends, fails |-> MaxFails]

Spend(what) == left[what] > 0 /\ left' = [left EXCEPT ![what] = @ - 1]

Tick ==
  /\ Spend("ticks") /\ clock' = clock + 1
  /\ UNCHANGED <<addr, rate, traces, server, writer, now, local, wanted, lost, sent, granted>>

---------------------------------------------------------------------------
(* The thread of udp_sink_server. *)

ServerStarts ==
  /\ server.pc = "starts"
  /\ rate' = [rate EXCEPT !.limit = DefLimit]
  /\ server' = [pc |-> "waits"]
  /\ UNCHANGED <<addr, traces, writer, time, local, wanted, lost, sent, granted, left>>

\* epoll_wait returns; its packets are all handled at the time it returned at.
ServerWakes ==
  /\ server.pc = "waits"
  /\ server' = [pc |-> "woken", t |-> clock]
  /\ UNCHANGED <<addr, rate, traces, writer, time, local, wanted, lost, sent, granted, left>>

ServerWaits ==
  /\ server.pc = "woken"
  /\ server' = [pc |-> "waits"]
  /\ UNCHANGED <<addr, rate, traces, writer, time, local, wanted, lost, sent, granted, left>>

\* proc_logger_pkg: the packets are handled one after the other.
Packet == server.pc = "woken" /\ Spend("packets")

Handled == server' = [pc |-> "woken", t |-> server.t]

SameAddr_IpOnly(i, p) == ip = i

SameAddr(i, p) == port = p /\ ip = i

\* do_set_trace_addr, up to the middle of its snprintf.
SetTraceAddr(i, p) ==
  /\ Packet
  /\ wanted' = [wanted EXCEPT !.addr = [ip |-> i, port |-> p]]
  /\ IF SameAddr(i, p) THEN UNCHANGED <<ip, server>>
     ELSE ip' = Torn /\ server' = [pc |-> "ip", t |-> server.t, ip |-> i, port |-> p]
  /\ UNCHANGED <<port, changed, toaddr, sendfd, rate, traces, writer, time, local, lost, sent,
                 granted>>

IpWritten ==
  /\ server.pc = "ip"
  /\ ip' = server.ip
  /\ server' = [server EXCEPT !.pc = "port"]
  /\ UNCHANGED <<port, changed, toaddr, sendfd, rate, traces, writer, time, local, wanted, lost,
                 sent, granted, left>>

PortWritten ==
  /\ server.pc = "port"
  /\ port' = server.port
  /\ server' = [server EXCEPT !.pc = "flag"]
  /\ UNCHANGED <<ip, changed, toaddr, sendfd, rate, traces, writer, time, local, wanted, lost,
                 sent, granted, left>>

\* The flag that is raised while the writer takes an address over may be
\* cleared without the new address having been read.
AddrFlagged ==
  /\ server.pc = "flag"
  /\ changed' = TRUE /\ Handled
  /\ lost' = [lost EXCEPT !.addr = @ \/ writer.pc \in {"port", "ip", "clear"}]
  /\ UNCHANGED <<ip, port, toaddr, sendfd, rate, traces, writer, time, local, wanted, sent,
                 granted, left>>

\* The requests that may be lost: one that was before, unless another limit is
\* asked for, one that falls into the change, and one equal to the limit in
\* force while another waits.
LimitLost(l) ==
  \/ lost.limit /\ l = rate.limit
  \/ writer.pc = "chg"
  \/ l = rate.limit /\ rate.chg # 0

\* do_set_rate_limit: the limit is compared with the one in force, not with the
\* one that waits to be.
SetRateLimit(l) ==
  /\ Packet
  /\ IF l \notin MinLimit..MaxLimit THEN UNCHANGED <<rate, wanted, lost>>
     ELSE /\ wanted' = [wanted EXCEPT !.limit = l]
          /\ rate' = [rate EXCEPT !.chg = IF l = rate.limit THEN @ ELSE l]
          /\ lost' = [lost EXCEPT !.limit = LimitLost(l)]
  /\ UNCHANGED <<addr, traces, server, writer, time, local, sent, granted>>

Over_AtEnd(s, t) == traces[s].uid = 0 \/ t >= traces[s].end

Over(s, t) == traces[s].uid = 0 \/ t > traces[s].end

\* do_set_trace_uid and add_to_trace_uid_list, of one user: the first slot that
\* is free or over is taken, the user and the end being written one by one.
SetTraceUid(u, life) ==
  /\ Packet
  /\ LET free == {s \in 1..Slots : Over(s, server.t)} IN
       IF life \notin MinLife..MaxLife \/ free = {} THEN UNCHANGED <<traces, server>>
       ELSE LET slot == CHOOSE s \in free : \A r \in free : s <= r IN
         /\ traces' = [traces EXCEPT ![slot].uid = u]
         /\ server' = [pc |-> "end", t |-> server.t, slot |-> slot, end |-> server.t + life]
  /\ UNCHANGED <<addr, rate, writer, time, local, wanted, lost, sent, granted>>

EndWritten ==
  /\ server.pc = "end"
  /\ traces' = [traces EXCEPT ![server.slot].end = server.end]
  /\ granted' = granted \cup {traces'[server.slot]}
  /\ Handled
  /\ UNCHANGED <<addr, rate, writer, time, local, wanted, lost, sent, left>>

---------------------------------------------------------------------------
(* The thread that logs.  A record is a call of write_to_logger with         *)
(* logger_flag_udp, which UTRACE_TLOG makes for the users that are traced at *)
(* the time of the record before this one.                                   *)

IsTraced(u) == \E s \in 1..Slots : traces[s].uid = u /\ now <= traces[s].end

Record(len) ==
  /\ writer.pc = "idle" /\ Spend("sends")
  /\ now' = clock
  /\ writer' = [pc |-> "test", len |-> len]
  /\ UNCHANGED <<addr, rate, traces, server, clock, local, wanted, lost, sent, granted>>

UTrace(u, len) == IsTraced(u) /\ Record(len)

Goes(pc) == writer' = [writer EXCEPT !.pc = pc]

TestChanged ==
  /\ writer.pc = "test"
  /\ Goes(IF changed THEN "port" ELSE "open")
  /\ lost' = [lost EXCEPT !.addr = @ /\ ~changed]
  /\ UNCHANGED <<addr, rate, traces, server, time, local, wanted, sent, granted, left>>

\* update_udp_sink_sockaddr, and the clearing of the flag.
TakePort ==
  /\ writer.pc = "port"
  /\ toaddr' = [toaddr EXCEPT !.port = port] /\ Goes("ip")
  /\ UNCHANGED <<ip, port, changed, sendfd, rate, traces, server, time, local, wanted, lost, sent,
                 granted, left>>

\* inet_pton may refuse an ip half written, or read one nobody wrote.
TakeIp ==
  /\ writer.pc = "ip"
  /\ toaddr' \in {[toaddr EXCEPT !.ip = ip]} \cup (IF ip = Torn THEN {toaddr} ELSE {})
  /\ Goes("clear")
  /\ UNCHANGED <<ip, port, changed, sendfd, rate, traces, server, time, local, wanted, lost, sent,
                 granted, left>>

ClearChanged ==
  /\ writer.pc = "clear"
  /\ changed' = FALSE /\ Goes("open")
  /\ UNCHANGED <<ip, port, toaddr, sendfd, rate, traces, server, time, local, wanted, lost, sent,
                 granted, left>>

\* A socket that failed is opened again, not more often than every Wait seconds.
OpenSocket ==
  /\ writer.pc = "open"
  /\ IF sendfd = -1 /\ now - lastInit >= Wait
     THEN /\ lastInit' = now
          /\ \/ sendfd' = 1 /\ Goes("fill") /\ UNCHANGED left
             \/ Spend("fails") /\ writer' = [pc |-> "idle"] /\ UNCHANGED sendfd
     ELSE Goes("fill") /\ UNCHANGED <<sendfd, lastInit, left>>
  /\ UNCHANGED <<ip, port, changed, toaddr, rate, traces, server, time, overflow, wanted, lost, sent,
                 granted>>

\* A new second: the limit that waits is taken over, then forgotten, and the
\* bucket is filled.
Filled(r) == [r EXCEPT !.token = r.limit, !.last = now]

NewSecond_Reopened == now # rate.last \/ lastInit = now

NewSecond == now # rate.last

FillBucket ==
  /\ writer.pc = "fill"
  /\ IF ~NewSecond THEN Goes("send") /\ UNCHANGED <<rate, overflow>>
     ELSE IF rate.chg # 0
     THEN /\ rate' = [rate EXCEPT !.limit = rate.chg]
          /\ Goes("chg") /\ UNCHANGED overflow
     ELSE rate' = Filled(rate) /\ overflow' = FALSE /\ Goes("send")
  /\ UNCHANGED <<addr, traces, server, time, lastInit, wanted, lost, sent, granted, left>>

ForgetChange ==
  /\ writer.pc = "chg"
  /\ rate' = Filled([rate EXCEPT !.chg = 0])
  /\ overflow' = FALSE /\ Goes("send")
  /\ UNCHANGED <<addr, traces, server, time, lastInit, wanted, lost, sent, granted, left>>

\* Bytes or notices that leave in the second of logger->now.
Leaves(bytes, n) ==
  sent' = [at |-> now,
           bytes |-> bytes + (IF sent.at = now THEN sent.bytes ELSE 0),
           notices |-> n + (IF sent.at = now THEN sent.notices ELSE 0)]

Send ==
  /\ writer.pc = "send" /\ writer' = [pc |-> "idle"]
  /\ IF writer.len > rate.token
     THEN /\ overflow' = TRUE
          /\ IF overflow THEN UNCHANGED sent ELSE Leaves(0, 1)
          /\ UNCHANGED <<rate, sendfd, left>>
     ELSE /\ \/ /\ sendfd # -1 /\ toaddr.ip # None
                /\ rate' = [rate EXCEPT !.token = @ - writer.len]
                /\ Leaves(writer.len, 0) /\ UNCHANGED <<sendfd, left>>
             \/ /\ IF sendfd = -1 \/ toaddr.ip = None THEN UNCHANGED left ELSE Spend("fails")
                /\ sendfd' = -1 /\ UNCHANGED <<rate, sent>>
          /\ UNCHANGED overflow
  /\ UNCHANGED <<ip, port, changed, toaddr, traces, server, time, lastInit, wanted, lost, granted>>

---------------------------------------------------------------------------
Server ==
  \/ ServerStarts \/ ServerWakes \/ ServerWaits \/ IpWritten \/ PortWritten \/ AddrFlagged
  \/ EndWritten
  \/ \E i \in Ips, p \in Ports : SetTraceAddr(i, p)
  \/ \E l \in Limits : SetRateLimit(l)
  \/ \E u \in Uids, l \in Lives : SetTraceUid(u, l)

Writer ==
  \/ \E len \in Sizes : Record(len) \/ (\E u \in Uids : UTrace(u, len))
  \/ TestChanged \/ TakePort \/ TakeIp \/ ClearChanged \/ OpenSocket \/ FillBucket
  \/ ForgetChange \/ Send

Next == Tick \/ Server \/ Writer

Spec == Init /\ [][Next]_vars

---------------------------------------------------------------------------
Address == [ip : Ips \cup {None}, port : Ports \cup {None}]

Servers ==
  [pc : {"starts", "waits"}] \cup [pc : {"woken"}, t : Nat]
    \cup [pc : {"ip", "port", "flag"}, t : Nat, ip : Ips, port : Ports]
    \cup [pc : {"end"}, t : Nat, slot : 1..Slots, end : Nat]

Writers ==
  [pc : {"idle"}]
    \cup [pc : {"test", "port", "ip", "clear", "open", "fill", "chg", "send"}, len : Sizes]

TypeOK ==
  /\ clock \in Nat /\ now \in Nat /\ lastInit \in Nat /\ overflow \in BOOLEAN
  /\ ip \in Ips \cup {None, Torn} /\ port \in Ports \cup {None} /\ changed \in BOOLEAN
  /\ toaddr \in [ip : Ips \cup {None, Torn}, port : Ports \cup {None}] /\ sendfd \in {-1, 1}
  /\ rate \in [last : Nat, token : Nat, limit : Nat, chg : Nat]
  /\ traces \in [1..Slots -> [uid : Uids \cup {0}, end : Nat]]
  /\ granted \subseteq [uid : Uids, end : Nat]
  /\ server \in Servers /\ writer \in Writers
  /\ wanted \in [addr : Address, limit : Nat]
  /\ lost \in [addr : BOOLEAN, limit : BOOLEAN]
  /\ sent \in [at : Nat, bytes : Nat, notices : Nat]
  /\ left \in [ticks : Nat, packets : Nat, sends : Nat, fails : Nat]

Quiet == server.pc \in {"waits", "woken"}

\* Once the packets are obeyed and the flag is down, records go to the address
\* asked for last, both its parts, whatever half-written address was read on
\* the way; the same for the limit when the bucket is filled.  The races of
\* `lost` are the only ways to lose a request.
SettingsTaken ==
  Quiet =>
    /\ (~changed /\ ~lost.addr /\ writer.pc \notin {"port", "ip", "clear"})
         => toaddr = wanted.addr
    /\ ~lost.limit => wanted.limit = IF rate.chg # 0 THEN rate.chg ELSE rate.limit

\* No second of logger->now sees more bytes than the limit in force, nor a
\* second notice that there were too many; a failed call, a socket opened again
\* and a change of the limit give no new tokens.
RateBounded ==
  /\ rate.token >= 0
  /\ sent.at = now => sent.bytes <= rate.limit /\ sent.notices <= 1

\* A trace that was granted keeps its slot to its end, and a user is traced
\* only by a grant that lasts or while its end is being written.
TracesKept ==
  /\ \A g \in granted : clock <= g.end => \E s \in 1..Slots : traces[s] = g
  /\ \A u \in Uids : IsTraced(u) =>
       \/ \E g \in granted : g.uid = u /\ now <= g.end
       \/ server.pc = "end" /\ traces[server.slot].uid = u

\* Together, with the types: the sender keeps to the limit, and traces last as long as granted
\* (sendlog_to_udp_sink, add_to_trace_uid_list).
SinkBounded == TypeOK /\ RateBounded /\ TracesKept
=============================================================================
