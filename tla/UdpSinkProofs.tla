--------------------------- MODULE UdpSinkProofs ---------------------------
(***************************************************************************)
(* Why the sink of tlog takes the settings over that it is asked for and   *)
(* keeps to its limit although its two threads share no lock: an inductive *)
(* invariant of UdpSink, and the theorems that rest on it; and why a stream*)
(* arrives as it was counted and descriptors are given back (Sockets).     *)
(***************************************************************************)
EXTENDS MCNetwork, SequenceTheorems, FiniteSetTheorems, WellFoundedInduction, TLAPS

Changing == server.pc \in {"ip", "port", "flag"}
Taking   == writer.pc \in {"port", "ip", "clear"}

\* What the server has of an address is the one asked for last.
Written ==
  /\ ~Changing => wanted.addr = [ip |-> ip, port |-> port]
  /\ Changing => wanted.addr = [ip |-> server.ip, port |-> server.port]
  /\ server.pc \in {"port", "flag"} => ip = server.ip
  /\ server.pc = "flag" => port = server.port

\* What the writer has of it, unless the server raised the flag meanwhile.
Taken ==
  ~Changing /\ ~lost.addr =>
    /\ writer.pc = "ip" => toaddr.port = port
    /\ writer.pc = "clear" => toaddr = [ip |-> ip, port |-> port]
    /\ ~changed /\ ~Taking => toaddr = [ip |-> ip, port |-> port]

\* The limit asked for last waits or is in force.
Limited ==
  /\ server.pc = "starts" => rate.limit = 0 /\ rate.chg = 0 /\ wanted.limit = DefLimit
  /\ writer.pc = "chg" => rate.chg # 0
  /\ ~lost.limit /\ server.pc # "starts" =>
       /\ wanted.limit = IF rate.chg # 0 THEN rate.chg ELSE rate.limit
       /\ writer.pc = "chg" => rate.limit = rate.chg

\* What left in a second and what may still leave in it are within the limit.
Rated ==
  /\ sent.at <= rate.last /\ rate.last <= now /\ now <= clock
  /\ writer.pc = "send" => rate.last = now
  /\ IF writer.pc = "chg" THEN rate.last # now ELSE rate.token <= rate.limit
  /\ writer.pc # "chg" /\ sent.at = rate.last =>
       /\ sent.bytes + rate.token <= rate.limit
       /\ sent.notices <= IF overflow THEN 1 ELSE 0

\* The slot that is being written is that of a trace that is over; the others
\* are free or granted.
Writing(s) == server.pc = "end" /\ server.slot = s

Traced ==
  /\ server.pc \in {"woken", "ip", "port", "flag", "end"} => server.t <= clock
  /\ \A g \in granted : clock <= g.end => \E s \in 1..Slots : traces[s] = g /\ ~Writing(s)
  /\ \A s \in 1..Slots : traces[s].uid = 0 \/ traces[s] \in granted \/ Writing(s)
  /\ server.pc = "end" => traces[server.slot].uid # 0

IInv == TypeOK /\ Written /\ Taken /\ Limited /\ Rated /\ Traced

---------------------------------------------------------------------------
(* The types. *)

LEMMA Least ==
  ASSUME NEW S \in SUBSET Nat, S # {}
  PROVE  \E m \in S : \A n \in S : m <= n
<1> DEFINE T == {0..n : n \in S}
           R == StrictSubsetOrdering(Nat)
<1>1. T \subseteq FiniteSubsetsOf(Nat)
  <2>1. \A n \in S : 0..n \subseteq Nat /\ IsFiniteSet(0..n)
    BY FS_Interval
  <2> QED BY <2>1 DEF FiniteSubsetsOf
<1>2. T # {}
  OBVIOUS
<1>3. \E x \in T : \A y \in T : ~(<<y, x>> \in R)
  <2> HIDE DEF T
  <2> QED BY <1>1, <1>2, FS_StrictSubsetOrderingWellFounded, WFMin
<1>4. PICK m \in S : \A k \in S : ~(<<0..k, 0..m>> \in R)
  BY <1>3
<1>5. \A k \in S : m <= k
  <2> SUFFICES ASSUME NEW k \in S, k < m PROVE FALSE
    OBVIOUS
  <2>1. 0..k \subseteq 0..m /\ 0..k # 0..m /\ 0..k \in SUBSET Nat /\ 0..m \in SUBSET Nat
    <3>1. m \in 0..m /\ m \notin 0..k
      OBVIOUS
    <3> QED BY <3>1
  <2> QED BY <1>4, <2>1 DEF StrictSubsetOrdering
<1> QED BY <1>5

\* A grant takes the first slot that is free or over.
LEMMA Slot ==
  ASSUME NEW u, NEW life, SetTraceUid(u, life), traces' # traces \/ server' # server
  PROVE  /\ life \in MinLife..MaxLife
         /\ \E slot \in 1..Slots :
              /\ Over(slot, server.t)
              /\ traces' = [traces EXCEPT ![slot].uid = u]
              /\ server' = [pc |-> "end", t |-> server.t, slot |-> slot, end |-> server.t + life]
<1> DEFINE free == {s \in 1..Slots : Over(s, server.t)}
           slot == CHOOSE s \in free : \A r \in free : s <= r
<1>1. life \in MinLife..MaxLife /\ free # {}
  BY DEF SetTraceUid
<1>2. slot \in free
  <2>1. free \in SUBSET Nat
    BY UdpAssumption DEF UdpAssumption
  <2>2. \E m \in free : \A n \in free : m <= n
    <3> HIDE DEF free
    <3> QED BY <1>1, <2>1, Least
  <2> QED BY <2>2
<1>3. /\ traces' = [traces EXCEPT ![slot].uid = u]
      /\ server' = [pc |-> "end", t |-> server.t, slot |-> slot, end |-> server.t + life]
  BY <1>1 DEF SetTraceUid
<1> HIDE DEF slot
<1> QED BY <1>1, <1>2, <1>3

\* The types of the state, named so that a proof need not look into them.
Targets == [ip : Ips \cup {None, Torn}, port : Ports \cup {None}]
Rate    == [last : Nat, token : Nat, limit : Nat, chg : Nat]
Slotted == [1..Slots -> [uid : Uids \cup {0}, end : Nat]]
Wishes  == [addr : Address, limit : Nat]
Losses  == [addr : BOOLEAN, limit : BOOLEAN]
Counts  == [at : Nat, bytes : Nat, notices : Nat]
Allowed == [ticks : Nat, packets : Nat, sends : Nat, fails : Nat]

Typed ==
  /\ clock \in Nat /\ now \in Nat /\ lastInit \in Nat /\ overflow \in BOOLEAN
  /\ ip \in Ips \cup {None, Torn} /\ port \in Ports \cup {None} /\ changed \in BOOLEAN
  /\ toaddr \in Targets /\ sendfd \in {-1, 1} /\ rate \in Rate /\ traces \in Slotted
  /\ granted \subseteq [uid : Uids, end : Nat] /\ server \in Servers /\ writer \in Writers
  /\ wanted \in Wishes /\ lost \in Losses /\ sent \in Counts /\ left \in Allowed

LEMMA Types == TypeOK <=> Typed
  BY DEF TypeOK, Typed, Targets, Rate, Slotted, Wishes, Losses, Counts, Allowed

LEMMA TypesNext == TypeOK' <=> Typed'
  BY DEF TypeOK, Typed, Targets, Rate, Slotted, Wishes, Losses, Counts, Allowed

LEMMA Spends ==
  ASSUME TypeOK, NEW what \in {"ticks", "packets", "sends", "fails"}, Spend(what)
  PROVE  left' \in Allowed
  BY Types DEF Typed, Spend, Allowed

\* What a record of the server's or the writer's holds, by where they are.
LEMMA ServerIs ==
  ASSUME TypeOK
  PROVE  /\ server.pc \in {"starts", "waits", "woken", "ip", "port", "flag", "end"}
         /\ server.pc \in {"woken", "ip", "port", "flag", "end"} => server.t \in Nat
         /\ Changing => /\ server \in [pc : {"ip", "port", "flag"}, t : Nat, ip : Ips, port : Ports]
                        /\ server.ip \in Ips /\ server.port \in Ports
         /\ server.pc = "end" => server.slot \in 1..Slots /\ server.end \in Nat
  BY Types, TypesNext DEF Typed, Servers, Changing

LEMMA WriterIs ==
  ASSUME TypeOK, writer.pc # "idle"
  PROVE  /\ writer \in [pc : {"test", "port", "ip", "clear", "open", "fill", "chg", "send"}, len : Sizes]
         /\ writer.len \in Nat
  BY UdpAssumption, Types, TypesNext DEF Typed, Writers, UdpAssumption

LEMMA WriterGoes ==
  ASSUME TypeOK, writer.pc # "idle",
         NEW to \in {"test", "port", "ip", "clear", "open", "fill", "chg", "send"}, Goes(to)
  PROVE  writer' \in Writers /\ writer'.pc = to
  BY WriterIs DEF Goes, Writers

LEMMA RateIs ==
  ASSUME TypeOK
  PROVE  rate \in Rate /\ rate.last \in Nat /\ rate.token \in Nat /\ rate.limit \in Nat /\ rate.chg \in Nat
  BY Types, TypesNext DEF Typed, Rate

LEMMA RateSet ==
  ASSUME NEW r \in Rate, NEW v \in Nat
  PROVE  /\ [r EXCEPT !.chg = v] \in Rate /\ [r EXCEPT !.limit = v] \in Rate
         /\ [r EXCEPT !.token = v] \in Rate
  BY DEF Rate

LEMMA RateFilled ==
  ASSUME NEW r \in Rate, now \in Nat
  PROVE  Filled(r) \in Rate
  BY DEF Rate, Filled

LEMMA TickTypes == ASSUME TypeOK, Tick PROVE TypeOK'
  BY Spends, Types, TypesNext DEF Typed, Tick, addr, time, local

LEMMA ServerTypes == ASSUME TypeOK, Traced, Server PROVE TypeOK'
<1> USE UdpAssumption DEF UdpAssumption, addr, time, local
<1>1. CASE ServerStarts
  <2>1. server' \in Servers
    BY <1>1 DEF ServerStarts, Servers
  <2>2. rate' \in Rate
    BY <1>1, RateIs, RateSet DEF ServerStarts
  <2> QED BY <1>1, <2>1, <2>2, Types, TypesNext DEF Typed, ServerStarts
<1>2. CASE ServerWakes
  BY <1>2, Types, TypesNext DEF Typed, ServerWakes, Servers
<1>3. CASE ServerWaits
  BY <1>3, Types, TypesNext DEF Typed, ServerWaits, Servers
<1>4. CASE IpWritten
  <2>1. server' \in Servers
    BY <1>4, ServerIs DEF IpWritten, Changing, Servers
  <2> QED BY <1>4, <2>1, ServerIs, Types, TypesNext DEF Typed, IpWritten, Changing
<1>5. CASE PortWritten
  <2>1. server' \in Servers
    BY <1>5, ServerIs DEF PortWritten, Changing, Servers
  <2> QED BY <1>5, <2>1, ServerIs, Types, TypesNext DEF Typed, PortWritten, Changing
<1>6. CASE AddrFlagged
  <2>1. server' \in Servers
    BY <1>6, ServerIs DEF AddrFlagged, Handled, Servers
  <2>2. lost' \in Losses
    BY <1>6, Types DEF Typed, AddrFlagged, Losses
  <2> QED BY <1>6, <2>1, <2>2, Types, TypesNext DEF Typed, AddrFlagged
<1>7. CASE EndWritten
  <2>1. server' \in Servers
    BY <1>7, ServerIs DEF EndWritten, Handled, Servers
  <2>2. server.slot \in 1..Slots /\ server.end \in Nat /\ traces[server.slot].uid \in Uids
    BY <1>7, ServerIs, Types DEF Typed, EndWritten, Traced, Slotted
  <2>3. /\ traces' \in Slotted
        /\ traces'[server.slot] \in [uid : Uids, end : Nat]
    <3>1. traces'[server.slot] = [traces[server.slot] EXCEPT !.end = server.end]
      BY <1>7, <2>2, Types DEF Typed, EndWritten, Slotted
    <3>2. traces[server.slot] \in [uid : Uids \cup {0}, end : Nat]
      BY <2>2, Types DEF Typed, Slotted
    <3>3. traces'[server.slot] \in [uid : Uids, end : Nat]
      BY <3>1, <3>2, <2>2
    <3> QED BY <1>7, <2>2, <3>3, Types DEF Typed, EndWritten, Slotted
  <2>4. granted' \subseteq [uid : Uids, end : Nat]
    BY <1>7, <2>3, Types, TypesNext DEF Typed, EndWritten
  <2> QED BY <1>7, <2>1, <2>3, <2>4, Types, TypesNext DEF Typed, EndWritten
<1>8. ASSUME NEW i \in Ips, NEW p \in Ports, SetTraceAddr(i, p) PROVE TypeOK'
  <2>1. server' \in Servers
    <3>1. CASE SameAddr(i, p)
      BY <1>8, <3>1, Types, TypesNext DEF Typed, SetTraceAddr
    <3>2. CASE ~SameAddr(i, p)
      <4>1. server' = [pc |-> "ip", t |-> server.t, ip |-> i, port |-> p] /\ server.t \in Nat
        BY <1>8, <3>2, ServerIs DEF SetTraceAddr, Packet
      <4> QED BY <4>1 DEF Servers
    <3> QED BY <3>1, <3>2
  <2>2. wanted' \in Wishes
    BY <1>8, Types DEF Typed, SetTraceAddr, Address, Wishes
  <2> QED BY <1>8, <2>1, <2>2, Spends, Types, TypesNext DEF Typed, SetTraceAddr, Packet
<1>9. ASSUME NEW l \in Limits, SetRateLimit(l) PROVE TypeOK'
  <2>1. rate' \in Rate
    <3>1. rate' \in {rate, [rate EXCEPT !.chg = l], [rate EXCEPT !.chg = rate.chg]}
      BY <1>9 DEF SetRateLimit
    <3>2. [rate EXCEPT !.chg = l] \in Rate
      BY RateIs, RateSet
    <3>3. [rate EXCEPT !.chg = rate.chg] \in Rate
      BY RateIs, RateSet
    <3> QED BY <3>1, <3>2, <3>3, RateIs
  <2>3. wanted' \in Wishes
    BY <1>9, Types DEF Typed, SetRateLimit, Wishes
  <2>2. lost' \in Losses
    <3>1. lost' \in {lost, [lost EXCEPT !.limit = LimitLost(l)]}
      BY <1>9 DEF SetRateLimit
    <3>2. LimitLost(l) \in BOOLEAN
      BY Types DEF Typed, LimitLost, Losses
    <3> QED BY <3>1, <3>2, Types DEF Typed, Losses
  <2> QED BY <1>9, <2>1, <2>2, <2>3, Spends, Types, TypesNext DEF Typed, SetRateLimit, Packet, Rate
<1>10. ASSUME NEW u \in Uids, NEW l \in Lives, SetTraceUid(u, l) PROVE TypeOK'
  <2>1. server' \in Servers /\ traces' \in Slotted
    <3>1. CASE traces' # traces \/ server' # server
      <4>1. PICK slot \in 1..Slots :
              /\ traces' = [traces EXCEPT ![slot].uid = u]
              /\ server' = [pc |-> "end", t |-> server.t, slot |-> slot, end |-> server.t + l]
        BY <1>10, <3>1, Slot
      <4>2. server.t \in Nat /\ server.t + l \in Nat
        BY <1>10, ServerIs DEF SetTraceUid, Packet
      <4>3. server' \in Servers
        BY <4>1, <4>2 DEF Servers
      <4> QED BY <4>1, <4>3, Types DEF Typed, Slotted
    <3> QED BY <3>1, Types, TypesNext DEF Typed
  <2> QED BY <1>10, <2>1, Spends, Types, TypesNext DEF Typed, SetTraceUid, Packet
<1> QED BY <1>1, <1>2, <1>3, <1>4, <1>5, <1>6, <1>7, <1>8, <1>9, <1>10 DEF Server

LEMMA WriterTypes == ASSUME TypeOK, Writer PROVE TypeOK'
<1> USE UdpAssumption DEF UdpAssumption, addr, time, local
<1>1. ASSUME NEW len \in Sizes, Record(len) PROVE TypeOK'
  BY <1>1, Spends, Types, TypesNext DEF Typed, Record, Writers
<1>2. CASE TestChanged
  <2>1. writer' \in Writers
    BY <1>2, WriterGoes DEF TestChanged
  <2>2. lost' \in Losses
    BY <1>2, Types DEF Typed, TestChanged, Losses
  <2> QED BY <1>2, <2>1, <2>2, Types, TypesNext DEF Typed, TestChanged
<1>3. CASE TakePort
  <2>1. writer' \in Writers
    BY <1>3, WriterGoes DEF TakePort
  <2>2. toaddr' \in Targets
    BY <1>3, Types DEF Typed, TakePort, Targets
  <2> QED BY <1>3, <2>1, <2>2, Types, TypesNext DEF Typed, TakePort
<1>4. CASE TakeIp
  <2>1. writer' \in Writers
    BY <1>4, WriterGoes DEF TakeIp
  <2>2. toaddr' \in Targets
    <3>1. toaddr' \in {[toaddr EXCEPT !.ip = ip], toaddr}
      BY <1>4 DEF TakeIp
    <3> QED BY <3>1, Types DEF Typed, Targets
  <2> QED BY <1>4, <2>1, <2>2, Types, TypesNext DEF Typed, TakeIp
<1>5. CASE ClearChanged
  BY <1>5, WriterGoes, Types, TypesNext DEF Typed, ClearChanged
<1>6. CASE OpenSocket
  <2>1. writer' \in Writers
    BY <1>6, WriterGoes DEF OpenSocket, Writers
  <2>2. left' \in Allowed
    BY <1>6, Spends, Types, TypesNext DEF Typed, OpenSocket
  <2>3. sendfd' \in {-1, 1} /\ lastInit' \in Nat
    BY <1>6, Types, TypesNext DEF Typed, OpenSocket
  <2> QED BY <1>6, <2>1, <2>2, <2>3, Types, TypesNext DEF Typed, OpenSocket
<1>7. CASE FillBucket
  <2>1. writer' \in Writers
    BY <1>7, WriterGoes DEF FillBucket
  <2>2. rate' \in Rate /\ overflow' \in BOOLEAN
    <3>1. now \in Nat /\ overflow' \in BOOLEAN
      BY <1>7, Types, TypesNext DEF Typed, FillBucket
    <3>2. rate' \in {rate, [rate EXCEPT !.limit = rate.chg], Filled(rate)}
      BY <1>7 DEF FillBucket
    <3> QED BY <3>1, <3>2, RateIs, RateSet, RateFilled
  <2> QED BY <1>7, <2>1, <2>2, Types, TypesNext DEF Typed, FillBucket, Rate
<1>8. CASE ForgetChange
  <2>1. writer' \in Writers
    BY <1>8, WriterGoes DEF ForgetChange
  <2>2. rate' \in Rate
    <3>1. [rate EXCEPT !.chg = 0] \in Rate /\ now \in Nat
      BY RateIs, RateSet, Types DEF Typed
    <3> QED BY <1>8, <3>1, RateFilled DEF ForgetChange
  <2> QED BY <1>8, <2>1, <2>2, Types, TypesNext DEF Typed, ForgetChange
<1>9. CASE Send
  <2>0. writer.len \in Nat /\ writer' \in Writers
    BY <1>9, WriterIs DEF Send, Writers
  <2>1. sent' \in Counts
    <3>1. CASE UNCHANGED sent
      BY <3>1, Types, TypesNext DEF Typed
    <3>2. ASSUME NEW b \in Nat, NEW n \in Nat, Leaves(b, n) PROVE sent' \in Counts
      BY <3>2, Types DEF Typed, Leaves, Counts
    <3> QED BY <1>9, <2>0, <3>1, <3>2 DEF Send
  <2>2. rate' \in Rate
    <3>1. CASE UNCHANGED rate
      BY <3>1, Types, TypesNext DEF Typed, Rate
    <3>2. CASE writer.len <= rate.token /\ rate' = [rate EXCEPT !.token = @ - writer.len]
      <4>1. rate.token - writer.len \in Nat
        BY <2>0, <3>2, RateIs
      <4> QED BY <3>2, <4>1, RateIs, RateSet
    <3>3. writer.len > rate.token \/ writer.len <= rate.token
      BY <2>0, RateIs
    <3> QED BY <1>9, <3>1, <3>2, <3>3 DEF Send
  <2>3. left' \in Allowed
    BY <1>9, Spends, Types, TypesNext DEF Typed, Send
  <2>4. sendfd' \in {-1, 1} /\ overflow' \in BOOLEAN
    BY <1>9, Types, TypesNext DEF Typed, Send
  <2> QED BY <1>9, <2>0, <2>1, <2>2, <2>3, <2>4, Types, TypesNext DEF Typed, Send, Rate
<1> QED BY <1>1, <1>2, <1>3, <1>4, <1>5, <1>6, <1>7, <1>8, <1>9 DEF Writer, UTrace

---------------------------------------------------------------------------
(* The address. *)

\* Where a step of the server, or of the writer, has nothing to do with it.
LEMMA ServerElsewhere ==
  ASSUME Written, Taken, ~Changing, ~Changing', UNCHANGED <<ip, port, changed, toaddr, writer>>,
         wanted'.addr = wanted.addr, lost'.addr = lost.addr
  PROVE  Written' /\ Taken'
  BY DEF Written, Taken, Changing, Taking

LEMMA WriterElsewhere ==
  ASSUME Written, Taken, ~Taking, ~Taking', UNCHANGED <<ip, port, changed, toaddr, server, wanted, lost>>
  PROVE  Written' /\ Taken'
  BY DEF Written, Taken, Changing, Taking

LEMMA AddressServer ==
  ASSUME TypeOK, Written, Taken, Server
  PROVE  Written' /\ Taken'
<1> USE DEF addr
<1>1. CASE ServerStarts \/ ServerWakes \/ ServerWaits \/ EndWritten
  <2>1. ~Changing /\ ~Changing'
    BY <1>1 DEF ServerStarts, ServerWakes, ServerWaits, EndWritten, Handled, Changing
  <2> QED BY <1>1, <2>1, ServerElsewhere DEF ServerStarts, ServerWakes, ServerWaits, EndWritten
<1>2. CASE IpWritten
  <2>1. server'.pc = "port" /\ server'.ip = server.ip /\ server'.port = server.port
    BY <1>2, ServerIs DEF IpWritten, Changing
  <2> QED BY <1>2, <2>1 DEF IpWritten, Written, Taken, Changing
<1>3. CASE PortWritten
  <2>1. server'.pc = "flag" /\ server'.ip = server.ip /\ server'.port = server.port
    BY <1>3, ServerIs DEF PortWritten, Changing
  <2> QED BY <1>3, <2>1 DEF PortWritten, Written, Taken, Changing
<1>4. CASE AddrFlagged
  <2>1. server'.pc = "woken" /\ changed' = TRUE
    BY <1>4 DEF AddrFlagged, Handled
  <2>2. Taking => lost'.addr = TRUE
    BY <1>4 DEF AddrFlagged, Taking, TypeOK
  <2> QED BY <1>4, <2>1, <2>2 DEF AddrFlagged, Written, Taken, Changing, Taking
<1>5. ASSUME NEW i \in Ips, NEW p \in Ports, SetTraceAddr(i, p) PROVE Written' /\ Taken'
  <2>1. wanted'.addr = [ip |-> i, port |-> p] /\ ~Changing
    BY <1>5 DEF SetTraceAddr, Packet, Changing, TypeOK
  <2>2. CASE SameAddr(i, p)
    <3>1. wanted'.addr = wanted.addr
      BY <2>1, <2>2 DEF SameAddr, Written
    <3>2. UNCHANGED server
      BY <1>5, <2>2 DEF SetTraceAddr
    <3> QED BY <1>5, <2>1, <2>2, <3>1, <3>2, ServerElsewhere DEF SetTraceAddr, Changing
  <2>3. CASE ~SameAddr(i, p)
    <3>1. server' = [pc |-> "ip", t |-> server.t, ip |-> i, port |-> p]
      BY <1>5, <2>3 DEF SetTraceAddr
    <3> QED BY <2>1, <3>1 DEF Written, Taken, Changing
  <2> QED BY <2>2, <2>3
<1>6. ASSUME NEW l \in Limits, SetRateLimit(l) PROVE Written' /\ Taken'
  <2>1. wanted'.addr = wanted.addr /\ lost'.addr = lost.addr
    BY <1>6 DEF SetRateLimit, TypeOK
  <2> QED BY <1>6, <2>1, ServerElsewhere DEF SetRateLimit, Packet, Changing
<1>7. ASSUME NEW u \in Uids, NEW l \in Lives, SetTraceUid(u, l) PROVE Written' /\ Taken'
  <2>1. server'.pc \in {"woken", "end"} /\ server.pc = "woken"
    BY <1>7, Slot DEF SetTraceUid, Packet
  <2> QED BY <1>7, <2>1, ServerElsewhere DEF SetTraceUid, Changing
<1> QED BY <1>1, <1>2, <1>3, <1>4, <1>5, <1>6, <1>7 DEF Server

LEMMA AddressWriter ==
  ASSUME TypeOK, Written, Taken, Writer
  PROVE  Written' /\ Taken'
<1> USE DEF addr
<1>1. ASSUME NEW len \in Sizes, Record(len) PROVE Written' /\ Taken'
  BY <1>1, WriterElsewhere DEF Record, Taking
<1>2. CASE TestChanged
  <2>1. CASE changed
    <3>1. writer'.pc = "port"
      BY <1>2, <2>1, WriterGoes DEF TestChanged
    <3> QED BY <1>2, <2>1, <3>1 DEF TestChanged, Written, Taken, Changing, Taking
  <2>2. CASE ~changed
    <3>1. writer'.pc = "open" /\ lost' = lost
      BY <1>2, <2>2, WriterGoes DEF TestChanged, TypeOK
    <3> QED BY <1>2, <3>1, WriterElsewhere DEF TestChanged, Taking
  <2> QED BY <2>1, <2>2
<1>3. CASE TakePort
  <2>1. writer'.pc = "ip" /\ toaddr'.port = port
    BY <1>3, WriterGoes DEF TakePort, TypeOK
  <2> QED BY <1>3, <2>1 DEF TakePort, Written, Taken, Changing, Taking
<1>4. CASE TakeIp
  <2>1. writer'.pc = "clear"
    BY <1>4, WriterGoes DEF TakeIp
  <2>2. ~Changing => ip # Torn
    BY UdpAssumption DEF UdpAssumption, Written, TypeOK, Address
  <2>3. ip # Torn /\ toaddr.port = port => toaddr' = [ip |-> ip, port |-> port]
    BY <1>4 DEF TakeIp, TypeOK
  <2> QED BY <1>4, <2>1, <2>2, <2>3 DEF TakeIp, Written, Taken, Changing, Taking
<1>5. CASE ClearChanged
  <2>1. writer'.pc = "open"
    BY <1>5, WriterGoes DEF ClearChanged
  <2> QED BY <1>5, <2>1 DEF ClearChanged, Written, Taken, Changing, Taking
<1>6. CASE OpenSocket \/ FillBucket \/ ForgetChange \/ Send
  <2>1. writer.pc \in {"open", "fill", "chg", "send"} /\ writer'.pc \in {"idle", "fill", "chg", "send"}
    BY <1>6, WriterGoes DEF OpenSocket, FillBucket, ForgetChange, Send
  <2> QED BY <1>6, <2>1, WriterElsewhere DEF OpenSocket, FillBucket, ForgetChange, Send, Taking
<1> QED BY <1>1, <1>2, <1>3, <1>4, <1>5, <1>6 DEF Writer, UTrace

---------------------------------------------------------------------------
(* The limit. *)

LEMMA LimitServer ==
  ASSUME TypeOK, Limited, Server
  PROVE  Limited'
<1> USE DEF addr
<1>1. CASE ServerStarts
  <2>1. rate'.limit = DefLimit /\ rate'.chg = 0 /\ server'.pc = "waits" /\ writer.pc # "chg"
    BY <1>1 DEF ServerStarts, Limited, TypeOK
  <2> QED BY <1>1, <2>1 DEF ServerStarts, Limited
<1>2. ASSUME NEW l \in Limits, SetRateLimit(l) PROVE Limited'
  <2>1. server.pc = "woken" /\ server'.pc = "woken"
    BY <1>2 DEF SetRateLimit, Packet
  <2>2. CASE l \notin MinLimit..MaxLimit
    BY <1>2, <2>1, <2>2 DEF SetRateLimit, Limited
  <2>3. CASE l \in MinLimit..MaxLimit
    <3>1. l # 0 /\ wanted'.limit = l
      <4>1. wanted' = [wanted EXCEPT !.limit = l]
        BY <1>2, <2>3 DEF SetRateLimit
      <4>2. l # 0
        BY <2>3, UdpAssumption DEF UdpAssumption
      <4> QED BY <4>1, <4>2 DEF TypeOK
    <3>2. rate'.limit = rate.limit /\ rate'.chg = IF l = rate.limit THEN rate.chg ELSE l
      <4>1. rate' = [rate EXCEPT !.chg = IF l = rate.limit THEN rate.chg ELSE l]
        BY <1>2, <2>3 DEF SetRateLimit
      <4> QED BY <4>1, RateIs DEF Rate
    <3>3. ~lost'.limit => writer.pc # "chg" /\ (l = rate.limit => ~lost.limit /\ rate.chg = 0)
      <4>1. lost' = [lost EXCEPT !.limit = LimitLost(l)]
        BY <1>2, <2>3 DEF SetRateLimit
      <4>2. ~lost'.limit => ~LimitLost(l)
        BY <4>1 DEF TypeOK
      <4> QED BY <4>2 DEF LimitLost
    <3> QED BY <1>2, <2>1, <3>1, <3>2, <3>3 DEF SetRateLimit, Limited
  <2> QED BY <2>2, <2>3
<1>3. CASE ServerWakes \/ ServerWaits \/ EndWritten \/ IpWritten \/ PortWritten \/ AddrFlagged
  <2>1. server.pc # "starts" /\ server'.pc # "starts"
    BY <1>3, ServerIs DEF ServerWakes, ServerWaits, EndWritten, IpWritten, PortWritten, AddrFlagged, Handled, Changing
  <2>2. lost'.limit = lost.limit
    BY <1>3 DEF ServerWakes, ServerWaits, EndWritten, IpWritten, PortWritten, AddrFlagged, TypeOK
  <2> QED BY <1>3, <2>1, <2>2 DEF ServerWakes, ServerWaits, EndWritten, IpWritten, PortWritten, AddrFlagged, Limited
<1>4. ASSUME NEW i \in Ips, NEW p \in Ports, SetTraceAddr(i, p) PROVE Limited'
  <2>1. server.pc = "woken"
    BY <1>4 DEF SetTraceAddr, Packet
  <2>2. server.pc # "starts" /\ server'.pc # "starts"
    BY <1>4, <2>1 DEF SetTraceAddr
  <2>3. wanted' = [wanted EXCEPT !.addr = [ip |-> i, port |-> p]] /\ UNCHANGED <<rate, writer, lost>>
    BY <1>4 DEF SetTraceAddr
  <2>4. wanted'.limit = wanted.limit
    BY <2>3 DEF TypeOK
  <2> QED BY <2>2, <2>3, <2>4 DEF Limited
<1>5. ASSUME NEW u \in Uids, NEW l \in Lives, SetTraceUid(u, l) PROVE Limited'
  <2>1. server.pc # "starts" /\ server'.pc # "starts"
    BY <1>5, Slot DEF SetTraceUid, Packet
  <2> QED BY <1>5, <2>1 DEF SetTraceUid, Limited
<1> QED BY <1>1, <1>2, <1>3, <1>4, <1>5 DEF Server

LEMMA LimitWriter ==
  ASSUME TypeOK, Limited, Writer
  PROVE  Limited'
<1> USE DEF addr
<1>1. CASE FillBucket
  <2>1. CASE NewSecond /\ rate.chg # 0
    <3>1. writer'.pc = "chg" /\ rate'.limit = rate.chg /\ rate'.chg = rate.chg
      BY <1>1, <2>1, WriterGoes, RateIs DEF FillBucket, Rate
    <3> QED BY <1>1, <2>1, <3>1 DEF FillBucket, Limited
  <2>2. CASE ~(NewSecond /\ rate.chg # 0)
    <3>1. writer'.pc = "send" /\ writer.pc = "fill"
      BY <1>1, <2>2, WriterGoes DEF FillBucket
    <3>2. rate'.limit = rate.limit /\ rate'.chg = rate.chg
      BY <1>1, <2>2, RateIs DEF FillBucket, Filled, Rate
    <3> QED BY <1>1, <3>1, <3>2 DEF FillBucket, Limited
  <2> QED BY <2>1, <2>2
<1>2. CASE ForgetChange
  <2>1. writer'.pc = "send" /\ writer.pc = "chg" /\ rate'.limit = rate.limit /\ rate'.chg = 0
    BY <1>2, WriterGoes, RateIs DEF ForgetChange, Filled, Rate
  <2> QED BY <1>2, <2>1 DEF ForgetChange, Limited
<1>3. ASSUME NEW len \in Sizes, Record(len) PROVE Limited'
  BY <1>3 DEF Record, Limited
<1>4. CASE TestChanged \/ TakePort \/ TakeIp \/ ClearChanged \/ OpenSocket \/ Send
  <2>1. writer.pc # "chg" /\ writer'.pc # "chg"
    BY <1>4, WriterGoes DEF TestChanged, TakePort, TakeIp, ClearChanged, OpenSocket, Send
  <2>2. lost'.limit = lost.limit
    BY <1>4 DEF TestChanged, TakePort, TakeIp, ClearChanged, OpenSocket, Send, TypeOK
  <2>3. rate'.limit = rate.limit /\ rate'.chg = rate.chg
    BY <1>4, RateIs DEF TestChanged, TakePort, TakeIp, ClearChanged, OpenSocket, Send, Rate
  <2> QED BY <1>4, <2>1, <2>2, <2>3
        DEF TestChanged, TakePort, TakeIp, ClearChanged, OpenSocket, Send, Limited
<1> QED BY <1>1, <1>2, <1>3, <1>4 DEF Writer, UTrace

---------------------------------------------------------------------------
(* The rate. *)

LEMMA RateServer ==
  ASSUME TypeOK, Limited, Rated, Server
  PROVE  Rated'
<1>1. CASE ServerStarts
  <2>1. rate'.last = rate.last /\ rate'.token = rate.token /\ rate.limit = 0 /\ rate'.limit \in Nat
    BY <1>1, RateIs, UdpAssumption DEF UdpAssumption, ServerStarts, Limited, Rate
  <2>2. UNCHANGED <<clock, now, writer, sent, overflow>>
    BY <1>1 DEF ServerStarts, time, local
  <2>3. sent.bytes \in Nat /\ rate.token \in Nat
    BY RateIs DEF TypeOK
  <2> QED BY <2>1, <2>2, <2>3 DEF Rated
<1>2. ASSUME NEW l \in Limits, SetRateLimit(l) PROVE Rated'
  <2>1. rate'.last = rate.last /\ rate'.token = rate.token /\ rate'.limit = rate.limit
    BY <1>2, RateIs DEF SetRateLimit, Rate
  <2>2. UNCHANGED <<clock, now, writer, sent, overflow>>
    BY <1>2 DEF SetRateLimit, time, local
  <2> QED BY <2>1, <2>2 DEF Rated
<1>3. CASE UNCHANGED <<rate, clock, now, writer, sent, overflow>>
  BY <1>3 DEF Rated
<1>4. Server => UNCHANGED <<rate, clock, now, writer, sent, overflow>> \/ ServerStarts \/ \E l \in Limits : SetRateLimit(l)
  BY DEF Server, ServerWakes, ServerWaits, IpWritten, PortWritten, AddrFlagged, EndWritten, SetTraceAddr,
         SetTraceUid, time, local
<1> QED BY <1>1, <1>2, <1>3, <1>4

LEMMA RateWriter ==
  ASSUME TypeOK, Rated, Writer
  PROVE  Rated'
<1> USE DEF time, local
<1>0. /\ clock \in Nat /\ now \in Nat /\ overflow \in BOOLEAN /\ sent \in [at : Nat, bytes : Nat, notices : Nat]
      /\ sent.at \in Nat /\ sent.bytes \in Nat /\ sent.notices \in Nat
  BY DEF TypeOK
<1>1. ASSUME NEW len \in Sizes, Record(len) PROVE Rated'
  <2>1. now' = clock /\ writer'.pc = "test" /\ writer.pc = "idle" /\ UNCHANGED <<clock, rate, sent, overflow>>
    BY <1>1 DEF Record
  <2> QED BY <2>1, <1>0, RateIs DEF Rated
<1>2. CASE FillBucket
  <2>1. CASE ~NewSecond
    <3>1. writer'.pc = "send" /\ writer.pc = "fill" /\ now = rate.last
      BY <1>2, <2>1, WriterGoes DEF FillBucket, NewSecond
    <3> QED BY <1>2, <2>1, <3>1 DEF FillBucket, Rated
  <2>2. CASE NewSecond /\ rate.chg # 0
    <3>1. writer'.pc = "chg" /\ rate'.last = rate.last
      BY <1>2, <2>2, WriterGoes, RateIs DEF FillBucket, Rate
    <3> QED BY <1>2, <2>2, <3>1 DEF FillBucket, NewSecond, Rated
  <2>3. CASE NewSecond /\ rate.chg = 0
    <3>1. writer'.pc = "send" /\ rate'.last = now /\ rate'.token = rate'.limit /\ UNCHANGED <<clock, now, sent>>
      BY <1>2, <2>3, WriterGoes, RateIs DEF FillBucket, Filled, Rate
    <3>2. sent.at < now
      BY <1>0, <2>3, RateIs DEF Rated, NewSecond
    <3>3. rate'.limit \in Nat
      BY <1>2, <2>3, RateIs DEF FillBucket, Filled, Rate
    <3> QED BY <3>1, <3>2, <3>3, <1>0 DEF Rated
  <2> QED BY <2>1, <2>2, <2>3
<1>3. CASE ForgetChange
  <2>1. /\ writer'.pc = "send" /\ rate'.last = now /\ UNCHANGED <<clock, now, sent>>
        /\ rate'.token = rate'.limit /\ rate'.limit \in Nat
    BY <1>3, WriterGoes, RateIs DEF ForgetChange, Filled, Rate
  <2>2. sent.at < now
    BY <1>0, <1>3, RateIs DEF Rated, ForgetChange
  <2> QED BY <2>1, <2>2, <1>0 DEF Rated
<1>4. CASE Send
  <2>1. writer.pc = "send" /\ writer'.pc = "idle" /\ writer.len \in Nat /\ UNCHANGED <<clock, now>> /\ rate.last = now
    BY <1>4, WriterIs DEF Send, Rated
  <2>2. CASE writer.len > rate.token
    <3>1. overflow' = TRUE /\ rate' = rate
      BY <1>4, <2>2 DEF Send
    <3>2. CASE overflow
      BY <1>0, <1>4, <2>1, <2>2, <3>1, <3>2 DEF Send, Rated
    <3>3. CASE ~overflow
      <4>1. Leaves(0, 1)
        BY <1>4, <2>2, <3>3 DEF Send
      <4>2. /\ sent'.at = now
            /\ sent'.bytes = IF sent.at = now THEN sent.bytes ELSE 0
            /\ sent'.notices = 1 + IF sent.at = now THEN sent.notices ELSE 0
        BY <1>0, <4>1 DEF Leaves
      <4> QED BY <1>0, <2>1, <3>1, <3>3, <4>2, RateIs DEF Rated
    <3> QED BY <3>2, <3>3
  <2>3. CASE writer.len <= rate.token
    <3>1. CASE UNCHANGED <<rate, sent>>
      BY <1>4, <2>1, <2>3, <3>1, RateIs DEF Send, Rated
    <3>2. CASE rate' = [rate EXCEPT !.token = @ - writer.len] /\ Leaves(writer.len, 0) /\ UNCHANGED overflow
      <4>1. rate'.last = rate.last /\ rate'.limit = rate.limit /\ rate'.token = rate.token - writer.len
        BY <3>2, RateIs DEF Rate
      <4>2. /\ sent'.at = now
            /\ sent'.bytes = writer.len + IF sent.at = now THEN sent.bytes ELSE 0
            /\ sent'.notices = IF sent.at = now THEN sent.notices ELSE 0
        BY <1>0, <3>2, <2>1 DEF Leaves
      <4> QED BY <1>0, <2>1, <2>3, <3>2, <4>1, <4>2, RateIs DEF Rated
    <3>3. writer.len <= rate.token => ~(writer.len > rate.token)
      BY <2>1, RateIs
    <3> QED BY <1>4, <2>3, <3>1, <3>2, <3>3 DEF Send
  <2> QED BY <2>1, <2>2, <2>3, RateIs
<1>5. CASE TestChanged \/ TakePort \/ TakeIp \/ ClearChanged \/ OpenSocket
  <2>1. writer.pc \notin {"chg", "send"} /\ writer'.pc \notin {"chg", "send"}
    BY <1>5, WriterGoes DEF TestChanged, TakePort, TakeIp, ClearChanged, OpenSocket
  <2>2. UNCHANGED <<rate, clock, now, sent, overflow>>
    BY <1>5 DEF TestChanged, TakePort, TakeIp, ClearChanged, OpenSocket
  <2> QED BY <2>1, <2>2 DEF Rated
<1> QED BY <1>1, <1>2, <1>3, <1>4, <1>5 DEF Writer, UTrace

---------------------------------------------------------------------------
(* The traces. *)

\* Where neither the traces nor the place in the list change.
LEMMA TraceElsewhere ==
  ASSUME Traced, UNCHANGED <<clock, traces, granted>>,
         server.pc # "end", server'.pc # "end",
         server'.pc \in {"woken", "ip", "port", "flag"} => server'.t <= clock
  PROVE  Traced'
  BY DEF Traced, Writing

LEMMA TraceStep ==
  ASSUME TypeOK, Traced, Next
  PROVE  Traced'
<1> USE DEF time, local, addr
<1>0. clock \in Nat
  BY DEF TypeOK
<1>1. CASE Tick
  <2>1. UNCHANGED <<server, traces, granted>> /\ clock' = clock + 1
    BY <1>1 DEF Tick
  <2>2. \A g \in granted : clock' <= g.end => clock <= g.end
    BY <1>0, <2>1 DEF TypeOK
  <2>3. server.pc \in {"woken", "ip", "port", "flag", "end"} => server.t <= clock'
    BY <1>0, <2>1, ServerIs DEF Traced
  <2> QED BY <2>1, <2>2, <2>3 DEF Traced, Writing
<1>2. CASE Writer
  <2>1. UNCHANGED <<clock, server, traces, granted>>
    BY <1>2 DEF Writer, Record, UTrace, TestChanged, TakePort, TakeIp, ClearChanged, OpenSocket, FillBucket,
                ForgetChange, Send
  <2> QED BY <2>1 DEF Traced, Writing
<1>3. CASE EndWritten
  <2> DEFINE s0 == server.slot
  <2>1. s0 \in 1..Slots /\ server.pc = "end" /\ server'.pc = "woken" /\ server'.t = server.t
    BY <1>3, ServerIs DEF EndWritten, Handled
  <2>2. /\ traces' = [traces EXCEPT ![s0].end = server.end] /\ UNCHANGED clock
        /\ granted' = granted \cup {traces'[s0]}
    BY <1>3 DEF EndWritten
  <2>3. \A s \in 1..Slots : s # s0 => traces'[s] = traces[s]
    BY <2>2 DEF TypeOK
  <2>4. \A s \in 1..Slots : Writing(s) <=> s = s0
    BY <2>1 DEF Writing
  <2>5. \A s \in 1..Slots : ~Writing(s)'
    BY <2>1 DEF Writing
  <2>6. \A g \in granted' : clock' <= g.end => \E s \in 1..Slots : traces'[s] = g
    <3> SUFFICES ASSUME NEW g \in granted', clock <= g.end PROVE \E s \in 1..Slots : traces'[s] = g
      BY <2>2
    <3>1. CASE g \in granted
      <4>1. PICK s \in 1..Slots : traces[s] = g /\ s # s0
        BY <2>4, <3>1 DEF Traced
      <4> QED BY <2>3, <4>1
    <3>2. CASE g = traces'[s0]
      BY <2>1, <3>2
    <3> QED BY <2>2, <3>1, <3>2
  <2>7. \A s \in 1..Slots : traces'[s].uid = 0 \/ traces'[s] \in granted'
    BY <2>2, <2>3, <2>4 DEF Traced
  <2>8. server.t <= clock
    BY <1>3 DEF EndWritten, Traced
  <2> HIDE DEF s0
  <2> QED BY <2>1, <2>2, <2>5, <2>6, <2>7, <2>8 DEF Traced
<1>4. ASSUME NEW u \in Uids, NEW l \in Lives, SetTraceUid(u, l) PROVE Traced'
  <2>1. server.pc = "woken" /\ UNCHANGED <<clock, granted>>
    BY <1>4 DEF SetTraceUid, Packet
  <2>2. CASE UNCHANGED <<traces, server>>
    BY <2>1, <2>2, TraceElsewhere DEF Traced
  <2>3. CASE traces' # traces \/ server' # server
    <3>1. PICK s0 \in 1..Slots :
            /\ Over(s0, server.t)
            /\ traces' = [traces EXCEPT ![s0].uid = u]
            /\ server' = [pc |-> "end", t |-> server.t, slot |-> s0, end |-> server.t + l]
      BY <1>4, <2>3, Slot
    <3>2. \A s \in 1..Slots : s # s0 => traces'[s] = traces[s]
      BY <3>1 DEF TypeOK
    <3>3. traces'[s0].uid = u /\ u # 0
      BY <3>1, UdpAssumption DEF TypeOK, UdpAssumption
    <3>4. \A s \in 1..Slots : (Writing(s)' <=> s = s0) /\ ~Writing(s)
      BY <2>1, <3>1 DEF Writing
    <3>5. \A g \in granted : clock <= g.end => \E s \in 1..Slots : traces'[s] = g /\ s # s0
      <4> SUFFICES ASSUME NEW g \in granted, clock <= g.end PROVE \E s \in 1..Slots : traces'[s] = g /\ s # s0
        OBVIOUS
      <4>1. PICK s \in 1..Slots : traces[s] = g
        BY DEF Traced
      <4>2. g.uid # 0 /\ g.end \in Nat
        BY UdpAssumption DEF TypeOK, UdpAssumption
      <4>3. server.t <= clock /\ server.t \in Nat
        BY <2>1, ServerIs DEF Traced
      <4>4. traces[s0].end \in Nat
        BY DEF TypeOK
      <4>5. traces[s0] # g
        BY <1>0, <3>1, <4>2, <4>3, <4>4 DEF Over
      <4> QED BY <3>2, <4>1, <4>5
    <3>6. server'.pc = "end" /\ server'.slot = s0 /\ server'.t <= clock'
      BY <2>1, <3>1 DEF Traced
    <3>7. \A g \in granted' : clock' <= g.end => \E s \in 1..Slots : traces'[s] = g /\ ~Writing(s)'
      BY <2>1, <3>4, <3>5
    <3>8. \A s \in 1..Slots : traces'[s].uid = 0 \/ traces'[s] \in granted' \/ Writing(s)'
      BY <2>1, <3>2, <3>4 DEF Traced
    <3> QED BY <3>3, <3>6, <3>7, <3>8 DEF Traced
  <2> QED BY <2>2, <2>3
<1>5. CASE ServerStarts \/ ServerWaits
  BY <1>5, TraceElsewhere DEF ServerStarts, ServerWaits
<1>6. CASE ServerWakes
  BY <1>0, <1>6, TraceElsewhere DEF ServerWakes
<1>7. CASE IpWritten \/ PortWritten \/ AddrFlagged
  <2>1. Changing /\ server'.pc \in {"port", "flag", "woken"} /\ server'.t = server.t
    BY <1>7, ServerIs DEF IpWritten, PortWritten, AddrFlagged, Handled, Changing
  <2> QED BY <1>7, <2>1, TraceElsewhere DEF IpWritten, PortWritten, AddrFlagged, Changing, Traced
<1>8. ASSUME NEW l \in Limits, SetRateLimit(l) PROVE Traced'
  BY <1>8, TraceElsewhere DEF SetRateLimit, Packet, Traced
<1>9. ASSUME NEW i \in Ips, NEW p \in Ports, SetTraceAddr(i, p) PROVE Traced'
  <2>1. /\ server.pc = "woken"
        /\ \/ UNCHANGED server
           \/ server'.pc = "ip" /\ server'.t = server.t
    BY <1>9 DEF SetTraceAddr, Packet
  <2> QED BY <1>9, <2>1, TraceElsewhere DEF SetTraceAddr, Traced
<1> QED BY <1>1, <1>2, <1>3, <1>4, <1>5, <1>6, <1>7, <1>8, <1>9 DEF Next, Server

---------------------------------------------------------------------------
(* The theorems. *)

LEMMA Begin == Init => IInv
<1> SUFFICES ASSUME Init PROVE IInv
  OBVIOUS
<1> USE UdpAssumption DEF UdpAssumption, Init
<1>1. TypeOK
  BY DEF TypeOK, Address, Servers, Writers
<1>2. Written /\ Taken /\ Limited
  BY DEF Written, Taken, Limited, Changing, Taking
<1>3. Rated /\ Traced
  BY DEF Rated, Traced, Writing
<1> QED BY <1>1, <1>2, <1>3 DEF IInv

LEMMA Keep == IInv /\ [Next]_vars => IInv'
<1> SUFFICES ASSUME IInv, [Next]_vars PROVE IInv'
  OBVIOUS
<1> USE DEF IInv
<1>1. CASE Tick
  <2>1. TypeOK' /\ Traced'
    BY <1>1, TickTypes, TraceStep DEF Next
  <2>2. Written' /\ Taken' /\ Limited'
    BY <1>1 DEF Tick, addr, Written, Taken, Limited, Changing, Taking
  <2>3. Rated'
    BY <1>1, RateIs DEF Tick, local, Rated, TypeOK
  <2> QED BY <2>1, <2>2, <2>3
<1>2. CASE Server
  BY <1>2, ServerTypes, AddressServer, LimitServer, RateServer, TraceStep DEF Next
<1>3. CASE Writer
  BY <1>3, WriterTypes, AddressWriter, LimitWriter, RateWriter, TraceStep DEF Next
<1>4. CASE UNCHANGED vars
  BY <1>4 DEF vars, addr, time, local, TypeOK, Written, Taken, Limited, Rated, Traced, Changing, Taking, Writing
<1> QED BY <1>1, <1>2, <1>3, <1>4 DEF Next

\* The inductive invariant of the two threads (netutils.c).
THEOREM Invariant == Spec => []IInv
  BY Begin, Keep, PTL DEF Spec

\* do_set_trace_addr and update_udp_sink_sockaddr (netutils.c:49, 321), and
\* do_set_rate_limit with the change of the limit (102, 384): whatever half
\* of an address was read on the way, the sink ends at the address and the limit
\* asked for last, but for the requests that fell into a race of `lost`.
THEOREM SettingsTakenAlways == Spec => []SettingsTaken
<1>1. IInv => SettingsTaken
  BY DEF IInv, SettingsTaken, Quiet, Written, Taken, Limited, Changing, Taking
<1> QED BY <1>1, Invariant, PTL

\* sendlog_to_udp_sink (netutils.c:382): in no second of the logger's clock do
\* more bytes leave than the limit in force, or more than one notice.
THEOREM RateBoundedAlways == Spec => []RateBounded
<1>1. IInv => RateBounded
  <2> SUFFICES ASSUME IInv PROVE RateBounded
    OBVIOUS
  <2>1. rate.token \in Nat /\ rate.limit \in Nat /\ sent.bytes \in Nat /\ sent.notices \in Nat /\ sent.at \in Nat /\ now \in Nat
    BY RateIs DEF IInv, TypeOK
  <2>2. sent.at = now => sent.at = rate.last /\ writer.pc # "chg"
    BY <2>1, RateIs DEF IInv, Rated
  <2> QED BY <2>1, <2>2 DEF IInv, Rated, RateBounded
<1> QED BY <1>1, Invariant, PTL

\* add_to_trace_uid_list and is_traced_uid (netutils.c:25, tlog.c:510): a trace
\* that was granted is not overwritten before its end, and nobody is traced
\* without a grant.
THEOREM TracesKeptAlways == Spec => []TracesKept
<1>1. IInv => TracesKept
  <2> SUFFICES ASSUME IInv PROVE TracesKept
    OBVIOUS
  <2>1. \A u \in Uids : IsTraced(u) =>
          \/ \E g \in granted : g.uid = u /\ now <= g.end
          \/ server.pc = "end" /\ traces[server.slot].uid = u
    <3> SUFFICES ASSUME NEW u \in Uids, NEW s \in 1..Slots, traces[s].uid = u, now <= traces[s].end
                 PROVE  \/ \E g \in granted : g.uid = u /\ now <= g.end
                        \/ server.pc = "end" /\ traces[server.slot].uid = u
      BY DEF IsTraced
    <3>1. traces[s] \in granted \/ Writing(s)
      BY UdpAssumption DEF UdpAssumption, IInv, Traced
    <3> QED BY <3>1 DEF Writing
  <2> QED BY <2>1 DEF IInv, Traced, TracesKept
<1> QED BY <1>1, Invariant, PTL

\* Both together with the types, as the run checks them.
THEOREM SinkBoundedAlways == Spec => []SinkBounded
<1>1. IInv => TypeOK
  BY DEF IInv
<1>2. TypeOK /\ RateBounded /\ TracesKept => SinkBounded
  BY DEF SinkBounded
<1> QED BY <1>1, <1>2, Invariant, RateBoundedAlways, TracesKeptAlways, PTL

---------------------------------------------------------------------------
(* The stream of safe_tcp_send_n and safe_tcp_recv_n (tcp.c). *)

Buf  == IF rcv.pc = "recv" THEN rcv.buf ELSE <<>>
Told == got \o dropped
All  == Told \o Buf \o wire

\* The bytes from the first to the last, each once.
InOrder(s) == s = [i \in 1..Len(s) |-> i]

SndTypes ==
  /\ next \in Nat /\ snd.pc \in {"idle", "send", "failed"}
  /\ snd.pc # "idle" => snd.done \in Nat
  /\ snd.pc = "send" => /\ snd = [pc |-> "send", total |-> snd.total, done |-> snd.done]
                        /\ snd.total \in Nat /\ snd.done <= snd.total

RcvTypes ==
  /\ rcv.pc = "recv" => /\ rcv = [pc |-> "recv", total |-> rcv.total, buf |-> rcv.buf, once |-> rcv.once]
                        /\ rcv.total \in Nat
  /\ Buf \in Seq(Nat) /\ got \in Seq(Nat) /\ dropped \in Seq(Nat)

\* Before the connection breaks, the wire has what was sent and not received.
StreamInv ==
  /\ wire \in Seq(Nat) /\ up \in {"open", "shut", "broken"}
  /\ SndTypes /\ RcvTypes
  /\ InOrder(All)
  /\ up # "broken" => Len(All) = Net!SentSoFar
  /\ dropped # <<>> => rcv.pc = "ended"

LEMMA StreamBegins == Net!StreamInit => StreamInv
<1> SUFFICES ASSUME Net!StreamInit PROVE StreamInv
  OBVIOUS
<1>1. wire = <<>> /\ got = <<>> /\ dropped = <<>> /\ Buf = <<>> /\ next = 0 /\ snd.pc = "idle" /\ rcv.pc = "idle" /\ up = "open"
  BY DEF Net!StreamInit, Net!Idle, Buf
<1>2. <<>> \in Seq(Nat) /\ All = <<>> /\ Len(<<>>) = 0
  BY <1>1 DEF All, Told
<1>3. InOrder(All)
  BY <1>2 DEF InOrder
<1> QED
  BY <1>1, <1>2, <1>3 DEF StreamInv, SndTypes, RcvTypes, Net!SentSoFar

LEMMA AllTypes == ASSUME StreamInv PROVE Told \in Seq(Nat) /\ Told \o Buf \in Seq(Nat) /\ All \in Seq(Nat)
<1>1. Told \in Seq(Nat)
  BY ConcatProperties DEF StreamInv, RcvTypes, Told
<1>2. Told \o Buf \in Seq(Nat)
  BY <1>1, ConcatProperties DEF StreamInv, RcvTypes
<1> QED
  BY <1>1, <1>2, ConcatProperties DEF StreamInv, All

LEMMA Intact == StreamInv => Net!StreamIntact
<1>1. All = got \o dropped \o Buf \o wire
  BY DEF All, Told
<1> QED
  BY <1>1 DEF StreamInv, InOrder, Net!StreamIntact, Buf

LEMMA Assoc ==
  ASSUME NEW s \in Seq(Nat), NEW t \in Seq(Nat), NEW u \in Seq(Nat)
  PROVE  (s \o t) \o u = s \o (t \o u)
  BY ConcatAssociative, SMTT(30)

LEMMA Halved ==
  ASSUME NEW s \in Seq(Nat), NEW k \in Nat, k <= Len(s)
  PROVE  /\ SubSeq(s, 1, k) \in Seq(Nat) /\ SubSeq(s, k + 1, Len(s)) \in Seq(Nat)
         /\ s = SubSeq(s, 1, k) \o SubSeq(s, k + 1, Len(s))
<1>1. Len(s) \in Nat /\ 1 \in 1..Len(s) + 1 /\ k \in 1-1..Len(s) /\ Len(s) \in k..Len(s)
  OBVIOUS
<1>2. SubSeq(s, 1, k) \o SubSeq(s, k + 1, Len(s)) = SubSeq(s, 1, Len(s))
  BY <1>1, ConcatAdjacentSubSeq
<1>3. \A i \in 1..Len(s) : s[i] \in Nat
  OBVIOUS
<1>4. (\A i \in 1..k : s[i] \in Nat) /\ (\A i \in k + 1..Len(s) : s[i] \in Nat)
  BY <1>1, <1>3
<1>5. SubSeq(s, 1, k) \in Seq(Nat) /\ SubSeq(s, k + 1, Len(s)) \in Seq(Nat)
  BY <1>1, <1>4, SubSeqProperties
<1> QED
  BY <1>2, <1>5, SubSeqFull

\* A step of the receiver or of the connection that keeps the bytes and their order.
LEMMA BytesKept ==
  ASSUME StreamInv, All' = All, wire' \in Seq(Nat), RcvTypes', UNCHANGED <<snd, next>>,
         up' = up \/ (up' = "shut" /\ up # "broken"),
         dropped' # <<>> => rcv'.pc = "ended"
  PROVE  StreamInv'
<1>1. SndTypes' /\ Net!SentSoFar' = Net!SentSoFar
  BY DEF StreamInv, SndTypes, Net!SentSoFar
<1>2. InOrder(All)'
  BY DEF StreamInv, InOrder
<1> QED
  BY <1>1, <1>2 DEF StreamInv

LEMMA SendNStep == ASSUME StreamInv, StreamAssumption, NEW t \in Totals, Net!SendN(t) PROVE StreamInv'
<1>1. /\ snd.pc = "idle" /\ UNCHANGED <<wire, up, rcv, next, got, dropped>>
      /\ snd' = [pc |-> "send", total |-> t, done |-> 0] /\ t \in Nat
  BY DEF Net!SendN, Net!Idle, StreamAssumption
<1>2. SndTypes'
  BY <1>1 DEF StreamInv, SndTypes
<1>3. RcvTypes' /\ All' = All /\ Net!SentSoFar' = Net!SentSoFar
  BY <1>1 DEF StreamInv, SndTypes, RcvTypes, Buf, All, Told, Net!SentSoFar
<1>4. InOrder(All)'
  BY <1>3 DEF StreamInv, InOrder
<1> QED
  BY <1>1, <1>2, <1>3, <1>4 DEF StreamInv

LEMMA SendReturnsStep == ASSUME StreamInv, Net!SendReturns \/ Net!SendFails PROVE StreamInv'
<1>1. snd.pc = "send" /\ UNCHANGED <<wire, up, rcv, got, dropped>>
  BY DEF Net!SendReturns, Net!SendFails
<1>2. SndTypes' /\ Net!SentSoFar' = Net!SentSoFar
  BY <1>1 DEF StreamInv, SndTypes, Net!SendReturns, Net!SendFails, Net!SentSoFar, Net!Idle
<1>3. RcvTypes' /\ All' = All
  BY <1>1 DEF StreamInv, RcvTypes, Buf, All, Told
<1>4. InOrder(All)'
  BY <1>3 DEF StreamInv, InOrder
<1> QED
  BY <1>1, <1>2, <1>3, <1>4 DEF StreamInv

LEMMA DoneMore ==
  ASSUME NEW x, x = [pc |-> "send", total |-> x.total, done |-> x.done], NEW d
  PROVE  [x EXCEPT !.done = d] = [pc |-> "send", total |-> x.total, done |-> d]
  OBVIOUS

\* The bytes a call of send moves are the next ones.
LEMMA SendStep == ASSUME StreamInv, StreamAssumption, Net!Send PROVE StreamInv'
<1>1. /\ snd.pc = "send" /\ snd.done < snd.total /\ up = "open"
      /\ UNCHANGED <<up, rcv, next, got, dropped>>
  BY DEF Net!Send
<1>2. PICK k \in 1..Net!Min2(snd.total - snd.done, Room - Len(wire)) :
        /\ wire' = wire \o Net!From(snd, k)
        /\ snd' = [snd EXCEPT !.done = @ + k]
  BY DEF Net!Send
<1>3. /\ snd.done \in Nat /\ snd.total \in Nat /\ next \in Nat /\ Len(wire) \in Nat
      /\ snd = [pc |-> "send", total |-> snd.total, done |-> snd.done]
  BY <1>1 DEF StreamInv, SndTypes
<1>4. k \in Nat \ {0} /\ k <= snd.total - snd.done
  <2> DEFINE m == Net!Min2(snd.total - snd.done, Room - Len(wire))
  <2>1. m \in Int /\ m <= snd.total - snd.done
    BY <1>3 DEF Net!Min2, StreamAssumption
  <2>2. k \in 1..m
    BY <1>2
  <2> HIDE DEF m
  <2> QED
    BY <1>3, <2>1, <2>2
<1>5. SndTypes' /\ Net!SentSoFar' = Net!SentSoFar + k /\ Net!SentSoFar = next + snd.done
  <2>1. snd' = [pc |-> "send", total |-> snd.total, done |-> snd.done + k]
    BY <1>2, <1>3, DoneMore, Zenon
  <2>2. snd'.pc = "send" /\ snd'.total = snd.total /\ snd'.done = snd.done + k
    BY <2>1
  <2>3. SndTypes'
    BY <1>1, <1>3, <1>4, <2>1, <2>2 DEF SndTypes
  <2> QED
    BY <1>1, <1>3, <1>4, <2>2, <2>3 DEF Net!SentSoFar
<1> DEFINE from == Net!From(snd, k)
<1>6. from = [i \in 1..k |-> next + snd.done + i]
  BY DEF Net!From
<1>7. from \in Seq(Nat) /\ Len(from) = k /\ \A i \in 1..k : from[i] = next + snd.done + i
  <2>1. \A i \in 1..k : next + snd.done + i \in Nat
    BY <1>3, <1>4
  <2> HIDE DEF from
  <2>2. from \in [1..k -> Nat] /\ \A i \in 1..k : from[i] = next + snd.done + i
    BY <1>6, <2>1
  <2>3. from \in Seq(Nat)
    BY <1>4, <2>2, SeqDef, Zenon
  <2> QED
    BY <1>4, <2>2, <2>3
<1> HIDE DEF from
<1>8. wire' \in Seq(Nat) /\ All' = All \o from
  <2>1. wire' = wire \o from
    BY <1>2 DEF from
  <2>2. All' = (Told \o Buf) \o (wire \o from)
    BY <1>1, <2>1 DEF All, Told, Buf
  <2>3. All' = ((Told \o Buf) \o wire) \o from
    <3>1. Told \o Buf \in Seq(Nat) /\ wire \in Seq(Nat) /\ from \in Seq(Nat)
      BY <1>7, AllTypes DEF StreamInv
    <3>2. ((Told \o Buf) \o wire) \o from = (Told \o Buf) \o (wire \o from)
      BY <3>1, Assoc
    <3> QED
      BY <2>2, <3>2
  <2> QED
    BY <1>7, <2>1, <2>3, ConcatProperties DEF StreamInv, All
<1>9. All \in Seq(Nat) /\ Len(All) = next + snd.done /\ \A i \in 1..Len(All) : All[i] = i
  BY <1>1, <1>5, AllTypes DEF StreamInv, InOrder
<1>10. All' \in Seq(Nat) /\ Len(All') = next + snd.done + k
  <2>1. All \o from \in Seq(Nat) /\ Len(All \o from) = Len(All) + Len(from)
    BY <1>7, <1>9, ConcatProperties
  <2> QED
    BY <1>7, <1>8, <1>9, <2>1
<1>11. \A i \in 1..Len(All') : All'[i] = i
  <2> SUFFICES ASSUME NEW i \in 1..next + snd.done + k PROVE All'[i] = i
    BY <1>10
  <2> DEFINE b == next + snd.done
  <2>1. b \in Nat /\ i \in Nat
    BY <1>3, <1>4
  <2>2. All'[i] = IF i <= b THEN All[i] ELSE from[i - b]
    <3>1. \A j \in 1..Len(All) + Len(from) : (All \o from)[j] = IF j <= Len(All) THEN All[j] ELSE from[j - Len(All)]
      BY <1>7, <1>9, ConcatProperties
    <3> QED
      BY <1>7, <1>8, <1>9, <3>1
  <2>3. CASE i <= b
    BY <1>9, <2>1, <2>2, <2>3
  <2>4. CASE i > b
    <3>1. i - b \in 1..k
      BY <1>4, <2>1, <2>4
    <3>2. All'[i] = b + (i - b)
      BY <1>7, <2>1, <2>2, <2>4, <3>1
    <3> QED
      BY <2>1, <3>2
  <2> QED
    BY <2>1, <2>3, <2>4
<1>12. InOrder(All')
  BY <1>10, <1>11 DEF InOrder
<1>13. RcvTypes'
  BY <1>1 DEF StreamInv, RcvTypes, Buf
<1> QED
  BY <1>1, <1>3, <1>4, <1>5, <1>8, <1>10, <1>12, <1>13 DEF StreamInv, InOrder

LEMMA RecvNStep == ASSUME StreamInv, StreamAssumption, NEW t \in Totals, NEW once \in BOOLEAN, Net!RecvN(t, once)
                   PROVE  StreamInv'
<1>1. /\ rcv.pc = "idle" /\ UNCHANGED <<wire, up, snd, next, got, dropped>>
      /\ rcv' = [pc |-> "recv", total |-> t, buf |-> <<>>, once |-> once] /\ t \in Nat
  BY DEF Net!RecvN, Net!Idle, StreamAssumption
<1>2. rcv'.pc = "recv" /\ rcv'.total = t /\ rcv'.buf = <<>> /\ rcv'.once = once
  BY <1>1
<1>3. Buf' = <<>> /\ Buf = <<>> /\ <<>> \in Seq(Nat) /\ dropped = <<>>
  BY <1>1, <1>2 DEF Buf, StreamInv
<1>4. RcvTypes'
  BY <1>1, <1>2, <1>3 DEF StreamInv, RcvTypes
<1>5. All' = All
  BY <1>1, <1>3 DEF All, Told
<1> QED
  BY <1>1, <1>3, <1>4, <1>5, BytesKept DEF StreamInv

LEMMA BufMore ==
  ASSUME NEW x, x = [pc |-> "recv", total |-> x.total, buf |-> x.buf, once |-> x.once], NEW b
  PROVE  [x EXCEPT !.buf = b] = [pc |-> "recv", total |-> x.total, buf |-> b, once |-> x.once]
  OBVIOUS

\* What one call of recv takes from the wire goes behind what is in the buffer.
LEMMA RecvStep == ASSUME StreamInv, Net!Recv PROVE StreamInv'
<1>1. rcv.pc = "recv" /\ UNCHANGED <<up, snd, next, got, dropped>>
  BY DEF Net!Recv
<1>2. PICK k \in 1..Net!Min2(rcv.total - Len(rcv.buf), Len(wire)) :
        /\ rcv' = [rcv EXCEPT !.buf = @ \o SubSeq(wire, 1, k)]
        /\ wire' = SubSeq(wire, k + 1, Len(wire))
  BY DEF Net!Recv
<1>3. /\ rcv = [pc |-> "recv", total |-> rcv.total, buf |-> rcv.buf, once |-> rcv.once]
      /\ rcv.total \in Nat /\ rcv.buf \in Seq(Nat) /\ Buf = rcv.buf
      /\ wire \in Seq(Nat) /\ Len(wire) \in Nat /\ Len(rcv.buf) \in Nat
  BY <1>1 DEF StreamInv, RcvTypes, Buf
<1>4. k \in Nat \ {0} /\ k <= Len(wire)
  <2> DEFINE m == Net!Min2(rcv.total - Len(rcv.buf), Len(wire))
  <2>1. m \in Int /\ m <= Len(wire)
    BY <1>3 DEF Net!Min2
  <2>2. k \in 1..m
    BY <1>2
  <2> HIDE DEF m
  <2> QED
    BY <1>3, <2>1, <2>2
<1> DEFINE one == SubSeq(wire, 1, k)
           two == SubSeq(wire, k + 1, Len(wire))
<1>5. one \in Seq(Nat) /\ two \in Seq(Nat) /\ wire = one \o two
  BY <1>3, <1>4, Halved
<1>6. /\ rcv' = [pc |-> "recv", total |-> rcv.total, buf |-> rcv.buf \o one, once |-> rcv.once]
      /\ wire' = two
  BY <1>2, <1>3, BufMore, Zenon
<1> HIDE DEF one, two
<1>7. rcv'.pc = "recv" /\ rcv'.total = rcv.total /\ rcv'.buf = rcv.buf \o one /\ rcv'.once = rcv.once
  BY <1>6
<1>8. Buf' = Buf \o one /\ Buf' \in Seq(Nat)
  <2>1. rcv.buf \o one \in Seq(Nat)
    BY <1>3, <1>5, ConcatProperties
  <2> QED
    BY <1>3, <1>7, <2>1 DEF Buf
<1>9. RcvTypes'
  BY <1>1, <1>3, <1>6, <1>7, <1>8 DEF StreamInv, RcvTypes
<1>10. All' = All
  <2>1. Told \in Seq(Nat) /\ Buf \in Seq(Nat) /\ Told \o Buf \in Seq(Nat)
    BY <1>3, AllTypes
  <2>2. Told' = Told
    BY <1>1 DEF Told
  <2>3. All' = (Told \o (Buf \o one)) \o two
    BY <1>6, <1>8, <2>2 DEF All
  <2>4. one \in Seq(Nat) /\ two \in Seq(Nat)
    BY <1>5
  <2>5. (Told \o Buf) \o one = Told \o (Buf \o one)
    <3>1. Told \in Seq(Nat) /\ Buf \in Seq(Nat) /\ one \in Seq(Nat)
      BY <2>1, <2>4
    <3> QED BY <3>1, Assoc
  <2>6. ((Told \o Buf) \o one) \o two = (Told \o Buf) \o (one \o two)
    BY <2>1, <2>4, Assoc
  <2> QED
    BY <1>5, <2>3, <2>5, <2>6 DEF All
<1> QED
  BY <1>1, <1>5, <1>6, <1>7, <1>9, <1>10, BytesKept DEF StreamInv

\* A time out, or the count asked for: what is in the buffer is counted.
LEMMA RecvReturnsStep == ASSUME StreamInv, Net!RecvReturns PROVE StreamInv'
<1>1. /\ rcv.pc = "recv" /\ UNCHANGED <<wire, up, snd, next, dropped>>
      /\ rcv' = [pc |-> "idle"] /\ got' = got \o rcv.buf
  BY DEF Net!RecvReturns, Net!Idle, Net!Counted
<1>2. rcv'.pc = "idle" /\ Buf = rcv.buf /\ Buf' = <<>> /\ dropped = <<>>
  BY <1>1 DEF Buf, StreamInv
<1>3. got \in Seq(Nat) /\ Buf \in Seq(Nat) /\ <<>> \in Seq(Nat) /\ wire \in Seq(Nat)
  BY DEF StreamInv, RcvTypes
<1>4. got \o Buf \in Seq(Nat)
  BY <1>3, ConcatProperties
<1>5. RcvTypes'
  BY <1>1, <1>2, <1>3, <1>4 DEF RcvTypes
<1>6. All' = All
  <2>1. Told = got /\ Told' = got \o Buf /\ (got \o Buf) \o Buf' = got \o Buf
    BY <1>1, <1>2, <1>3, <1>4, ConcatEmptySeq DEF Told
  <2> QED
    BY <1>1, <2>1 DEF All
<1> QED
  BY <1>1, <1>2, <1>3, <1>5, <1>6, BytesKept DEF StreamInv

\* The end of the stream: no count tells of what is in the buffer.
LEMMA RecvEndsStep == ASSUME StreamInv, Net!RecvEnds PROVE StreamInv'
<1>1. /\ rcv.pc = "recv" /\ UNCHANGED <<wire, up, snd, next, got>>
      /\ rcv' = [pc |-> "ended"] /\ dropped' = dropped \o rcv.buf
  BY DEF Net!RecvEnds
<1>2. rcv'.pc = "ended" /\ Buf = rcv.buf /\ Buf' = <<>> /\ dropped = <<>>
  BY <1>1 DEF Buf, StreamInv
<1>3. got \in Seq(Nat) /\ Buf \in Seq(Nat) /\ <<>> \in Seq(Nat) /\ wire \in Seq(Nat)
  BY DEF StreamInv, RcvTypes
<1>4. got \o Buf \in Seq(Nat) /\ dropped' = Buf
  BY <1>1, <1>2, <1>3, ConcatProperties, ConcatEmptySeq
<1>5. RcvTypes'
  BY <1>1, <1>2, <1>3, <1>4 DEF RcvTypes
<1>6. All' = All
  <2>1. Told = got /\ Told' = got \o Buf /\ (got \o Buf) \o Buf' = got \o Buf
    BY <1>1, <1>2, <1>3, <1>4, ConcatEmptySeq DEF Told
  <2> QED
    BY <1>1, <2>1 DEF All
<1> QED
  BY <1>1, <1>2, <1>3, <1>5, <1>6, BytesKept DEF StreamInv

LEMMA ShutStep == ASSUME StreamInv, Net!Shut PROVE StreamInv'
<1>1. up = "open" /\ up' = "shut" /\ UNCHANGED <<wire, snd, rcv, next, got, dropped>>
  BY DEF Net!Shut
<1>2. RcvTypes' /\ All' = All
  BY <1>1 DEF StreamInv, RcvTypes, Buf, All, Told
<1> QED
  BY <1>1, <1>2, BytesKept DEF StreamInv

\* The bytes on the wire are lost: those that are left are the first ones.
LEMMA BreaksStep == ASSUME StreamInv, Net!Breaks PROVE StreamInv'
<1>1. up' = "broken" /\ wire' = <<>> /\ UNCHANGED <<snd, rcv, next, got, dropped>>
  BY DEF Net!Breaks
<1>2. RcvTypes' /\ SndTypes'
  BY <1>1 DEF StreamInv, RcvTypes, SndTypes, Buf
<1> DEFINE h == Told \o Buf
<1>3. h \in Seq(Nat) /\ wire \in Seq(Nat) /\ All = h \o wire /\ <<>> \in Seq(Nat)
  BY AllTypes DEF StreamInv, All
<1>4. All' = h \o <<>>
  BY <1>1 DEF All, Told, Buf
<1> HIDE DEF h
<1>5. All' = h
  BY <1>3, <1>4, ConcatEmptySeq
<1>6. Len(All) = Len(h) + Len(wire) /\ \A i \in 1..Len(h) + Len(wire) : All[i] = IF i <= Len(h) THEN h[i] ELSE wire[i - Len(h)]
  BY <1>3, ConcatProperties
<1>7. \A i \in 1..Len(h) : h[i] = i
  <2>1. Len(h) \in Nat /\ Len(wire) \in Nat
    BY <1>3
  <2>2. \A i \in 1..Len(All) : All[i] = i
    BY DEF StreamInv, InOrder
  <2> QED
    BY <1>6, <2>1, <2>2
<1>8. InOrder(All)'
  BY <1>3, <1>5, <1>7 DEF InOrder
<1> QED
  BY <1>1, <1>2, <1>3, <1>8 DEF StreamInv

LEMMA StreamInvariant == StreamAssumption /\ StreamInv /\ [Net!StreamNext]_stream => StreamInv'
<1>1. ASSUME StreamInv, UNCHANGED stream PROVE StreamInv'
  <2>1. UNCHANGED <<wire, up, snd, rcv, next, got, dropped>>
    BY <1>1 DEF stream
  <2>2. RcvTypes' /\ All' = All
    BY <1>1, <2>1 DEF StreamInv, RcvTypes, Buf, All, Told
  <2> QED
    BY <1>1, <2>1, <2>2, BytesKept DEF StreamInv
<1>2. ASSUME StreamAssumption, StreamInv, Net!StreamNext PROVE StreamInv'
  <2>1. Net!Interrupted => UNCHANGED stream
    BY DEF Net!Interrupted, Net!stream, stream
  <2> QED
    BY <1>1, <1>2, <2>1, SendNStep, RecvNStep, SendStep, SendReturnsStep, RecvStep, RecvReturnsStep,
       RecvEndsStep, ShutStep, BreaksStep DEF Net!StreamNext
<1> QED
  BY <1>1, <1>2

\* safe_tcp_send_n and safe_tcp_recv_n: whatever the lengths asked for, the room of
\* the system and the pieces its calls move, no byte is lost, doubled or moved.
THEOREM StreamIntactAlways == Net!Spec => []Net!StreamIntact
<1>1. Net!Init => StreamInv
  BY StreamBegins DEF Net!Init
<1>2. StreamInv /\ [Net!Next]_(Net!vars) => StreamInv'
  BY StreamInvariant, StreamAssumption DEF Net!Next, Net!vars, Net!stream, stream
<1> QED
  BY <1>1, <1>2, Intact, PTL DEF Net!Spec

\* The same on the bench, beside the sink and the making of sockets.
THEOREM BenchStreamAlways == MCSpec => []MCStreamIntact
<1>1. MCInit => StreamInv
  BY StreamBegins DEF MCInit, Net!Init
<1>2. StreamInv /\ [MCNext]_<<vars, stream, sockets, part>> => StreamInv'
  BY StreamInvariant, StreamAssumption DEF MCNext
<1> QED
  BY <1>1, <1>2, Intact, PTL DEF MCSpec, MCStreamIntact

---------------------------------------------------------------------------
(* The functions that make sockets. *)

\* Labels: where a function begins, and where it works on the descriptor it made.
Begins == {"inet_pton", "prefix", "getaddrinfo", "accept"}
Doing ==
  {"reuseaddr", "rcvbuf", "sndbuf", "bind", "listen", "fcntl", "sndtimeo", "connect", "sndtimeo0",
   "blockability", "join", "set_if", "nonblock"}

Labels ==
  Begins \cup Doing \cup
  {"socket", "ret", "save", "close", "free", "restore", "return", "return_error",
   "no_socket", "no_list", "no_errno", "perror", "fprintf"}

\* What a function holds beside what was returned before.
Holds(d, a) == open = kept + d /\ addrs = a

Listed == IF fn.name \in {"create_passive_endpoint", "create_mcast_socket"} THEN 1 ELSE 0

One(b) == IF b THEN 1 ELSE 0

\* On the way: nothing failed.
OnTheWay ==
  /\ pc \in Begins => failed = "none" /\ Holds(0, 0)
  /\ pc = "socket" => failed = "none" /\ Holds(0, Listed) /\ (fn.name = "create_mcast_socket" => err = Net!Ok)
  /\ pc \in Doing => failed = "none" /\ Holds(1, Listed) /\ fd = 1 /\ (pc = "listen" => err = Net!Ok)

\* At the label ret err tells whether a call failed, and after it what errno was.
CleaningUp ==
  /\ pc = "ret" =>
       /\ Holds(1, Listed) /\ fd = 1 /\ (failed = "none" <=> err = Net!Ok)
       /\ failed # "none" /\ fn.name # "tlog_create_mcast_socket" => errno = failed
  /\ pc = "save" => failed # "none" /\ Holds(1, Listed) /\ fd = 1 /\ errno = failed
  /\ pc = "close" =>
       /\ failed # "none" /\ Holds(1, Listed) /\ fd = 1
       /\ fn.name = "safe_tcp_connect" => failed = "connect"
       /\ fn.name \notin {"safe_tcp_connect", "tlog_create_mcast_socket"} => err = failed
  /\ pc = "free" =>
       Holds(One(failed = "none"), 1) /\ fd = One(failed = "none") /\ err = IF failed = "none" THEN Net!Ok ELSE failed
  /\ pc = "restore" =>
       /\ Holds(One(failed = "none"), 0) /\ err = IF failed = "none" THEN Net!Ok ELSE failed
       /\ IF fn.name = "safe_tcp_accept" THEN failed # "none" ELSE fd = One(failed = "none")

\* Where no socket was made, and the messages of the sink.
NoSocket ==
  /\ pc = "no_socket" => failed = "socket" /\ Holds(0, 1) /\ errno = "socket"
  /\ pc = "no_list" => failed = "socket" /\ Holds(0, 1) /\ err = "socket"
  /\ pc = "no_errno" => failed = "socket" /\ Holds(0, 0) /\ err = "socket"
  /\ pc = "perror" => failed = "socket" /\ Holds(0, 0)
  /\ pc = "fprintf" => failed \in {"bind", "join"} /\ Holds(1, 0) /\ fd = 1 /\ err # Net!Ok

Guarded == failed # "none" /\ <<fn.name, failed>> \notin Net!Unguarded

Returning ==
  /\ pc = "return" => Holds(One(failed = "none"), 0) /\ fd = One(failed = "none") /\ (Guarded => errno = failed)
  /\ pc = "return_error" => failed # "none" /\ Holds(0, 0) /\ (Guarded => errno = failed)

\* What a function holds at each of its labels.
EndsInv ==
  /\ kept \in Int /\ open \in Int
  /\ fn = Net!NoCall => pc = "idle" /\ Holds(0, 0)
  /\ fn # Net!NoCall =>
       /\ fn \in Net!Functions /\ pc \in Labels
       /\ OnTheWay /\ CleaningUp /\ NoSocket /\ Returning
       /\ fn.name = "tlog_create_mcast_socket" => failed \in {"none", "socket", "bind", "join"}

\* What a return says.
CleanReturn ==
  fn # Net!NoCall /\ fn' = Net!NoCall =>
    /\ kept' - kept = IF failed = "none" THEN 1 ELSE 0
    /\ open' = kept' /\ addrs' = 0
    /\ failed # "none" /\ <<fn.name, failed>> \notin Net!Unguarded => errno' = failed

LEMMA EndsBegin == Net!EndsInit => EndsInv
  BY DEF Net!EndsInit, EndsInv, Holds

LEMMA PreparesStep ==
  ASSUME EndsInv, Net!Prepares, fn.name \in {"safe_socket_listen", "create_passive_endpoint"}
  PROVE  EndsInv' /\ fn' = fn /\ kept' = kept
<1>1. fn' = fn /\ kept' = kept /\ fn # Net!NoCall
  BY DEF Net!Prepares, Net!NoCall, Net!Go, Net!Works, Net!Fails, Net!Err, Net!ListenFails
<1> USE <1>1 DEF EndsInv, OnTheWay, CleaningUp, NoSocket, Returning, Guarded, Holds, Listed, One, Labels, Begins, Doing,
           Net!Works, Net!Fails, Net!Go, Net!Unguarded, Net!Disturbed, Net!Ok
<1>2. ASSUME NEW c, NEW to, Net!Err(c, to, "ret"), c \in Doing, to \in (Doing \ {"listen"}) \cup {"ret"}
      PROVE  EndsInv'
  BY <1>2 DEF Net!Err
<1>3. CASE Net!Err("bind", IF fn.type = "stream" THEN "listen" ELSE "ret", "ret")
  BY <1>3 DEF Net!Err
<1>4. CASE Net!Works("listen", "ret") /\ UNCHANGED <<fd, open, addrs, err>>
  BY <1>4
<1>5. CASE Net!ListenFails /\ UNCHANGED <<fd, open, addrs>>
  BY <1>5 DEF Net!ListenFails
<1> QED
  BY <1>2, <1>3, <1>4, <1>5 DEF Net!Prepares

LEMMA ListenStep == ASSUME EndsInv, Net!safe_socket_listen PROVE EndsInv' /\ fn' # Net!NoCall
<1>1. fn.name = "safe_socket_listen" /\ fn' = fn /\ kept' = kept /\ fn # Net!NoCall
  BY DEF Net!safe_socket_listen, Net!NoCall, Net!Go, Net!Works, Net!Fails, Net!Close, Net!Fd, Net!Prepares, Net!Restore, Net!Save, Net!Test, Net!ListenFails, Net!Err
<1> USE <1>1 DEF EndsInv, OnTheWay, CleaningUp, NoSocket, Returning, Guarded, Holds, Listed, One, Labels, Begins, Doing,
           Net!Works, Net!Fails, Net!Go, Net!Unguarded, Net!Disturbed, Net!Ok
<1>2. CASE Net!Fd("socket", Net!Prepare, "return_error")
  BY <1>2 DEF Net!Fd, Net!Prepare
<1>3. CASE Net!Prepares
  BY <1>3, PreparesStep
<1>4. CASE Net!Test("ret", "save", "return")
  BY <1>4 DEF Net!Test
<1>5. CASE Net!Save("save", "close")
  BY <1>5 DEF Net!Save
<1>6. CASE Net!Close("close", "restore", 0)
  BY <1>6 DEF Net!Close
<1>7. CASE Net!Restore("restore", "return")
  BY <1>7 DEF Net!Restore
<1> QED
  BY <1>2, <1>3, <1>4, <1>5, <1>6, <1>7 DEF Net!safe_socket_listen, Net!ListenFails, Net!Err

LEMMA PassiveStep == ASSUME EndsInv, Net!create_passive_endpoint PROVE EndsInv' /\ fn' # Net!NoCall
<1>1. fn.name = "create_passive_endpoint" /\ fn' = fn /\ kept' = kept /\ fn # Net!NoCall
  BY DEF Net!create_passive_endpoint, Net!NoCall, Net!Go, Net!Works, Net!Fails, Net!Addresses, Net!Close, Net!Fd, Net!Free, Net!Prepares, Net!Restore, Net!Save, Net!Test, Net!ListenFails, Net!Err, Net!PassiveRet
<1> USE <1>1 DEF EndsInv, OnTheWay, CleaningUp, NoSocket, Returning, Guarded, Holds, Listed, One, Labels, Begins, Doing,
           Net!Works, Net!Fails, Net!Go, Net!Unguarded, Net!Disturbed, Net!Ok
<1>2. CASE Net!Addresses("socket")
  BY <1>2 DEF Net!Addresses
<1>3. CASE Net!Fd("socket", Net!Prepare, "no_socket")
  BY <1>3 DEF Net!Fd, Net!Prepare
<1>4. CASE Net!Free("no_socket", "return_error")
  BY <1>4 DEF Net!Free
<1>5. CASE Net!Prepares
  BY <1>5, PreparesStep
<1>6. CASE Net!PassiveRet
  BY <1>6 DEF Net!PassiveRet, Net!Test
<1>7. CASE Net!Save("save", "close")
  BY <1>7 DEF Net!Save
<1>8. CASE Net!Close("close", "free", 0)
  BY <1>8 DEF Net!Close
<1>9. CASE Net!Free("free", "restore")
  BY <1>9 DEF Net!Free
<1>10. CASE Net!Restore("restore", "return")
  BY <1>10 DEF Net!Restore
<1> QED
  BY <1>2, <1>3, <1>4, <1>5, <1>6, <1>7, <1>8, <1>9, <1>10 DEF Net!create_passive_endpoint, Net!ListenFails, Net!Err, Net!PassiveRet

LEMMA AcceptStep == ASSUME EndsInv, Net!safe_tcp_accept PROVE EndsInv' /\ fn' # Net!NoCall
<1>1. fn.name = "safe_tcp_accept" /\ fn' = fn /\ kept' = kept /\ fn # Net!NoCall
  BY DEF Net!safe_tcp_accept, Net!NoCall, Net!Go, Net!Works, Net!Fails, Net!Close, Net!Fd, Net!If, Net!Restore, Net!Save
<1> USE <1>1 DEF EndsInv, OnTheWay, CleaningUp, NoSocket, Returning, Guarded, Holds, Listed, One, Labels, Begins, Doing,
           Net!Works, Net!Fails, Net!Go, Net!Unguarded, Net!Disturbed, Net!Ok
<1>2. CASE Net!Fd("accept", IF fn.nonblock THEN "fcntl" ELSE "return", "return_error")
  BY <1>2 DEF Net!Fd, Net!Prepare
<1>3. CASE Net!Go("accept", "accept") /\ errno' = "EINTR" /\ UNCHANGED <<fd, open, addrs, err, failed>>
  BY <1>3
<1>4. CASE Net!If("fcntl", "return", "save")
  BY <1>4 DEF Net!If
<1>5. CASE Net!Save("save", "close")
  BY <1>5 DEF Net!Save
<1>6. CASE Net!Close("close", "restore", fd)
  BY <1>6 DEF Net!Close
<1>7. CASE Net!Restore("restore", "return_error")
  BY <1>7 DEF Net!Restore
<1> QED
  BY <1>2, <1>3, <1>4, <1>5, <1>6, <1>7 DEF Net!safe_tcp_accept

LEMMA ConnectStep == ASSUME EndsInv, Net!safe_tcp_connect PROVE EndsInv' /\ fn' # Net!NoCall
<1>1. fn.name = "safe_tcp_connect" /\ fn' = fn /\ kept' = kept /\ fn # Net!NoCall
  BY DEF Net!safe_tcp_connect, Net!NoCall, Net!Go, Net!Works, Net!Fails, Net!Close, Net!Fd, Net!If, Net!Unheeded
<1> USE <1>1 DEF EndsInv, OnTheWay, CleaningUp, NoSocket, Returning, Guarded, Holds, Listed, One, Labels, Begins, Doing,
           Net!Works, Net!Fails, Net!Go, Net!Unguarded, Net!Disturbed, Net!Ok
<1>2. CASE Net!Works("inet_pton", "socket") /\ UNCHANGED <<fd, open, addrs, err>>
  BY <1>2
<1>3. CASE Net!Go("inet_pton", "return_error") /\ failed' = "inet_pton" /\ UNCHANGED <<fd, open, addrs, err, errno>>
  BY <1>3
<1>4. CASE Net!Fd("socket", IF fn.timed THEN "sndtimeo" ELSE "connect", "return_error")
  BY <1>4 DEF Net!Fd, Net!Prepare
<1>5. CASE Net!Unheeded("sndtimeo", "connect")
  BY <1>5 DEF Net!Unheeded
<1>6. CASE Net!If("connect", IF fn.timed THEN "sndtimeo0" ELSE "blockability", Net!ConnectFailed)
  BY <1>6 DEF Net!If, Net!ConnectFailed
<1>7. CASE Net!Close("close", "return_error", fd)
  BY <1>7 DEF Net!Close
<1>8. CASE Net!Unheeded("sndtimeo0", "blockability")
  BY <1>8 DEF Net!Unheeded
<1>9. CASE Net!Unheeded("blockability", "return")
  BY <1>9 DEF Net!Unheeded
<1> QED
  BY <1>2, <1>3, <1>4, <1>5, <1>6, <1>7, <1>8, <1>9 DEF Net!safe_tcp_connect

LEMMA McastStep == ASSUME EndsInv, Net!create_mcast_socket PROVE EndsInv' /\ fn' # Net!NoCall
<1>1. fn.name = "create_mcast_socket" /\ fn' = fn /\ kept' = kept /\ fn # Net!NoCall
  BY DEF Net!create_mcast_socket, Net!NoCall, Net!Go, Net!Works, Net!Fails, Net!Addresses, Net!Close, Net!Err, Net!Fd, Net!Free, Net!If, Net!Restore, Net!Save, Net!Test
<1> USE <1>1 DEF EndsInv, OnTheWay, CleaningUp, NoSocket, Returning, Guarded, Holds, Listed, One, Labels, Begins, Doing,
           Net!Works, Net!Fails, Net!Go, Net!Unguarded, Net!Disturbed, Net!Ok
<1>2. CASE Net!If("prefix", "getaddrinfo", "return_error")
  BY <1>2 DEF Net!If
<1>3. CASE Net!Addresses("socket")
  BY <1>3 DEF Net!Addresses
<1>4. CASE Net!Fd("socket", IF fn.read THEN "reuseaddr" ELSE IF fn.write THEN "set_if" ELSE "ret", "no_socket")
  BY <1>4 DEF Net!Fd, Net!Prepare
<1>5. CASE Net!Err("reuseaddr", "bind", "ret")
  BY <1>5 DEF Net!Err
<1>6. CASE Net!Err("bind", "join", "ret")
  BY <1>6 DEF Net!Err
<1>7. CASE Net!Err("join", IF fn.write THEN "set_if" ELSE "ret", "ret")
  BY <1>7 DEF Net!Err
<1>8. CASE Net!Err("set_if", "ret", "ret")
  BY <1>8 DEF Net!Err
<1>9. CASE Net!Save("no_socket", "no_list")
  BY <1>9 DEF Net!Save
<1>10. CASE Net!Free("no_list", "no_errno")
  BY <1>10 DEF Net!Free
<1>11. CASE Net!Restore("no_errno", "return_error")
  BY <1>11 DEF Net!Restore
<1>12. CASE Net!Test("ret", "save", "free")
  BY <1>12 DEF Net!Test
<1>13. CASE Net!Save("save", "close")
  BY <1>13 DEF Net!Save
<1>14. CASE Net!Close("close", "free", 0)
  BY <1>14 DEF Net!Close
<1>15. CASE Net!Free("free", "restore")
  BY <1>15 DEF Net!Free
<1>16. CASE Net!Restore("restore", "return")
  BY <1>16 DEF Net!Restore
<1> QED
  BY <1>2, <1>3, <1>4, <1>5, <1>6, <1>7, <1>8, <1>9, <1>10, <1>11, <1>12, <1>13, <1>14, <1>15, <1>16 DEF Net!create_mcast_socket

LEMMA TlogStep == ASSUME EndsInv, Net!tlog_create_mcast_socket PROVE EndsInv' /\ fn' # Net!NoCall
<1>1. fn.name = "tlog_create_mcast_socket" /\ fn' = fn /\ kept' = kept /\ fn # Net!NoCall
  BY DEF Net!tlog_create_mcast_socket, Net!NoCall, Net!Go, Net!Works, Net!Fails, Net!Close, Net!Err, Net!Fd, Net!Message, Net!Test, Net!Unheeded
<1> USE <1>1 DEF EndsInv, OnTheWay, CleaningUp, NoSocket, Returning, Guarded, Holds, Listed, One, Labels, Begins, Doing,
           Net!Works, Net!Fails, Net!Go, Net!Unguarded, Net!Disturbed, Net!Ok
<1>2. CASE Net!Fd("socket", "nonblock", "perror")
  BY <1>2 DEF Net!Fd, Net!Prepare
<1>3. CASE Net!Message("perror", "return_error")
  BY <1>3 DEF Net!Message
<1>4. CASE Net!Unheeded("nonblock", "reuseaddr")
  BY <1>4 DEF Net!Unheeded
<1>5. CASE Net!Unheeded("reuseaddr", "bind")
  BY <1>5 DEF Net!Unheeded
<1>6. CASE Net!Err("bind", "join", "fprintf")
  BY <1>6 DEF Net!Err
<1>7. CASE Net!Err("join", "ret", "fprintf")
  BY <1>7 DEF Net!Err
<1>8. CASE Net!Message("fprintf", "ret")
  BY <1>8 DEF Net!Message
<1>9. CASE Net!Test("ret", "close", "return")
  BY <1>9 DEF Net!Test
<1>10. CASE Net!Close("close", "return", 0)
  BY <1>10 DEF Net!Close
<1> QED
  BY <1>2, <1>3, <1>4, <1>5, <1>6, <1>7, <1>8, <1>9, <1>10 DEF Net!tlog_create_mcast_socket

LEMMA CallStep == ASSUME EndsInv, NEW f \in Net!Functions, Net!Call(f) PROVE EndsInv' /\ fn = Net!NoCall
<1>1. f.name # "none" /\ Net!NoCall.name = "none" /\ f # Net!NoCall
  BY DEF Net!Functions, Net!NoCall
<1>2. /\ fn = Net!NoCall /\ fn' = f /\ pc' = Net!First(f) /\ failed' = "none" /\ UNCHANGED <<open, addrs, kept>>
      /\ open = kept /\ addrs = 0
  BY DEF Net!Call, EndsInv, Holds
<1>3. /\ Net!First(f) \in Begins \cup {"socket"}
      /\ Net!First(f) = "socket" => f.name \notin {"create_passive_endpoint", "create_mcast_socket"}
  BY DEF Net!First, Begins
<1> QED
  BY <1>1, <1>2, <1>3
     DEF EndsInv, OnTheWay, CleaningUp, NoSocket, Returning, Guarded, Holds, Listed, One, Labels, Begins, Doing

LEMMA ReturnsStep == ASSUME EndsInv, Net!Returns PROVE EndsInv' /\ CleanReturn
  BY DEF Net!Returns, EndsInv, Returning, Guarded, Holds, One, CleanReturn

LEMMA EndsStep == ASSUME EndsInv, Net!EndsNext PROVE EndsInv' /\ CleanReturn
<1>1. ASSUME NEW f \in Net!Functions, Net!Call(f) PROVE EndsInv' /\ CleanReturn
  BY <1>1, CallStep DEF CleanReturn
<1>2. CASE \/ Net!safe_socket_listen \/ Net!create_passive_endpoint \/ Net!safe_tcp_accept
           \/ Net!safe_tcp_connect \/ Net!create_mcast_socket \/ Net!tlog_create_mcast_socket
  BY <1>2, ListenStep, PassiveStep, AcceptStep, ConnectStep, McastStep, TlogStep DEF CleanReturn
<1>3. CASE Net!Returns
  BY <1>3, ReturnsStep
<1>4. CASE Net!CloseKept
  <2>1. kept' = kept - 1 /\ open' = open - 1 /\ UNCHANGED <<fn, pc, fd, addrs, err, errno, failed>>
    BY <1>4 DEF Net!CloseKept
  <2> QED
    BY <2>1 DEF EndsInv, OnTheWay, CleaningUp, NoSocket, Returning, Guarded, Holds, Listed, One, CleanReturn
<1> QED
  BY <1>1, <1>2, <1>3, <1>4 DEF Net!EndsNext

LEMMA EndsInvariant == EndsInv /\ [Net!EndsNext]_sockets => EndsInv' /\ [CleanReturn]_sockets
<1>1. ASSUME EndsInv, UNCHANGED sockets PROVE EndsInv' /\ [CleanReturn]_sockets
  BY <1>1 DEF sockets, EndsInv, OnTheWay, CleaningUp, NoSocket, Returning, Guarded, Holds, Listed, One
<1> QED
  BY <1>1, EndsStep

\* create_passive_endpoint and the others: on every path, wherever a call of theirs
\* fails, what a function took on the way is given back, and errno tells which call
\* it was.
THEOREM ReturnsCleanAlways == Net!Spec => Net!ReturnsClean
<1>1. Net!Init => EndsInv
  BY EndsBegin DEF Net!Init
<1>2. EndsInv /\ [Net!Next]_(Net!vars) => EndsInv' /\ [CleanReturn]_(Net!ends)
  BY EndsInvariant DEF Net!Next, Net!vars, Net!ends, sockets
<1> QED
  BY <1>1, <1>2, PTL DEF Net!Spec, Net!ReturnsClean, CleanReturn

\* The same on the bench, beside the sink and the stream.
THEOREM BenchReturnsAlways == MCSpec => MCReturnsClean
<1>1. MCInit => EndsInv
  BY EndsBegin DEF MCInit, Net!Init
<1>2. EndsInv /\ [MCNext]_<<vars, stream, sockets, part>> => EndsInv' /\ [CleanReturn]_(Net!ends)
  BY EndsInvariant DEF MCNext, Net!ends, sockets
<1> QED
  BY <1>1, <1>2, PTL DEF MCSpec, MCReturnsClean, Net!ReturnsClean, CleanReturn
=============================================================================
