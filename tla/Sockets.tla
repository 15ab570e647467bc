------------------------------ MODULE Sockets ------------------------------
(***************************************************************************)
(* The sockets of inet/.  The loops of tcp.c that send and receive a       *)
(* number of bytes over a connection: every call of the system may move    *)
(* fewer bytes than asked for, be interrupted, time out (or find the       *)
(* socket not ready), fail, or meet the end of the stream; bytes are       *)
(* numbered in the order the program means to send them.  And the          *)
(* functions of tcp.c, mcast.c and the sink of tlog that make sockets:     *)
(* each calls the system several times, any call may fail, and has its own *)
(* statements that give back what it took on the way and keep errno as the *)
(* call that failed set it.  The two share nothing.                        *)
(*                                                                         *)
(* A definition with an underscore in its name is a faulty variant of the  *)
(* one that follows it; none is used by the specification.                 *)
(***************************************************************************)
EXTENDS Integers, Sequences

CONSTANTS
  Totals,           (* lengths asked for                                   *)
  Room,             (* bytes the system holds                              *)
  MaxBytes, MaxFails,
  MaxCalls          (* calls of functions that make sockets                *)

VARIABLES
  wire,             (* bytes on their way                                  *)
  up,               (* "open", "shut" by the sender, "broken"              *)
  snd, rcv,         (* the two calls: what each asked for and has done     *)
  next,             (* bytes the sender knows it sent                      *)
  got,              (* bytes the receiver was told it received             *)
  fails,
  dropped,          (* history: bytes read that no count told of           *)
  fn, pc,           (* the function that runs with its arguments, and where*)
  fd,               (* descriptors its variable holds: 0 (it is -1) or 1   *)
  open, addrs,      (* descriptors and lists of getaddrinfo not given back *)
  err, errno,       (* the variable err, and errno                         *)
  failed,           (* history: the call whose failure it looked at        *)
  kept,             (* descriptors returned and not closed yet             *)
  calls

stream == <<wire, up, snd, rcv, next, got, fails, dropped>>
ends   == <<fn, pc, fd, open, addrs, err, errno, failed, kept, calls>>
vars   == <<stream, ends>>

Idle == [pc |-> "idle"]

StreamInit ==
  /\ wire = <<>> /\ up = "open" /\ snd = Idle /\ rcv = Idle
  /\ next = 0 /\ got = <<>> /\ fails = MaxFails /\ dropped = <<>>

Min2(a, b) == IF a < b THEN a ELSE b

---------------------------------------------------------------------------
(* safe_tcp_send_n: its caller goes on after the bytes that were sent. *)

SendN(total) ==
  /\ snd = Idle /\ up = "open" /\ next + total <= MaxBytes
  /\ snd' = [pc |-> "send", total |-> total, done |-> 0]
  /\ UNCHANGED <<wire, up, rcv, next, got, fails, dropped>>

\* The bytes of the buffer from the k-th on.
From_Start(call, k) == [i \in 1..k |-> next + i]

From(call, k) == [i \in 1..k |-> next + call.done + i]

Send ==
  /\ snd.pc = "send" /\ snd.done < snd.total /\ up = "open"
  /\ \E k \in 1..Min2(snd.total - snd.done, Room - Len(wire)) :
       /\ wire' = wire \o From(snd, k)
       /\ snd' = [snd EXCEPT !.done = @ + k]
  /\ UNCHANGED <<up, rcv, next, got, fails, dropped>>

\* A signal: the loop goes round with nothing added.
Interrupted == (snd.pc = "send" \/ rcv.pc = "recv") /\ UNCHANGED stream

\* All is sent, or the socket takes no more for now.
SendReturns ==
  /\ snd.pc = "send"
  /\ snd.done = snd.total \/ (up = "open" /\ Len(wire) = Room)
  /\ next' = next + snd.done /\ snd' = Idle
  /\ UNCHANGED <<wire, up, rcv, got, fails, dropped>>

\* -1: how much was sent is not told; the caller gives the connection up.
SendFails ==
  /\ snd.pc = "send" /\ snd.done < snd.total /\ up = "broken"
  /\ snd' = [pc |-> "failed", done |-> snd.done]
  /\ UNCHANGED <<wire, up, rcv, next, got, fails, dropped>>

---------------------------------------------------------------------------
(* safe_tcp_recv_n, and safe_tcp_recv, which takes what one call gives. *)

RecvN(total, once) ==
  /\ rcv = Idle
  /\ rcv' = [pc |-> "recv", total |-> total, buf |-> <<>>, once |-> once]
  /\ UNCHANGED <<wire, up, snd, next, got, fails, dropped>>

Recv ==
  /\ rcv.pc = "recv" /\ Len(rcv.buf) < rcv.total /\ (rcv.once => rcv.buf = <<>>)
  /\ \E k \in 1..Min2(rcv.total - Len(rcv.buf), Len(wire)) :
       /\ rcv' = [rcv EXCEPT !.buf = @ \o SubSeq(wire, 1, k)]
       /\ wire' = SubSeq(wire, k + 1, Len(wire))
  /\ UNCHANGED <<up, snd, next, got, fails, dropped>>

\* The count of the bytes before a time out is returned, so none is lost.
Counted_None == rcv.buf = <<>> \/ Len(rcv.buf) = rcv.total

Counted == TRUE

RecvReturns ==
  /\ rcv.pc = "recv"
  /\ \/ rcv.buf # <<>> /\ (rcv.once \/ Len(rcv.buf) = rcv.total)
     \/ wire = <<>> /\ up # "shut"
  /\ IF Counted THEN got' = got \o rcv.buf /\ UNCHANGED dropped
     ELSE dropped' = dropped \o rcv.buf /\ UNCHANGED got
  /\ rcv' = Idle
  /\ UNCHANGED <<wire, up, snd, next, fails>>

\* The end of the stream (0), or an error (-1): the bytes before it are in the
\* buffer, and nothing tells how many.
RecvEnds ==
  /\ rcv.pc = "recv" /\ Len(rcv.buf) < rcv.total /\ (rcv.once => rcv.buf = <<>>)
  /\ wire = <<>> /\ up # "open"
  /\ dropped' = dropped \o rcv.buf
  /\ rcv' = [pc |-> "ended"]
  /\ UNCHANGED <<wire, up, snd, next, got, fails>>

---------------------------------------------------------------------------
Shut ==
  /\ up = "open" /\ snd = Idle /\ up' = "shut"
  /\ UNCHANGED <<wire, snd, rcv, next, got, fails, dropped>>

\* The connection breaks: what is on its way is lost.
Breaks ==
  /\ up = "open" /\ fails > 0 /\ fails' = fails - 1
  /\ up' = "broken" /\ wire' = <<>>
  /\ UNCHANGED <<snd, rcv, next, got, dropped>>

StreamNext ==
  \/ \E t \in Totals : SendN(t) \/ (\E once \in BOOLEAN : RecvN(t, once))
  \/ Send \/ Interrupted \/ SendReturns \/ SendFails
  \/ Recv \/ RecvReturns \/ RecvEnds \/ Shut \/ Breaks

---------------------------------------------------------------------------
(* The functions that make sockets.  pc is the call, or the statement of   *)
(* the clean-up, that comes next; a step does it and goes where the code   *)
(* goes.                                                                   *)

NoCall == [name |-> "none"]

\* What err and errno are when nothing failed: 0.  A failure is the name of the call.
Ok == "ok"

Functions ==
  [name : {"safe_socket_listen", "create_passive_endpoint"}, type : {"stream", "dgram", "seqpacket"}]
    \cup [name : {"safe_tcp_accept"}, nonblock : BOOLEAN]
    \cup [name : {"safe_tcp_connect"}, timed : BOOLEAN]
    \cup [name : {"create_mcast_socket"}, read : BOOLEAN, write : BOOLEAN]
    \cup {[name |-> "tlog_create_mcast_socket"]}

EndsInit ==
  /\ fn = NoCall /\ pc = "idle" /\ fd = 0 /\ open = 0 /\ addrs = 0
  /\ err = Ok /\ errno = Ok /\ failed = "none" /\ kept = 0 /\ calls = MaxCalls

\* The call a function begins with.
First(f) ==
  CASE f.name = "create_passive_endpoint" -> "getaddrinfo"
    [] f.name = "safe_tcp_accept" -> "accept"
    [] f.name = "safe_tcp_connect" -> "inet_pton"
    [] f.name = "create_mcast_socket" -> "prefix"
    [] OTHER -> "socket"

\* Only the sink of tlog gives err a value where it is declared.
Call(f) ==
  /\ fn = NoCall /\ calls > 0 /\ calls' = calls - 1
  /\ fn' = f /\ pc' = First(f) /\ fd' = 0 /\ failed' = "none"
  /\ err' \in IF f.name = "tlog_create_mcast_socket" THEN {Ok} ELSE {Ok, "stale"}
  /\ UNCHANGED <<open, addrs, errno, kept>>

Go(at, to) == pc = at /\ pc' = to /\ UNCHANGED <<fn, kept, calls>>

\* A call whose result is looked at.
Works(call, to) == Go(call, to) /\ UNCHANGED <<errno, failed>>
Fails(call, to) == Go(call, to) /\ errno' = call /\ failed' = call

\* if (call() == -1) goto else
If(call, to, else) ==
  (Works(call, to) \/ Fails(call, else)) /\ UNCHANGED <<fd, open, addrs, err>>

\* err = call(); if (err == -1) goto else
Err(call, to, else) ==
  /\ \/ Works(call, to) /\ err' = Ok
     \/ Fails(call, else) /\ err' = "error"
  /\ UNCHANGED <<fd, open, addrs>>

\* fd = call(); if (fd == -1) goto else
Fd(call, to, else) ==
  /\ \/ Works(call, to) /\ fd' = 1 /\ open' = open + 1
     \/ Fails(call, else) /\ fd' = 0 /\ UNCHANGED open
  /\ UNCHANGED <<addrs, err>>

\* err = getaddrinfo(); if (err != 0) { errno = eai_to_errno(err); return -1; }
Addresses(to) ==
  /\ \/ Works("getaddrinfo", to) /\ err' = Ok /\ addrs' = addrs + 1
     \/ Fails("getaddrinfo", "return_error") /\ err' = "eai" /\ UNCHANGED addrs
  /\ UNCHANGED <<fd, open>>

\* A call whose failure nobody looks at.
Unheeded(call, to) ==
  Go(call, to) /\ errno' \in {errno, call} /\ UNCHANGED <<fd, open, addrs, err, failed>>

\* The statements of the clean-ups.  What they call may change errno.
Disturbed == {errno, "EIO"}

Test(at, set, clear) ==
  Go(at, IF err # Ok THEN set ELSE clear) /\ UNCHANGED <<fd, open, addrs, err, errno, failed>>

Save(at, to) == Go(at, to) /\ err' = errno /\ UNCHANGED <<fd, open, addrs, errno, failed>>

Restore(at, to) == Go(at, to) /\ errno' = err /\ UNCHANGED <<fd, open, addrs, err, failed>>

Close(at, to, var) ==
  /\ Go(at, to) /\ open' = open - fd /\ fd' = var
  /\ errno' \in Disturbed /\ UNCHANGED <<addrs, err, failed>>

Free(at, to) ==
  /\ Go(at, to) /\ addrs' = addrs - 1
  /\ errno' \in Disturbed /\ UNCHANGED <<fd, open, err, failed>>

Message(at, to) ==
  Go(at, to) /\ errno' \in Disturbed /\ UNCHANGED <<fd, open, addrs, err, failed>>

\* The caller keeps the descriptor it is given.
Returns ==
  /\ \/ pc = "return" /\ kept' = kept + fd
     \/ pc = "return_error" /\ UNCHANGED kept
  /\ fn' = NoCall /\ pc' = "idle"
  /\ UNCHANGED <<fd, open, addrs, err, errno, failed, calls>>

CloseKept ==
  /\ kept > 0 /\ kept' = kept - 1 /\ open' = open - 1
  /\ UNCHANGED <<fn, pc, fd, addrs, err, errno, failed, calls>>

---------------------------------------------------------------------------
(* What the passive functions do to a new socket: the same lines in both.  *)

Prepare == IF fn.type # "dgram" THEN "reuseaddr" ELSE "rcvbuf"

ListenFails_Unsaid == Fails("listen", "ret") /\ UNCHANGED err

ListenFails == Fails("listen", "ret") /\ err' = "error"

Prepares ==
  \/ Err("reuseaddr", "rcvbuf", "ret") \/ Err("rcvbuf", "sndbuf", "ret")
  \/ Err("sndbuf", "bind", "ret")
  \/ Err("bind", IF fn.type = "stream" THEN "listen" ELSE "ret", "ret")
  \/ Works("listen", "ret") /\ UNCHANGED <<fd, open, addrs, err>>
  \/ ListenFails /\ UNCHANGED <<fd, open, addrs>>

safe_socket_listen ==
  /\ fn.name = "safe_socket_listen"
  /\ \/ Fd("socket", Prepare, "return_error") \/ Prepares
     \/ Test("ret", "save", "return") \/ Save("save", "close")
     \/ Close("close", "restore", 0) \/ Restore("restore", "return")

\* The list is freed on both ways out of ret, and errno set.
PassiveRet_FreesIfErr == Test("ret", "save", "restore")

PassiveRet == Test("ret", "save", "free")

\* The failure of socket is not saved over the freeaddrinfo after it.
create_passive_endpoint ==
  /\ fn.name = "create_passive_endpoint"
  /\ \/ Addresses("socket")
     \/ Fd("socket", Prepare, "no_socket") \/ Free("no_socket", "return_error")
     \/ Prepares
     \/ PassiveRet \/ Save("save", "close") \/ Close("close", "free", 0)
     \/ Free("free", "restore") \/ Restore("restore", "return")

\* accept is called again after a signal.
safe_tcp_accept ==
  /\ fn.name = "safe_tcp_accept"
  /\ \/ Fd("accept", IF fn.nonblock THEN "fcntl" ELSE "return", "return_error")
     \/ Go("accept", "accept") /\ errno' = "EINTR" /\ UNCHANGED <<fd, open, addrs, err, failed>>
     \/ If("fcntl", "return", "save")
     \/ Save("save", "close") \/ Close("close", "restore", fd) \/ Restore("restore", "return_error")

ConnectFailed_Kept == "return_error"

ConnectFailed == "close"

\* An address that is none sets no errno, and the close is not guarded.
safe_tcp_connect ==
  /\ fn.name = "safe_tcp_connect"
  /\ \/ Works("inet_pton", "socket") /\ UNCHANGED <<fd, open, addrs, err>>
     \/ /\ Go("inet_pton", "return_error") /\ failed' = "inet_pton"
        /\ UNCHANGED <<fd, open, addrs, err, errno>>
     \/ Fd("socket", IF fn.timed THEN "sndtimeo" ELSE "connect", "return_error")
     \/ Unheeded("sndtimeo", "connect")
     \/ If("connect", IF fn.timed THEN "sndtimeo0" ELSE "blockability", ConnectFailed)
     \/ Close("close", "return_error", fd)
     \/ Unheeded("sndtimeo0", "blockability") \/ Unheeded("blockability", "return")

create_mcast_socket ==
  /\ fn.name = "create_mcast_socket"
  /\ \/ If("prefix", "getaddrinfo", "return_error") \/ Addresses("socket")
     \/ LET writes == IF fn.write THEN "set_if" ELSE "ret"
        IN \/ Fd("socket", IF fn.read THEN "reuseaddr" ELSE writes, "no_socket")
           \/ Err("reuseaddr", "bind", "ret") \/ Err("bind", "join", "ret") \/ Err("join", writes, "ret")
     \/ Err("set_if", "ret", "ret")
     \/ Save("no_socket", "no_list") \/ Free("no_list", "no_errno") \/ Restore("no_errno", "return_error")
     \/ Test("ret", "save", "free") \/ Save("save", "close") \/ Close("close", "free", 0)
     \/ Free("free", "restore") \/ Restore("restore", "return")

\* Here what failed is written out before the clean-up.
tlog_create_mcast_socket ==
  /\ fn.name = "tlog_create_mcast_socket"
  /\ \/ Fd("socket", "nonblock", "perror") \/ Message("perror", "return_error")
     \/ Unheeded("nonblock", "reuseaddr") \/ Unheeded("reuseaddr", "bind")
     \/ Err("bind", "join", "fprintf") \/ Err("join", "ret", "fprintf") \/ Message("fprintf", "ret")
     \/ Test("ret", "close", "return") \/ Close("close", "return", 0)

EndsNext ==
  \/ \E f \in Functions : Call(f)
  \/ safe_socket_listen \/ create_passive_endpoint \/ safe_tcp_accept \/ safe_tcp_connect
  \/ create_mcast_socket \/ tlog_create_mcast_socket
  \/ Returns \/ CloseKept

---------------------------------------------------------------------------
Init == StreamInit /\ EndsInit

Next ==
  \/ StreamNext /\ UNCHANGED ends
  \/ EndsNext /\ UNCHANGED stream

Spec == Init /\ [][Next]_vars

---------------------------------------------------------------------------
\* Whatever the sizes of the pieces, the interruptions and the time outs: on a
\* connection that is not broken the bytes counted, those of the call under way
\* and those on the wire are all bytes sent so far, each once and in order.  Only
\* the call that meets the end of the stream takes bytes it does not count, fewer
\* than it asked for.
SentSoFar == next + IF snd.pc = "idle" THEN 0 ELSE snd.done

StreamIntact ==
  LET buf == IF rcv.pc = "recv" THEN rcv.buf ELSE <<>>
      all == got \o dropped \o buf \o wire
  IN /\ all = [i \in 1..Len(all) |-> i]
     /\ up # "broken" => Len(all) = SentSoFar
     /\ dropped # <<>> => rcv.pc = "ended"

\* The calls whose failure errno may not tell of: nothing keeps what they left in
\* it over the close, the freeaddrinfo or the message that follows.
Unguarded ==
  {<<"create_passive_endpoint", "socket">>, <<"safe_tcp_connect", "inet_pton">>,
   <<"safe_tcp_connect", "connect">>}
    \cup {<<"tlog_create_mcast_socket", call>> : call \in {"socket", "bind", "join"}}

\* Whatever way a function takes and whatever functions were called before it, when
\* it returns the process holds the descriptors that were returned to it and no
\* other, and no list of addresses; a descriptor is returned just when no call that
\* is looked at failed; and errno tells the caller which one did, unless unguarded.
ReturnsClean ==
  [][fn # NoCall /\ fn' = NoCall =>
       /\ kept' - kept = IF failed = "none" THEN 1 ELSE 0
       /\ open' = kept' /\ addrs' = 0
       /\ failed # "none" /\ <<fn.name, failed>> \notin Unguarded => errno' = failed]_ends
=============================================================================
