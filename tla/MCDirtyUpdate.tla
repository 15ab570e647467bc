--------------------------- MODULE MCDirtyUpdate ----------------------------
(***************************************************************************)
(* DirtyUpdate with two dictionaries of two blocks, one of one block and   *)
(* an empty one; beside it the lines of short files and the choice among   *)
(* two servers (DirtyDaemon).                                              *)
(***************************************************************************)
EXTENDS DirtyUpdate

CONSTANTS
  v1, v2, v3, empty,
  Files, MaxPatterns, Legal, Illegal, Addresses, MaxUpdates      (* of DirtyDaemon *)

\* A file is a sequence of signs; an address is one or is none.
ASSUME DaemonAssumption ==
  /\ Files \subseteq Seq(STRING) /\ MaxPatterns \in Nat
  /\ Legal \cap Illegal = {} /\ Addresses \subseteq Seq(Legal \cup Illegal)

VARIABLES
  part,
  file, pos, taken, full, done, rounds,
  ip, valid, available, counter, warns, called, place, tries, fd, updates, up, steady, row, warned

lines   == <<file, pos, taken, full, done, rounds>>
servers == <<ip, valid, available, counter, warns, called, place, tries, fd, updates, up, steady, row, warned>>

MCSize == [v \in Versions |-> CASE v \in {v1, v2} -> 2 [] v = v3 -> 1 [] v = empty -> 0]

MCFiles == UNION {[1..n -> {"a", "#", " ", "tab", "nl"}] : n \in 0..5}
             \cup {<<"a", "nl", "b", " ", "tab", "b", "nl", "c", "nl">>,
                   <<"a", "nl", "b", "nl", " ", "#", "b", "nl">>}

MCAddresses == {<<>>, <<"a">>, <<"b", "a">>, <<"a", "x">>}

Edge == INSTANCE DirtyDaemon WITH words <- taken, pc <- place, i <- tries

\* The parts that are not looked at stay in one state.
MCInit ==
  /\ part \in {"update", "lines", "servers"}
  /\ Init /\ (part = "update" \/ (srv = v1 /\ dat = NoFile))
  /\ Edge!LinesInit /\ (part = "lines" \/ file = <<>>)
  /\ Edge!ServersInit /\ (part = "servers" \/ up = {})

UpdateStep(A) == part = "update" /\ A /\ UNCHANGED <<lines, servers>>

\* The reading of a file ends, and the updates are bounded.
MCNext ==
  /\ part' = part
  /\ \/ UpdateStep(Next)
     \/ part = "lines" /\ Edge!LinesNext /\ UNCHANGED <<vars, servers>>
     \/ part = "servers" /\ Edge!ServersNext /\ UNCHANGED <<vars, lines>>
     \/ part # "update" /\ UNCHANGED <<vars, lines, servers>>

MCSpec ==
  /\ MCInit /\ [][MCNext]_<<vars, lines, servers, part>>
  /\ WF_vars(UpdateStep(Daemon))
  /\ \A c \in Checkers : WF_vars(UpdateStep(CheckEnds(c)))

\* tm_dirty_load_new (tm_dirty.c:855): a file that ends gives the words it means.
\* tm_dirty_load_from_server (tm_dirty.c:345): a server that listens is found, and
\* every fourth failure in a row warns.
MCDictionaryFound == /\ part = "lines" => Edge!LinesRead
                     /\ part = "servers" => Edge!ServerFound
=============================================================================
