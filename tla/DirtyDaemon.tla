---------------------------- MODULE DirtyDaemon ----------------------------
(***************************************************************************)
(* The two ends of an update of tm_dirty.c, each by itself.  The lines:    *)
(* tm_dirty_load_new reads the dictionary's file, looks at one character,  *)
(* goes back, and takes the rest of a line (tm_dirty.c:855).  The servers: *)
(* the list tm_dirty_daemon reads from its parameter, the choice of one at *)
(* each update, which begins at the last that answered, and the warning    *)
(* when none does.                                                         *)
(*                                                                         *)
(* A definition with an underscore in its name is a faulty variant of the  *)
(* one that follows it; none is used by the specification.                 *)
(***************************************************************************)
EXTENDS Integers, Sequences, SequencesExt, FiniteSets

CONSTANTS
  Files,        (* contents of the file: sequences of the signs below and others *)
  MaxPatterns,  (* MAX_PATTERNS                                            *)
  Legal, Illegal,   (* addresses that are one, and that are not            *)
  Addresses,        (* parameters server_addr may be: sequences of those   *)
  MaxUpdates        (* bound: calls of tm_dirty_load_from_server           *)

VARIABLES
  file,    (* the file                                                     *)
  pos,     (* where fp is in it                                            *)
  words,   (* what acsmAddPattern was given                                *)
  full,    (* acsmAddPattern refused a word                                *)
  done,    (* the loop has ended                                           *)
  rounds,  (* history: rounds of the loop                                  *)
  ip,        (* tm_dirty_server_ip and _port                               *)
  valid,     (* tm_dirty_valid_server_count                                *)
  available, (* tm_dirty_available_server_flag                             *)
  counter,   (* connect_failed_counter                                     *)
  warns,     (* tm_dirty_warning_func is set                               *)
  called,    (* daemon_called: the first load was not in vain              *)
  pc, i, fd, (* the update, how far its choice is, what it connected to    *)
  updates,
  \* History: the servers that listen, those that listened all through the
  \* choice, updates in a row without a server since there is a function to warn,
  \* and the warnings of that row.
  up, steady, row, warned

Blanks == {" ", "tab"}
Newline == "nl"

LinesInit ==
  /\ file \in Files
  /\ pos = 0 /\ words = <<>> /\ full = FALSE /\ done = FALSE /\ rounds = 0

\* Where the first character from k on that is not in S stands.
Past(S, k) ==
  CHOOSE n \in k..Len(file) + 1 :
    /\ \A j \in k..n - 1 : file[j] \in S
    /\ n <= Len(file) => file[n] \notin S

NotNewline == {file[j] : j \in 1..Len(file)} \ {Newline}

AtEnd == pos = Len(file)
Char == file[pos + 1]

\* A round must end (bound): a file whose last line is blanks without an end is
\* read for ever.
Round == ~done /\ rounds <= Len(file) + 1 /\ rounds' = rounds + 1

End ==
  /\ Round /\ AtEnd
  /\ done' = TRUE
  /\ UNCHANGED <<file, pos, words, full>>

SkipComment ==
  /\ Round /\ ~AtEnd /\ Char = "#"
  /\ LET n == Past(NotNewline, pos + 1) IN
       /\ pos' = IF n > Len(file) THEN Len(file) ELSE n
       /\ done' = (n > Len(file))
  /\ UNCHANGED <<file, words, full>>

\* The character behind the blanks is given back; so is the last blank where the
\* file ends with them.
SkipBlanks_Takes ==
  /\ Round /\ ~AtEnd /\ Char \in Blanks
  /\ LET n == Past(Blanks, pos + 1) IN pos' = IF n > Len(file) THEN Len(file) ELSE n
  /\ UNCHANGED <<file, words, full, done>>

SkipBlanks ==
  /\ Round /\ ~AtEnd /\ Char \in Blanks
  /\ LET n == Past(Blanks, pos + 1) IN pos' = IF n > Len(file) THEN Len(file) - 1 ELSE n - 1
  /\ UNCHANGED <<file, words, full, done>>

SkipNewline ==
  /\ Round /\ ~AtEnd /\ Char = Newline
  /\ pos' = pos + 1
  /\ UNCHANGED <<file, words, full, done>>

\* The line getline reads, with its end, and the part of it before a tab.
Line == SubSeq(file, pos + 1, LET n == Past(NotNewline, pos + 1) IN IF n > Len(file) THEN Len(file) ELSE n)

Word(line) ==
  IF Contains(line, "tab")
  THEN SubSeq(line, 1, (CHOOSE k \in DOMAIN line : line[k] = "tab" /\ \A j \in 1..k - 1 : line[j] # "tab") - 1)
  ELSE Front(line)

TakeLine ==
  /\ Round /\ ~AtEnd /\ Char \notin Blanks \cup {Newline, "#"}
  /\ pos' = pos + Len(Line)
  /\ IF Word(Line) = <<>> THEN UNCHANGED <<words, full, done>>
     ELSE IF Len(words) = MaxPatterns THEN full' = TRUE /\ done' = TRUE /\ UNCHANGED words
     ELSE /\ words' = Append(words, Word(Line))
          /\ done' = (pos' = Len(file) /\ file[pos'] # Newline)
          /\ UNCHANGED full
  /\ UNCHANGED file

LinesNext == End \/ SkipComment \/ SkipBlanks \/ SkipNewline \/ TakeLine

---------------------------------------------------------------------------
(* What a dictionary means: one word a line, behind blanks and before a tab; *)
(* lines that begin with # are comments.                                     *)

Ended == file = <<>> \/ Last(file) = Newline

Starts == {k \in 1..Len(file) : k = 1 \/ file[k - 1] = Newline}

Letter(k) == file[k] \notin Blanks \cup {Newline}

\* The characters of the word that begins at k, if one does.
Stop(k) == CHOOSE n \in k..Len(file) : file[n] \in {"tab", Newline} /\ \A j \in k..n - 1 : file[j] \notin {"tab", Newline}

WordStarts ==
  {k \in 1..Len(file) :
     /\ Letter(k) /\ file[k] # "#"
     /\ \E s \in Starts : s <= k /\ \A j \in s..k - 1 : file[j] \in Blanks}

Rank(k) == Cardinality({j \in WordStarts : j <= k})

WordAt(k) == SubSeq(file, k, Stop(k) - 1)

Meant ==
  [n \in 1..Cardinality(WordStarts) |-> WordAt(CHOOSE k \in WordStarts : Rank(k) = n)]

\* A file whose last line is ended is read to its end in no more rounds than it
\* has characters, and gives the words it means, as many as there is room for.
LinesRead ==
  Ended =>
    /\ rounds <= Len(file) + 1
    /\ done => words = SubSeq(Meant, 1, IF full THEN MaxPatterns ELSE Len(Meant))
    /\ full => Len(Meant) > MaxPatterns

---------------------------------------------------------------------------
(* The servers. *)

Default == "default"   \* The address the array holds before a call.

conf == <<ip, valid, warns>>
hist == <<row, warned>>

None == "none"

ServersInit ==
  /\ ip = <<Default, Default, Default>> /\ valid = 3 /\ available = 0
  /\ counter = 0 /\ warns = FALSE /\ called = FALSE /\ pc = "start" /\ i = 0 /\ fd = None
  /\ updates = MaxUpdates
  /\ up \in SUBSET Legal /\ steady = {} /\ row = 0 /\ warned = 0

---------------------------------------------------------------------------
(* tm_dirty_daemon: what it read before an address that is none stays in the *)
(* array, but not in the count.                                              *)

Good(s) == IF \E k \in DOMAIN s : s[k] \in Illegal
           THEN (CHOOSE k \in DOMAIN s : s[k] \in Illegal /\ \A j \in 1..k - 1 : s[j] \in Legal) - 1
           ELSE Len(s)

Over(s, n) == [k \in 1..(IF n > Len(ip) THEN n ELSE Len(ip)) |-> IF k <= n THEN s[k] ELSE ip[k]]

Daemon(s, warn) ==
  /\ pc = "start"
  /\ IF s # <<>> /\ Good(s) = Len(s)
     THEN /\ ip' = Over(s, Len(s)) /\ valid' = Len(s)
          /\ warns' = (warns \/ warn) /\ pc' = "update"
     ELSE /\ ip' = Over(s, IF s = <<>> THEN 0 ELSE Good(s) + 1)
          /\ UNCHANGED <<valid, warns, pc>>
  /\ UNCHANGED <<available, counter, called, i, fd, updates, up, steady, hist>>

(* tm_dirty_load_from_server. *)

Update ==
  /\ pc \in {"update", "idle"} /\ updates > 0 /\ updates' = updates - 1
  /\ pc' = "choose" /\ i' = 0 /\ fd' = None /\ steady' = up
  /\ UNCHANGED <<conf, available, counter, called, up, hist>>

Flag_NoWrap == IF i + available < valid THEN i + available ELSE valid - 1
Flag == (i + available) % valid

Connect ==
  /\ pc = "choose" /\ i < valid
  /\ IF ip[Flag + 1] \in up
     THEN /\ available' = Flag /\ fd' = ip[Flag + 1] /\ pc' = "chosen" /\ UNCHANGED i
     ELSE i' = i + 1 /\ UNCHANGED <<available, fd, pc>>
  /\ UNCHANGED <<conf, counter, called, updates, up, steady, hist>>

\* A first load that fails with no local file to load ends the call of
\* tm_dirty_daemon, which may be called again.
Ends == \/ called' = TRUE /\ pc' = "idle"
        \/ ~called /\ UNCHANGED called /\ pc' = "start"

\* The update goes on with the server (DirtyUpdate).
Chosen ==
  /\ pc = "chosen"
  /\ counter' = 0 /\ Ends /\ fd' = None
  /\ row' = 0 /\ warned' = 0
  /\ UNCHANGED <<conf, available, i, updates, up, steady>>

Warns_Late == warns /\ counter = 4
Warns == warns /\ counter = 3

NoneAnswers ==
  /\ pc = "choose" /\ i = valid
  /\ counter' = IF Warns THEN 0 ELSE IF warns THEN counter + 1 ELSE counter
  /\ row' = IF warns THEN row + 1 ELSE row
  /\ warned' = IF Warns THEN warned + 1 ELSE warned
  /\ Ends
  /\ UNCHANGED <<conf, available, i, fd, updates, up, steady>>

\* A server comes up or goes down.
ServerTurns(s) ==
  /\ pc = "choose"
  /\ up' = IF s \in up THEN up \ {s} ELSE up \cup {s}
  /\ steady' = steady \cap up'
  /\ UNCHANGED <<conf, available, counter, called, pc, i, fd, updates, hist>>

ServersTurn(S) ==
  /\ pc = "idle" /\ up' = S
  /\ UNCHANGED <<conf, available, counter, called, pc, i, fd, updates, steady, hist>>

ServersNext ==
  \/ \E s \in Addresses, warn \in BOOLEAN : Daemon(s, warn)
  \/ Update \/ Connect \/ Chosen \/ NoneAnswers
  \/ \E s \in Legal : ServerTurns(s)
  \/ \E S \in SUBSET Legal : ServersTurn(S)

---------------------------------------------------------------------------
\* An update that ends without a server was refused by each address of the list
\* that was read last: none of them listened all through the choice, whichever
\* answered the time before; and of any four updates in a row that found none
\* one has warned, no sooner than the fourth (tm_dirty.c:346 and 356).
ServerFound ==
  /\ pc \in {"choose", "chosen", "idle"} => \A k \in 1..valid : ip[k] \in Legal
  /\ pc = "choose" /\ i = valid => \A k \in 1..valid : ip[k] \notin steady
  /\ pc = "chosen" => fd = ip[available + 1]
  /\ pc = "idle" => warned = row \div 4
=============================================================================
