------------------------------- MODULE Config -------------------------------
(***************************************************************************)
(* The configuration of conf_parser/config.c: pairs of a key and a value   *)
(* in lists by a hash of the key, filled from files that may be read again *)
(* while the program looks values up and dumps them one by one.            *)
(*                                                                         *)
(* A definition with an underscore in its name is a faulty variant of the  *)
(* one that follows it; none is used by the specification.                 *)
(***************************************************************************)
EXTENDS Integers, Sequences, SequencesExt, FiniteSets

CONSTANTS
  Files,            (* files: sequences of lines, sequences of characters  *)
  Separators,       (* the characters that separate, myifs                 *)
  Hash(_),          (* the list of a key                                   *)
  Buckets,          (* lists, 0 .. Buckets - 1                             *)
  MaxVal,           (* CONFIG_VAL_SIZE - 1                                 *)
  None,
  MaxLoads

VARIABLES
  heads,            (* ini_key_head: sequences of pairs                    *)
  inited,           (* has_init                                            *)
  index, first, iter, (* where the dump is: config_dump_loop_...           *)
  result,           (* what the last config_init returned                  *)
  loads,
  \* History.
  before, file,     (* the lists before the last load, and its file        *)
  present, dumped   (* keys before the dump began, and those it returned   *)

vars == <<heads, inited, index, first, iter, result, loads, before, file, present, dumped>>

Lists == 0..(Buckets - 1)

NoPairs == [b \in Lists |-> <<>>]

Init ==
  /\ heads = NoPairs /\ inited = FALSE
  /\ index = 0 /\ first = 0 /\ iter = None /\ result = 0 /\ loads = MaxLoads
  /\ before = NoPairs /\ file = <<>> /\ present = {} /\ dumped = <<>>

---------------------------------------------------------------------------
\* str_split with two fields: the first ends at a separator, the second is the
\* rest of the line without the separators around it.
Trimmed(s) ==
  LET in == {i \in 1..Len(s) : s[i] \notin Separators} IN
    IF in = {} THEN <<>>
    ELSE SubSeq(s, CHOOSE i \in in : \A j \in in : i <= j, CHOOSE i \in in : \A j \in in : i >= j)

Split(line) ==
  LET s == Trimmed(line)
      seps == {i \in 1..Len(s) : s[i] \in Separators}
      end == CHOOSE i \in seps : \A j \in seps : i <= j
  IN IF s = <<>> THEN <<>> ELSE IF seps = {} THEN <<s>>
     ELSE <<SubSeq(s, 1, end - 1), Trimmed(SubSeq(s, end, Len(s)))>>

Skipped(line) == line # <<>> /\ line[1] = "#"

---------------------------------------------------------------------------
At(h, k) == {i \in 1..Len(h[Hash(k)]) : h[Hash(k)][i].key = k}

Keys(h) == UNION {{h[b][i].key : i \in 1..Len(h[b])} : b \in Lists}

\* config_get_strval
Value(h, k) == IF At(h, k) = {} THEN None ELSE h[Hash(k)][CHOOSE i \in At(h, k) : \A j \in At(h, k) : i <= j].val

\* config_append_value, config_update_value: whether they succeed, and what they do.
CanAppend_Any(h, k, v) == Len(v) <= MaxVal

CanAppend(h, k, v) == Len(v) <= MaxVal /\ At(h, k) = {}

CanUpdate(h, k, v) == Len(v) <= MaxVal /\ \E i \in At(h, k) : h[Hash(k)][i].val # v

ResetOrAdd(h, k, v) ==
  IF CanAppend(h, k, v) THEN [h EXCEPT ![Hash(k)] = <<[key |-> k, val |-> v]>> \o @]
  ELSE LET i == CHOOSE i \in At(h, k) : h[Hash(k)][i].val # v
       IN [h EXCEPT ![Hash(k)][i].val = v]

\* parse_config stops at the first line it can neither add nor change.
Line(acc, line) ==
  LET f == Split(line) IN
    IF ~acc.ok \/ Skipped(line) \/ Len(f) < 2 THEN acc
    ELSE IF CanAppend(acc.h, f[1], f[2]) \/ CanUpdate(acc.h, f[1], f[2])
    THEN [acc EXCEPT !.h = ResetOrAdd(acc.h, f[1], f[2])]
    ELSE [acc EXCEPT !.ok = FALSE]

Parsed(h, lines) == FoldLeft(Line, [h |-> h, ok |-> TRUE], lines)

\* config_init and config_update.  A program that has ended the configuration
\* begins the dump anew.
ConfigInit(lines) ==
  /\ loads > 0 /\ loads' = loads - 1
  /\ LET h == IF inited THEN heads ELSE NoPairs
         p == Parsed(h, lines)
     IN heads' = p.h /\ result' = (IF p.ok THEN 0 ELSE -1) /\ before' = h
  /\ inited' = TRUE /\ file' = lines
  /\ present' = IF dumped = <<>> THEN Keys(heads') ELSE present
  /\ UNCHANGED <<index, first, iter, dumped>>

ConfigExit ==
  /\ inited /\ inited' = FALSE
  /\ heads' = NoPairs /\ before' = NoPairs /\ file' = <<>> /\ result' = 0
  /\ index' = 0 /\ first' = 0 /\ iter' = None /\ present' = {} /\ dumped' = <<>>
  /\ UNCHANGED loads

---------------------------------------------------------------------------
(* The dump: iter is a pair, here its key, or the head of list index, here   *)
(* None.                                                                     *)

DumpReset_KeepsFirst ==
  /\ inited /\ index' = 0
  /\ present' = Keys(heads) /\ dumped' = <<>>
  /\ UNCHANGED <<heads, inited, first, iter, result, loads, before, file>>

DumpReset ==
  /\ inited /\ index' = 0 /\ first' = 0
  /\ present' = Keys(heads) /\ dumped' = <<>>
  /\ UNCHANGED <<heads, inited, iter, result, loads, before, file>>

FirstOf(b) == IF heads[b] = <<>> THEN None ELSE heads[b][1].key

After(b, k) ==
  LET i == CHOOSE i \in At(heads, k) : TRUE
  IN IF i = Len(heads[b]) THEN None ELSE heads[b][i + 1].key

\* The next list with a pair in it from list b on, or Buckets.
NonEmpty(b) ==
  LET full == {c \in b..(Buckets - 1) : heads[c] # <<>>}
  IN IF full = {} THEN Buckets ELSE CHOOSE c \in full : \A d \in full : c <= d

DumpNext ==
  /\ inited
  /\ LET at == IF first = 0 THEN FirstOf(0) ELSE iter
         list == IF at # None THEN index ELSE NonEmpty(index + 1)
         key == IF at # None THEN at ELSE FirstOf(list)
     IN IF list = Buckets
        THEN /\ index' = 0 /\ first' = 0 /\ iter' = None
             /\ present' = Keys(heads) /\ dumped' = <<>>
        ELSE /\ index' = list /\ first' = 1 /\ iter' = After(list, key)
             /\ dumped' = Append(dumped, key) /\ UNCHANGED present
  /\ UNCHANGED <<heads, inited, result, loads, before, file>>

Next == (\E f \in Files : ConfigInit(f)) \/ ConfigExit \/ DumpReset \/ DumpNext

Spec == Init /\ [][Next]_vars

---------------------------------------------------------------------------
\* No key is twice in the lists, or in the wrong one.  After a file is read with
\* success each of its keys has the value of its last line, and the others the
\* one they had.  It fails exactly when some line says what holds already, or has
\* a value too long: reading a file again that has an unchanged line does, and
\* then changes only what the lines before it say.
Pairs(lines) ==
  SelectSeq([i \in 1..Len(lines) |-> IF Skipped(lines[i]) THEN <<>> ELSE Split(lines[i])],
            LAMBDA f : Len(f) = 2)

Told(h, pairs, k) ==
  LET of == {i \in 1..Len(pairs) : pairs[i][1] = k}
  IN IF of = {} THEN Value(h, k) ELSE pairs[CHOOSE i \in of : \A j \in of : i >= j][2]

Repeats(h, pairs, i) ==
  LET p == pairs[i]
  IN Len(p[2]) > MaxVal \/ Told(h, SubSeq(pairs, 1, i - 1), p[1]) = p[2]

LoadedRight ==
  /\ \A b \in Lists : \A i, j \in 1..Len(heads[b]) :
       Hash(heads[b][i].key) = b /\ (heads[b][i].key = heads[b][j].key => i = j)
  /\ LET pairs == Pairs(file)
         bad == {i \in 1..Len(pairs) : Repeats(before, pairs, i)}
         done == IF bad = {} THEN pairs
                 ELSE SubSeq(pairs, 1, (CHOOSE i \in bad : \A j \in bad : i <= j) - 1)
     IN /\ (result = -1) = (bad # {})
        /\ \A k \in Keys(heads) \cup {pairs[i][1] : i \in 1..Len(pairs)} :
             Value(heads, k) = Told(before, done, k)

\* A dump returns no pair twice, and when it comes to its end none of those that
\* were there at its beginning was left out, whatever files are read meanwhile.
DumpWhole ==
  /\ \A i, j \in 1..Len(dumped) : dumped[i] = dumped[j] => i = j
  /\ first = 1 /\ iter = None /\ NonEmpty(index + 1) = Buckets
       => present \subseteq {dumped[i] : i \in 1..Len(dumped)}

\* Together: what is loaded and what is dumped (config_init, config_dump_loop_next).
ConfigRight == LoadedRight /\ DumpWhole
=============================================================================
