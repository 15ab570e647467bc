------------------------------- MODULE Acsm --------------------------------
(***************************************************************************)
(* The word filter of acsm.c and utf8_punc.c: acsmAddPattern and           *)
(* acsmCompile build an Aho-Corasick automaton from a list of dirty words, *)
(* acsm_get_first_dirty_word (and acsmSearch, which only answers how)      *)
(* looks for a word in a text, acsm_pattern_replace stars the words of it. *)
(*                                                                         *)
(* A text is a sequence of signs.  A narrow sign is one byte, a wide one   *)
(* the three bytes of a full-width letter, digit or punctuation.           *)
(* A definition with an underscore in its name is a faulty variant of the  *)
(* one that follows it; none is used by the specification.                 *)
(***************************************************************************)
EXTENDS Integers, FiniteSets, SequencesExt

CONSTANTS
  Letters, Digits, (* 'A'..'Z', '1'..'9'                                   *)
  Others,          (* bytes that are neither those nor punctuation         *)
  Lines,           (* texts that a line of the dictionary may hold         *)
  Texts,           (* texts that are looked at                             *)
  MaxPatterns,     (* MAX_PATTERNS                                         *)
  MaxState         (* MAX_STATE                                            *)

Signs == Letters \cup Digits \cup Others \cup {"+", "<", ">"}
\* "+" is any other punctuation.
Sign  == {s \in [ch : Signs, wide : BOOLEAN] : s.wide => s.ch \notin Others}

ASSUME AcsmAssumption ==
  /\ IsFiniteSet(Signs) /\ "-" \notin Signs /\ "*" \notin Signs
  /\ {"+", "<", ">"} \cap (Letters \cup Digits \cup Others) = {}
  /\ Lines \subseteq Seq(Sign) /\ Texts \subseteq Seq(Sign)
  /\ MaxPatterns \in Nat \ {0} /\ MaxState \in Nat \ {0}

Fail     == -1                            (* ACSM_FAIL_STATE               *)
States   == 0..MaxState - 1
Alphabet == Letters \cup Digits \cup Others \cup {"+", "-"}

VARIABLES
  words,     (* acsmPatterns[0 .. total_pattern - 1], numbered from 1      *)
  table,     (* acsmStateTable; longest is 0 where no word ends            *)
  numStates, (* acsmNumStates                                              *)
  queue,     (* the queue of Build_DFA                                     *)
  phase,     (* what is done with the automaton                            *)
  answer     (* of the call that looks at a text                           *)

vars == <<words, table, numStates, queue, phase, answer>>

None == [does |-> "nothing"]

\* The memory is new and holds zeros (the number of the first word), or is as
\* an earlier dictionary left it.
Init ==
  /\ words = <<>> /\ numStates = 0 /\ queue = <<>>
  /\ \E left \in {0, MaxState - 1} :
       table = [s \in States |-> [next |-> [c \in Alphabet |-> left], fail |-> left,
                                  longest |-> 1]]
  /\ phase = "load" /\ answer = None

---------------------------------------------------------------------------
(* utf8_punc.c *)

Punctuation(sign) == sign.ch \in {"+", "<", ">"}

\* string_filter: punctuation goes, what is wide gets narrow.
Filtered(t) ==
  LET kept == SelectSeq(t, LAMBDA sign : ~Punctuation(sign))
  IN [i \in DOMAIN kept |-> kept[i].ch]

\* string_replace: the same, but each byte keeps its place.
Bytes(sign) ==
  LET ch == IF Punctuation(sign) THEN "+" ELSE sign.ch
  IN IF ~sign.wide THEN <<ch>>
     ELSE IF Punctuation(sign) THEN <<"+", "+", "+">> ELSE <<ch, "-", "-">>

Replaced(t) == FlattenSeq([i \in DOMAIN t |-> Bytes(t[i])])

\* replace_char_in_angle_brackets: each '>' closes the last '<' still open.
Untagged(t) ==
  LET Step(tags, i) ==
        CASE t[i] = [ch |-> "<", wide |-> FALSE] -> [tags EXCEPT !.open = Append(@, i)]
          [] t[i] = [ch |-> ">", wide |-> FALSE] /\ tags.open # <<>> ->
               [open |-> Front(tags.open), gone |-> tags.gone \cup Last(tags.open)..i]
          [] OTHER -> tags
      tags == FoldLeftDomain(Step, [open |-> <<>>, gone |-> {}], t)
  IN [i \in DOMAIN t |-> IF i \in tags.gone THEN [t[i] EXCEPT !.ch = "+"] ELSE t[i]]

Jumped(t, jump) == IF jump THEN Untagged(t) ELSE t

---------------------------------------------------------------------------
(* acsmAddPattern, acsmCompile. *)

\* A line that holds nothing but punctuation adds no word.
AddPattern_OneMore(line) ==
  /\ phase = "load" /\ Len(words) <= MaxPatterns
  /\ words' = IF Filtered(line) = <<>> THEN words ELSE Append(words, Filtered(line))
  /\ UNCHANGED <<table, numStates, queue, phase, answer>>

AddPattern(line) ==
  /\ phase = "load" /\ Len(words) < MaxPatterns
  /\ words' = IF Filtered(line) = <<>> THEN words ELSE Append(words, Filtered(line))
  /\ UNCHANGED <<table, numStates, queue, phase, answer>>

MaxStates == 1 + FoldLeft(LAMBDA n, w : n + Len(w), 0, words)

AddMatchListEntry_Last(tab, s, w) == [tab EXCEPT ![s].longest = w]

AddMatchListEntry(tab, s, w) ==
  IF tab[s].longest = 0 \/ Len(words[tab[s].longest]) < Len(words[w])
  THEN [tab EXCEPT ![s].longest = w] ELSE tab

Cleared ==
  [s \in States |-> IF s < MaxStates
                    THEN [table[s] EXCEPT !.next = [c \in Alphabet |-> Fail], !.longest = 0]
                    ELSE table[s]]

\* AddPatternStates: a walk along the states there are, then along new ones.
AddPatternStates(trie, w) ==
  LET Walk(at, c) ==
        IF at.table[at.state].next[c] # Fail
        THEN [at EXCEPT !.state = at.table[at.state].next[c]]
        ELSE [table |-> [at.table EXCEPT ![at.state].next[c] = at.num + 1],
              num   |-> at.num + 1,
              state |-> at.num + 1]
      end == FoldLeft(Walk, [table |-> trie.table, num |-> trie.num, state |-> 0], words[w])
  IN [table |-> AddMatchListEntry(end.table, end.state, w), num |-> end.num]

\* There are too many states, or no memory for one more entry of the queue.
CompileFails ==
  /\ \/ phase = "load" /\ MaxStates > MaxState
     \/ phase = "build" /\ queue # <<>>
  /\ phase' = "failed" /\ queue' = <<>>
  /\ UNCHANGED <<words, table, numStates, answer>>

\* The words become a trie, state 0 loses its failures, and the states next to
\* it are the first in the queue.
Compile ==
  LET trie == FoldLeftDomain(AddPatternStates, [table |-> Cleared, num |-> 0], words)
      near == {s \in 1..trie.num : \E c \in Alphabet : trie.table[0].next[c] = s}
  IN /\ phase = "load" /\ MaxStates <= MaxState
     /\ numStates' = trie.num
     /\ table' = [s \in States |->
                    IF s = 0
                    THEN [trie.table[0] EXCEPT !.next = [c \in Alphabet |-> IF @[c] = Fail THEN 0 ELSE @[c]]]
                    ELSE IF s \in near THEN [trie.table[s] EXCEPT !.fail = 0] ELSE trie.table[s]]
     /\ queue' = SetToSeq(near)
     /\ phase' = "build"
     /\ UNCHANGED <<words, answer>>

\* The state that c leads to from the failure state of r.
Fallback_Root(r, c) == table[0].next[c]

Fallback(r, c) ==
  LET From[s \in States] ==
        IF table[s].next[c] # Fail THEN table[s].next[c] ELSE From[table[s].fail]
  IN From[table[r].fail]

\* A round of the loop of Build_DFA: the children of r get their failure state
\* and the words that end there; what r has no child for falls back.
Children(r) == {c \in Alphabet : table[r].next[c] # Fail}

BuildState ==
  LET r == Head(queue)
      order == SetToSeq(Children(r))
      Linked(tab, c) ==
        LET s == table[r].next[c]  next == Fallback(r, c)  linked == [tab EXCEPT ![s].fail = next]
        IN IF table[next].longest = 0 THEN linked
           ELSE AddMatchListEntry(linked, s, table[next].longest)
      done == FoldLeft(Linked, table, order)
  IN /\ phase = "build" /\ queue # <<>>
     /\ table' = [done EXCEPT ![r].next =
                    [c \in Alphabet |-> IF c \in Children(r) THEN @[c] ELSE table[table[r].fail].next[c]]]
     /\ queue' = Tail(queue) \o [i \in DOMAIN order |-> table[r].next[order[i]]]
     /\ UNCHANGED <<words, numStates, phase, answer>>

Built ==
  /\ phase = "build" /\ queue = <<>>
  /\ phase' = "ready"
  /\ UNCHANGED <<words, table, numStates, queue, answer>>

---------------------------------------------------------------------------
(* acsm_get_first_dirty_word. *)

\* The state after each byte of d.
Run(d) ==
  LET at[i \in 0..Len(d)] == IF i = 0 THEN 0 ELSE table[at[i - 1]].next[d[i]] IN at

\* Where the first word ends in d; 0 if there is none.
FirstEnd(d) ==
  LET at == Run(d)  ends == {i \in 1..Len(d) : table[at[i]].longest # 0}
  IN IF ends = {} THEN 0 ELSE Min(ends)

FirstWord(d) == words[table[Run(d)[FirstEnd(d)]].longest]

IsLetter(c) == c \in Letters
IsOther(c)  == c \in Others

\* The whole text; its letters; what is not letters.
SearchIn_OneFilter(t, kind) ==
  LET d == Filtered(t)
  IN CASE kind = 3 -> d
       [] kind = 1 -> SelectSeq(d, IsLetter)
       [] kind = 2 -> SelectSeq(d, IsOther)

SearchIn(t, kind) ==
  LET d == Filtered(t)
  IN CASE kind = 3 -> d
       [] kind = 1 -> SelectSeq(d, IsLetter)
       [] kind = 2 -> SelectSeq(d, LAMBDA c : ~IsLetter(c))

Search(t, jump) ==
  LET text  == Jumped(t, jump)
      kinds == SelectSeq(<<3, 1, 2>>, LAMBDA k : FirstEnd(SearchIn(text, k)) # 0)
  IN /\ phase = "ready" /\ answer = None
     /\ answer' = [does |-> "search", text |-> text,
                   found |-> IF kinds = <<>> THEN 0 ELSE Head(kinds),
                   word |-> IF kinds = <<>> THEN <<>> ELSE FirstWord(SearchIn(text, Head(kinds)))]
     /\ UNCHANGED <<words, table, numStates, queue, phase>>

---------------------------------------------------------------------------
(* acsm_pattern_replace. *)

\* The bytes of a wide sign that follow i.
Dashes(d, i) ==
  Cardinality({n \in 1..2 : \A m \in 1..n : i + m <= Len(d) /\ d[i + m] = "-"})

\* The place where n bytes that count have been seen, going back from i.
Back(d, i, n, Counted(_)) ==
  CHOOSE k \in 1..i : Counted(d[k]) /\ Cardinality({m \in k..i : Counted(d[m])}) = n

\* One of the three passes: it feeds some bytes to the automaton and, where a
\* word ends, goes back over as many bytes as the word has and stars some.
Pass(d, Fed(_), Counted(_), Starred(_, _)) ==
  LET Step(at, i) ==
        IF at.skip > 0 THEN [at EXCEPT !.skip = @ - 1]
        ELSE IF ~Fed(at.bytes[i]) THEN at
        ELSE LET s == table[at.state].next[at.bytes[i]]
                 w == table[s].longest
             IN IF w = 0 THEN [at EXCEPT !.state = s]
                ELSE LET end   == i + Dashes(at.bytes, i)
                         start == Back(at.bytes, end, Len(words[w]), Counted)
                     IN [state |-> s, skip |-> end - i,
                         bytes |-> [k \in DOMAIN d |->
                                      IF k \in start..end /\ Starred(at.bytes, k) THEN "*"
                                      ELSE at.bytes[k]]]
  IN FoldLeftDomain(Step, [state |-> 0, skip |-> 0, bytes |-> d], d).bytes

AllBytes(d) == Pass(d, LAMBDA c : TRUE, LAMBDA c : c # "-", LAMBDA b, k : TRUE)

\* A byte of a wide letter is starred with it.
LetterBytes(d) ==
  Pass(d, IsLetter, LAMBDA c : IsLetter(c) \/ c = "*",
       LAMBDA b, k : \/ IsLetter(b[k])
                     \/ b[k] = "-" /\ \E m \in {k - 1, k - 2} \cap DOMAIN b : IsLetter(b[m]))

OtherBytes(d) ==
  Pass(d, IsOther, LAMBDA c : IsOther(c) \/ c = "*", LAMBDA b, k : IsOther(b[k]) \/ b[k] = "*")

\* The bytes starred in any of the passes.
Stars(t) ==
  LET d == Replaced(t)
      passes == {AllBytes(d), LetterBytes(d), OtherBytes(d)}
  IN {k \in DOMAIN d : \E p \in passes : p[k] = "*"}

Replace(t, jump) ==
  LET text == Jumped(t, jump) IN
  /\ phase = "ready" /\ answer = None
  /\ answer' = [does |-> "replace", text |-> text, stars |-> Stars(text)]
  /\ UNCHANGED <<words, table, numStates, queue, phase>>

---------------------------------------------------------------------------

\* The caller has read the answer, or learns that there is no dictionary.
Return ==
  /\ answer # None \/ phase = "failed"
  /\ answer' = None
  /\ UNCHANGED <<words, table, numStates, queue, phase>>

Next ==
  \/ \E line \in Lines : AddPattern(line)
  \/ Compile \/ CompileFails \/ BuildState \/ Built
  \/ \E t \in Texts, jump \in BOOLEAN : Search(t, jump) \/ Replace(t, jump)
  \/ Return

Spec == Init /\ [][Next]_vars

---------------------------------------------------------------------------
(* Properties. *)

Entry == [next : [Alphabet -> States \cup {Fail}], fail : States, longest : 0..MaxPatterns]

TypeOK ==
  /\ words \in Seq(Seq(Letters \cup Digits \cup Others)) /\ Len(words) <= MaxPatterns
  /\ table \in [States -> Entry] /\ numStates \in States
  /\ queue \in Seq(States)
  /\ phase \in {"load", "build", "ready", "failed"}

Known       == {<<>>} \cup UNION {Prefixes(words[w]) : w \in DOMAIN words}
Dictionary  == {words[w] : w \in DOMAIN words}
Longest(S)  == CHOOSE d \in S : \A e \in S : Len(e) <= Len(d)

\* The state of a known text, by the arrows of the trie.
StateOf(d) == Run(d)[Len(d)]

\* Once built, the automaton has a state for each beginning of a word, no two
\* share one, each byte leads to the state of the longest known end of what was
\* read, and each state names the longest word that ends there, whatever the
\* memory held before (Build_DFA).
AutomatonIs ==
  /\ TypeOK
  /\ phase = "ready" =>
       /\ \A d, e \in Known : StateOf(d) = StateOf(e) => d = e
       /\ numStates + 1 = Cardinality(Known)
       /\ \A d \in Known :
            /\ \A c \in Alphabet :
                 table[StateOf(d)].next[c] = StateOf(Longest(Known \cap Suffixes(Append(d, c))))
            /\ LET ends == Dictionary \cap Suffixes(d)  w == table[StateOf(d)].longest
               IN IF ends = {} THEN w = 0 ELSE w # 0 /\ words[w] = Longest(ends)

\* Where words of the dictionary end in d.
Ends(d) == {n \in 1..Len(d) : Dictionary \cap Suffixes(SubSeq(d, 1, n)) # {}}

\* tm_dirty.c:1013: 3 if a word is in the text, 1 if it is in its letters alone,
\* 2 if it is in what is left without them, 0 if it is clean; with the longest of
\* the words that end first.
SearchFinds ==
  answer.does = "search" =>
    LET d == Filtered(answer.text)
        In == <<SelectSeq(d, IsLetter), SelectSeq(d, LAMBDA c : c \notin Letters), d>>
        kinds == {k \in 1..3 : Ends(In[k]) # {}}
        first == IF 3 \in kinds THEN 3 ELSE IF kinds = {} THEN 0 ELSE Min(kinds)
    IN /\ answer.found = first
       /\ first # 0 =>
            answer.word = Longest(Dictionary \cap Suffixes(SubSeq(In[first], 1, Min(Ends(In[first])))))

\* The bytes of the i-th sign of a text.
BytesOf(t, i) ==
  LET from == Len(Replaced(SubSeq(t, 1, i - 1))) IN from + 1..from + Len(Bytes(t[i]))

\* The places of t that spell a word of the dictionary when only the signs that
\* satisfy Seen are looked at.
Spelled(t, Seen(_)) ==
  LET at == SelectSeq([i \in DOMAIN t |-> i], LAMBDA i : Seen(t[i]))
      Places(m, n) == {at[k] : k \in m..n}
  IN {Places(m, n) : <<m, n>> \in
        {<<m, n>> \in (DOMAIN at) \X (DOMAIN at) :
           m <= n /\ [k \in 1..n - m + 1 |-> t[at[m + k - 1]].ch] \in Dictionary}}

Views(t) ==
  Spelled(t, LAMBDA s : ~Punctuation(s)) \cup Spelled(t, LAMBDA s : IsLetter(s.ch))
    \cup Spelled(t, LAMBDA s : IsOther(s.ch))

\* acsm_pattern_replace stars nothing but the signs of words, whole or with
\* others between; and the whole of each word that is spelled in narrow signs,
\* however the words overlap and whatever is around them.
Narrow(t) == {S \in Spelled(t, LAMBDA s : TRUE) : \A i \in S : ~t[i].wide}

WordsStarred ==
  answer.does = "replace" =>
    LET t == answer.text  Of(S) == UNION {BytesOf(t, i) : i \in S} IN
    /\ answer.stars \subseteq Of(UNION Views(t))
    /\ Of(UNION Narrow(t)) \subseteq answer.stars
=============================================================================
