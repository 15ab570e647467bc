------------------------------- MODULE LuaMatch -------------------------------
(***************************************************************************)
(* The pattern matcher of Lua (src/lua/lstrlib.c): match with its          *)
(* backtracking over captures that are changed in place, and find, gmatch, *)
(* gsub, sub and byte on top of it.                                        *)
(*                                                                         *)
(* A string is a sequence of characters.  The program that uses it builds  *)
(* a pattern out of items, one by one, each given as its text and by what  *)
(* it stands for; the matcher reads the text, the definitions it is        *)
(* compared with only the meaning.                                         *)
(***************************************************************************)
EXTENDS Integers, FiniteSets, SequencesExt

CONSTANTS Items,      \* records [text, kind, set, rep, arg]
          Subjects,   \* strings
          MaxItems,   \* items of a pattern
          MaxCaptures \* LUA_MAXCAPTURES

VARIABLES pattern,  \* the items of the pattern
          text      \* its text
vars == <<pattern, text>>

NUL == "NUL"
Chars == <<NUL, " ", "1", "2", "a", "b", "c">>   \* in the order of their codes
Code(c) == SelectInSeq(Chars, LAMBDA x : x = c)
At(q, i) == IF i \in DOMAIN q THEN q[i] ELSE NUL

-----------------------------------------------------------------------------
(* The matcher.  A position of 0 is NULL, one of -1 an error.               *)

NoMatch == 0
Error == -1
Unfinished == -1
Position == -2
\* The captures change as the matcher goes on and back.
State(src, pat) == [src |-> src, pat |-> pat, level |-> 0, cap |-> <<>>]
Got(ms, res) == [ms |-> ms, res |-> res]

RECURSIVE BracketEnd(_, _)
BracketEnd(p, i) ==
  LET j == IF At(p, i) = "%" /\ At(p, i + 1) # NUL THEN i + 2 ELSE i + 1
  IN CASE At(p, i) = NUL -> Error
       [] At(p, i) # NUL /\ At(p, j) = "]" -> j + 1
       [] OTHER -> BracketEnd(p, j)
ClassEnd(p, i) ==
  CASE At(p, i) = "%" -> IF At(p, i + 1) = NUL THEN Error ELSE i + 2
    [] At(p, i) = "[" -> BracketEnd(p, IF At(p, i + 1) = "^" THEN i + 2 ELSE i + 1)
    [] OTHER -> i + 1

Digits == {"1", "2"}
Letters == {"a", "b", "c"}
MatchClass(c, cl) ==
  CASE cl = "d" -> c \in Digits [] cl = "D" -> c \notin Digits
    [] cl = "a" -> c \in Letters [] cl = "A" -> c \notin Letters
    [] OTHER -> cl = c

RECURSIVE InClass(_, _, _, _)
InClass(c, p, i, ec) ==
  CASE i >= ec -> FALSE
    [] i < ec /\ p[i] = "%" -> MatchClass(c, At(p, i + 1)) \/ InClass(c, p, i + 2, ec)
    [] i < ec /\ p[i] # "%" /\ At(p, i + 1) = "-" /\ i + 2 < ec ->
         Code(c) \in Code(p[i]) .. Code(p[i + 2]) \/ InClass(c, p, i + 3, ec)
    [] OTHER -> p[i] = c \/ InClass(c, p, i + 1, ec)
MatchBracketClass(c, p, i, ec) ==
  IF At(p, i + 1) = "^" THEN ~InClass(c, p, i + 2, ec) ELSE InClass(c, p, i + 1, ec)

SingleMatch(c, p, i, ep) ==
  CASE p[i] = "." -> TRUE
    [] p[i] = "%" -> MatchClass(c, p[i + 1])
    [] p[i] = "[" -> MatchBracketClass(c, p, i, ep - 1)
    [] OTHER -> p[i] = c

RECURSIVE BalanceEnd(_, _, _, _, _)
BalanceEnd(src, s, b, e, cont) ==
  CASE s > Len(src) -> NoMatch
    [] s <= Len(src) /\ src[s] = e ->
         IF cont = 1 THEN s + 1 ELSE BalanceEnd(src, s + 1, b, e, cont - 1)
    [] OTHER -> BalanceEnd(src, s + 1, b, e, IF src[s] = b THEN cont + 1 ELSE cont)
MatchBalance(src, s, b, e) ==
  CASE b = NUL \/ e = NUL -> Error
    [] b # NUL /\ e # NUL /\ At(src, s) # b -> NoMatch
    [] OTHER -> BalanceEnd(src, s + 1, b, e, 1)

CheckCapture(ms, l) == IF l \in 1 .. ms.level /\ ms.cap[l].len # Unfinished THEN l ELSE Error
\* The innermost one that is open.
CaptureToClose(ms) ==
  LET open == {l \in 1 .. ms.level : ms.cap[l].len = Unfinished}
  IN IF open = {} THEN Error ELSE Max(open)

\* A length below zero is too long as the unsigned number it is taken for.
MatchCapture(ms, s, l) ==
  LET k == CheckCapture(ms, l)
      c == ms.cap[k]
  IN CASE k = Error -> Error
       [] k # Error /\ c.len >= 0 /\ c.len <= Len(ms.src) + 1 - s
            /\ SubSeq(ms.src, c.init, c.init + c.len - 1) = SubSeq(ms.src, s, s + c.len - 1) ->
            s + c.len
       [] OTHER -> NoMatch

RECURSIVE Match(_, _, _), MaxExpand(_, _, _, _, _), MinExpand(_, _, _, _)
MaxExpand_OneLess(ms, s, p, ep, i) ==   \* as if the item had to be there once
  IF i < 1 THEN Got(ms, NoMatch)
  ELSE LET r == Match(ms, s + i, ep + 1)
       IN IF r.res # NoMatch THEN r ELSE MaxExpand(r.ms, s, p, ep, i - 1)
MaxExpand(ms, s, p, ep, i) ==
  IF i < 0 THEN Got(ms, NoMatch)
  ELSE LET r == Match(ms, s + i, ep + 1)
       IN IF r.res # NoMatch THEN r ELSE MaxExpand(r.ms, s, p, ep, i - 1)
MinExpand(ms, s, p, ep) ==
  LET r == Match(ms, s, ep + 1)
  IN CASE r.res # NoMatch -> r
       [] r.res = NoMatch /\ s <= Len(ms.src) /\ SingleMatch(ms.src[s], ms.pat, p, ep) ->
            MinExpand(r.ms, s + 1, p, ep)
       [] OTHER -> r
\* How many characters from s on an item takes.
Expand(ms, s, p, ep) ==
  LET stop == {i \in 0 .. Len(ms.src) + 1 - s :
                 s + i > Len(ms.src) \/ ~SingleMatch(At(ms.src, s + i), ms.pat, p, ep)}
  IN Min(stop)

StartCapture(ms, s, p, what) ==
  LET c == [ms EXCEPT !.level = @ + 1,
                      !.cap = Append(SubSeq(@, 1, ms.level), [init |-> s, len |-> what])]
      r == Match(c, s, p)
  IN CASE ms.level >= MaxCaptures -> Got(ms, Error)
       [] ms.level < MaxCaptures /\ r.res = NoMatch -> [r EXCEPT !.ms.level = @ - 1]
       [] OTHER -> r
EndCapture(ms, s, p) ==
  LET l == CaptureToClose(ms)
      r == Match([ms EXCEPT !.cap[l].len = s - ms.cap[l].init], s, p)
  IN CASE l = Error -> Got(ms, Error)
       [] l # Error /\ r.res = NoMatch -> [r EXCEPT !.ms.cap[l].len = Unfinished]
       [] OTHER -> r

MatchItem(ms, s, p) ==
  LET ep == ClassEnd(ms.pat, p)
      rep == At(ms.pat, ep)
      m == s <= Len(ms.src) /\ SingleMatch(ms.src[s], ms.pat, p, ep)
      r == IF m THEN Match(ms, s + 1, ep + 1) ELSE Got(ms, NoMatch)
  IN CASE ep = Error -> Got(ms, Error)
       [] ep # Error /\ rep = "?" -> IF r.res # NoMatch THEN r ELSE Match(r.ms, s, ep + 1)
       [] ep # Error /\ rep = "*" -> MaxExpand(ms, s, p, ep, Expand(ms, s, p, ep))
       [] ep # Error /\ rep = "+" ->
            IF m THEN MaxExpand(ms, s + 1, p, ep, Expand(ms, s + 1, p, ep)) ELSE Got(ms, NoMatch)
       [] ep # Error /\ rep = "-" -> MinExpand(ms, s, p, ep)
       [] OTHER -> IF m THEN Match(ms, s + 1, ep) ELSE Got(ms, NoMatch)

Frontier(ms, s, p) ==
  LET ep == ClassEnd(ms.pat, p)
  IN CASE At(ms.pat, p) # "[" \/ ep = Error -> Got(ms, Error)
       [] At(ms.pat, p) = "[" /\ ep # Error
            /\ ~MatchBracketClass(At(ms.src, s - 1), ms.pat, p, ep - 1)
            /\ MatchBracketClass(At(ms.src, s), ms.pat, p, ep - 1) -> Match(ms, s, ep)
       [] OTHER -> Got(ms, NoMatch)

Match(ms, s, p) ==
  LET c == At(ms.pat, p)
      d == At(ms.pat, p + 1)
      from(q, next) == IF q \in {NoMatch, Error} THEN Got(ms, q) ELSE Match(ms, q, next)
  IN CASE c = "(" -> IF d = ")" THEN StartCapture(ms, s, p + 2, Position)
                     ELSE StartCapture(ms, s, p + 1, Unfinished)
       [] c = ")" -> EndCapture(ms, s, p + 1)
       [] c = "%" /\ d = "b" -> from(MatchBalance(ms.src, s, At(ms.pat, p + 2), At(ms.pat, p + 3)), p + 4)
       [] c = "%" /\ d = "f" -> Frontier(ms, s, p + 2)
       [] c = "%" /\ d \in Digits -> from(MatchCapture(ms, s, IF d = "1" THEN 1 ELSE 2), p + 2)
       [] c = NUL -> Got(ms, s)
       [] c = "$" /\ d = NUL -> Got(ms, IF s = Len(ms.src) + 1 THEN s ELSE NoMatch)
       [] OTHER -> MatchItem(ms, s, p)

-----------------------------------------------------------------------------
(* The functions of the library.                                            *)

\* push_captures: the whole match if there is no capture.
PushCaptures(r, s) ==
  IF r.ms.level = 0 THEN <<[init |-> s, len |-> r.res - s]>> ELSE SubSeq(r.ms.cap, 1, r.ms.level)
Found(s, r) ==
  LET caps == PushCaptures(r, s)
  IN [from |-> s, next |-> r.res, caps |-> caps,
      err |-> r.res = Error \/ \E i \in DOMAIN caps : caps[i].len = Unfinished]
Nothing == [from |-> 0, next |-> 0, caps |-> <<>>, err |-> FALSE]

RECURSIVE FindFrom(_, _, _, _)
FindFrom(src, pat, s, anchor) ==
  LET r == Match(State(src, pat), s, IF anchor THEN 2 ELSE 1)
  IN CASE r.res # NoMatch -> Found(s, r)
       [] r.res = NoMatch /\ s <= Len(src) /\ ~anchor -> FindFrom(src, pat, s + 1, anchor)
       [] OTHER -> Nothing

\* lmemfind looks for the first character, then compares the rest.
RECURSIVE MemFind(_, _, _)
MemFind(src, s, pat) ==
  LET last == Len(src) + 1 - Len(pat)
      firsts == {i \in s .. last : src[i] = pat[1]}
  IN CASE pat = <<>> -> s
       [] pat # <<>> /\ firsts = {} -> NoMatch
       [] OTHER -> LET i == Min(firsts)
                   IN IF SubSeq(src, i + 1, i + Len(pat) - 1) = Tail(pat) THEN i
                      ELSE MemFind(src, i + 1, pat)
Specials == {"^", "$", "*", "+", "?", ".", "(", "[", "%", "-"}

PosRelat(pos, len) == IF pos >= 0 THEN pos ELSE len + pos + 1
StrFind(src, pat, init) ==
  LET i == PosRelat(init, Len(src))
      s == CASE i < 1 -> 1 [] i > Len(src) + 1 -> Len(src) + 1 [] OTHER -> i
      plain == MemFind(src, s, pat)
  IN IF ToSet(pat) \cap Specials # {} THEN FindFrom(src, pat, s, At(pat, 1) = "^")
     ELSE IF plain = NoMatch THEN Nothing
     ELSE [Nothing EXCEPT !.from = plain, !.next = plain + Len(pat)]

\* After an empty match the search goes on one character further.
RECURSIVE GMatch(_, _, _)
GMatch_Stays(src, pat, s) ==   \* as if it went on where the match ended
  LET f == FindFrom(src, pat, s, FALSE)
  IN IF s > Len(src) + 1 \/ f = Nothing THEN <<>>
     ELSE <<f>> \o GMatch(src, pat, IF f.next = f.from THEN f.next + 2 ELSE f.next)
GMatch(src, pat, s) ==
  LET f == FindFrom(src, pat, s, FALSE)
  IN IF s > Len(src) + 1 \/ f = Nothing THEN <<>>
     ELSE <<f>> \o GMatch(src, pat, IF f.next = f.from THEN f.next + 1 ELSE f.next)

\* gsub, as the pieces it puts together: the matches, each to be replaced, and
\* what it copies.
Copied(from, next) == [Nothing EXCEPT !.from = from, !.next = next]
RECURSIVE GSubFrom(_, _, _, _, _)
GSubFrom(src, pat, s, max, n) ==
  LET anchor == At(pat, 1) = "^"
      r == Match(State(src, pat), s, IF anchor THEN 2 ELSE 1)
      piece == IF r.res = NoMatch THEN <<>> ELSE <<Found(s, r)>>
      n1 == n + Len(piece)
      rest(q) == IF anchor THEN <<Copied(q, Len(src) + 1)>> ELSE GSubFrom(src, pat, q, max, n1)
  IN CASE n >= max -> <<Copied(s, Len(src) + 1)>>
       [] n < max /\ r.res > s -> piece \o rest(r.res)
       [] n < max /\ r.res <= s /\ s <= Len(src) -> piece \o <<Copied(s, s + 1)>> \o rest(s + 1)
       [] OTHER -> piece
GSub(src, pat, max) == GSubFrom(src, pat, 1, max, 0)

StrSub(src, i, j) ==
  LET from == PosRelat(i, Len(src))
      to == PosRelat(j, Len(src))
  IN SubSeq(src, IF from < 1 THEN 1 ELSE from, IF to > Len(src) THEN Len(src) ELSE to)
\* The end is compared as an unsigned number.
StrByte(src, i, j) ==
  LET from == PosRelat(i, Len(src))
      to == PosRelat(j, Len(src))
  IN SubSeq(src, IF from <= 0 THEN 1 ELSE from, IF to < 0 \/ to > Len(src) THEN Len(src) ELSE to)

-----------------------------------------------------------------------------

(* The program puts a pattern together.                                     *)

Opens == {i \in DOMAIN pattern : pattern[i].kind \in {"open", "pos"}}
Nth(l) == CHOOSE i \in Opens : Cardinality({j \in Opens : j <= i}) = l
Depth(i, j) == Cardinality({k \in i .. j : pattern[k].kind = "open"})
               - Cardinality({k \in i .. j : pattern[k].kind = "close"})
CloseOf(i) == Min({j \in i .. Len(pattern) : Depth(i, j) = 0})
\* What it has so far can become a pattern.
Sensible ==
  /\ \A j \in DOMAIN pattern : Depth(1, j) >= 0
  /\ Cardinality(Opens) <= MaxCaptures
  /\ \A i \in DOMAIN pattern :
       /\ pattern[i].kind = "end" => i = Len(pattern)
       /\ pattern[i].kind = "open" /\ i < Len(pattern) => pattern[i + 1].kind # "close"
       /\ pattern[i].kind = "back" =>
            \E o, c \in 1 .. i - 1 : o \in Opens /\ Nth(pattern[i].arg) = o /\ c >= o /\ Depth(o, c) = 0
WellFormed == Sensible /\ Depth(1, Len(pattern)) = 0

Init == pattern = <<>> /\ text = <<>>
AddItem(item) == /\ Len(pattern) < MaxItems
                 /\ pattern' = Append(pattern, item)
                 /\ text' = text \o item.text
                 /\ Sensible'
\* It uses the pattern, and starts with another one.
Use == WellFormed /\ pattern # <<>> /\ pattern' = <<>> /\ text' = <<>>
Next == Use \/ \E i \in DOMAIN Items : AddItem(Items[i])
Spec == Init /\ [][Next]_vars

-----------------------------------------------------------------------------
(* What a pattern means: each of its items takes some characters.           *)

Total(w) == FoldLeft(+, 0, w)
\* A capture, by the characters that the items take.
Capture(s, w, l) ==
  LET i == Nth(l)
      before(k) == Total(SubSeq(w, 1, k - 1))
  IN [init |-> s + before(i),
      len |-> IF pattern[i].kind = "pos" THEN Position ELSE before(CloseOf(i)) - before(i)]

Times(rep) == CASE rep = "1" -> {1} [] rep = "?" -> {0, 1} [] rep = "+" -> Nat \ {0} [] OTHER -> Nat
Balanced(q, b, e) ==
  LET depth(k) == Cardinality({j \in 1 .. k : q[j] = b}) - Cardinality({j \in 1 .. k : q[j] = e})
  IN /\ Len(q) > 0 /\ q[1] = b /\ depth(Len(q)) = 0
     /\ \A k \in 1 .. Len(q) - 1 : depth(k) > 0
\* The numbers of characters that the next item can take after those of w.
Widths(src, s, w) ==
  LET item == pattern[Len(w) + 1]
      q == s + Total(w)
      takes(n) == SubSeq(src, q, q + n - 1)
      all == 0 .. Len(src) + 1 - q
      cap == Capture(s, w, item.arg)
  IN CASE item.kind = "set" -> {n \in all : n \in Times(item.rep) /\ ToSet(takes(n)) \subseteq item.set}
       [] item.kind \in {"open", "close", "pos"} -> {0}
       [] item.kind = "end" -> {n \in {0} : q = Len(src) + 1}
       [] item.kind = "frontier" -> {n \in {0} : At(src, q - 1) \notin item.set /\ At(src, q) \in item.set}
       [] item.kind = "balance" -> {n \in all : Balanced(takes(n), "a", "b")}
       [] item.kind = "back" ->
            {n \in all : n = cap.len /\ takes(n) = SubSeq(src, cap.init, cap.init + cap.len - 1)}

RECURSIVE Ways(_, _, _)
Ways(src, s, w) ==
  IF Len(w) = Len(pattern) THEN {w}
  ELSE UNION {Ways(src, s, Append(w, n)) : n \in Widths(src, s, w)}
\* The best way: each item in turn takes as many as it can, "-" as few.
Better(v, w) ==
  \E k \in DOMAIN v : /\ SubSeq(v, 1, k - 1) = SubSeq(w, 1, k - 1)
                      /\ IF pattern[k].rep = "-" THEN v[k] < w[k] ELSE v[k] > w[k]
BestAt(s, ways) ==
  LET w == CHOOSE v \in ways : \A x \in ways \ {v} : Better(v, x)
      caps == [l \in 1 .. Cardinality(Opens) |-> Capture(s, w, l)]
      next == s + Total(w)
  IN [from |-> s, next |-> next, err |-> FALSE,
      caps |-> IF caps = <<>> THEN <<[init |-> s, len |-> next - s]>> ELSE caps]
\* The first match from each place on.
FirstMatches(src) ==
  LET ways == [s \in 1 .. Len(src) + 1 |-> Ways(src, s, <<>>)]
      starts == {s \in DOMAIN ways : ways[s] # {}}
      best == [s \in starts |-> BestAt(s, ways[s])]
  IN [init \in 1 .. Len(src) + 2 |->
        IF \E s \in starts : s >= init THEN best[Min({s \in starts : s >= init})] ELSE Nothing]

\* The place that an initial position stands for.
Place(init, len) == CASE init > len + 1 -> len + 1
                      [] init < -len \/ init = 0 -> 1
                      [] init < 0 /\ init >= -len -> len + 1 + init
                      [] OTHER -> init
\* The matcher finds the first match, an anchored pattern matches at the start
\* only, and find takes negative positions from the end; a pattern without
\* special characters is found alike by the plain search.
FindsFirst(src, first) ==
  /\ FindFrom(src, text, 1, FALSE) = first[1]
  /\ FindFrom(src, <<"^">> \o text, 1, TRUE) = IF first[1].from = 1 THEN first[1] ELSE Nothing
  /\ \A init \in -Len(src) - 1 .. Len(src) + 2 :
       LET f == StrFind(src, text, init)
           m == first[Place(init, Len(src))]
       IN f.from = m.from /\ f.next = m.next

\* gmatch and gsub meet the same matches, and put back they give the subject.
ScansAgree(src, first) ==
  LET all == GMatch(src, text, 1)
      back(b) == FlattenSeq([i \in DOMAIN b |-> SubSeq(src, b[i].from, b[i].next - 1)])
      after(f) == IF f.next = f.from THEN f.next + 1 ELSE f.next
  IN /\ \A max \in 0 .. Len(src) + 1 :
          LET b == GSub(src, text, max)
          IN /\ back(b) = src
             /\ SelectSeq(b, LAMBDA x : x.caps # <<>>) = SubSeq(all, 1, Min({max, Len(all)}))
     /\ \A i \in DOMAIN all : all[i] = first[IF i = 1 THEN 1 ELSE after(all[i - 1])]

\* byte takes an end before the first character for the last one.
RangesAgree(src) ==
  LET chars(i, j) == {k \in DOMAIN src : PosRelat(i, Len(src)) <= k /\ k <= PosRelat(j, Len(src))}
  IN \A i, j \in -Len(src) - 2 .. Len(src) + 2 :
       /\ StrSub(src, i, j) = IF chars(i, j) = {} THEN <<>>
                              ELSE SubSeq(src, Min(chars(i, j)), Max(chars(i, j)))
       /\ StrByte(src, i, j) = IF j < -Len(src) - 1 THEN StrSub(src, i, -1) ELSE StrSub(src, i, j)

\* A well-formed pattern never raises an error; its first match starts as early
\* as possible, and its items take as many characters as they can in turn, or
\* as few, with the captures that go with it, whatever the matcher tried and
\* undid on the way; gmatch and gsub with any limit meet the same matches, each
\* once, and lose nothing of the subject (match, str_find_aux, gmatch_aux,
\* str_gsub, str_sub and str_byte in lstrlib.c).
MatchIs ==
  \A src \in Subjects :
    LET first == FirstMatches(src)
    IN /\ FindsFirst(src, first)
       /\ ScansAgree(src, first)
       /\ Len(pattern) <= 1 => RangesAgree(src)
=============================================================================
