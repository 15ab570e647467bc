------------------------------- MODULE Timer -------------------------------
(***************************************************************************)
(* The second timers of timer.c and timer.h: timers wait in lists by how   *)
(* far off they are, a list is looked at when its cached minimum comes     *)
(* near, and the callbacks of the timers that are due are called while the *)
(* nearest list is walked.  A callback may itself add, move and remove     *)
(* timers, so each timer visited by the walk is a step and each callback   *)
(* is two, with the client's calls in between.                             *)
(*                                                                         *)
(* A definition with an underscore in its name is a faulty variant of the  *)
(* one that follows it; none is used by the specification.                 *)
(***************************************************************************)
EXTENDS Integers, Sequences, SequencesExt, FiniteSets, FiniteSetsExt

CONSTANTS
  Timers,     (* addresses the allocator returns for timers               *)
  Heads,      (* the clients' lists of timers (timer_list)                *)
  Funcs,      (* addresses of callbacks                                   *)
  Types,      (* timer types registered in tcfs; empty: no add_event_ex   *)
  Null,       (* the null pointer, also the head that ends a walk         *)
  TopList,    (* TIMER_VEC_SIZE - 1                                       *)
  Shift,      (* list i holds what is at most 2^(i + Shift) s off; 2 in the code *)
  Delays,     (* how far off clients set timers                           *)
  PlainAdd,   (* clients call add_event, not only add_event_ex            *)
  ModNext,    (* a callback may move the timer the walk visits next       *)
  MaxJump,    (* bound: seconds between two calls of renew_now            *)
  MaxTime     (* bound: the clock                                         *)

ASSUME TimerAssumption ==
  /\ Null \notin Timers \cup Funcs
  /\ Types \subseteq Nat \ {0}
  /\ TopList \in Nat \ {0} /\ Shift \in Nat
  /\ Delays \subseteq Nat
  /\ PlainAdd \in BOOLEAN /\ ModNext \in BOOLEAN
  /\ MaxJump \in Nat /\ MaxTime \in Nat \ {0}

Lists == 0..TopList

Span(i) == 2^(i + Shift)

\* A fact about powers of two, of which the prover knows none.
ASSUME SpanAssumption == \A i \in Lists : Span(i) \in Nat \ {0}

VARIABLES
  now, last,                    (* the clock as renew_now left it; handle_timer's last *)
  vec, min,                     (* vec[i].head and vec[i].min_expiring_time *)
  sprite,                       (* sprite[h]: the client's list h          *)
  alive,                        (* the timers that are allocated           *)
  expire, function, func_indx,  (* the fields of a timer                   *)
  tcfs,                         (* the registered callbacks                *)
  pc, cur, next, idx,           (* where handle_timer is: see At           *)
  \* History: the timers whose client still counts on them; the timers called,
  \* set or removed since handle_timer took up the last second; whether seconds
  \* went by before that one; whether the callbacks were unloaded and the timers
  \* not yet refreshed.
  held, served, jumped, stale

timers == <<vec, min, sprite, alive, expire, function, func_indx, held, served>>
clock  == <<now, last, jumped>>
walk   == <<pc, cur, next, idx>>
types  == <<tcfs, stale>>
vars   == <<timers, clock, walk, types>>

\* handle_timer is not running, walks vec[0], has called a callback, or looks
\* at list idx.
At == {"idle", "visit", "callback", "lists"}

Init ==
  /\ now = 1 /\ last = 0 /\ jumped = FALSE
  /\ vec = [i \in Lists |-> << >>] /\ min = [i \in Lists |-> 0]
  /\ sprite = [h \in Heads |-> << >>]
  /\ alive = {} /\ held = {} /\ served = {}
  /\ expire = [t \in Timers |-> 0]
  /\ function = [t \in Timers |-> Null]
  /\ func_indx = [t \in Timers |-> 0]
  /\ tcfs = [x \in Types |-> Null] /\ stale = FALSE
  /\ pc = "idle" /\ cur = Null /\ next = Null /\ idx = 0

---------------------------------------------------------------------------
\* The members of S in s, in the order of s: SelectSeq without its recursion,
\* which no proof can follow.
Keep(s, S) ==
  LET places == {n \in DOMAIN s : s[n] \in S}
      nth(k) == CHOOSE n \in places : Cardinality({m \in places : m <= n}) = k
  IN  [k \in 1..Cardinality(places) |-> s[nth(k)]]

\* s without the timers in S.
Less(s, S) == Keep(s, Timers \ S)

\* The list for a timer diff seconds off, looking no further than list m.
ListFor(diff, m) == Min({i \in 0..m : i = m \/ diff <= Span(i)})

Lowest(S) == IF S = {} THEN 0 ELSE Min(S)

SetMin(e, i) ==
  min' = [min EXCEPT ![i] = IF e < @ \/ @ = 0 THEN e ELSE @]

\* The timer the walk goes to from t: the one after it in the list it is in.
\* A walk that has strayed into another list does not meet its end: it passes
\* over that list's head as if it were a timer.
Succ(t) ==
  LET i == CHOOSE j \in Lists : Contains(vec[j], t)
      n == CHOOSE k \in DOMAIN vec[i] : vec[i][k] = t
  IN  IF n < Len(vec[i]) THEN vec[i][n + 1]
      ELSE IF i = 0 THEN Null ELSE vec[i][1]

\* do_remove_timer(t, 1) of the timers in S, less what it does to vec.
Free_KeepsSprite(S) ==
  /\ alive' = alive \ S
  /\ held' = held \ S
  /\ UNCHANGED sprite
  /\ function' = [t \in Timers |-> IF t \in S THEN Null ELSE function[t]]
  /\ func_indx' = [t \in Timers |-> IF t \in S THEN 0 ELSE func_indx[t]]
  /\ expire' = [t \in Timers |-> IF t \in S THEN 0 ELSE expire[t]]
  /\ served' = served \ S

Free(S) ==
  /\ alive' = alive \ S
  /\ held' = held \ S
  /\ sprite' = [h \in Heads |-> Less(sprite[h], S)]
  /\ function' = [t \in Timers |-> IF t \in S THEN Null ELSE function[t]]
  /\ func_indx' = [t \in Timers |-> IF t \in S THEN 0 ELSE func_indx[t]]
  /\ expire' = [t \in Timers |-> IF t \in S THEN 0 ELSE expire[t]]
  /\ served' = served \ S

---------------------------------------------------------------------------
(* The client's calls, from its own code or from a callback. *)

ClientRuns == pc \in {"idle", "callback"}

\* timer.h forbids a callback to move the timer it was called for.
MayMove(t) ==
  /\ t \in held
  /\ pc = "callback" => t # cur /\ (ModNext \/ t # next)

NewTimer_NoIndex(h, f, x, e) ==
  \E t \in Timers \ alive :
    /\ alive' = alive \cup {t} /\ held' = held \cup {t}
    /\ function' = [function EXCEPT ![t] = f]
    /\ UNCHANGED func_indx
    /\ expire' = [expire EXCEPT ![t] = e]
    /\ served' = served \cup {t}
    /\ sprite' = [sprite EXCEPT ![h] = Append(@, t)]
    /\ LET i == ListFor(e - now, TopList) IN
         /\ vec' = [vec EXCEPT ![i] = Append(@, t)]
         /\ SetMin(e, i)

NewTimer(h, f, x, e) ==
  \E t \in Timers \ alive :
    /\ alive' = alive \cup {t} /\ held' = held \cup {t}
    /\ function' = [function EXCEPT ![t] = f]
    /\ func_indx' = [func_indx EXCEPT ![t] = x]
    /\ expire' = [expire EXCEPT ![t] = e]
    /\ served' = served \cup {t}
    /\ sprite' = [sprite EXCEPT ![h] = Append(@, t)]
    /\ LET i == ListFor(e - now, TopList) IN
         /\ vec' = [vec EXCEPT ![i] = Append(@, t)]
         /\ SetMin(e, i)

\* mod_expire_time: the timer goes to the end of the list for its new time.
Move_KeepsMin(t, e) ==
  LET i == ListFor(e - now, TopList) IN
    /\ vec' = [j \in Lists |-> Less(vec[j], {t}) \o (IF j = i THEN <<t>> ELSE << >>)]
    /\ UNCHANGED min
    /\ expire' = [expire EXCEPT ![t] = e]
    /\ served' = served \cup {t}

Move(t, e) ==
  LET i == ListFor(e - now, TopList) IN
    /\ vec' = [j \in Lists |-> Less(vec[j], {t}) \o (IF j = i THEN <<t>> ELSE << >>)]
    /\ SetMin(e, i)
    /\ expire' = [expire EXCEPT ![t] = e]
    /\ served' = served \cup {t}

ModExpireTime(t, e) ==
  /\ ClientRuns /\ MayMove(t)
  /\ expire[t] # 0
  /\ Move(t, e)
  /\ UNCHANGED <<sprite, alive, function, func_indx, held, clock, walk, types>>

\* find_event: the timers of list h with callback f, the first one first.
Found(h, f) == Keep(sprite[h], {t \in Timers : function[t] = f})

\* add_event, and add_event_ex for the type x # 0 whose callback is f.
AddEvent(h, f, x, e, flag) ==
  /\ ClientRuns
  /\ \/ /\ flag = "new" \/ Found(h, f) = << >>
        /\ NewTimer(h, f, x, e)
     \/ /\ flag = "replace" /\ Found(h, f) # << >>
        /\ LET t == Head(Found(h, f)) IN
             /\ MayMove(t)
             /\ Move(t, e)
             /\ func_indx' = [func_indx EXCEPT ![t] = IF x = 0 THEN @ ELSE x]
        /\ UNCHANGED <<sprite, alive, function, held>>
  /\ UNCHANGED <<clock, walk, types>>

\* A timer of type 0 has any callback, one of another type that of its type.
Kinds == Types \cup (IF PlainAdd THEN {0} ELSE {})

Add ==
  \E h \in Heads, d \in Delays, flag \in {"new", "replace"}, f \in Funcs, x \in Kinds :
    /\ x # 0 => f = tcfs[x]
    /\ AddEvent(h, f, x, now + d, flag)

\* do_remove_timer(t, 0) of the timers in S: they stay in vec until a walk or
\* a scan meets them.
Forget_KeepsIndex(S) ==
  /\ sprite' = [h \in Heads |-> Less(sprite[h], S)]
  /\ function' = [t \in Timers |-> IF t \in S THEN Null ELSE function[t]]
  /\ UNCHANGED func_indx
  /\ held' = held \ S
  /\ served' = served \cup S
  /\ UNCHANGED <<vec, min, alive, expire, clock, walk, types>>

Forget_Frees(S) ==
  /\ Free(S)
  /\ vec' = [i \in Lists |-> Less(vec[i], S)]
  /\ UNCHANGED <<min, clock, walk, types>>

Forget(S) ==
  /\ sprite' = [h \in Heads |-> Less(sprite[h], S)]
  /\ function' = [t \in Timers |-> IF t \in S THEN Null ELSE function[t]]
  /\ func_indx' = [t \in Timers |-> IF t \in S THEN 0 ELSE func_indx[t]]
  /\ held' = held \ S
  /\ served' = served \cup S
  /\ UNCHANGED <<vec, min, alive, expire, clock, walk, types>>

RemoveTimer(t) == ClientRuns /\ t \in held /\ Forget({t})

RemoveTimers(h) == ClientRuns /\ sprite[h] # << >> /\ Forget(ToSet(sprite[h]))

DestroyTimer ==
  /\ pc = "idle" /\ alive # {}
  /\ Free(alive)
  /\ vec' = [i \in Lists |-> << >>]
  /\ UNCHANGED <<min, clock, walk, types>>

RegisterTimerCallback(x, f) ==
  /\ ClientRuns
  /\ tcfs[x] = Null
  /\ tcfs' = [tcfs EXCEPT ![x] = f]
  /\ UNCHANGED <<timers, clock, walk, stale>>

\* The callbacks are unloaded, to be loaded at other addresses.
UnregisterTimersCallback ==
  /\ pc = "idle"
  /\ \E x \in Types : tcfs[x] # Null
  /\ tcfs' = [x \in Types |-> Null] /\ stale' = TRUE
  /\ UNCHANGED <<timers, clock, walk>>

\* The client has registered every type again that its timers use.
RefreshTimersCallback ==
  /\ pc = "idle" /\ stale
  /\ \A t \in held : func_indx[t] # 0 => tcfs[func_indx[t]] # Null
  /\ function' = [t \in Timers |->
       IF t \notin alive THEN function[t]
       ELSE IF func_indx[t] = 0 THEN Null ELSE tcfs[func_indx[t]]]
  /\ stale' = FALSE
  /\ UNCHANGED <<vec, min, sprite, alive, expire, func_indx, held, served,
                 clock, walk, tcfs>>

RenewNow ==
  /\ ClientRuns
  /\ \E d \in 1..MaxJump : now + d <= MaxTime /\ now' = now + d
  /\ UNCHANGED <<timers, last, jumped, walk, types>>

---------------------------------------------------------------------------
(* handle_timer. *)

\* The walk goes on at t, or is over and the other lists come.
GoTo(t) ==
  /\ cur' = t
  /\ IF t = Null THEN pc' = "lists" /\ idx' = 1 ELSE pc' = "visit" /\ idx' = 0

IsDue_Strict(t) == expire[t] < now
IsDue(t) == expire[t] <= now

\* What becomes of a walk that has come to a freed timer is not modelled.
AtTimer == pc = "visit" /\ cur \in alive

\* renew_now, and the seconds are handled if the second is a new one.
HandleTimer ==
  /\ pc = "idle" /\ ~stale
  /\ \E d \in 0..MaxJump :
       /\ now + d <= MaxTime /\ now + d # last
       /\ now' = now + d /\ last' = now + d
       /\ jumped' = (now + d > last + 1)
  /\ served' = {}
  /\ GoTo(IF vec[0] = << >> THEN Null ELSE vec[0][1])
  /\ UNCHANGED <<vec, min, sprite, alive, expire, function, func_indx, held, next, types>>

VisitRemoved_KeepsEntry ==
  /\ AtTimer /\ function[cur] = Null
  /\ Free({cur})
  /\ GoTo(Succ(cur))
  /\ UNCHANGED <<vec, min, next, clock, types>>

VisitRemoved ==
  /\ AtTimer /\ function[cur] = Null
  /\ Free({cur})
  /\ vec' = [i \in Lists |-> Less(vec[i], {cur})]
  /\ GoTo(Succ(cur))
  /\ UNCHANGED <<min, next, clock, types>>

VisitEarly ==
  /\ AtTimer /\ function[cur] # Null
  /\ ~IsDue(cur)
  /\ GoTo(Succ(cur))
  /\ UNCHANGED <<timers, next, clock, types>>

CallTimer ==
  /\ AtTimer /\ function[cur] # Null
  /\ IsDue(cur)
  /\ pc' = "callback" /\ next' = Succ(cur)
  /\ served' = served \cup {cur}
  /\ UNCHANGED <<vec, min, sprite, alive, expire, function, func_indx, held,
                 cur, idx, clock, types>>

\* A callback that returns 0 asks for its timer to be removed.
CallbackReturns_Again ==
  /\ pc = "callback"
  /\ \/ /\ Free({cur})
        /\ vec' = [i \in Lists |-> Less(vec[i], {cur})]
        /\ UNCHANGED min
        /\ GoTo(IF vec'[0] = << >> THEN Null ELSE vec'[0][1])
     \/ UNCHANGED timers /\ GoTo(vec[0][1])
  /\ next' = Null
  /\ UNCHANGED <<clock, types>>

CallbackReturns ==
  /\ pc = "callback"
  /\ \/ /\ Free({cur})
        /\ vec' = [i \in Lists |-> Less(vec[i], {cur})]
        /\ UNCHANGED min
     \/ UNCHANGED timers
  /\ GoTo(next) /\ next' = Null
  /\ UNCHANGED <<clock, types>>

\* scan_timer_list: what is no longer so far off goes to the nearer lists.
ScanTimerList ==
  LET i == idx
      live(t) == function[t] # Null
      goes(t) == ListFor(expire[t] - now, i)
      to(j) == Keep(vec[i], {t \in Timers : live(t) /\ goes(t) = j})
      times(j) == {expire[t] : t \in ToSet(to(j))}
  IN
  /\ pc = "lists" /\ min[i] - now < 2
  /\ vec' = [j \in Lists |-> IF j = i THEN to(i) ELSE IF j < i THEN vec[j] \o to(j) ELSE vec[j]]
  /\ min' = [j \in Lists |->
       IF j = i THEN Lowest(times(i))
       ELSE IF j < i THEN Lowest(times(j) \cup ({min[j]} \ {0}))
       ELSE min[j]]
  /\ Free({t \in ToSet(vec[i]) : ~live(t)})

SkipTimerList ==
  /\ pc = "lists" /\ min[idx] - now >= 2
  /\ UNCHANGED timers

NextList ==
  /\ ScanTimerList \/ SkipTimerList
  /\ IF idx = TopList THEN pc' = "idle" /\ idx' = 0 ELSE pc' = "lists" /\ idx' = idx + 1
  /\ UNCHANGED <<cur, next, clock, types>>

Client ==
  \/ Add
  \/ \E t \in Timers : RemoveTimer(t) \/ \E d \in Delays : ModExpireTime(t, now + d)
  \/ \E h \in Heads : RemoveTimers(h)
  \/ DestroyTimer
  \/ \E x \in Types, f \in Funcs : RegisterTimerCallback(x, f)
  \/ UnregisterTimersCallback \/ RefreshTimersCallback
  \/ RenewNow

Walk == VisitRemoved \/ VisitEarly \/ CallTimer \/ CallbackReturns \/ NextList

Next == Client \/ HandleTimer \/ Walk

Spec == Init /\ [][Next]_vars

\* handle_timer runs on once it is called, and callbacks return.
FairSpec == Spec /\ WF_vars(Walk)

---------------------------------------------------------------------------
(* Properties. *)

TypeOK ==
  /\ now \in 1..MaxTime /\ last \in 0..now /\ jumped \in BOOLEAN
  /\ vec \in [Lists -> Seq(alive)] /\ sprite \in [Heads -> Seq(alive)]
  /\ min \in [Lists -> Nat]
  /\ held \subseteq alive /\ served \subseteq alive /\ alive \subseteq Timers
  /\ expire \in [Timers -> Nat]
  /\ function \in [Timers -> Funcs \cup {Null}]
  /\ func_indx \in [Timers -> Types \cup {0}]
  /\ tcfs \in [Types -> Funcs \cup {Null}] /\ stale \in BOOLEAN
  /\ pc \in At /\ {cur, next} \subseteq Timers \cup {Null} /\ idx \in Lists

\* Every allocated timer is linked into exactly one list, once, and no pointer
\* of a list leads to a timer that was freed; a timer is in a client's list for
\* as long as the client has not removed it.
Linked ==
  /\ \A i \in Lists : IsInjective(vec[i])
  /\ \A t \in alive : \E i \in Lists :
       Contains(vec[i], t) /\ \A j \in Lists \ {i} : ~Contains(vec[j], t)
  /\ \A i \in Lists : ToSet(vec[i]) \subseteq alive
  /\ \A h \in Heads : ToSet(sprite[h]) \subseteq alive
  /\ \A t \in held : \E h \in Heads : Contains(sprite[h], t)

\* The timer the walk stands at and the one it saved as the next are allocated
\* and in the list it walks.
CursorSafe ==
  /\ pc = "visit" => Contains(vec[0], cur)
  /\ pc = "callback" => next = Null \/ Contains(vec[0], next)

\* Whatever callbacks add, move and remove, the lists lead to allocated timers
\* only, each of them in one place, and so does the walk (list.h, timer.c:143).
ListsSound == TypeOK /\ Linked /\ CursorSafe

\* When the timers of a second have been handled, each one due by then was
\* called in this second, or freed if it had been removed, unless it was set or
\* removed only while they were handled.  If seconds went by without
\* handle_timer, one that is late is at least in the list walked next time.
OnTime ==
  pc = "idle" /\ last = now =>
    \A t \in alive :
      expire[t] <= now => t \in served \/ (jumped /\ Contains(vec[0], t))

\* A callback is called only for a timer its client still holds: never after
\* REMOVE_TIMER, remove_timers or a return of 0, a reload in between included.
OnlyHeldCalled == [][CallTimer => cur \in held]_vars

\* A timer that was neither removed nor returned 0 will still be called: a
\* reload of the callbacks updates the timers that are running (timer.c:314), and
\* none keeps the address its callback had before.
HeldIsLive ==
  \A t \in held :
    /\ function[t] # Null
    /\ ~stale /\ func_indx[t] # 0 => function[t] = tcfs[func_indx[t]]

\* handle_timer ends, whatever its callbacks add and move, as long as no timer
\* is set to the current second.
ScanEnds == pc # "idle" ~> pc = "idle"
=============================================================================
