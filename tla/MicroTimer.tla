---------------------------- MODULE MicroTimer ----------------------------
(***************************************************************************)
(* The microsecond timers of timer.c and timer.h: one list, walked at      *)
(* every call of handle_timer; a timer that is removed is marked, and      *)
(* freed by the walk.  The callback of a timer is two steps, with the      *)
(* client's calls in between.                                              *)
(*                                                                         *)
(* A definition with an underscore in its name is a faulty variant of the  *)
(* one that follows it; none is used by the specification.                 *)
(***************************************************************************)
EXTENDS Integers, Sequences, SequencesExt

CONSTANTS
  Timers,           (* addresses the allocator returns for timers          *)
  Owners,
  Types,            (* registered types; a timer of add_micro_event has 0  *)
  Delays,
  Null,             (* no function, and the head of the list               *)
  MaxTime, MaxAdds

VARIABLES
  now,
  list,             (* micro_timer                                         *)
  timer,            (* the timers: tv, owner, function, func_indx          *)
  tcfs,             (* the registered callback of each type, 0 for none    *)
  walk,             (* the scan: what it visits, what comes next (l, p)    *)
  adds,
  \* History.
  due,              (* timers the scan has to call                         *)
  removed           (* timers their owner has removed                      *)

vars == <<now, list, timer, tcfs, walk, adds, due, removed>>

Idle == [pc |-> "idle"]

Free == [tv |-> -1, owner |-> Null, func |-> Null, idx |-> 0]

Init ==
  /\ now = 0 /\ list = <<>> /\ timer = [t \in Timers |-> Free]
  /\ tcfs = [i \in Types |-> 1] /\ walk = Idle /\ adds = MaxAdds
  /\ due = {} /\ removed = {}

At(t, l) == CHOOSE i \in 1..Len(l) : l[i] = t

\* list_for_each_safe: the timer to visit and the one after it.
Onto(t, l) ==
  IF t = Null THEN Idle
  ELSE LET i == At(t, l)
       IN [pc |-> "visit", t |-> t, next |-> IF i = Len(l) THEN Null ELSE l[i + 1]]

First == IF list = <<>> THEN Null ELSE list[1]

---------------------------------------------------------------------------
(* The client, outside the walk or from a callback. *)
MayCall == walk.pc \in {"idle", "called"}

\* add_micro_event (i = 0, any function), add_micro_event_ex.
Add(t, o, d, i) ==
  /\ MayCall /\ adds > 0 /\ adds' = adds - 1
  /\ timer[t] = Free
  /\ timer' = [timer EXCEPT ![t] = [tv |-> now + d, owner |-> o, idx |-> i,
                                    func |-> IF i = 0 THEN 1 ELSE tcfs[i]]]
  /\ list' = Append(list, t)
  /\ removed' = removed \ {t}
  /\ UNCHANGED <<now, tcfs, walk, due>>

Marked_KeepsIndex(t) == [timer[t] EXCEPT !.func = Null]
Marked(t) == [timer[t] EXCEPT !.func = Null, !.idx = 0]

\* remove_micro_timer(t, 0) of the timers in S: the walk frees them.
Forget_Frees(S) ==
  /\ timer' = [t \in Timers |-> IF t \in S THEN Free ELSE timer[t]]
  /\ list' = SelectSeq(list, LAMBDA t : t \notin S)
  /\ removed' = removed \ S
  /\ due' = due \ S
  /\ UNCHANGED <<now, tcfs, walk, adds>>

Forget(S) ==
  /\ timer' = [t \in Timers |-> IF t \in S THEN Marked(t) ELSE timer[t]]
  /\ removed' = removed \cup S
  /\ due' = due \ S
  /\ UNCHANGED <<now, list, tcfs, walk, adds>>

\* REMOVE_MICRO_TIMER: a timer that has been called and is to be freed is gone for
\* its client.
RemoveMicroTimer(t) ==
  MayCall /\ timer[t] # Free /\ t \notin removed /\ Forget({t})

RemoveMicroTimers(o) ==
  LET of == {t \in Timers : timer[t].owner = o} IN
    MayCall /\ of # {} /\ Forget(of)

\* The text is loaded again: callbacks are unregistered, registered anew (some
\* types may no longer be), and refresh_timers_callback gives every timer that of
\* its type.  A timer of add_micro_event has none: it is dropped.
Reload(kept) ==
  /\ walk = Idle
  /\ tcfs' = [i \in Types |-> IF i \in kept THEN 1 ELSE Null]
  /\ timer' = [t \in Timers |->
                 IF timer[t] = Free THEN Free
                 ELSE [timer[t] EXCEPT !.func = IF timer[t].idx = 0 THEN Null ELSE tcfs'[timer[t].idx]]]
  /\ UNCHANGED <<now, list, walk, adds, due, removed>>

---------------------------------------------------------------------------
(* scan_microseconds_timer, from handle_timer. *)

IsDue(t) == now > timer[t].tv

HandleTimer(time) ==
  /\ walk = Idle
  /\ now' = time
  /\ due' = {t \in {list[i] : i \in 1..Len(list)} : timer[t].func # Null /\ time > timer[t].tv}
  /\ walk' = Onto(First, list)
  /\ UNCHANGED <<list, timer, tcfs, adds, removed>>

\* remove_micro_timer with freed.
Freed(t) ==
  /\ list' = RemoveAt(list, At(t, list))
  /\ timer' = [timer EXCEPT ![t] = Free]
  /\ removed' = removed \ {t}

VisitRemoved ==
  /\ walk.pc = "visit" /\ timer[walk.t].func = Null
  /\ Freed(walk.t)
  /\ walk' = Onto(walk.next, list')
  /\ UNCHANGED <<now, tcfs, adds, due>>

VisitEarly ==
  /\ walk.pc = "visit" /\ timer[walk.t].func # Null /\ ~IsDue(walk.t)
  /\ walk' = Onto(walk.next, list)
  /\ UNCHANGED <<now, list, timer, tcfs, adds, due, removed>>

CallMicro ==
  /\ walk.pc = "visit" /\ timer[walk.t].func # Null /\ IsDue(walk.t)
  /\ walk' = [walk EXCEPT !.pc = "called"]
  /\ due' = due \ {walk.t}
  /\ UNCHANGED <<now, list, timer, tcfs, adds, removed>>

\* The callback returns: 0 frees its timer, even one it has removed itself.
CallReturns(again) ==
  /\ walk.pc = "called"
  /\ IF again THEN UNCHANGED <<list, timer, removed>> ELSE Freed(walk.t)
  /\ walk' = Onto(walk.next, list')
  /\ UNCHANGED <<now, tcfs, adds, due>>

\* destroy_timer, at the end of the program.
Destroy ==
  /\ walk = Idle
  /\ list' = <<>> /\ timer' = [t \in Timers |-> Free] /\ removed' = {} /\ due' = {}
  /\ UNCHANGED <<now, tcfs, walk, adds>>

Next ==
  \/ \E t \in Timers, o \in Owners, d \in Delays, i \in {0} \cup {j \in Types : tcfs[j] # Null} :
       Add(t, o, d, i)
  \/ \E t \in Timers : RemoveMicroTimer(t)
  \/ \E o \in Owners : RemoveMicroTimers(o)
  \/ \E kept \in SUBSET Types : Reload(kept)
  \/ \E time \in now..MaxTime : HandleTimer(time)
  \/ VisitRemoved \/ VisitEarly \/ CallMicro
  \/ \E again \in BOOLEAN : CallReturns(again)
  \/ Destroy

Spec == Init /\ [][Next]_vars

---------------------------------------------------------------------------
\* Whatever its callbacks add and remove, the walk of the microsecond timers
\* stands on allocated timers only and comes to every timer that was due when it
\* began and was not removed, which it calls once; a timer its client removed is
\* not called again, a reload of the callbacks before the walk frees it included.
MicroSound ==
  /\ IsInjective(list)
  /\ ToSet(list) = {t \in Timers : timer[t] # Free}
  /\ walk # Idle => {walk.t, walk.next} \subseteq ToSet(list) \cup {Null}
  /\ walk.pc = "called" => walk.t \notin due
  /\ walk = Idle => due = {}
  /\ \A t \in removed : timer[t].func = Null
=============================================================================
