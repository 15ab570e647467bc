------------------------------ MODULE Coroutines ------------------------------
(***************************************************************************)
(* What coroutines are to a program.  Control is one stack of marks: a     *)
(* protected call, or the entry into a coroutine by resume or by the       *)
(* function that wrap made.  A coroutine that yields takes nothing along   *)
(* but itself; an error goes to the nearest mark that catches it, and every *)
(* coroutine it leaves on the way is dead.                                  *)
(***************************************************************************)
EXTENDS Integers, SequencesExt, FiniteSetsExt

CONSTANTS Cos, Values, MaxCalls

VARIABLES marks,  \* records [k, t]: what was entered, by which of the kinds
          state,  \* of each coroutine
          heard   \* what each thread was last told: [ok, v]
vars == <<marks, state, heard>>

Main == 0
CurOf(ms) == LET in == SelectSeq(ms, LAMBDA m : m.k # "pcall")
             IN IF in = <<>> THEN Main ELSE Last(in).t
Tell(t, ok, v) == heard' = [heard EXCEPT ![t] = [ok |-> ok, v |-> v]]

Init == /\ marks = <<>>
        /\ state = [c \in Cos |-> "none"]
        /\ heard = [t \in Cos \cup {Main} |-> [ok |-> TRUE, v |-> ""]]

Create(c) == /\ state[c] = "none"
             /\ state' = [state EXCEPT ![c] = "suspended"]
             /\ UNCHANGED <<marks, heard>>
Call == /\ Len(marks) < MaxCalls
        /\ marks' = Append(marks, [k |-> "pcall", t |-> Main])
        /\ UNCHANGED <<state, heard>>
Return(v) == /\ marks # <<>> /\ Last(marks).k = "pcall"
             /\ marks' = Front(marks)
             /\ Tell(CurOf(marks), TRUE, v)
             /\ UNCHANGED state

\* The marks that an error leaves.
Catches(m) == m.k \in {"pcall", "resume"}
Fail(v) ==
  LET by == {n \in DOMAIN marks : Catches(marks[n])}
      n == IF by = {} THEN 1 ELSE Max(by)
      left == {marks[m].t : m \in n .. Len(marks)} \ {Main}
      rest == SubSeq(marks, 1, n - 1)
  IN /\ marks' = rest
     /\ state' = [c \in Cos |-> IF c \in left THEN "dead" ELSE state[c]]
     /\ Tell(CurOf(rest), FALSE, v)

Resume(c, k, v) ==
  /\ state[c] # "none"
  /\ IF state[c] = "suspended"
     THEN /\ marks' = Append(marks, [k |-> k, t |-> c])
          /\ state' = [state EXCEPT ![c] = "active"]
          /\ Tell(c, TRUE, v)
     ELSE IF k = "wrap" THEN Fail("refused")
     ELSE Tell(CurOf(marks), FALSE, "refused") /\ UNCHANGED <<marks, state>>
Leave(v, s) == /\ marks' = Front(marks)
               /\ state' = [state EXCEPT ![CurOf(marks)] = s]
               /\ Tell(CurOf(Front(marks)), TRUE, v)
InCo == marks # <<>> /\ Last(marks).k # "pcall"
Finish(v) == InCo /\ Leave(v, "dead")
Yield(v) == IF InCo THEN Leave(v, "suspended") ELSE Fail("boundary")

Next == \/ \E c \in Cos : Create(c)
        \/ Call
        \/ \E v \in Values : Return(v) \/ Fail(v) \/ Finish(v) \/ Yield(v)
        \/ \E c \in Cos, k \in {"resume", "wrap"}, v \in Values : Resume(c, k, v)
Spec == Init /\ [][Next]_vars
=============================================================================
