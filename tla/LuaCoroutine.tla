----------------------------- MODULE LuaCoroutine -----------------------------
(***************************************************************************)
(* Coroutines as Lua 5.1 has them (lua_resume and lua_yield in ldo.c, the  *)
(* coroutine library in lbaselib.c): each is a thread with a stack and a   *)
(* list of calls of its own, and whether it may be resumed is read off its *)
(* status byte, the number of its calls and the height of its stack.       *)
(*                                                                         *)
(* The stack of a thread is what lua_gettop sees: the arguments or results *)
(* of a C function in it, or of the thread itself.  A call is a record     *)
(* [k, t]: its kind, and the thread that a call of resume waits for.       *)
(***************************************************************************)
EXTENDS Integers, SequencesExt, FiniteSetsExt

CONSTANTS Cos,       \* coroutines
          Values,    \* what the program hands over
          MaxCalls   \* protected calls and coroutines entered at a time

VARIABLES th,     \* of each thread: status, ci, ncalls (nCcalls), stack, and saved:
                  \* nCcalls as its protected calls found it
          run,    \* the threads that run or wait for one they resumed
          heard,  \* what each thread was last given: [ok, v]
          ok      \* no assertion has failed
vars == <<th, run, heard, ok>>

Main == 0
Threads == Cos \cup {Main}
L == Last(run)
CI(k, t) == [k |-> k, t |-> t]

\* A thread before it is made; the main one runs inside the host's call.
NoThread == [status |-> "none", ci |-> <<>>, ncalls |-> 0, stack |-> <<>>, saved |-> <<>>]
Init ==
  /\ th = [t \in Threads |->
             IF t = Main THEN [NoThread EXCEPT !.status = "ok", !.ci = <<CI("lua", 0)>>, !.ncalls = 1]
             ELSE NoThread]
  /\ run = <<Main>> /\ ok = TRUE
  /\ heard = [t \in Threads |-> [ok |-> TRUE, v |-> ""]]

\* luaB_cocreate: the function is on the new thread's stack.
Create(c) ==
  /\ th[c].status = "none"
  /\ th' = [th EXCEPT ![c].status = "ok", ![c].stack = <<"function">>]
  /\ UNCHANGED <<run, heard, ok>>

Told(t, o, v) == heard' = [heard EXCEPT ![t] = [ok |-> o, v |-> v]]
\* The calls that wait for what they called.
RECURSIVE MarksOf(_)
MarksOf(r) == IF r = <<>> THEN <<>>
              ELSE SelectSeq(th[Head(r)].ci, LAMBDA x : x.k \in {"pcall", "resume", "wrap"}) \o MarksOf(Tail(r))
Marks == MarksOf(run)

\* luaB_pcall and luaD_call: one more C call.
PCall ==
  /\ Len(Marks) < MaxCalls
  /\ th' = [th EXCEPT ![L].ci = @ \o <<CI("pcall", 0), CI("lua", 0)>>,
                      ![L].ncalls = @ + 1, ![L].saved = Append(@, th[L].ncalls)]
  /\ UNCHANGED <<run, heard, ok>>
Return(v) ==
  /\ Len(th[L].ci) > 1 /\ th[L].ci[Len(th[L].ci) - 1].k = "pcall"
  /\ th' = [th EXCEPT ![L].ci = SubSeq(@, 1, Len(@) - 2), ![L].ncalls = @ - 1, ![L].saved = Front(@)]
  /\ Told(L, TRUE, v)
  /\ UNCHANGED <<run, ok>>

-----------------------------------------------------------------------------

\* luaD_throw: to the pcall of the thread, or out of lua_resume, which leaves
\* the thread dead; resume gives the message to its caller, wrap throws it on.
RECURSIVE Thrown(_, _)
Thrown(g, r) ==
  LET t == Last(r)
      x == g[t]
      by == {n \in DOMAIN x.ci : x.ci[n].k = "pcall"}
      dead == [g EXCEPT ![t].status = "error"]
      over == Front(r)
      up == Last(over)
      waits == Last(g[up].ci)
      popped == [dead EXCEPT ![up].ci = Front(@), ![up].stack = <<>>]
  IN CASE by # {} -> [g |-> [g EXCEPT ![t].ci = SubSeq(@, 1, Max(by) - 1), ![t].ncalls = Last(x.saved),
                                      ![t].saved = Front(@),
                                      ![t].stack = <<>>], r |-> r]
       [] by = {} /\ t = Main ->
            [g |-> [g EXCEPT ![t].ci = <<CI("lua", 0)>>, ![t].stack = <<>>], r |-> r]
       [] by = {} /\ t # Main /\ waits.k = "resume" -> [g |-> popped, r |-> over]
       [] OTHER -> Thrown(popped, over)
Throw(g, v) ==
  LET x == Thrown(g, run)
  IN /\ th' = x.g /\ run' = x.r
     /\ Told(Last(x.r), FALSE, v)
Raise(v) == Throw(th, v) /\ UNCHANGED ok

\* resume_error cuts the stack of the thread that cannot be resumed.
ResumeError(g, c) == [g EXCEPT ![c].stack = <<>>]
Refuse(g, c, k) ==
  IF k = "wrap" THEN Throw(ResumeError(g, c), "refused")
  ELSE th' = ResumeError(g, c) /\ Told(L, FALSE, "refused") /\ UNCHANGED run

\* auxresume and lua_resume.
CannotResume_AnyThread(c) == th[c].stack = <<>> /\ th[c].status = "ok"   \* as if only that was looked at
CannotResume(c) ==
  \/ th[c].status = "ok" /\ th[c].stack = <<>> /\ c # L
  \/ th[c].status \notin {"yield", "ok"}
  \/ th[c].status = "ok" /\ (th[c].ci # <<>> \/ c = L)
Resume(c, k, v) ==
  /\ th[c].status # "none"
  /\ IF CannotResume(c) THEN Refuse(th, c, k) /\ UNCHANGED ok
     ELSE LET x == th[c]
              moved == Append(x.stack, v)   \* lua_xmove of the argument
          IN /\ Len(Marks) < MaxCalls
             /\ ok' = (ok /\ x.ncalls = 0
                       /\ x.status = "yield" => x.ci # <<>> /\ Last(x.ci).k = "yield")
             /\ th' = [th EXCEPT ![L].ci = Append(@, CI(k, c)), ![L].stack = <<"thread">>,
                         ![c].status = "ok", ![c].stack = <<>>,
                         ![c].ci = IF x.status = "yield" THEN Front(@) ELSE <<CI("lua", 0)>>]
             /\ run' = Append(run, c)
             /\ Told(c, TRUE, Last(moved))

\* The end of lua_resume in auxresume: what is on the thread's stack moves to
\* the one that resumed it.
Back(g, v) ==
  LET up == run[Len(run) - 1]
  IN /\ th' = [g EXCEPT ![up].ci = Front(@), ![up].stack = <<>>, ![L].stack = <<>>]
     /\ run' = Front(run)
     /\ Told(up, TRUE, v)
     /\ UNCHANGED ok

Finish(v) ==
  /\ L # Main /\ Len(th[L].ci) = 1
  /\ Back([th EXCEPT ![L].ci = <<>>], v)
\* lua_yield: not across a C call.
CanYield_Always == L # Main   \* as if a C function could be left and entered again
CanYield == th[L].ncalls = 0
Yield(v) ==
  IF CanYield
  THEN Back([th EXCEPT ![L].status = "yield", ![L].ci = Append(@, CI("yield", 0))], v)
  ELSE Throw(th, "boundary") /\ UNCHANGED ok

\* luaB_costatus
CoStatus(c) ==
  CASE th[c].status = "none" -> "none"
    [] c = L -> "running"
    [] c # L /\ th[c].status = "yield" -> "suspended"
    [] c # L /\ th[c].status = "ok" ->
         IF th[c].ci # <<>> THEN "normal" ELSE IF th[c].stack = <<>> THEN "dead" ELSE "suspended"
    [] OTHER -> "dead"

Next == \/ \E c \in Cos : Create(c)
        \/ PCall
        \/ \E v \in Values : Return(v) \/ Raise(v) \/ Finish(v) \/ Yield(v)
        \/ \E c \in Cos, k \in {"resume", "wrap"}, v \in Values : Resume(c, k, v)
Spec == Init /\ [][Next]_vars

-----------------------------------------------------------------------------

Meant == INSTANCE Coroutines WITH
  marks <- Marks, heard <- heard,
  state <- [c \in Cos |-> IF CoStatus(c) \in {"running", "normal"} THEN "active" ELSE CoStatus(c)]

\* Every step is one of asymmetric coroutines: only a suspended one is resumed,
\* it gets what it was resumed with, yielding and ending give their value to
\* the one that resumed it last, nobody yields across a C call, an error comes
\* out where it is caught and leaves the coroutines in between dead, and
\* coroutine.status says what each of them is; what lua_resume asserts holds
\* (lua_resume, lua_yield, auxresume, luaB_costatus).
ActsAsMeant == Meant!Next /\ ok'
=============================================================================
