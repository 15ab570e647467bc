---------------------------- MODULE MCLuaRuntime ----------------------------
(***************************************************************************)
(* The collector on small heaps; beside it the table (LuaTable), the       *)
(* pattern matcher (LuaMatch), the coroutines (LuaCoroutine) and pieces of *)
(* the libraries (LuaLib) of Lua.                                          *)
(***************************************************************************)
EXTENDS LuaGC

CONSTANTS Keys, MaxArray, MaxBits,
          Items, Subjects, MaxItems, MaxCaptures,
          Cos, Values, MaxCalls,
          Ranks, MaxLen, MaxLoose, MaxRounds, BufferSize, Limit, MaxText, Referents, MaxRefs

VARIABLES
  part,
  table, present, trav,
  pattern, text,
  th, run, heard, ok,
  which, call, buf, reg

hash  == <<table, present, trav>>
match == <<pattern, text>>
co    == <<th, run, heard, ok>>
lib   == <<which, call, buf, reg>>

\* Two tables and a new one; userdata, closures and their upvalues; weak tables
\* of each kind; finalizers; a variable shared between threads.
S(k, live, meta, what) ==
  [kind |-> <<"thread", "table">> \o k, live |-> live, meta |-> meta, ops |-> what]
MCShapes ==
  {S(<<"table", "table", "table">>, <<3, 4>>, {}, {"new", "store", "fetch"}),
   S(<<"table", "udata", "fun", "upval">>, <<3, 4>>, {}, {"closure", "env", "meta", "new"}),
   S(<<"weakk", "table", "udata", "str">>, <<4, 5>>, {4}, {"node", "string"}),
   S(<<"weakkv", "table", "table">>, <<4, 5>>, {4}, {"node"}),
   S(<<"weakkv", "table", "str">>, <<4, 5>>, {4}, {"node", "store"}),
   S(<<"gc", "udata", "udata">>, <<3, 4, 5>>, {4, 5}, {"meta", "new", "store"}),
   S(<<"thread", "fun", "upval", "table">>, <<3, 6>>, {}, {"closure", "upvalue", "return", "pass"})}

Tb == INSTANCE LuaTable
MCKeys == {[t |-> k[1], n |-> k[2], dead |-> FALSE] :
             k \in {<<"num", 1>>, <<"num", 2>>, <<"num", 3>>, <<"obj", 2>>, <<"str", 1>>}}

Mt == INSTANCE LuaMatch
Set(q, s, r) ==
  [text |-> IF r = "1" THEN q ELSE Append(q, r), kind |-> "set", set |-> s, rep |-> r, arg |-> 0]
Item(q, k, s, n) == [text |-> q, kind |-> k, set |-> s, rep |-> "1", arg |-> n]
MCItems ==
  <<Set(<<"a">>, {"a"}, "1"), Set(<<".">>, {"1", "a", "b"}, "-"), Set(<<"b">>, {"b"}, "?"),
    Set(<<"[", "^", "a", "]">>, {"1", "b"}, "+"),
    Set(<<"[", "%", "d", "b", "-", "c", "]">>, {"1", "2", "b", "c"}, "*"),
    Item(<<"(">>, "open", {}, 0), Item(<<")">>, "close", {}, 0), Item(<<"(", ")">>, "pos", {}, 0),
    Item(<<"%", "1">>, "back", {}, 1), Item(<<"%", "b", "a", "b">>, "balance", {}, 0),
    Item(<<"%", "f", "[", "%", "a", "]">>, "frontier", {"a", "b", "c"}, 0),
    Item(<<"$">>, "end", {}, 0)>>
MCSubjects ==
  {<<>>, <<"a", "a", "b", "b">>, <<"1", "a", "b", "a", "b">>}

Co == INSTANCE LuaCoroutine
Lb == INSTANCE LuaLib

\* The parts that are not looked at stay in one state.
MCInit ==
  /\ part \in {"gc", "hash", "match", "co", "lib"}
  /\ Init /\ (part = "gc" \/ (Len(kind) = 5 /\ "fetch" \in ops))
  /\ Tb!Init /\ Mt!Init /\ Co!Init
  /\ Lb!Init /\ (part = "lib" \/ which = "refs")

MCNext ==
  /\ part' = part
  /\ \/ part = "gc" /\ Next /\ UNCHANGED <<hash, match, co, lib>>
     \/ part = "hash" /\ Tb!Next /\ UNCHANGED <<vars, match, co, lib>>
     \/ part = "match" /\ Mt!Next /\ UNCHANGED <<vars, hash, co, lib>>
     \/ part = "co" /\ Co!Next /\ UNCHANGED <<vars, hash, match, lib>>
     \/ part = "lib" /\ Lb!Next /\ UNCHANGED <<vars, hash, match, co>>

MCSpec == MCInit /\ [][MCNext]_<<vars, hash, match, co, lib, part>>

\* The collector frees nothing in use and a full collection keeps nothing else
\* (lgc.c; see HeapSound and CollectsRight); a table gives back what was stored
\* in it, and a traversal meets it once (ltable.c; see TableIs); a buffer keeps
\* the text and a reference its value (lauxlib.c; see BufferKeepsText and
\* RefsHold).
MCMemoryRight == /\ part = "gc" => HeapSound /\ CollectsRight
                 /\ part = "hash" => Tb!TableIs
                 /\ part = "lib" => Lb!BufferKeepsText /\ Lb!RefsHold

\* Every pattern that is used matches as its items mean (lstrlib.c; see
\* MatchIs), every array that is sorted ends so, and insertion and removal shift
\* it right (ltablib.c; see SortIs and ShiftsRight).
MCLibraryRight ==
  [][/\ part = "match" /\ Mt!Use => Mt!MatchIs
     /\ part = "lib" /\ Lb!Sorted => Lb!SortIs /\ Lb!ShiftsRight]_<<match, lib>>

\* Every step of the coroutines is one that coroutines can take (ldo.c and
\* lbaselib.c; see ActsAsMeant).
MCCoroutines == [][part = "co" => Co!ActsAsMeant]_co
=============================================================================
