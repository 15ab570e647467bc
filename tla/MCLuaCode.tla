----------------------------- MODULE MCLuaCode -----------------------------
(* Compiles and runs the programs of LuaPrograms with small limits, and    *)
(* compares what they do with what they mean.                              *)
EXTENDS LuaParser, LuaVM, LuaChunk

CONSTANT MeaningOf(_)   \* what a program means

T == INSTANCE LuaPrograms

Trees == T!Trees \o T!Faulty
Wrong == T!Wrong
MCFaulty == LET n == Len(Trees) IN n - 2 .. n
MCPrograms == (1 .. Len(Trees) + Len(Wrong)) \ MCFaulty
TextOf(g) == IF g <= Len(Trees) THEN T!Words(Trees[g]) ELSE Wrong[g - Len(Trees)]
MCChunkOf(g) == LET words == TextOf(g) IN Parse(words)
MCMeaningOf(g) == LET tree == Trees[g] IN T!Meaning(tree)

\* A program does what it means: it makes the calls its text says, in that
\* order and with those values, and returns or fails as it should; a text that
\* is no program is refused (lcode.c, lparser.c and lvm.c together).
RunsAsMeant ==
  LET want == MeaningOf(prog)
  IN CASE status = "done" -> /\ prog \in DOMAIN Trees /\ ~want.failed
                             /\ log = want.log
                             /\ [k \in 1 .. top - 1 |-> Shown(stack[k])] = want.v
       [] status = "failed" -> /\ prog \in DOMAIN Trees /\ want.failed
                               /\ log = want.log /\ <<Shown(err)>> = want.v
       [] status = "text" -> TRUE
       [] status = "refused" -> prog \notin DOMAIN Trees
       [] OTHER -> prog \in DOMAIN Trees /\ steps < MaxSteps

\* What the parser asserts when it has closed a function (close_func,
\* lparser.c:363): the code checker accepts it, and no assertion of the
\* generator failed on the way.
CheckerAccepts ==
  [][(steps = 0 /\ status = "running")
        => chunk.asserts /\ \A pt \in AllProtos(chunk.main) : CheckCode(pt)]_vars

\* Every function the compiler makes (of the shorter programs)
\* survives being dumped and loaded, and a stream that is not whole is refused
\* (ldump.c, lundump.c and lzio.c; see ChunkIs in LuaChunk).
ChunksLoad ==
  [][(steps = 1 /\ Len(chunk.main.code) <= 60) => ChunkIs(chunk.main)]_vars

\* What luaV_execute asserts of the stack before every instruction
\* (lvm.c:391): the top is the frame's own, except before an instruction that
\* uses an open list of values; and the values above it belong to nobody: no
\* variable that a closure still shares is there.
TopIsRight ==
  Executing => /\ Base <= top /\ top <= StackSize
               /\ top = Frame.top \/ TakesOpen(i)
               /\ \A n \in DOMAIN upvals : upvals[n].open => upvals[n].idx < Frame.top
               /\ \A n, m \in DOMAIN upvals :
                    upvals[n].open /\ upvals[m].open /\ upvals[n].idx = upvals[m].idx => n = m
=============================================================================
