------------------------------- MODULE MCAcsm -------------------------------
(***************************************************************************)
(* Acsm with small dictionaries and texts.                                 *)
(***************************************************************************)
EXTENDS Acsm

N(c) == [ch |-> c, wide |-> FALSE]
W(c) == [ch |-> c, wide |-> TRUE]

\* Words that begin, end or lie within one another, of one and of two kinds of
\* signs, one of them written with wide signs and punctuation.
MCLines == {<<N("b")>>, <<N("a"), N("b"), N("a")>>, <<W("a"), N("+"), N("a"), N("b")>>,
            <<N("h"), N("k")>>, <<N("h"), N("1")>>, <<N("h"), N("k"), N("h"), N("k")>>, <<N("+")>>}

MCTexts == SeqOf({N("a"), N("b"), W("b"), N("h"), N("k"), N("+")}, 3)
             \cup SeqOf({N("a"), N("b"), W("b")}, 4)
             \cup SeqOf({N("b"), N("<"), N(">")}, 4)
             \cup {<<N("a"), x, N("b"), y, W("a")>> : <<x, y>> \in {N("+"), W("+"), N("h"), W("b")}
                                                            \X {N("+"), N("1"), W("b")}}
             \cup {<<N("h"), N("a"), N("1")>>, <<N("h"), N("a"), W("1"), N("+")>>}
=============================================================================
