---------------------------- MODULE MCAttrTable ----------------------------
(* AttrTable with two rows: every key goes to the one node of the first row  *)
(* that is used; the second row keeps some of them apart.                    *)
EXTENDS AttrTable

CONSTANTS p1, p2

MCMods == <<1, 2>>
MCNodesNum == <<2, 2>>
MCShort ==
  [k \in Attrs \X Procs |-> 2 * k[1] + (IF k[2] = p1 THEN 0 ELSE 1)]
=============================================================================
