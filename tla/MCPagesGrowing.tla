--------------------------- MODULE MCPagesGrowing ---------------------------
(* A chain that grows and never reorganises: x is mined in block a, and a2 *)
(* is the block after it.  A cached answer can only get old here.          *)
EXTENDS Pages

CONSTANTS g, a, a2, x

MCBranches == { <<g, a, a2>> }
MCTxsOf == [k \in {g, a, a2} |-> IF k = a THEN {x} ELSE {}]
MCParents == [k \in {x} |-> {}]
=============================================================================
