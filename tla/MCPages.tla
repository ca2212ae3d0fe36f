------------------------------ MODULE MCPages ------------------------------
(* A fork: one of two longer branches replaces block a.  x is mined in a   *)
(* and on one of them, at another height: a reorganisation may leave it    *)
(* mined in another block, return it to the mempool or drop it.            *)
EXTENDS Pages, TLC

CONSTANTS g, a, b, b2, b3, x

MCBranches == { <<g, a>>, <<g, b, b2>>, <<g, b, b3>> }
MCTxsOf == [k \in {g, a, b, b2, b3} |-> IF k \in {a, b2} THEN {x} ELSE {}]
MCParents == [k \in {x} |-> {}]

(* Tabs enter only by equality. *)
Symmetry == Permutations(Tabs)
=============================================================================
