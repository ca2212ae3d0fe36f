------------------------------ MODULE MCTxView ------------------------------
(* x is mined in block a or b2 of a fork, y spends its first output from   *)
(* the mempool or in a later block, nothing spends the second, the third   *)
(* holds data.                                                             *)
EXTENDS TxView

CONSTANTS g, a, a2, b, b2, b3, y

MCBranches == { <<g, a, a2>>, <<g, b, b2, b3>> }
MCTxsOf == [k \in {g, a, a2, b, b2, b3} |->
              IF k \in {a, b2} THEN {x} ELSE IF k \in {a2, b3} THEN {y} ELSE {}]
MCParents == [k \in {x, y} |-> IF k = y THEN {x} ELSE {}]
MCSpender == [i \in 1..3 |-> IF i = 1 THEN {y} ELSE {}]
=============================================================================
