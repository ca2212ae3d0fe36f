----------------------------- MODULE MCOverview -----------------------------
(* Three rows.  A chain that starts with the genesis block alone, grows    *)
(* past the length of the list, and is reorganised to the other branch and *)
(* back, up to three blocks deep, while the list is read.                  *)
EXTENDS Overview

CONSTANTS g, a, b, q, q2, d, e, f, h

MCBranches == { <<g, a, b, d, f, h>>, <<g, a, q, q2, e>> }
MCTxsOf == [k \in {g, a, b, q, q2, d, e, f, h} |-> {}]
MCParents == [k \in {} |-> {}]
=============================================================================
