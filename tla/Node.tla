-------------------------------- MODULE Node --------------------------------
(***************************************************************************)
(* Bitcoin Core as the pages see it (external to the repository): an       *)
(* active chain that grows and reorganises, a mempool, an optional         *)
(* transaction index, and what the RPCs answer of them.  Heights count     *)
(* from 1 here.                                                            *)
(***************************************************************************)
EXTENDS Integers, Sequences, Functions

CONSTANTS
  Branches,   \* the maximal chains, sequences of blocks
  Txs,        \* transactions
  TxsOf,      \* block |-> its transactions
  Parents,    \* transaction |-> the transactions of Txs that it spends
  NoBlock     \* no block hash

Blocks == DOMAIN TxsOf

ASSUME NoBlockAssumption == NoBlock \notin Blocks

(* A block names its predecessor, so it has one height. *)
ASSUME BranchesAssumption ==
  /\ \A b \in Branches : b \in Seq(Blocks) /\ Len(b) > 0
  /\ \A b, c \in Branches : \A i \in DOMAIN b, j \in DOMAIN c :
       b[i] = c[j] => i = j

VARIABLES
  chain,     \* the active chain
  pool,      \* transactions in the mempool
  indexed,   \* tx |-> the last block that was connected with it
  known,     \* blocks connected so far
  txindex    \* the node runs with txindex; constant

nodeVars == <<chain, pool, indexed, known, txindex>>

Chains   == UNION { { SubSeq(b, 1, n) : n \in 1..Len(b) } : b \in Branches }
Mined(c) == UNION { TxsOf[c[i]] : i \in DOMAIN c }
BlockOf(c, x) == CHOOSE b \in Range(c) : x \in TxsOf[b]

(* The mempools a node can have on chain c: no orphans.                    *)
Pools(c) == { p \in SUBSET (Txs \ Mined(c)) :
                \A y \in p : Parents[y] \subseteq p \union Mined(c) }

Depth(b) == IF b \in Range(chain)
            THEN 1 + Len(chain) - CHOOSE i \in DOMAIN chain : chain[i] = b
            ELSE 0
-----------------------------------------------------------------------------
NodeInit ==
  /\ chain \in { c \in Chains : Len(c) = 1 }
  /\ pool \in Pools(chain)
  /\ indexed = [x \in Txs |-> IF x \in Mined(chain) THEN BlockOf(chain, x)
                              ELSE NoBlock]
  /\ known = Range(chain)
  /\ txindex \in BOOLEAN

(* A longer chain becomes active; transactions of blocks that were         *)
(* disconnected return to the mempool or are dropped.                      *)
NewTip ==
  /\ \E c \in Chains : Len(c) > Len(chain) /\ chain' = c
  /\ pool' \in Pools(chain')
  /\ indexed' = [x \in Txs |-> IF x \in Mined(chain') THEN BlockOf(chain', x)
                               ELSE indexed[x]]
  /\ known' = known \union Range(chain')
  /\ UNCHANGED txindex

(* Transactions reach the mempool or leave it. *)
Relay ==
  /\ pool' \in Pools(chain)
  /\ UNCHANGED <<chain, indexed, known, txindex>>
-----------------------------------------------------------------------------
(* What the RPCs answer; there is an answer only where there is an object. *)

Block(b) ==       \* getblock; -1 confirmations off the active chain
  [block |-> b,
   conf  |-> IF Depth(b) > 0 THEN Depth(b) ELSE -1,
   next  |-> IF Depth(b) > 1 THEN chain[2 + Len(chain) - Depth(b)] ELSE NoBlock]

Header(b) ==      \* getblock, as far as a row of the overview shows it
  LET c == CHOOSE c \in Branches : b \in Range(c)
  IN  [block |-> b, height |-> CHOOSE h \in DOMAIN c : c[h] = b]

Stats(b) == [block |-> b]   \* getblockstats

FoundTx(x) == x \in pool \/ (txindex /\ indexed[x] # NoBlock)

Tx(x) ==          \* getrawtransaction: the mempool, then the index
  IF x \in pool THEN [block |-> NoBlock, conf |-> 0]
  ELSE [block |-> indexed[x], conf |-> Depth(indexed[x])]
=============================================================================
