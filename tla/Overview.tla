------------------------------ MODULE Overview ------------------------------
(***************************************************************************)
(* The overview page (internal/explorer/overview.go): one call for the     *)
(* tip, then the hashes of the Rows - 1 blocks below it, each with a call  *)
(* of its own, then the Rows blocks, each with a call of its own.  Nothing *)
(* of it is cached and requests share nothing, so there is one request at  *)
(* a time here, against a chain that moves between any two of its calls.   *)
(* How an errgroup reports the first error is in FanOut; here a group ends *)
(* when all its parts have, in an error if one of them failed.             *)
(***************************************************************************)
EXTENDS Node

CONSTANT Rows    \* latest_blocks

ASSUME RowsAssumption == Rows \in Nat \ {0}

Row == 0..(Rows - 1)

VARIABLES
  at,       \* where BuildOverview is
  tip,      \* Blocks of getblockchaininfo
  hashes,   \* hashes[i], NoBlock until it is known
  part,     \* what the call for each row has come to
  blocks,   \* blocks[i], NoBlock until it is decoded
  page,     \* the page of the tab
  seen,     \* history: the active chains since the tip was read
  broke     \* history: a call failed on its own account

reqVars == <<at, tip, hashes, part, blocks, page>>
vars == <<nodeVars, reqVars, seen, broke>>

Blank == [kind |-> "blank"]
ErrorPage == [kind |-> "error"]

NoHashes == [i \in Row |-> NoBlock]
NoBlocks == [i \in Row |-> [block |-> NoBlock, height |-> 0]]

Init ==
  /\ NodeInit
  /\ at = "idle" /\ tip = 0
  /\ hashes = NoHashes /\ part = [i \in Row |-> "idle"] /\ blocks = NoBlocks
  /\ page = Blank
  /\ seen = {} /\ broke = FALSE

(* A tab opens the overview. *)
Open ==
  /\ at = "idle"
  /\ at' = "info" /\ tip' = 0
  /\ hashes' = NoHashes /\ part' = [i \in Row |-> "idle"] /\ blocks' = NoBlocks
  /\ page' = Blank
  /\ seen' = {} /\ broke' = FALSE
  /\ UNCHANGED nodeVars
-----------------------------------------------------------------------------
Answer(p) == at' = "idle" /\ page' = p

(* getblockchaininfo: the tip and its height, of one instant. *)
Info ==
  /\ at = "info"
  /\ at' = "hashes"
  /\ tip' = Len(chain)
  /\ hashes' = [NoHashes EXCEPT ![0] = chain[Len(chain)]]
  /\ part' = [i \in Row |-> IF i = 0 THEN "ok" ELSE "call"]
  /\ seen' = {chain}
  /\ UNCHANGED <<nodeVars, blocks, page, broke>>

InfoFails ==
  /\ at = "info"
  /\ Answer(ErrorPage)
  /\ broke' = TRUE
  /\ UNCHANGED <<nodeVars, tip, hashes, part, blocks, seen>>

(* Slip: one block further down. *)
HeightOneOff(i) == tip - i - 1

HeightOf(i) == tip - i

(* getblockhash, which fails outside of the chain. *)
HashAnswered(i) ==
  /\ at = "hashes" /\ part[i] = "call"
  /\ IF HeightOf(i) \in DOMAIN chain
     THEN /\ hashes' = [hashes EXCEPT ![i] = chain[HeightOf(i)]]
          /\ part' = [part EXCEPT ![i] = "ok"]
     ELSE /\ part' = [part EXCEPT ![i] = "failed"]
          /\ UNCHANGED hashes
  /\ UNCHANGED <<nodeVars, at, tip, blocks, page, seen, broke>>

(* Slip: the hash that was asked for last, not the one of the row. *)
AskedLast(i) == hashes[Rows - 1]

Asked(i) == hashes[i]

(* getblock, verbosity 1. *)
BlockAnswered(i) ==
  /\ at = "blocks" /\ part[i] = "call" /\ Asked(i) \in known
  /\ blocks' = [blocks EXCEPT ![i] = Header(Asked(i))]
  /\ part' = [part EXCEPT ![i] = "ok"]
  /\ UNCHANGED <<nodeVars, at, tip, hashes, page, seen, broke>>

(* A call of either group fails on its own account (node, credentials,     *)
(* timeout, pruned block, decoding), or the browser went away.             *)
CallFails(i) ==
  /\ at \in {"hashes", "blocks"} /\ part[i] = "call"
  /\ part' = [part EXCEPT ![i] = "failed"]
  /\ broke' = TRUE
  /\ UNCHANGED <<nodeVars, at, tip, hashes, blocks, page, seen>>

(* A call is cancelled by the failure of another one of its group. *)
CallCancelled(i) ==
  /\ at \in {"hashes", "blocks"} /\ part[i] = "call"
  /\ \E k \in Row : part[k] = "failed"
  /\ part' = [part EXCEPT ![i] = "cancelled"]
  /\ UNCHANGED <<nodeVars, at, tip, hashes, blocks, page, seen, broke>>

Ended == \A i \in Row : part[i] # "call"
AllOk == \A i \in Row : part[i] = "ok"

(* Slip: the calls that failed are made again. *)
WaitHashesRetrying ==
  /\ at = "hashes" /\ Ended
  /\ IF AllOk
     THEN at' = "blocks" /\ part' = [i \in Row |-> "call"]
     ELSE /\ part' = [i \in Row |-> IF part[i] = "ok" THEN "ok" ELSE "call"]
          /\ UNCHANGED at
  /\ UNCHANGED <<nodeVars, tip, hashes, blocks, page, seen, broke>>

(* g1.Wait. *)
WaitHashes ==
  /\ at = "hashes" /\ Ended
  /\ IF AllOk
     THEN at' = "blocks" /\ part' = [i \in Row |-> "call"] /\ UNCHANGED page
     ELSE Answer(ErrorPage) /\ UNCHANGED part
  /\ UNCHANGED <<nodeVars, tip, hashes, blocks, seen, broke>>

OverviewPage ==
  [kind |-> "overview", tip |-> tip, best |-> hashes[0], rows |-> blocks]

(* g2.Wait, and the view model. *)
WaitBlocks ==
  /\ at = "blocks" /\ Ended
  /\ Answer(IF AllOk THEN OverviewPage ELSE ErrorPage)
  /\ UNCHANGED <<nodeVars, tip, hashes, part, blocks, seen, broke>>

Handle ==
  \/ Info \/ InfoFails \/ WaitHashes \/ WaitBlocks
  \/ \E i \in Row : HashAnswered(i) \/ BlockAnswered(i)
                      \/ CallFails(i) \/ CallCancelled(i)

(* The chain moves under the request. *)
ChainMoves ==
  /\ NewTip
  /\ seen' = IF at \in {"hashes", "blocks"} THEN seen \union {chain'} ELSE seen
  /\ UNCHANGED <<reqVars, broke>>

Next == Open \/ Handle \/ ChainMoves

Spec == Init /\ [][Next]_vars

(* The handler runs on, and calls end: 30 s at the latest. *)
FairSpec == Spec /\ WF_vars(Handle)
-----------------------------------------------------------------------------
(* Types; a page never has a row that was not fetched. *)
TypeOK ==
  /\ chain \in Chains /\ Range(chain) \subseteq known
  /\ at \in {"idle", "info", "hashes", "blocks"}
  /\ tip \in Nat
  /\ hashes \in [Row -> known \union {NoBlock}]
  /\ part \in [Row -> {"idle", "call", "ok", "failed", "cancelled"}]
  /\ blocks \in [Row -> [block : known \union {NoBlock}, height : Nat]]
  /\ page.kind \in {"blank", "error", "overview"}
  /\ page.kind = "overview" =>
       \A i \in Row : page.rows[i] \in [block : known, height : Nat \ {0}]
  /\ seen \subseteq Chains /\ broke \in BOOLEAN

(* The rows are the tip and the heights below it, without a gap or a       *)
(* block shown twice, and each was the active block of its height at some  *)
(* instant since the tip was read, although no two of them were asked for  *)
(* at the same one.                                                        *)
RowsWereActive ==
  page.kind = "overview" =>
    /\ page.rows[0].block = page.best
    /\ \A i \in Row : /\ page.rows[i].height = page.tip - i
                      /\ \E c \in seen : page.rows[i].block = c[page.tip - i]

(* The page is refused only if a call failed on its own account, or the    *)
(* chain is shorter than the list: a chain that grows, or loses blocks     *)
(* that were named to us, is no reason.                                    *)
ErrorIsEarned == page.kind = "error" => broke \/ (tip > 0 /\ tip < Rows)

(* Every request is answered. *)
OverviewEnds == at # "idle" ~> at = "idle"
=============================================================================
