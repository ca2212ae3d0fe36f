------------------------------- MODULE TxView -------------------------------
(***************************************************************************)
(* What a transaction page adds to the transaction (BuildTx in             *)
(* internal/explorer/tx.go): for each output of a confirmed transaction a  *)
(* call that tells whether it is spent, for an unconfirmed one its entry   *)
(* in the mempool.  All of these are best effort: an error is no error of  *)
(* the page.  The answer for the transaction itself may come from the      *)
(* cache and be older than any reorganisation; Pages has how it got there. *)
(* Requests share only the cache, so there is one at a time here, for the  *)
(* transaction x.  Amounts and fees are left out.                          *)
(***************************************************************************)
EXTENDS Node, FiniteSets

CONSTANTS
  x,             \* the transaction of the page
  Outs,          \* its outputs
  Spender,       \* output |-> the transactions that spend it
  Unspendable    \* its data outputs, which are never in the UTXO set

ASSUME OutsAssumption ==
  x \in Txs /\ Spender \in [Outs -> SUBSET Txs] /\ Unspendable \subseteq Outs

VARIABLES
  cached,   \* the answer for x in the cache, or NoAnswer
  at,       \* where BuildTx is
  tx,       \* what cachedTx returned
  part,     \* what the gettxout call for each output has come to
  entry,    \* the mempool entry was fetched
  page,     \* the page of the tab
  past      \* history: since the tab asked, what was true at some instant

reqVars == <<cached, at, tx, part, entry, page>>
vars == <<nodeVars, reqVars, past>>

NoAnswer == [block |-> NoBlock, conf |-> 0]

Blank == [kind |-> "blank"]
ErrorPage == [kind |-> "error"]

NoParts == [i \in Outs |-> "idle"]

Pooled(p)      == x \in p
Present(c, p)  == x \in Mined(c) \union p
Spent(c, p, i) == Spender[i] \intersect (Mined(c) \union p) # {}

(* An instant, and a request without any. *)
Instant(c, p) ==
  [there |-> {Present(c, p)}, pooled |-> {Pooled(p)},
   spent |-> [i \in Outs |-> {Spent(c, p, i)}], trouble |-> FALSE]

Also(h, c, p) ==
  [there |-> h.there \union {Present(c, p)}, pooled |-> h.pooled \union {Pooled(p)},
   spent |-> [i \in Outs |-> h.spent[i] \union {Spent(c, p, i)}],
   trouble |-> h.trouble]

Init ==
  /\ NodeInit
  /\ cached = NoAnswer /\ at = "idle" /\ tx = NoAnswer
  /\ part = NoParts /\ entry = FALSE
  /\ page = Blank
  /\ past = Instant(chain, pool)

Open ==
  /\ at = "idle"
  /\ at' = "tx" /\ tx' = NoAnswer /\ part' = NoParts /\ entry' = FALSE
  /\ page' = Blank
  /\ past' = Instant(chain, pool)
  /\ UNCHANGED <<nodeVars, cached>>
-----------------------------------------------------------------------------
(* Slip: 0 confirmations count as confirmed. *)
GoesInclusive(v) ==
  /\ tx' = v
  /\ IF v.conf >= 0
     THEN at' = "outputs" /\ part' = [i \in Outs |-> "call"]
     ELSE at' = "entry" /\ UNCHANGED part

(* What follows from the transaction: one call per output, all of them     *)
(* under way at once, or the call for the mempool entry.                   *)
Goes(v) ==
  /\ tx' = v
  /\ IF v.conf > 0
     THEN at' = "outputs" /\ part' = [i \in Outs |-> "call"]
     ELSE at' = "entry" /\ UNCHANGED part

(* cachedTx: a hit. *)
Hit ==
  /\ at = "tx" /\ cached # NoAnswer
  /\ Goes(cached)
  /\ UNCHANGED <<nodeVars, cached, entry, page, past>>

(* cachedTx: getrawtransaction, stored if the answer names a block (and    *)
(* kept, if the cache is not disabled).                                    *)
Miss ==
  /\ at = "tx" /\ cached = NoAnswer /\ FoundTx(x)
  /\ Goes(Tx(x))
  /\ cached' \in IF Tx(x).block # NoBlock THEN {Tx(x), NoAnswer} ELSE {NoAnswer}
  /\ UNCHANGED <<nodeVars, entry, page, past>>

(* There is no such transaction, or the call fails. *)
Fails ==
  /\ at = "tx" /\ cached = NoAnswer
  /\ at' = "idle" /\ page' = ErrorPage
  /\ UNCHANGED <<nodeVars, cached, tx, part, entry, past>>

(* gettxout, mempool included: null for an output not in the UTXO set.     *)
InUTXOSet(i) ==
  Present(chain, pool) /\ ~Spent(chain, pool, i) /\ i \notin Unspendable

TxOut(i) ==
  /\ at = "outputs" /\ part[i] = "call"
  /\ part' = [part EXCEPT ![i] = IF InUTXOSet(i) THEN "output" ELSE "null"]
  /\ UNCHANGED <<nodeVars, cached, at, tx, entry, page, past>>

(* The call for an output fails, or the browser went away; the function of *)
(* the group returns no error, so that the other calls go on.              *)
TxOutFails(i) ==
  /\ at = "outputs" /\ part[i] = "call"
  /\ part' = [part EXCEPT ![i] = "failed"]
  /\ past' = [past EXCEPT !.trouble = TRUE]
  /\ UNCHANGED <<nodeVars, cached, at, tx, entry, page>>

(* Slip: whatever is not an output was spent. *)
ShownSpentOrFailed(i) == part[i] # "output"

ShownSpent(i) == part[i] = "null"

Shown ==
  [kind |-> "tx", confirmed |-> tx.conf > 0, entry |-> entry,
   spent |-> [i \in Outs |-> ShownSpent(i)]]

(* g.Wait. *)
Wait ==
  /\ at = "outputs" /\ \A i \in Outs : part[i] # "call"
  /\ at' = "idle" /\ page' = Shown
  /\ UNCHANGED <<nodeVars, cached, tx, part, entry, past>>

(* getmempoolentry: an entry, an error when x is not in the mempool, or a  *)
(* failure; the page is built in each case.                                *)
Entry ==
  /\ at = "entry"
  /\ \/ x \in pool /\ entry' = TRUE /\ UNCHANGED past
     \/ x \notin pool /\ UNCHANGED <<entry, past>>
     \/ past' = [past EXCEPT !.trouble = TRUE] /\ UNCHANGED entry
  /\ at' = "idle" /\ page' = [Shown EXCEPT !.entry = entry']
  /\ UNCHANGED <<nodeVars, cached, tx, part>>

Handle ==
  \/ Hit \/ Miss \/ Fails \/ Wait \/ Entry
  \/ \E i \in Outs : TxOut(i) \/ TxOutFails(i)
-----------------------------------------------------------------------------
(* Another page puts an entry in the cache, and x is evicted. *)
Evicted ==
  /\ cached # NoAnswer
  /\ cached' = NoAnswer
  /\ UNCHANGED <<nodeVars, at, tx, part, entry, page, past>>

NodeMoves ==
  /\ NewTip \/ Relay
  /\ past' = IF at = "idle" THEN past ELSE Also(past, chain', pool')
  /\ UNCHANGED reqVars

Next == Open \/ Handle \/ Evicted \/ NodeMoves

Spec == Init /\ [][Next]_vars
-----------------------------------------------------------------------------
(* What a page says of an output was true at some instant of the request,  *)
(* however old the cached answer is on which it was asked, except that an  *)
(* output is shown unspent, whatever it is, in two cases: its call failed, *)
(* or the transaction is shown as unconfirmed, whose outputs are never     *)
(* asked for (tx.go:95).  For a transaction that the node dropped          *)
(* meanwhile, and for data outputs, null does not mean spent; they are     *)
(* left out.                                                               *)
Unanswered(i) == ~page.confirmed \/ part[i] = "failed"

SpentIsTrue ==
  page.kind = "tx" /\ past.there = {TRUE} =>
    \A i \in Outs \ Unspendable :
      page.spent[i] \in past.spent[i] \/ (~page.spent[i] /\ Unanswered(i))

(* A transaction that was in the mempool during the whole request, and     *)
(* never in a block, is shown as unconfirmed and with its mempool entry,   *)
(* unless the call for the entry failed.                                   *)
PooledIsShownPooled ==
  page.kind = "tx" /\ past.pooled = {TRUE} /\ indexed[x] = NoBlock =>
    ~page.confirmed /\ (page.entry \/ past.trouble)
=============================================================================
