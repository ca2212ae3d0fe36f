---------------------------- MODULE TxViewProofs ----------------------------
(***************************************************************************)
(* Proofs about TxView, for any chains, transaction and outputs, and       *)
(* however old the cached answer is: SpentIsTrue and PooledIsShownPooled.  *)
(***************************************************************************)
EXTENDS TxView, TLAPS

Types ==
  /\ chain \in Chains /\ indexed \in [Txs -> Blocks \union {NoBlock}]
  /\ at \in {"idle", "tx", "outputs", "entry"}
  /\ part \in [Outs -> {"idle", "call", "output", "null", "failed"}]
  /\ past \in [there : SUBSET BOOLEAN, pooled : SUBSET BOOLEAN,
               spent : [Outs -> SUBSET BOOLEAN], trouble : BOOLEAN]

(* Where a request is, and what it has got there. *)
Place ==
  /\ at # "idle" => page = Blank
  /\ at = "outputs" => \A i \in Outs : part[i] # "idle"
  /\ at \in {"tx", "entry"} => part = NoParts
  /\ at = "entry" => ~(tx.conf > 0)

(* The history of a request goes up to now. *)
UpToNow ==
  at # "idle" =>
    /\ Present(chain, pool) \in past.there
    /\ Pooled(pool) \in past.pooled
    /\ \A i \in Outs : Spent(chain, pool, i) \in past.spent[i]

(* What gettxout said was true when it was said, if there was x. *)
Witnessed ==
  past.there = {TRUE} =>
    \A i \in Outs \ Unspendable :
      /\ part[i] = "null" => TRUE \in past.spent[i]
      /\ part[i] = "output" => FALSE \in past.spent[i]

(* What was never mined is neither cached nor believed to be confirmed. *)
Unmined ==
  indexed[x] = NoBlock =>
    /\ cached = NoAnswer /\ tx = NoAnswer /\ at # "outputs"
    /\ page.kind = "tx" => ~page.confirmed

IInv == /\ Types /\ Place /\ UpToNow /\ Witnessed /\ Unmined
        /\ SpentIsTrue /\ PooledIsShownPooled
-----------------------------------------------------------------------------
(* A chain is a sequence of blocks, so what it mines has a block. *)
LEMMA MinedHasBlock ==
  ASSUME NEW c \in Chains, NEW y \in Mined(c)
  PROVE  BlockOf(c, y) \in Blocks /\ BlockOf(c, y) # NoBlock
<1>1. PICK b \in Branches : c \in { SubSeq(b, 1, n) : n \in 1..Len(b) }
  BY DEF Chains
<1>2. PICK n \in 1..Len(b) : c = SubSeq(b, 1, n)
  BY <1>1
<1>3. b \in Seq(Blocks) /\ Len(b) \in Nat
  BY BranchesAssumption
<1>4. c \in Seq(Blocks)
  BY <1>2, <1>3
<1>5. \A k \in Range(c) : k \in Blocks
  BY <1>4 DEF Range
<1>6. PICK i \in DOMAIN c : y \in TxsOf[c[i]]
  BY DEF Mined
<1>7. c[i] \in Range(c)
  BY DEF Range
<1>8. BlockOf(c, y) \in Range(c)
  BY <1>6, <1>7 DEF BlockOf
<1> QED
  BY <1>5, <1>8, NoBlockAssumption

(* A history begins, and goes on. *)
LEMMA InstantOf ==
  ASSUME NEW c, NEW p
  PROVE  /\ Instant(c, p) \in [there : SUBSET BOOLEAN, pooled : SUBSET BOOLEAN,
                               spent : [Outs -> SUBSET BOOLEAN], trouble : BOOLEAN]
         /\ Present(c, p) \in Instant(c, p).there
         /\ Pooled(p) \in Instant(c, p).pooled
         /\ \A i \in Outs : Spent(c, p, i) \in Instant(c, p).spent[i]
<1>1. Present(c, p) \in BOOLEAN /\ Pooled(p) \in BOOLEAN
      /\ \A i \in Outs : Spent(c, p, i) \in BOOLEAN
  BY DEF Pooled, Present, Spent
<1> QED
  BY <1>1 DEF Instant

LEMMA AlsoOf ==
  ASSUME NEW c, NEW p,
         NEW h \in [there : SUBSET BOOLEAN, pooled : SUBSET BOOLEAN,
                    spent : [Outs -> SUBSET BOOLEAN], trouble : BOOLEAN]
  PROVE  /\ Also(h, c, p) \in [there : SUBSET BOOLEAN, pooled : SUBSET BOOLEAN,
                               spent : [Outs -> SUBSET BOOLEAN], trouble : BOOLEAN]
         /\ Present(c, p) \in Also(h, c, p).there
         /\ Pooled(p) \in Also(h, c, p).pooled
         /\ \A i \in Outs : Spent(c, p, i) \in Also(h, c, p).spent[i]
         /\ h.there \subseteq Also(h, c, p).there
         /\ \A i \in Outs : h.spent[i] \subseteq Also(h, c, p).spent[i]
<1>1. Present(c, p) \in BOOLEAN /\ Pooled(p) \in BOOLEAN
      /\ \A i \in Outs : Spent(c, p, i) \in BOOLEAN
  BY DEF Pooled, Present, Spent
<1> QED
  BY <1>1 DEF Also

LEMMA InitIInv == Init => IInv
<1> SUFFICES ASSUME Init PROVE IInv
  OBVIOUS
<1>1. /\ chain \in Chains /\ at = "idle" /\ tx = NoAnswer /\ cached = NoAnswer
      /\ part = NoParts /\ page = Blank /\ past = Instant(chain, pool)
      /\ indexed = [y \in Txs |-> IF y \in Mined(chain) THEN BlockOf(chain, y)
                                  ELSE NoBlock]
  BY DEF Init, NodeInit
<1>2. indexed \in [Txs -> Blocks \union {NoBlock}]
  BY <1>1, MinedHasBlock
<1>3. Types
  BY <1>1, <1>2, InstantOf DEF Types, NoParts
<1>4. page.kind = "blank"
  BY <1>1 DEF Blank
<1>5. Witnessed
  BY <1>1 DEF Witnessed, NoParts
<1> QED
  BY <1>1, <1>3, <1>4, <1>5
  DEF IInv, Place, UpToNow, Unmined, SpentIsTrue, PooledIsShownPooled

LEMMA OpenStep == IInv /\ Open => IInv'
<1> SUFFICES ASSUME IInv, Open PROVE IInv'
  OBVIOUS
<1>1. /\ at = "idle" /\ at' = "tx" /\ tx' = NoAnswer /\ part' = NoParts
      /\ page' = Blank /\ past' = Instant(chain, pool)
      /\ UNCHANGED <<chain, pool, indexed, cached>>
  BY DEF Open, nodeVars
<1>2. Types'
  BY <1>1, InstantOf DEF IInv, Types, NoParts
<1>3. UpToNow'
  BY <1>1, InstantOf DEF UpToNow, Pooled, Present, Spent, Mined
<1>4. page'.kind = "blank"
  BY <1>1 DEF Blank
<1>5. Witnessed'
  BY <1>1 DEF Witnessed, NoParts
<1> QED
  BY <1>1, <1>2, <1>3, <1>4, <1>5
  DEF IInv, Place, Unmined, SpentIsTrue, PooledIsShownPooled

(* The transaction, from the cache or from the node: a block that it names *)
(* is in the index.                                                        *)
LEMMA GoesStep ==
  ASSUME IInv, at = "tx", NEW v, Goes(v), cached' \in {cached, v, NoAnswer},
         indexed[x] = NoBlock => v = NoAnswer,
         UNCHANGED <<nodeVars, entry, page, past>>
  PROVE  IInv'
<1>1. /\ tx' = v /\ UNCHANGED <<chain, pool, indexed, page, past>>
      /\ \/ v.conf > 0 /\ at' = "outputs" /\ part' = [i \in Outs |-> "call"]
         \/ ~(v.conf > 0) /\ at' = "entry" /\ part' = part
  BY DEF Goes, nodeVars
<1>2. page = Blank /\ page.kind = "blank"
  BY DEF IInv, Place, Blank
<1>3. Types'
  BY <1>1 DEF IInv, Types
<1>4. Place'
  BY <1>1, <1>2 DEF IInv, Place
<1>5. UpToNow'
  BY <1>1 DEF IInv, UpToNow, Pooled, Present, Spent, Mined
<1>6. Witnessed'
  BY <1>1 DEF IInv, Witnessed
<1>7. Unmined'
  BY <1>1, <1>2 DEF IInv, Unmined, NoAnswer
<1> QED
  BY <1>1, <1>2, <1>3, <1>4, <1>5, <1>6, <1>7
  DEF IInv, SpentIsTrue, PooledIsShownPooled

LEMMA HitStep == IInv /\ Hit => IInv'
<1> SUFFICES ASSUME IInv, Hit PROVE IInv'
  OBVIOUS
<1>1. /\ at = "tx" /\ Goes(cached) /\ cached' = cached
      /\ UNCHANGED <<nodeVars, entry, page, past>>
  BY DEF Hit
<1>2. indexed[x] = NoBlock => cached = NoAnswer
  BY DEF IInv, Unmined
<1> QED
  BY <1>1, <1>2, GoesStep

LEMMA MissStep == IInv /\ Miss => IInv'
<1> SUFFICES ASSUME IInv, Miss PROVE IInv'
  OBVIOUS
<1>1. /\ at = "tx" /\ Goes(Tx(x)) /\ cached' \in {Tx(x), NoAnswer}
      /\ FoundTx(x) /\ UNCHANGED <<nodeVars, entry, page, past>>
  BY DEF Miss
<1>2. indexed[x] = NoBlock => Tx(x) = NoAnswer
  BY <1>1 DEF FoundTx, Tx, NoAnswer
<1> QED
  BY <1>1, <1>2, GoesStep

LEMMA FailsStep == IInv /\ Fails => IInv'
<1> SUFFICES ASSUME IInv, Fails PROVE IInv'
  OBVIOUS
<1>1. /\ at' = "idle" /\ page' = ErrorPage /\ page'.kind = "error"
      /\ UNCHANGED <<chain, pool, indexed, cached, tx, part, past>>
  BY DEF Fails, ErrorPage, nodeVars
<1>2. Types' /\ Witnessed'
  BY <1>1 DEF IInv, Types, Witnessed
<1> QED
  BY <1>1, <1>2
  DEF IInv, Place, UpToNow, Unmined, SpentIsTrue, PooledIsShownPooled

(* What the pages of finished requests say is not touched by a step within *)
(* a request.                                                              *)
LEMMA PartStep ==
  ASSUME IInv, at = "outputs", NEW i \in Outs, NEW l \in {"output", "null", "failed"},
         part' = [part EXCEPT ![i] = l], past'.there = past.there,
         past'.pooled = past.pooled, past'.spent = past.spent, Types',
         UNCHANGED <<nodeVars, cached, at, tx, entry, page>>,
         past.there = {TRUE} /\ i \notin Unspendable =>
           /\ l = "null" => TRUE \in past.spent[i]
           /\ l = "output" => FALSE \in past.spent[i]
  PROVE  IInv'
<1>1. page.kind = "blank" /\ page = Blank
  BY DEF IInv, Place, Blank
<1>2. part'[i] = l /\ \A k \in Outs : k # i => part'[k] = part[k]
  BY DEF IInv, Types
<1>3. Place'
  BY <1>1, <1>2 DEF IInv, Place
<1>4. UpToNow'
  BY DEF IInv, UpToNow, nodeVars, Pooled, Present, Spent, Mined
<1>5. Witnessed'
  BY <1>2 DEF IInv, Witnessed
<1>6. Unmined'
  BY DEF IInv, Unmined, nodeVars
<1> QED
  BY <1>1, <1>3, <1>4, <1>5, <1>6
  DEF IInv, SpentIsTrue, PooledIsShownPooled

LEMMA TxOutStep == ASSUME IInv, NEW i \in Outs, TxOut(i) PROVE IInv'
<1> DEFINE l == IF InUTXOSet(i) THEN "output" ELSE "null"
<1>1. /\ at = "outputs" /\ part' = [part EXCEPT ![i] = l]
      /\ UNCHANGED <<nodeVars, cached, at, tx, entry, page, past>>
  BY DEF TxOut
<1>2. Types'
  BY <1>1 DEF IInv, Types, nodeVars
<1>3. ASSUME past.there = {TRUE}, i \notin Unspendable
      PROVE  /\ l = "null" => TRUE \in past.spent[i]
             /\ l = "output" => FALSE \in past.spent[i]
  <2>1. Present(chain, pool)
    <3>1. Present(chain, pool) \in past.there
      BY <1>1 DEF IInv, UpToNow
    <3>2. Present(chain, pool) \in BOOLEAN
      BY DEF Present
    <3>3. ASSUME ~Present(chain, pool) PROVE FALSE
      <4>1. Present(chain, pool) = FALSE
        BY <3>2, <3>3
      <4> QED
        BY <1>3, <3>1, <4>1
    <3> QED
      BY <3>3
  <2>2. Spent(chain, pool, i) \in past.spent[i]
    BY <1>1 DEF IInv, UpToNow
  <2>3. l = "null" <=> Spent(chain, pool, i)
    BY <2>1, <1>3 DEF InUTXOSet
  <2>4. CASE Spent(chain, pool, i)
    <3>1. Spent(chain, pool, i) = TRUE
      BY <2>4 DEF Spent
    <3> QED
      BY <2>2, <2>3, <2>4, <3>1
  <2>5. CASE ~Spent(chain, pool, i)
    <3>1. Spent(chain, pool, i) = FALSE
      BY <2>5 DEF Spent
    <3> QED
      BY <2>2, <2>3, <2>5, <3>1
  <2> QED
    BY <2>4, <2>5
<1> QED
  BY <1>1, <1>2, <1>3, PartStep

LEMMA TxOutFailsStep == ASSUME IInv, NEW i \in Outs, TxOutFails(i) PROVE IInv'
<1>1. /\ at = "outputs" /\ part' = [part EXCEPT ![i] = "failed"]
      /\ past' = [past EXCEPT !.trouble = TRUE]
      /\ UNCHANGED <<nodeVars, cached, at, tx, entry, page>>
  BY DEF TxOutFails
<1>2. Types' /\ past'.there = past.there /\ past'.pooled = past.pooled
      /\ past'.spent = past.spent
  BY <1>1 DEF IInv, Types, nodeVars
<1> QED
  BY <1>1, <1>2, PartStep

(* The page of a confirmed transaction. *)
LEMMA WaitStep == IInv /\ Wait => IInv'
<1> SUFFICES ASSUME IInv, Wait PROVE IInv'
  OBVIOUS
<1>1. /\ at = "outputs" /\ \A i \in Outs : part[i] # "call"
      /\ at' = "idle" /\ page' = Shown
      /\ UNCHANGED <<chain, pool, indexed, cached, tx, part, entry, past>>
  BY DEF Wait, nodeVars
<1>2. /\ page'.spent = [i \in Outs |-> ShownSpent(i)]
      /\ page'.kind = "tx"
  BY <1>1 DEF Shown
<1>3. indexed[x] # NoBlock
  BY <1>1 DEF IInv, Unmined
<1>4. Types' /\ Witnessed'
  BY <1>1 DEF IInv, Types, Witnessed
<1>5. SpentIsTrue'
  <2> SUFFICES ASSUME past.there = {TRUE}, NEW i \in Outs \ Unspendable
               PROVE  \/ page'.spent[i] \in past.spent[i]
                      \/ ~page'.spent[i] /\ part[i] = "failed"
    BY <1>1 DEF SpentIsTrue, Unanswered
  <2>1. part[i] \in {"output", "null", "failed"}
    BY <1>1 DEF IInv, Types, Place
  <2>2. page'.spent[i] = (part[i] = "null")
    BY <1>2 DEF ShownSpent
  <2>3. CASE part[i] = "null"
    BY <2>2, <2>3 DEF IInv, Witnessed
  <2>4. CASE part[i] = "output"
    <3>1. page'.spent[i] = FALSE
      BY <2>2, <2>4
    <3> QED
      BY <2>4, <3>1 DEF IInv, Witnessed
  <2>5. CASE part[i] = "failed"
    BY <2>2, <2>5
  <2> QED
    BY <2>1, <2>3, <2>4, <2>5
<1> QED
  BY <1>1, <1>2, <1>3, <1>4, <1>5
  DEF IInv, Place, UpToNow, Unmined, PooledIsShownPooled

(* The page of an unconfirmed transaction. *)
LEMMA EntryStep == IInv /\ Entry => IInv'
<1> SUFFICES ASSUME IInv, Entry PROVE IInv'
  OBVIOUS
<1>1. /\ at = "entry" /\ at' = "idle" /\ page' = [Shown EXCEPT !.entry = entry']
      /\ UNCHANGED <<chain, pool, indexed, cached, tx, part>>
      /\ \/ x \in pool /\ entry' = TRUE /\ past' = past
         \/ x \notin pool /\ past' = past
         \/ past' = [past EXCEPT !.trouble = TRUE]
  BY DEF Entry, nodeVars
<1>2. /\ Types' /\ past'.there = past.there /\ past'.pooled = past.pooled
      /\ past'.spent = past.spent
      /\ past' = [past EXCEPT !.trouble = TRUE] => past'.trouble = TRUE
  BY <1>1 DEF IInv, Types
<1>3. page'.kind = "tx" /\ ~page'.confirmed /\ page'.entry = entry'
  BY <1>1 DEF Shown, IInv, Place
<1>4. Witnessed'
  BY <1>1, <1>2 DEF IInv, Witnessed
<1>5. SpentIsTrue'
  <2>1. \A i \in Outs : part[i] = "idle"
    BY <1>1 DEF IInv, Place, NoParts
  <2>2. page'.spent = [i \in Outs |-> ShownSpent(i)]
    BY <1>1 DEF Shown
  <2>3. \A i \in Outs : ~page'.spent[i]
    BY <2>1, <2>2 DEF ShownSpent
  <2> QED
    BY <1>3, <2>3 DEF SpentIsTrue, Unanswered
<1>6. PooledIsShownPooled'
  <2> SUFFICES ASSUME past.pooled = {TRUE}
               PROVE  page'.entry \/ past'.trouble
    BY <1>2, <1>3 DEF PooledIsShownPooled
  <2>1. Pooled(pool) \in past.pooled
    BY <1>1 DEF IInv, UpToNow
  <2>2. Pooled(pool) = TRUE
    BY <2>1
  <2>3. x \in pool
    BY <2>2 DEF Pooled
  <2>4. entry' = TRUE \/ past'.trouble = TRUE
    BY <1>1, <1>2, <2>3
  <2>5. page'.entry = TRUE \/ past'.trouble = TRUE
    BY <1>3, <2>4
  <2> QED
    BY <2>5
<1> QED
  BY <1>1, <1>2, <1>3, <1>4, <1>5, <1>6
  DEF IInv, Place, UpToNow, Unmined

LEMMA EvictedStep == IInv /\ Evicted => IInv'
<1> SUFFICES ASSUME IInv, Evicted PROVE IInv'
  OBVIOUS
<1>1. cached' = NoAnswer /\ UNCHANGED <<chain, pool, indexed, at, tx, part, page, past>>
  BY DEF Evicted, nodeVars
<1>2. Types' /\ Place' /\ Witnessed' /\ Unmined'
  BY <1>1 DEF IInv, Types, Place, Witnessed, Unmined
<1>3. UpToNow'
  BY <1>1 DEF IInv, UpToNow, Pooled, Present, Spent, Mined
<1> QED
  BY <1>1, <1>2, <1>3 DEF IInv, SpentIsTrue, Unanswered, PooledIsShownPooled
-----------------------------------------------------------------------------
(* The node moves: what was in a block once stays in the index. *)
LEMMA NodeStep ==
  ASSUME IInv, NewTip \/ Relay
  PROVE  /\ chain' \in Chains /\ indexed' \in [Txs -> Blocks \union {NoBlock}]
         /\ indexed'[x] = NoBlock => indexed[x] = NoBlock
<1>1. CASE NewTip
  <2>1. /\ chain' \in Chains
        /\ indexed' = [y \in Txs |-> IF y \in Mined(chain') THEN BlockOf(chain', y)
                                     ELSE indexed[y]]
    BY <1>1 DEF NewTip
  <2>2. \A y \in Txs : y \in Mined(chain') =>
          BlockOf(chain', y) \in Blocks /\ BlockOf(chain', y) # NoBlock
    BY <2>1, MinedHasBlock
  <2> QED
    BY <2>1, <2>2, OutsAssumption DEF IInv, Types
<1>2. CASE Relay
  BY <1>2 DEF Relay, IInv, Types
<1> QED
  BY <1>1, <1>2

LEMMA NodeMovesStep == IInv /\ NodeMoves => IInv'
<1> SUFFICES ASSUME IInv, NodeMoves PROVE IInv'
  OBVIOUS
<1>1. UNCHANGED <<cached, at, tx, part, entry, page>>
  BY DEF NodeMoves, reqVars
<1>2. /\ chain' \in Chains /\ indexed' \in [Txs -> Blocks \union {NoBlock}]
      /\ indexed'[x] = NoBlock => indexed[x] = NoBlock
  BY NodeStep DEF NodeMoves
<1>3. Place' /\ Unmined'
  BY <1>1, <1>2 DEF IInv, Place, Unmined
<1>4. CASE at = "idle"
  <2>1. past' = past
    BY <1>4 DEF NodeMoves
  <2>2. Types' /\ Witnessed' /\ SpentIsTrue'
    BY <1>1, <1>2, <2>1 DEF IInv, Types, Witnessed, SpentIsTrue, Unanswered
  <2>3. PooledIsShownPooled'
    BY <1>1, <1>2, <2>1 DEF IInv, PooledIsShownPooled
  <2> QED
    BY <1>1, <1>3, <1>4, <2>2, <2>3 DEF IInv, UpToNow
<1>5. CASE at # "idle"
  <2>1. past' = Also(past, chain', pool')
    BY <1>5 DEF NodeMoves
  <2>2. /\ past' \in [there : SUBSET BOOLEAN, pooled : SUBSET BOOLEAN,
                      spent : [Outs -> SUBSET BOOLEAN], trouble : BOOLEAN]
        /\ Present(chain', pool') \in past'.there
        /\ Pooled(pool') \in past'.pooled
        /\ \A i \in Outs : Spent(chain', pool', i) \in past'.spent[i]
        /\ past.there \subseteq past'.there
        /\ \A i \in Outs : past.spent[i] \subseteq past'.spent[i]
    BY <2>1, AlsoOf DEF IInv, Types
  <2>3. Types'
    BY <1>1, <1>2, <2>2 DEF IInv, Types
  <2>4. UpToNow'
    BY <2>2 DEF UpToNow, Pooled, Present, Spent, Mined
  <2>5. past'.there = {TRUE} => past.there = {TRUE}
    BY <1>5, <2>2 DEF IInv, UpToNow
  <2>6. Witnessed'
    BY <1>1, <2>2, <2>5 DEF IInv, Witnessed
  <2>7. page.kind = "blank" /\ page' = page
    BY <1>1, <1>5 DEF IInv, Place, Blank
  <2> QED
    BY <1>3, <2>3, <2>4, <2>6, <2>7 DEF IInv, SpentIsTrue, PooledIsShownPooled
<1> QED
  BY <1>4, <1>5

(* Every step preserves the invariant. *)
LEMMA StepIInv == IInv /\ [Next]_vars => IInv'
<1> SUFFICES ASSUME IInv, [Next]_vars PROVE IInv'
  OBVIOUS
<1>1. CASE UNCHANGED vars
  <2>1. UNCHANGED <<chain, pool, indexed, cached, at, tx, part, entry, page, past>>
    BY <1>1 DEF vars, nodeVars, reqVars
  <2>2. Types' /\ Place' /\ Witnessed' /\ Unmined'
    BY <2>1 DEF IInv, Types, Place, Witnessed, Unmined
  <2>3. UpToNow'
    BY <2>1 DEF IInv, UpToNow, Pooled, Present, Spent, Mined
  <2> QED
    BY <2>1, <2>2, <2>3 DEF IInv, SpentIsTrue, Unanswered, PooledIsShownPooled
<1> QED
  BY <1>1, OpenStep, HitStep, MissStep, FailsStep, WaitStep, EntryStep, TxOutStep,
     TxOutFailsStep, EvictedStep, NodeMovesStep
  DEF Next, Handle
-----------------------------------------------------------------------------
(* The inductive invariant holds in every reachable state. *)
THEOREM Invariance == Spec => []IInv
<1> QED
  BY InitIInv, StepIInv, PTL DEF Spec

(* For any chains and outputs, and however stale the cached answer is: an  *)
(* output shown spent was spent at some instant of the request; one shown  *)
(* unspent was unspent at some instant, unless its call failed or the page *)
(* is that of an unconfirmed transaction, which asks for no output.        *)
THEOREM TxViewSpent == Spec => []SpentIsTrue
<1>1. IInv => SpentIsTrue
  BY DEF IInv
<1> QED
  BY <1>1, Invariance, PTL

(* A transaction that stays in the mempool is shown so, with its entry,    *)
(* unless the call for the entry failed.                                   *)
THEOREM TxViewPooled == Spec => []PooledIsShownPooled
<1>1. IInv => PooledIsShownPooled
  BY DEF IInv
<1> QED
  BY <1>1, Invariance, PTL
=============================================================================
