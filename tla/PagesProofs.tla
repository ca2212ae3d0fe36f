----------------------------- MODULE PagesProofs -----------------------------
(***************************************************************************)
(* Proofs about Pages, for any branches, transactions and tabs, any order  *)
(* of the requests and any choice of what the cache evicts: types,         *)
(* HalvesAgree, HeightIsResolvedNow and MinedIsShownMined.                 *)
(*                                                                         *)
(* The parts of the invariant take what they depend on as parameters: K is *)
(* what is known, L what a reorganisation took out, B the chains since a   *)
(* request began.                                                          *)
(***************************************************************************)
EXTENDS Pages, TLAPS

(* What the node answers for o, under kind k. *)
Good(k, o, v, K, L) ==
  /\ k \in BlockParts => o \in K /\ v.block = o
  /\ k = "tx" =>
       /\ o \in Txs /\ v.block \in K \union {NoBlock}
       /\ o \notin L /\ v.block # NoBlock => v.conf > 0 /\ o \in TxsOf[v.block]

(* A transaction without a block was unconfirmed during the request. *)
PartOK(o, k, f, B, K, L) ==
  f.at \in {"put", "ok"} =>
    /\ Good(k, o, f.val, K, L)
    /\ k = "tx" /\ f.val.block = NoBlock => \E c \in B : o \notin Mined(c)

ReqOK(r, B, K, L) ==
  /\ r = [at |-> "fetch", id |-> r.id, of |-> r.of, part |-> r.part]
  /\ r.part = [k \in DOMAIN r.part |-> r.part[k]]
  /\ \/ /\ DOMAIN r.part = BlockParts
        /\ r.id \in Heights => \E c \in B : r.id \in DOMAIN c /\ c[r.id] = r.of
     \/ DOMAIN r.part = {"tx"} /\ r.id = r.of /\ r.of \in Txs
  /\ \A k \in DOMAIN r.part : PartOK(r.of, k, r.part[k], B, K, L)

PageOK(p, B, K, L) ==
  /\ p.kind \in {"blank", "error", "block", "tx"}
  /\ p.kind = "block" =>
       /\ p.blk.block = p.stats.block /\ p.blk.block \in K
       /\ p.id \in Heights =>
            \E c \in B : p.id \in DOMAIN c /\ c[p.id] = p.blk.block
  /\ p.kind = "tx" =>
       /\ p.block \in K \union {NoBlock}
       /\ \A y \in Txs \ L :
            p.id = y /\ (\A c \in B : y \in Mined(c)) =>
              p.conf > 0 /\ y \in TxsOf[p.block]

(* A request in progress: its history goes up to now. *)
TabOK(t) ==
  /\ req[t].at \in {"idle", "resolve", "fetch"}
  /\ req[t].at = "idle" \/ (page[t] = Blank /\ chain \in began[t])
  /\ req[t].at = "idle" => req[t] = Idle
  /\ req[t].at = "resolve" => req[t].id \in Heights
  /\ req[t].at = "fetch" => ReqOK(req[t], began[t], known, left)
  /\ PageOK(page[t], began[t], known, left)

(* Only confirmed transactions are cached, and only answers. *)
CacheOK(m, K, L) ==
  \A key \in DOMAIN m :
    Good(key[1], key[2], m[key], K, L) /\ (key[1] = "tx" => m[key].block # NoBlock)

(* What was in a block and never left the chain is in it. *)
NodeOK ==
  /\ chain \in Chains /\ pool \subseteq Txs \ Mined(chain)
  /\ known \subseteq Blocks /\ Range(chain) \subseteq known
  /\ indexed \in [Txs -> known \union {NoBlock}]
  /\ \A y \in Txs : y \in Mined(chain) =>
       indexed[y] \in Range(chain) /\ y \in TxsOf[indexed[y]]
  /\ \A y \in Txs \ left : indexed[y] # NoBlock => y \in Mined(chain)

IInv == /\ NodeOK /\ CacheOK(cache, known, left)
        /\ req \in [Tabs -> Range(req)] /\ page \in [Tabs -> Range(page)]
        /\ began \in [Tabs -> Range(began)]
        /\ \A t \in Tabs : TabOK(t)

LEMMA Distinct == "tx" \notin BlockParts /\ "blk" \in BlockParts /\ "blkstats" \in BlockParts
BY DEF BlockParts
-----------------------------------------------------------------------------
(* A chain is a sequence of blocks. *)
LEMMA ChainIsSeq ==
  ASSUME NEW c \in Chains
  PROVE  /\ c \in Seq(Blocks) /\ Len(c) \in Nat /\ DOMAIN c = 1..Len(c)
         /\ Range(c) \subseteq Blocks
<1>1. PICK b \in Branches : c \in { SubSeq(b, 1, n) : n \in 1..Len(b) }
  BY DEF Chains
<1>2. PICK n \in 1..Len(b) : c = SubSeq(b, 1, n)
  BY <1>1
<1>3. b \in Seq(Blocks) /\ Len(b) \in Nat
  BY BranchesAssumption
<1>4. c \in Seq(Blocks)
  BY <1>2, <1>3
<1> QED
  BY <1>4 DEF Range

LEMMA MinedHasBlock ==
  ASSUME NEW c, NEW y \in Mined(c)
  PROVE  BlockOf(c, y) \in Range(c) /\ y \in TxsOf[BlockOf(c, y)]
<1>1. PICK i \in DOMAIN c : y \in TxsOf[c[i]]
  BY DEF Mined
<1>2. c[i] \in Range(c)
  BY DEF Range
<1> QED
  BY <1>1, <1>2 DEF BlockOf

(* A block of the active chain has confirmations. *)
LEMMA DepthOf ==
  ASSUME chain \in Chains, NEW b \in Range(chain)
  PROVE  Depth(b) > 0
<1>1. PICK i \in DOMAIN chain : chain[i] = b
  BY DEF Range
<1> DEFINE j == CHOOSE j \in DOMAIN chain : chain[j] = b
<1>2. j \in 1..Len(chain) /\ Len(chain) \in Nat
  BY <1>1, ChainIsSeq
<1> QED
  BY <1>2 DEF Depth

(* Knowing more, and losing more, an answer stays good. *)
LEMMA GoodStays ==
  ASSUME NEW K, NEW L, NEW K2, NEW L2, K \subseteq K2, L \subseteq L2,
         NEW k, NEW o, NEW v, Good(k, o, v, K, L)
  PROVE  Good(k, o, v, K2, L2)
BY DEF Good

(* What the node answers is good. *)
LEMMA TxIsGood ==
  ASSUME NodeOK, NEW o \in Txs, FoundTx(o)
  PROVE  /\ Good("tx", o, Tx(o), known, left)
         /\ Tx(o).block = NoBlock => o \notin Mined(chain)
<1>1. NoBlock \notin known
  BY NoBlockAssumption DEF NodeOK
<1>2. CASE o \in pool
  BY <1>2, Distinct DEF Tx, Good, NodeOK
<1>3. CASE o \notin pool
  <2>1. Tx(o) = [block |-> indexed[o], conf |-> Depth(indexed[o])]
    BY <1>3 DEF Tx
  <2>2. indexed[o] \in known
    BY <1>3 DEF FoundTx, NodeOK
  <2>3. ASSUME o \notin left PROVE Depth(indexed[o]) > 0 /\ o \in TxsOf[indexed[o]]
    BY <1>1, <2>2, <2>3, DepthOf DEF NodeOK
  <2> QED
    BY <1>1, <2>1, <2>2, <2>3, Distinct DEF Good
<1> QED
  BY <1>2, <1>3

LEMMA InitIInv == Init => IInv
<1> SUFFICES ASSUME Init PROVE IInv
  OBVIOUS
<1>1. /\ chain \in Chains /\ pool \in Pools(chain) /\ known = Range(chain)
      /\ indexed = [y \in Txs |-> IF y \in Mined(chain) THEN BlockOf(chain, y)
                                  ELSE NoBlock]
      /\ cache = [k \in {} |-> k] /\ left = {}
      /\ req = [t \in Tabs |-> Idle] /\ page = [t \in Tabs |-> Blank]
      /\ began = [t \in Tabs |-> {}]
  BY DEF Init, NodeInit
<1>2. \A y \in Txs : y \in Mined(chain) =>
        BlockOf(chain, y) \in Range(chain) /\ y \in TxsOf[BlockOf(chain, y)]
  BY MinedHasBlock
<1>3. NodeOK
  BY <1>1, <1>2, ChainIsSeq DEF NodeOK, Pools
<1>4. CacheOK(cache, known, left)
  BY <1>1 DEF CacheOK
<1>5. \A t \in Tabs : TabOK(t)
  BY <1>1 DEF TabOK, PageOK, Idle, Blank
<1>6. /\ req \in [Tabs -> Range(req)] /\ page \in [Tabs -> Range(page)]
      /\ began \in [Tabs -> Range(began)]
  BY <1>1 DEF Range
<1> QED
  BY <1>3, <1>4, <1>5, <1>6 DEF IInv
-----------------------------------------------------------------------------
(* A step of tab t leaves the node and the other tabs alone. *)
LEMMA TabStep ==
  ASSUME IInv, NEW t \in Tabs, NEW r, NEW p, NEW B,
         req' = [req EXCEPT ![t] = r], page' = [page EXCEPT ![t] = p],
         began' = [began EXCEPT ![t] = B],
         UNCHANGED <<nodeVars, left>>, CacheOK(cache', known, left),
         r.at \in {"idle", "resolve", "fetch"},
         r.at = "idle" \/ (p = Blank /\ chain \in B),
         r.at = "idle" => r = Idle,
         r.at = "resolve" => r.id \in Heights,
         r.at = "fetch" => ReqOK(r, B, known, left),
         PageOK(p, B, known, left)
  PROVE  IInv'
<1>1. /\ req' \in [Tabs -> Range(req')] /\ page' \in [Tabs -> Range(page')]
      /\ began' \in [Tabs -> Range(began')]
  BY DEF IInv, Range
<1>2. req'[t] = r /\ page'[t] = p /\ began'[t] = B
  BY DEF IInv
<1>3. \A u \in Tabs : u # t =>
        req'[u] = req[u] /\ page'[u] = page[u] /\ began'[u] = began[u]
  BY DEF IInv
<1>4. UNCHANGED <<chain, pool, indexed, known, left>>
  BY DEF nodeVars
<1>5. NodeOK' /\ CacheOK(cache', known', left')
  BY <1>4 DEF IInv, NodeOK, Mined
<1>6. ASSUME NEW u \in Tabs PROVE TabOK(u)'
  <2>1. CASE u = t
    BY <2>1, <1>2, <1>4 DEF TabOK
  <2>2. CASE u # t
    <3>1. TabOK(u)
      BY DEF IInv
    <3> QED
      BY <2>2, <3>1, <1>3, <1>4 DEF TabOK
  <2> QED
    BY <2>1, <2>2
<1> QED
  BY <1>1, <1>5, <1>6 DEF IInv

(* A function updated by what it has already is what it was. *)
LEMMA SameAt ==
  ASSUME NEW S, NEW R, NEW f \in [S -> R], NEW s \in S
  PROVE  f = [f EXCEPT ![s] = f[s]]
OBVIOUS

(* The parts of a request that begins have nothing to show. *)
LEMMA FetchingOK ==
  ASSUME NEW i, NEW o, NEW B, NEW K, NEW L, NEW keys,
         \/ keys = BlockParts /\ (i \in Heights =>
              \E c \in B : i \in DOMAIN c /\ c[i] = o)
         \/ keys = {"tx"} /\ i = o /\ o \in Txs
  PROVE  Fetching(i, o, keys).at = "fetch" /\ ReqOK(Fetching(i, o, keys), B, K, L)
BY DEF Fetching, ReqOK, PartOK, Fetch

LEMMA BeginStep ==
  ASSUME IInv, NEW t \in Tabs, NEW r, Begin(t, r),
         \/ r.at = "resolve" /\ r.id \in Heights
         \/ r.at = "fetch" /\ ReqOK(r, {chain}, known, left)
  PROVE  IInv'
<1>1. PageOK(Blank, {chain}, known, left)
  BY DEF PageOK, Blank
<1> QED
  BY <1>1, TabStep DEF Begin, IInv

LEMMA OpenStep == ASSUME IInv, NEW t \in Tabs, Open(t) PROVE IInv'
<1>1. CASE \E h \in Heights : Begin(t, [at |-> "resolve", id |-> h])
  <2>1. PICK h \in Heights : Begin(t, [at |-> "resolve", id |-> h])
    BY <1>1
  <2> QED
    BY <2>1, BeginStep
<1>2. CASE \E b \in Hashes : Begin(t, Fetching(b, b, BlockParts))
  <2>1. PICK b \in Hashes : Begin(t, Fetching(b, b, BlockParts))
    BY <1>2
  <2>2. b \notin Heights
    BY IdsAssumption
  <2> QED
    BY <2>1, <2>2, BeginStep, FetchingOK
<1>3. CASE \E x \in Txs : Begin(t, Fetching(x, x, {"tx"}))
  <2>1. PICK x \in Txs : Begin(t, Fetching(x, x, {"tx"}))
    BY <1>3
  <2> QED
    BY <2>1, BeginStep, FetchingOK
<1> QED
  BY <1>1, <1>2, <1>3 DEF Open

(* A request ends in a page that is right. *)
LEMMA AnswerStep ==
  ASSUME IInv, NEW t \in Tabs, NEW p, Answer(t, p),
         PageOK(p, began[t], known, left), UNCHANGED <<nodeVars, cache, began, left>>
  PROVE  IInv'
<1>1. began' = [began EXCEPT ![t] = began[t]]
  BY SameAt DEF IInv
<1>2. Idle.at = "idle"
  BY DEF Idle
<1> QED
  BY <1>1, <1>2, TabStep DEF Answer, IInv

LEMMA ErrorIsPage == ASSUME NEW B, NEW K, NEW L PROVE PageOK(ErrorPage, B, K, L)
BY DEF PageOK, ErrorPage

(* The hash of a height is that of the chain of this instant. *)
LEMMA ResolveStep == ASSUME IInv, NEW t \in Tabs, Resolve(t) PROVE IInv'
<1>1. /\ req[t].at = "resolve" /\ req[t].id \in Heights
      /\ page[t] = Blank /\ chain \in began[t]
      /\ PageOK(page[t], began[t], known, left) /\ CacheOK(cache, known, left)
  BY DEF Resolve, IInv, TabOK
<1>2. UNCHANGED <<nodeVars, cache, began, left>>
  BY DEF Resolve
<1>3. CASE Answer(t, ErrorPage)
  BY <1>2, <1>3, AnswerStep, ErrorIsPage
<1>4. CASE /\ req[t].id \in DOMAIN chain
           /\ req' = [req EXCEPT ![t] =
                        Fetching(req[t].id, chain[req[t].id], BlockParts)]
           /\ page' = page
  <2> DEFINE r == Fetching(req[t].id, chain[req[t].id], BlockParts)
  <2>1. r.at = "fetch" /\ ReqOK(r, began[t], known, left)
    BY <1>1, <1>4, FetchingOK
  <2>2. page' = [page EXCEPT ![t] = page[t]] /\ began' = [began EXCEPT ![t] = began[t]]
    BY <1>2, <1>4, SameAt DEF IInv
  <2>3. req' = [req EXCEPT ![t] = r] /\ CacheOK(cache', known, left)
    BY <1>1, <1>2, <1>4
  <2> HIDE DEF r
  <2> QED
    BY <1>1, <1>2, <2>1, <2>2, <2>3, TabStep
<1> QED
  BY <1>3, <1>4 DEF Resolve
-----------------------------------------------------------------------------
(* A part moves on. *)
LEMMA GoesStep ==
  ASSUME IInv, NEW t \in Tabs, req[t].at = "fetch", NEW k \in DOMAIN req[t].part,
         NEW l, NEW v, Goes(t, k, l, v),
         PartOK(req[t].of, k, [at |-> l, val |-> v], began[t], known, left),
         UNCHANGED <<nodeVars, began, left>>, CacheOK(cache', known, left)
  PROVE  IInv'
<1> DEFINE q == req[t]
           f == [q.part EXCEPT ![k] = [at |-> l, val |-> v]]
           r == [at |-> "fetch", id |-> q.id, of |-> q.of, part |-> f]
<1>1. /\ page[t] = Blank /\ chain \in began[t] /\ PageOK(page[t], began[t], known, left)
      /\ ReqOK(q, began[t], known, left)
  BY DEF IInv, TabOK
<1>2. q = [at |-> "fetch", id |-> q.id, of |-> q.of, part |-> q.part]
      /\ q.part = [j \in DOMAIN q.part |-> q.part[j]]
  BY <1>1 DEF ReqOK
<1>3. [q EXCEPT !.part = f] = r
  BY <1>2
<1>4. req' = [req EXCEPT ![t] = r]
  BY <1>3 DEF Goes
<1>5. /\ DOMAIN f = DOMAIN q.part /\ f[k] = [at |-> l, val |-> v]
      /\ \A j \in DOMAIN q.part : j # k => f[j] = q.part[j]
      /\ f = [j \in DOMAIN f |-> f[j]]
  BY <1>2
<1>6. ReqOK(r, began[t], known, left)
  <2>1. \A j \in DOMAIN f : PartOK(q.of, j, f[j], began[t], known, left)
    BY <1>1, <1>5 DEF ReqOK
  <2>2. \/ /\ DOMAIN q.part = BlockParts
           /\ q.id \in Heights =>
                \E c \in began[t] : q.id \in DOMAIN c /\ c[q.id] = q.of
        \/ DOMAIN q.part = {"tx"} /\ q.id = q.of /\ q.of \in Txs
    BY <1>1 DEF ReqOK
  <2>3. r.at = "fetch" /\ r.id = q.id /\ r.of = q.of /\ r.part = f
    OBVIOUS
  <2> HIDE DEF r, f, q
  <2> QED
    BY <1>5, <2>1, <2>2, <2>3 DEF ReqOK, r
<1>7. page' = [page EXCEPT ![t] = page[t]] /\ began' = [began EXCEPT ![t] = began[t]]
  BY SameAt DEF IInv, Goes
<1>8. r.at = "fetch"
  OBVIOUS
<1> HIDE DEF r, f, q
<1> QED
  BY <1>1, <1>4, <1>6, <1>7, <1>8, TabStep

(* A hit is an answer. *)
LEMMA LookupStep ==
  ASSUME IInv, NEW t \in Tabs, req[t].at = "fetch", NEW k \in DOMAIN req[t].part,
         Lookup(t, k), UNCHANGED <<nodeVars, began, left>>
  PROVE  IInv'
<1> DEFINE key == <<k, req[t].of>>
<1>1. cache' = cache /\ CacheOK(cache, known, left)
  BY DEF Lookup, IInv
<1>2. CASE key \in DOMAIN cache
  <2>1. Goes(t, k, "ok", cache[key])
    BY <1>2 DEF Lookup, Key
  <2>2. /\ Good(k, req[t].of, cache[key], known, left)
        /\ k = "tx" => cache[key].block # NoBlock
    BY <1>1, <1>2 DEF CacheOK
  <2>3. PartOK(req[t].of, k, [at |-> "ok", val |-> cache[key]], began[t], known, left)
    BY <2>2 DEF PartOK
  <2> QED
    BY <1>1, <2>1, <2>3, GoesStep
<1>3. CASE key \notin DOMAIN cache
  <2>1. Goes(t, k, "call", Fetch.val)
    BY <1>3 DEF Lookup, Key
  <2>2. PartOK(req[t].of, k, [at |-> "call", val |-> Fetch.val], began[t], known, left)
    BY DEF PartOK
  <2> QED
    BY <1>1, <2>1, <2>2, GoesStep
<1> QED
  BY <1>2, <1>3

(* So is what the node says now. *)
LEMMA CallStep ==
  ASSUME IInv, NEW t \in Tabs, req[t].at = "fetch", NEW k \in DOMAIN req[t].part,
         Call(t, k), UNCHANGED <<nodeVars, began, left>>
  PROVE  IInv'
<1> DEFINE o == req[t].of
<1>1. cache' = cache /\ CacheOK(cache, known, left) /\ NodeOK
  BY DEF Call, IInv
<1>2. chain \in began[t] /\ (k = "tx" => o \in Txs)
  BY Distinct DEF IInv, TabOK, ReqOK
<1>3. ASSUME NEW v, Goes(t, k, "put", v), Good(k, o, v, known, left),
             k = "tx" /\ v.block = NoBlock => o \notin Mined(chain)
      PROVE  IInv'
  <2>1. PartOK(o, k, [at |-> "put", val |-> v], began[t], known, left)
    BY <1>2, <1>3 DEF PartOK
  <2> QED
    BY <1>1, <1>3, <2>1, GoesStep
<1>4. CASE k = "blk" /\ o \in known /\ Goes(t, k, "put", Block(o))
  <2>1. Good(k, o, Block(o), known, left)
    BY <1>4 DEF Good, Block
  <2> QED
    BY <1>3, <1>4, <2>1
<1>5. CASE k = "blkstats" /\ o \in known /\ Goes(t, k, "put", Stats(o))
  <2>1. Good(k, o, Stats(o), known, left)
    BY <1>5 DEF Good, Stats
  <2> QED
    BY <1>3, <1>5, <2>1
<1>6. CASE k = "tx" /\ FoundTx(o) /\ Goes(t, k, "put", Tx(o))
  BY <1>1, <1>2, <1>3, <1>6, TxIsGood
<1>7. CASE Goes(t, k, "failed", Fetch.val)
  <2>1. PartOK(o, k, [at |-> "failed", val |-> Fetch.val], began[t], known, left)
    BY DEF PartOK
  <2> QED
    BY <1>1, <1>7, <2>1, GoesStep
<1> QED
  BY <1>4, <1>5, <1>6, <1>7 DEF Call, Asked

(* What is stored is an answer that may be. *)
LEMMA StoreStep ==
  ASSUME IInv, NEW t \in Tabs, req[t].at = "fetch", NEW k \in DOMAIN req[t].part,
         Store(t, k), UNCHANGED <<nodeVars, began, left>>
  PROVE  IInv'
<1> DEFINE v == req[t].part[k].val
           key == <<k, req[t].of>>
<1>1. /\ Goes(t, k, "ok", v) /\ req[t].part[k].at = "put"
      /\ CacheOK(cache, known, left)
  BY DEF Store, IInv
<1>2. PartOK(req[t].of, k, req[t].part[k], began[t], known, left)
  BY DEF IInv, TabOK, ReqOK
<1>3. /\ Good(k, req[t].of, v, known, left)
      /\ PartOK(req[t].of, k, [at |-> "ok", val |-> v], began[t], known, left)
  BY <1>1, <1>2 DEF PartOK
<1>4. CacheOK(cache', known, left)
  <2>1. CASE ~Cacheable(k, v)
    BY <1>1, <2>1 DEF Store
  <2>2. CASE Cacheable(k, v)
    <3>1. cache' \in AfterPut(cache, key, v)
      BY <2>2 DEF Store, Key
    <3>2. \A i \in DOMAIN cache' :
            \/ i = key /\ cache'[i] = v
            \/ i \in DOMAIN cache /\ cache'[i] = cache[i]
      BY <3>1 DEF AfterPut
    <3>3. key[1] = k /\ key[2] = req[t].of
      OBVIOUS
    <3> HIDE DEF key, v
    <3> QED
      BY <1>1, <1>3, <2>2, <3>2, <3>3 DEF CacheOK, Cacheable
  <2> QED
    BY <2>1, <2>2
<1> QED
  BY <1>1, <1>3, <1>4, GoesStep

(* The page of parts that are all answered. *)
LEMMA RenderStep ==
  ASSUME IInv, NEW t \in Tabs, req[t].at = "fetch", Render(t),
         UNCHANGED <<nodeVars, began, left>>
  PROVE  IInv'
<1> DEFINE q == req[t]
<1>1. cache' = cache /\ ReqOK(q, began[t], known, left)
  BY DEF Render, IInv, TabOK
<1>2. CASE Answer(t, ErrorPage)
  BY <1>1, <1>2, AnswerStep, ErrorIsPage
<1>3. CASE ~Failed(t) /\ Answer(t, IF "tx" \in DOMAIN q.part THEN TxPage(t)
                                   ELSE BlockPage(t))
  <2>1. \A k \in DOMAIN q.part : q.part[k].at = "ok"
    BY <1>3 DEF Render, Failed, Ended
  <2>2. \A k \in DOMAIN q.part :
          /\ Good(k, q.of, q.part[k].val, known, left)
          /\ k = "tx" /\ q.part[k].val.block = NoBlock =>
               \E c \in began[t] : q.of \notin Mined(c)
    BY <1>1, <2>1 DEF ReqOK, PartOK
  <2>3. CASE DOMAIN q.part = BlockParts
    <3>1. Answer(t, BlockPage(t))
      BY <1>3, <2>3, Distinct
    <3>2. /\ BlockPage(t).kind = "block" /\ BlockPage(t).id = q.id
          /\ BlockPage(t).blk = q.part["blk"].val
          /\ BlockPage(t).stats = q.part["blkstats"].val
      BY DEF BlockPage
    <3>3. /\ q.part["blk"].val.block = q.of /\ q.part["blkstats"].val.block = q.of
          /\ q.of \in known
      BY <2>2, <2>3, Distinct DEF Good
    <3>4. q.id \in Heights => \E c \in began[t] : q.id \in DOMAIN c /\ c[q.id] = q.of
      BY <1>1, <2>3, Distinct DEF ReqOK
    <3>5. PageOK(BlockPage(t), began[t], known, left)
      BY <3>2, <3>3, <3>4 DEF PageOK
    <3> QED
      BY <1>1, <3>1, <3>5, AnswerStep
  <2>4. CASE DOMAIN q.part = {"tx"} /\ q.id = q.of /\ q.of \in Txs
    <3> DEFINE w == q.part["tx"].val
    <3>1. Answer(t, TxPage(t))
      BY <1>3, <2>4
    <3>2. /\ TxPage(t).kind = "tx" /\ TxPage(t).id = q.of /\ TxPage(t).conf = w.conf
          /\ w.conf > 0 => TxPage(t).block = w.block
          /\ TxPage(t).block \in {w.block, NoBlock}
      BY <2>4 DEF TxPage
    <3>3. /\ w.block = NoBlock => \E c \in began[t] : q.of \notin Mined(c)
          /\ q.of \notin left /\ w.block # NoBlock =>
               w.conf > 0 /\ q.of \in TxsOf[w.block]
          /\ w.block \in known \union {NoBlock}
      BY <2>2, <2>4 DEF Good
    <3>4. PageOK(TxPage(t), began[t], known, left)
      <4> HIDE DEF w, q
      <4> QED
        BY <3>2, <3>3 DEF PageOK
    <3> QED
      BY <1>1, <3>1, <3>4, AnswerStep
  <2> QED
    BY <1>1, <2>3, <2>4 DEF ReqOK
<1> QED
  BY <1>2, <1>3 DEF Render

LEMMA HandleStep == ASSUME IInv, NEW t \in Tabs, Handle(t) PROVE IInv'
<1>1. CASE Resolve(t)
  BY <1>1, ResolveStep
<1>2. CASE /\ req[t].at = "fetch"
           /\ \/ \E k \in DOMAIN req[t].part : Lookup(t, k) \/ Call(t, k) \/ Store(t, k)
              \/ Render(t)
           /\ UNCHANGED <<nodeVars, began, left>>
  BY <1>2, LookupStep, CallStep, StoreStep, RenderStep
<1> QED
  BY <1>1, <1>2 DEF Handle
-----------------------------------------------------------------------------
(* The node moves: blocks become known, transactions leave, and a request  *)
(* in progress has seen one more chain.                                    *)
LEMMA ReqStays ==
  ASSUME NEW r, NEW B, NEW K, NEW L, NEW B2, NEW K2, NEW L2,
         B \subseteq B2, K \subseteq K2, L \subseteq L2, ReqOK(r, B, K, L)
  PROVE  ReqOK(r, B2, K2, L2)
<1>1. ASSUME NEW k \in DOMAIN r.part PROVE PartOK(r.of, k, r.part[k], B2, K2, L2)
  <2>1. PartOK(r.of, k, r.part[k], B, K, L)
    BY DEF ReqOK
  <2> QED
    BY <2>1, GoodStays DEF PartOK
<1> QED
  BY <1>1 DEF ReqOK

LEMMA MovesStep ==
  ASSUME IInv, NodeOK', UNCHANGED reqVars,
         known \subseteq known', left \subseteq left',
         began' \in [Tabs -> Range(began')],
         \A t \in Tabs : /\ began[t] \subseteq began'[t]
                         /\ req[t].at = "idle" => began'[t] = began[t]
                         /\ req[t].at # "idle" => chain' \in began'[t]
  PROVE  IInv'
<1>1. UNCHANGED <<cache, req, page>>
  BY DEF reqVars
<1>2. CacheOK(cache', known', left')
  <2>1. CacheOK(cache, known, left)
    BY DEF IInv
  <2> QED
    BY <1>1, <2>1, GoodStays DEF CacheOK
<1>3. ASSUME NEW t \in Tabs PROVE TabOK(t)'
  <2>1. TabOK(t)
    BY DEF IInv
  <2>2. req[t].at = "fetch" => ReqOK(req[t], began'[t], known', left')
    BY <2>1, ReqStays DEF TabOK
  <2>3. PageOK(page[t], began'[t], known', left')
    <3>1. CASE req[t].at = "idle"
      BY <2>1, <3>1 DEF TabOK, PageOK
    <3>2. CASE req[t].at # "idle"
      BY <2>1, <3>2 DEF TabOK, PageOK, Blank
    <3> QED
      BY <3>1, <3>2
  <2> QED
    BY <1>1, <2>1, <2>2, <2>3 DEF TabOK
<1> QED
  BY <1>1, <1>2, <1>3 DEF IInv

LEMMA ChainMovesStep == IInv /\ ChainMoves => IInv'
<1> SUFFICES ASSUME IInv, ChainMoves PROVE IInv'
  OBVIOUS
<1>1. /\ chain' \in Chains /\ pool' \in Pools(chain')
      /\ indexed' = [y \in Txs |-> IF y \in Mined(chain') THEN BlockOf(chain', y)
                                   ELSE indexed[y]]
      /\ known' = known \union Range(chain')
      /\ began' = [t \in Tabs |-> IF req[t] = Idle THEN began[t]
                                  ELSE began[t] \union {chain'}]
      /\ left' = left \union (Mined(chain) \ Mined(chain'))
      /\ UNCHANGED reqVars
  BY DEF ChainMoves, NewTip
<1>2. \A y \in Txs : y \in Mined(chain') =>
        BlockOf(chain', y) \in Range(chain') /\ y \in TxsOf[BlockOf(chain', y)]
  BY MinedHasBlock
<1>3. Mined(chain)' = Mined(chain') /\ Range(chain)' = Range(chain')
  BY DEF Mined, Range
<1>4. Range(chain') \subseteq Blocks
  BY <1>1, ChainIsSeq
<1>5. NodeOK'
  <2>1. chain' \in Chains /\ pool' \subseteq Txs \ Mined(chain')
    BY <1>1 DEF Pools
  <2>2. known' \subseteq Blocks /\ Range(chain') \subseteq known'
    BY <1>1, <1>4 DEF IInv, NodeOK
  <2>3. /\ indexed' \in [Txs -> known' \union {NoBlock}]
        /\ \A y \in Txs : y \in Mined(chain') =>
             indexed'[y] \in Range(chain') /\ y \in TxsOf[indexed'[y]]
    BY <1>1, <1>2 DEF IInv, NodeOK
  <2>4. \A y \in Txs \ left' : indexed'[y] # NoBlock => y \in Mined(chain')
    BY <1>1 DEF IInv, NodeOK
  <2> QED
    BY <1>3, <2>1, <2>2, <2>3, <2>4 DEF NodeOK
<1>6. \A t \in Tabs : (req[t].at = "idle") <=> (req[t] = Idle)
  BY DEF IInv, TabOK, Idle
<1> QED
  BY <1>1, <1>5, <1>6, MovesStep DEF Range

LEMMA PoolMovesStep == IInv /\ PoolMoves => IInv'
<1> SUFFICES ASSUME IInv, PoolMoves PROVE IInv'
  OBVIOUS
<1>1. /\ pool' \in Pools(chain)
      /\ UNCHANGED <<chain, indexed, known, began, left>> /\ UNCHANGED reqVars
  BY DEF PoolMoves, Relay
<1>2. NodeOK'
  BY <1>1 DEF IInv, NodeOK, Pools, Mined
<1>3. began' \in [Tabs -> Range(began')]
  BY <1>1 DEF IInv
<1>4. \A t \in Tabs : req[t].at # "idle" => chain' \in began'[t]
  BY <1>1 DEF IInv, TabOK
<1> QED
  BY <1>1, <1>2, <1>3, <1>4, MovesStep

(* Every step preserves the invariant. *)
LEMMA StepIInv == IInv /\ [Next]_vars => IInv'
<1> SUFFICES ASSUME IInv, [Next]_vars PROVE IInv'
  OBVIOUS
<1>1. CASE UNCHANGED vars
  <2>1. /\ UNCHANGED <<chain, pool, indexed, known, began, left>>
        /\ UNCHANGED reqVars
    BY <1>1 DEF vars, nodeVars
  <2>2. NodeOK' /\ began' \in [Tabs -> Range(began')]
    BY <2>1 DEF IInv, NodeOK, Mined
  <2>3. \A t \in Tabs : req[t].at # "idle" => chain' \in began'[t]
    BY <2>1 DEF IInv, TabOK
  <2> QED
    BY <2>1, <2>2, <2>3, MovesStep
<1> QED
  BY <1>1, OpenStep, HandleStep, ChainMovesStep, PoolMovesStep DEF Next

LEMMA Shown ==
  IInv => TypeOK /\ HalvesAgree /\ HeightIsResolvedNow /\ MinedIsShownMined
<1> SUFFICES ASSUME IInv
             PROVE  TypeOK /\ HalvesAgree /\ HeightIsResolvedNow /\ MinedIsShownMined
  OBVIOUS
<1>1. \A t \in Tabs : PageOK(page[t], began[t], known, left)
  BY DEF IInv, TabOK
<1>2. NodeOK /\ CacheOK(cache, known, left)
  BY DEF IInv
<1>3. TypeOK
  BY <1>1, <1>2 DEF TypeOK, NodeOK, CacheOK, Good, PageOK
<1>4. HalvesAgree /\ HeightIsResolvedNow /\ MinedIsShownMined
  BY <1>1 DEF HalvesAgree, HeightIsResolvedNow, MinedIsShownMined, PageOK
<1> QED
  BY <1>3, <1>4
-----------------------------------------------------------------------------
(* The inductive invariant holds in every reachable state. *)
THEOREM Invariance == Spec => []IInv
<1> QED
  BY InitIInv, StepIInv, PTL DEF Spec

(* Only answers of the node are ever cached, under a key of their kind,    *)
(* and only they are shown: no page is built of a part that failed.        *)
THEOREM PagesTypeOK == Spec => []TypeOK
<1> QED
  BY Shown, Invariance, PTL

(* The two halves of a block page are of the same block. *)
THEOREM PagesHalves == Spec => []HalvesAgree
<1> QED
  BY Shown, Invariance, PTL

(* The cache never brings back a block that was replaced at its height. *)
THEOREM PagesHeights == Spec => []HeightIsResolvedNow
<1> QED
  BY Shown, Invariance, PTL

(* What stays mined is shown mined, in its block. *)
THEOREM PagesMined == Spec => []MinedIsShownMined
<1> QED
  BY Shown, Invariance, PTL
=============================================================================
