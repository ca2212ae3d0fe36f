------------------------------- MODULE Pages -------------------------------
(***************************************************************************)
(* The block and transaction pages (internal/explorer/block.go, tx.go and  *)
(* cachedCall): concurrent requests that read through the cache, from a    *)
(* node whose chain moves between any two of their calls.  A block page    *)
(* fetches the block and its statistics concurrently, each through the     *)
(* cache; a transaction is cached only when the node names its block.      *)
(*                                                                         *)
(* The cache is that of MapCache, which LRUCache implements: a map, with   *)
(* any choice of the entry that Put evicts.                                *)
(***************************************************************************)
EXTENDS Node, FiniteSets, CacheCalls

CONSTANTS
  Tabs,       \* browser tabs
  Heights,    \* heights the tabs ask for
  Hashes      \* blocks the tabs ask for by hash

(* An id is taken for a height only if it is a number.                     *)
ASSUME IdsAssumption == Heights \intersect Hashes = {}

VARIABLES
  cache,     \* the entries of the cache: key |-> payload
  req,       \* the request of each tab
  page,      \* the page of each tab
  began,     \* history: the active chains since the request of a tab began
  left       \* history: transactions a reorganisation took out of the chain

reqVars == <<cache, req, page>>
vars == <<nodeVars, reqVars, began, left>>

(* A fetch looks up the cache, calls the node, stores, and ends. *)
Fetch == [at |-> "get", val |-> [block |-> NoBlock]]
Ended(f) == f.at \in {"ok", "failed"}

Idle == [at |-> "idle"]
Blank == [kind |-> "blank"]
ErrorPage == [kind |-> "error"]

(* A request for object `of', shown under the id it was asked for by. *)
Fetching(id, of, keys) ==
  [at |-> "fetch", id |-> id, of |-> of, part |-> [k \in keys |-> Fetch]]

BlockParts == {"blk", "blkstats"}
-----------------------------------------------------------------------------
Init ==
  /\ NodeInit
  /\ cache = [k \in {} |-> k]
  /\ req = [t \in Tabs |-> Idle]
  /\ page = [t \in Tabs |-> Blank]
  /\ began = [t \in Tabs |-> {}]
  /\ left = {}

Begin(t, r) ==
  /\ req[t] = Idle
  /\ req' = [req EXCEPT ![t] = r]
  /\ page' = [page EXCEPT ![t] = Blank]
  /\ began' = [began EXCEPT ![t] = {chain}]
  /\ UNCHANGED <<nodeVars, cache, left>>

(* A tab opens a page. *)
Open(t) ==
  \/ \E h \in Heights : Begin(t, [at |-> "resolve", id |-> h])
  \/ \E b \in Hashes  : Begin(t, Fetching(b, b, BlockParts))
  \/ \E x \in Txs     : Begin(t, Fetching(x, x, {"tx"}))

Answer(t, p) ==
  /\ page' = [page EXCEPT ![t] = p]
  /\ req' = [req EXCEPT ![t] = Idle]

(* resolveBlockID: getblockhash, which fails above the tip or anyway. *)
Resolve(t) ==
  /\ req[t].at = "resolve"
  /\ \/ /\ req[t].id \in DOMAIN chain
        /\ req' = [req EXCEPT ![t] =
                     Fetching(req[t].id, chain[req[t].id], BlockParts)]
        /\ UNCHANGED page
     \/ Answer(t, ErrorPage)
  /\ UNCHANGED <<nodeVars, cache, began, left>>

(* Slip: the key is made of what the tab asked for. *)
KeyOfId(t, k) == <<k, req[t].id>>

Key(t, k) == <<k, req[t].of>>

(* Part k of the request of t comes to point l, with value v. *)
Goes(t, k, l, v) ==
  /\ req' = [req EXCEPT ![t].part[k] = [at |-> l, val |-> v]]
  /\ UNCHANGED page

(* cachedCall, cachedTx: the cache. *)
Lookup(t, k) ==
  /\ req[t].part[k].at = "get"
  /\ IF Key(t, k) \in DOMAIN cache
     THEN Goes(t, k, "ok", cache[Key(t, k)])
     ELSE Goes(t, k, "call", Fetch.val)
  /\ UNCHANGED cache

(* Slip: the statistics are asked for by the id, which the RPC accepts. *)
AskedById(t, k) ==
  IF k = "blkstats" /\ req[t].id \in DOMAIN chain THEN chain[req[t].id]
  ELSE req[t].of

Asked(t, k) == req[t].of

(* Slip: the error of the call is not looked at. *)
CallIgnoringError(t, k) ==
  /\ req[t].part[k].at = "call"
  /\ LET o == Asked(t, k)
     IN  \/ k = "blk"      /\ o \in known /\ Goes(t, k, "put", Block(o))
         \/ k = "blkstats" /\ o \in known /\ Goes(t, k, "put", Stats(o))
         \/ k = "tx"       /\ FoundTx(o)  /\ Goes(t, k, "put", Tx(o))
         \/ Goes(t, k, "put", Fetch.val)
  /\ UNCHANGED cache

(* The call of the node: answered, an error, a timeout, or cancelled by    *)
(* the failure of the other part or by the browser.                        *)
Call(t, k) ==
  /\ req[t].part[k].at = "call"
  /\ LET o == Asked(t, k)
     IN  \/ k = "blk"      /\ o \in known /\ Goes(t, k, "put", Block(o))
         \/ k = "blkstats" /\ o \in known /\ Goes(t, k, "put", Stats(o))
         \/ k = "tx"       /\ FoundTx(o)  /\ Goes(t, k, "put", Tx(o))
         \/ Goes(t, k, "failed", Fetch.val)
  /\ UNCHANGED cache

(* Slip: every answer is cached. *)
CacheableAny(k, v) == TRUE

(* "Only cache confirmed (immutable) txs": those with a block hash. *)
Cacheable(k, v) == k = "tx" => v.block # NoBlock

Store(t, k) ==
  /\ req[t].part[k].at = "put"
  /\ LET v == req[t].part[k].val
     IN  /\ Goes(t, k, "ok", v)
         /\ IF Cacheable(k, v) THEN cache' \in AfterPut(cache, Key(t, k), v)
            ELSE UNCHANGED cache

Failed(t) == \E k \in DOMAIN req[t].part : req[t].part[k].at = "failed"

(* BuildBlock: both calls succeeded. *)
BlockPage(t) == [kind |-> "block", id |-> req[t].id,
                 blk |-> req[t].part["blk"].val,
                 stats |-> req[t].part["blkstats"].val]

(* BuildTx: Confirmed, and the block only with it.  The calls that follow  *)
(* are best effort, and in TxView.                                         *)
TxPage(t) ==
  LET tx == req[t].part["tx"].val
  IN  [kind |-> "tx", id |-> req[t].id, conf |-> tx.conf,
       block |-> IF tx.conf > 0 THEN tx.block ELSE NoBlock]

(* Every part has ended: an error, or the view model. *)
Render(t) ==
  /\ \A k \in DOMAIN req[t].part : Ended(req[t].part[k])
  /\ \/ Failed(t)  /\ Answer(t, ErrorPage)
     \/ ~Failed(t) /\ Answer(t, IF "tx" \in DOMAIN req[t].part
                                THEN TxPage(t) ELSE BlockPage(t))
  /\ UNCHANGED cache

Handle(t) ==
  \/ Resolve(t)
  \/ /\ req[t].at = "fetch"
     /\ \/ \E k \in DOMAIN req[t].part : Lookup(t, k) \/ Call(t, k) \/ Store(t, k)
        \/ Render(t)
     /\ UNCHANGED <<nodeVars, began, left>>

(* The chain moves under the requests. *)
ChainMoves ==
  /\ NewTip
  /\ began' = [t \in Tabs |-> IF req[t] = Idle THEN began[t]
                              ELSE began[t] \union {chain'}]
  /\ left' = left \union (Mined(chain) \ Mined(chain'))
  /\ UNCHANGED reqVars

PoolMoves == Relay /\ UNCHANGED <<reqVars, began, left>>

Next == (\E t \in Tabs : Open(t) \/ Handle(t)) \/ ChainMoves \/ PoolMoves

Spec == Init /\ [][Next]_vars
-----------------------------------------------------------------------------
(* Types; in particular only what the node answered is ever cached, under  *)
(* a key of its own kind, whichever request stored it, and no page is      *)
(* built of a part that failed: the blocks it shows are blocks of the node. *)
TypeOK ==
  /\ chain \in Chains /\ pool \subseteq Txs \ Mined(chain)
  /\ known \subseteq Blocks /\ Range(chain) \subseteq known
  /\ \A key \in DOMAIN cache :
       /\ key[1] \in BlockParts => key[2] \in known /\ cache[key].block \in known
       /\ key[1] = "tx" => key[2] \in Txs /\ cache[key].block \in known
  /\ \A t \in Tabs :
       /\ page[t].kind \in {"blank", "error", "block", "tx"}
       /\ page[t].kind = "block" =>
            page[t].blk.block \in known /\ page[t].stats.block \in known
       /\ page[t].kind = "tx" => page[t].block \in known \union {NoBlock}

(* The two halves of a block page, fetched and cached separately, are of   *)
(* the same block, although the chain may move between them.               *)
HalvesAgree ==
  \A t \in Tabs : page[t].kind = "block" => page[t].blk.block = page[t].stats.block

(* A page opened by height shows the block that was at this height in the  *)
(* active chain at some instant of the request: the cache never brings     *)
(* back the block that a reorganisation replaced.                          *)
HeightIsResolvedNow ==
  \A t \in Tabs : page[t].kind = "block" /\ page[t].id \in Heights =>
    \E c \in began[t] : page[t].id \in DOMAIN c /\ c[page[t].id] = page[t].blk.block

(* A transaction that was in the active chain during the whole request,    *)
(* and never left it, is shown as confirmed, in its block: what was        *)
(* answered while it was in the mempool is never remembered.               *)
MinedIsShownMined ==
  \A t \in Tabs : page[t].kind = "tx" =>
    \A x \in Txs \ left :
      page[t].id = x /\ (\A c \in began[t] : x \in Mined(c)) =>
        page[t].conf > 0 /\ x \in TxsOf[page[t].block]
-----------------------------------------------------------------------------
(* tx.go, of what cachedTx stores: "confirmed (immutable) txs".  The       *)
(* payload that is stored holds the confirmations, and they are what the   *)
(* page shows (tx.go:41).                                                  *)
CachedTxIsImmutable ==
  \A x \in Txs : <<"tx", x>> \in DOMAIN cache => cache[<<"tx", x>>] = Tx(x)
=============================================================================
