# Verification of mempunk

TLA+ models of mempunk, a block explorer in Go that serves pages from a Bitcoin
Core node over JSON-RPC and keeps nothing but one bounded cache and two scan
slots in memory. `PROJECT.json` lists the runs, the lines each definition
translates, the hazards and the proved theorems.

## The system

| Component | State | Operations | Interacts with |
|---|---|---|---|
| LRU cache (`internal/cache`) | list, map, entries, capacity, one mutex | `New`, `Get`, `Put`, `evict` | called by block and transaction pages from concurrent requests |
| UTXO scan (`scan_utxo.go`) | one job slot under `utxoMu`; the goroutine of the job | `PollUTXOScan`, `runUTXOScan` | browser meta refresh; `scantxoutset status/start` of the node |
| History scan (`scan_history.go`) | one job slot under `histMu`; goroutines, displaced ones included | `PollHistoryScan`, `runHistoryScan`, `doHistoryScan` | browser meta refresh; `scanblocks`, then many `getblock` |
| JSON-RPC client (`internal/rpc`) | two timeout profiles; credentials read per call | `Call`, `CallScan`, `Ping` | the node and its cookie file |
| Configuration (`internal/config`) | the resolved configuration | `Load`: parse, `applyEnv`, `applyDefaults`, `Validate` | file and `MEMPUNK_*` environment |
| Startup (`cmd/mempunk`) | how far `run` is | load, ping, create the cache, serve | node, configuration |
| Overview (`overview.go`) | none | `BuildOverview`: one call, then two groups of concurrent calls | node |
| Block and transaction pages | none of their own; the cache | `BuildBlock`, `BuildTx` with concurrent calls, some of them best effort | cache, node |
| Search, address page, error mapping | none | `Search`, `ProbeHex`, `BuildAddress`, `httpError`; redirects to the pages | node, browser |
| Node page, health, rendering | none | one request, a few calls, one page | node |

What is hard, and what makes each part correct:

* **The scans.** A handler reads the slot, drops the lock, asks the node, takes
  the lock again; another request, the goroutine, a restart or another client of
  the node may act in every gap, and the result is read after the last unlock.
  Correct means: one scan of a type at a time, an answer that belongs to the
  address and that the slot justified at one instant, and no tab that waits for
  ever.
* **The cache.** Three structures change together over arbitrarily long runs of
  calls. Correct means that they describe one set of entries and that what is
  evicted is what was unused for longest.
* **Configuration and startup.** Two sources and a set of defaults. Correct means
  that the environment decides, that derived defaults follow what was decided,
  and that nothing is served from a node of another chain.
* **Fan-outs.** One goroutine per call, at most eight in flight, the first error
  cancels the rest. Correct means: everything or the error that happened, nothing
  lost or counted twice, and no wait that never ends.
* **The client.** The node replaces its cookie whenever it starts. Correct means
  that a call is refused only if the cookie changed while the call was on its way.
* **Search and errors.** A string is classified, probed and validated again by the
  page it leads to, and an error becomes a status by its text. Correct means that
  the browser lands where the string belongs, and that what is there is found.
* **Pages.** Several calls of a node whose chain moves in between, some of them
  answered from the cache. Correct means that the parts of a page belong together
  and that the cache brings back nothing that had been replaced before the request;
  that each row of the overview was active at its height since the tip was read; and
  that what a page says of an output or of the mempool was true meanwhile.

## Modules

| Module | Models | Source |
|---|---|---|
| `CacheCalls` | what a caller of the cache sees: results, and the maps a `Put` may leave | `internal/cache/cache.go` |
| `RecencyCache` | abstract cache: reuse distances, no list, no eviction | what `cache.go` promises |
| `MapCache` | abstract cache: a map that may forget one entry when a new key is put | what the handlers take the cache for |
| `LRUCache` | list, map, entries; `Get`, `Put`, `evict` | `internal/cache/cache.go` |
| `LRUCacheRefinement` | history variables and the mappings to `RecencyCache` and to `MapCache` | |
| `LRUCacheProofs` | theorems about all of these | |
| `ScanSlot` | abstract slot: one scan, atomic answers | what a slot promises |
| `UTXOScan` | the UTXO scan with node, tabs, restarts | `internal/explorer/scan_utxo.go` |
| `HistoryScan` | the history scan with displacement | `internal/explorer/scan_history.go` |
| `FanOut` | the second half of `doHistoryScan`: errgroup, semaphore, collection | `internal/explorer/scan_history.go` |
| `Config` | resolving a configuration (pure operators) | `internal/config` |
| `Startup` | the steps of `run` | `cmd/mempunk/main.go`, `internal/rpc/ping.go` |
| `Node` | Bitcoin Core as the pages see it: chain, mempool, index (external) | |
| `Pages` | block and transaction pages over the cache; extends `Node` | `block.go`, `tx.go`, `cachedCall` in `explorer.go` |
| `Overview` | the overview page; extends `Node` | `internal/explorer/overview.go` |
| `TxView` | what a transaction page adds to the transaction; extends `Node` | `internal/explorer/tx.go` |
| `Client` | one JSON-RPC call, its credentials, and a node that stops and starts | `internal/rpc/client.go`, `ResolveAuth` in `config.go` |
| `Requests` | search, the pages behind it, error mapping; extends `Client` | `internal/handlers`, `internal/explorer/search.go`, `address.go` |
| `*Proofs` | theorems about the module they are named after; `HistoryScanProofs` also about `FanOut` | |
| `MC*` | constants for TLC | |

`FanOut` is the detail of one step of `HistoryScan` (`Fetched`: all blocks, or an error),
and `TxView` takes from `Pages` that an answer in the cache may be of any age; they are
checked apart, each with the detail its own questions need. Two theorems join what is
apart: `FanOut` implements `Fetched`, and `LRUCache` implements `MapCache`, whose puts
(`AfterPut`) are the ones that `Pages` allows.

**Cache.** `ll`, `items`, `entry` are the Go list, map and entries; `ret` is what
the last call returned. `Get` and `Put` hold the mutex for their whole body, so
each of their branches (`GetMiss`, `GetHit`, `PutDisabled`, `PutExisting`,
`PutNew`, the last with the call of `evict`) is an action. Elements of the list
have identities that are reused, as freed memory is.

**Scans.** A tab has an address for good and at most one request at a time; two
tabs may have the same address. `pc` is the point of `PollUTXOScan` the request
is at: `deliver` (unlocked, about to read the job), `progress`, `status` (unlocked, about
to ask the node), `relock`. A job is a `*scanJob` with an identity, held by
the slot, its goroutine or a request, and reused when nobody holds it; so a
stale pointer would be seen. The goroutine's steps are in `at`. The node runs at
most one scan: a job's, or a *foreign* one (another client's, or left over from a
job that stopped waiting). `Restart` loses slot, jobs and requests and leaves
the node's scan. Amounts, rows and progress are left out; `res` says which of
`job.val` and `job.err` a page shows. The handler's unconditional `vm.Done` is
covered by `TypeOK`: no page is ever built from a nil view.

**Pages.** A request is at `resolve` (`resolveBlockID`) or at `fetch`, where each
of its parts (`blk` and `blkstats`, concurrently, or `tx`) looks up the cache,
calls the node, stores and ends; `Render` waits for all of them, as `g.Wait` does.
A call may fail at any time, which stands for errors, timeouts and cancellation.
The cache is a map from which a `Put` of a new key may evict any one entry, the new
one included: what `cache.go` evicts is one way to choose. `Node` moves between any two
steps: `NewTip` takes the chain to a longer one of any branch, `Relay` changes the
mempool; the index names the last block that was connected with a transaction.
`began` and `left` are history variables for the properties. Of a payload only
the block, its successor and the confirmations are kept.

**Fan-out.** `at[i]` is where the goroutine of block `i` is: `ready` (before
`sem <-`), `call` (sent), `late` (it got its token after the cancellation, so that
the call is never sent), `returned` (its function has returned and the defer has
given the token back), `done` (the errgroup has seen the result). `err` is the
goroutine whose error the group kept. The loops that collect the transactions are
`Visit` and `NextBlock`, at `pos`. A block is a sequence of transactions, a
transaction the sequence of the addresses its outputs pay.

**Overview.** `at` is `info`, `hashes` or `blocks`: the call before the groups, or
the group under way; `part[i]` is what the call for row `i` has come to. `seen` (the
active chains since the tip was read) and `broke` (a call failed on its own account)
are history variables. The heights of the model count from 1, those of the node from 0.

**Transaction view.** `cached` is the answer for the one transaction `x` in the
cache. `Hit`, `Miss` and `Fails` are `cachedTx`; `Goes` is the branch on
`vm.Confirmed`; `TxOut` and `TxOutFails` are the goroutines of the group, whose
errors are dropped; `Entry` is `getmempoolentry`. `past` is a history variable: what
was true of `x` at some instant since the tab asked.

**Client and requests.** A call is at `auth` (before `ResolveAuth`), `sent` or `over`,
and `out` is its outcome. `secret` counts the starts of the node, `cookie` is the
content of its file, `gen` (history) the secret at the time the file was read. A
request has a handler (`by`), the handler that redirected to it (`via`), the shape
of its string and the method it has called (`step`). Of a string only the shape
matters that the classifiers tell apart, and what it names on the node (`thing`).

**Configuration.** A configuration is a function from fields to values with the
Go zero values for what is absent. Parse errors are the free choice of `Load` to
fail.

Definitions under a `Slip:` comment are deliberately wrong variants of the
definition that follows; no action uses them. Each shows that a property is able
to fail (`mutants` in `PROJECT.json`).

## Runs

| Run | Instance | Shows |
|---|---|---|
| `lru_cache` | 4 keys, 2 values, capacities -1, 0, 1, 2, 3, 5, 4 elements | types, `ListMatchesMap`, `RecencyInv`, refinement of `RecencyCache` and of `MapCache` |
| `utxo_scan` | 2 tabs, 2 addresses, 3 job identities, 1 restart, 1 foreign scan | `OneScanAtATime`, `ResultIsOwn`, refinement of `ScanSlot` without displacement; under fairness `SlotIsFreed`, `WaitingEnds` |
| `history_scan` | 2 tabs, 2 addresses, 2 identities, 1 restart | `ResultIsOwn`, `NoHistoryWithoutIndex`, refinement of `ScanSlot` with displacement; under fairness `JobsEnd`, `WaitingEnds` |
| `fanout` | 5 blocks, 2 tokens | the semaphore counts the calls in flight; `WholeHistory`, `CauseIsReported`; under fairness `FetchEnds` |
| `overview` | 3 rows, a tree of 9 blocks, reorganisations 3 blocks deep | `RowsWereActive`, `ErrorIsEarned`; under fairness `OverviewEnds` |
| `pages` | 2 tabs, 5 blocks on 3 branches, 1 transaction, asked for by height, hash and txid | types (no page of a part that failed), `HalvesAgree`, `HeightIsResolvedNow`, `MinedIsShownMined` |
| `tx_view` | 3 outputs (one spent by a second transaction, one data output), 6 blocks on 2 branches | `SpentIsTrue`, `PooledIsShownPooled` |
| `requests` | 8 shapes of strings, 2 starts of the node | `RedirectIsRight`, `WhatIsThereIsFound`, `ServerErrorIsEarned`, `RefusedOnlyByRotation`; under fairness `EveryRequestEnds` |
| `startup` | files with one field changed, all pairs of variables | `ServesItsChain`, `PortFollowsNetwork`, `CredentialsSetLast` |
| `utxo_busy_error` | violated | error -8 is a final result, not retried |
| `history_no_index` | violated | a busy node is shown as one without the index |
| `pages_immutable` | a chain that only grows; violated | the next block makes what is cached of a confirmed transaction stale |

Bounds. Four keys over capacity 3 let a key be evicted while three others stay in any
order, and capacity 5 is never full; the proofs remove the bound. Two tabs on one
address race for the slot, on two addresses one replaces the job the other is about to
read; three identities are never short in `utxo_scan` (the old job, one held by a
request, the new one). `history_scan` has two, as it checks liveness without symmetry:
one in the slot, and one displaced that still runs or is held by a request. This is
narrower than the code, in which each refresh of a displaced tab may start a third
goroutine and a fourth: in the run such a poll waits until an identity is free. The
theorems about safety and the refinement are for any number of identities. One restart
and one foreign scan suffice to meet each point of a request and of a goroutine; more
only repeat it, and the proofs of the safety properties have no bound. In `fanout` three
goroutines wait for a token while two hold one, so that a failure meets calls that are
ready, under way and late at once; the blocks have a transaction that pays the address
twice, one that pays others first, and none that pays it. In `overview` the chain starts
shorter than the list, grows past it, and is reorganised below it. In `pages` the fork
has one block that is replaced and two ways to replace it: the transaction is mined
again at another height, or returns to the mempool, or is dropped; two tabs are the
least that let one store what the other looks up. In `tx_view` the spending transaction
is mined, pooled, replaced, or never arrives. Two starts of the node in `requests`
replace a cookie after an orderly stop and after a crash that left the old one behind.
`startup` explores every interaction of one file field with two variables.

Fairness. Handlers and goroutines are scheduled by the Go runtime, and every
call of the node is bounded by a client timeout (30 s, 5 min), so their steps are
weakly fair; a browser follows the meta refresh of a page that is scanning, and a
redirect; a scan of the node ends. The goroutines of `FanOut` are fair one by one:
a token that is free goes to some sender of the channel, and there are finitely many.
In `Overview` and `Requests` fairness of the handler as a whole is enough, as each of
its steps brings the request nearer to its end. Opening a page, a failing call, a
restart, a start of the node or a foreign scan is never assumed. `WaitingEnds` leaves
out the tab whose slot is taken by another address: with two tabs in turn displacing
each other's unseen results the code gives no more.

## Findings

Each of these is shown by a violated run and quoted with its lines in `PROJECT.json`:

* `utxo_busy_error`: the error of a lost race is stored as the result, although a
  comment promises a retry.
* `history_no_index`: history scans overlap, although the slot is documented as one scan
  at a time, and the overlap, or a scan left from before a restart, is then reported as
  a missing index.
* `pages_immutable`: confirmed transactions are cached as immutable together with their
  confirmations, which stand still until the entry is evicted, however many blocks follow.

Met while modelling, without a run of their own:

* `cache_size: 0` means 1000: `applyDefaults` (`config.go:293`) takes 0 for unset, while
  `README.md:103` documents it as disabled.
* Of two tabs that open the UTXO page of one address together, the one that loses the
  race is shown its own address as the one that blocks it (`scan_utxo.go:92`).
* `httpError` decides by words in the text of the error: an unknown transaction
  ("No such ...", a capital N) and a height out of range are answered 500, a missing
  cookie file ("no such file") and a body that is not JSON ("invalid character")
  404. `ServerErrorIsEarned` states what is left of the intention.
* The cached answer for a block has the same flaw: a block that was looked up as the tip
  keeps its one confirmation (`block.go:57`) and has no link to its successor
  (`block.go:65`) until it is evicted.
* A hash or txid of 64 decimal digits is taken for a height (`search.go:24`), although
  `README.md:26` promises the right view for either. It is redirected to the block page,
  which cannot parse it (`block.go:114`), and answered 404. `RedirectIsRight` and
  `WhatIsThereIsFound` name this exception; a random hash has no letter among its 64
  digits about once in 10^13.
* A failed `gettxout` is "unknown, not spent" to the comment (`tx.go:102`) and "unspent"
  on the page (`tx.html:146`), which has no third word for it.
* The outputs of an unconfirmed transaction are never asked for (`tx.go:95`), and
  `tx.html` shows every output that is not known to be spent as "unspent": also one that
  another transaction of the mempool spends. `SpentIsTrue` names this exception.
* `gettxout` answers null for data outputs, and for a transaction that is confirmed in the
  cache but was taken out of the chain: such outputs are shown as spent.
  `SpentIsTrue` leaves them out.
* The fee of a mempool transaction is taken from its entry only when inputs minus
  outputs is 0; without prevouts in the node's answer it is minus the outputs.
* `MinedIsShownMined` leaves out the transactions that a reorganisation took out of the
  chain. While such a transaction is dropped, the node's index still names its old
  block, with 0 confirmations, and `cachedTx` stores that answer because it has a block
  hash; mined again, the transaction is then shown as unconfirmed.
* The history lists the transactions that pay an address, not those that spend from
  it: `WholeHistory` is about the former.

## Proofs

`LRUCacheProofs` proves, for every set of keys, values and elements and every set of
integer capacities, that `TypeOK`, `ListMatchesMap` and `RecencyInv` are invariants of
`HSpec` and that `HSpec` implements `RecencyCache`. The invariant `IInv` is their
conjunction: neither part is inductive alone, since eviction removes the right key
from the map only if the element carries it, and the recency order is about the keys
of the elements. The one assumption is `CapacitiesAssumption`. The lemmas: moving an
element to the front permutes the list and keeps the order of the others; a new
element at the front, with or without the eviction of the back, keeps the order; a key
is held by the abstract cache exactly when it is mapped, because the element at
position i has i-1 keys used since. Each action is then one step of `RecencyCache`.
`CacheIsMap` proves that `HSpec` implements `MapCache` too: `TypeOK` and
`ListMatchesMap` give each branch of `Put` its place in `AfterPut`, and tell that the
key the eviction removes from the map is the one whose element leaves the list.

`UTXOScanProofs` proves, for any tabs, addresses, job identities and bounds, that
`TypeOK`, `OneScanAtATime` and `ResultIsOwn` are invariants of `Spec`, that
`FinishedIsFinal` holds of every step, and that `Spec` implements `ScanSlot`
without displacement. `IInv` adds to the three: `JobState` (`done` is set exactly
when the goroutine has returned, and an outcome with it) and `Holds` (exactly the
requests about to deliver hold a job). They are needed together: a new job may
take the slot only because nothing runs, which follows from an idle or finished
slot by `OneScanAtATime` and `JobState`; a held job keeps its result because the
only job that still changes is unfinished and is therefore held by nobody; and
its identity is not reused because it is held. Every action is then a step of
`ScanSlot` or a stutter: `PollDone` is `See`, `Start` is `Begin`, `Finish` is
`End`, the read after the unlock changes nothing. Assumptions:
`NoneAssumption`, `NodeAssumption`, `BoundsAssumption`.

`HistoryScanProofs` proves the same of the history scan where it holds: `TypeOK`,
`ResultIsOwn`, `NoHistoryWithoutIndex` and the refinement of `ScanSlot` with
displacement. Here any number of goroutines run, so the argument is about the one
that steps: `Shape` says that it changes its own record only, or drops it when it
returns displaced, and `HeldByShape` that this job is unfinished and so held by no
request. `JobState` also says what a goroutine can have come to without the
index. Assumptions: `NoneAssumption`, `NodeAssumption`, `BoundsAssumption`.

It also proves `FanTypeOK`, `WholeHistory` and `CauseIsReported` of `FanOut`, for any
blocks and any capacity of the semaphore. `FanInv` ties what a goroutine has come to to
its place (`Settled`: a result exactly when it has returned, the block decoded when the
result is `ok`, a cancellation only after an error was kept), says that the loops run
when every goroutine is over (`AllDone`), and that the transactions found so far are the
matches before `pos`, in order. The count of the semaphore is a cardinality, so its
lemmas are about adding one element to a finite set and taking one away. Assumptions:
`RelevantAssumption`, `LimitAssumption`, `NoErrorAssumption`. `FanOutImplementsFetched`
joins the two modules: with the job that fetches as the image of `main` and `err`, every
step of `FanOut` is the step `Fetched` of `HistoryScan` or leaves the job alone, so that
the history scan takes for one step nothing that the goroutines could make visible in
between.

`OverviewProofs` proves `RowsWereActive` and `ErrorIsEarned` (and its types) for every
tree of chains and every number of rows. The invariant says of each hash that a chain of
`seen` had it at the height of the row (`Hashed`); that no chain of `seen` is shorter
than the tip, as a chain gives way to a longer one only, so that a hash is refused only
below the genesis block (`Grown`, `Reasons`); and that every known block is on a branch,
where it has one height (`OnBranch`, `BranchesAssumption`). Assumptions:
`NoBlockAssumption`, `BranchesAssumption`, `RowsAssumption`.

`PagesProofs` proves `TypeOK`, `HalvesAgree`, `HeightIsResolvedNow` and
`MinedIsShownMined` for any tabs, chains and identifiers. The invariant says of every
cache entry (`CacheOK`) and of every part of a request (`PartOK`) that it is an answer
for what its key names, and that an entry for a transaction names a block; and of every
page (`PageOK`) that the blocks it shows are known to the node, which no failed part
gives: so the halves agree because both keys carry the resolved hash, and a mempool
answer is in no entry. `NodeOK` says that what was in a block and never left the chain
is in it still. Assumptions: `NoBlockAssumption`, `BranchesAssumption`, `IdsAssumption`
(no height is a hash).

`TxViewProofs` proves `SpentIsTrue` and `PooledIsShownPooled`. The invariant relates
each `gettxout` answer to `past` (`UpToNow`, `Witnessed`): null, while `x` was there
the whole time, means spent at that instant; a page of an unconfirmed transaction asks
for no output and so shows none as spent (`Place`); and what was never mined is neither
cached nor taken for confirmed (`Unmined`). Assumptions: `NoBlockAssumption`,
`BranchesAssumption`, `OutsAssumption`.

`RequestsProofs` proves `RedirectIsRight`, `WhatIsThereIsFound`,
`ServerErrorIsEarned`, `RefusedOnlyByRotation` and the types, for any number of starts
of the node. `Route` says which steps, shapes and redirects belong together, `Sent`
that a cookie that was sent is the one of the time it was read, and `Learnt` what an
outcome tells of the string: an absence of what was there the whole time is no
outcome. Both statements about search are about every shape of string, and name what
the code does not get right: 64 decimal digits. Assumption: `RestartsAssumption`.

`StartupProofs` proves `TypeOK`, `ServesItsChain`, `PortFollowsNetwork` and
`CredentialsSetLast` (the values, not only their kind) for any files and environments,
where the run explores those of its tables. The lemmas are about `Resolve`, one field at
a time: what is set is kept (`SetIsKept`), what is set nowhere takes its default
(`UnsetIsDefault`), the credentials have none, and the default port is that of the
network after its own default. `IInv` then says that what was loaded is `Resolve(file,
env)`, passed `Validate`, and stays. Assumptions: `FilesAssumption` and
`EnvsAssumption`, that the parser gives each field a value of its type.

Of the liveness properties, which rest on fairness and `ENABLED` and so are beyond the
prover as they stand, the part that is about the code is proved, for every value of
the constants: a measure shrinks at every step of the actor, no other step makes it
grow, and the actor is never left where nothing can move it.

| property, by TLC | theorem | what shrinks | why nobody is stuck |
|---|---|---|---|
| `FetchEnds` | `FanOutIsBounded` | the finite set of steps ahead of the goroutines and of `main` | if all wait for the semaphore its count is that of the empty set, below `Limit` |
| `SlotIsFreed` | `ScanIsBounded` | the steps of a goroutine (3) and of a handler (2) | a goroutine that waits waits for its own scan in the node |
| `JobsEnd` | `HistoryIsBounded` | the steps of a goroutine (4), displaced or not | the same |
| `OverviewEnds` | `OverviewIsBounded` | the moves left, then the finite set of calls of the group under way | the hash that the next call asks for is known |
| `EveryRequestEnds` | `RequestsAreBounded` | the stage of the request, then the step of its call | a request that is not done has a call under way or one to make |

What is left to TLC is that fairness turns this into an end, and that a step named
here is enabled. The guards are plain, so the second is seen by reading them.
`WaitingEnds` of the two scans stays wholly with TLC: it is about what repeated polls of
a tab find, and a poll that is told to come again brings nothing nearer by itself.

## Not modelled

The node page and health (independent calls whose answers are shown as they are),
rendering, formatting and view models, wire types, static files, logging and the
`rpccheck` tool: nothing in them depends on an order of events. Of the block page the
limit on listed transactions, of the transaction page amounts, fees and scripts, of
the scans the amounts and rows, of the error page its rendering are left out. Browsers
that give up are failing calls.
