------------------------------- MODULE FanOut -------------------------------
(***************************************************************************)
(* The second half of doHistoryScan (internal/explorer/scan_history.go):   *)
(* once scanblocks has named the relevant blocks, one goroutine per block  *)
(* fetches it, at most Limit of them at a time, in an errgroup whose first *)
(* error cancels the others; when all have returned the transactions that  *)
(* pay the address are collected from the blocks.  HistoryScan takes all   *)
(* of this for one step, Fetched.                                          *)
(***************************************************************************)
EXTENDS Naturals, Sequences, FiniteSets

CONSTANTS
  Relevant,   \* the blocks scanblocks named: sequences of transactions, each
              \* the sequence of the addresses that its outputs pay
  Addr,       \* the address whose history is scanned
  Limit,      \* capacity of the semaphore
  NoError        \* no error

Calls == DOMAIN Relevant

ASSUME RelevantAssumption == Relevant \in Seq(Seq(Seq(STRING))) /\ Len(Relevant) > 0
ASSUME LimitAssumption == Limit \in Nat \ {0}
ASSUME NoErrorAssumption == NoError \notin Calls

VARIABLES
  at,       \* where the goroutine of each block is
  res,      \* what its call came to
  blocks,   \* blocks[i] of the code, empty until it is decoded
  sem,      \* tokens in the channel sem
  err,      \* g.err: the goroutine whose error was kept, or NoError
  main,     \* doHistoryScan: g.Wait, the loops that follow, or its outcome
  pos,      \* the block and the transaction the loops are at
  txs       \* the transactions found so far, by block and place

fanVars == <<at, res, blocks, sem, err, main, pos, txs>>

(* Goroutines that hold a token: their call was sent before the group was  *)
(* cancelled (call) or after it (late).                                    *)
Holds(i) == at[i] \in {"call", "late"}

FanInit ==
  /\ at = [i \in Calls |-> "ready"]
  /\ res = [i \in Calls |-> "none"]
  /\ blocks = [i \in Calls |-> <<>>]
  /\ sem = 0
  /\ err = NoError
  /\ main = "wait"
  /\ pos = <<1, 1>>
  /\ txs = <<>>
-----------------------------------------------------------------------------
(* sem <- struct{}{}, which the cancellation does not interrupt; then the  *)
(* call, which is not sent once the context is cancelled.                  *)
Acquire(i) ==
  /\ at[i] = "ready"
  /\ sem < Limit
  /\ sem' = sem + 1
  /\ at' = [at EXCEPT ![i] = IF err = NoError THEN "call" ELSE "late"]
  /\ UNCHANGED <<res, blocks, err, main, pos, txs>>

(* Slip: the token is given back on success only. *)
ReturnsKeepingToken(i, r) ==
  /\ at' = [at EXCEPT ![i] = "returned"]
  /\ res' = [res EXCEPT ![i] = r]
  /\ sem' = IF r = "ok" THEN sem - 1 ELSE sem

(* Slip: the token is given back by the call and by the defer. *)
ReturnsTwoTokens(i, r) ==
  /\ at' = [at EXCEPT ![i] = "returned"]
  /\ res' = [res EXCEPT ![i] = r]
  /\ sem' = IF r = "ok" THEN sem - 1 ELSE sem - 2

(* The function of goroutine i returns r; the defer takes the token back   *)
(* before the errgroup sees r.                                             *)
Returns(i, r) ==
  /\ at' = [at EXCEPT ![i] = "returned"]
  /\ res' = [res EXCEPT ![i] = r]
  /\ sem' = sem - 1

(* Answered and decoded. *)
Decoded(i) ==
  /\ at[i] = "call"
  /\ blocks' = [blocks EXCEPT ![i] = Relevant[i]]
  /\ Returns(i, "ok")
  /\ UNCHANGED <<err, main, pos, txs>>

(* The call fails on its own account: node, credentials, timeout, decoding *)
(* (what was decoded by then is never looked at).                          *)
Fails(i) ==
  /\ Holds(i)
  /\ Returns(i, "failed")
  /\ UNCHANGED <<blocks, err, main, pos, txs>>

(* The call ends because the context of the group was cancelled. *)
Cancelled(i) ==
  /\ Holds(i) /\ err # NoError
  /\ Returns(i, "cancelled")
  /\ UNCHANGED <<blocks, err, main, pos, txs>>

(* Slip: each error replaces the one before. *)
ReportLast(i) ==
  /\ at[i] = "returned"
  /\ at' = [at EXCEPT ![i] = "done"]
  /\ err' = IF res[i] # "ok" THEN i ELSE err
  /\ UNCHANGED <<res, blocks, sem, main, pos, txs>>

(* errgroup: the first error is kept and cancels the context; wg.Done. *)
Report(i) ==
  /\ at[i] = "returned"
  /\ at' = [at EXCEPT ![i] = "done"]
  /\ err' = IF err = NoError /\ res[i] # "ok" THEN i ELSE err
  /\ UNCHANGED <<res, blocks, sem, main, pos, txs>>

Goroutine(i) == Acquire(i) \/ Decoded(i) \/ Fails(i) \/ Cancelled(i) \/ Report(i)
-----------------------------------------------------------------------------
(* g.Wait. *)
Wait ==
  /\ main = "wait"
  /\ \A i \in Calls : at[i] = "done"
  /\ main' = IF err = NoError THEN "collect" ELSE "error"
  /\ UNCHANGED <<at, res, blocks, sem, err, pos, txs>>

Pays(tx) == \E v \in DOMAIN tx : tx[v] = Addr

(* Slip: without the break, one row per output. *)
VisitAllOutputs ==
  LET b == pos[1]  k == pos[2]
      hits == { v \in DOMAIN blocks[b][k] : blocks[b][k][v] = Addr }
  IN  /\ main = "collect" /\ b \in Calls /\ k \in DOMAIN blocks[b]
      /\ txs' = txs \o [n \in 1..Cardinality(hits) |-> pos]
      /\ pos' = <<b, k + 1>>
      /\ UNCHANGED <<at, res, blocks, sem, err, main>>

(* One transaction of a block; one match is enough. *)
Visit ==
  LET b == pos[1]  k == pos[2]
  IN  /\ main = "collect" /\ b \in Calls /\ k \in DOMAIN blocks[b]
      /\ txs' = IF Pays(blocks[b][k]) THEN Append(txs, pos) ELSE txs
      /\ pos' = <<b, k + 1>>
      /\ UNCHANGED <<at, res, blocks, sem, err, main>>

NextBlock ==
  LET b == pos[1]  k == pos[2]
  IN  /\ main = "collect" /\ b \in Calls /\ k \notin DOMAIN blocks[b]
      /\ pos' = <<b + 1, 1>>
      /\ UNCHANGED <<at, res, blocks, sem, err, main, txs>>

Return ==
  /\ main = "collect" /\ pos[1] \notin Calls
  /\ main' = "history"
  /\ UNCHANGED <<at, res, blocks, sem, err, pos, txs>>

Main == Wait \/ Visit \/ NextBlock \/ Return

FanNext == Main \/ \E i \in Calls : Goroutine(i)

FanSpec == FanInit /\ [][FanNext]_fanVars

(* Goroutines are scheduled, and calls end: 30 s at the latest.  A channel *)
(* that has room is given to some sender, and with finitely many senders   *)
(* each is served.                                                         *)
FanFairSpec == FanSpec /\ WF_fanVars(Main) /\ \A i \in Calls : WF_fanVars(Goroutine(i))
-----------------------------------------------------------------------------
Status == {"ready", "call", "late", "returned", "done"}

(* Types; the semaphore counts the calls in flight, Limit at most.         *)
FanTypeOK ==
  /\ at \in [Calls -> Status]
  /\ res \in [Calls -> {"none", "ok", "failed", "cancelled"}]
  /\ DOMAIN blocks = Calls
  /\ \A i \in Calls : blocks[i] \in {<<>>, Relevant[i]}
  /\ sem = Cardinality({i \in Calls : Holds(i)}) /\ sem <= Limit
  /\ err \in Calls \union {NoError}
  /\ main \in {"wait", "collect", "history", "error"}
  /\ pos \in (1..(Len(Relevant) + 1)) \X (Nat \ {0})
  /\ txs \in Seq(Calls \X (Nat \ {0}))

Before(p, q) == p[1] < q[1] \/ (p[1] = q[1] /\ p[2] < q[2])

Matches == UNION { { <<b, k>> : k \in { k \in DOMAIN Relevant[b] :
                                          Pays(Relevant[b][k]) } } : b \in Calls }

(* A history that is answered is whole: whatever order the blocks came in, *)
(* every transaction that pays the address is in it, once, in the order of *)
(* the chain; a block that could not be fetched is never just missing.     *)
WholeHistory ==
  main = "history" =>
    /\ { txs[n] : n \in DOMAIN txs } = Matches
    /\ \A m, n \in DOMAIN txs : m < n => Before(txs[m], txs[n])

(* The error that is shown is the one that happened, never the             *)
(* cancellation that another goroutine met because of it.                  *)
CauseIsReported == err # NoError => res[err] = "failed"

(* The scan comes to an end, however many calls fail.                      *)
FetchEnds == <>(main \in {"history", "error"})
=============================================================================
