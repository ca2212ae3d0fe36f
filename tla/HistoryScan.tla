---------------------------- MODULE HistoryScan ----------------------------
(***************************************************************************)
(* Address history scans (internal/explorer/scan_history.go): tabs poll    *)
(* GET /address/:addr/history, PollHistoryScan starts runHistoryScan in    *)
(* the background.  Unlike the UTXO scan it asks neither the slot nor Core *)
(* whether another scan is running: a poll for another address replaces    *)
(* the job in the slot, whose goroutine runs on unseen, and the second     *)
(* scanblocks call meets a Core that is busy.  When the scan has found     *)
(* blocks the goroutine fetches them all before it finishes.               *)
(***************************************************************************)
EXTENDS Naturals, FiniteSets

CONSTANTS
  Tabs,          \* browser tabs
  Addrs,         \* addresses
  JobIds,        \* identities of *scanJob, reused once unreachable
  None,          \* the nil job
  MaxRestarts    \* bound on restarts of the server

ASSUME NoneAssumption == None \notin JobIds
ASSUME NodeAssumption == {"idle", "foreign"} \cap JobIds = {}
ASSUME BoundsAssumption == MaxRestarts \in Nat

VARIABLES
  shows,      \* the address in the URL of each tab
  indexOn,    \* the node runs with blockfilterindex
  slot,       \* e.histJob
  job,        \* the scanJob at each identity, with its goroutine's position
  node,       \* what scanblocks is doing: idle, foreign, or a job's scan
  pc,         \* where the request of each tab is
  ref,        \* the job a request that is to deliver its result holds
  page,       \* the page each tab shows
  restarts    \* restarts so far

vars == <<shows, indexOn, slot, job, node, pc, ref, page, restarts>>

(* What the RPCs of the goroutine come to: every block fetched, no block   *)
(* relevant, error -8 or -1, any other error.                              *)
Answers == {"blocks", "empty", "noindex", "busy", "failed"}

(* What a job ends with: a list of transactions, the NoIndex view, or an   *)
(* error.                                                                  *)
Outcome == {"ok", "noindex", "failed"}

(* Slip: an error of the RPC is taken for an empty answer. *)
ViewIgnoringErrors(o) ==
  IF o \in {"blocks", "empty", "noindex"} THEN "ok"
  ELSE IF o = "busy" THEN "noindex" ELSE "failed"

(* The view of an answer: errors -8 and -1 become NoIndex. *)
View(o) == IF o \in {"blocks", "empty"} THEN "ok"
           ELSE IF o \in {"noindex", "busy"} THEN "noindex" ELSE "failed"

(* at: the goroutine is about to call scanblocks start, waits for it,      *)
(* fetches blocks, has what doHistoryScan answered, or has returned.       *)
Job == [addr : Addrs, at : {"start", "wait", "fetch", "answered", "returned"},
        answer : Outcome \union {"none"}, done : BOOLEAN,
        res : Outcome \union {"nil"}]

NewJob(a) == [addr |-> a, at |-> "start", answer |-> "none",
              done |-> FALSE, res |-> "nil"]

Running(j) == j \in DOMAIN job /\ job[j].at # "returned"

(* The jobs reachable from slot s, a goroutine or a request of the tabs    *)
(* ts; the others are garbage, and their identities free for a new job.    *)
Live(s, ts) ==
  { j \in DOMAIN job : j = s \/ Running(j) \/ \E t \in ts : ref[t] = j }

Blank          == [kind |-> "blank"]
ScanningPage   == [kind |-> "scanning"]
DonePage(a, r) == [kind |-> "done", addr |-> a, res |-> r]
Page == {Blank, ScanningPage}
          \union {DonePage(a, r) : a \in Addrs, r \in Outcome \union {"nil"}}
-----------------------------------------------------------------------------
Init ==
  /\ shows \in [Tabs -> Addrs]
  /\ indexOn \in BOOLEAN
  /\ slot = None
  /\ job = [j \in {} |-> j]
  /\ node = "idle"
  /\ pc = [t \in Tabs |-> "idle"]
  /\ ref = [t \in Tabs |-> None]
  /\ page = [t \in Tabs |-> Blank]
  /\ restarts = 0

Finished(j)   == j # None /\ job[j].done
Unfinished(j) == j # None /\ ~job[j].done

Answer(t, p) == page' = [page EXCEPT ![t] = p]
-----------------------------------------------------------------------------
(* Slip: the finished result is not compared with the address. *)
PollDoneAny(t) ==
  /\ Finished(slot)
  /\ pc' = [pc EXCEPT ![t] = "deliver"]
  /\ ref' = [ref EXCEPT ![t] = slot]
  /\ UNCHANGED <<slot, job, page>>

(* PollHistoryScan: one section under histMu. *)
PollDone(t) ==
  /\ Finished(slot) /\ job[slot].addr = shows[t]
  /\ pc' = [pc EXCEPT ![t] = "deliver"]
  /\ ref' = [ref EXCEPT ![t] = slot]
  /\ UNCHANGED <<slot, job, page>>

PollOwn(t) ==
  /\ Unfinished(slot) /\ job[slot].addr = shows[t]
  /\ Answer(t, ScanningPage)
  /\ UNCHANGED <<slot, job, pc, ref>>

(* Slip: a scan in progress is started again. *)
StartAgain(t) ==
  /\ ~(Finished(slot) /\ job[slot].addr = shows[t])
  /\ \E j \in JobIds \ Live(slot, Tabs) :
       /\ slot' = j
       /\ job' = [i \in Live(j, Tabs) \union {j} |->
                    IF i = j THEN NewJob(shows[t]) ELSE job[i]]
  /\ Answer(t, ScanningPage)
  /\ UNCHANGED <<pc, ref>>

Start(t) ==
  /\ slot # None => job[slot].addr # shows[t]
  /\ \E j \in JobIds \ Live(slot, Tabs) :
       /\ slot' = j
       /\ job' = [i \in Live(j, Tabs) \union {j} |->
                    IF i = j THEN NewJob(shows[t]) ELSE job[i]]
  /\ Answer(t, ScanningPage)
  /\ UNCHANGED <<pc, ref>>

Poll(t) ==
  /\ pc[t] = "idle"
  /\ PollDone(t) \/ PollOwn(t) \/ Start(t)
  /\ UNCHANGED <<shows, indexOn, node, restarts>>

(* The meta refresh of a page that says Scanning. *)
Refresh(t) == page[t].kind = "scanning" /\ Poll(t)

(* Slip: e.histJob is read again instead of the local job. *)
DeliverFromSlot(t) ==
  /\ pc[t] = "deliver"
  /\ Answer(t, DonePage(job[slot].addr, job[slot].res))
  /\ pc' = [pc EXCEPT ![t] = "idle"]
  /\ ref' = [ref EXCEPT ![t] = None]
  /\ job' = [j \in Live(slot, Tabs \ {t}) |-> job[j]]
  /\ UNCHANGED <<shows, indexOn, slot, node, restarts>>

(* job.err or job.val, read after the unlock. *)
Deliver(t) ==
  /\ pc[t] = "deliver"
  /\ Answer(t, DonePage(job[ref[t]].addr, job[ref[t]].res))
  /\ pc' = [pc EXCEPT ![t] = "idle"]
  /\ ref' = [ref EXCEPT ![t] = None]
  /\ job' = [j \in Live(slot, Tabs \ {t}) |-> job[j]]
  /\ UNCHANGED <<shows, indexOn, slot, node, restarts>>
-----------------------------------------------------------------------------
(* doHistoryScan: scanblocks start, then the blocks it found. *)
Answered(j, o) ==
  job' = [job EXCEPT ![j].at = "answered", ![j].answer = View(o)]

Accepted(j) ==
  /\ Running(j) /\ job[j].at = "start" /\ indexOn /\ node = "idle"
  /\ node' = j
  /\ job' = [job EXCEPT ![j].at = "wait"]
  /\ UNCHANGED <<shows, indexOn, slot, pc, ref, page, restarts>>

(* Core rejects the start: a scan is in progress (-8), or no index (-1). *)
Rejected(j) ==
  /\ Running(j) /\ job[j].at = "start"
  /\ \/ node # "idle" /\ Answered(j, "busy")
     \/ ~indexOn      /\ Answered(j, "noindex")
  /\ UNCHANGED <<shows, indexOn, slot, node, pc, ref, page, restarts>>

(* The call fails before Core starts, or its answer does not decode. *)
NotSent(j) ==
  /\ Running(j) /\ job[j].at = "start"
  /\ Answered(j, "failed")
  /\ UNCHANGED <<shows, indexOn, slot, node, pc, ref, page, restarts>>

(* The scan ends with relevant blocks or none, or its reply is garbled. *)
Scanned(j) ==
  /\ Running(j) /\ job[j].at = "wait" /\ node = j
  /\ \/ job' = [job EXCEPT ![j].at = "fetch"]
     \/ Answered(j, "empty")
     \/ Answered(j, "failed")
  /\ node' = "idle"
  /\ UNCHANGED <<shows, indexOn, slot, pc, ref, page, restarts>>

(* The call ends first (scan timeout, connection lost); Core goes on. *)
GaveUp(j) ==
  /\ Running(j) /\ job[j].at = "wait" /\ node = j
  /\ Answered(j, "failed")
  /\ node' = "foreign"
  /\ UNCHANGED <<shows, indexOn, slot, pc, ref, page, restarts>>

(* errgroup: all the blocks, or the first error. *)
Fetched(j) ==
  /\ Running(j) /\ job[j].at = "fetch"
  /\ \E o \in {"blocks", "failed"} : Answered(j, o)
  /\ UNCHANGED <<shows, indexOn, slot, node, pc, ref, page, restarts>>

(* Slip: an error is dropped, and val stays nil. *)
OverWithoutError(j) ==
  [job EXCEPT ![j].at = "returned", ![j].answer = "none", ![j].done = TRUE,
              ![j].res = IF job[j].answer = "failed" THEN "nil"
                         ELSE job[j].answer]

Over(j) == [job EXCEPT ![j].at = "returned", ![j].answer = "none",
                       ![j].done = TRUE, ![j].res = job[j].answer]

(* Slip: a goroutine whose job was displaced never returns. *)
FinishCurrent(j) ==
  /\ Running(j) /\ job[j].at = "answered" /\ slot = j
  /\ job' = Over(j)
  /\ UNCHANGED <<shows, indexOn, slot, node, pc, ref, page, restarts>>

(* runHistoryScan under histMu.  A job that was displaced becomes garbage  *)
(* with the return of its goroutine: requests hold finished jobs only.     *)
Finish(j) ==
  /\ Running(j) /\ job[j].at = "answered"
  /\ job' = [i \in {i \in DOMAIN job : i = j => slot = j} |-> Over(j)[i]]
  /\ UNCHANGED <<shows, indexOn, slot, node, pc, ref, page, restarts>>

Scan(j) == Accepted(j) \/ Rejected(j) \/ NotSent(j) \/ Scanned(j)
             \/ GaveUp(j) \/ Fetched(j) \/ Finish(j)
-----------------------------------------------------------------------------
ForeignEnd ==
  /\ node = "foreign"
  /\ node' = "idle"
  /\ UNCHANGED <<shows, indexOn, slot, job, pc, ref, page, restarts>>

(* Jobs and requests are lost, and with them the pages of the requests and *)
(* of any tab that refreshed while the server was down; Core scans on.     *)
Restart ==
  /\ restarts < MaxRestarts
  /\ restarts' = restarts + 1
  /\ slot' = None
  /\ job' = [j \in {} |-> j]
  /\ node' = IF node = "idle" THEN "idle" ELSE "foreign"
  /\ pc' = [t \in Tabs |-> "idle"]
  /\ ref' = [t \in Tabs |-> None]
  /\ \E lost \in SUBSET Tabs :
       /\ \A t \in Tabs : pc[t] # "idle" => t \in lost
       /\ page' = [t \in Tabs |-> IF t \in lost THEN Blank ELSE page[t]]
  /\ UNCHANGED <<shows, indexOn>>

Next ==
  \/ \E t \in Tabs : Poll(t) \/ Deliver(t)
  \/ \E j \in JobIds : Scan(j)
  \/ ForeignEnd \/ Restart

Spec == Init /\ [][Next]_vars

(* As for the UTXO scan: handlers and goroutines run on, calls time out,   *)
(* the browser follows a meta refresh, Core's scans end.                   *)
Fairness ==
  /\ \A t \in Tabs : WF_vars(Deliver(t)) /\ WF_vars(Refresh(t))
  /\ \A j \in JobIds : WF_vars(Scan(j))
  /\ WF_vars(ForeignEnd)

FairSpec == Spec /\ Fairness
-----------------------------------------------------------------------------
(* Every variable has its type, and no page shows a nil view model. *)
TypeOK ==
  /\ shows \in [Tabs -> Addrs] /\ indexOn \in BOOLEAN
  /\ slot \in (JobIds \cap DOMAIN job) \union {None}
  /\ DOMAIN job \subseteq JobIds /\ job \in [DOMAIN job -> Job]
  /\ node \in {"idle", "foreign"} \union JobIds
  /\ pc \in [Tabs -> {"idle", "deliver"}]
  /\ ref \in [Tabs -> (DOMAIN job) \union {None}]
  /\ page \in [Tabs -> Page]
  /\ restarts \in 0..MaxRestarts
  /\ \A t \in Tabs : page[t].kind = "done" => page[t].res # "nil"

(* Goroutines whose job was replaced run on, but never reach a tab: the    *)
(* result a request reads after it released histMu is the finished result  *)
(* of its own address.                                                     *)
ResultIsOwn ==
  /\ \A t \in Tabs : pc[t] = "deliver" =>
       Finished(ref[t]) /\ job[ref[t]].addr = shows[t]
  /\ \A t \in Tabs : page[t].kind = "done" => page[t].addr = shows[t]

(* The slot as ScanSlot sees it. *)
SlotScan ==
  IF slot = None THEN [state |-> "none"]
  ELSE IF Finished(slot)
       THEN [state |-> "over", addr |-> job[slot].addr, out |-> job[slot].res]
       ELSE [state |-> "running", addr |-> job[slot].addr]

TabAnswer == [t \in Tabs |->
                IF pc[t] = "deliver" THEN job[ref[t]].res
                ELSE IF page[t].kind = "done" THEN page[t].res
                ELSE page[t].kind]

SS == INSTANCE ScanSlot
        WITH scan <- SlotScan, answer <- TabAnswer, MayDisplace <- TRUE

(* The history slot implements ScanSlot with displacement: polls of one    *)
(* address never start it twice while it is in the slot, the end of a      *)
(* displaced scan changes no answer and not the slot, and every answer is  *)
(* one the slot justified at a single instant of the request.              *)
AnswersAreAtomic == SS!SlotSpec

(* A node without the index never shows a history, not even an empty one,  *)
(* nor is it ever scanned.                                                 *)
NoHistoryWithoutIndex ==
  ~indexOn => /\ node = "idle"
              /\ \A t \in Tabs : page[t].kind = "done" => page[t].res # "ok"

(* Every goroutine ends, also one whose job nobody can see any more. *)
JobsEnd == \A j \in JobIds : Running(j) ~> ~Running(j)

(* A tab that waits is answered, or the slot is taken by another address.  *)
WaitingEnds ==
  \A t \in Tabs :
    page[t].kind = "scanning" ~>
      \/ page[t].kind # "scanning"
      \/ slot # None /\ job[slot].addr # shows[t]
-----------------------------------------------------------------------------
(* scan_history.go, of NoIndex: "blockfilterindex not enabled on this      *)
(* node".                                                                  *)
NoIndexIsTrue ==
  \A t \in Tabs : page[t].kind = "done" /\ page[t].res = "noindex" => ~indexOn
=============================================================================
