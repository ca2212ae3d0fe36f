------------------------------ MODULE UTXOScan ------------------------------
(***************************************************************************)
(* Address UTXO scans (internal/explorer/scan_utxo.go): browser tabs poll  *)
(* GET /address/:addr/utxos, PollUTXOScan looks at the one job slot of the *)
(* Explorer, asks Bitcoin Core what it is doing and starts runUTXOScan in  *)
(* the background.  A handler holds utxoMu in two separate sections, with  *)
(* an RPC in between; the goroutine takes it once, when the scan is over.  *)
(*                                                                         *)
(* A scan of Core belongs to a job, or is foreign: started by another      *)
(* client of the node, or left over from a job that stopped waiting (its   *)
(* HTTP call timed out or failed, or the server was restarted).            *)
(***************************************************************************)
EXTENDS Naturals, FiniteSets

CONSTANTS
  Tabs,          \* browser tabs
  Addrs,         \* addresses
  JobIds,        \* identities of *scanJob, reused once unreachable
  None,          \* the nil job
  MaxRestarts,   \* bound on restarts of the server
  MaxForeign     \* bound on scans other clients start on the node

ASSUME NoneAssumption == None \notin JobIds
ASSUME NodeAssumption == {"idle", "foreign"} \cap JobIds = {}
ASSUME BoundsAssumption == MaxRestarts \in Nat /\ MaxForeign \in Nat

VARIABLES
  shows,      \* the address in the URL of each tab
  slot,       \* e.utxoJob
  job,        \* the scanJob at each identity, with its goroutine's position
  node,       \* what scantxoutset is doing: idle, foreign, or a job's scan
  pc,         \* where the request of each tab is
  ref,        \* the job a request that is to deliver its result holds
  page,       \* the page each tab shows
  restarts,   \* restarts so far
  foreign     \* scans started by other clients so far

vars == <<shows, slot, job, node, pc, ref, page, restarts, foreign>>

(* How a scan ended: result decoded, error -8, any other error. *)
Outcome == {"ok", "busy", "failed"}

(* at: the goroutine is about to call scantxoutset start, waits for the    *)
(* answer, has the answer in hand, or has returned.  res stands for        *)
(* job.val and job.err, both nil at first.                                 *)
Job == [addr : Addrs, at : {"start", "wait", "answered", "returned"},
        answer : Outcome \union {"none"}, done : BOOLEAN,
        res : Outcome \union {"nil"}]

NewJob(a) == [addr |-> a, at |-> "start", answer |-> "none",
              done |-> FALSE, res |-> "nil"]

Running(j) == j \in DOMAIN job /\ job[j].at # "returned"

(* The jobs reachable from slot s, a goroutine or a request of the tabs    *)
(* ts; the others are garbage, and their identities free for a new job.    *)
Live(s, ts) ==
  { j \in DOMAIN job : j = s \/ Running(j) \/ \E t \in ts : ref[t] = j }

(* The pages, UTXOScanVM: what the template shows of it. *)
Blank         == [kind |-> "blank"]
ScanningPage  == [kind |-> "scanning", busy |-> "no"]
BusyPage(b)   == [kind |-> "scanning", busy |-> b]
DonePage(a,r) == [kind |-> "done", addr |-> a, res |-> r]
Page == {Blank, ScanningPage} \union {BusyPage(b) : b \in Addrs \union {"node"}}
          \union {DonePage(a, r) : a \in Addrs, r \in Outcome \union {"nil"}}
-----------------------------------------------------------------------------
Init ==
  /\ shows \in [Tabs -> Addrs]
  /\ slot = None
  /\ job = [j \in {} |-> j]
  /\ node = "idle"
  /\ pc = [t \in Tabs |-> "idle"]
  /\ ref = [t \in Tabs |-> None]
  /\ page = [t \in Tabs |-> Blank]
  /\ restarts = 0
  /\ foreign = 0

(* The request of t is answered with page p. *)
Answer(t, p) ==
  /\ page' = [page EXCEPT ![t] = p]
  /\ pc' = [pc EXCEPT ![t] = "idle"]
  /\ ref' = [ref EXCEPT ![t] = None]

(* The request of t goes on to point l, holding job j. *)
GoTo(t, l, j) ==
  /\ pc' = [pc EXCEPT ![t] = l]
  /\ ref' = [ref EXCEPT ![t] = j]
  /\ UNCHANGED page

Finished(j)   == j # None /\ job[j].done
Unfinished(j) == j # None /\ ~job[j].done
-----------------------------------------------------------------------------
(* PollUTXOScan, first section under utxoMu. *)
(* Slip: the finished result is not compared with the address. *)
PollDoneAny(t) ==
  /\ Finished(slot)
  /\ GoTo(t, "deliver", slot)

PollDone(t) ==
  /\ Finished(slot) /\ job[slot].addr = shows[t]
  /\ GoTo(t, "deliver", slot)

(* Slip: done is not looked at. *)
PollOwnDoneOrNot(t) ==
  /\ slot # None /\ job[slot].addr = shows[t]
  /\ GoTo(t, "progress", None)

PollOwn(t) ==
  /\ Unfinished(slot) /\ job[slot].addr = shows[t]
  /\ GoTo(t, "progress", None)

PollBusy(t) ==
  /\ Unfinished(slot) /\ job[slot].addr # shows[t]
  /\ Answer(t, BusyPage(job[slot].addr))

PollFree(t) ==
  /\ slot = None \/ (Finished(slot) /\ job[slot].addr # shows[t])
  /\ GoTo(t, "status", None)

Poll(t) ==
  /\ pc[t] = "idle"
  /\ PollDone(t) \/ PollOwn(t) \/ PollBusy(t) \/ PollFree(t)
  /\ UNCHANGED <<shows, slot, job, node, restarts, foreign>>

(* The meta refresh of a page that says Scanning. *)
Refresh(t) == page[t].kind = "scanning" /\ Poll(t)

(* Slip: e.utxoJob is read again instead of the local job. *)
DeliverFromSlot(t) ==
  /\ pc[t] = "deliver"
  /\ Answer(t, DonePage(job[slot].addr, job[slot].res))
  /\ job' = [j \in Live(slot, Tabs \ {t}) |-> job[j]]
  /\ UNCHANGED <<shows, slot, node, restarts, foreign>>

(* job.err or job.val, read after the unlock. *)
Deliver(t) ==
  /\ pc[t] = "deliver"
  /\ Answer(t, DonePage(job[ref[t]].addr, job[ref[t]].res))
  /\ job' = [j \in Live(slot, Tabs \ {t}) |-> job[j]]
  /\ UNCHANGED <<shows, slot, node, restarts, foreign>>

(* pollUTXOStatus: the page says Scanning whatever Core answers. *)
Progress(t) ==
  /\ pc[t] = "progress"
  /\ Answer(t, ScanningPage)
  /\ UNCHANGED <<shows, slot, job, node, restarts, foreign>>

(* scantxoutset status: a scan Core reports, else (or on any error) go on. *)
StatusBusy(t) ==
  /\ pc[t] = "status" /\ node # "idle"
  /\ Answer(t, BusyPage("node"))
  /\ UNCHANGED <<shows, slot, job, node, restarts, foreign>>

StatusFree(t) ==
  /\ pc[t] = "status"
  /\ GoTo(t, "relock", None)
  /\ UNCHANGED <<shows, slot, job, node, restarts, foreign>>

(* PollUTXOScan, second section under utxoMu. *)
StartBusy(t) ==
  /\ pc[t] = "relock" /\ Unfinished(slot)
  /\ Answer(t, BusyPage(job[slot].addr))
  /\ UNCHANGED <<shows, slot, job, node, restarts, foreign>>

(* Slip: the slot is not checked again. *)
StartUnchecked(t) ==
  /\ pc[t] = "relock"
  /\ \E j \in JobIds \ Live(slot, Tabs) :
       /\ slot' = j
       /\ job' = [i \in Live(j, Tabs) \union {j} |->
                    IF i = j THEN NewJob(shows[t]) ELSE job[i]]
  /\ Answer(t, ScanningPage)
  /\ UNCHANGED <<shows, node, restarts, foreign>>

Start(t) ==
  /\ pc[t] = "relock" /\ ~Unfinished(slot)
  /\ \E j \in JobIds \ Live(slot, Tabs) :
       /\ slot' = j
       /\ job' = [i \in Live(j, Tabs) \union {j} |->
                    IF i = j THEN NewJob(shows[t]) ELSE job[i]]
  /\ Answer(t, ScanningPage)
  /\ UNCHANGED <<shows, node, restarts, foreign>>

Handle(t) == Deliver(t) \/ Progress(t) \/ StatusBusy(t) \/ StatusFree(t)
               \/ StartBusy(t) \/ Start(t)
-----------------------------------------------------------------------------
(* runUTXOScan. *)
Answered(j, o) ==
  job' = [job EXCEPT ![j].at = "answered", ![j].answer = o]

(* Core accepts the start, rejects it with -8, or the call fails first. *)
Accepted(j) ==
  /\ Running(j) /\ job[j].at = "start" /\ node = "idle"
  /\ node' = j
  /\ job' = [job EXCEPT ![j].at = "wait"]
  /\ UNCHANGED <<shows, slot, pc, ref, page, restarts, foreign>>

Rejected(j) ==
  /\ Running(j) /\ job[j].at = "start" /\ node # "idle"
  /\ Answered(j, "busy")
  /\ UNCHANGED <<shows, slot, node, pc, ref, page, restarts, foreign>>

NotSent(j) ==
  /\ Running(j) /\ job[j].at = "start"
  /\ Answered(j, "failed")
  /\ UNCHANGED <<shows, slot, node, pc, ref, page, restarts, foreign>>

(* Core completes the scan; the reply decodes or does not. *)
Completed(j) ==
  /\ Running(j) /\ job[j].at = "wait" /\ node = j
  /\ \E o \in {"ok", "failed"} : Answered(j, o)
  /\ node' = "idle"
  /\ UNCHANGED <<shows, slot, pc, ref, page, restarts, foreign>>

(* The call ends first (scan timeout, connection lost); Core goes on. *)
GaveUp(j) ==
  /\ Running(j) /\ job[j].at = "wait" /\ node = j
  /\ Answered(j, "failed")
  /\ node' = "foreign"
  /\ UNCHANGED <<shows, slot, pc, ref, page, restarts, foreign>>

(* Slip: an error is dropped, and val stays nil. *)
FinishWithoutError(j) ==
  /\ Running(j) /\ job[j].at = "answered"
  /\ job' = [job EXCEPT ![j].at = "returned", ![j].answer = "none",
                        ![j].done = TRUE,
                        ![j].res = IF job[j].answer = "ok" THEN "ok" ELSE "nil"]
  /\ UNCHANGED <<shows, slot, node, pc, ref, page, restarts, foreign>>

(* Slip: done is set after the early return of an error. *)
FinishOnSuccess(j) ==
  /\ Running(j) /\ job[j].at = "answered"
  /\ job' = [job EXCEPT ![j].at = "returned", ![j].answer = "none",
                        ![j].done = job[j].answer = "ok",
                        ![j].res = job[j].answer]
  /\ UNCHANGED <<shows, slot, node, pc, ref, page, restarts, foreign>>

(* The section of runUTXOScan under utxoMu: done, and err or val. *)
Finish(j) ==
  /\ Running(j) /\ job[j].at = "answered"
  /\ job' = [job EXCEPT ![j].at = "returned", ![j].answer = "none",
                        ![j].done = TRUE, ![j].res = job[j].answer]
  /\ UNCHANGED <<shows, slot, node, pc, ref, page, restarts, foreign>>

Scan(j) == Accepted(j) \/ Rejected(j) \/ NotSent(j) \/ Completed(j)
             \/ GaveUp(j) \/ Finish(j)
-----------------------------------------------------------------------------
(* The environment: other clients of the node, restarts of the server. *)
ForeignStart ==
  /\ node = "idle" /\ foreign < MaxForeign
  /\ node' = "foreign"
  /\ foreign' = foreign + 1
  /\ UNCHANGED <<shows, slot, job, pc, ref, page, restarts>>

ForeignEnd ==
  /\ node = "foreign"
  /\ node' = "idle"
  /\ UNCHANGED <<shows, slot, job, pc, ref, page, restarts, foreign>>

(* Jobs and requests are lost, and with them the pages of the requests and *)
(* of any tab that refreshed while the server was down; Core scans on.     *)
Restart ==
  /\ restarts < MaxRestarts
  /\ restarts' = restarts + 1
  /\ slot' = None
  /\ job' = [j \in {} |-> j]
  /\ node' = IF node = "idle" THEN "idle" ELSE "foreign"
  /\ pc' = [t \in Tabs |-> "idle"]
  /\ ref' = [t \in Tabs |-> None]
  /\ \E lost \in SUBSET Tabs :
       /\ \A t \in Tabs : pc[t] # "idle" => t \in lost
       /\ page' = [t \in Tabs |-> IF t \in lost THEN Blank ELSE page[t]]
  /\ UNCHANGED <<shows, foreign>>

Next ==
  \/ \E t \in Tabs : Poll(t) \/ Handle(t)
  \/ \E j \in JobIds : Scan(j)
  \/ ForeignStart \/ ForeignEnd \/ Restart

Spec == Init /\ [][Next]_vars

(* Handlers and the goroutine run on; every call is bounded by a timeout   *)
(* of the RPC client, so waiting ends; the browser follows a meta refresh; *)
(* a scan of Core ends.  Nobody has to open a page, and nothing has to     *)
(* fail.                                                                   *)
Fairness ==
  /\ \A t \in Tabs : WF_vars(Handle(t)) /\ WF_vars(Refresh(t))
  /\ \A j \in JobIds : WF_vars(Scan(j))
  /\ WF_vars(ForeignEnd)

FairSpec == Spec /\ Fairness
-----------------------------------------------------------------------------
(* Every variable has its type.  In particular no page shows a nil view    *)
(* model, which the handler would dereference, and a request that is to    *)
(* deliver a result holds a job.                                           *)
TypeOK ==
  /\ shows \in [Tabs -> Addrs]
  /\ slot \in (JobIds \cap DOMAIN job) \union {None}
  /\ DOMAIN job \subseteq JobIds /\ job \in [DOMAIN job -> Job]
  /\ node \in {"idle", "foreign"} \union JobIds
  /\ pc \in [Tabs -> {"idle", "deliver", "progress", "status", "relock"}]
  /\ ref \in [Tabs -> (DOMAIN job) \union {None}]
  /\ page \in [Tabs -> Page]
  /\ restarts \in 0..MaxRestarts /\ foreign \in 0..MaxForeign
  /\ \A t \in Tabs : page[t].kind = "done" => page[t].res # "nil"

(* "Explorer has one slot per scan type; only one scan of each type runs   *)
(* at a time": a goroutine that has not finished is the one in the slot,   *)
(* and a scan of Core that is not foreign is that job's.  The check of the *)
(* slot is repeated after the status call for this.                        *)
OneScanAtATime ==
  /\ \A j \in JobIds : Running(j) => slot = j
  /\ node \in JobIds => Running(node) /\ job[node].at = "wait"

(* The result a request reads after it released utxoMu is the finished     *)
(* result of its own address, although the slot may hold another job by    *)
(* then; so no tab ever shows a result of another address.                 *)
ResultIsOwn ==
  /\ \A t \in Tabs : pc[t] = "deliver" =>
       Finished(ref[t]) /\ job[ref[t]].addr = shows[t]
  /\ \A t \in Tabs : page[t].kind = "done" => page[t].addr = shows[t]

(* The slot as ScanSlot sees it.  A request has its answer from the moment *)
(* it leaves the first section with a finished job.                        *)
SlotScan ==
  IF slot = None THEN [state |-> "none"]
  ELSE IF Finished(slot)
       THEN [state |-> "over", addr |-> job[slot].addr, out |-> job[slot].res]
       ELSE [state |-> "running", addr |-> job[slot].addr]

TabAnswer == [t \in Tabs |->
                IF pc[t] = "deliver" THEN job[ref[t]].res
                ELSE IF page[t].kind = "done" THEN page[t].res
                ELSE page[t].kind]

SS == INSTANCE ScanSlot
        WITH scan <- SlotScan, answer <- TabAnswer, MayDisplace <- FALSE

(* Polls and the background scan, with their lock sections, the RPC        *)
(* between them and the read after the unlock, implement ScanSlot: scans   *)
(* never overlap, and every answer is one the slot justified at a single   *)
(* instant of the request.                                                 *)
AnswersAreAtomic == SS!SlotSpec

(* A finished job never changes while a request still holds it: the value  *)
(* read outside the lock is the value the lock protected.                  *)
FinishedIsFinal ==
  [][\A t \in Tabs : pc[t] = "deliver" /\ pc'[t] = "deliver"
       => job'[ref[t]] = job[ref[t]]]_vars

(* Every scan ends: the slot does not stay busy, which would refuse every  *)
(* other address forever.                                                  *)
SlotIsFreed ==
  \A j \in JobIds : (slot = j /\ Unfinished(j)) ~> ~(slot = j /\ Unfinished(j))

(* A tab that waits for its scan is answered with a result, or the slot is *)
(* taken by the scan of another address: neither a scan left over from a   *)
(* restart, nor one of another client, nor a concurrent poll of the same   *)
(* address can make it refresh forever.                                    *)
WaitingEnds ==
  \A t \in Tabs :
    page[t].kind = "scanning" ~>
      \/ page[t].kind # "scanning"
      \/ slot # None /\ job[slot].addr # shows[t]
-----------------------------------------------------------------------------
(* scan_utxo.go, of error -8: "The meta-refresh will retry and the status  *)
(* check will catch it".  A page that shows the error would refresh.       *)
BusyErrorIsRetried ==
  \A t \in Tabs : page[t].kind = "done" => page[t].res # "busy"
=============================================================================
