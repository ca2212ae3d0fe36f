--------------------------- MODULE UTXOScanProofs ---------------------------
(***************************************************************************)
(* Theorems about UTXOScan: for any tabs, addresses, job identities and    *)
(* bounds, its safety properties hold and it implements ScanSlot.          *)
(***************************************************************************)
EXTENDS UTXOScan, TLAPS

(* What the fields of a job say of each other: done is set, and err or val *)
(* with it, when the goroutine returns and not before.                     *)
JobState(j) ==
  /\ job[j].done <=> job[j].at = "returned"
  /\ job[j].at = "returned" => job[j].res \in Outcome
  /\ job[j].at = "answered" => job[j].answer \in Outcome

(* Exactly the requests about to deliver hold a job. *)
Holds(t) == pc[t] = "deliver" <=> ref[t] # None

(* The inductive invariant. *)
IInv ==
  /\ TypeOK /\ OneScanAtATime /\ ResultIsOwn
  /\ \A j \in DOMAIN job : JobState(j)
  /\ \A t \in Tabs : Holds(t)
-----------------------------------------------------------------------------
(* No job runs while the slot is empty or finished: the one that runs      *)
(* would be in the slot.                                                   *)
LEMMA NoneRuns ==
  ASSUME IInv, ~Unfinished(slot)
  PROVE  /\ \A j \in JobIds : ~Running(j)
         /\ node \notin JobIds
<1>1. \A j \in JobIds : ~Running(j)
  BY NoneAssumption DEF IInv, OneScanAtATime, Running, Unfinished, JobState
<1> QED
  BY <1>1 DEF IInv, OneScanAtATime

(* Initially the invariant holds. *)
LEMMA InitIInv == Init => IInv
<1> SUFFICES ASSUME Init PROVE IInv
  OBVIOUS
<1>1. DOMAIN job = {} /\ job \in [DOMAIN job -> Job]
  BY DEF Init
<1>2. TypeOK
  BY <1>1, BoundsAssumption DEF Init, TypeOK, Page, Blank
<1>3. OneScanAtATime /\ ResultIsOwn
  BY <1>1, NodeAssumption DEF Init, OneScanAtATime, ResultIsOwn, Running, Blank
<1> QED
  BY <1>1, <1>2, <1>3 DEF Init, IInv, Holds

(* A step of a request that touches neither the slot nor the jobs, and     *)
(* ends the request with a page that is not a result, or moves it on       *)
(* without a job.                                                          *)
LEMMA QuietRequest ==
  ASSUME IInv, NEW t \in Tabs, UNCHANGED <<shows, slot, job, node, restarts, foreign>>,
         \/ \E p \in Page : p.kind = "scanning" /\ Answer(t, p)
         \/ \E l \in {"progress", "status", "relock"} : GoTo(t, l, None)
  PROVE  IInv'
<1>1. /\ pc' = [pc EXCEPT ![t] = pc'[t]] /\ pc'[t] \in {"idle", "progress", "status", "relock"}
      /\ ref' = [ref EXCEPT ![t] = None]
      /\ page' = [page EXCEPT ![t] = page'[t]]
      /\ page'[t] \in Page /\ (page'[t] = page[t] \/ page'[t].kind = "scanning")
  BY DEF Answer, GoTo, IInv, TypeOK
<1>2. TypeOK'
  BY <1>1 DEF IInv, TypeOK
<1>3. OneScanAtATime'
  BY DEF IInv, OneScanAtATime, Running
<1>4. ResultIsOwn'
  BY <1>1 DEF IInv, TypeOK, ResultIsOwn, Finished
<1>5. \A j \in DOMAIN job' : JobState(j)'
  BY DEF IInv, JobState
<1>6. \A u \in Tabs : Holds(u)'
  BY <1>1 DEF IInv, TypeOK, Holds
<1> QED
  BY <1>2, <1>3, <1>4, <1>5, <1>6 DEF IInv

(* A finished job in the slot is of the tab's address, and is held from    *)
(* here on.                                                                *)
LEMMA PollDoneStep ==
  ASSUME IInv, NEW t \in Tabs, pc[t] = "idle", PollDone(t),
         UNCHANGED <<shows, slot, job, node, restarts, foreign>>
  PROVE  IInv'
<1>1. /\ pc' = [pc EXCEPT ![t] = "deliver"] /\ ref' = [ref EXCEPT ![t] = slot]
      /\ UNCHANGED page /\ slot \in DOMAIN job /\ slot # None
      /\ job[slot].done /\ job[slot].addr = shows[t]
  BY DEF PollDone, GoTo, Finished, IInv, TypeOK
<1>2. TypeOK'
  BY <1>1 DEF IInv, TypeOK
<1>3. OneScanAtATime'
  BY DEF IInv, OneScanAtATime, Running
<1>4. ResultIsOwn'
  BY <1>1 DEF IInv, TypeOK, ResultIsOwn, Finished
<1>5. \A j \in DOMAIN job' : JobState(j)'
  BY DEF IInv, JobState
<1>6. \A u \in Tabs : Holds(u)'
  BY <1>1 DEF IInv, TypeOK, Holds
<1> QED
  BY <1>2, <1>3, <1>4, <1>5, <1>6 DEF IInv

LEMMA PollStep ==
  ASSUME IInv, NEW t \in Tabs, Poll(t)
  PROVE  IInv'
<1>1. CASE PollDone(t)
  BY <1>1, PollDoneStep DEF Poll
<1>2. CASE PollOwn(t)
  BY <1>2, QuietRequest DEF Poll, PollOwn
<1>3. CASE PollBusy(t)
  <2>1. slot \in DOMAIN job
    BY <1>3 DEF PollBusy, Unfinished, IInv, TypeOK
  <2>2. BusyPage(job[slot].addr) \in Page /\ BusyPage(job[slot].addr).kind = "scanning"
    BY <2>1 DEF IInv, TypeOK, Job, Page, BusyPage
  <2> QED
    BY <1>3, <2>2, QuietRequest DEF Poll, PollBusy
<1>4. CASE PollFree(t)
  BY <1>4, QuietRequest DEF Poll, PollFree
<1> QED
  BY <1>1, <1>2, <1>3, <1>4 DEF Poll

(* What is delivered is the result of a finished job of the tab's address; *)
(* the other requests keep the jobs they hold.                             *)
LEMMA DeliverStep ==
  ASSUME IInv, NEW t \in Tabs, Deliver(t)
  PROVE  IInv'
<1> DEFINE L == Live(slot, Tabs \ {t})
<1>1. /\ pc' = [pc EXCEPT ![t] = "idle"] /\ ref' = [ref EXCEPT ![t] = None]
      /\ page' = [page EXCEPT ![t] = DonePage(job[ref[t]].addr, job[ref[t]].res)]
      /\ job' = [j \in L |-> job[j]] /\ L \subseteq DOMAIN job
      /\ UNCHANGED <<shows, slot, node, restarts, foreign>>
  BY DEF Deliver, Answer, Live
<1>2. /\ slot # None => slot \in L
      /\ \A j \in DOMAIN job : Running(j) => j \in L
      /\ \A u \in Tabs \ {t} : ref[u] # None => ref[u] \in L
  BY DEF IInv, TypeOK, Live, Running
<1>3. /\ ref[t] \in DOMAIN job /\ job[ref[t]].addr = shows[t]
      /\ job[ref[t]].res \in Outcome /\ job[ref[t]].addr \in Addrs
  BY DEF Deliver, IInv, TypeOK, Job, Holds, ResultIsOwn, Finished, JobState
<1>4. TypeOK'
  <2>1. DOMAIN job' = L /\ job' \in [L -> Job]
    BY <1>1 DEF IInv, TypeOK
  <2>2. /\ page' \in [Tabs -> Page]
        /\ \A u \in Tabs : page'[u].kind = "done" => page'[u].res # "nil"
    BY <1>1, <1>3 DEF IInv, TypeOK, Page, DonePage, Outcome
  <2>3. ref' \in [Tabs -> L \union {None}] /\ pc' \in [Tabs -> {"idle", "deliver", "progress", "status", "relock"}]
    BY <1>1, <1>2 DEF IInv, TypeOK
  <2>4. slot' \in (JobIds \cap L) \union {None} /\ L \subseteq JobIds
    BY <1>1, <1>2 DEF IInv, TypeOK
  <2> QED
    BY <1>1, <2>1, <2>2, <2>3, <2>4 DEF IInv, TypeOK
<1>5. OneScanAtATime'
  BY <1>1, <1>2 DEF IInv, OneScanAtATime, Running
<1>6. ResultIsOwn'
  <2>1. ASSUME NEW u \in Tabs, pc'[u] = "deliver"
        PROVE  Finished(ref[u])' /\ job'[ref'[u]].addr = shows'[u]
    <3>1. u # t /\ pc[u] = "deliver" /\ ref'[u] = ref[u]
      BY <1>1, <2>1 DEF IInv, TypeOK
    <3>2. Finished(ref[u]) /\ job[ref[u]].addr = shows[u] /\ ref[u] \in L
      BY <3>1, <1>2 DEF IInv, ResultIsOwn, Holds
    <3> QED
      BY <3>1, <3>2, <1>1 DEF Finished
  <2>2. ASSUME NEW u \in Tabs, page'[u].kind = "done"
        PROVE  page'[u].addr = shows'[u]
    BY <2>2, <1>1, <1>3 DEF IInv, TypeOK, ResultIsOwn, DonePage
  <2> QED
    BY <2>1, <2>2 DEF ResultIsOwn
<1>7. \A j \in DOMAIN job' : JobState(j)'
  BY <1>1 DEF IInv, JobState
<1>8. \A u \in Tabs : Holds(u)'
  BY <1>1 DEF IInv, TypeOK, Holds
<1> QED
  BY <1>4, <1>5, <1>6, <1>7, <1>8 DEF IInv

(* A new job takes the slot only when none runs, so it is the only one     *)
(* that runs; its identity is held by nobody.                              *)
LEMMA StartStep ==
  ASSUME IInv, NEW t \in Tabs, Start(t)
  PROVE  IInv'
<1>1. PICK n \in JobIds \ Live(slot, Tabs) :
        /\ slot' = n
        /\ job' = [i \in Live(n, Tabs) \union {n} |->
                     IF i = n THEN NewJob(shows[t]) ELSE job[i]]
  BY DEF Start
<1> DEFINE L == Live(n, Tabs)
<1>2. /\ pc' = [pc EXCEPT ![t] = "idle"] /\ ref' = [ref EXCEPT ![t] = None]
      /\ page' = [page EXCEPT ![t] = ScanningPage]
      /\ UNCHANGED <<shows, node, restarts, foreign>>
  BY DEF Start, Answer
<1>3. /\ \A j \in JobIds : ~Running(j)
      /\ node \notin JobIds
  BY NoneRuns DEF Start
<1>4. /\ L \subseteq DOMAIN job
      /\ \A u \in Tabs : ref[u] # None => ref[u] \in L /\ ref[u] # n
  BY DEF IInv, TypeOK, Live
<1>5. /\ DOMAIN job' = L \union {n} /\ job'[n] = NewJob(shows[t])
      /\ \A j \in L : j # n => job'[j] = job[j]
  BY <1>1
<1>6. TypeOK'
  <2>1. NewJob(shows[t]) \in Job
    BY DEF IInv, TypeOK, NewJob, Job
  <2>2. job' \in [L \union {n} -> Job] /\ L \union {n} \subseteq JobIds
    BY <1>1, <1>4, <2>1 DEF IInv, TypeOK
  <2>3. ref' \in [Tabs -> L \union {n, None}]
    BY <1>2, <1>4 DEF IInv, TypeOK
  <2>4. /\ page' \in [Tabs -> Page]
        /\ \A u \in Tabs : page'[u].kind = "done" => page'[u].res # "nil"
    BY <1>2 DEF IInv, TypeOK, Page, ScanningPage
  <2>5. slot' \in JobIds \cap DOMAIN job'
    BY <1>1, <1>5
  <2>6. pc' \in [Tabs -> {"idle", "deliver", "progress", "status", "relock"}]
    BY <1>2 DEF IInv, TypeOK
  <2>7. job' \in [DOMAIN job' -> Job] /\ DOMAIN job' \subseteq JobIds
    BY <2>2, <1>5
  <2>8. ref' \in [Tabs -> (DOMAIN job') \union {None}]
    BY <2>3, <1>5
  <2> QED
    BY <1>2, <2>4, <2>5, <2>6, <2>7, <2>8 DEF IInv, TypeOK
<1>7. OneScanAtATime'
  <2>1. ASSUME NEW j \in JobIds, Running(j)' PROVE slot' = j
    BY <2>1, <1>1, <1>3, <1>4, <1>5 DEF Running
  <2> QED
    BY <2>1, <1>2, <1>3 DEF OneScanAtATime
<1>8. ResultIsOwn'
  <2>1. ASSUME NEW u \in Tabs, pc'[u] = "deliver"
        PROVE  Finished(ref[u])' /\ job'[ref'[u]].addr = shows'[u]
    <3>1. u # t /\ pc[u] = "deliver" /\ ref'[u] = ref[u]
      BY <1>2, <2>1 DEF IInv, TypeOK
    <3>2. Finished(ref[u]) /\ job[ref[u]].addr = shows[u]
      BY <3>1 DEF IInv, ResultIsOwn
    <3>3. job'[ref[u]] = job[ref[u]] /\ ref[u] # None
      BY <3>2, <1>4, <1>5 DEF Finished
    <3> QED
      BY <3>1, <3>2, <3>3, <1>2 DEF Finished
  <2>2. ASSUME NEW u \in Tabs, page'[u].kind = "done"
        PROVE  page'[u].addr = shows'[u]
    BY <2>2, <1>2 DEF IInv, TypeOK, ResultIsOwn, ScanningPage
  <2> QED
    BY <2>1, <2>2 DEF ResultIsOwn
<1>9. \A j \in DOMAIN job' : JobState(j)'
  BY <1>4, <1>5 DEF IInv, JobState, NewJob
<1>10. \A u \in Tabs : Holds(u)'
  BY <1>2 DEF IInv, TypeOK, Holds
<1> QED
  BY <1>6, <1>7, <1>8, <1>9, <1>10 DEF IInv

LEMMA HandleStep ==
  ASSUME IInv, NEW t \in Tabs, Handle(t)
  PROVE  IInv'
<1>1. CASE Deliver(t)
  BY <1>1, DeliverStep
<1>2. CASE Progress(t)
  <2>1. ScanningPage \in Page /\ ScanningPage.kind = "scanning"
    BY DEF Page, ScanningPage
  <2> QED
    BY <1>2, <2>1, QuietRequest DEF Progress
<1>3. CASE StatusBusy(t)
  <2>1. BusyPage("node") \in Page /\ BusyPage("node").kind = "scanning"
    BY DEF Page, BusyPage
  <2> QED
    BY <1>3, <2>1, QuietRequest DEF StatusBusy
<1>4. CASE StatusFree(t)
  BY <1>4, QuietRequest DEF StatusFree
<1>5. CASE StartBusy(t)
  <2>1. slot \in DOMAIN job
    BY <1>5 DEF StartBusy, Unfinished, IInv, TypeOK
  <2>2. BusyPage(job[slot].addr) \in Page /\ BusyPage(job[slot].addr).kind = "scanning"
    BY <2>1 DEF IInv, TypeOK, Job, Page, BusyPage
  <2> QED
    BY <1>5, <2>2, QuietRequest DEF StartBusy
<1>6. CASE Start(t)
  BY <1>6, StartStep
<1> QED
  BY <1>1, <1>2, <1>3, <1>4, <1>5, <1>6 DEF Handle

(* A step of the goroutine of j: only the record of j changes, j keeps its *)
(* address, and it was not finished, so that no request holds it.          *)
LEMMA JobStep ==
  ASSUME IInv, NEW j \in JobIds, Running(j), NEW r \in Job,
         r.addr = job[j].addr,
         job' = [job EXCEPT ![j] = r],
         r.done <=> r.at = "returned",
         r.at = "returned" => r.res \in Outcome,
         r.at = "answered" => r.answer \in Outcome,
         \/ node' = j /\ r.at = "wait"
         \/ node' \in {"idle", "foreign"}
         \/ node' = node /\ node \notin JobIds,
         UNCHANGED <<shows, slot, pc, ref, page, restarts, foreign>>
  PROVE  /\ IInv'
         /\ j = slot
         /\ \A t \in Tabs : pc[t] = "deliver" => ref[t] # j
<1>1. slot = j /\ j \in DOMAIN job /\ ~job[j].done
  BY DEF IInv, OneScanAtATime, Running, JobState
<1>2. \A t \in Tabs : pc[t] = "deliver" => ref[t] # j /\ ref[t] \in DOMAIN job
  BY <1>1 DEF IInv, ResultIsOwn, Finished, TypeOK
<1>3. /\ DOMAIN job' = DOMAIN job /\ job'[j] = r
      /\ \A i \in DOMAIN job : i # j => job'[i] = job[i]
  BY <1>1
<1>4. TypeOK'
  BY <1>1, <1>3 DEF IInv, TypeOK
<1>5. OneScanAtATime'
  BY <1>1, <1>3, NodeAssumption DEF IInv, OneScanAtATime, Running
<1>6. ResultIsOwn'
  BY <1>2, <1>3 DEF IInv, ResultIsOwn, Finished
<1>7. \A i \in DOMAIN job' : JobState(i)'
  BY <1>3 DEF IInv, JobState
<1>8. \A u \in Tabs : Holds(u)'
  BY DEF IInv, Holds
<1> QED
  BY <1>1, <1>2, <1>4, <1>5, <1>6, <1>7, <1>8 DEF IInv

(* What every step of the goroutine does, in the terms of JobStep. *)
LEMMA ScanShape ==
  ASSUME IInv, NEW j \in JobIds, Scan(j)
  PROVE  \E r \in Job :
           /\ Running(j) /\ job' = [job EXCEPT ![j] = r]
           /\ r.addr = job[j].addr
           /\ r.done <=> r.at = "returned"
           /\ r.at = "returned" => r.res \in Outcome
           /\ r.at = "answered" => r.answer \in Outcome
           /\ \/ node' = j /\ r.at = "wait"
              \/ node' \in {"idle", "foreign"}
              \/ node' = node /\ node \notin JobIds
           /\ UNCHANGED <<shows, slot, pc, ref, page, restarts, foreign>>
<1>1. Running(j) /\ UNCHANGED <<shows, slot, pc, ref, page, restarts, foreign>>
  BY DEF Scan, Accepted, Rejected, NotSent, Completed, GaveUp, Finish
<1>2. /\ job[j] \in Job /\ JobState(j) /\ ~job[j].done
      /\ \A i \in JobIds : Running(i) => i = j
      /\ node \in JobIds => node = j /\ job[j].at = "wait"
  BY <1>1 DEF IInv, TypeOK, Running, JobState, OneScanAtATime
<1>3. CASE Accepted(j)
  <2> DEFINE r == [job[j] EXCEPT !.at = "wait"]
  <2>1. r \in Job /\ r.addr = job[j].addr /\ r.at = "wait" /\ ~r.done
    BY <1>2 DEF Job
  <2> QED
    BY <1>1, <1>3, <2>1 DEF Accepted
<1>4. ASSUME NEW o \in Outcome, Answered(j, o),
             \/ node' \in {"idle", "foreign"}
             \/ node' = node /\ node \notin JobIds
      PROVE  \E r \in Job :
               /\ job' = [job EXCEPT ![j] = r]
               /\ r.addr = job[j].addr /\ ~r.done
               /\ r.at = "answered" /\ r.answer = o
  <2> DEFINE r == [job[j] EXCEPT !.at = "answered", !.answer = o]
  <2>1. r \in Job /\ r.addr = job[j].addr /\ r.at = "answered" /\ r.answer = o /\ ~r.done
    BY <1>2 DEF Job, Outcome
  <2> QED
    BY <1>4, <2>1 DEF Answered
<1>5. CASE Rejected(j) \/ NotSent(j)
  <2>1. \E o \in Outcome : Answered(j, o)
    BY <1>5 DEF Rejected, NotSent, Outcome
  <2>2. node' = node /\ node \notin JobIds
    BY <1>5, <1>2 DEF Rejected, NotSent
  <2> QED
    BY <1>1, <1>4, <2>1, <2>2
<1>6. CASE Completed(j) \/ GaveUp(j)
  <2>1. \E o \in Outcome : Answered(j, o)
    BY <1>6 DEF Completed, GaveUp, Outcome
  <2>2. node' \in {"idle", "foreign"}
    BY <1>6 DEF Completed, GaveUp
  <2> QED
    BY <1>1, <1>4, <2>1, <2>2
<1>7. CASE Finish(j)
  <2> DEFINE r == [job[j] EXCEPT !.at = "returned", !.answer = "none",
                                 !.done = TRUE, !.res = job[j].answer]
  <2>1. job[j].answer \in Outcome
    BY <1>2, <1>7 DEF Finish, JobState
  <2>2. /\ r \in Job /\ r.addr = job[j].addr /\ r.at = "returned" /\ r.done
        /\ r.res \in Outcome
    BY <1>2, <2>1 DEF Job, Outcome
  <2>3. node' = node /\ node \notin JobIds
    BY <1>7, <1>2 DEF Finish
  <2> QED
    BY <1>1, <1>7, <2>2, <2>3 DEF Finish
<1> QED
  BY <1>3, <1>5, <1>6, <1>7 DEF Scan

LEMMA ScanStep ==
  ASSUME IInv, NEW j \in JobIds, Scan(j)
  PROVE  /\ IInv'
         /\ j = slot
         /\ \A t \in Tabs : pc[t] = "deliver" => ref[t] # j
BY ScanShape, JobStep

(* Other clients only touch the node, and never take it from a job. *)
LEMMA ForeignStep ==
  ASSUME IInv, ForeignStart \/ ForeignEnd
  PROVE  IInv'
<1>1. /\ node' \in {"idle", "foreign"} /\ foreign' \in 0..MaxForeign
      /\ UNCHANGED <<shows, slot, job, pc, ref, page, restarts>>
  BY BoundsAssumption DEF ForeignStart, ForeignEnd, IInv, TypeOK
<1>2. TypeOK'
  BY <1>1 DEF IInv, TypeOK
<1>3. OneScanAtATime'
  BY <1>1, NodeAssumption DEF IInv, OneScanAtATime, Running
<1>4. ResultIsOwn'
  BY <1>1 DEF IInv, ResultIsOwn, Finished
<1> QED
  BY <1>1, <1>2, <1>3, <1>4 DEF IInv, JobState, Holds

(* After a restart there is no job, and no request that could hold one. *)
LEMMA RestartStep ==
  ASSUME IInv, Restart
  PROVE  IInv'
<1>1. /\ slot' = None /\ DOMAIN job' = {} /\ job' \in [{} -> Job]
      /\ node' \in {"idle", "foreign"} /\ restarts' \in 0..MaxRestarts
      /\ pc' = [t \in Tabs |-> "idle"] /\ ref' = [t \in Tabs |-> None]
      /\ UNCHANGED <<shows, foreign>>
  BY BoundsAssumption DEF Restart, IInv, TypeOK
<1>2. PICK lost \in SUBSET Tabs :
        page' = [t \in Tabs |-> IF t \in lost THEN Blank ELSE page[t]]
  BY DEF Restart
<1>3. /\ page' \in [Tabs -> Page]
      /\ \A t \in Tabs : page'[t].kind = "done" =>
           page'[t].res # "nil" /\ page'[t].addr = shows[t]
  BY <1>2 DEF IInv, TypeOK, ResultIsOwn, Page, Blank
<1>4. TypeOK'
  BY <1>1, <1>3 DEF IInv, TypeOK
<1>5. OneScanAtATime'
  BY <1>1, NodeAssumption DEF OneScanAtATime, Running
<1>6. ResultIsOwn'
  BY <1>1, <1>3 DEF ResultIsOwn
<1> QED
  BY <1>1, <1>4, <1>5, <1>6 DEF IInv, Holds

LEMMA StutterStep ==
  ASSUME IInv, UNCHANGED vars
  PROVE  IInv'
<1>1. TypeOK'
  BY DEF vars, IInv, TypeOK
<1>2. OneScanAtATime' /\ ResultIsOwn'
  BY DEF vars, IInv, OneScanAtATime, ResultIsOwn, Running, Finished
<1> QED
  BY <1>1, <1>2 DEF vars, IInv, JobState, Holds

(* Every step keeps the invariant. *)
LEMMA StepIInv == IInv /\ [Next]_vars => IInv'
<1> SUFFICES ASSUME IInv, [Next]_vars PROVE IInv'
  OBVIOUS
<1>1. ASSUME NEW t \in Tabs, Poll(t) PROVE IInv'
  BY <1>1, PollStep
<1>2. ASSUME NEW t \in Tabs, Handle(t) PROVE IInv'
  BY <1>2, HandleStep
<1>3. ASSUME NEW j \in JobIds, Scan(j) PROVE IInv'
  BY <1>3, ScanStep
<1>4. CASE ForeignStart \/ ForeignEnd
  BY <1>4, ForeignStep
<1>5. CASE Restart
  BY <1>5, RestartStep
<1>6. CASE UNCHANGED vars
  BY <1>6, StutterStep
<1> QED
  BY <1>1, <1>2, <1>3, <1>4, <1>5, <1>6 DEF Next
-----------------------------------------------------------------------------
(* The invariant holds in every reachable state. *)
THEOREM Invariance == Spec => []IInv
<1>1. Init => IInv
  BY InitIInv
<1>2. IInv /\ [Next]_vars => IInv'
  BY StepIInv
<1> QED
  BY <1>1, <1>2, PTL DEF Spec

(* Types; in particular no handler is given a nil view model. *)
THEOREM ScanTypeOK == Spec => []TypeOK
<1>1. IInv => TypeOK
  BY DEF IInv
<1> QED
  BY <1>1, Invariance, PTL

(* Repeating the check of the slot after the status call is enough: no two *)
(* UTXO scans of mempunk ever run at once, in the server or in Core.       *)
THEOREM ScanOneAtATime == Spec => []OneScanAtATime
<1>1. IInv => OneScanAtATime
  BY DEF IInv
<1> QED
  BY <1>1, Invariance, PTL

(* No tab is ever shown the result of another address. *)
THEOREM ScanResultIsOwn == Spec => []ResultIsOwn
<1>1. IInv => ResultIsOwn
  BY DEF IInv
<1> QED
  BY <1>1, Invariance, PTL
-----------------------------------------------------------------------------
(* What a request holds survives every step of anybody, unchanged. *)
LEMMA HeldIsKept ==
  ASSUME IInv, Next, NEW t \in Tabs, pc[t] = "deliver", pc'[t] = "deliver"
  PROVE  /\ ref'[t] = ref[t] /\ ref[t] # None
         /\ ref[t] \in DOMAIN job' /\ job'[ref[t]] = job[ref[t]]
<1>1. /\ ref[t] \in DOMAIN job /\ ref[t] # None /\ job[ref[t]].done
  BY DEF IInv, TypeOK, ResultIsOwn, Finished, Holds
<1>2. ASSUME NEW u \in Tabs, Poll(u) PROVE u # t /\ job' = job /\ ref'[t] = ref[t]
  BY <1>2 DEF Poll, PollDone, PollOwn, PollBusy, PollFree, GoTo, Answer, IInv, TypeOK
<1>3. ASSUME NEW u \in Tabs, Progress(u) \/ StatusBusy(u) \/ StatusFree(u) \/ StartBusy(u)
      PROVE  u # t /\ job' = job /\ ref'[t] = ref[t]
  BY <1>3 DEF Progress, StatusBusy, StatusFree, StartBusy, GoTo, Answer, IInv, TypeOK
<1>4. ASSUME NEW u \in Tabs, Deliver(u)
      PROVE  /\ ref'[t] = ref[t]
             /\ ref[t] \in DOMAIN job' /\ job'[ref[t]] = job[ref[t]]
  <2>1. /\ u # t /\ ref'[t] = ref[t]
        /\ job' = [j \in Live(slot, Tabs \ {u}) |-> job[j]]
    BY <1>4 DEF Deliver, Answer, IInv, TypeOK
  <2>2. ref[t] \in Live(slot, Tabs \ {u})
    BY <1>1, <2>1 DEF Live
  <2> QED
    BY <2>1, <2>2
<1>5. ASSUME NEW u \in Tabs, Start(u)
      PROVE  /\ ref'[t] = ref[t]
             /\ ref[t] \in DOMAIN job' /\ job'[ref[t]] = job[ref[t]]
  <2>1. /\ u # t /\ ref'[t] = ref[t]
    BY <1>5 DEF Start, Answer, IInv, TypeOK
  <2>2. PICK n \in JobIds \ Live(slot, Tabs) :
          job' = [i \in Live(n, Tabs) \union {n} |->
                    IF i = n THEN NewJob(shows[u]) ELSE job[i]]
    BY <1>5 DEF Start
  <2>3. ref[t] \in Live(n, Tabs) /\ ref[t] # n
    BY <1>1 DEF Live
  <2> QED
    BY <2>1, <2>2, <2>3
<1>6. ASSUME NEW j \in JobIds, Scan(j)
      PROVE  /\ ref'[t] = ref[t]
             /\ ref[t] \in DOMAIN job' /\ job'[ref[t]] = job[ref[t]]
  BY <1>1, <1>6, ScanShape, ScanStep
<1>7. ASSUME ForeignStart \/ ForeignEnd PROVE job' = job /\ ref'[t] = ref[t]
  BY <1>7 DEF ForeignStart, ForeignEnd
<1>8. ~Restart
  BY DEF Restart
<1> QED
  BY <1>1, <1>2, <1>3, <1>4, <1>5, <1>6, <1>7, <1>8 DEF Next, Handle

(* The result read outside the lock is the one the lock protected. *)
THEOREM ScanFinishedIsFinal == Spec => FinishedIsFinal
<1>1. IInv /\ [Next]_vars =>
        [\A t \in Tabs : pc[t] = "deliver" /\ pc'[t] = "deliver"
           => job'[ref[t]] = job[ref[t]]]_vars
  BY HeldIsKept
<1> QED
  BY <1>1, Invariance, PTL DEF Spec, FinishedIsFinal
-----------------------------------------------------------------------------
(* The answer of a tab, as ScanSlot sees it. *)
LEMMA AnswerOf ==
  ASSUME NEW t \in Tabs
  PROVE  TabAnswer[t] = IF pc[t] = "deliver" THEN job[ref[t]].res
                        ELSE IF page[t].kind = "done" THEN page[t].res
                        ELSE page[t].kind
BY DEF TabAnswer

(* A step that leaves the slot as it is and gives tab t an answer a leaves *)
(* ScanSlot's variables as they are, but for that answer.                  *)
LEMMA OneAnswer ==
  ASSUME NEW t \in Tabs, NEW a, TabAnswer'[t] = a,
         \A u \in Tabs \ {t} : TabAnswer'[u] = TabAnswer[u]
  PROVE  TabAnswer' = [TabAnswer EXCEPT ![t] = a]
BY DEF TabAnswer

(* Steps of requests that do not touch the slot: See, ToldToWait, or a     *)
(* stutter.                                                                *)
LEMMA PollRefines ==
  ASSUME IInv, NEW t \in Tabs, Poll(t)
  PROVE  [SS!SlotNext]_(SS!slotVars)
<1>1. /\ UNCHANGED <<shows, slot, job>> /\ SlotScan' = SlotScan
      /\ \A u \in Tabs \ {t} : TabAnswer'[u] = TabAnswer[u]
      /\ pc[t] = "idle"
  BY AnswerOf DEF Poll, PollDone, PollOwn, PollBusy, PollFree, GoTo, Answer,
                  IInv, TypeOK, SlotScan, Finished, TabAnswer
<1>2. CASE PollDone(t)
  <2>1. /\ slot # None /\ job[slot].done /\ job[slot].addr = shows[t]
        /\ job[slot].res \in Outcome
    BY <1>2 DEF PollDone, Finished, IInv, TypeOK, JobState
  <2>2. SlotScan = SS!Over(shows[t], job[slot].res)
    BY <2>1 DEF SlotScan, Finished, SS!Over
  <2>3. TabAnswer'[t] = job[slot].res
    BY <1>1, <1>2 DEF PollDone, GoTo, IInv, TypeOK, TabAnswer
  <2>4. TabAnswer' = [TabAnswer EXCEPT ![t] = job[slot].res]
    BY <1>1, <2>3, OneAnswer
  <2> QED
    BY <1>1, <2>1, <2>2, <2>4 DEF SS!SlotNext, SS!See
<1>3. CASE PollOwn(t) \/ PollFree(t)
  <2>1. TabAnswer'[t] = TabAnswer[t]
    BY <1>1, <1>3 DEF PollOwn, PollFree, GoTo, IInv, TypeOK, TabAnswer
  <2>2. TabAnswer' = TabAnswer
    BY <1>1, <2>1 DEF TabAnswer
  <2> QED
    BY <1>1, <2>2 DEF SS!slotVars
<1>4. CASE PollBusy(t)
  <2>1. TabAnswer'[t] = "scanning"
    BY <1>1, <1>4 DEF PollBusy, Answer, BusyPage, IInv, TypeOK, TabAnswer
  <2>2. TabAnswer' = [TabAnswer EXCEPT ![t] = "scanning"]
    BY <1>1, <2>1, OneAnswer
  <2> QED
    BY <1>1, <2>2 DEF SS!SlotNext, SS!ToldToWait
<1> QED
  BY <1>2, <1>3, <1>4 DEF Poll

(* The read after the unlock is a stutter: the answer was decided when the *)
(* request left the first section.                                         *)
LEMMA DeliverRefines ==
  ASSUME IInv, NEW t \in Tabs, Deliver(t)
  PROVE  UNCHANGED SS!slotVars
<1>1. /\ pc[t] = "deliver" /\ UNCHANGED <<shows, slot>>
      /\ pc' = [pc EXCEPT ![t] = "idle"] /\ ref' = [ref EXCEPT ![t] = None]
      /\ page' = [page EXCEPT ![t] = DonePage(job[ref[t]].addr, job[ref[t]].res)]
      /\ job' = [j \in Live(slot, Tabs \ {t}) |-> job[j]]
  BY DEF Deliver, Answer
<1>2. SlotScan' = SlotScan
  <2>1. slot # None => slot \in Live(slot, Tabs \ {t})
    BY DEF IInv, TypeOK, Live
  <2> QED
    BY <1>1, <2>1 DEF SlotScan, Finished
<1>3. TabAnswer'[t] = TabAnswer[t]
  BY <1>1 DEF IInv, TypeOK, TabAnswer, DonePage
<1>4. ASSUME NEW u \in Tabs \ {t} PROVE TabAnswer'[u] = TabAnswer[u]
  <2>1. pc'[u] = pc[u] /\ ref'[u] = ref[u] /\ page'[u] = page[u]
    BY <1>1 DEF IInv, TypeOK
  <2>2. pc[u] = "deliver" => ref[u] \in Live(slot, Tabs \ {t})
    BY DEF IInv, TypeOK, Holds, Live
  <2> QED
    BY <2>1, <2>2, <1>1 DEF TabAnswer
<1>5. TabAnswer' = TabAnswer
  BY <1>3, <1>4 DEF TabAnswer
<1> QED
  BY <1>1, <1>2, <1>5 DEF SS!slotVars

(* Start is Begin: nothing is running, and nobody else's answer changes. *)
LEMMA StartRefines ==
  ASSUME IInv, NEW t \in Tabs, Start(t)
  PROVE  SS!Begin(t)
<1>1. PICK n \in JobIds \ Live(slot, Tabs) :
        /\ slot' = n
        /\ job' = [i \in Live(n, Tabs) \union {n} |->
                     IF i = n THEN NewJob(shows[t]) ELSE job[i]]
  BY DEF Start
<1>2. /\ pc[t] = "relock" /\ ~Unfinished(slot) /\ UNCHANGED shows
      /\ pc' = [pc EXCEPT ![t] = "idle"] /\ ref' = [ref EXCEPT ![t] = None]
      /\ page' = [page EXCEPT ![t] = ScanningPage]
  BY DEF Start, Answer
<1>3. SlotScan.state # "running"
  BY <1>2 DEF SlotScan, Finished, Unfinished
<1>4. SlotScan' = SS!Busy(shows[t])
  <2>1. job'[n] = NewJob(shows[t]) /\ n # None
    BY <1>1, NoneAssumption
  <2> QED
    BY <1>1, <2>1 DEF SlotScan, Finished, NewJob, SS!Busy
<1>5. TabAnswer'[t] = "scanning"
  BY <1>2 DEF IInv, TypeOK, TabAnswer, ScanningPage
<1>6. ASSUME NEW u \in Tabs \ {t} PROVE TabAnswer'[u] = TabAnswer[u]
  <2>1. pc'[u] = pc[u] /\ ref'[u] = ref[u] /\ page'[u] = page[u]
    BY <1>2 DEF IInv, TypeOK
  <2>2. pc[u] = "deliver" => job'[ref[u]] = job[ref[u]]
    BY <1>1 DEF IInv, TypeOK, Holds, Live
  <2> QED
    BY <2>1, <2>2 DEF TabAnswer
<1>7. TabAnswer' = [TabAnswer EXCEPT ![t] = "scanning"]
  BY <1>5, <1>6, OneAnswer
<1> QED
  BY <1>2, <1>3, <1>4, <1>7 DEF SS!Begin

LEMMA HandleRefines ==
  ASSUME IInv, NEW t \in Tabs, Handle(t)
  PROVE  [SS!SlotNext]_(SS!slotVars)
<1>1. CASE Deliver(t)
  BY <1>1, DeliverRefines
<1>2. CASE Start(t)
  BY <1>2, StartRefines DEF SS!SlotNext
<1>3. CASE StatusFree(t)
  <2>1. UNCHANGED <<shows, slot, job, page>> /\ \A u \in Tabs :
          (pc'[u] = "deliver" <=> pc[u] = "deliver") /\ (u # t => ref'[u] = ref[u])
    BY <1>3 DEF StatusFree, GoTo, IInv, TypeOK
  <2>2. TabAnswer' = TabAnswer
    BY <2>1, <1>3 DEF TabAnswer, StatusFree
  <2> QED
    BY <2>1, <2>2 DEF SS!slotVars, SlotScan, Finished
<1>4. CASE Progress(t) \/ StatusBusy(t) \/ StartBusy(t)
  <2>1. PICK p : p.kind = "scanning" /\ Answer(t, p)
    BY <1>4 DEF Progress, StatusBusy, StartBusy, ScanningPage, BusyPage
  <2>2. UNCHANGED <<shows, slot, job>> /\ SlotScan' = SlotScan
    BY <1>4 DEF Progress, StatusBusy, StartBusy, SlotScan, Finished
  <2>3. /\ TabAnswer'[t] = "scanning"
        /\ \A u \in Tabs \ {t} : TabAnswer'[u] = TabAnswer[u]
    BY <2>1, <2>2 DEF Answer, IInv, TypeOK, TabAnswer
  <2>4. TabAnswer' = [TabAnswer EXCEPT ![t] = "scanning"]
    BY <2>3, OneAnswer
  <2> QED
    BY <2>2, <2>4 DEF SS!SlotNext, SS!ToldToWait
<1> QED
  BY <1>1, <1>2, <1>3, <1>4 DEF Handle

(* The goroutine is invisible until it sets done, which is End. *)
LEMMA ScanRefines ==
  ASSUME IInv, NEW j \in JobIds, Scan(j)
  PROVE  [SS!SlotNext]_(SS!slotVars)
<1>1. PICK r \in Job :
        /\ Running(j) /\ job' = [job EXCEPT ![j] = r]
        /\ r.addr = job[j].addr
        /\ r.done <=> r.at = "returned"
        /\ r.at = "returned" => r.res \in Outcome
        /\ UNCHANGED <<shows, slot, pc, ref, page>>
  BY ScanShape
<1>2. /\ j = slot /\ slot # None /\ j \in DOMAIN job /\ job'[j] = r
      /\ \A t \in Tabs : pc[t] = "deliver" => ref[t] # j /\ ref[t] \in DOMAIN job
  BY <1>1, ScanStep, NoneAssumption DEF Running, IInv, TypeOK, ResultIsOwn, Finished, Holds
<1>3. ~job[slot].done
  BY <1>1, <1>2 DEF Running, IInv, JobState
<1>4. TabAnswer' = TabAnswer
  BY <1>1, <1>2 DEF TabAnswer
<1>5. SlotScan = SS!Busy(job[slot].addr)
  BY <1>2, <1>3 DEF SlotScan, Finished, SS!Busy
<1>6. CASE r.done
  <2>1. SlotScan' = SS!Over(job[slot].addr, r.res) /\ r.res \in Outcome
    BY <1>1, <1>2, <1>6 DEF SlotScan, Finished, SS!Over
  <2> QED
    BY <1>1, <1>4, <1>5, <2>1 DEF SS!SlotNext, SS!End, SS!Busy, SS!Over
<1>7. CASE ~r.done
  <2>1. SlotScan' = SlotScan
    BY <1>1, <1>2, <1>3, <1>7 DEF SlotScan, Finished
  <2> QED
    BY <1>1, <1>4, <2>1 DEF SS!slotVars
<1> QED
  BY <1>6, <1>7

LEMMA RestartRefines ==
  ASSUME IInv, Restart
  PROVE  SS!Lose
<1>1. slot' = None /\ UNCHANGED shows /\ pc' = [t \in Tabs |-> "idle"]
  BY DEF Restart
<1>2. PICK lost \in SUBSET Tabs :
        /\ \A t \in Tabs : pc[t] # "idle" => t \in lost
        /\ page' = [t \in Tabs |-> IF t \in lost THEN Blank ELSE page[t]]
  BY DEF Restart
<1>3. SlotScan' = SS!NoScan
  BY <1>1 DEF SlotScan, SS!NoScan
<1>4. TabAnswer' = [t \in Tabs |-> IF t \in lost THEN "blank" ELSE TabAnswer[t]]
  BY <1>1, <1>2 DEF TabAnswer, Blank
<1> QED
  BY <1>1, <1>3, <1>4 DEF SS!Lose

(* Every step of the scan is a step of ScanSlot or leaves it unchanged. *)
LEMMA StepRefines ==
  IInv /\ [Next]_vars => [SS!SlotNext]_(SS!slotVars)
<1> SUFFICES ASSUME IInv, [Next]_vars PROVE [SS!SlotNext]_(SS!slotVars)
  OBVIOUS
<1>1. ASSUME NEW t \in Tabs, Poll(t) PROVE [SS!SlotNext]_(SS!slotVars)
  BY <1>1, PollRefines
<1>2. ASSUME NEW t \in Tabs, Handle(t) PROVE [SS!SlotNext]_(SS!slotVars)
  BY <1>2, HandleRefines
<1>3. ASSUME NEW j \in JobIds, Scan(j) PROVE [SS!SlotNext]_(SS!slotVars)
  BY <1>3, ScanRefines
<1>4. CASE ForeignStart \/ ForeignEnd \/ UNCHANGED vars
  BY <1>4 DEF ForeignStart, ForeignEnd, vars, SS!slotVars, SlotScan, Finished, TabAnswer
<1>5. CASE Restart
  BY <1>5, RestartRefines DEF SS!SlotNext
<1> QED
  BY <1>1, <1>2, <1>3, <1>4, <1>5 DEF Next

(* The UTXO scan implements the slot without locks, RPCs or goroutines:    *)
(* every answer is justified by the slot at one instant.                   *)
THEOREM ScanImplementsSlot == Spec => AnswersAreAtomic
<1>1. Init => SS!SlotInit
  BY DEF Init, SS!SlotInit, SlotScan, TabAnswer, Blank, SS!NoScan
<1>2. IInv /\ [Next]_vars => [SS!SlotNext]_(SS!slotVars)
  BY StepRefines
<1> QED
  BY <1>1, <1>2, Invariance, PTL DEF Spec, AnswersAreAtomic, SS!SlotSpec
-----------------------------------------------------------------------------
(* Why a scan comes to an end.  The steps a goroutine has before it, and   *)
(* those of the request of a tab.                                          *)
StepsLeft(j) ==
  IF ~Running(j) THEN 0
  ELSE IF job[j].at = "start" THEN 3 ELSE IF job[j].at = "wait" THEN 2 ELSE 1

RequestLeft(t) == IF pc[t] = "idle" THEN 0 ELSE IF pc[t] = "status" THEN 2 ELSE 1

(* A goroutine that waits for Core waits for a scan that Core still runs:  *)
(* neither a restart, nor another client, nor a foreign scan that ends     *)
(* leaves it waiting for nothing.                                          *)
Awaited == \A j \in JobIds : Running(j) /\ job[j].at = "wait" => node = j

(* Every step of a goroutine or of a handler brings it nearer to its end,  *)
(* and nothing another one does puts it back: the identity of its job is   *)
(* not given to a new one while it runs.                                   *)
Onwards ==
  /\ \A j \in JobIds : /\ Scan(j) => StepsLeft(j)' < StepsLeft(j)
                       /\ Running(j) => StepsLeft(j)' <= StepsLeft(j)
  /\ \A t \in Tabs : /\ Handle(t) => RequestLeft(t)' < RequestLeft(t)
                     /\ pc[t] # "idle" => RequestLeft(t)' <= RequestLeft(t)

(* What requests and other clients do to the goroutines: nothing, but for  *)
(* starting a new one.                                                     *)
LEMMA GoroutinesAreKept ==
  ASSUME IInv, \/ \E t \in Tabs : Poll(t) \/ Handle(t)
               \/ ForeignStart \/ ForeignEnd \/ UNCHANGED vars
  PROVE  \A j \in JobIds :
           /\ Running(j) => j \in DOMAIN job' /\ job'[j] = job[j]
           /\ ~Running(j) /\ Running(j)' => job'[j].at = "start"
<1> SUFFICES ASSUME NEW j \in JobIds
             PROVE  /\ Running(j) => j \in DOMAIN job' /\ job'[j] = job[j]
                    /\ ~Running(j) /\ Running(j)' => job'[j].at = "start"
  OBVIOUS
<1>1. CASE UNCHANGED job
  BY <1>1 DEF Running
<1>2. ASSUME NEW t \in Tabs, Deliver(t) \/ Start(t)
      PROVE  /\ Running(j) => j \in DOMAIN job' /\ job'[j] = job[j]
             /\ ~Running(j) /\ Running(j)' => job'[j].at = "start"
  <2>1. CASE Deliver(t)
    BY <2>1 DEF Deliver, Live, Running
  <2>2. CASE Start(t)
    <3>1. PICK n \in JobIds \ Live(slot, Tabs) :
            job' = [i \in Live(n, Tabs) \union {n} |->
                      IF i = n THEN NewJob(shows[t]) ELSE job[i]]
      BY <2>2 DEF Start
    <3>2. Running(j) => j \in Live(n, Tabs) /\ j # n
      BY <3>1 DEF Live, Running
    <3>3. j \in DOMAIN job' /\ j # n => j \in DOMAIN job /\ job'[j] = job[j]
      BY <3>1 DEF Live
    <3>4. job'[n] = NewJob(shows[t])
      BY <3>1
    <3> QED
      BY <3>1, <3>2, <3>3, <3>4 DEF Running, NewJob
  <2> QED
    BY <1>2, <2>1, <2>2
<1> QED
  BY <1>1, <1>2 DEF Poll, Handle, Progress, StatusBusy, StatusFree, StartBusy,
                    ForeignStart, ForeignEnd, vars

(* Each step of a goroutine is nearer to its return than the one before.   *)
LEMMA ScanGoesOn ==
  ASSUME IInv, NEW j \in JobIds, Scan(j)
  PROVE  /\ StepsLeft(j)' < StepsLeft(j) /\ UNCHANGED <<pc, DOMAIN job>>
         /\ \A i \in JobIds : i # j /\ i \in DOMAIN job => job'[i] = job[i]
<1>1. /\ j \in DOMAIN job /\ job[j].at \in {"start", "wait", "answered"}
      /\ job \in [DOMAIN job -> Job]
  BY DEF Scan, Accepted, Rejected, NotSent, Completed, GaveUp, Finish, Running,
         IInv, TypeOK, Job
<1>2. CASE Accepted(j)
  BY <1>1, <1>2 DEF Accepted, StepsLeft, Running, Job
<1>3. CASE Rejected(j) \/ NotSent(j) \/ Completed(j) \/ GaveUp(j)
  <2>1. PICK o \in Outcome : job' = [job EXCEPT ![j].at = "answered", ![j].answer = o]
    BY <1>3 DEF Rejected, NotSent, Completed, GaveUp, Answered, Outcome
  <2>2. job[j].at \in {"start", "wait"} /\ UNCHANGED pc
    BY <1>3 DEF Rejected, NotSent, Completed, GaveUp
  <2> QED
    BY <1>1, <2>1, <2>2 DEF StepsLeft, Running, Job
<1>4. CASE Finish(j)
  BY <1>1, <1>4 DEF Finish, StepsLeft, Running, Job
<1> QED
  BY <1>2, <1>3, <1>4 DEF Scan

(* A handler has one RPC and one answer before it, at most.                *)
LEMMA HandlerGoesOn ==
  ASSUME IInv, NEW t \in Tabs, Poll(t) \/ Handle(t)
  PROVE  /\ Handle(t) => RequestLeft(t)' < RequestLeft(t)
         /\ \A u \in Tabs : u # t => pc'[u] = pc[u]
         /\ pc[t] # "idle" => Handle(t)
<1>1. \E l \in {"idle", "deliver", "progress", "status", "relock"} :
        /\ pc' = [pc EXCEPT ![t] = l]
        /\ Handle(t) => IF pc[t] = "status" THEN l \in {"idle", "relock"}
                        ELSE pc[t] # "idle" /\ l = "idle"
  <2>1. CASE Poll(t)
    BY <2>1 DEF Poll, PollDone, PollOwn, PollBusy, PollFree, GoTo, Answer, Handle,
                Deliver, Progress, StatusBusy, StatusFree, StartBusy, Start
  <2>2. CASE Handle(t)
    BY <2>2 DEF GoTo, Answer, Handle, Deliver, Progress, StatusBusy, StatusFree,
                StartBusy, Start
  <2> QED
    BY <2>1, <2>2
<1>2. pc \in [Tabs -> {"idle", "deliver", "progress", "status", "relock"}]
  BY DEF IInv, TypeOK
<1>3. pc[t] # "idle" => Handle(t)
  BY DEF Poll
<1> QED
  BY <1>1, <1>2, <1>3 DEF RequestLeft

LEMMA RestartEnds ==
  ASSUME Restart
  PROVE  /\ \A j : ~Running(j)' /\ StepsLeft(j)' = 0
         /\ \A t \in Tabs : RequestLeft(t)' = 0
BY DEF Restart, Running, StepsLeft, RequestLeft

LEMMA LeftIsNat ==
  /\ \A j : StepsLeft(j) \in 0..3 /\ StepsLeft(j)' \in 0..3
  /\ \A t : RequestLeft(t) \in 0..2 /\ RequestLeft(t)' \in 0..2
BY DEF StepsLeft, RequestLeft

LEMMA StepGoesOn == IInv /\ [Next]_vars => [Onwards]_vars
<1> SUFFICES ASSUME IInv, Next PROVE Onwards
  BY DEF vars
<1>1. ASSUME NEW j \in JobIds, Scan(j) PROVE StepsLeft(j)' < StepsLeft(j)
  BY <1>1, ScanGoesOn
<1>2. ASSUME NEW t \in Tabs, Handle(t) PROVE RequestLeft(t)' < RequestLeft(t)
  BY <1>2, HandlerGoesOn
<1>3. ASSUME NEW j \in JobIds, Running(j) PROVE StepsLeft(j)' <= StepsLeft(j)
  <2>1. ASSUME NEW i \in JobIds, Scan(i) PROVE StepsLeft(j)' <= StepsLeft(j)
    <3>1. CASE i = j
      BY <1>1, <2>1, <3>1, LeftIsNat
    <3>2. CASE i # j
      <4>1. j \in DOMAIN job /\ job'[j] = job[j] /\ DOMAIN job' = DOMAIN job
        BY <1>3, <2>1, <3>2, ScanGoesOn DEF Running
      <4> QED
        BY <4>1, LeftIsNat DEF StepsLeft, Running
    <3> QED
      BY <3>1, <3>2
  <2>2. CASE Restart
    BY <2>2, RestartEnds, LeftIsNat
  <2>3. CASE (\E t \in Tabs : Poll(t) \/ Handle(t)) \/ ForeignStart \/ ForeignEnd
    <3>1. j \in DOMAIN job' /\ job'[j] = job[j]
      BY <1>3, <2>3, GoroutinesAreKept
    <3> QED
      BY <1>3, <3>1, LeftIsNat DEF StepsLeft, Running
  <2> QED
    BY <2>1, <2>2, <2>3 DEF Next
<1>4. ASSUME NEW t \in Tabs, pc[t] # "idle" PROVE RequestLeft(t)' <= RequestLeft(t)
  <2>1. ASSUME NEW u \in Tabs, Poll(u) \/ Handle(u)
        PROVE  RequestLeft(t)' <= RequestLeft(t)
    <3>1. CASE u = t
      BY <1>2, <1>4, <2>1, <3>1, HandlerGoesOn, LeftIsNat
    <3>2. CASE u # t
      <4>1. pc'[t] = pc[t]
        BY <2>1, <3>2, HandlerGoesOn
      <4> QED
        BY <4>1, LeftIsNat DEF RequestLeft
    <3> QED
      BY <3>1, <3>2
  <2>2. ASSUME UNCHANGED pc PROVE RequestLeft(t)' <= RequestLeft(t)
    BY <2>2, LeftIsNat DEF RequestLeft
  <2>3. CASE Restart
    BY <2>3, RestartEnds, LeftIsNat
  <2>4. ASSUME NEW j \in JobIds, Scan(j) PROVE UNCHANGED pc
    BY <2>4, ScanGoesOn
  <2>5. ForeignStart \/ ForeignEnd => UNCHANGED pc
    BY DEF ForeignStart, ForeignEnd
  <2> QED
    BY <2>1, <2>2, <2>3, <2>4, <2>5 DEF Next
<1> QED
  BY <1>1, <1>2, <1>3, <1>4 DEF Onwards

(* The node never drops the scan that a goroutine waits for.               *)
LEMMA AwaitedStep == IInv /\ Awaited /\ [Next]_vars => Awaited'
<1> SUFFICES ASSUME IInv, Awaited, [Next]_vars, NEW j \in JobIds,
                    Running(j)', job'[j].at = "wait"
             PROVE  node' = j
  BY DEF Awaited
<1>1. node \in {"idle", "foreign"} =>
        \A i \in JobIds : ~(Running(i) /\ job[i].at = "wait")
  BY NodeAssumption DEF Awaited
<1>2. ASSUME NEW i \in JobIds, Scan(i) PROVE node' = j
  <2>1. CASE i = j
    <3>1. Accepted(j)
      BY <1>2, <2>1 DEF Scan, Rejected, NotSent, Completed, GaveUp, Finish, Answered,
                        Running, IInv, TypeOK, Job
    <3> QED
      BY <3>1 DEF Accepted
  <2>2. CASE i # j
    <3>1. j \in DOMAIN job /\ job'[j] = job[j]
      BY <1>2, <2>2, ScanGoesOn DEF Running
    <3>2. node = j
      BY <3>1 DEF Awaited, Running
    <3>3. Rejected(i) \/ NotSent(i) \/ Finish(i)
      BY <1>2, <2>2, <3>2, NodeAssumption DEF Scan, Accepted, Completed, GaveUp
    <3> QED
      BY <3>2, <3>3 DEF Rejected, NotSent, Finish
  <2> QED
    BY <2>1, <2>2
<1>3. CASE (\E t \in Tabs : Poll(t) \/ Handle(t)) \/ ForeignStart \/ ForeignEnd
           \/ UNCHANGED vars
  <2>1. Running(j) /\ job[j].at = "wait"
    BY <1>3, GoroutinesAreKept
  <2>2. node = j /\ node \notin {"idle", "foreign"}
    BY <1>1, <2>1 DEF Awaited
  <2> QED
    BY <1>3, <2>2 DEF Poll, Handle, Deliver, Progress, StatusBusy, StatusFree,
                      StartBusy, Start, ForeignStart, ForeignEnd, vars
<1>4. CASE Restart
  BY <1>4, RestartEnds
<1> QED
  BY <1>2, <1>3, <1>4 DEF Next

(* A scan cannot go on for ever, nor wait for nothing: the goroutine has   *)
(* three steps at most before it and the handler two, each step takes one  *)
(* off, nobody puts one back, and what is waited for is there.             *)
THEOREM ScanIsBounded == Spec => []Awaited /\ [][Onwards]_vars
<1>1. Init => Awaited
  BY DEF Init, Awaited, Running
<1> QED
  BY <1>1, AwaitedStep, StepGoesOn, Invariance, PTL DEF Spec
=============================================================================
