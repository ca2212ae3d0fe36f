-------------------------- MODULE HistoryScanProofs --------------------------
(***************************************************************************)
(* Theorems about HistoryScan: although scans displace each other, for any *)
(* tabs, addresses, job identities and bounds no tab is shown a result of  *)
(* another address, none of a node without the index, and every answer is  *)
(* one the slot justified at one instant.                                  *)
(***************************************************************************)
EXTENDS HistoryScan, FanOut, FiniteSetTheorems, TLAPS

(* What the fields of a job say of each other, and what a goroutine can    *)
(* have come to on a node without the index.                               *)
JobState(j) ==
  /\ job[j].done <=> job[j].at = "returned"
  /\ job[j].at = "returned" => job[j].res \in Outcome
  /\ job[j].at = "answered" => job[j].answer \in Outcome
  /\ ~indexOn => /\ job[j].at \notin {"wait", "fetch"}
                 /\ job[j].answer # "ok" /\ job[j].res # "ok"

(* Exactly the requests about to deliver hold a job. *)
HoldsJob(t) == pc[t] = "deliver" <=> ref[t] # None

(* The inductive invariant. *)
IInv ==
  /\ TypeOK /\ ResultIsOwn /\ NoHistoryWithoutIndex
  /\ \A j \in DOMAIN job : JobState(j)
  /\ \A t \in Tabs : HoldsJob(t)
-----------------------------------------------------------------------------
(* Initially the invariant holds. *)
LEMMA InitIInv == Init => IInv
<1> SUFFICES ASSUME Init PROVE IInv
  OBVIOUS
<1>1. DOMAIN job = {} /\ job \in [DOMAIN job -> Job]
  BY DEF Init
<1>2. TypeOK
  BY <1>1, BoundsAssumption DEF Init, TypeOK, Page, Blank
<1>3. ResultIsOwn /\ NoHistoryWithoutIndex
  BY DEF Init, ResultIsOwn, NoHistoryWithoutIndex, Blank
<1> QED
  BY <1>1, <1>2, <1>3 DEF Init, IInv, HoldsJob

(* A finished job in the slot is of the tab's address, and is held from    *)
(* here on; a tab whose job runs is told to wait.                          *)
LEMMA PollSlotStep ==
  ASSUME IInv, NEW t \in Tabs, pc[t] = "idle", PollDone(t) \/ PollOwn(t),
         UNCHANGED <<shows, indexOn, node, restarts>>
  PROVE  IInv'
<1>1. CASE PollDone(t)
  <2>1. /\ pc' = [pc EXCEPT ![t] = "deliver"] /\ ref' = [ref EXCEPT ![t] = slot]
        /\ UNCHANGED <<slot, job, page>> /\ slot \in DOMAIN job /\ slot # None
        /\ job[slot].done /\ job[slot].addr = shows[t]
    BY <1>1 DEF PollDone, Finished, IInv, TypeOK
  <2>2. TypeOK'
    BY <2>1 DEF IInv, TypeOK
  <2>3. ResultIsOwn'
    BY <2>1 DEF IInv, TypeOK, ResultIsOwn, Finished
  <2>4. NoHistoryWithoutIndex' /\ \A j \in DOMAIN job' : JobState(j)'
    BY <2>1 DEF IInv, NoHistoryWithoutIndex, JobState
  <2>5. \A u \in Tabs : HoldsJob(u)'
    BY <2>1 DEF IInv, TypeOK, HoldsJob
  <2> QED
    BY <2>2, <2>3, <2>4, <2>5 DEF IInv
<1>2. CASE PollOwn(t)
  <2>1. /\ UNCHANGED <<slot, job, pc, ref>>
        /\ page' = [page EXCEPT ![t] = ScanningPage]
    BY <1>2 DEF PollOwn, Answer
  <2>2. TypeOK'
    BY <2>1 DEF IInv, TypeOK, Page, ScanningPage
  <2>3. ResultIsOwn'
    BY <2>1 DEF IInv, TypeOK, ResultIsOwn, Finished, ScanningPage
  <2>4. NoHistoryWithoutIndex'
    BY <2>1 DEF IInv, TypeOK, NoHistoryWithoutIndex, ScanningPage
  <2>5. (\A j \in DOMAIN job' : JobState(j)') /\ \A u \in Tabs : HoldsJob(u)'
    BY <2>1 DEF IInv, JobState, HoldsJob
  <2> QED
    BY <2>2, <2>3, <2>4, <2>5 DEF IInv
<1> QED
  BY <1>1, <1>2

(* A new job takes the slot from whatever is there.  Its identity is held  *)
(* by nobody, and the jobs that run or are held stay as they are.          *)
LEMMA StartStep ==
  ASSUME IInv, NEW t \in Tabs, pc[t] = "idle", Start(t),
         UNCHANGED <<shows, indexOn, node, restarts>>
  PROVE  IInv'
<1>1. PICK n \in JobIds \ Live(slot, Tabs) :
        /\ slot' = n
        /\ job' = [i \in Live(n, Tabs) \union {n} |->
                     IF i = n THEN NewJob(shows[t]) ELSE job[i]]
  BY DEF Start
<1> DEFINE L == Live(n, Tabs)
<1>2. page' = [page EXCEPT ![t] = ScanningPage] /\ UNCHANGED <<pc, ref>>
  BY DEF Start, Answer
<1>3. /\ L \subseteq DOMAIN job
      /\ \A u \in Tabs : ref[u] # None => ref[u] \in L /\ ref[u] # n
  BY DEF IInv, TypeOK, Live
<1>4. /\ DOMAIN job' = L \union {n} /\ job'[n] = NewJob(shows[t])
      /\ \A j \in L : j # n => job'[j] = job[j]
  BY <1>1
<1>5. TypeOK'
  <2>1. NewJob(shows[t]) \in Job
    BY DEF IInv, TypeOK, NewJob, Job
  <2>2. job' \in [L \union {n} -> Job] /\ L \union {n} \subseteq JobIds
    BY <1>1, <1>3, <2>1 DEF IInv, TypeOK
  <2>3. job' \in [DOMAIN job' -> Job] /\ DOMAIN job' \subseteq JobIds
    BY <2>2, <1>4
  <2>4. ref' \in [Tabs -> (DOMAIN job') \union {None}]
    BY <1>2, <1>3, <1>4 DEF IInv, TypeOK
  <2>5. /\ page' \in [Tabs -> Page]
        /\ \A u \in Tabs : page'[u].kind = "done" => page'[u].res # "nil"
    BY <1>2 DEF IInv, TypeOK, Page, ScanningPage
  <2>6. slot' \in JobIds \cap DOMAIN job'
    BY <1>1, <1>4
  <2> QED
    BY <1>2, <2>3, <2>4, <2>5, <2>6 DEF IInv, TypeOK
<1>6. ResultIsOwn'
  <2>1. ASSUME NEW u \in Tabs, pc'[u] = "deliver"
        PROVE  Finished(ref[u])' /\ job'[ref'[u]].addr = shows'[u]
    <3>1. Finished(ref[u]) /\ job[ref[u]].addr = shows[u] /\ ref'[u] = ref[u]
      BY <1>2, <2>1 DEF IInv, ResultIsOwn
    <3>2. job'[ref[u]] = job[ref[u]] /\ ref[u] # None
      BY <3>1, <1>3, <1>4 DEF Finished
    <3> QED
      BY <3>1, <3>2 DEF Finished
  <2>2. ASSUME NEW u \in Tabs, page'[u].kind = "done"
        PROVE  page'[u].addr = shows'[u]
    BY <2>2, <1>2 DEF IInv, TypeOK, ResultIsOwn, ScanningPage
  <2> QED
    BY <2>1, <2>2 DEF ResultIsOwn
<1>7. NoHistoryWithoutIndex'
  BY <1>2 DEF IInv, TypeOK, NoHistoryWithoutIndex, ScanningPage
<1>8. \A j \in DOMAIN job' : JobState(j)'
  BY <1>3, <1>4 DEF IInv, JobState, NewJob
<1>9. \A u \in Tabs : HoldsJob(u)'
  BY <1>2 DEF IInv, HoldsJob
<1> QED
  BY <1>5, <1>6, <1>7, <1>8, <1>9 DEF IInv

LEMMA PollStep ==
  ASSUME IInv, NEW t \in Tabs, Poll(t)
  PROVE  IInv'
BY PollSlotStep, StartStep DEF Poll

(* What is delivered is the result of a finished job of the tab's address; *)
(* the other requests keep the jobs they hold.                             *)
LEMMA DeliverStep ==
  ASSUME IInv, NEW t \in Tabs, Deliver(t)
  PROVE  IInv'
<1> DEFINE L == Live(slot, Tabs \ {t})
<1>1. /\ pc' = [pc EXCEPT ![t] = "idle"] /\ ref' = [ref EXCEPT ![t] = None]
      /\ page' = [page EXCEPT ![t] = DonePage(job[ref[t]].addr, job[ref[t]].res)]
      /\ job' = [j \in L |-> job[j]] /\ L \subseteq DOMAIN job
      /\ UNCHANGED <<shows, indexOn, slot, node, restarts>>
  BY DEF Deliver, Answer, Live
<1>2. /\ slot # None => slot \in L
      /\ \A u \in Tabs \ {t} : ref[u] # None => ref[u] \in L
  BY DEF IInv, TypeOK, Live
<1>3. /\ ref[t] \in DOMAIN job /\ job[ref[t]].addr = shows[t]
      /\ job[ref[t]].res \in Outcome /\ job[ref[t]].addr \in Addrs
      /\ ~indexOn => job[ref[t]].res # "ok"
  BY DEF Deliver, IInv, TypeOK, Job, HoldsJob, ResultIsOwn, Finished, JobState
<1>4. TypeOK'
  <2>1. DOMAIN job' = L /\ job' \in [L -> Job]
    BY <1>1 DEF IInv, TypeOK
  <2>2. /\ page' \in [Tabs -> Page]
        /\ \A u \in Tabs : page'[u].kind = "done" => page'[u].res # "nil"
    BY <1>1, <1>3 DEF IInv, TypeOK, Page, DonePage, Outcome
  <2>3. ref' \in [Tabs -> L \union {None}] /\ pc' \in [Tabs -> {"idle", "deliver"}]
    BY <1>1, <1>2 DEF IInv, TypeOK
  <2>4. slot' \in (JobIds \cap L) \union {None} /\ L \subseteq JobIds
    BY <1>1, <1>2 DEF IInv, TypeOK
  <2> QED
    BY <1>1, <2>1, <2>2, <2>3, <2>4 DEF IInv, TypeOK
<1>5. ResultIsOwn'
  <2>1. ASSUME NEW u \in Tabs, pc'[u] = "deliver"
        PROVE  Finished(ref[u])' /\ job'[ref'[u]].addr = shows'[u]
    <3>1. u # t /\ pc[u] = "deliver" /\ ref'[u] = ref[u]
      BY <1>1, <2>1 DEF IInv, TypeOK
    <3>2. Finished(ref[u]) /\ job[ref[u]].addr = shows[u] /\ ref[u] \in L
      BY <3>1, <1>2 DEF IInv, ResultIsOwn, HoldsJob
    <3> QED
      BY <3>1, <3>2, <1>1 DEF Finished
  <2>2. ASSUME NEW u \in Tabs, page'[u].kind = "done"
        PROVE  page'[u].addr = shows'[u]
    BY <2>2, <1>1, <1>3 DEF IInv, TypeOK, ResultIsOwn, DonePage
  <2> QED
    BY <2>1, <2>2 DEF ResultIsOwn
<1>6. NoHistoryWithoutIndex'
  BY <1>1, <1>3 DEF IInv, TypeOK, NoHistoryWithoutIndex, DonePage
<1>7. \A j \in DOMAIN job' : JobState(j)'
  BY <1>1 DEF IInv, JobState
<1>8. \A u \in Tabs : HoldsJob(u)'
  BY <1>1 DEF IInv, TypeOK, HoldsJob
<1> QED
  BY <1>4, <1>5, <1>6, <1>7, <1>8 DEF IInv

(* What every step of the goroutine of j does: only the record of j        *)
(* changes, or j is dropped when it returns and was displaced; j was not   *)
(* finished, so that no request holds it.                                  *)
Shape(j, r, D) ==
  /\ Running(j) /\ job' = [i \in D |-> IF i = j THEN r ELSE job[i]]
  /\ D \subseteq DOMAIN job /\ DOMAIN job \subseteq D \union {j}
  /\ j \notin D => r.at = "returned" /\ slot # j
  /\ r.addr = job[j].addr
  /\ r.done <=> r.at = "returned"
  /\ r.at = "returned" => r.res \in Outcome
  /\ r.at = "answered" => r.answer \in Outcome
  /\ ~indexOn => r.at \notin {"wait", "fetch"} /\ r.answer # "ok" /\ r.res # "ok"
  /\ node' \in {node, "idle", "foreign"} \union IF indexOn THEN {j} ELSE {}
  /\ ~indexOn => node' = node
  /\ UNCHANGED <<shows, indexOn, slot, pc, ref, page, restarts>>

LEMMA ScanShape ==
  ASSUME IInv, NEW j \in JobIds, Scan(j)
  PROVE  \E r \in Job, D \in SUBSET DOMAIN job : Shape(j, r, D)
<1>1. Running(j) /\ UNCHANGED <<shows, indexOn, slot, pc, ref, page, restarts>>
  BY DEF Scan, Accepted, Rejected, NotSent, Scanned, GaveUp, Fetched, Finish
<1>2. /\ j \in DOMAIN job /\ job[j] \in Job /\ JobState(j) /\ ~job[j].done
      /\ ~indexOn => node = "idle"
  BY <1>1 DEF IInv, TypeOK, Running, JobState, NoHistoryWithoutIndex
<1>3. ASSUME NEW l \in {"wait", "fetch"}, job' = [job EXCEPT ![j].at = l],
             indexOn, node' \in {j, "idle"}
      PROVE  \E r \in Job, D \in SUBSET DOMAIN job : Shape(j, r, D)
  <2> DEFINE r == [job[j] EXCEPT !.at = l]
  <2>1. r \in Job /\ r.addr = job[j].addr /\ r.at = l /\ ~r.done
    BY <1>2 DEF Job
  <2>2. job' = [i \in DOMAIN job |-> IF i = j THEN r ELSE job[i]]
    BY <1>2, <1>3 DEF IInv, TypeOK
  <2>3. Shape(j, r, DOMAIN job)
    BY <1>1, <1>2, <1>3, <2>1, <2>2 DEF Shape
  <2> QED
    BY <2>1, <2>3
<1>4. ASSUME NEW o \in Outcome,
             job' = [job EXCEPT ![j].at = "answered", ![j].answer = o],
             ~indexOn => o # "ok" /\ node' = node,
             node' \in {node, "idle", "foreign"}
      PROVE  \E r \in Job, D \in SUBSET DOMAIN job : Shape(j, r, D)
  <2> DEFINE r == [job[j] EXCEPT !.at = "answered", !.answer = o]
  <2>1. /\ r \in Job /\ r.addr = job[j].addr /\ r.at = "answered" /\ r.answer = o
        /\ ~r.done /\ r.res = job[j].res
    BY <1>2 DEF Job, Outcome
  <2>2. job' = [i \in DOMAIN job |-> IF i = j THEN r ELSE job[i]]
    BY <1>2, <1>4 DEF IInv, TypeOK
  <2>3. Shape(j, r, DOMAIN job)
    BY <1>1, <1>2, <1>4, <2>1, <2>2 DEF Shape, JobState
  <2> QED
    BY <2>1, <2>3
<1>5. \A o \in Answers : /\ View(o) \in Outcome
                         /\ View(o) = "ok" => o \in {"blocks", "empty"}
  BY DEF Answers, View, Outcome
<1>6. CASE Accepted(j)
  BY <1>3, <1>6 DEF Accepted
<1>7. CASE Rejected(j) \/ NotSent(j)
  <2>1. \E o \in {"busy", "noindex", "failed"} : Answered(j, o)
    BY <1>7 DEF Rejected, NotSent
  <2>2. node' = node
    BY <1>7 DEF Rejected, NotSent
  <2> QED
    BY <1>4, <1>5, <2>1, <2>2 DEF Answered, Answers
<1>8. CASE Scanned(j)
  <2>1. indexOn /\ node' = "idle"
    BY <1>2, <1>8 DEF Scanned, JobState
  <2>2. CASE job' = [job EXCEPT ![j].at = "fetch"]
    BY <1>3, <2>1, <2>2
  <2>3. CASE Answered(j, "empty") \/ Answered(j, "failed")
    BY <1>4, <1>5, <2>1, <2>3 DEF Answered, Answers
  <2> QED
    BY <1>8, <2>2, <2>3 DEF Scanned
<1>9. CASE GaveUp(j) \/ Fetched(j)
  <2>1. indexOn /\ node' \in {node, "foreign"}
    BY <1>2, <1>9 DEF GaveUp, Fetched, JobState
  <2>2. \E o \in {"blocks", "failed"} : Answered(j, o)
    BY <1>9 DEF GaveUp, Fetched
  <2> QED
    BY <1>4, <1>5, <2>1, <2>2 DEF Answered, Answers
<1>10. CASE Finish(j)
  <2> DEFINE r == [job[j] EXCEPT !.at = "returned", !.answer = "none",
                                 !.done = TRUE, !.res = job[j].answer]
             D == {i \in DOMAIN job : i = j => slot = j}
  <2>1. job[j].answer \in Outcome /\ (~indexOn => job[j].answer # "ok")
    BY <1>2, <1>10 DEF Finish, JobState
  <2>2. /\ r \in Job /\ r.addr = job[j].addr /\ r.at = "returned" /\ r.done
        /\ r.res = job[j].answer /\ r.answer = "none"
    BY <1>2, <2>1 DEF Job, Outcome
  <2>3. job' = [i \in D |-> IF i = j THEN r ELSE job[i]]
    BY <1>2, <1>10 DEF Finish, Over, IInv, TypeOK
  <2>4. D \subseteq DOMAIN job /\ DOMAIN job \subseteq D \union {j} /\ (j \notin D => slot # j)
    BY <1>2
  <2>5. node' = node
    BY <1>10 DEF Finish
  <2> HIDE DEF r, D
  <2>6. Shape(j, r, D)
    BY <1>1, <2>1, <2>2, <2>3, <2>4, <2>5 DEF Shape
  <2> QED
    BY <2>2, <2>4, <2>6
<1> QED
  BY <1>6, <1>7, <1>8, <1>9, <1>10 DEF Scan

(* The job a request holds, and the one in the slot, are not dropped; what *)
(* a request holds does not change.                                        *)
LEMMA HeldByShape ==
  ASSUME IInv, NEW j \in JobIds, NEW r \in Job, NEW D \in SUBSET DOMAIN job,
         Shape(j, r, D)
  PROVE  /\ DOMAIN job' = D /\ j \in DOMAIN job /\ ~job[j].done
         /\ \A i \in D : job'[i] = IF i = j THEN r ELSE job[i]
         /\ slot # None => slot \in D
         /\ \A t \in Tabs : pc[t] = "deliver" =>
              ref[t] # j /\ ref[t] \in D /\ job'[ref[t]] = job[ref[t]]
<1>1. j \in DOMAIN job /\ ~job[j].done
  BY DEF Shape, Running, IInv, JobState
<1>2. \A t \in Tabs : pc[t] = "deliver" => ref[t] # j /\ ref[t] \in DOMAIN job
  BY <1>1 DEF IInv, ResultIsOwn, Finished, TypeOK
<1>3. D \subseteq DOMAIN job /\ DOMAIN job \subseteq D \union {j} /\ (j \notin D => slot # j)
  BY DEF Shape
<1>4. job' = [i \in D |-> IF i = j THEN r ELSE job[i]]
  BY DEF Shape
<1> QED
  BY <1>1, <1>2, <1>3, <1>4 DEF IInv, TypeOK

LEMMA ScanStep ==
  ASSUME IInv, NEW j \in JobIds, Scan(j)
  PROVE  IInv'
<1>1. PICK r \in Job, D \in SUBSET DOMAIN job : Shape(j, r, D)
  BY ScanShape
<1>2. /\ DOMAIN job' = D /\ j \in DOMAIN job /\ ~job[j].done
      /\ \A i \in D : job'[i] = IF i = j THEN r ELSE job[i]
      /\ slot # None => slot \in D
      /\ \A t \in Tabs : pc[t] = "deliver" =>
           ref[t] # j /\ ref[t] \in D /\ job'[ref[t]] = job[ref[t]]
  BY <1>1, HeldByShape
<1>3. TypeOK'
  <2>1. job' \in [D -> Job] /\ D \subseteq JobIds
    BY <1>1 DEF Shape, IInv, TypeOK
  <2>2. ref' \in [Tabs -> D \union {None}]
    BY <1>1, <1>2 DEF Shape, IInv, TypeOK, HoldsJob
  <2>3. node' \in {"idle", "foreign"} \union JobIds
    BY <1>1 DEF Shape, IInv, TypeOK
  <2>4. UNCHANGED <<shows, indexOn, slot, pc, page, restarts>>
    BY <1>1 DEF Shape
  <2> QED
    BY <1>2, <2>1, <2>2, <2>3, <2>4 DEF IInv, TypeOK
<1>4. ResultIsOwn'
  BY <1>1, <1>2 DEF Shape, IInv, ResultIsOwn, Finished
<1>5. NoHistoryWithoutIndex'
  BY <1>1 DEF Shape, IInv, NoHistoryWithoutIndex
<1>6. \A i \in DOMAIN job' : JobState(i)'
  BY <1>1, <1>2 DEF Shape, IInv, JobState
<1>7. \A u \in Tabs : HoldsJob(u)'
  BY <1>1 DEF Shape, IInv, HoldsJob
<1> QED
  BY <1>3, <1>4, <1>5, <1>6, <1>7 DEF IInv

LEMMA ForeignStep ==
  ASSUME IInv, ForeignEnd
  PROVE  IInv'
<1>1. node' = "idle" /\ UNCHANGED <<shows, indexOn, slot, job, pc, ref, page, restarts>>
  BY DEF ForeignEnd
<1>2. TypeOK' /\ ResultIsOwn'
  BY <1>1 DEF IInv, TypeOK, ResultIsOwn, Finished
<1>3. NoHistoryWithoutIndex'
  BY <1>1 DEF IInv, NoHistoryWithoutIndex
<1> QED
  BY <1>1, <1>2, <1>3 DEF IInv, JobState, HoldsJob

(* After a restart there is no job, and no request that could hold one. *)
LEMMA RestartStep ==
  ASSUME IInv, Restart
  PROVE  IInv'
<1>1. /\ slot' = None /\ DOMAIN job' = {} /\ job' \in [{} -> Job]
      /\ node' = IF node = "idle" THEN "idle" ELSE "foreign"
      /\ restarts' \in 0..MaxRestarts
      /\ pc' = [t \in Tabs |-> "idle"] /\ ref' = [t \in Tabs |-> None]
      /\ UNCHANGED <<shows, indexOn>>
  BY BoundsAssumption DEF Restart, IInv, TypeOK
<1>2. PICK lost \in SUBSET Tabs :
        page' = [t \in Tabs |-> IF t \in lost THEN Blank ELSE page[t]]
  BY DEF Restart
<1>3. /\ page' \in [Tabs -> Page]
      /\ \A t \in Tabs : page'[t].kind = "done" => page'[t] = page[t]
  BY <1>2 DEF IInv, TypeOK, Page, Blank
<1>4. TypeOK'
  BY <1>1, <1>3 DEF IInv, TypeOK
<1>5. ResultIsOwn' /\ NoHistoryWithoutIndex'
  BY <1>1, <1>3 DEF IInv, ResultIsOwn, NoHistoryWithoutIndex
<1> QED
  BY <1>1, <1>4, <1>5 DEF IInv, HoldsJob

LEMMA StutterStep ==
  ASSUME IInv, UNCHANGED vars
  PROVE  IInv'
<1>1. TypeOK'
  BY DEF vars, IInv, TypeOK
<1>2. ResultIsOwn' /\ NoHistoryWithoutIndex'
  BY DEF vars, IInv, ResultIsOwn, NoHistoryWithoutIndex, Finished
<1> QED
  BY <1>1, <1>2 DEF vars, IInv, JobState, HoldsJob

(* Every step keeps the invariant. *)
LEMMA StepIInv == IInv /\ [Next]_vars => IInv'
<1> SUFFICES ASSUME IInv, [Next]_vars PROVE IInv'
  OBVIOUS
<1>1. ASSUME NEW t \in Tabs, Poll(t) PROVE IInv'
  BY <1>1, PollStep
<1>2. ASSUME NEW t \in Tabs, Deliver(t) PROVE IInv'
  BY <1>2, DeliverStep
<1>3. ASSUME NEW j \in JobIds, Scan(j) PROVE IInv'
  BY <1>3, ScanStep
<1>4. CASE ForeignEnd
  BY <1>4, ForeignStep
<1>5. CASE Restart
  BY <1>5, RestartStep
<1>6. CASE UNCHANGED vars
  BY <1>6, StutterStep
<1> QED
  BY <1>1, <1>2, <1>3, <1>4, <1>5, <1>6 DEF Next
-----------------------------------------------------------------------------
(* The invariant holds in every reachable state. *)
THEOREM Invariance == Spec => []IInv
<1>1. Init => IInv
  BY InitIInv
<1>2. IInv /\ [Next]_vars => IInv'
  BY StepIInv
<1> QED
  BY <1>1, <1>2, PTL DEF Spec

(* Types; in particular no handler is given a nil view model. *)
THEOREM HistoryTypeOK == Spec => []TypeOK
<1>1. IInv => TypeOK
  BY DEF IInv
<1> QED
  BY <1>1, Invariance, PTL

(* A displaced goroutine never answers for the job that displaced it: no   *)
(* tab is shown the history of another address.                            *)
THEOREM HistoryResultIsOwn == Spec => []ResultIsOwn
<1>1. IInv => ResultIsOwn
  BY DEF IInv
<1> QED
  BY <1>1, Invariance, PTL

(* Without the index there is no history, whatever errors come back. *)
THEOREM HistoryNeedsIndex == Spec => []NoHistoryWithoutIndex
<1>1. IInv => NoHistoryWithoutIndex
  BY DEF IInv
<1> QED
  BY <1>1, Invariance, PTL
-----------------------------------------------------------------------------
(* A step that gives tab t an answer a, and no other tab one. *)
LEMMA OneAnswer ==
  ASSUME NEW t \in Tabs, NEW a, TabAnswer'[t] = a,
         \A u \in Tabs \ {t} : TabAnswer'[u] = TabAnswer[u]
  PROVE  TabAnswer' = [TabAnswer EXCEPT ![t] = a]
BY DEF TabAnswer

(* A poll is See, ToldToWait, or Begin, which may displace a running scan  *)
(* of another address.                                                     *)
LEMMA PollRefines ==
  ASSUME IInv, NEW t \in Tabs, Poll(t)
  PROVE  [SS!SlotNext]_(SS!slotVars)
<1>1. pc[t] = "idle" /\ UNCHANGED shows
  BY DEF Poll
<1>2. CASE PollDone(t)
  <2>1. /\ slot # None /\ job[slot].done /\ job[slot].addr = shows[t]
        /\ job[slot].res \in Outcome
        /\ pc' = [pc EXCEPT ![t] = "deliver"] /\ ref' = [ref EXCEPT ![t] = slot]
        /\ UNCHANGED <<slot, job, page>>
    BY <1>2 DEF PollDone, Finished, IInv, TypeOK, JobState
  <2>2. SlotScan = SS!Over(shows[t], job[slot].res) /\ SlotScan' = SlotScan
    BY <2>1 DEF SlotScan, Finished, SS!Over
  <2>3. /\ TabAnswer'[t] = job[slot].res
        /\ \A u \in Tabs \ {t} : TabAnswer'[u] = TabAnswer[u]
    BY <2>1 DEF IInv, TypeOK, TabAnswer
  <2>4. TabAnswer' = [TabAnswer EXCEPT ![t] = job[slot].res]
    BY <2>3, OneAnswer
  <2> QED
    BY <1>1, <2>1, <2>2, <2>4 DEF SS!SlotNext, SS!See
<1>3. CASE PollOwn(t)
  <2>1. /\ UNCHANGED <<slot, job, pc, ref>>
        /\ page' = [page EXCEPT ![t] = ScanningPage]
    BY <1>3 DEF PollOwn, Answer
  <2>2. /\ TabAnswer'[t] = "scanning"
        /\ \A u \in Tabs \ {t} : TabAnswer'[u] = TabAnswer[u]
    BY <1>1, <2>1 DEF IInv, TypeOK, TabAnswer, ScanningPage
  <2>3. TabAnswer' = [TabAnswer EXCEPT ![t] = "scanning"]
    BY <2>2, OneAnswer
  <2>4. SlotScan' = SlotScan
    BY <2>1 DEF SlotScan, Finished
  <2> QED
    BY <1>1, <2>3, <2>4 DEF SS!SlotNext, SS!ToldToWait
<1>4. CASE Start(t)
  <2>1. PICK n \in JobIds \ Live(slot, Tabs) :
          /\ slot' = n
          /\ job' = [i \in Live(n, Tabs) \union {n} |->
                       IF i = n THEN NewJob(shows[t]) ELSE job[i]]
    BY <1>4 DEF Start
  <2>2. /\ slot # None => job[slot].addr # shows[t]
        /\ page' = [page EXCEPT ![t] = ScanningPage] /\ UNCHANGED <<pc, ref>>
    BY <1>4 DEF Start, Answer
  <2>3. SlotScan.state = "running" => TRUE /\ SlotScan.addr # shows[t]
    BY <2>2 DEF SlotScan, Finished
  <2>4. SlotScan' = SS!Busy(shows[t])
    <3>1. job'[n] = NewJob(shows[t]) /\ n # None
      BY <2>1, NoneAssumption
    <3> QED
      BY <2>1, <3>1 DEF SlotScan, Finished, NewJob, SS!Busy
  <2>5. TabAnswer'[t] = "scanning"
    BY <1>1, <2>2 DEF IInv, TypeOK, TabAnswer, ScanningPage
  <2>6. ASSUME NEW u \in Tabs \ {t} PROVE TabAnswer'[u] = TabAnswer[u]
    <3>1. page'[u] = page[u] /\ pc'[u] = pc[u] /\ ref'[u] = ref[u]
      BY <2>2 DEF IInv, TypeOK
    <3>2. pc[u] = "deliver" => job'[ref[u]] = job[ref[u]]
      BY <2>1 DEF IInv, TypeOK, HoldsJob, Live
    <3> QED
      BY <3>1, <3>2 DEF TabAnswer
  <2>7. TabAnswer' = [TabAnswer EXCEPT ![t] = "scanning"]
    BY <2>5, <2>6, OneAnswer
  <2> QED
    BY <1>1, <2>3, <2>4, <2>7 DEF SS!SlotNext, SS!Begin
<1> QED
  BY <1>2, <1>3, <1>4 DEF Poll

(* The read after the unlock is a stutter: the answer was decided when the *)
(* request left the section under the lock.                                *)
LEMMA DeliverRefines ==
  ASSUME IInv, NEW t \in Tabs, Deliver(t)
  PROVE  UNCHANGED SS!slotVars
<1>1. /\ pc[t] = "deliver" /\ UNCHANGED <<shows, slot>>
      /\ pc' = [pc EXCEPT ![t] = "idle"] /\ ref' = [ref EXCEPT ![t] = None]
      /\ page' = [page EXCEPT ![t] = DonePage(job[ref[t]].addr, job[ref[t]].res)]
      /\ job' = [j \in Live(slot, Tabs \ {t}) |-> job[j]]
  BY DEF Deliver, Answer
<1>2. SlotScan' = SlotScan
  <2>1. slot # None => slot \in Live(slot, Tabs \ {t})
    BY DEF IInv, TypeOK, Live
  <2> QED
    BY <1>1, <2>1 DEF SlotScan, Finished
<1>3. TabAnswer'[t] = TabAnswer[t]
  BY <1>1 DEF IInv, TypeOK, TabAnswer, DonePage
<1>4. ASSUME NEW u \in Tabs \ {t} PROVE TabAnswer'[u] = TabAnswer[u]
  <2>1. pc'[u] = pc[u] /\ ref'[u] = ref[u] /\ page'[u] = page[u]
    BY <1>1 DEF IInv, TypeOK
  <2>2. pc[u] = "deliver" => ref[u] \in Live(slot, Tabs \ {t})
    BY DEF IInv, TypeOK, HoldsJob, Live
  <2> QED
    BY <2>1, <2>2, <1>1 DEF TabAnswer
<1>5. TabAnswer' = TabAnswer
  BY <1>3, <1>4 DEF TabAnswer
<1> QED
  BY <1>1, <1>2, <1>5 DEF SS!slotVars

(* A goroutine is invisible until it sets done, which is End if its job is *)
(* in the slot and nothing at all if it was displaced.                     *)
LEMMA ScanRefines ==
  ASSUME IInv, NEW j \in JobIds, Scan(j)
  PROVE  [SS!SlotNext]_(SS!slotVars)
<1>1. PICK r \in Job, D \in SUBSET DOMAIN job : Shape(j, r, D)
  BY ScanShape
<1>2. /\ DOMAIN job' = D /\ j \in DOMAIN job /\ ~job[j].done
      /\ \A i \in D : job'[i] = IF i = j THEN r ELSE job[i]
      /\ slot # None => slot \in D
      /\ \A t \in Tabs : pc[t] = "deliver" => job'[ref[t]] = job[ref[t]]
  BY <1>1, HeldByShape
<1>3. /\ r.addr = job[j].addr /\ (r.done => r.res \in Outcome)
      /\ UNCHANGED <<shows, slot, pc, ref, page>>
  BY <1>1 DEF Shape
<1>4. TabAnswer' = TabAnswer
  BY <1>2, <1>3 DEF TabAnswer
<1>5. CASE slot = j /\ r.done
  <2>1. j # None
    BY NoneAssumption
  <2>2. SlotScan = SS!Busy(job[j].addr)
    BY <1>2, <1>5, <2>1 DEF SlotScan, Finished, SS!Busy
  <2>3. SlotScan' = SS!Over(job[j].addr, r.res)
    BY <1>2, <1>3, <1>5, <2>1 DEF SlotScan, Finished, SS!Over
  <2> QED
    BY <1>3, <1>4, <1>5, <2>2, <2>3 DEF SS!SlotNext, SS!End, SS!Busy, SS!Over
<1>6. CASE ~(slot = j /\ r.done)
  <2>1. SlotScan' = SlotScan
    BY <1>2, <1>3, <1>6 DEF SlotScan, Finished
  <2> QED
    BY <1>3, <1>4, <2>1 DEF SS!slotVars
<1> QED
  BY <1>5, <1>6

LEMMA RestartRefines ==
  ASSUME IInv, Restart
  PROVE  SS!Lose
<1>1. slot' = None /\ UNCHANGED shows /\ pc' = [t \in Tabs |-> "idle"]
  BY DEF Restart
<1>2. PICK lost \in SUBSET Tabs :
        /\ \A t \in Tabs : pc[t] # "idle" => t \in lost
        /\ page' = [t \in Tabs |-> IF t \in lost THEN Blank ELSE page[t]]
  BY DEF Restart
<1>3. SlotScan' = SS!NoScan
  BY <1>1 DEF SlotScan, SS!NoScan
<1>4. TabAnswer' = [t \in Tabs |-> IF t \in lost THEN "blank" ELSE TabAnswer[t]]
  BY <1>1, <1>2 DEF TabAnswer, Blank
<1> QED
  BY <1>1, <1>3, <1>4 DEF SS!Lose

(* Every step of the history scan is a step of ScanSlot or leaves it       *)
(* unchanged.                                                              *)
LEMMA StepRefines ==
  IInv /\ [Next]_vars => [SS!SlotNext]_(SS!slotVars)
<1> SUFFICES ASSUME IInv, [Next]_vars PROVE [SS!SlotNext]_(SS!slotVars)
  OBVIOUS
<1>1. ASSUME NEW t \in Tabs, Poll(t) PROVE [SS!SlotNext]_(SS!slotVars)
  BY <1>1, PollRefines
<1>2. ASSUME NEW t \in Tabs, Deliver(t) PROVE [SS!SlotNext]_(SS!slotVars)
  BY <1>2, DeliverRefines
<1>3. ASSUME NEW j \in JobIds, Scan(j) PROVE [SS!SlotNext]_(SS!slotVars)
  BY <1>3, ScanRefines
<1>4. CASE ForeignEnd \/ UNCHANGED vars
  BY <1>4 DEF ForeignEnd, vars, SS!slotVars, SlotScan, Finished, TabAnswer
<1>5. CASE Restart
  BY <1>5, RestartRefines DEF SS!SlotNext
<1> QED
  BY <1>1, <1>2, <1>3, <1>4, <1>5 DEF Next

(* The history scan implements the slot with displacement: every answer is *)
(* justified by the slot at one instant, and displaced goroutines are      *)
(* invisible.                                                              *)
THEOREM HistoryImplementsSlot == Spec => AnswersAreAtomic
<1>1. Init => SS!SlotInit
  BY DEF Init, SS!SlotInit, SlotScan, TabAnswer, Blank, SS!NoScan
<1>2. IInv /\ [Next]_vars => [SS!SlotNext]_(SS!slotVars)
  BY StepRefines
<1> QED
  BY <1>1, <1>2, Invariance, PTL DEF Spec, AnswersAreAtomic, SS!SlotSpec
-----------------------------------------------------------------------------
(* Why a scan comes to an end.  The steps a goroutine has before it. *)
StepsLeft(j) ==
  IF ~Running(j) THEN 0
  ELSE IF job[j].at = "start" THEN 4 ELSE IF job[j].at = "wait" THEN 3
  ELSE IF job[j].at = "fetch" THEN 2 ELSE 1

(* A goroutine that waits for Core waits for a scan that Core still runs.  *)
(* So at most one of the goroutines that overlap is being scanned for.     *)
Awaited == \A j \in JobIds : Running(j) /\ job[j].at = "wait" => node = j

(* Every step of a goroutine brings it nearer to its return, displaced or  *)
(* not, and nothing that requests, other goroutines or the node do puts it *)
(* back: the identity of its job is not given to a new one while it runs.  *)
Onwards ==
  \A j \in JobIds : /\ Scan(j) => StepsLeft(j)' < StepsLeft(j)
                    /\ Running(j) => StepsLeft(j)' <= StepsLeft(j)

LEMMA LeftIsNat == \A j : StepsLeft(j) \in 0..4 /\ StepsLeft(j)' \in 0..4
BY DEF StepsLeft

(* What requests do to the goroutines: nothing, but for starting a new one, *)
(* which may displace them.                                                *)
LEMMA GoroutinesAreKept ==
  ASSUME IInv, (\E t \in Tabs : Poll(t) \/ Deliver(t)) \/ ForeignEnd \/ UNCHANGED vars
  PROVE  \A j \in JobIds :
           /\ Running(j) => j \in DOMAIN job' /\ job'[j] = job[j]
           /\ ~Running(j) /\ Running(j)' => job'[j].at = "start"
<1> SUFFICES ASSUME NEW j \in JobIds
             PROVE  /\ Running(j) => j \in DOMAIN job' /\ job'[j] = job[j]
                    /\ ~Running(j) /\ Running(j)' => job'[j].at = "start"
  OBVIOUS
<1>1. CASE UNCHANGED job
  BY <1>1 DEF Running
<1>2. ASSUME NEW t \in Tabs, Deliver(t) \/ Start(t)
      PROVE  /\ Running(j) => j \in DOMAIN job' /\ job'[j] = job[j]
             /\ ~Running(j) /\ Running(j)' => job'[j].at = "start"
  <2>1. CASE Deliver(t)
    BY <2>1 DEF Deliver, Live, Running
  <2>2. CASE Start(t)
    <3>1. PICK n \in JobIds \ Live(slot, Tabs) :
            job' = [i \in Live(n, Tabs) \union {n} |->
                      IF i = n THEN NewJob(shows[t]) ELSE job[i]]
      BY <2>2 DEF Start
    <3>2. Running(j) => j \in Live(n, Tabs) /\ j # n
      BY <3>1 DEF Live, Running
    <3>3. j \in DOMAIN job' /\ j # n => j \in DOMAIN job /\ job'[j] = job[j]
      BY <3>1 DEF Live
    <3>4. job'[n] = NewJob(shows[t])
      BY <3>1
    <3> QED
      BY <3>1, <3>2, <3>3, <3>4 DEF Running, NewJob
  <2> QED
    BY <1>2, <2>1, <2>2
<1> QED
  BY <1>1, <1>2 DEF Poll, PollDone, PollOwn, ForeignEnd, vars

(* Each step of a goroutine is nearer to its return, and no other one is   *)
(* touched by it.                                                          *)
LEMMA ScanGoesOn ==
  ASSUME IInv, NEW j \in JobIds, Scan(j)
  PROVE  /\ StepsLeft(j)' < StepsLeft(j)
         /\ \A i \in JobIds : i # j =>
              (i \in DOMAIN job' <=> i \in DOMAIN job) /\ (i \in DOMAIN job => job'[i] = job[i])
<1>1. /\ j \in DOMAIN job /\ job[j].at \in {"start", "wait", "fetch", "answered"}
      /\ job \in [DOMAIN job -> Job]
  BY DEF Scan, Accepted, Rejected, NotSent, Scanned, GaveUp, Fetched, Finish, Running,
         IInv, TypeOK, Job
<1>2. \A i \in JobIds : i # j =>
        (i \in DOMAIN job' <=> i \in DOMAIN job) /\ (i \in DOMAIN job => job'[i] = job[i])
  <2>1. PICK r \in Job, D \in SUBSET DOMAIN job : Shape(j, r, D)
    BY ScanShape
  <2> QED
    BY <2>1 DEF Shape
<1>3. CASE Accepted(j)
  BY <1>1, <1>2, <1>3 DEF Accepted, StepsLeft, Running, Job
<1>4. CASE \E o \in Answers : Answered(j, o) /\ job[j].at \in {"start", "wait", "fetch"}
  BY <1>1, <1>2, <1>4 DEF Answered, StepsLeft, Running, Job
<1>5. CASE Scanned(j)
  <2>1. CASE job' = [job EXCEPT ![j].at = "fetch"]
    BY <1>1, <1>2, <1>5, <2>1 DEF Scanned, StepsLeft, Running, Job
  <2> QED
    BY <1>4, <1>5, <2>1 DEF Scanned, Answers
<1>6. CASE Finish(j)
  <2>1. ~Running(j)' /\ job[j].at = "answered"
    BY <1>1, <1>6 DEF Finish, Over, Running, Job
  <2> QED
    BY <1>1, <1>2, <2>1 DEF StepsLeft, Running
<1> QED
  BY <1>3, <1>4, <1>5, <1>6 DEF Scan, Rejected, NotSent, GaveUp, Fetched, Answers

LEMMA RestartEnds == ASSUME Restart PROVE \A j : ~Running(j)' /\ StepsLeft(j)' = 0
BY DEF Restart, Running, StepsLeft

LEMMA StepGoesOn == IInv /\ [Next]_vars => [Onwards]_vars
<1> SUFFICES ASSUME IInv, Next PROVE Onwards
  BY DEF vars
<1>1. ASSUME NEW j \in JobIds, Scan(j) PROVE StepsLeft(j)' < StepsLeft(j)
  BY <1>1, ScanGoesOn
<1>2. ASSUME NEW j \in JobIds, Running(j) PROVE StepsLeft(j)' <= StepsLeft(j)
  <2>1. ASSUME NEW i \in JobIds, Scan(i) PROVE StepsLeft(j)' <= StepsLeft(j)
    <3>1. CASE i = j
      BY <1>1, <2>1, <3>1, LeftIsNat
    <3>2. CASE i # j
      <4>1. j \in DOMAIN job /\ job'[j] = job[j] /\ j \in DOMAIN job'
        BY <1>2, <2>1, <3>2, ScanGoesOn DEF Running
      <4> QED
        BY <4>1, LeftIsNat DEF StepsLeft, Running
    <3> QED
      BY <3>1, <3>2
  <2>2. CASE Restart
    BY <2>2, RestartEnds, LeftIsNat
  <2>3. CASE (\E t \in Tabs : Poll(t) \/ Deliver(t)) \/ ForeignEnd
    <3>1. j \in DOMAIN job' /\ job'[j] = job[j]
      BY <1>2, <2>3, GoroutinesAreKept
    <3> QED
      BY <1>2, <3>1, LeftIsNat DEF StepsLeft, Running
  <2> QED
    BY <2>1, <2>2, <2>3 DEF Next
<1> QED
  BY <1>1, <1>2 DEF Onwards

(* The node never drops the scan that a goroutine waits for. *)
LEMMA AwaitedStep == IInv /\ Awaited /\ [Next]_vars => Awaited'
<1> SUFFICES ASSUME IInv, Awaited, [Next]_vars, NEW j \in JobIds,
                    Running(j)', job'[j].at = "wait"
             PROVE  node' = j
  BY DEF Awaited
<1>1. node \in {"idle", "foreign"} =>
        \A i \in JobIds : ~(Running(i) /\ job[i].at = "wait")
  BY NodeAssumption DEF Awaited
<1>2. ASSUME NEW i \in JobIds, Scan(i) PROVE node' = j
  <2>1. CASE i = j
    <3>1. j \in DOMAIN job /\ job \in [DOMAIN job -> Job]
      BY <1>2, <2>1 DEF Scan, Accepted, Rejected, NotSent, Scanned, GaveUp, Fetched,
                        Finish, Running, IInv, TypeOK
    <3>2. ASSUME NEW o \in Answers PROVE ~Answered(j, o)
      BY <3>1 DEF Answered, Job
    <3>3. ~Finish(j)
      BY <3>1 DEF Finish, Over, Running, Job
    <3>4. job' # [job EXCEPT ![j].at = "fetch"]
      BY <3>1 DEF Job
    <3>5. Accepted(j)
      BY <1>2, <2>1, <3>2, <3>3, <3>4
         DEF Scan, Rejected, NotSent, Scanned, GaveUp, Fetched, Answers
    <3> QED
      BY <3>5 DEF Accepted
  <2>2. CASE i # j
    <3>1. j \in DOMAIN job /\ job'[j] = job[j]
      BY <1>2, <2>2, ScanGoesOn DEF Running
    <3>2. node = j
      BY <3>1 DEF Awaited, Running
    <3>3. Rejected(i) \/ NotSent(i) \/ Fetched(i) \/ Finish(i)
      BY <1>2, <2>2, <3>2, NodeAssumption DEF Scan, Accepted, Scanned, GaveUp
    <3> QED
      BY <3>2, <3>3 DEF Rejected, NotSent, Fetched, Finish
  <2> QED
    BY <2>1, <2>2
<1>3. CASE (\E t \in Tabs : Poll(t) \/ Deliver(t)) \/ ForeignEnd \/ UNCHANGED vars
  <2>1. Running(j) /\ job[j].at = "wait"
    BY <1>3, GoroutinesAreKept
  <2>2. node = j /\ node \notin {"idle", "foreign"}
    BY <1>1, <2>1 DEF Awaited
  <2> QED
    BY <1>3, <2>2 DEF Poll, Deliver, ForeignEnd, vars
<1>4. CASE Restart
  BY <1>4, RestartEnds
<1> QED
  BY <1>2, <1>3, <1>4 DEF Next

(* A goroutine cannot go on for ever, nor wait for nothing, although its   *)
(* job may have been displaced and nobody looks at it any more: it has     *)
(* four steps at most, nobody puts it back, and what it waits for is there. *)
THEOREM HistoryIsBounded == Spec => []Awaited /\ [][Onwards]_vars
<1>1. Init => Awaited
  BY DEF Init, Awaited, Running
<1> QED
  BY <1>1, AwaitedStep, StepGoesOn, Invariance, PTL DEF Spec
-----------------------------------------------------------------------------
(* The fetch of the blocks, FanOut: for any blocks, any capacity of the    *)
(* semaphore and any order of goroutines, answers and errors.              *)

(* What goroutine i has to show for itself, at each point. *)
Settled(i) ==
  /\ at[i] \in {"ready", "call", "late"} => res[i] = "none"
  /\ at[i] \in {"returned", "done"} => res[i] # "none"
  /\ res[i] = "ok" => blocks[i] = Relevant[i]
  /\ res[i] = "cancelled" => err # NoError
  /\ at[i] = "done" /\ res[i] # "ok" => err # NoError

(* The loops start when every block is there; until then nothing is found. *)
BlocksThere ==
  /\ main \in {"collect", "history"} => \A i \in Calls : blocks[i] = Relevant[i]
  /\ main \in {"wait", "error"} => pos = <<1, 1>> /\ txs = <<>>
  /\ main = "history" => pos[1] \notin Calls

(* The loop invariant: found is what matches before the place the loops    *)
(* are at, in order.                                                       *)
Found ==
  /\ { txs[n] : n \in DOMAIN txs } = { p \in Matches : Before(p, pos) }
  /\ \A m, n \in DOMAIN txs : m < n => Before(txs[m], txs[n])

(* What g.Wait waited for: the loops run when the goroutines are over.     *)
AllDone == main # "wait" => \A i \in Calls : at[i] = "done"

FanInv == /\ FanTypeOK /\ CauseIsReported /\ AllDone /\ BlocksThere /\ Found
        /\ \A i \in Calls : Settled(i)

InFlight == {i \in Calls : Holds(i)}
-----------------------------------------------------------------------------
(* The goroutines that hold a token are finitely many. *)
LEMMA FlightIsFinite == IsFiniteSet(InFlight)
<1>1. Calls = 1..Len(Relevant) /\ Len(Relevant) \in Nat
  BY RelevantAssumption DEF Calls
<1>2. IsFiniteSet(Calls)
  BY <1>1, FS_Interval
<1> QED
  BY <1>2, FS_Subset DEF InFlight

(* A match is a block and a place in it. *)
LEMMA MatchesType == Matches \subseteq Calls \X (Nat \ {0})
<1> SUFFICES ASSUME NEW p \in Matches PROVE p \in Calls \X (Nat \ {0})
  OBVIOUS
<1>1. PICK b \in Calls : p \in { <<b, k>> : k \in { k \in DOMAIN Relevant[b] :
                                                     Pays(Relevant[b][k]) } }
  BY DEF Matches
<1>2. PICK k \in DOMAIN Relevant[b] : p = <<b, k>>
  BY <1>1
<1>3. Relevant[b] \in Seq(Seq(STRING))
  BY RelevantAssumption DEF Calls
<1> QED
  BY <1>2, <1>3

(* What is in Matches, without the union. *)
LEMMA MatchesMember ==
  ASSUME NEW b \in Calls, NEW k
  PROVE  <<b, k>> \in Matches <=>
           k \in DOMAIN Relevant[b] /\ Pays(Relevant[b][k])
BY DEF Matches

LEMMA FanInitInv == FanInit => FanInv
<1> SUFFICES ASSUME FanInit PROVE FanInv
  OBVIOUS
<1>1. Calls = 1..Len(Relevant) /\ Len(Relevant) \in Nat /\ 1 \in Calls
  BY RelevantAssumption DEF Calls
<1>2. Cardinality(InFlight) = 0
  <2>1. InFlight = {}
    BY DEF InFlight, Holds, FanInit
  <2> QED
    BY <2>1, FS_EmptySet
<1>3. FanTypeOK
  BY <1>1, <1>2, LimitAssumption DEF FanInit, FanTypeOK, Status, InFlight
<1>4. Found
  <2>1. ASSUME NEW p \in Matches PROVE ~Before(p, pos)
    <3>1. p \in Calls \X (Nat \ {0}) /\ pos = <<1, 1>>
      BY MatchesType DEF FanInit
    <3> QED
      BY <1>1, <3>1 DEF Before
  <2> QED
    BY <2>1 DEF Found, FanInit
<1>5. (\A i \in Calls : Settled(i)) /\ BlocksThere
  BY DEF FanInit, Settled, BlocksThere
<1> QED
  BY <1>3, <1>4, <1>5, NoErrorAssumption DEF FanInit, FanInv, CauseIsReported, AllDone
-----------------------------------------------------------------------------
(* A goroutine takes a token: one more in flight. *)
LEMMA AcquireStep == ASSUME FanInv, NEW i \in Calls, Acquire(i) PROVE FanInv'
<1>1. /\ at[i] = "ready" /\ sem < Limit /\ sem' = sem + 1
      /\ at' = [at EXCEPT ![i] = IF err = NoError THEN "call" ELSE "late"]
      /\ UNCHANGED <<res, blocks, err, main, pos, txs>>
  BY DEF Acquire
<1>2. /\ at' \in [Calls -> Status] /\ at'[i] \in {"call", "late"}
      /\ \A k \in Calls : k # i => at'[k] = at[k]
  BY <1>1 DEF FanInv, FanTypeOK, Status
<1>3. sem' = Cardinality(InFlight')
  <2>1. InFlight' = InFlight \union {i} /\ i \notin InFlight
    BY <1>1, <1>2 DEF InFlight, Holds
  <2>2. sem = Cardinality(InFlight)
    BY DEF FanInv, FanTypeOK, InFlight
  <2>3. Cardinality(InFlight \union {i}) = Cardinality(InFlight) + 1
    BY <2>1, FlightIsFinite, FS_AddElement
  <2> QED
    BY <1>1, <2>1, <2>2, <2>3
<1>4. sem \in Nat
  BY FlightIsFinite, FS_CardinalityType DEF FanInv, FanTypeOK, InFlight
<1>5. FanTypeOK'
  BY <1>1, <1>2, <1>3, <1>4, LimitAssumption DEF FanInv, FanTypeOK, InFlight
<1>6. (\A k \in Calls : Settled(k))'
  BY <1>1, <1>2 DEF FanInv, Settled
<1>7. AllDone'
  BY <1>1, <1>2 DEF FanInv, AllDone
<1> QED
  BY <1>1, <1>5, <1>6, <1>7 DEF FanInv, CauseIsReported, BlocksThere, Found

(* A goroutine returns r and gives its token back: one less in flight.     *)
LEMMA ReturnsStep ==
  ASSUME FanInv, NEW i \in Calls, NEW r \in {"ok", "failed", "cancelled"},
         Holds(i), Returns(i, r), UNCHANGED <<err, main, pos, txs>>,
         \/ r # "ok" /\ UNCHANGED blocks
         \/ r = "ok" /\ blocks' = [blocks EXCEPT ![i] = Relevant[i]],
         r = "cancelled" => err # NoError
  PROVE  FanInv'
<1>1. /\ at' = [at EXCEPT ![i] = "returned"] /\ res' = [res EXCEPT ![i] = r]
      /\ sem' = sem - 1
  BY DEF Returns
<1>2. /\ at' \in [Calls -> Status] /\ at'[i] = "returned"
      /\ \A k \in Calls : k # i => at'[k] = at[k]
  BY <1>1 DEF FanInv, FanTypeOK, Status
<1>3. /\ res' \in [Calls -> {"none", "ok", "failed", "cancelled"}] /\ res'[i] = r
      /\ \A k \in Calls : k # i => res'[k] = res[k]
  BY <1>1 DEF FanInv, FanTypeOK
<1>4. /\ DOMAIN blocks' = Calls /\ (r = "ok" => blocks'[i] = Relevant[i])
      /\ \A k \in Calls : k # i => blocks'[k] = blocks[k]
      /\ \A k \in Calls : blocks'[k] \in {<<>>, Relevant[k]}
  BY DEF FanInv, FanTypeOK
<1>5. sem \in Nat /\ sem = Cardinality(InFlight)
  BY FlightIsFinite, FS_CardinalityType DEF FanInv, FanTypeOK, InFlight
<1>6. sem' = Cardinality(InFlight')
  <2>1. InFlight' = InFlight \ {i} /\ i \in InFlight
    BY <1>2 DEF InFlight, Holds
  <2> QED
    BY <1>1, <1>5, <2>1, FlightIsFinite, FS_RemoveElement
<1>7. FanTypeOK'
  BY <1>1, <1>2, <1>3, <1>4, <1>5, <1>6, LimitAssumption DEF FanInv, FanTypeOK, InFlight
<1>8. (\A k \in Calls : Settled(k))'
  BY <1>2, <1>3, <1>4 DEF FanInv, Settled
<1>9. main = "wait"
  BY DEF FanInv, AllDone, Holds, FanTypeOK
<1>10. CauseIsReported'
  <2>1. err # NoError => err \in Calls /\ err # i
    BY DEF FanInv, FanTypeOK, CauseIsReported, Settled, Holds
  <2> QED
    BY <1>3, <2>1 DEF FanInv, CauseIsReported
<1> QED
  BY <1>7, <1>8, <1>9, <1>10 DEF FanInv, AllDone, BlocksThere, Found

(* The errgroup keeps the first error, which is nobody's cancellation:     *)
(* there is none before there is an error.                                 *)
LEMMA ReportStep == ASSUME FanInv, NEW i \in Calls, Report(i) PROVE FanInv'
<1>1. /\ at[i] = "returned" /\ at' = [at EXCEPT ![i] = "done"]
      /\ err' = IF err = NoError /\ res[i] # "ok" THEN i ELSE err
      /\ UNCHANGED <<res, blocks, sem, main, pos, txs>>
  BY DEF Report
<1>2. /\ at' \in [Calls -> Status] /\ at'[i] = "done"
      /\ \A k \in Calls : k # i => at'[k] = at[k]
  BY <1>1 DEF FanInv, FanTypeOK, Status
<1>3. InFlight' = InFlight
  BY <1>1, <1>2 DEF InFlight, Holds
<1>4. FanTypeOK'
  BY <1>1, <1>2, <1>3 DEF FanInv, FanTypeOK, InFlight
<1>5. i # NoError
  BY NoErrorAssumption
<1>6. (\A k \in Calls : Settled(k))'
  BY <1>1, <1>2, <1>5 DEF FanInv, Settled
<1>7. CauseIsReported'
  <2>1. CASE err = NoError /\ res[i] # "ok"
    <3>1. res[i] \in {"failed", "cancelled"}
      BY <1>1, <2>1 DEF FanInv, FanTypeOK, Settled
    <3>2. res[i] = "failed"
      BY <2>1, <3>1 DEF FanInv, Settled
    <3> QED
      BY <1>1, <2>1, <3>2 DEF CauseIsReported
  <2>2. CASE ~(err = NoError /\ res[i] # "ok")
    BY <1>1, <2>2 DEF FanInv, CauseIsReported
  <2> QED
    BY <2>1, <2>2
<1>8. AllDone'
  BY <1>1, <1>2 DEF FanInv, AllDone
<1> QED
  BY <1>1, <1>4, <1>6, <1>7, <1>8 DEF FanInv, BlocksThere, Found

LEMMA GoroutineStep == ASSUME FanInv, NEW i \in Calls, Goroutine(i) PROVE FanInv'
<1>1. CASE Decoded(i)
  <2>1. Holds(i)
    BY <1>1 DEF Decoded, Holds
  <2> QED
    BY <1>1, <2>1, ReturnsStep DEF Decoded
<1>2. CASE Fails(i)
  BY <1>2, ReturnsStep DEF Fails
<1>3. CASE Cancelled(i)
  BY <1>3, ReturnsStep DEF Cancelled
<1> QED
  BY <1>1, <1>2, <1>3, AcquireStep, ReportStep DEF Goroutine
-----------------------------------------------------------------------------
(* Every goroutine is done: without an error each has brought its block.   *)
LEMMA WaitStep == FanInv /\ Wait => FanInv'
<1> SUFFICES ASSUME FanInv, Wait PROVE FanInv'
  OBVIOUS
<1>1. /\ main = "wait" /\ (\A i \in Calls : at[i] = "done")
      /\ main' = IF err = NoError THEN "collect" ELSE "error"
      /\ UNCHANGED <<at, res, blocks, sem, err, pos, txs>>
  BY DEF Wait
<1>2. FanTypeOK'
  BY <1>1 DEF FanInv, FanTypeOK, Holds
<1>3. BlocksThere'
  <2>1. err = NoError => \A i \in Calls : blocks[i] = Relevant[i]
    BY <1>1 DEF FanInv, Settled
  <2> QED
    BY <1>1, <2>1 DEF FanInv, BlocksThere
<1>4. AllDone' /\ CauseIsReported' /\ Found' /\ (\A i \in Calls : Settled(i))'
  BY <1>1 DEF FanInv, AllDone, CauseIsReported, Found, Settled
<1> QED
  BY <1>2, <1>3, <1>4 DEF FanInv

(* What the loops leave alone. *)
LEMMA LoopStep ==
  ASSUME FanInv, main = "collect", main' \in {"collect", "history"},
         UNCHANGED <<at, res, blocks, sem, err>>,
         pos' \in (1..(Len(Relevant) + 1)) \X (Nat \ {0}),
         txs' \in Seq(Calls \X (Nat \ {0})),
         main' = "history" => pos'[1] \notin Calls, Found'
  PROVE  FanInv'
<1>1. FanTypeOK'
  BY DEF FanInv, FanTypeOK, Holds
<1>2. BlocksThere'
  BY DEF FanInv, BlocksThere
<1> QED
  BY <1>1, <1>2 DEF FanInv, AllDone, CauseIsReported, Settled

(* One transaction: it is found if it pays the address. *)
LEMMA VisitStep == FanInv /\ Visit => FanInv'
<1> SUFFICES ASSUME FanInv, Visit PROVE FanInv'
  OBVIOUS
<1> DEFINE b == pos[1]
           k == pos[2]
<1>1. /\ main = "collect" /\ b \in Calls /\ k \in DOMAIN blocks[b]
      /\ txs' = IF Pays(blocks[b][k]) THEN Append(txs, pos) ELSE txs
      /\ pos' = <<b, k + 1>>
      /\ UNCHANGED <<at, res, blocks, sem, err, main>>
  BY DEF Visit
<1>2. blocks[b] = Relevant[b] /\ pos = <<b, k>> /\ k \in Nat \ {0} /\ b \in Nat
  BY <1>1, RelevantAssumption DEF FanInv, BlocksThere, FanTypeOK, Calls
<1>3. /\ txs \in Seq(Calls \X (Nat \ {0})) /\ pos \in Calls \X (Nat \ {0})
      /\ b \in 1..(Len(Relevant) + 1)
  BY <1>1, <1>2 DEF FanInv, FanTypeOK
<1>4. \A p \in Matches : Before(p, pos') <=> Before(p, pos) \/ p = pos
  <2> SUFFICES ASSUME NEW p \in Matches
               PROVE  Before(p, pos') <=> Before(p, pos) \/ p = pos
    OBVIOUS
  <2>1. p = <<p[1], p[2]>> /\ p[1] \in Nat /\ p[2] \in Nat
    BY MatchesType, RelevantAssumption DEF Calls
  <2> QED
    BY <1>1, <1>2, <2>1 DEF Before
<1>5. pos \in Matches <=> Pays(blocks[b][k])
  BY <1>1, <1>2, MatchesMember
<1>6. \A n \in DOMAIN txs : Before(txs[n], pos)
  BY DEF FanInv, Found
<1>7. Found'
  <2>1. CASE Pays(blocks[b][k])
    <3>1. /\ txs' = Append(txs, pos) /\ DOMAIN txs' = 1..(Len(txs) + 1)
          /\ txs'[Len(txs) + 1] = pos /\ DOMAIN txs = 1..Len(txs) /\ Len(txs) \in Nat
          /\ \A n \in DOMAIN txs : txs'[n] = txs[n]
      BY <1>1, <1>3, <2>1
    <3>2. { txs'[n] : n \in DOMAIN txs' } = { txs[n] : n \in DOMAIN txs } \union {pos}
      BY <3>1
    <3>3. { p \in Matches : Before(p, pos') }
            = { p \in Matches : Before(p, pos) } \union {pos}
      BY <1>4, <1>5, <2>1
    <3>4. { txs'[n] : n \in DOMAIN txs' } = { p \in Matches : Before(p, pos') }
      BY <3>2, <3>3 DEF FanInv, Found
    <3>5. \A m, n \in DOMAIN txs' : m < n => Before(txs'[m], txs'[n])
      BY <1>6, <3>1 DEF FanInv, Found
    <3>6. Matches' = Matches
      BY DEF Matches, Pays
    <3> QED
      BY <3>4, <3>5, <3>6 DEF Found, Before
  <2>2. CASE ~Pays(blocks[b][k])
    <3>1. txs' = txs
      BY <1>1, <2>2
    <3>2. { p \in Matches : Before(p, pos') } = { p \in Matches : Before(p, pos) }
      BY <1>4, <1>5, <2>2
    <3> QED
      BY <3>1, <3>2 DEF FanInv, Found, Before, Matches, Pays
  <2> QED
    BY <2>1, <2>2
<1>8. /\ pos' \in (1..(Len(Relevant) + 1)) \X (Nat \ {0})
      /\ txs' \in Seq(Calls \X (Nat \ {0}))
  BY <1>1, <1>2, <1>3
<1> QED
  BY <1>1, <1>7, <1>8, LoopStep

(* The end of a block: nothing that matches is between here and the next.  *)
LEMMA NextBlockStep == FanInv /\ NextBlock => FanInv'
<1> SUFFICES ASSUME FanInv, NextBlock PROVE FanInv'
  OBVIOUS
<1> DEFINE b == pos[1]
           k == pos[2]
<1>1. /\ main = "collect" /\ b \in Calls /\ k \notin DOMAIN blocks[b]
      /\ pos' = <<b + 1, 1>>
      /\ UNCHANGED <<at, res, blocks, sem, err, main, txs>>
  BY DEF NextBlock
<1>2. /\ blocks[b] = Relevant[b] /\ pos = <<b, k>> /\ k \in Nat \ {0}
      /\ b \in 1..Len(Relevant) /\ Len(Relevant) \in Nat
      /\ Relevant[b] \in Seq(Seq(STRING))
  BY <1>1, RelevantAssumption DEF FanInv, BlocksThere, FanTypeOK, Calls
<1>3. k > Len(Relevant[b])
  BY <1>1, <1>2
<1>4. \A p \in Matches : Before(p, pos') <=> Before(p, pos)
  <2> SUFFICES ASSUME NEW p \in Matches
               PROVE  Before(p, pos') <=> Before(p, pos)
    OBVIOUS
  <2>1. p = <<p[1], p[2]>> /\ p[1] \in Calls /\ p[1] \in Nat /\ p[2] \in Nat \ {0}
    BY MatchesType, RelevantAssumption DEF Calls
  <2>2. p[1] = b => p[2] < k
    <3>1. p[2] \in DOMAIN Relevant[p[1]]
      BY <2>1, MatchesMember
    <3> QED
      BY <1>2, <1>3, <2>1, <3>1
  <2> QED
    BY <1>1, <1>2, <2>1, <2>2 DEF Before
<1>5. Found'
  BY <1>1, <1>4 DEF FanInv, Found, Before, Matches, Pays
<1>6. /\ pos' \in (1..(Len(Relevant) + 1)) \X (Nat \ {0})
      /\ txs' \in Seq(Calls \X (Nat \ {0}))
  BY <1>1, <1>2 DEF FanInv, FanTypeOK
<1> QED
  BY <1>1, <1>5, <1>6, LoopStep

LEMMA ReturnStep == FanInv /\ Return => FanInv'
<1> SUFFICES ASSUME FanInv, Return PROVE FanInv'
  OBVIOUS
<1>1. /\ main = "collect" /\ pos[1] \notin Calls /\ main' = "history"
      /\ UNCHANGED <<at, res, blocks, sem, err, pos, txs>>
  BY DEF Return
<1>2. /\ pos' \in (1..(Len(Relevant) + 1)) \X (Nat \ {0})
      /\ txs' \in Seq(Calls \X (Nat \ {0})) /\ Found'
  BY <1>1 DEF FanInv, FanTypeOK, Found
<1> QED
  BY <1>1, <1>2, LoopStep

(* Every step preserves the invariant. *)
LEMMA FanStepInv == FanInv /\ [FanNext]_fanVars => FanInv'
<1> SUFFICES ASSUME FanInv, [FanNext]_fanVars PROVE FanInv'
  OBVIOUS
<1>1. CASE UNCHANGED fanVars
  BY <1>1 DEF fanVars, FanInv, FanTypeOK, Holds, CauseIsReported, AllDone, BlocksThere,
     Found, Settled
<1> QED
  BY <1>1, WaitStep, VisitStep, NextBlockStep, ReturnStep, GoroutineStep
  DEF FanNext, Main

(* After the last block everything that matches is before the place. *)
LEMMA Whole == FanInv => WholeHistory
<1> SUFFICES ASSUME FanInv, main = "history"
             PROVE  \A p \in Matches : Before(p, pos)
  BY DEF FanInv, Found, WholeHistory
<1>1. pos[1] = Len(Relevant) + 1 /\ Len(Relevant) \in Nat
  BY RelevantAssumption DEF FanInv, BlocksThere, FanTypeOK, Calls
<1>2. \A p \in Matches : p[1] \in 1..Len(Relevant)
  BY MatchesType, RelevantAssumption DEF Calls
<1> QED
  BY <1>1, <1>2 DEF Before
-----------------------------------------------------------------------------
(* The inductive invariant holds in every reachable state. *)
THEOREM FanInvariance == FanSpec => []FanInv
<1> QED
  BY FanInitInv, FanStepInv, PTL DEF FanSpec

(* Types; the semaphore counts the calls in flight, and never more than    *)
(* its capacity, whatever order they end in.                               *)
THEOREM FanOutTypeOK == FanSpec => []FanTypeOK
<1>1. FanInv => FanTypeOK
  BY DEF FanInv
<1> QED
  BY <1>1, FanInvariance, PTL

(* A history is every transaction of the relevant blocks that pays the     *)
(* address, once and in order, for any blocks.                             *)
THEOREM HistoryIsWhole == FanSpec => []WholeHistory
<1> QED
  BY Whole, FanInvariance, PTL

(* The error that is kept is never a cancellation that it caused itself. *)
THEOREM FirstErrorIsCause == FanSpec => []CauseIsReported
<1>1. FanInv => CauseIsReported
  BY DEF FanInv
<1> QED
  BY <1>1, FanInvariance, PTL
-----------------------------------------------------------------------------
(* The job whose goroutine runs the fetch, as HistoryScan sees it: it      *)
(* fetches until doHistoryScan returns, with all the transactions or with  *)
(* the first error.                                                        *)
FetchJob ==
  [i \in {1} |->
     [addr   |-> Addr,
      at     |-> IF main \in {"wait", "collect"} THEN "fetch" ELSE "answered",
      answer |-> IF main = "history" THEN View("blocks")
                 ELSE IF main = "error" THEN View("failed") ELSE "none",
      done   |-> FALSE,
      res    |-> "nil"]]

(* HistoryScan with this job alone, the rest of it standing still. *)
OneJob == INSTANCE HistoryScan
            WITH Tabs <- {}, Addrs <- {Addr}, JobIds <- {1}, None <- 0,
                 MaxRestarts <- 0, shows <- <<>>, indexOn <- TRUE, slot <- 1,
                 job <- FetchJob, node <- "idle", pc <- <<>>, ref <- <<>>,
                 page <- <<>>, restarts <- 0

(* While doHistoryScan is at work its job is the same one, fetching. *)
LEMMA FetchGoesOn ==
  ASSUME main \in {"wait", "collect"}, main' \in {"wait", "collect"}
  PROVE  UNCHANGED OneJob!vars
BY DEF OneJob!vars, FetchJob

(* When it returns the job takes HistoryScan's step Fetched. *)
LEMMA FetchReturns ==
  ASSUME NEW o \in {"blocks", "failed"}, main \in {"wait", "collect"},
         main' = IF o = "blocks" THEN "history" ELSE "error"
  PROVE  OneJob!Fetched(1)
<1>1. /\ FetchJob[1].at = "fetch" /\ FetchJob[1].answer = "none"
      /\ DOMAIN FetchJob = {1}
  BY DEF FetchJob
<1>2. View(o) = OneJob!View(o)
  BY DEF View, OneJob!View
<1>3. FetchJob' = [FetchJob EXCEPT ![1].at = "answered", ![1].answer = View(o)]
  BY DEF FetchJob, View
<1>4. OneJob!Answered(1, o)
  BY <1>2, <1>3 DEF OneJob!Answered
<1> QED
  BY <1>1, <1>4 DEF OneJob!Fetched, OneJob!Running

(* Every step of the fan-out is one of these two, or touches nothing that  *)
(* HistoryScan sees.                                                       *)
LEMMA FanStepRefines ==
  FanInv /\ [FanNext]_fanVars => [OneJob!Fetched(1)]_(OneJob!vars)
<1> SUFFICES ASSUME FanInv, [FanNext]_fanVars
             PROVE  [OneJob!Fetched(1)]_(OneJob!vars)
  OBVIOUS
<1>1. CASE UNCHANGED main
  BY <1>1 DEF OneJob!vars, FetchJob
<1>2. CASE Wait
  <2>1. main = "wait" /\ main' \in {"collect", "error"}
    BY <1>2 DEF Wait
  <2> QED
    BY <2>1, FetchGoesOn, FetchReturns
<1>3. CASE Return
  <2>1. main = "collect" /\ main' = "history"
    BY <1>3 DEF Return
  <2> QED
    BY <2>1, FetchReturns
<1>4. CASE Visit \/ NextBlock
  BY <1>1, <1>4 DEF Visit, NextBlock
<1>5. ASSUME NEW i \in Calls, Goroutine(i) PROVE UNCHANGED main
  BY <1>5 DEF Goroutine, Acquire, Decoded, Fails, Cancelled, Report
<1> QED
  BY <1>1, <1>2, <1>3, <1>4, <1>5 DEF FanNext, Main, fanVars

(* The fan-out implements the one step that HistoryScan takes for it: to   *)
(* the rest of the program the goroutines, the semaphore and the errgroup  *)
(* are a single change from fetching to all blocks or to an error.         *)
THEOREM FanOutImplementsFetched ==
  FanSpec => /\ OneJob!Running(1) /\ FetchJob[1].at = "fetch"
             /\ [][OneJob!Fetched(1)]_(OneJob!vars)
<1>1. FanInit => OneJob!Running(1) /\ FetchJob[1].at = "fetch"
  BY DEF FanInit, FetchJob, OneJob!Running
<1> QED
  BY <1>1, FanStepRefines, FanInvariance, PTL DEF FanSpec
-----------------------------------------------------------------------------
(* Why the fetch comes to an end.  The steps that are still ahead: of the  *)
(* goroutines (to get a token, to return, to be seen by the errgroup), of  *)
(* the loops (one per transaction, one to leave each block), and of        *)
(* doHistoryScan around them.                                              *)
TurnsLeft(i) ==
  IF at[i] = "ready" THEN 3 ELSE IF Holds(i) THEN 2 ELSE IF at[i] = "returned" THEN 1 ELSE 0

MovesLeft == IF main = "wait" THEN 2 ELSE IF main = "collect" THEN 1 ELSE 0

Turns == Calls \X (1..3)
Visits == UNION { {b} \X DOMAIN Relevant[b] : b \in Calls }

TurnsAhead  == { s \in Turns : s[2] <= TurnsLeft(s[1]) }
VisitsAhead == { s \in Visits : ~Before(s, pos) }
BlocksAhead == { b \in Calls : b >= pos[1] }
MovesAhead  == { n \in 1..2 : n <= MovesLeft }

Ahead == ({"turn"} \X TurnsAhead) \union ({"visit"} \X VisitsAhead)
           \union ({"leave"} \X BlocksAhead) \union ({"move"} \X MovesAhead)

(* Every step that changes anything makes what is ahead smaller. *)
Nearer == Ahead' \subseteq Ahead /\ Ahead' # Ahead

(* Goroutine i is at a step that nothing keeps it from taking. *)
CanGoOn(i) ==
  (at[i] = "ready" /\ sem < Limit) \/ Holds(i) \/ at[i] = "returned"

(* While g.Wait waits for somebody, somebody can go on. *)
NobodyBlocked ==
  main = "wait" => (\A i \in Calls : at[i] = "done") \/ \E i \in Calls : CanGoOn(i)

LEMMA FirstNumbersAreFinite == ASSUME NEW n \in Nat PROVE IsFiniteSet(1..n)
BY FS_Interval

(* What is ahead is a finite set. *)
LEMMA AheadIsFinite == IsFiniteSet(Ahead)
<1>1. Calls = 1..Len(Relevant) /\ Len(Relevant) \in Nat
  BY RelevantAssumption DEF Calls
<1>2. IsFiniteSet(Calls)
  BY <1>1, FS_Interval
<1>3. IsFiniteSet(TurnsAhead)
  <2>1. IsFiniteSet(1..3)
    BY FirstNumbersAreFinite, 3 \in Nat, Zenon
  <2>2. IsFiniteSet(Turns)
    BY <1>2, <2>1, FS_Product DEF Turns
  <2> QED
    BY <2>2, FS_Subset DEF TurnsAhead
<1>4. IsFiniteSet(VisitsAhead)
  <2> DEFINE T == { {b} \X DOMAIN Relevant[b] : b \in Calls }
             f == [b \in Calls |-> {b} \X DOMAIN Relevant[b]]
  <2>1. f \in Surjection(Calls, T)
    BY DEF Surjection
  <2>2. IsFiniteSet(T)
    BY <1>2, <2>1, FS_Surjection
  <2>3. ASSUME NEW b \in Calls PROVE IsFiniteSet({b} \X DOMAIN Relevant[b])
    <3>1. DOMAIN Relevant[b] = 1..Len(Relevant[b]) /\ Len(Relevant[b]) \in Nat
      BY RelevantAssumption DEF Calls
    <3>2. IsFiniteSet({b}) /\ IsFiniteSet(DOMAIN Relevant[b])
      BY <3>1, FirstNumbersAreFinite, FS_Singleton
    <3> QED
      BY <3>2, FS_Product
  <2>4. IsFiniteSet(Visits)
    BY <2>2, <2>3, FS_UNION DEF Visits
  <2> QED
    BY <2>4, FS_Subset DEF VisitsAhead
<1>5. IsFiniteSet(BlocksAhead) /\ IsFiniteSet(MovesAhead)
  BY <1>2, FS_Interval, FS_Subset DEF BlocksAhead, MovesAhead
<1>6. /\ IsFiniteSet({"turn"} \X TurnsAhead) /\ IsFiniteSet({"visit"} \X VisitsAhead)
      /\ IsFiniteSet({"leave"} \X BlocksAhead) /\ IsFiniteSet({"move"} \X MovesAhead)
  BY <1>3, <1>4, <1>5, FS_Singleton, FS_Product
<1> QED
  BY <1>6, FS_Union DEF Ahead

(* It is enough to take one step off one kind and to add to none. *)
LEMMA OneLess ==
  ASSUME TurnsAhead' \subseteq TurnsAhead, VisitsAhead' \subseteq VisitsAhead,
         BlocksAhead' \subseteq BlocksAhead, MovesAhead' \subseteq MovesAhead,
         \/ TurnsAhead' # TurnsAhead \/ VisitsAhead' # VisitsAhead
         \/ BlocksAhead' # BlocksAhead \/ MovesAhead' # MovesAhead
  PROVE  Nearer
<1>1. Ahead' \subseteq Ahead
  BY DEF Ahead
<1>2. Ahead' = Ahead => /\ TurnsAhead \subseteq TurnsAhead' /\ VisitsAhead \subseteq VisitsAhead'
                        /\ BlocksAhead \subseteq BlocksAhead' /\ MovesAhead \subseteq MovesAhead'
  <2> SUFFICES ASSUME Ahead' = Ahead
               PROVE  /\ \A s \in TurnsAhead : s \in TurnsAhead'
                      /\ \A s \in VisitsAhead : s \in VisitsAhead'
                      /\ \A s \in BlocksAhead : s \in BlocksAhead'
                      /\ \A s \in MovesAhead : s \in MovesAhead'
    OBVIOUS
  <2>1. /\ \A s : <<"turn", s>> \in Ahead <=> s \in TurnsAhead
        /\ \A s : <<"visit", s>> \in Ahead <=> s \in VisitsAhead
        /\ \A s : <<"leave", s>> \in Ahead <=> s \in BlocksAhead
        /\ \A s : <<"move", s>> \in Ahead <=> s \in MovesAhead
    BY DEF Ahead
  <2>2. /\ \A s : <<"turn", s>> \in Ahead' <=> s \in TurnsAhead'
        /\ \A s : <<"visit", s>> \in Ahead' <=> s \in VisitsAhead'
        /\ \A s : <<"leave", s>> \in Ahead' <=> s \in BlocksAhead'
        /\ \A s : <<"move", s>> \in Ahead' <=> s \in MovesAhead'
    BY DEF Ahead
  <2> QED
    BY <2>1, <2>2
<1> QED
  BY <1>1, <1>2 DEF Nearer

(* A goroutine that goes on has one turn less. *)
LEMMA GoroutineNearer == ASSUME FanInv, NEW i \in Calls, Goroutine(i) PROVE Nearer
<1>1. UNCHANGED <<main, pos>>
  BY DEF Goroutine, Acquire, Decoded, Fails, Cancelled, Report, Returns
<1>2. /\ at'[i] \in Status /\ \A k \in Calls : k # i => at'[k] = at[k]
      /\ TurnsLeft(i) \in 1..3 /\ TurnsLeft(i)' = TurnsLeft(i) - 1
  <2>1. CASE Acquire(i)
    BY <2>1 DEF Acquire, FanInv, FanTypeOK, Status, TurnsLeft, Holds
  <2>2. CASE Decoded(i) \/ Fails(i) \/ Cancelled(i)
    <3>1. at[i] \in {"call", "late"} /\ at' = [at EXCEPT ![i] = "returned"]
      BY <2>2 DEF Decoded, Fails, Cancelled, Returns, Holds
    <3> QED
      BY <3>1 DEF FanInv, FanTypeOK, Status, TurnsLeft, Holds
  <2>3. CASE Report(i)
    BY <2>3 DEF Report, FanInv, FanTypeOK, Status, TurnsLeft, Holds
  <2> QED
    BY <2>1, <2>2, <2>3 DEF Goroutine
<1>3. \A k \in Calls : k # i => TurnsLeft(k)' = TurnsLeft(k)
  BY <1>2 DEF TurnsLeft, Holds
<1>4. TurnsAhead' \subseteq TurnsAhead
  BY <1>2, <1>3 DEF TurnsAhead, Turns
<1>5. <<i, TurnsLeft(i)>> \in TurnsAhead /\ <<i, TurnsLeft(i)>> \notin TurnsAhead'
  BY <1>2 DEF TurnsAhead, Turns
<1>6. UNCHANGED <<VisitsAhead, BlocksAhead, MovesAhead>>
  BY <1>1 DEF VisitsAhead, BlocksAhead, MovesAhead, MovesLeft, Before, Visits, Calls
<1> QED
  BY <1>4, <1>5, <1>6, OneLess

(* So has doHistoryScan, at each of its steps. *)
LEMMA MainNearer == ASSUME FanInv, Main PROVE Nearer
<1>1. UNCHANGED at
  BY DEF Main, Wait, Visit, NextBlock, Return
<1>2. UNCHANGED TurnsAhead
  BY <1>1 DEF TurnsAhead, Turns, TurnsLeft, Holds, Calls
<1>3. CASE Wait \/ Return
  <2>1. /\ UNCHANGED pos
        /\ \/ main = "wait" /\ main' \in {"collect", "error"}
           \/ main = "collect" /\ main' = "history"
    BY <1>3 DEF Wait, Return
  <2>2. UNCHANGED <<VisitsAhead, BlocksAhead>>
    BY <2>1 DEF VisitsAhead, BlocksAhead, Before, Visits, Calls
  <2>3. MovesAhead' \subseteq MovesAhead /\ MovesAhead' # MovesAhead
    <3>1. /\ MovesLeft \in 1..2 /\ MovesLeft' \in 0..1 /\ MovesLeft' < MovesLeft
      BY <2>1 DEF MovesLeft
    <3>2. MovesLeft \in MovesAhead /\ MovesLeft \notin MovesAhead'
      BY <3>1 DEF MovesAhead
    <3> QED
      BY <3>1, <3>2 DEF MovesAhead
  <2> QED
    BY <1>2, <2>2, <2>3, OneLess
<1>4. CASE Visit \/ NextBlock
  <2> DEFINE b == pos[1]
             k == pos[2]
  <2>1. /\ main = "collect" /\ b \in Calls /\ UNCHANGED main
        /\ \/ k \in DOMAIN blocks[b] /\ pos' = <<b, k + 1>>
           \/ k \notin DOMAIN blocks[b] /\ pos' = <<b + 1, 1>>
    BY <1>4 DEF Visit, NextBlock
  <2>2. /\ blocks[b] = Relevant[b] /\ pos = <<b, k>> /\ k \in Nat \ {0} /\ b \in Nat
    BY <2>1, RelevantAssumption DEF FanInv, BlocksThere, FanTypeOK, Calls
  <2>3. UNCHANGED MovesAhead
    BY <2>1 DEF MovesAhead, MovesLeft
  <2>4. \A s \in Visits : s[1] \in Nat /\ s[2] \in Nat /\ s[2] \in DOMAIN Relevant[s[1]]
    <3> SUFFICES ASSUME NEW c \in Calls, NEW n \in DOMAIN Relevant[c]
                 PROVE  c \in Nat /\ n \in Nat
      BY DEF Visits
    <3>1. Relevant[c] \in Seq(Seq(STRING))
      BY RelevantAssumption DEF Calls
    <3> QED
      BY <3>1, RelevantAssumption DEF Calls
  <2>5. VisitsAhead' \subseteq VisitsAhead
    BY <2>1, <2>2, <2>4 DEF VisitsAhead, Before, Visits, Calls
  <2>6. BlocksAhead' \subseteq BlocksAhead
    BY <2>1, <2>2, RelevantAssumption DEF BlocksAhead, Calls
  <2>7. CASE k \in DOMAIN blocks[b]
    <3>1. pos \in Visits /\ ~Before(pos, pos) /\ pos' = <<b, k + 1>>
      BY <2>1, <2>2, <2>7 DEF Visits, Before
    <3>2. pos[1] = pos'[1] /\ pos[2] < pos'[2]
      BY <2>2, <3>1
    <3>3. pos \in VisitsAhead /\ pos \notin VisitsAhead'
      BY <3>1, <3>2 DEF VisitsAhead, Before
    <3> QED
      BY <1>2, <2>3, <2>5, <2>6, <3>3, OneLess
  <2>8. CASE k \notin DOMAIN blocks[b]
    <3>1. b \in BlocksAhead /\ b \notin BlocksAhead'
      BY <2>1, <2>2, <2>8 DEF BlocksAhead
    <3> QED
      BY <1>2, <2>3, <2>5, <2>6, <3>1, OneLess
  <2> QED
    BY <2>7, <2>8
<1> QED
  BY <1>3, <1>4 DEF Main

(* The token that a ready goroutine waits for is with somebody who can go  *)
(* on: without goroutines in flight the semaphore is empty.                *)
LEMMA SomebodyGoesOn == FanInv => NobodyBlocked
<1> SUFFICES ASSUME FanInv, NEW i \in Calls, at[i] # "done",
                    \A k \in Calls : ~CanGoOn(k)
             PROVE  FALSE
  BY DEF NobodyBlocked
<1>1. at[i] = "ready" /\ ~(sem < Limit)
  BY DEF CanGoOn, FanInv, FanTypeOK, Status, Holds
<1>2. InFlight = {}
  BY DEF InFlight, CanGoOn
<1>3. sem = 0
  BY <1>2, FS_EmptySet DEF FanInv, FanTypeOK, InFlight
<1> QED
  BY <1>1, <1>3, LimitAssumption

(* The fetch cannot go on for ever and cannot get stuck, for any blocks,   *)
(* any capacity of the semaphore and any failures: what is ahead is        *)
(* finite, every step takes something off it, and as long as goroutines    *)
(* are waited for one of them can go on.                                   *)
THEOREM FanOutIsBounded ==
  FanSpec => []IsFiniteSet(Ahead) /\ []NobodyBlocked /\ [][Nearer]_fanVars
<1>1. FanInv /\ [FanNext]_fanVars => [Nearer]_fanVars
  BY GoroutineNearer, MainNearer DEF FanNext
<1> QED
  BY <1>1, AheadIsFinite, SomebodyGoesOn, FanInvariance, PTL DEF FanSpec
=============================================================================
