------------------------------ MODULE ScanSlot ------------------------------
(***************************************************************************)
(* What a scan slot of the Explorer promises, without locks, goroutines or *)
(* RPCs: it holds one scan; a new one starts only when none is running, or *)
(* (MayDisplace) when the running one is of another address; and a tab is  *)
(* answered, at one instant, either that it has to wait or with the result *)
(* of the scan of its own address that is in the slot at that instant.     *)
(***************************************************************************)
CONSTANTS Tabs, Addrs, Outcome, MayDisplace

VARIABLES
  shows,    \* the address of each tab
  scan,     \* the scan in the slot
  answer    \* the last answer of each tab

slotVars == <<shows, scan, answer>>

NoScan  == [state |-> "none"]
Busy(a) == [state |-> "running", addr |-> a]
Over(a, o) == [state |-> "over", addr |-> a, out |-> o]

SlotInit ==
  /\ shows \in [Tabs -> Addrs]
  /\ scan = NoScan
  /\ answer = [t \in Tabs |-> "blank"]

(* A tab starts the scan of its address. *)
Begin(t) ==
  /\ scan.state = "running" => MayDisplace /\ scan.addr # shows[t]
  /\ scan' = Busy(shows[t])
  /\ answer' = [answer EXCEPT ![t] = "scanning"]
  /\ UNCHANGED shows

End ==
  /\ scan.state = "running"
  /\ \E o \in Outcome : scan' = Over(scan.addr, o)
  /\ UNCHANGED <<shows, answer>>

See(t) ==
  /\ \E o \in Outcome : scan = Over(shows[t], o)
                          /\ answer' = [answer EXCEPT ![t] = o]
  /\ UNCHANGED <<shows, scan>>

ToldToWait(t) ==
  /\ answer' = [answer EXCEPT ![t] = "scanning"]
  /\ UNCHANGED <<shows, scan>>

(* The server is restarted: the slot and some answers are gone. *)
Lose ==
  /\ scan' = NoScan
  /\ UNCHANGED shows
  /\ \E lost \in SUBSET Tabs :
       answer' = [t \in Tabs |-> IF t \in lost THEN "blank" ELSE answer[t]]

SlotNext == \/ \E t \in Tabs : Begin(t) \/ See(t) \/ ToldToWait(t)
            \/ End \/ Lose

SlotSpec == SlotInit /\ [][SlotNext]_slotVars
=============================================================================
