------------------------------ MODULE MCWaiting -----------------------------
(* Three pieces of code that wait or search, in one run: focus says which   *)
(* of them a behaviour is about.                                            *)
EXTENDS DeadlockDetector, Latch, NotifyManager

VARIABLE focus

\* A behaviour of the latch has a search that is over, on the empty graph.
NothingToSearch ==
  /\ wait_for = [x \in Xids |-> {}]
  /\ keys = {} /\ visited = {} /\ stack = {} /\ path = <<>>
  /\ rest = [x \in Xids |-> {}]
  /\ finished = {}
  /\ result = NoCycle

\* A behaviour of the detector has a latch on which nobody waits any more.
NobodyWaits ==
  /\ state = 0 /\ permit = 0 /\ signal = "notify_one" /\ sets = 0 /\ unsets = 0
  /\ at = [t \in Waiters \cup Setters |-> IF t \in Setters THEN "idle" ELSE "done"]

WaitingInit ==
  /\ NotifyInit
  /\ \/ focus = "detector" /\ Init /\ NobodyWaits
     \/ focus = "latch" /\ NothingToSearch /\ LatchInit
     \/ focus = "notify" /\ NothingToSearch /\ NobodyWaits

WaitingNext ==
  /\ UNCHANGED focus
  /\ \/ focus = "detector" /\ Next /\ UNCHANGED <<latchVars, notifyVars>>
     \/ focus = "latch" /\ LatchNext /\ UNCHANGED <<vars, notifyVars>>
     \/ focus = "notify" /\ NotifyNext /\ UNCHANGED <<vars, latchVars>>

\* The fairness of each: those that a behaviour is not about have nothing to do.
WaitingSpec ==
  /\ WaitingInit /\ [][WaitingNext]_<<vars, latchVars, notifyVars, focus>>
  /\ WF_vars(Next)
  /\ LatchFairness
  /\ NotifyFairness
=============================================================================
