--------------------------------- MODULE Latch --------------------------------
(****************************************************************************)
(* concurrency/latch.rs and concurrency/condition_variable.rs: tasks that   *)
(* wait for a latch by spinning (Latch::wait), on the latch's own Notify    *)
(* (Latch::async_wait) or on a condition variable's (ConditionVariable::    *)
(* wait), and tasks that set it and then signal.                            *)
(*                                                                          *)
(* tokio's Notify is external: notify_waiters wakes the futures that exist  *)
(* and leaves nothing behind, notify_one wakes one of them or leaves one    *)
(* permit, which the next notified() takes.                                 *)
(****************************************************************************)
EXTENDS Naturals, FiniteSets

CONSTANTS
  Spinners,      \* tasks in Latch::wait
  LatchWaiters,  \* tasks in Latch::async_wait
  CvWaiters,     \* tasks in ConditionVariable::wait
  Setters,       \* tasks that set the latch and signal the condition variable
  MaxSets,       \* bound on the calls of set
  MaxUnsets      \* bound on the calls of unset

Waiters == Spinners \cup LatchWaiters \cup CvWaiters

ASSUME LatchConstants ==
  /\ Spinners \cap LatchWaiters = {} /\ CvWaiters \cap (Spinners \cup LatchWaiters) = {}
  /\ Setters \cap Waiters = {}
  /\ MaxSets \in Nat /\ MaxUnsets \in Nat

VARIABLES
  state,    \* Latch.state
  permit,   \* the permit stored in the condition variable's Notify
  signal,   \* how the setters signal: "notify_one" or "notify_all"
  at,       \* where each task is
  sets,     \* calls of set so far
  unsets    \* calls of unset so far

latchVars == <<state, permit, signal, at, sets, unsets>>

LatchInit ==
  /\ state = 0 /\ permit = 0
  /\ signal \in {"notify_one", "notify_all"}
  /\ at = [t \in Waiters \cup Setters |-> IF t \in Setters THEN "idle" ELSE "check"]
  /\ sets = 0 /\ unsets = 0

Goto(t, step) == at' = [at EXCEPT ![t] = step]
Parked(W) == {w \in W : at[w] = "parked"}

\* Task s goes on to step and the tasks of W are woken.
Wake(s, step, W) ==
  at' = [t \in DOMAIN at |-> CASE t = s -> step
                               [] t \in W -> "check"
                               [] OTHER -> at[t]]

------------------------------------------------------------------------------
(* Waiting *)

\* The loop's condition; the load and the call of notified() are two steps.
Check(w) ==
  /\ at[w] = "check"
  /\ Goto(w, CASE state # 0 -> "done"
               [] state = 0 /\ w \in Spinners -> "check"
               [] state = 0 /\ w \notin Spinners -> "enter")
  /\ UNCHANGED <<signal, state, permit, sets, unsets>>

\* notified().await: a stored permit is taken at once, otherwise the task is
\* parked.
Park(w) ==
  /\ at[w] = "enter"
  /\ IF w \in CvWaiters /\ permit = 1
     THEN Goto(w, "check") /\ permit' = 0
     ELSE Goto(w, "parked") /\ UNCHANGED permit
  /\ UNCHANGED <<signal, state, sets, unsets>>

------------------------------------------------------------------------------
(* Setting *)

set(s) ==
  /\ at[s] = "idle" /\ sets < MaxSets
  /\ state' = 1
  /\ sets' = sets + 1
  /\ Goto(s, "notify_latch")
  /\ UNCHANGED <<signal, permit, unsets>>

\* Mutant of NotifyLatch: only one waiter is woken.
NotifyLatchOne(s) ==
  /\ at[s] = "notify_latch"
  /\ LET woken == IF Parked(LatchWaiters) = {} THEN {}
                  ELSE {CHOOSE w \in LatchWaiters : at[w] = "parked"}
     IN  Wake(s, "signal", woken)
  /\ UNCHANGED <<signal, state, permit, sets, unsets>>

\* set's notify_waiters.
NotifyLatch(s) ==
  /\ at[s] = "notify_latch"
  /\ Wake(s, "signal", Parked(LatchWaiters))
  /\ UNCHANGED <<signal, state, permit, sets, unsets>>

\* Mutant of notify_one: no permit is left when nobody is parked.
notify_one_lossy(s) ==
  /\ at[s] = "signal"
  /\ IF Parked(CvWaiters) = {}
     THEN Goto(s, "idle")
     ELSE \E w \in Parked(CvWaiters) : Wake(s, "idle", {w})
  /\ UNCHANGED <<signal, state, permit, sets, unsets>>

\* Wakes one parked task, or leaves a permit; permits do not add up.
notify_one(s) ==
  /\ at[s] = "signal"
  /\ IF Parked(CvWaiters) = {}
     THEN Goto(s, "idle") /\ permit' = 1
     ELSE /\ \E w \in Parked(CvWaiters) : Wake(s, "idle", {w})
          /\ UNCHANGED permit
  /\ UNCHANGED <<signal, state, sets, unsets>>

\* Wakes every parked task and leaves nothing.
notify_all(s) ==
  /\ at[s] = "signal"
  /\ Wake(s, "idle", Parked(CvWaiters))
  /\ UNCHANGED <<signal, state, permit, sets, unsets>>

unset(s) ==
  /\ at[s] = "idle" /\ unsets < MaxUnsets
  /\ state' = 0
  /\ unsets' = unsets + 1
  /\ UNCHANGED <<signal, permit, at, sets>>

------------------------------------------------------------------------------
SignalCv(s) ==
  \/ signal = "notify_one" /\ notify_one(s)
  \/ signal = "notify_all" /\ notify_all(s)

\* Nobody is in the middle of a call; whoever is parked may stay so for good.
Rest == (\A t \in DOMAIN at : at[t] \in {"parked", "done", "idle"}) /\ UNCHANGED latchVars

LatchNext ==
  \/ \E w \in Waiters : Check(w) \/ Park(w)
  \/ \E s \in Setters : set(s) \/ NotifyLatch(s) \/ SignalCv(s) \/ unset(s)
  \/ Rest

(* Tasks are polled when they can make progress, and a task that has begun  *)
(* to set the latch goes through with it; nobody has to call set or unset.  *)
LatchFairness ==
  /\ \A w \in Waiters : WF_latchVars(Check(w) \/ Park(w))
  /\ \A s \in Setters : WF_latchVars(NotifyLatch(s) \/ SignalCv(s))

------------------------------------------------------------------------------
(* Properties *)

\* When the latch is set for good, tasks in Latch::wait return, and notify_one
\* brings back a task of the condition variable, also when it finds nobody
\* parked because they are between their look at the latch and notified().
SignalNotLost ==
  <>[](state = 1) =>
    /\ \A w \in Spinners : <>(at[w] = "done")
    /\ signal = "notify_one" => <>(\E w \in CvWaiters : at[w] = "done")

\* A task that is parked when the latch is set, and not unset any more, returns:
\* set and notify_all reach everyone who is parked.
ParkedReturn ==
  \A w \in LatchWaiters \cup CvWaiters :
    [](/\ at[w] = "parked" /\ state = 0
       /\ w \in CvWaiters => signal = "notify_all"
       /\ [](state = 1 => [](state = 1)) /\ <>(state = 1)
       => <>(at[w] = "done"))
==============================================================================
