------------------------------ MODULE Parallel ------------------------------
(***************************************************************************)
(* src/executor/parallel: one task per worker computes rows and adds them  *)
(* to a list that all share; execute_parallel spawns the tasks and awaits  *)
(* their handles in order.  A task may report an error in the context or   *)
(* panic, in which case the call returns at its handle and leaves the      *)
(* other tasks running.  The executor and its context live on between      *)
(* calls, and neither the rows nor the error is ever cleared.              *)
(*                                                                         *)
(* Worker w of call c contributes one row, <<c, w>>.                       *)
(***************************************************************************)
EXTENDS Naturals, Sequences

CONSTANTS NWorkers,
          MaxExecutions    \* bound on the calls of execute_parallel

ASSUME ParallelConstants == NWorkers \in Nat /\ MaxExecutions \in Nat

Workers == 1 .. NWorkers
Executions == 1 .. MaxExecutions

VARIABLES
  tuples,    \* shared_state.tuples
  error,     \* shared_state.error.is_some()
  tasks,     \* <<call, worker>> -> where its task is
  executing, \* the calls so far; the last one may still be open
  awaiting,  \* the handle the open call awaits; NWorkers + 1 and + 2 are the
             \* steps after the loop, 0 when no call is open
  results,   \* call -> what it returned
  reported   \* history: the tasks that have set the error

parallelVars == <<tuples, error, tasks, executing, awaiting, results, reported>>

ParallelInit ==
  /\ tuples = <<>>
  /\ error = FALSE
  /\ tasks = [t \in Executions \X Workers |-> "none"]
  /\ executing = 0
  /\ awaiting = 0
  /\ results = [c \in Executions |-> [status |-> "none", rows |-> <<>>]]
  /\ reported = {}

Spawn ==
  /\ awaiting = 0
  /\ executing < MaxExecutions
  /\ executing' = executing + 1
  /\ tasks' = [t \in Executions \X Workers |-> IF t[1] = executing + 1 THEN "running" ELSE tasks[t]]
  /\ awaiting' = 1
  /\ UNCHANGED <<tuples, error, results, reported>>

\* The worker's function returns its rows; it may have called set_error.
TaskComputes(t) ==
  /\ tasks[t] = "running"
  /\ tasks' = [tasks EXCEPT ![t] = "adding"]
  /\ \/ UNCHANGED <<error, reported>>
     \/ error' = TRUE /\ reported' = reported \cup {t}
  /\ UNCHANGED <<tuples, executing, awaiting, results>>

TaskPanics(t) ==
  /\ tasks[t] = "running"
  /\ tasks' = [tasks EXCEPT ![t] = "panicked"]
  /\ UNCHANGED <<tuples, error, executing, awaiting, results, reported>>

AddTuples(t) ==
  /\ tasks[t] = "adding"
  /\ tasks' = [tasks EXCEPT ![t] = "done"]
  /\ tuples' = Append(tuples, t)
  /\ UNCHANGED <<error, executing, awaiting, results, reported>>

ReturnResult(status, rows) ==
  /\ results' = [results EXCEPT ![executing] = [status |-> status, rows |-> rows]]
  /\ awaiting' = 0

\* Takes the first handle that is done for all of them.
AwaitHandle_Any ==
  /\ awaiting \in Workers
  /\ \E w \in Workers : tasks[<<executing, w>>] = "done"
  /\ awaiting' = NWorkers + 1
  /\ UNCHANGED <<tuples, error, tasks, executing, results, reported>>

AwaitHandle ==
  /\ awaiting \in Workers
  /\ \/ /\ tasks[<<executing, awaiting>>] = "done"
        /\ awaiting' = awaiting + 1
        /\ UNCHANGED results
     \/ /\ tasks[<<executing, awaiting>>] = "panicked"
        /\ ReturnResult("panic", <<>>)
  /\ UNCHANGED <<tuples, error, tasks, executing, reported>>

CheckError ==
  /\ awaiting = NWorkers + 1
  /\ \/ error /\ ReturnResult("error", <<>>)
     \/ ~error /\ awaiting' = NWorkers + 2 /\ UNCHANGED results
  /\ UNCHANGED <<tuples, error, tasks, executing, reported>>

GetTuples ==
  /\ awaiting = NWorkers + 2
  /\ ReturnResult("ok", tuples)
  /\ UNCHANGED <<tuples, error, tasks, executing, reported>>

ParallelNext ==
  \/ Spawn \/ AwaitHandle \/ CheckError \/ GetTuples
  \/ \E t \in Executions \X Workers : TaskComputes(t) \/ TaskPanics(t) \/ AddTuples(t)

ParallelSpec == ParallelInit /\ [][ParallelNext]_parallelVars

-----------------------------------------------------------------------------
(* Properties *)

\* What execute_parallel returns as a success holds the rows of each of its own
\* workers exactly once, whatever tasks an earlier call left behind.  The rows of
\* earlier calls come with them; the first call has only its own.  A worker that
\* reported an error makes its call fail, and a failure all later calls.
ParallelExact ==
  \A c \in Executions : results[c].status = "ok" =>
    /\ \A i, j \in 1 .. Len(results[c].rows) : results[c].rows[i] = results[c].rows[j] => i = j
    /\ \A w \in Workers : \E i \in 1 .. Len(results[c].rows) : results[c].rows[i] = <<c, w>>
    /\ \A i \in 1 .. Len(results[c].rows) : results[c].rows[i][1] <= c
    /\ \A w \in Workers : <<c, w>> \notin reported
    /\ \A d \in 1 .. c - 1 : results[d].status # "error"
=============================================================================
