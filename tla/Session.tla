-------------------------------- MODULE Session ------------------------------
(****************************************************************************)
(* The connection tasks of the server (server.rs, handle_connection) and    *)
(* the handlers they call (server/query.rs): every task reads requests from *)
(* its socket, runs them against the TransactionManager and the write-ahead *)
(* log that all tasks share, and writes the replies.                        *)
(*                                                                          *)
(* A step of this model ends where another task can run or observe: at an   *)
(* await of the WAL mutex, at a lock of the TransactionManager's map, at a  *)
(* write to the socket.  The log is the sequence of records appended; its   *)
(* byte layout is the subject of Wal.tla, and snapshots are the subject of  *)
(* TransactionManager.tla.                                                  *)
(****************************************************************************)
EXTENDS Naturals, Sequences, SequencesExt, FiniteSets

CONSTANTS
  Clients,      \* the connections
  Queries,      \* the requests the clients send, a subset of Request
  MayStall,     \* the clients that may stop reading their socket
  MaxRequests,  \* bound on the requests received by all tasks together
  NoXid,        \* current_xid = None
  Nobody        \* the WAL mutex is free

(* "dml" is an INSERT, UPDATE or DELETE; "ddl" a CREATE TABLE, DROP TABLE   *)
(* or CREATE INDEX; "unsupported" a statement answered by send_error alone  *)
(* (views, ALTER TABLE, EXPLAIN, ...); "unparsed" a Query the parser gives  *)
(* None for, or an Execute of a portal that is not bound.  An Execute of a  *)
(* bound portal is the request its statement holds.                         *)
Request == {"begin", "commit", "rollback", "select", "dml", "ddl", "set", "sync",
            "unsupported", "unparsed"}

ASSUME SessionConstants ==
  /\ Queries \subseteq Request
  /\ MayStall \subseteq Clients
  /\ MaxRequests \in Nat
  /\ NoXid \notin Nat
  /\ Nobody \notin Clients

VARIABLES
  active,     \* TransactionManager.active: the keys of the map
  next_xid,   \* TransactionManager.next_xid
  log,        \* the records appended to the WAL
  flushed,    \* how many of them a flush has covered (flushed_lsn)
  wal_owner,  \* who holds the tokio mutex around the WAL
  pc,         \* where each task is
  current,    \* current_xid of each task
  request,    \* the request each task is serving or served last
  xid,        \* the local xid of the request being served
  implicit,   \* was_implicit_txn of the request being served
  replies,    \* the messages written for that request
  stalled,    \* the clients that do not read: write_all does not return
  acked,      \* transactions whose client has been told that they committed
  requests    \* how many requests have been received

shared == <<active, next_xid, log, flushed, wal_owner>>
local == <<pc, current, request, xid, implicit, replies>>
vars == <<shared, local, stalled, acked, requests>>

Xids == Nat
Ready == {"Idle", "InTransaction"}
Message == Ready \cup {"Complete", "Error"}
Record == [kind : {"Begin", "Commit", "Abort"}, xid : Xids] \cup [kind : {"Data"}]
Steps == {"read", "allocate", "register", "log_begin", "execute", "dml_ok",
          "dml_error", "log_commit", "end_implicit", "end_txn", "log_end",
          "flush", "answer", "closed"}

Init ==
  /\ active = {} /\ next_xid = 1
  /\ log = <<>> /\ flushed = 0 /\ wal_owner = Nobody
  /\ pc = [c \in Clients |-> "closed"]
  /\ current = [c \in Clients |-> NoXid]
  /\ request = [c \in Clients |-> "sync"]
  /\ xid = [c \in Clients |-> NoXid]
  /\ implicit = [c \in Clients |-> FALSE]
  /\ replies = [c \in Clients |-> <<>>]
  /\ stalled = {} /\ acked = {} /\ requests = 0

At(c, step) == pc[c] = step
Goto(c, step) == pc' = [pc EXCEPT ![c] = step]
Write(c, messages) == replies' = [replies EXCEPT ![c] = @ \o messages]

\* The status of the ReadyForQuery messages that look at current_xid.
Status(c) == IF current[c] = NoXid THEN "Idle" ELSE "InTransaction"

\* ErrorResponse followed by a ReadyForQuery that always says Idle.
send_error == <<"Error", "Idle">>

\* append under the WAL mutex, which is taken and dropped around it.
append(kind, x) ==
  /\ wal_owner = Nobody
  /\ log' = Append(log, [kind |-> kind, xid |-> x])

------------------------------------------------------------------------------
(* The connection and its request loop                                      *)

\* accept: a task with no transaction, which greets with ReadyForQuery Idle.
Connect(c) ==
  /\ At(c, "closed")
  /\ Goto(c, "read")
  /\ current' = [current EXCEPT ![c] = NoXid]
  /\ request' = [request EXCEPT ![c] = "sync"]
  /\ xid' = [xid EXCEPT ![c] = NoXid]
  /\ implicit' = [implicit EXCEPT ![c] = FALSE]
  /\ replies' = [replies EXCEPT ![c] = <<"Idle">>]
  /\ UNCHANGED <<shared, stalled, acked, requests>>

\* End of file, a read error or Terminate: the task returns, and a
\* transaction it had open stays in the manager's map.
Disconnect(c) ==
  /\ At(c, "read")
  /\ Goto(c, "closed")
  /\ current' = [current EXCEPT ![c] = NoXid]
  /\ UNCHANGED <<shared, request, xid, implicit, replies, stalled, acked, requests>>

\* The first step of the handler of q.
FirstStep(c, q) ==
  CASE q = "begin" -> "allocate"
    [] q \in {"commit", "rollback"} -> IF current[c] = NoXid THEN "answer" ELSE "end_txn"
    [] q \in {"select", "dml"} -> IF current[c] = NoXid THEN "allocate" ELSE "execute"
    [] q = "unparsed" -> "read"
    [] OTHER -> "answer"

Receive(c, q) ==
  /\ At(c, "read")
  /\ requests < MaxRequests
  /\ requests' = requests + 1
  /\ Goto(c, FirstStep(c, q))
  /\ request' = [request EXCEPT ![c] = q]
  /\ xid' = [xid EXCEPT ![c] = current[c]]
  /\ implicit' = [implicit EXCEPT ![c] = q \in {"select", "dml"} /\ current[c] = NoXid]
  /\ replies' = [replies EXCEPT ![c] = <<>>]
  /\ UNCHANGED <<shared, current, stalled, acked>>

\* The client stops and resumes reading what the server writes to it.
Stall(c) ==
  /\ stalled' = stalled \cup {c}
  /\ stalled' # stalled
  /\ UNCHANGED <<shared, local, acked, requests>>

Resume(c) ==
  /\ c \in stalled
  /\ stalled' = stalled \ {c}
  /\ UNCHANGED <<shared, local, acked, requests>>

------------------------------------------------------------------------------
(* Starting a transaction: BEGIN, and the implicit one of a statement       *)

\* begin's fetch_add.
Allocate(c) ==
  /\ At(c, "allocate")
  /\ xid' = [xid EXCEPT ![c] = next_xid]
  /\ next_xid' = next_xid + 1
  /\ Goto(c, "register")
  /\ UNCHANGED <<active, log, flushed, wal_owner, current, request, implicit,
                 replies, stalled, acked, requests>>

\* begin's insert into the map, and current_xid = Some(xid), which overwrites
\* the transaction a BEGIN was sent in.
Register(c) ==
  /\ At(c, "register")
  /\ active' = active \cup {xid[c]}
  /\ current' = [current EXCEPT ![c] = xid[c]]
  /\ Goto(c, IF request[c] = "begin" THEN "answer" ELSE "log_begin")
  /\ UNCHANGED <<next_xid, log, flushed, wal_owner, request, xid, implicit,
                 replies, stalled, acked, requests>>

\* Only implicit transactions log a Begin record.
LogBegin(c) ==
  /\ At(c, "log_begin")
  /\ append("Begin", xid[c])
  /\ Goto(c, "execute")
  /\ UNCHANGED <<active, next_xid, flushed, wal_owner, current, request, xid,
                 implicit, replies, stalled, acked, requests>>

------------------------------------------------------------------------------
(* Running a statement                                                      *)

\* Mutant of AfterStatement: the implicit transaction leaves the manager first.
AfterStatementEndsFirst(c) == IF implicit[c] THEN "end_txn" ELSE "answer"

\* Where a statement's handler goes once the statement has run, failed or not.
AfterStatement(c) == IF implicit[c] THEN "log_commit" ELSE "answer"

\* Mutant of ExecuteSelect: the rows are followed by a ReadyForQuery.
ExecuteSelectReady(c) ==
  /\ At(c, "execute") /\ request[c] = "select" /\ c \notin stalled
  /\ \/ Write(c, <<"Complete", Status(c)>>)
     \/ Write(c, send_error)
  /\ Goto(c, AfterStatement(c))
  /\ UNCHANGED <<shared, current, request, xid, implicit, stalled, acked, requests>>

\* The rows and CommandComplete, or the error of the executor.
ExecuteSelect(c) ==
  /\ At(c, "execute") /\ request[c] = "select" /\ c \notin stalled
  /\ \/ Write(c, <<"Complete">>)
     \/ Write(c, send_error)
  /\ Goto(c, AfterStatement(c))
  /\ UNCHANGED <<shared, current, request, xid, implicit, stalled, acked, requests>>

\* No such relation, INSERT ... SELECT, or a filter that does not parse: the
\* error is sent without touching the WAL.
RefuseDml(c) ==
  /\ At(c, "execute") /\ request[c] = "dml" /\ c \notin stalled
  /\ Write(c, send_error)
  /\ Goto(c, AfterStatement(c))
  /\ UNCHANGED <<shared, current, request, xid, implicit, stalled, acked, requests>>

\* The records of a statement's rows; they name no transaction of the manager.
LogRows == log' \in {log, Append(log, [kind |-> "Data"])}

\* tuple_insert, tuple_update or tuple_delete.  Its argument &*wal.lock().await
\* is a temporary of the match or if-let around the call: the mutex stays
\* locked until the arm that writes the reply is over.
ExecuteDml(c) ==
  /\ At(c, "execute") /\ request[c] = "dml"
  /\ wal_owner = Nobody
  /\ wal_owner' = c
  /\ LogRows
  /\ \E outcome \in {"dml_ok", "dml_error"} : Goto(c, outcome)
  /\ UNCHANGED <<active, next_xid, flushed, current, request, xid, implicit,
                 replies, stalled, acked, requests>>

\* Mutant of DmlReply: the guard outlives a failed statement.
DmlReplyKeepsLock(c) ==
  /\ c \notin stalled
  /\ \/ At(c, "dml_ok") /\ Write(c, <<"Complete">>) /\ wal_owner' = Nobody
     \/ At(c, "dml_error") /\ Write(c, send_error) /\ UNCHANGED wal_owner
  /\ Goto(c, AfterStatement(c))
  /\ UNCHANGED <<active, next_xid, log, flushed, current, request, xid, implicit,
                 stalled, acked, requests>>

\* The arm writes the reply and the guard is dropped.
DmlReply(c) ==
  /\ c \notin stalled
  /\ \/ At(c, "dml_ok") /\ Write(c, <<"Complete">>)
     \/ At(c, "dml_error") /\ Write(c, send_error)
  /\ wal_owner' = Nobody
  /\ Goto(c, AfterStatement(c))
  /\ UNCHANGED <<active, next_xid, log, flushed, current, request, xid, implicit,
                 stalled, acked, requests>>

\* A row whose record is longer than a segment: append panics, the task dies
\* and drops the guard; nobody ends its transaction.
DmlPanics(c) ==
  /\ At(c, "execute") /\ request[c] = "dml"
  /\ wal_owner = Nobody
  /\ LogRows
  /\ Goto(c, "closed")
  /\ current' = [current EXCEPT ![c] = NoXid]
  /\ UNCHANGED <<active, next_xid, flushed, wal_owner, request, xid, implicit,
                 replies, stalled, acked, requests>>

------------------------------------------------------------------------------
(* Ending a transaction                                                     *)

\* The implicit transaction is committed whether the statement failed or not:
\* the Commit record first, then the manager.
LogCommit(c) ==
  /\ At(c, "log_commit")
  /\ append("Commit", xid[c])
  /\ Goto(c, "end_implicit")
  /\ UNCHANGED <<active, next_xid, flushed, wal_owner, current, request, xid,
                 implicit, replies, stalled, acked, requests>>

\* Mutant of EndImplicit: the handler falls through to the logging of COMMIT
\* and ROLLBACK.
EndImplicitLogsAgain(c) ==
  /\ At(c, "end_implicit")
  /\ active' = active \ {xid[c]}
  /\ Goto(c, "log_end")
  /\ UNCHANGED <<next_xid, log, flushed, wal_owner, current, request, xid,
                 implicit, replies, stalled, acked, requests>>

EndImplicit(c) ==
  /\ At(c, "end_implicit")
  /\ active' = active \ {xid[c]}
  /\ Goto(c, "flush")
  /\ UNCHANGED <<next_xid, log, flushed, wal_owner, current, request, xid,
                 implicit, replies, stalled, acked, requests>>

\* COMMIT and ROLLBACK: the manager first, then the record.
EndTxn(c) ==
  /\ At(c, "end_txn")
  /\ active' = active \ {xid[c]}
  /\ Goto(c, "log_end")
  /\ UNCHANGED <<next_xid, log, flushed, wal_owner, current, request, xid,
                 implicit, replies, stalled, acked, requests>>

LogEnd(c) ==
  /\ At(c, "log_end")
  /\ append(IF request[c] = "commit" THEN "Commit" ELSE "Abort", xid[c])
  /\ Goto(c, "flush")
  /\ UNCHANGED <<active, next_xid, flushed, wal_owner, current, request, xid,
                 implicit, replies, stalled, acked, requests>>

\* Mutant of Flush: ROLLBACK leaves current_xid set.
FlushKeepsXid(c) ==
  /\ At(c, "flush")
  /\ wal_owner = Nobody
  /\ flushed' = Len(log)
  /\ current' = [current EXCEPT ![c] = IF request[c] = "rollback" THEN @ ELSE NoXid]
  /\ Goto(c, "answer")
  /\ UNCHANGED <<active, next_xid, log, wal_owner, request, xid, implicit,
                 replies, stalled, acked, requests>>

\* Mutant of Flush: an implicit commit is not flushed.
FlushSkipped(c) ==
  /\ At(c, "flush")
  /\ wal_owner = Nobody
  /\ flushed' = IF implicit[c] THEN flushed ELSE Len(log)
  /\ current' = [current EXCEPT ![c] = NoXid]
  /\ Goto(c, "answer")
  /\ UNCHANGED <<active, next_xid, log, wal_owner, request, xid, implicit,
                 replies, stalled, acked, requests>>

\* flush under the mutex, then current_xid = None.
Flush(c) ==
  /\ At(c, "flush")
  /\ wal_owner = Nobody
  /\ flushed' = Len(log)
  /\ current' = [current EXCEPT ![c] = NoXid]
  /\ Goto(c, "answer")
  /\ UNCHANGED <<active, next_xid, log, wal_owner, request, xid, implicit,
                 replies, stalled, acked, requests>>

------------------------------------------------------------------------------
(* The last write of a request                                              *)

\* What each handler may write last.  The statement handlers of DDL say Idle
\* whatever current_xid is, those of the legacy parser look at it.
Answers(c) ==
  CASE request[c] = "begin" -> {<<"Complete", "InTransaction">>}
    [] request[c] \in {"commit", "rollback"} -> {<<"Complete", "Idle">>}
    [] request[c] \in {"select", "dml", "sync"} -> {<<Status(c)>>}
    [] request[c] = "set" -> {<<"Complete", Status(c)>>}
    [] request[c] = "ddl" -> {<<"Complete", "Idle">>, <<"Complete", Status(c)>>, send_error}
    [] OTHER -> {send_error}

\* The request ended a transaction that its client now takes for committed.
Committed(c) ==
  \/ request[c] = "commit" /\ xid[c] # NoXid
  \/ implicit[c] /\ Contains(replies[c], "Complete")

\* The handler writes and returns; its local variables are gone.
Answer(c) ==
  /\ At(c, "answer") /\ c \notin stalled
  /\ \E a \in Answers(c) : Write(c, a)
  /\ acked' = IF Committed(c) THEN acked \cup {xid[c]} ELSE acked
  /\ Goto(c, "read")
  /\ xid' = [xid EXCEPT ![c] = NoXid]
  /\ implicit' = [implicit EXCEPT ![c] = FALSE]
  /\ UNCHANGED <<shared, current, request, stalled, requests>>

------------------------------------------------------------------------------
Serve(c) ==
  \/ Allocate(c) \/ Register(c) \/ LogBegin(c)
  \/ ExecuteSelect(c) \/ RefuseDml(c) \/ ExecuteDml(c) \/ DmlReply(c) \/ DmlPanics(c)
  \/ LogCommit(c) \/ EndImplicit(c) \/ EndTxn(c) \/ LogEnd(c) \/ Flush(c)
  \/ Answer(c)

Next ==
  \/ \E c \in Clients : Connect(c) \/ Disconnect(c) \/ Serve(c)
  \/ \E c \in Clients, q \in Queries : Receive(c, q)
  \/ \E c \in MayStall : Stall(c) \/ Resume(c)

Spec == Init /\ [][Next]_vars

(* The runtime polls every task that can make progress, and the tokio mutex *)
(* hands itself over in the order of its waiters.                           *)
FairSpec == Spec /\ \A c \in Clients : SF_vars(Serve(c))

------------------------------------------------------------------------------
(* Properties                                                               *)

Serving(c) == pc[c] \notin {"read", "closed"}
Outcome(r) == r.kind \in {"Commit", "Abort"}

\* Every variable has its type, and whoever holds the WAL mutex is between a
\* row operation and its reply.
TypeOK ==
  /\ active \subseteq 1 .. next_xid - 1 /\ next_xid \in Nat \ {0}
  /\ log \in Seq(Record) /\ flushed \in 0 .. Len(log)
  /\ wal_owner \in Clients \cup {Nobody}
  /\ \A c \in Clients : wal_owner = c <=> pc[c] \in {"dml_ok", "dml_error"}
  /\ pc \in [Clients -> Steps]
  /\ current \in [Clients -> Xids \cup {NoXid}]
  /\ request \in [Clients -> Request]
  /\ xid \in [Clients -> Xids \cup {NoXid}]
  /\ implicit \in [Clients -> BOOLEAN]
  /\ replies \in [Clients -> Seq(Message)]
  /\ stalled \subseteq MayStall /\ acked \subseteq Xids /\ requests \in 0 .. MaxRequests

\* A transaction that a client has been told is committed has its Commit
\* record in the part of the log that a flush has covered.
AckedIsDurable ==
  \A x \in acked : \E i \in 1 .. flushed : log[i] = [kind |-> "Commit", xid |-> x]

\* The log decides every transaction once: no second Commit, no Abort after a
\* Commit, whatever the clients send and however the tasks interleave.
OneOutcome ==
  \A i, j \in 1 .. Len(log) :
    Outcome(log[i]) /\ Outcome(log[j]) /\ log[i].xid = log[j].xid => i = j

\* Between requests the transaction a task holds is one that the manager still
\* has, and no other task holds it: commit and rollback, whose result the
\* handlers ignore, never fail.
CurrentIsActive ==
  \A c \in Clients : pc[c] = "read" /\ current[c] # NoXid =>
    /\ current[c] \in active
    /\ \A d \in Clients \ {c} : current[d] # current[c]

\* An implicit transaction leaves the manager's map, and so becomes visible to
\* new snapshots, only after its Commit record is in the log.
ImplicitLoggedBeforeVisible ==
  \A i \in 1 .. Len(log) :
    log[i].kind = "Begin" /\ log[i].xid \notin active =>
      \E j \in i + 1 .. Len(log) : log[j] = [kind |-> "Commit", xid |-> log[i].xid]

\* A request that does not fail is answered by exactly one ReadyForQuery, its
\* last message; unless it was DDL, whose handlers say Idle in any case, the
\* status is that of the task.
OneReadyPerSuccess ==
  \A c \in Clients : pc[c] = "read" /\ replies[c] # <<>> /\ ~ Contains(replies[c], "Error") =>
    /\ \A i \in 1 .. Len(replies[c]) : replies[c][i] \in Ready <=> i = Len(replies[c])
    /\ request[c] # "ddl" => Last(replies[c]) = Status(c)

\* Every request comes to its end unless its client, or the client whose reply
\* is being written under the WAL mutex, has stopped reading.
Answered ==
  \A c \in Clients :
    Serving(c) ~> \/ ~ Serving(c)
                  \/ c \in stalled
                  \/ wal_owner \in stalled
==============================================================================
