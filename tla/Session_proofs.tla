----------------------------- MODULE Session_proofs ----------------------------
(***************************************************************************)
(* Proofs about Session for any number of connections and requests.        *)
(*                                                                         *)
(* The inductive invariant follows a transaction through the handlers: who *)
(* holds it (current_xid, or the local variable between fetch_add and the  *)
(* insertion), whether it is in the manager's map, and which records the   *)
(* log has of it, at each step of the task that serves it.                 *)
(***************************************************************************)
EXTENDS Session, TLAPS

BeginOf(x) == [kind |-> "Begin", xid |-> x]
CommitOf(x) == [kind |-> "Commit", xid |-> x]

(* What the log says of a transaction.                                     *)
Begun(x) == \E i \in 1 .. Len(log) : log[i] = BeginOf(x)
Decided(x) == \E i \in 1 .. Len(log) : Outcome(log[i]) /\ log[i].xid = x
CommitLogged(x) == \E i \in 1 .. Len(log) : log[i] = CommitOf(x)
CommitFlushed(x) == \E i \in 1 .. flushed : log[i] = CommitOf(x)
CommitFollows(x) ==
  \A i \in 1 .. Len(log) : log[i] = BeginOf(x) => \E j \in i + 1 .. Len(log) : log[j] = CommitOf(x)

(* The steps at which the local xid is the task's current transaction.     *)
InTxn == {"log_begin", "execute", "dml_ok", "dml_error", "log_commit", "end_implicit",
          "end_txn", "log_end", "flush"}
Executing == {"execute", "dml_ok", "dml_error"}

(* Which requests pass through which steps.                                *)
Handler(c) ==
  /\ implicit[c] => request[c] \in {"select", "dml"}
  /\ pc[c] \in {"allocate", "register"} =>
       IF implicit[c] THEN request[c] \in {"select", "dml"} ELSE request[c] = "begin"
  /\ pc[c] \in Executing => request[c] \in {"select", "dml"}
  /\ pc[c] \in {"log_begin", "log_commit", "end_implicit"} => implicit[c]
  /\ pc[c] \in {"end_txn", "log_end"} => request[c] \in {"commit", "rollback"}
  /\ pc[c] = "flush" => implicit[c] \/ request[c] \in {"commit", "rollback"}
  /\ pc[c] \in InTxn => xid[c] = current[c] /\ xid[c] # NoXid
  /\ pc[c] = "answer" /\ (implicit[c] \/ request[c] \in {"commit", "rollback"}) => current[c] = NoXid
  /\ pc[c] = "answer" /\ implicit[c] => xid[c] # NoXid
  /\ pc[c] = "answer" /\ request[c] = "begin" => current[c] # NoXid

(* How far the log has got when the handler is there.                      *)
Logged(c) ==
  /\ pc[c] = "end_implicit" => CommitFollows(xid[c]) /\ CommitLogged(xid[c])
  /\ pc[c] = "flush" /\ request[c] # "rollback" => CommitLogged(xid[c])
  /\ pc[c] = "answer" /\ (implicit[c] \/ (request[c] = "commit" /\ xid[c] # NoXid))
       => CommitFlushed(xid[c])

(* A transaction between its fetch_add and its insertion is new to all.    *)
Fresh(c) ==
  pc[c] = "register" =>
    /\ xid[c] \in 1 .. next_xid - 1 /\ xid[c] \notin active
    /\ ~ Begun(xid[c]) /\ ~ Decided(xid[c])
    /\ \A d \in Clients : current[d] # xid[c]
    /\ \A d \in Clients \ {c} : pc[d] = "register" => xid[d] # xid[c]

(* A task's current transaction is its own; it is in the map until it is   *)
(* ended, undecided until its outcome is logged, and has a Begin record    *)
(* only while an implicit statement runs.                                  *)
Holding(c) ==
  current[c] # NoXid =>
    /\ current[c] \in 1 .. next_xid - 1
    /\ \A d \in Clients \ {c} : current[d] # current[c]
    /\ pc[c] \notin {"log_end", "flush"} => current[c] \in active
    /\ pc[c] \notin {"end_implicit", "flush"} => ~ Decided(current[c])
    /\ Begun(current[c]) =>
         implicit[c] /\ pc[c] \in Executing \cup {"log_commit", "end_implicit", "flush"}

(* Records name transactions that have been handed out.                    *)
RecordsBelow == \A i \in 1 .. Len(log) : log[i].kind # "Data" => log[i].xid \in 1 .. next_xid - 1

(* What has been written for the request at each step.                     *)
Written(c) ==
  /\ pc[c] \in {"allocate", "register", "log_begin", "end_txn", "log_end"} \cup Executing =>
       replies[c] = <<>>
  /\ pc[c] \in {"log_commit", "end_implicit"} => replies[c] \in {<<"Complete">>, send_error}
  /\ pc[c] \in {"flush", "answer"} =>
       IF request[c] \in {"select", "dml"} THEN replies[c] \in {<<"Complete">>, send_error}
                                           ELSE replies[c] = <<>>

IInv ==
  /\ TypeOK
  /\ \A c \in Clients : Handler(c)
  /\ \A c \in Clients : Logged(c)
  /\ \A c \in Clients : Fresh(c)
  /\ \A c \in Clients : Holding(c)
  /\ RecordsBelow
  /\ \A c \in Clients : Written(c)
  /\ AckedIsDurable
  /\ OneOutcome
  /\ ImplicitLoggedBeforeVisible
  /\ OneReadyPerSuccess

------------------------------------------------------------------------------
(* Appending a record                                                      *)

(* What append does to the log.                                            *)
LEMMA LogAppend ==
  ASSUME TypeOK, NEW r \in Record, log' = Append(log, r)
  PROVE  /\ log' \in Seq(Record) /\ Len(log') = Len(log) + 1
         /\ log'[Len(log) + 1] = r
         /\ \A i \in 1 .. Len(log) : log'[i] = log[i]
  BY DEF TypeOK

(* The records the handlers write.                                         *)
LEMMA RecordTypes ==
  ASSUME NEW x \in Xids, NEW k \in {"Begin", "Commit", "Abort"}
  PROVE  [kind |-> k, xid |-> x] \in Record /\ [kind |-> "Data"] \in Record
  BY DEF Record

(* Whatever a statement logs for its rows.                                 *)
LEMMA RowsTypes ==
  ASSUME TypeOK, LogRows
  PROVE  log' \in Seq(Record) /\ Len(log') >= Len(log)
<1>1. [kind |-> "Data"] \in Record
  BY DEF Record
<1>2. CASE log' = log
  BY <1>2 DEF TypeOK
<1>3. CASE log' = Append(log, [kind |-> "Data"])
  BY <1>1, <1>3, LogAppend DEF TypeOK
<1> QED
  BY <1>2, <1>3 DEF LogRows

(* What a record adds to what the log says of a transaction.               *)
LEMMA LogSays ==
  ASSUME TypeOK, NEW r \in Record, log' = Append(log, r), NEW x
  PROVE  /\ Begun(x)' <=> Begun(x) \/ r = BeginOf(x)
         /\ Decided(x)' <=> Decided(x) \/ (Outcome(r) /\ r.xid = x)
         /\ CommitLogged(x)' <=> CommitLogged(x) \/ r = CommitOf(x)
         /\ flushed' = flushed => (CommitFlushed(x)' <=> CommitFlushed(x))
         /\ CommitFollows(x) /\ r # BeginOf(x) => CommitFollows(x)'
         /\ r = CommitOf(x) => CommitFollows(x)'
<1>1. /\ Len(log) \in Nat /\ Len(log') = Len(log) + 1
      /\ log'[Len(log) + 1] = r
      /\ \A i \in 1 .. Len(log) : log'[i] = log[i]
  BY LogAppend DEF TypeOK
<1>2. Begun(x)' <=> Begun(x) \/ r = BeginOf(x)
  BY <1>1 DEF Begun, BeginOf
<1>3. Decided(x)' <=> Decided(x) \/ (Outcome(r) /\ r.xid = x)
  BY <1>1 DEF Decided, Outcome
<1>4. CommitLogged(x)' <=> CommitLogged(x) \/ r = CommitOf(x)
  BY <1>1 DEF CommitLogged, CommitOf
<1>5. flushed' = flushed => (CommitFlushed(x)' <=> CommitFlushed(x))
  BY <1>1 DEF CommitFlushed, CommitOf, TypeOK
<1>6. CommitFollows(x) /\ r # BeginOf(x) => CommitFollows(x)'
  BY <1>1 DEF CommitFollows, CommitOf, BeginOf
<1>7. r = CommitOf(x) => CommitFollows(x)'
  BY <1>1 DEF CommitFollows, CommitOf, BeginOf
<1> QED
  BY <1>2, <1>3, <1>4, <1>5, <1>6, <1>7

------------------------------------------------------------------------------
(* Types                                                                   *)

(* The messages a handler writes at a time.                                *)
LEMMA MessageTypes ==
  /\ <<>> \in Seq(Message) /\ send_error \in Seq(Message)
  /\ <<"Complete">> \in Seq(Message) /\ <<"Idle">> \in Seq(Message)
  /\ <<"InTransaction">> \in Seq(Message)
  /\ <<"Complete", "Idle">> \in Seq(Message)
  /\ <<"Complete", "InTransaction">> \in Seq(Message)
  BY DEF Message, Ready, send_error

(* The last write of a request is one or two messages.                     *)
LEMMA AnswerTypes == ASSUME NEW c PROVE Answers(c) \subseteq Seq(Message)
<1>1. CASE request[c] = "begin"
  <2>1. Answers(c) = {<<"Complete", "InTransaction">>}
    BY <1>1 DEF Answers
  <2> QED
    BY <2>1, MessageTypes
<1>2. CASE request[c] \in {"commit", "rollback"}
  <2>1. Answers(c) = {<<"Complete", "Idle">>}
    BY <1>2 DEF Answers
  <2> QED
    BY <2>1, MessageTypes
<1>3. CASE request[c] \in {"select", "dml", "sync"}
  <2>1. Answers(c) = {<<Status(c)>>}
    BY <1>3 DEF Answers
  <2> QED
    BY <2>1, MessageTypes DEF Status
<1>4. CASE request[c] = "set"
  <2>1. Answers(c) = {<<"Complete", Status(c)>>}
    BY <1>4 DEF Answers
  <2> QED
    BY <2>1, MessageTypes DEF Status
<1>5. CASE request[c] = "ddl"
  <2>1. Answers(c) = {<<"Complete", "Idle">>, <<"Complete", Status(c)>>, send_error}
    BY <1>5 DEF Answers
  <2> QED
    BY <2>1, MessageTypes DEF Status
<1>6. CASE request[c] \notin {"begin", "commit", "rollback", "select", "dml", "sync", "set", "ddl"}
  <2>1. Answers(c) = {send_error}
    BY <1>6 DEF Answers
  <2> QED
    BY <2>1, MessageTypes
<1> QED
  BY <1>1, <1>2, <1>3, <1>4, <1>5, <1>6

(* Writing messages keeps the type of the replies.                         *)
LEMMA WriteTypes ==
  ASSUME TypeOK, NEW c \in Clients, NEW m \in Seq(Message),
         replies' = [replies EXCEPT ![c] = @ \o m]
  PROVE  replies' \in [Clients -> Seq(Message)]
  BY DEF TypeOK

LEMMA TypeOKStep ==
  ASSUME TypeOK, \A c \in Clients : Handler(c), \A c \in Clients : Fresh(c), [Next]_vars
  PROVE  TypeOK'
<1> USE SessionConstants DEF shared, local, At, Goto, Write
<1>1. ASSUME NEW c \in Clients, Connect(c) PROVE TypeOK'
  BY <1>1 DEF TypeOK, Connect, Steps, Request, Message, Ready
<1>2. ASSUME NEW c \in Clients, Disconnect(c) PROVE TypeOK'
  BY <1>2 DEF TypeOK, Disconnect, Steps
<1>3. ASSUME NEW c \in Clients, NEW q \in Queries, Receive(c, q) PROVE TypeOK'
  BY <1>3 DEF TypeOK, Receive, FirstStep, Steps, Request
<1>4. ASSUME NEW c \in MayStall, Stall(c) \/ Resume(c) PROVE TypeOK'
  BY <1>4 DEF TypeOK, Stall, Resume
<1>5. ASSUME NEW c \in Clients, Allocate(c) PROVE TypeOK'
  BY <1>5 DEF TypeOK, Allocate, Steps, Xids
<1>6. ASSUME NEW c \in Clients, Register(c) PROVE TypeOK'
  BY <1>6 DEF TypeOK, Register, Steps, Xids, Fresh
<1>7. ASSUME NEW c \in Clients, LogBegin(c) PROVE TypeOK'
  <2>1. BeginOf(xid[c]) \in Record
    BY <1>7, RecordTypes DEF TypeOK, LogBegin, Handler, InTxn, BeginOf
  <2>2. log' = Append(log, BeginOf(xid[c]))
    BY <1>7 DEF LogBegin, append, BeginOf
  <2> QED
    BY <1>7, <2>1, <2>2, LogAppend DEF TypeOK, LogBegin, append, Steps
<1>8. ASSUME NEW c \in Clients, ExecuteSelect(c) \/ RefuseDml(c) PROVE TypeOK'
  <2>1. replies' \in [Clients -> Seq(Message)]
    BY <1>8, WriteTypes, MessageTypes DEF ExecuteSelect, RefuseDml
  <2>2. pc' \in [Clients -> Steps] /\ pc'[c] \notin {"dml_ok", "dml_error"}
    BY <1>8 DEF TypeOK, ExecuteSelect, RefuseDml, AfterStatement, Steps
  <2> QED
    BY <1>8, <2>1, <2>2 DEF TypeOK, ExecuteSelect, RefuseDml
<1>9. ASSUME NEW c \in Clients, ExecuteDml(c) PROVE TypeOK'
  <2>1. log' \in Seq(Record) /\ Len(log') >= Len(log)
    BY <1>9, RowsTypes DEF ExecuteDml
  <2>2. flushed' \in 0 .. Len(log')
    BY <1>9, <2>1 DEF TypeOK, ExecuteDml
  <2>3. \A d \in Clients : wal_owner' = d <=> pc'[d] \in {"dml_ok", "dml_error"}
    BY <1>9 DEF TypeOK, ExecuteDml
  <2> QED
    BY <1>9, <2>1, <2>2, <2>3 DEF TypeOK, ExecuteDml, Steps
<1>10. ASSUME NEW c \in Clients, DmlReply(c) PROVE TypeOK'
  <2>1. replies' \in [Clients -> Seq(Message)]
    BY <1>10, WriteTypes, MessageTypes DEF DmlReply
  <2>2. pc' \in [Clients -> Steps] /\ pc'[c] \notin {"dml_ok", "dml_error"}
    BY <1>10 DEF TypeOK, DmlReply, AfterStatement, Steps
  <2>3. \A d \in Clients \ {c} : pc'[d] \notin {"dml_ok", "dml_error"}
    BY <1>10 DEF TypeOK, DmlReply
  <2> QED
    BY <1>10, <2>1, <2>2, <2>3 DEF TypeOK, DmlReply
<1>11. ASSUME NEW c \in Clients, DmlPanics(c) PROVE TypeOK'
  <2>1. log' \in Seq(Record) /\ Len(log') >= Len(log)
    BY <1>11, RowsTypes DEF DmlPanics
  <2>2. flushed' \in 0 .. Len(log')
    BY <1>11, <2>1 DEF TypeOK, DmlPanics
  <2>3. \A d \in Clients : wal_owner' = d <=> pc'[d] \in {"dml_ok", "dml_error"}
    BY <1>11 DEF TypeOK, DmlPanics
  <2> QED
    BY <1>11, <2>1, <2>2, <2>3 DEF TypeOK, DmlPanics, Steps
<1>12. ASSUME NEW c \in Clients, LogCommit(c) PROVE TypeOK'
  <2>1. CommitOf(xid[c]) \in Record
    BY <1>12, RecordTypes DEF TypeOK, LogCommit, Handler, InTxn, CommitOf
  <2>2. log' = Append(log, CommitOf(xid[c]))
    BY <1>12 DEF LogCommit, append, CommitOf
  <2> QED
    BY <1>12, <2>1, <2>2, LogAppend DEF TypeOK, LogCommit, append, Steps
<1>13. ASSUME NEW c \in Clients, EndImplicit(c) \/ EndTxn(c) PROVE TypeOK'
  BY <1>13 DEF TypeOK, EndImplicit, EndTxn, Steps
<1>14. ASSUME NEW c \in Clients, LogEnd(c) PROVE TypeOK'
  <2>1. PICK k \in {"Commit", "Abort"} : log' = Append(log, [kind |-> k, xid |-> xid[c]])
    BY <1>14 DEF LogEnd, append
  <2>2. [kind |-> k, xid |-> xid[c]] \in Record
    BY <1>14, RecordTypes DEF TypeOK, LogEnd, Handler, InTxn, Xids
  <2> QED
    BY <1>14, <2>1, <2>2, LogAppend DEF TypeOK, LogEnd, Steps
<1>15. ASSUME NEW c \in Clients, Flush(c) PROVE TypeOK'
  BY <1>15 DEF TypeOK, Flush, Steps
<1>16. ASSUME NEW c \in Clients, Answer(c) PROVE TypeOK'
  <2>1. replies' \in [Clients -> Seq(Message)]
    BY <1>16, AnswerTypes DEF TypeOK, Answer
  <2>2. acked' \subseteq Xids
    BY <1>16 DEF TypeOK, Answer, Committed, Handler, Xids
  <2> QED
    BY <1>16, <2>1, <2>2 DEF TypeOK, Answer, Steps
<1>17. CASE UNCHANGED vars
  BY <1>17 DEF TypeOK, vars
<1> QED
  BY <1>1, <1>2, <1>3, <1>4, <1>5, <1>6, <1>7, <1>8, <1>9, <1>10, <1>11, <1>12, <1>13,
     <1>14, <1>15, <1>16, <1>17 DEF Next, Serve

------------------------------------------------------------------------------
(* Control: which request is where, and what the log and the replies hold  *)

(* The functions that the steps of a task update.                          *)
LEMMA LocalTypes ==
  ASSUME TypeOK
  PROVE  /\ pc \in [Clients -> Steps] /\ current \in [Clients -> Xids \cup {NoXid}]
         /\ request \in [Clients -> Request] /\ xid \in [Clients -> Xids \cup {NoXid}]
         /\ implicit \in [Clients -> BOOLEAN] /\ next_xid \in Xids \ {0}
  BY DEF TypeOK, Xids

LEMMA HandlerStep ==
  ASSUME TypeOK, \A c \in Clients : Handler(c), \A c \in Clients : Fresh(c), [Next]_vars, NEW d \in Clients
  PROVE  Handler(d)'
<1> USE SessionConstants, LocalTypes DEF shared, local, At, Goto, Xids
<1>1. ASSUME NEW c \in Clients, Connect(c) PROVE Handler(d)'
  BY <1>1 DEF Handler, InTxn, Executing, Connect
<1>2. ASSUME NEW c \in Clients, Disconnect(c) PROVE Handler(d)'
  BY <1>2 DEF Handler, InTxn, Executing, Disconnect
<1>3. ASSUME NEW c \in Clients, NEW q \in Queries, Receive(c, q) PROVE Handler(d)'
  BY <1>3 DEF Handler, InTxn, Executing, Receive, FirstStep
<1>4. ASSUME NEW c \in MayStall, Stall(c) \/ Resume(c) PROVE Handler(d)'
  BY <1>4 DEF Handler, InTxn, Executing, Stall, Resume
<1>5. ASSUME NEW c \in Clients, Allocate(c) PROVE Handler(d)'
  BY <1>5 DEF Handler, InTxn, Executing, Allocate
<1>6. ASSUME NEW c \in Clients, Register(c) PROVE Handler(d)'
  BY <1>6 DEF Handler, InTxn, Executing, Fresh, Register
<1>7. ASSUME NEW c \in Clients, LogBegin(c) PROVE Handler(d)'
  BY <1>7 DEF Handler, InTxn, Executing, LogBegin
<1>8. ASSUME NEW c \in Clients, ExecuteSelect(c) PROVE Handler(d)'
  BY <1>8 DEF Handler, InTxn, Executing, ExecuteSelect, AfterStatement
<1>9. ASSUME NEW c \in Clients, RefuseDml(c) PROVE Handler(d)'
  BY <1>9 DEF Handler, InTxn, Executing, RefuseDml, AfterStatement
<1>10. ASSUME NEW c \in Clients, ExecuteDml(c) PROVE Handler(d)'
  BY <1>10 DEF Handler, InTxn, Executing, ExecuteDml
<1>11. ASSUME NEW c \in Clients, DmlReply(c) PROVE Handler(d)'
  BY <1>11 DEF Handler, InTxn, Executing, DmlReply, AfterStatement
<1>12. ASSUME NEW c \in Clients, DmlPanics(c) PROVE Handler(d)'
  BY <1>12 DEF Handler, InTxn, Executing, DmlPanics
<1>13. ASSUME NEW c \in Clients, LogCommit(c) PROVE Handler(d)'
  BY <1>13 DEF Handler, InTxn, Executing, LogCommit
<1>14. ASSUME NEW c \in Clients, EndImplicit(c) PROVE Handler(d)'
  BY <1>14 DEF Handler, InTxn, Executing, EndImplicit
<1>15. ASSUME NEW c \in Clients, EndTxn(c) PROVE Handler(d)'
  BY <1>15 DEF Handler, InTxn, Executing, EndTxn
<1>16. ASSUME NEW c \in Clients, LogEnd(c) PROVE Handler(d)'
  BY <1>16 DEF Handler, InTxn, Executing, LogEnd
<1>17. ASSUME NEW c \in Clients, Flush(c) PROVE Handler(d)'
  BY <1>17 DEF Handler, InTxn, Executing, Flush
<1>18. ASSUME NEW c \in Clients, Answer(c) PROVE Handler(d)'
  BY <1>18 DEF Handler, InTxn, Executing, Answer
<1>19. CASE UNCHANGED vars
  BY <1>19 DEF Handler, InTxn, Executing, vars
<1> QED
  BY <1>1, <1>2, <1>3, <1>4, <1>5, <1>6, <1>7, <1>8, <1>9, <1>10, <1>11, <1>12, <1>13, <1>14, <1>15, <1>16, <1>17, <1>18, <1>19 DEF Next, Serve

------------------------------------------------------------------------------
(* What each kind of step changes in what the log says                     *)

LEMMA LogSame ==
  ASSUME log' = log, NEW x
  PROVE  /\ Begun(x)' <=> Begun(x)
         /\ Decided(x)' <=> Decided(x)
         /\ CommitLogged(x)' <=> CommitLogged(x)
         /\ flushed' = flushed => (CommitFlushed(x)' <=> CommitFlushed(x))
         /\ CommitFollows(x)' <=> CommitFollows(x)
  BY DEF Begun, Decided, CommitLogged, CommitFlushed, CommitFollows

(* Row records name no transaction.                                        *)
LEMMA RowsSay ==
  ASSUME TypeOK, LogRows, flushed' = flushed, NEW x
  PROVE  /\ Begun(x)' <=> Begun(x)
         /\ Decided(x)' <=> Decided(x)
         /\ CommitLogged(x)' <=> CommitLogged(x)
         /\ CommitFlushed(x)' <=> CommitFlushed(x)
         /\ CommitFollows(x) => CommitFollows(x)'
<1>1. CASE log' = log
  BY <1>1, LogSame
<1>2. CASE log' = Append(log, [kind |-> "Data"])
  <2> DEFINE r == [kind |-> "Data"]
  <2>1. r \in Record /\ r # BeginOf(x) /\ r # CommitOf(x) /\ ~ Outcome(r)
    BY DEF Record, BeginOf, CommitOf, Outcome
  <2> HIDE DEF r
  <2>2. log' = Append(log, r)
    BY <1>2 DEF r
  <2> QED
    BY <2>1, <2>2, LogSays
<1> QED
  BY <1>1, <1>2 DEF LogRows

LEMMA BeginSays ==
  ASSUME TypeOK, NEW y \in Xids, append("Begin", y), flushed' = flushed, NEW x
  PROVE  /\ Begun(x)' <=> Begun(x) \/ x = y
         /\ Decided(x)' <=> Decided(x)
         /\ CommitLogged(x)' <=> CommitLogged(x)
         /\ CommitFlushed(x)' <=> CommitFlushed(x)
         /\ x # y /\ CommitFollows(x) => CommitFollows(x)'
<1>1. BeginOf(y) \in Record /\ log' = Append(log, BeginOf(y))
  BY RecordTypes DEF BeginOf, append
<1>2. ~ Outcome(BeginOf(y)) /\ BeginOf(y) # CommitOf(x) /\ (BeginOf(y) = BeginOf(x) <=> x = y)
  BY DEF BeginOf, CommitOf, Outcome
<1> QED
  BY <1>1, <1>2, LogSays

LEMMA OutcomeSays ==
  ASSUME TypeOK, NEW y \in Xids, NEW k \in {"Commit", "Abort"}, append(k, y),
         flushed' = flushed, NEW x
  PROVE  /\ Begun(x)' <=> Begun(x)
         /\ Decided(x)' <=> Decided(x) \/ x = y
         /\ CommitLogged(x) => CommitLogged(x)'
         /\ CommitFlushed(x)' <=> CommitFlushed(x)
         /\ CommitFollows(x) => CommitFollows(x)'
         /\ k = "Commit" => CommitLogged(y)' /\ CommitFollows(y)'
<1> DEFINE r == [kind |-> k, xid |-> y]
<1>1. r \in Record /\ log' = Append(log, r)
  BY RecordTypes DEF append
<1>2. Outcome(r) /\ r.xid = y /\ r # BeginOf(x) /\ (k = "Commit" => r = CommitOf(y))
  BY DEF BeginOf, CommitOf, Outcome
<1> HIDE DEF r
<1>3. /\ Begun(x)' <=> Begun(x)
      /\ Decided(x)' <=> Decided(x) \/ x = y
      /\ CommitLogged(x) => CommitLogged(x)'
      /\ CommitFlushed(x)' <=> CommitFlushed(x)
      /\ CommitFollows(x) => CommitFollows(x)'
  BY <1>1, <1>2, LogSays
<1>4. k = "Commit" => CommitLogged(y)' /\ CommitFollows(y)'
  BY <1>1, <1>2, LogSays
<1> QED
  BY <1>3, <1>4

(* flush covers the log as it is.                                          *)
LEMMA FlushSays ==
  ASSUME TypeOK, log' = log, flushed' = Len(log), NEW x
  PROVE  /\ CommitFlushed(x)' <=> CommitLogged(x)
         /\ CommitFlushed(x) => CommitFlushed(x)'
  BY DEF TypeOK, CommitFlushed, CommitLogged

------------------------------------------------------------------------------
(* The other parts of the inductive invariant                              *)

LEMMA LoggedStep ==
  ASSUME TypeOK, \A c \in Clients : Handler(c), \A c \in Clients : Logged(c),
         \A c \in Clients : Holding(c), [Next]_vars, NEW d \in Clients
  PROVE  Logged(d)'
<1> USE SessionConstants, LocalTypes DEF shared, local, At, Goto
<1>1. ASSUME NEW c \in Clients, Connect(c) PROVE Logged(d)'
  BY <1>1, LogSame DEF Logged, Connect
<1>2. ASSUME NEW c \in Clients, Disconnect(c) PROVE Logged(d)'
  BY <1>2, LogSame DEF Logged, Disconnect
<1>3. ASSUME NEW c \in Clients, NEW q \in Queries, Receive(c, q) PROVE Logged(d)'
  BY <1>3, LogSame DEF Logged, Receive, FirstStep
<1>4. ASSUME NEW c \in MayStall, Stall(c) \/ Resume(c) PROVE Logged(d)'
  BY <1>4, LogSame DEF Logged, Stall, Resume
<1>5. ASSUME NEW c \in Clients, Allocate(c) PROVE Logged(d)'
  BY <1>5, LogSame DEF Logged, Allocate
<1>6. ASSUME NEW c \in Clients, Register(c) PROVE Logged(d)'
  BY <1>6, LogSame DEF Logged, Handler, Register
<1>7. ASSUME NEW c \in Clients, LogBegin(c) PROVE Logged(d)'
  <2>1. append("Begin", xid[c]) /\ xid[c] \in Xids /\ flushed' = flushed
    BY <1>7 DEF LogBegin, Handler, InTxn
  <2>2. pc[d] = "end_implicit" => xid[d] # xid[c]
    BY <1>7 DEF LogBegin, Handler, InTxn, Holding
  <2> QED
    BY <1>7, <2>1, <2>2, BeginSays DEF Logged, LogBegin
<1>8. ASSUME NEW c \in Clients, ExecuteSelect(c) PROVE Logged(d)'
  BY <1>8, LogSame DEF Logged, ExecuteSelect, AfterStatement
<1>9. ASSUME NEW c \in Clients, RefuseDml(c) PROVE Logged(d)'
  BY <1>9, LogSame DEF Logged, RefuseDml, AfterStatement
<1>10. ASSUME NEW c \in Clients, ExecuteDml(c) PROVE Logged(d)'
  BY <1>10, RowsSay DEF Logged, ExecuteDml
<1>11. ASSUME NEW c \in Clients, DmlReply(c) PROVE Logged(d)'
  BY <1>11, LogSame DEF Logged, Handler, Executing, DmlReply, AfterStatement
<1>12. ASSUME NEW c \in Clients, DmlPanics(c) PROVE Logged(d)'
  BY <1>12, RowsSay DEF Logged, DmlPanics
<1>13. ASSUME NEW c \in Clients, LogCommit(c) PROVE Logged(d)'
  <2>1. append("Commit", xid[c]) /\ xid[c] \in Xids /\ flushed' = flushed
    BY <1>13 DEF LogCommit, Handler, InTxn
  <2> QED
    BY <1>13, <2>1, OutcomeSays DEF Logged, LogCommit
<1>14. ASSUME NEW c \in Clients, EndImplicit(c) PROVE Logged(d)'
  BY <1>14, LogSame DEF Logged, EndImplicit
<1>15. ASSUME NEW c \in Clients, EndTxn(c) PROVE Logged(d)'
  BY <1>15, LogSame DEF Logged, EndTxn
<1>16. ASSUME NEW c \in Clients, LogEnd(c) PROVE Logged(d)'
  <2>1. PICK k \in {"Commit", "Abort"} : append(k, xid[c]) /\ (request[c] = "commit" => k = "Commit")
    BY <1>16 DEF LogEnd
  <2>2. xid[c] \in Xids /\ flushed' = flushed
    BY <1>16 DEF LogEnd, Handler, InTxn
  <2> QED
    BY <1>16, <2>1, <2>2, OutcomeSays DEF Logged, Handler, LogEnd
<1>17. ASSUME NEW c \in Clients, Flush(c) PROVE Logged(d)'
  BY <1>17, LogSame, FlushSays DEF Logged, Handler, Flush
<1>18. ASSUME NEW c \in Clients, Answer(c) PROVE Logged(d)'
  BY <1>18, LogSame DEF Logged, Answer
<1>19. CASE UNCHANGED vars
  BY <1>19, LogSame DEF Logged, vars
<1> QED
  BY <1>1, <1>2, <1>3, <1>4, <1>5, <1>6, <1>7, <1>8, <1>9, <1>10,
     <1>11, <1>12, <1>13, <1>14, <1>15, <1>16, <1>17, <1>18, <1>19 DEF Next, Serve

(* A transaction that has not been handed out is not in the log.           *)
LEMMA BelowSays ==
  ASSUME RecordsBelow, NEW x, x \notin 1 .. next_xid - 1
  PROVE  ~ Begun(x) /\ ~ Decided(x)
  BY DEF RecordsBelow, Begun, Decided, BeginOf, Outcome

LEMMA FreshStep ==
  ASSUME TypeOK, \A c \in Clients : Handler(c), \A c \in Clients : Fresh(c),
         \A c \in Clients : Holding(c), RecordsBelow, [Next]_vars, NEW d \in Clients
  PROVE  Fresh(d)'
<1> USE SessionConstants, LocalTypes DEF shared, local, At, Goto
<1>1. ASSUME NEW c \in Clients, Connect(c) PROVE Fresh(d)'
  BY <1>1, LogSame DEF Fresh, Connect
<1>2. ASSUME NEW c \in Clients, Disconnect(c) PROVE Fresh(d)'
  BY <1>2, LogSame DEF Fresh, Disconnect
<1>3. ASSUME NEW c \in Clients, NEW q \in Queries, Receive(c, q) PROVE Fresh(d)'
  BY <1>3, LogSame DEF Fresh, Receive, FirstStep
<1>4. ASSUME NEW c \in MayStall, Stall(c) \/ Resume(c) PROVE Fresh(d)'
  BY <1>4, LogSame DEF Fresh, Stall, Resume
<1>5. ASSUME NEW c \in Clients, Allocate(c) PROVE Fresh(d)'
  <2>1. CASE d = c
    <3>1. PICK x : x = next_xid /\ x \notin 1 .. next_xid - 1 /\ x # NoXid /\ x \in 1 .. next_xid' - 1
      BY <1>5 DEF Allocate, Xids
    <3>2. ~ Begun(x)' /\ ~ Decided(x)'
      BY <1>5, <3>1, BelowSays, LogSame DEF Allocate
    <3>3. x \notin active' /\ xid'[c] = x
      BY <1>5, <3>1 DEF Allocate, TypeOK
    <3>4. \A e \in Clients : current'[e] # x
      BY <1>5, <3>1 DEF Allocate, Holding
    <3>5. \A e \in Clients \ {c} : pc'[e] = "register" => xid'[e] # x
      BY <1>5, <3>1 DEF Allocate, Fresh
    <3> QED
      BY <2>1, <3>1, <3>2, <3>3, <3>4, <3>5 DEF Fresh
  <2>2. CASE d # c
    BY <1>5, <2>2, LogSame DEF Fresh, Holding, Allocate, Xids
  <2> QED
    BY <2>1, <2>2
<1>6. ASSUME NEW c \in Clients, Register(c) PROVE Fresh(d)'
  BY <1>6, LogSame DEF Fresh, Register
<1>7. ASSUME NEW c \in Clients, LogBegin(c) PROVE Fresh(d)'
  <2>1. append("Begin", xid[c]) /\ xid[c] = current[c] /\ xid[c] \in Xids /\ flushed' = flushed /\ implicit[c]
    BY <1>7 DEF LogBegin, Handler, InTxn
  <2> QED
    BY <1>7, <2>1, BeginSays DEF Fresh, LogBegin
<1>8. ASSUME NEW c \in Clients, ExecuteSelect(c) PROVE Fresh(d)'
  BY <1>8, LogSame DEF Fresh, ExecuteSelect, AfterStatement
<1>9. ASSUME NEW c \in Clients, RefuseDml(c) PROVE Fresh(d)'
  BY <1>9, LogSame DEF Fresh, RefuseDml, AfterStatement
<1>10. ASSUME NEW c \in Clients, ExecuteDml(c) PROVE Fresh(d)'
  BY <1>10, RowsSay DEF Fresh, ExecuteDml
<1>11. ASSUME NEW c \in Clients, DmlReply(c) PROVE Fresh(d)'
  BY <1>11, LogSame DEF Fresh, DmlReply, AfterStatement
<1>12. ASSUME NEW c \in Clients, DmlPanics(c) PROVE Fresh(d)'
  BY <1>12, RowsSay DEF Fresh, DmlPanics
<1>13. ASSUME NEW c \in Clients, LogCommit(c) PROVE Fresh(d)'
  <2>1. append("Commit", xid[c]) /\ xid[c] = current[c] /\ xid[c] \in Xids /\ flushed' = flushed
    BY <1>13 DEF LogCommit, Handler, InTxn
  <2> QED
    BY <1>13, <2>1, OutcomeSays DEF Fresh, LogCommit
<1>14. ASSUME NEW c \in Clients, EndImplicit(c) PROVE Fresh(d)'
  BY <1>14, LogSame DEF Fresh, EndImplicit
<1>15. ASSUME NEW c \in Clients, EndTxn(c) PROVE Fresh(d)'
  BY <1>15, LogSame DEF Fresh, EndTxn
<1>16. ASSUME NEW c \in Clients, LogEnd(c) PROVE Fresh(d)'
  <2>1. PICK k \in {"Commit", "Abort"} : append(k, xid[c])
    BY <1>16 DEF LogEnd
  <2>2. xid[c] = current[c] /\ xid[c] \in Xids /\ flushed' = flushed
    BY <1>16 DEF LogEnd, Handler, InTxn
  <2> QED
    BY <1>16, <2>1, <2>2, OutcomeSays DEF Fresh, LogEnd
<1>17. ASSUME NEW c \in Clients, Flush(c) PROVE Fresh(d)'
  BY <1>17, LogSame DEF Fresh, Flush
<1>18. ASSUME NEW c \in Clients, Answer(c) PROVE Fresh(d)'
  BY <1>18, LogSame DEF Fresh, Answer
<1>19. CASE UNCHANGED vars
  BY <1>19, LogSame DEF Fresh, vars
<1> QED
  BY <1>1, <1>2, <1>3, <1>4, <1>5, <1>6, <1>7, <1>8, <1>9, <1>10,
     <1>11, <1>12, <1>13, <1>14, <1>15, <1>16, <1>17, <1>18, <1>19 DEF Next, Serve

LEMMA HoldingStep ==
  ASSUME TypeOK, \A c \in Clients : Handler(c), \A c \in Clients : Fresh(c),
         \A c \in Clients : Holding(c), [Next]_vars, NEW d \in Clients
  PROVE  Holding(d)'
<1> USE SessionConstants, LocalTypes DEF shared, local, At, Goto
<1>1. ASSUME NEW c \in Clients, Connect(c) PROVE Holding(d)'
  BY <1>1, LogSame DEF Holding, Executing, Connect
<1>2. ASSUME NEW c \in Clients, Disconnect(c) PROVE Holding(d)'
  BY <1>2, LogSame DEF Holding, Executing, Disconnect
<1>3. ASSUME NEW c \in Clients, NEW q \in Queries, Receive(c, q) PROVE Holding(d)'
  BY <1>3, LogSame DEF Holding, Executing, Receive, FirstStep
<1>4. ASSUME NEW c \in MayStall, Stall(c) \/ Resume(c) PROVE Holding(d)'
  BY <1>4, LogSame DEF Holding, Executing, Stall, Resume
<1>5. ASSUME NEW c \in Clients, Allocate(c) PROVE Holding(d)'
  BY <1>5, LogSame DEF Holding, Executing, Xids, Allocate
<1>6. ASSUME NEW c \in Clients, Register(c) PROVE Holding(d)'
  BY <1>6, LogSame DEF Holding, Executing, Fresh, Register
<1>7. ASSUME NEW c \in Clients, LogBegin(c) PROVE Holding(d)'
  <2>1. append("Begin", xid[c]) /\ xid[c] = current[c] /\ xid[c] \in Xids /\ flushed' = flushed /\ implicit[c]
    BY <1>7 DEF LogBegin, Handler, InTxn
  <2> QED
    BY <1>7, <2>1, BeginSays DEF Holding, Executing, LogBegin
<1>8. ASSUME NEW c \in Clients, ExecuteSelect(c) PROVE Holding(d)'
  BY <1>8, LogSame DEF Holding, Executing, ExecuteSelect, AfterStatement
<1>9. ASSUME NEW c \in Clients, RefuseDml(c) PROVE Holding(d)'
  BY <1>9, LogSame DEF Holding, Executing, RefuseDml, AfterStatement
<1>10. ASSUME NEW c \in Clients, ExecuteDml(c) PROVE Holding(d)'
  BY <1>10, RowsSay DEF Holding, Executing, ExecuteDml
<1>11. ASSUME NEW c \in Clients, DmlReply(c) PROVE Holding(d)'
  BY <1>11, LogSame DEF Holding, Executing, DmlReply, AfterStatement
<1>12. ASSUME NEW c \in Clients, DmlPanics(c) PROVE Holding(d)'
  BY <1>12, RowsSay DEF Holding, Executing, DmlPanics
<1>13. ASSUME NEW c \in Clients, LogCommit(c) PROVE Holding(d)'
  <2>1. append("Commit", xid[c]) /\ xid[c] = current[c] /\ xid[c] \in Xids /\ flushed' = flushed
    BY <1>13 DEF LogCommit, Handler, InTxn
  <2> QED
    BY <1>13, <2>1, OutcomeSays DEF Holding, Executing, LogCommit
<1>14. ASSUME NEW c \in Clients, EndImplicit(c) PROVE Holding(d)'
  BY <1>14, LogSame DEF Holding, Executing, Handler, InTxn, EndImplicit
<1>15. ASSUME NEW c \in Clients, EndTxn(c) PROVE Holding(d)'
  BY <1>15, LogSame DEF Holding, Executing, Handler, InTxn, EndTxn
<1>16. ASSUME NEW c \in Clients, LogEnd(c) PROVE Holding(d)'
  <2>1. PICK k \in {"Commit", "Abort"} : append(k, xid[c])
    BY <1>16 DEF LogEnd
  <2>2. xid[c] = current[c] /\ xid[c] \in Xids /\ flushed' = flushed
    BY <1>16 DEF LogEnd, Handler, InTxn
  <2> QED
    BY <1>16, <2>1, <2>2, OutcomeSays DEF Holding, Executing, LogEnd
<1>17. ASSUME NEW c \in Clients, Flush(c) PROVE Holding(d)'
  BY <1>17, LogSame DEF Holding, Executing, Handler, InTxn, Flush
<1>18. ASSUME NEW c \in Clients, Answer(c) PROVE Holding(d)'
  BY <1>18, LogSame DEF Holding, Executing, Answer
<1>19. CASE UNCHANGED vars
  BY <1>19, LogSame DEF Holding, Executing, vars
<1> QED
  BY <1>1, <1>2, <1>3, <1>4, <1>5, <1>6, <1>7, <1>8, <1>9, <1>10,
     <1>11, <1>12, <1>13, <1>14, <1>15, <1>16, <1>17, <1>18, <1>19 DEF Next, Serve

(* All that a step may do to the log, the counters and the map.            *)
LogQuiet ==
  /\ log' = log /\ flushed' \in {flushed, Len(log)}
  /\ \A x \in active \ active' : \E c \in Clients : x = xid[c] /\ pc[c] \in {"end_implicit", "end_txn"}
LogOfRows == LogRows /\ flushed' = flushed /\ active' = active
LogOfBegin(c) ==
  pc[c] = "log_begin" /\ append("Begin", xid[c]) /\ flushed' = flushed /\ active' = active
LogOfEnd(c, k) ==
  pc[c] \in {"log_commit", "log_end"} /\ append(k, xid[c]) /\ flushed' = flushed /\ active' = active
LogStep ==
  /\ next_xid' \in {next_xid, next_xid + 1}
  /\ \/ LogQuiet
     \/ LogOfRows
     \/ \E c \in Clients : LogOfBegin(c)
     \/ \E c \in Clients, k \in {"Commit", "Abort"} : LogOfEnd(c, k)

LEMMA LogSteps ==
  ASSUME TypeOK, [Next]_vars
  PROVE  LogStep
<1> USE SessionConstants, LocalTypes DEF shared, local, At, Xids, LogStep
<1>1. ASSUME NEW c \in Clients, Connect(c) PROVE LogStep
  BY <1>1 DEF LogQuiet, Connect
<1>2. ASSUME NEW c \in Clients, Disconnect(c) PROVE LogStep
  BY <1>2 DEF LogQuiet, Disconnect
<1>3. ASSUME NEW c \in Clients, NEW q \in Queries, Receive(c, q) PROVE LogStep
  BY <1>3 DEF LogQuiet, Receive, FirstStep
<1>4. ASSUME NEW c \in MayStall, Stall(c) \/ Resume(c) PROVE LogStep
  BY <1>4 DEF LogQuiet, Stall, Resume
<1>5. ASSUME NEW c \in Clients, Allocate(c) PROVE LogStep
  BY <1>5 DEF LogQuiet, Allocate
<1>6. ASSUME NEW c \in Clients, Register(c) PROVE LogStep
  BY <1>6 DEF LogQuiet, Register
<1>7. ASSUME NEW c \in Clients, LogBegin(c) PROVE LogStep
  BY <1>7 DEF LogOfBegin, LogBegin
<1>8. ASSUME NEW c \in Clients, ExecuteSelect(c) PROVE LogStep
  BY <1>8 DEF LogQuiet, ExecuteSelect, AfterStatement
<1>9. ASSUME NEW c \in Clients, RefuseDml(c) PROVE LogStep
  BY <1>9 DEF LogQuiet, RefuseDml, AfterStatement
<1>10. ASSUME NEW c \in Clients, ExecuteDml(c) PROVE LogStep
  BY <1>10 DEF LogOfRows, ExecuteDml
<1>11. ASSUME NEW c \in Clients, DmlReply(c) PROVE LogStep
  BY <1>11 DEF LogQuiet, DmlReply, AfterStatement
<1>12. ASSUME NEW c \in Clients, DmlPanics(c) PROVE LogStep
  BY <1>12 DEF LogOfRows, DmlPanics
<1>13. ASSUME NEW c \in Clients, LogCommit(c) PROVE LogStep
  BY <1>13 DEF LogOfEnd, LogCommit
<1>14. ASSUME NEW c \in Clients, EndImplicit(c) PROVE LogStep
  BY <1>14 DEF LogQuiet, EndImplicit
<1>15. ASSUME NEW c \in Clients, EndTxn(c) PROVE LogStep
  BY <1>15 DEF LogQuiet, EndTxn
<1>16. ASSUME NEW c \in Clients, LogEnd(c) PROVE LogStep
  BY <1>16 DEF LogOfEnd, LogEnd
<1>17. ASSUME NEW c \in Clients, Flush(c) PROVE LogStep
  BY <1>17 DEF LogQuiet, Flush
<1>18. ASSUME NEW c \in Clients, Answer(c) PROVE LogStep
  BY <1>18 DEF LogQuiet, Answer
<1>19. CASE UNCHANGED vars
  BY <1>19 DEF LogQuiet, vars
<1> QED
  BY <1>1, <1>2, <1>3, <1>4, <1>5, <1>6, <1>7, <1>8, <1>9, <1>10,
     <1>11, <1>12, <1>13, <1>14, <1>15, <1>16, <1>17, <1>18, <1>19 DEF Next, Serve


(* The transaction whose records are being written is the task's own.      *)
LEMMA LoggerHolds ==
  ASSUME TypeOK, NEW c \in Clients, Handler(c), Holding(c),
         pc[c] \in {"log_begin", "log_commit", "log_end"}
  PROVE  /\ xid[c] \in Xids /\ xid[c] \in 1 .. next_xid - 1 /\ ~ Decided(xid[c])
         /\ pc[c] = "log_begin" => xid[c] \in active
  BY LocalTypes, SessionConstants DEF Handler, InTxn, Holding, Xids

LEMMA RecordsBelowStep ==
  ASSUME TypeOK, \A c \in Clients : Handler(c), \A c \in Clients : Holding(c),
         RecordsBelow, [Next]_vars
  PROVE  RecordsBelow'
<1>1. LogStep
  BY LogSteps
<1>2. next_xid \in Nat /\ next_xid' \in Nat /\ next_xid' >= next_xid
  BY <1>1 DEF TypeOK, LogStep
<1>3. ASSUME NEW r \in Record, log' = Append(log, r), r.kind # "Data" => r.xid \in 1 .. next_xid - 1
      PROVE  RecordsBelow'
  <2>1. /\ Len(log) \in Nat /\ Len(log') = Len(log) + 1
        /\ log'[Len(log) + 1] = r
        /\ \A i \in 1 .. Len(log) : log'[i] = log[i]
    BY <1>3, LogAppend DEF TypeOK
  <2>2. \A i \in 1 .. Len(log') : log'[i].kind # "Data" => log'[i].xid \in 1 .. next_xid - 1
    BY <1>3, <2>1 DEF RecordsBelow
  <2> QED
    BY <1>2, <2>2 DEF RecordsBelow
<1>4. CASE LogQuiet
  BY <1>1, <1>2, <1>4 DEF LogQuiet, RecordsBelow
<1>5. CASE LogOfRows
  <2>1. CASE log' = log
    BY <1>1, <1>2, <2>1 DEF RecordsBelow
  <2>2. CASE log' = Append(log, [kind |-> "Data"])
    BY <1>3, <2>2 DEF Record
  <2> QED
    BY <1>5, <2>1, <2>2 DEF LogOfRows, LogRows
<1>6. ASSUME NEW c \in Clients, NEW k \in {"Begin", "Commit", "Abort"}, append(k, xid[c]),
             pc[c] \in {"log_begin", "log_commit", "log_end"}
      PROVE  RecordsBelow'
  <2>1. xid[c] \in Xids /\ xid[c] \in 1 .. next_xid - 1
    BY <1>6, LoggerHolds
  <2>2. [kind |-> k, xid |-> xid[c]] \in Record
    BY <2>1, RecordTypes
  <2> QED
    BY <1>3, <1>6, <2>1, <2>2 DEF append
<1> QED
  BY <1>1, <1>4, <1>5, <1>6 DEF LogStep, LogOfBegin, LogOfEnd

(* A second outcome would be one of a transaction that is decided already.  *)
LEMMA OneOutcomeStep ==
  ASSUME TypeOK, \A c \in Clients : Handler(c), \A c \in Clients : Holding(c),
         OneOutcome, [Next]_vars
  PROVE  OneOutcome'
<1>1. LogStep
  BY LogSteps
<1>2. ASSUME NEW r \in Record, log' = Append(log, r), Outcome(r) => ~ Decided(r.xid)
      PROVE  OneOutcome'
  <2>1. /\ Len(log) \in Nat /\ Len(log') = Len(log) + 1
        /\ log'[Len(log) + 1] = r
        /\ \A i \in 1 .. Len(log) : log'[i] = log[i]
    BY <1>2, LogAppend DEF TypeOK
  <2> SUFFICES ASSUME NEW i \in 1 .. Len(log) + 1, NEW j \in 1 .. Len(log) + 1,
                      Outcome(log'[i]), Outcome(log'[j]), log'[i].xid = log'[j].xid
               PROVE  i = j
    BY <2>1 DEF OneOutcome, Outcome
  <2>2. CASE i \in 1 .. Len(log) /\ j \in 1 .. Len(log)
    BY <2>1, <2>2 DEF OneOutcome
  <2>3. CASE i = Len(log) + 1 /\ j \in 1 .. Len(log)
    BY <1>2, <2>1, <2>3 DEF Decided
  <2>4. CASE j = Len(log) + 1 /\ i \in 1 .. Len(log)
    BY <1>2, <2>1, <2>4 DEF Decided
  <2> QED
    BY <2>1, <2>2, <2>3, <2>4
<1>3. CASE log' = log
  BY <1>3 DEF OneOutcome
<1>4. CASE log' = Append(log, [kind |-> "Data"])
  <2>1. [kind |-> "Data"] \in Record /\ ~ Outcome([kind |-> "Data"])
    BY DEF Record, Outcome
  <2> QED
    BY <1>2, <1>4, <2>1
<1>5. ASSUME NEW c \in Clients, LogOfBegin(c) PROVE OneOutcome'
  <2>1. BeginOf(xid[c]) \in Record /\ ~ Outcome(BeginOf(xid[c])) /\ log' = Append(log, BeginOf(xid[c]))
    BY <1>5, LoggerHolds, RecordTypes DEF LogOfBegin, append, BeginOf, Outcome
  <2> QED
    BY <1>2, <2>1
<1>6. ASSUME NEW c \in Clients, NEW k \in {"Commit", "Abort"}, LogOfEnd(c, k) PROVE OneOutcome'
  <2> DEFINE r == [kind |-> k, xid |-> xid[c]]
  <2>1. r \in Record /\ r.xid = xid[c] /\ log' = Append(log, r)
    BY <1>6, LoggerHolds, RecordTypes DEF LogOfEnd, append
  <2>2. ~ Decided(xid[c])
    BY <1>6, LoggerHolds DEF LogOfEnd
  <2> HIDE DEF r
  <2> QED
    BY <1>2, <2>1, <2>2
<1> QED
  BY <1>1, <1>3, <1>4, <1>5, <1>6 DEF LogStep, LogQuiet, LogOfRows, LogRows

LEMMA FollowsStep ==
  ASSUME TypeOK, TypeOK', \A c \in Clients : Handler(c), \A c \in Clients : Logged(c),
         \A c \in Clients : Holding(c), ImplicitLoggedBeforeVisible, [Next]_vars
  PROVE  ImplicitLoggedBeforeVisible'
<1>1. LogStep
  BY LogSteps
<1>2. \A x \in Xids : x \notin active => CommitFollows(x)
  <2>1. \A x : BeginOf(x).kind = "Begin" /\ BeginOf(x).xid = x
    BY DEF BeginOf
  <2> QED
    BY <2>1 DEF ImplicitLoggedBeforeVisible, CommitFollows, CommitOf
<1> SUFFICES ASSUME NEW x \in Xids, x \notin active' PROVE CommitFollows(x)'
  <2>1. \A i \in 1 .. Len(log') : log'[i] \in Record
    BY DEF TypeOK
  <2>2. \A r \in Record : r.kind = "Begin" => r.xid \in Xids /\ r = BeginOf(r.xid)
    BY DEF Record, BeginOf
  <2> QED
    BY <2>1, <2>2 DEF ImplicitLoggedBeforeVisible, CommitFollows, CommitOf
<1>3. CASE LogQuiet
  <2>1. CASE x \notin active
    BY <1>2, <1>3, <2>1, LogSame DEF LogQuiet
  <2>2. CASE x \in active
    <3>1. PICK c \in Clients : x = xid[c] /\ pc[c] \in {"end_implicit", "end_txn"}
      BY <1>3, <2>2 DEF LogQuiet
    <3>2. CASE pc[c] = "end_implicit"
      BY <1>3, <3>1, <3>2, LogSame DEF Logged, LogQuiet
    <3>3. CASE pc[c] = "end_txn"
      <4>1. ~ Begun(x)
        BY <3>1, <3>3, SessionConstants DEF Handler, Holding, InTxn, Executing, Xids
      <4> QED
        BY <1>3, <4>1, LogSame DEF Begun, CommitFollows, LogQuiet
    <3> QED
      BY <3>1, <3>2, <3>3
  <2> QED
    BY <2>1, <2>2
<1>4. CASE LogOfRows
  BY <1>2, <1>4, RowsSay DEF LogOfRows
<1>5. ASSUME NEW c \in Clients, LogOfBegin(c) PROVE CommitFollows(x)'
  BY <1>2, <1>5, LoggerHolds, BeginSays DEF LogOfBegin
<1>6. ASSUME NEW c \in Clients, NEW k \in {"Commit", "Abort"}, LogOfEnd(c, k) PROVE CommitFollows(x)'
  BY <1>2, <1>6, LoggerHolds, OutcomeSays DEF LogOfEnd
<1> QED
  BY <1>1, <1>3, <1>4, <1>5, <1>6 DEF LogStep

(* A commit that a flush has covered stays covered.                        *)
LEMMA FlushedStays ==
  ASSUME TypeOK, \A c \in Clients : Handler(c), \A c \in Clients : Holding(c), [Next]_vars,
         NEW x, CommitFlushed(x)
  PROVE  CommitFlushed(x)'
<1>1. LogStep
  BY LogSteps
<1>2. CASE LogQuiet
  BY <1>2, LogSame, FlushSays DEF LogQuiet
<1>3. CASE LogOfRows
  BY <1>3, RowsSay DEF LogOfRows
<1>4. ASSUME NEW c \in Clients, LogOfBegin(c) PROVE CommitFlushed(x)'
  BY <1>4, LoggerHolds, BeginSays DEF LogOfBegin
<1>5. ASSUME NEW c \in Clients, NEW k \in {"Commit", "Abort"}, LogOfEnd(c, k) PROVE CommitFlushed(x)'
  BY <1>5, LoggerHolds, OutcomeSays DEF LogOfEnd
<1> QED
  BY <1>1, <1>2, <1>3, <1>4, <1>5 DEF LogStep

LEMMA AckedStep ==
  ASSUME TypeOK, \A c \in Clients : Handler(c), \A c \in Clients : Logged(c),
         \A c \in Clients : Holding(c), AckedIsDurable, [Next]_vars
  PROVE  AckedIsDurable'
<1>1. \A x \in acked : CommitFlushed(x)
  BY DEF AckedIsDurable, CommitFlushed, CommitOf
<1>2. \A x \in acked' : CommitFlushed(x)
  <2>1. ASSUME NEW c \in Clients, Answer(c) PROVE \A x \in acked' : CommitFlushed(x)
    BY <1>1, <2>1 DEF Answer, At, Committed, Logged
  <2>2. CASE acked' = acked
    BY <1>1, <2>2
  <2> QED
    BY <2>1, <2>2 DEF Next, Serve, vars, Connect, Disconnect, Receive, Stall, Resume, Allocate, Register,
       LogBegin, ExecuteSelect, RefuseDml, ExecuteDml, DmlReply, DmlPanics, LogCommit, EndImplicit,
       EndTxn, LogEnd, Flush
<1>3. \A x \in acked' : CommitFlushed(x)'
  BY <1>2, FlushedStays
<1> QED
  BY <1>3 DEF AckedIsDurable, CommitFlushed, CommitOf

------------------------------------------------------------------------------
(* Replies                                                                 *)

LEMMA EmptyConcat == ASSUME NEW m \in Seq(Message) PROVE <<>> \o m = m
  OBVIOUS

(* The messages of two writes, one after the other.                        *)
LEMMA ConcatParts ==
  ASSUME NEW m \in Seq(Message), NEW n \in Seq(Message)
  PROVE  /\ Len(m \o n) = Len(m) + Len(n)
         /\ \A i \in 1 .. Len(m) : (m \o n)[i] = m[i]
         /\ \A i \in 1 .. Len(n) : (m \o n)[Len(m) + i] = n[i]
  OBVIOUS

LEMMA WrittenStep ==
  ASSUME TypeOK, \A c \in Clients : Handler(c), \A c \in Clients : Written(c), [Next]_vars,
         NEW d \in Clients
  PROVE  Written(d)'
<1> USE SessionConstants, LocalTypes, MessageTypes DEF shared, local, At, Goto
<1>0. replies \in [Clients -> Seq(Message)]
  BY DEF TypeOK
<1>1. ASSUME NEW c \in Clients, Connect(c) PROVE Written(d)'
  BY <1>1, <1>0 DEF Written, Executing, Handler, Connect
<1>2. ASSUME NEW c \in Clients, Disconnect(c) PROVE Written(d)'
  BY <1>2, <1>0 DEF Written, Executing, Handler, Disconnect
<1>3. ASSUME NEW c \in Clients, NEW q \in Queries, Receive(c, q) PROVE Written(d)'
  BY <1>3, <1>0 DEF Written, Executing, Handler, Receive, FirstStep
<1>4. ASSUME NEW c \in MayStall, Stall(c) \/ Resume(c) PROVE Written(d)'
  BY <1>4, <1>0 DEF Written, Executing, Handler, Stall, Resume
<1>5. ASSUME NEW c \in Clients, Allocate(c) PROVE Written(d)'
  BY <1>5, <1>0 DEF Written, Executing, Handler, Allocate
<1>6. ASSUME NEW c \in Clients, Register(c) PROVE Written(d)'
  BY <1>6, <1>0 DEF Written, Executing, Handler, Register
<1>7. ASSUME NEW c \in Clients, LogBegin(c) PROVE Written(d)'
  BY <1>7, <1>0 DEF Written, Executing, Handler, LogBegin
<1>8. ASSUME NEW c \in Clients, ExecuteSelect(c) PROVE Written(d)'
  <2>1. replies[c] = <<>> /\ request[c] \in {"select", "dml"}
    BY <1>8 DEF ExecuteSelect, Written, Executing, Handler
  <2>2. replies' = [replies EXCEPT ![c] = <<"Complete">>] \/ replies' = [replies EXCEPT ![c] = send_error]
    BY <1>8, <2>1, EmptyConcat DEF ExecuteSelect, Write
  <2> QED
    BY <1>8, <1>0, <2>1, <2>2 DEF Written, Executing, ExecuteSelect, AfterStatement
<1>9. ASSUME NEW c \in Clients, RefuseDml(c) PROVE Written(d)'
  <2>1. replies[c] = <<>> /\ request[c] \in {"select", "dml"}
    BY <1>9 DEF RefuseDml, Written, Executing, Handler
  <2>2. replies' = [replies EXCEPT ![c] = <<"Complete">>] \/ replies' = [replies EXCEPT ![c] = send_error]
    BY <1>9, <2>1, EmptyConcat DEF RefuseDml, Write
  <2> QED
    BY <1>9, <1>0, <2>1, <2>2 DEF Written, Executing, RefuseDml, AfterStatement
<1>10. ASSUME NEW c \in Clients, ExecuteDml(c) PROVE Written(d)'
  BY <1>10, <1>0 DEF Written, Executing, Handler, ExecuteDml
<1>11. ASSUME NEW c \in Clients, DmlReply(c) PROVE Written(d)'
  <2>1. replies[c] = <<>> /\ request[c] \in {"select", "dml"}
    BY <1>11 DEF DmlReply, Written, Executing, Handler
  <2>2. replies' = [replies EXCEPT ![c] = <<"Complete">>] \/ replies' = [replies EXCEPT ![c] = send_error]
    BY <1>11, <2>1, EmptyConcat DEF DmlReply, Write
  <2> QED
    BY <1>11, <1>0, <2>1, <2>2 DEF Written, Executing, DmlReply, AfterStatement
<1>12. ASSUME NEW c \in Clients, DmlPanics(c) PROVE Written(d)'
  BY <1>12, <1>0 DEF Written, Executing, Handler, DmlPanics
<1>13. ASSUME NEW c \in Clients, LogCommit(c) PROVE Written(d)'
  BY <1>13, <1>0 DEF Written, Executing, Handler, LogCommit
<1>14. ASSUME NEW c \in Clients, EndImplicit(c) PROVE Written(d)'
  BY <1>14, <1>0 DEF Written, Executing, Handler, EndImplicit
<1>15. ASSUME NEW c \in Clients, EndTxn(c) PROVE Written(d)'
  BY <1>15, <1>0 DEF Written, Executing, Handler, EndTxn
<1>16. ASSUME NEW c \in Clients, LogEnd(c) PROVE Written(d)'
  BY <1>16, <1>0 DEF Written, Executing, Handler, LogEnd
<1>17. ASSUME NEW c \in Clients, Flush(c) PROVE Written(d)'
  BY <1>17, <1>0 DEF Written, Executing, Handler, Flush
<1>18. ASSUME NEW c \in Clients, Answer(c) PROVE Written(d)'
  BY <1>18 DEF Written, Executing, Answer, Write
<1>19. CASE UNCHANGED vars
  BY <1>19, <1>0 DEF Written, Executing, Handler, vars
<1> QED
  BY <1>1, <1>2, <1>3, <1>4, <1>5, <1>6, <1>7, <1>8, <1>9, <1>10,
     <1>11, <1>12, <1>13, <1>14, <1>15, <1>16, <1>17, <1>18, <1>19 DEF Next, Serve


(* OneReadyPerSuccess, task by task: the shape of the messages m written   *)
(* for a request q by a task whose status is st.                           *)
ReadyShape(m, q, st) ==
  m # <<>> /\ ~ Contains(m, "Error") =>
    /\ \A i \in 1 .. Len(m) : m[i] \in Ready <=> i = Len(m)
    /\ q # "ddl" => Last(m) = st
ReadyLast(c) == pc[c] = "read" => ReadyShape(replies[c], request[c], Status(c))

LEMMA EmptyShape == ASSUME NEW q, NEW st PROVE ReadyShape(<<>>, q, st)
  BY DEF ReadyShape

LEMMA ReadyEnds ==
  ASSUME NEW q, NEW s \in Ready, NEW st, q # "ddl" => s = st
  PROVE  ReadyShape(<<s>>, q, st) /\ ReadyShape(<<"Complete", s>>, q, st)
<1>1. ReadyShape(<<s>>, q, st)
  BY DEF ReadyShape, Last, Ready
<1>2. ReadyShape(<<"Complete", s>>, q, st)
  BY DEF ReadyShape, Last, Ready
<1> QED
  BY <1>1, <1>2

(* An error answer has the right shape whatever its status.                *)
LEMMA ErrorEnds ==
  ASSUME NEW q, NEW s, NEW st
  PROVE  ReadyShape(<<"Error", s>>, q, st)
<1>1. Contains(<<"Error", s>>, "Error")
  BY DEF Contains
<1> QED
  BY <1>1 DEF ReadyShape

(* The last write completes what has been written to an answer.            *)
LEMMA AnswerShape ==
  ASSUME TypeOK, NEW c \in Clients, Handler(c), Written(c), pc[c] = "answer", NEW a \in Answers(c)
  PROVE  ReadyShape(replies[c] \o a, request[c], Status(c))
<1>1. PICK st \in Ready : st = Status(c)
  BY DEF Status, Ready
<1>2. CASE request[c] \in {"select", "dml"}
  <2>1. a = <<st>>
    BY <1>1, <1>2 DEF Answers
  <2>2. CASE replies[c] = <<"Complete">>
    <3>1. replies[c] \in Seq(Message) /\ Len(replies[c]) = 1 /\ replies[c][1] = "Complete"
      BY <2>2, MessageTypes
    <3>2. a \in Seq(Message) /\ Len(a) = 1 /\ a[1] = st
      BY <2>1, AnswerTypes
    <3> DEFINE m == replies[c] \o a
    <3>3. Len(m) = 1 + 1 /\ m[1] = "Complete" /\ m[1 + 1] = st
      BY <3>1, <3>2, ConcatParts
    <3> HIDE DEF m
    <3>4. ReadyShape(m, request[c], st)
      BY <1>1, <3>3 DEF ReadyShape, Last, Ready
    <3> QED
      BY <1>1, <3>4 DEF m
  <2>3. CASE replies[c] = send_error
    <3>1. replies[c] \in Seq(Message) /\ Len(replies[c]) = 2 /\ replies[c][1] = "Error"
      BY <2>3, MessageTypes DEF send_error
    <3>2. a \in Seq(Message) /\ Len(a) = 1
      BY <2>1, AnswerTypes
    <3> DEFINE m == replies[c] \o a
    <3>3. Len(m) = 2 + 1 /\ m[1] = "Error"
      <4>1. 1 \in 1 .. Len(replies[c])
        BY <3>1
      <4>2. Len(m) = Len(replies[c]) + Len(a)
        BY <3>1, <3>2, ConcatParts
      <4>3. m[1] = replies[c][1]
        BY <3>1, <3>2, <4>1, ConcatParts
      <4> HIDE DEF m
      <4> QED
        BY <3>1, <3>2, <4>2, <4>3
    <3> HIDE DEF m
    <3>4. ReadyShape(m, request[c], st)
      BY <3>3 DEF ReadyShape, Contains
    <3> QED
      BY <1>1, <3>4 DEF m
  <2> QED
    BY <1>2, <2>2, <2>3 DEF Written
<1>3. CASE request[c] \notin {"select", "dml"}
  <2>1. replies[c] \o a = a
    BY <1>3, AnswerTypes, EmptyConcat DEF Written
  <2>2. CASE request[c] = "begin"
    <3>1. a = <<"Complete", "InTransaction">> /\ st = "InTransaction"
      BY <1>1, <2>2 DEF Answers, Status, Handler
    <3> QED
      BY <1>1, <2>1, <3>1, ReadyEnds
  <2>3. CASE request[c] \in {"commit", "rollback"}
    <3>1. a = <<"Complete", "Idle">> /\ st = "Idle"
      BY <1>1, <2>3 DEF Answers, Status, Handler
    <3> QED
      BY <1>1, <2>1, <3>1, ReadyEnds
  <2>4. CASE request[c] = "sync"
    <3>1. a = <<st>>
      BY <1>1, <2>4 DEF Answers
    <3> QED
      BY <1>1, <2>1, <3>1, ReadyEnds
  <2>5. CASE request[c] = "set"
    <3>1. a = <<"Complete", st>>
      BY <1>1, <2>5 DEF Answers
    <3> QED
      BY <1>1, <2>1, <3>1, ReadyEnds
  <2>6. CASE request[c] = "ddl"
    <3>1. a = <<"Complete", "Idle">> \/ a = <<"Complete", st>> \/ a = <<"Error", "Idle">>
      BY <1>1, <2>6 DEF Answers, send_error
    <3> QED
      BY <1>1, <2>1, <2>6, <3>1, ReadyEnds, ErrorEnds DEF Ready
  <2>7. CASE request[c] \notin {"begin", "commit", "rollback", "sync", "set", "ddl"}
    <3>1. a = <<"Error", "Idle">>
      BY <1>3, <2>7 DEF Answers, send_error
    <3> QED
      BY <2>1, <3>1, ErrorEnds
  <2> QED
    BY <2>2, <2>3, <2>4, <2>5, <2>6, <2>7
<1> QED
  BY <1>2, <1>3

LEMMA ReadyStep ==
  ASSUME TypeOK, \A c \in Clients : Handler(c), \A c \in Clients : Written(c),
         \A c \in Clients : ReadyLast(c), [Next]_vars, NEW d \in Clients
  PROVE  ReadyLast(d)'
<1> USE SessionConstants, LocalTypes DEF shared, local, At, Goto
<1>0. replies \in [Clients -> Seq(Message)]
  BY DEF TypeOK
<1>1. ASSUME NEW c \in Clients, Connect(c) PROVE ReadyLast(d)'
  <2>1. CASE d # c
    BY <1>1, <1>0, <2>1 DEF ReadyLast, Status, Connect
  <2>2. CASE d = c
    <3>1. replies'[c] = <<"Idle">> /\ Status(c)' = "Idle"
      BY <1>1, <1>0 DEF Connect, Status
    <3>2. ReadyShape(<<"Idle">>, request'[c], "Idle")
      BY ReadyEnds DEF Ready
    <3> QED
      BY <2>2, <3>1, <3>2 DEF ReadyLast
  <2> QED
    BY <2>1, <2>2
<1>2. ASSUME NEW c \in Clients, Disconnect(c) PROVE ReadyLast(d)'
  BY <1>2, <1>0 DEF ReadyLast, Status, Disconnect
<1>3. ASSUME NEW c \in Clients, NEW q \in Queries, Receive(c, q) PROVE ReadyLast(d)'
  <2>1. CASE d # c
    BY <1>3, <1>0, <2>1 DEF ReadyLast, Status, Receive
  <2>2. CASE d = c
    BY <1>3, <1>0, <2>2, EmptyShape DEF ReadyLast, Receive
  <2> QED
    BY <2>1, <2>2
<1>4. ASSUME NEW c \in MayStall, Stall(c) \/ Resume(c) PROVE ReadyLast(d)'
  BY <1>4, <1>0 DEF ReadyLast, Status, Stall, Resume
<1>5. ASSUME NEW c \in Clients, Allocate(c) PROVE ReadyLast(d)'
  BY <1>5, <1>0 DEF ReadyLast, Status, Allocate
<1>6. ASSUME NEW c \in Clients, Register(c) PROVE ReadyLast(d)'
  BY <1>6, <1>0 DEF ReadyLast, Status, Register
<1>7. ASSUME NEW c \in Clients, LogBegin(c) PROVE ReadyLast(d)'
  BY <1>7, <1>0 DEF ReadyLast, Status, LogBegin
<1>8. ASSUME NEW c \in Clients, ExecuteSelect(c) PROVE ReadyLast(d)'
  BY <1>8, <1>0 DEF ReadyLast, Status, Write, ExecuteSelect, AfterStatement
<1>9. ASSUME NEW c \in Clients, RefuseDml(c) PROVE ReadyLast(d)'
  BY <1>9, <1>0 DEF ReadyLast, Status, Write, RefuseDml, AfterStatement
<1>10. ASSUME NEW c \in Clients, ExecuteDml(c) PROVE ReadyLast(d)'
  BY <1>10, <1>0 DEF ReadyLast, Status, ExecuteDml
<1>11. ASSUME NEW c \in Clients, DmlReply(c) PROVE ReadyLast(d)'
  BY <1>11, <1>0 DEF ReadyLast, Status, Write, DmlReply, AfterStatement
<1>12. ASSUME NEW c \in Clients, DmlPanics(c) PROVE ReadyLast(d)'
  BY <1>12, <1>0 DEF ReadyLast, Status, DmlPanics
<1>13. ASSUME NEW c \in Clients, LogCommit(c) PROVE ReadyLast(d)'
  BY <1>13, <1>0 DEF ReadyLast, Status, LogCommit
<1>14. ASSUME NEW c \in Clients, EndImplicit(c) PROVE ReadyLast(d)'
  BY <1>14, <1>0 DEF ReadyLast, Status, EndImplicit
<1>15. ASSUME NEW c \in Clients, EndTxn(c) PROVE ReadyLast(d)'
  BY <1>15, <1>0 DEF ReadyLast, Status, EndTxn
<1>16. ASSUME NEW c \in Clients, LogEnd(c) PROVE ReadyLast(d)'
  BY <1>16, <1>0 DEF ReadyLast, Status, LogEnd
<1>17. ASSUME NEW c \in Clients, Flush(c) PROVE ReadyLast(d)'
  BY <1>17, <1>0 DEF ReadyLast, Status, Flush
<1>18. ASSUME NEW c \in Clients, Answer(c) PROVE ReadyLast(d)'
  <2>1. CASE d # c
    BY <1>18, <1>0, <2>1 DEF ReadyLast, Status, Answer, Write
  <2>2. CASE d = c
    <3>1. PICK a \in Answers(c) : replies' = [replies EXCEPT ![c] = replies[c] \o a]
      BY <1>18 DEF Answer, Write
    <3>2. Status(c)' = Status(c) /\ request'[c] = request[c] /\ replies'[c] = replies[c] \o a
      BY <1>18, <1>0, <3>1 DEF Answer, Status
    <3>3. ReadyShape(replies[c] \o a, request[c], Status(c))
      BY <1>18, AnswerShape DEF Answer
    <3> QED
      BY <2>2, <3>2, <3>3 DEF ReadyLast
  <2> QED
    BY <2>1, <2>2
<1>19. CASE UNCHANGED vars
  BY <1>19, <1>0 DEF ReadyLast, Status, vars
<1> QED
  BY <1>1, <1>2, <1>3, <1>4, <1>5, <1>6, <1>7, <1>8, <1>9, <1>10,
     <1>11, <1>12, <1>13, <1>14, <1>15, <1>16, <1>17, <1>18, <1>19 DEF Next, Serve

------------------------------------------------------------------------------
(* Theorems                                                                *)

LEMMA IInvInit == Init => IInv
<1> SUFFICES ASSUME Init PROVE IInv
  OBVIOUS
<1> USE SessionConstants DEF Init
<1>1. TypeOK
  BY MessageTypes DEF TypeOK, Steps, Request, Xids
<1>2. \A c \in Clients : Handler(c) /\ Logged(c) /\ Fresh(c) /\ Holding(c) /\ Written(c)
  BY DEF Handler, Logged, Fresh, Holding, Written, InTxn, Executing
<1>3. RecordsBelow /\ AckedIsDurable /\ OneOutcome /\ ImplicitLoggedBeforeVisible
  BY DEF RecordsBelow, AckedIsDurable, OneOutcome, ImplicitLoggedBeforeVisible
<1>4. OneReadyPerSuccess
  BY DEF OneReadyPerSuccess
<1> QED
  BY <1>1, <1>2, <1>3, <1>4 DEF IInv

LEMMA IInvStep == IInv /\ [Next]_vars => IInv'
<1> SUFFICES ASSUME IInv, [Next]_vars PROVE IInv'
  OBVIOUS
<1>1. /\ TypeOK /\ RecordsBelow /\ AckedIsDurable /\ OneOutcome /\ ImplicitLoggedBeforeVisible
      /\ \A c \in Clients : Handler(c)
      /\ \A c \in Clients : Logged(c)
      /\ \A c \in Clients : Fresh(c)
      /\ \A c \in Clients : Holding(c)
      /\ \A c \in Clients : Written(c)
      /\ \A c \in Clients : ReadyLast(c)
  BY DEF IInv, OneReadyPerSuccess, ReadyLast, ReadyShape
<1>2. TypeOK'
  BY <1>1, TypeOKStep
<1>3. \A c \in Clients : Handler(c)'
  BY <1>1, HandlerStep
<1>4. \A c \in Clients : Logged(c)'
  BY <1>1, LoggedStep
<1>5. \A c \in Clients : Fresh(c)'
  BY <1>1, FreshStep
<1>6. \A c \in Clients : Holding(c)'
  BY <1>1, HoldingStep
<1>7. \A c \in Clients : Written(c)'
  BY <1>1, WrittenStep
<1>8. RecordsBelow'
  BY <1>1, RecordsBelowStep
<1>9. AckedIsDurable'
  BY <1>1, AckedStep
<1>10. OneOutcome'
  BY <1>1, OneOutcomeStep
<1>11. ImplicitLoggedBeforeVisible'
  BY <1>1, <1>2, FollowsStep
<1>12. OneReadyPerSuccess'
  <2>1. \A c \in Clients : ReadyLast(c)'
    BY <1>1, ReadyStep
  <2> QED
    BY <2>1 DEF OneReadyPerSuccess, ReadyLast, ReadyShape
<1> QED
  BY <1>2, <1>3, <1>4, <1>5, <1>6, <1>7, <1>8, <1>9, <1>10, <1>11, <1>12 DEF IInv

(* The inductive invariant holds in every state of the server.             *)
THEOREM SessionInvariant == Spec => []IInv
  BY IInvInit, IInvStep, PTL DEF Spec

(* Every variable keeps its type; the WAL mutex is held exactly between a  *)
(* row operation and its reply, also after panics and disconnects.         *)
THEOREM SessionTypeCorrect == Spec => []TypeOK
<1>1. IInv => TypeOK
  BY DEF IInv
<1> QED
  BY <1>1, SessionInvariant, PTL

(* A commit that a client was told of is in the flushed part of the log.   *)
THEOREM AckedDurable == Spec => []AckedIsDurable
<1>1. IInv => AckedIsDurable
  BY DEF IInv
<1> QED
  BY <1>1, SessionInvariant, PTL

(* No transaction has two outcomes in the log.                             *)
THEOREM OutcomeOnce == Spec => []OneOutcome
<1>1. IInv => OneOutcome
  BY DEF IInv
<1> QED
  BY <1>1, SessionInvariant, PTL

(* Between requests a task's transaction is in the manager's map, and it   *)
(* is nobody else's.                                                       *)
THEOREM CurrentActive == Spec => []CurrentIsActive
<1>1. IInv => CurrentIsActive
  BY DEF IInv, CurrentIsActive, Holding
<1> QED
  BY <1>1, SessionInvariant, PTL

(* An implicit transaction is logged as committed before it leaves the map.*)
THEOREM ImplicitLoggedFirst == Spec => []ImplicitLoggedBeforeVisible
<1>1. IInv => ImplicitLoggedBeforeVisible
  BY DEF IInv
<1> QED
  BY <1>1, SessionInvariant, PTL

(* A request that does not fail gets one ReadyForQuery, as its last        *)
(* message, with the status of its task.                                   *)
THEOREM ReadyOnce == Spec => []OneReadyPerSuccess
<1>1. IInv => OneReadyPerSuccess
  BY DEF IInv
<1> QED
  BY <1>1, SessionInvariant, PTL
==============================================================================
