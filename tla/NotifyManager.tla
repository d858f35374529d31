---------------------------- MODULE NotifyManager ---------------------------
(***************************************************************************)
(* src/protocol/listen_notify.rs.  listen creates a bounded channel of     *)
(* tokio's mpsc and keeps its sender; notify sends to the listeners of a   *)
(* channel one after the other, waiting wherever the queue is full.        *)
(* unlisten and drop_all keep every sender (retain with a predicate that   *)
(* is always true), so they change nothing and are left out.               *)
(*                                                                         *)
(* listen needs the manager exclusively and notify shares it: the two do   *)
(* not overlap, while several notify calls may.  A notification is         *)
(* <<sender, number>>.                                                     *)
(***************************************************************************)
EXTENDS Naturals, Sequences

CONSTANTS Senders, Receivers,
          MayStop,        \* the receivers that may stop reading without closing
          QueueSize,      \* 100 in the code
          MaxNotify       \* bound on the notifications of a sender

VARIABLES
  listeners,  \* channels[name], in the order of listen
  queue,      \* receiver -> its queue
  ear,        \* receiver -> "none", "open", "stopped" (not read any more) or "closed"
  turn,       \* sender -> the place in listeners that its notify is at, 0 outside
  sent,       \* sender -> number of notify calls so far
  heard,      \* history: receiver -> all that was put into its queue
  since       \* history: receiver -> the value of sent when it began to listen

notifyVars == <<listeners, queue, ear, turn, sent, heard, since>>

NotifyInit ==
  /\ listeners = <<>>
  /\ queue = [r \in Receivers |-> <<>>]
  /\ ear = [r \in Receivers |-> "none"]
  /\ turn = [s \in Senders |-> 0]
  /\ sent = [s \in Senders |-> 0]
  /\ heard = [r \in Receivers |-> <<>>]
  /\ since = [r \in Receivers |-> sent]

Listen(r) ==
  /\ ear[r] = "none"
  /\ \A s \in Senders : turn[s] = 0
  /\ listeners' = Append(listeners, r)
  /\ ear' = [ear EXCEPT ![r] = "open"]
  /\ since' = [since EXCEPT ![r] = sent]
  /\ UNCHANGED <<queue, turn, sent, heard>>

\* Without listeners notify returns at once.
Notify(s) ==
  /\ turn[s] = 0
  /\ sent[s] < MaxNotify
  /\ sent' = [sent EXCEPT ![s] = @ + 1]
  /\ turn' = [turn EXCEPT ![s] = IF listeners = <<>> THEN 0 ELSE 1]
  /\ UNCHANGED <<listeners, queue, ear, heard, since>>

NextListener(s) == turn' = [turn EXCEPT ![s] = IF @ = Len(listeners) THEN 0 ELSE @ + 1]

\* try_send: what does not fit is lost.
Send_Dropping(s) ==
  /\ turn[s] # 0
  /\ LET r == listeners[turn[s]]
         room == Len(queue[r]) < QueueSize
         n == <<s, sent[s]>>
     IN  /\ queue' = IF room THEN [queue EXCEPT ![r] = Append(@, n)] ELSE queue
         /\ heard' = IF room THEN [heard EXCEPT ![r] = Append(@, n)] ELSE heard
  /\ NextListener(s)
  /\ UNCHANGED <<listeners, ear, sent, since>>

\* Waits for a closed receiver's queue too.
Send_NoError(s) ==
  /\ turn[s] # 0
  /\ LET r == listeners[turn[s]]
     IN  /\ Len(queue[r]) < QueueSize
         /\ queue' = [queue EXCEPT ![r] = Append(@, <<s, sent[s]>>)]
         /\ heard' = [heard EXCEPT ![r] = Append(@, <<s, sent[s]>>)]
  /\ NextListener(s)
  /\ UNCHANGED <<listeners, ear, sent, since>>

\* send fails at once on a closed receiver, which stays in the list.
Send(s) ==
  /\ turn[s] # 0
  /\ LET r == listeners[turn[s]]
     IN  \/ ear[r] = "closed" /\ UNCHANGED <<queue, heard>>
         \/ /\ ear[r] # "closed"
            /\ Len(queue[r]) < QueueSize
            /\ queue' = [queue EXCEPT ![r] = Append(@, <<s, sent[s]>>)]
            /\ heard' = [heard EXCEPT ![r] = Append(@, <<s, sent[s]>>)]
  /\ NextListener(s)
  /\ UNCHANGED <<listeners, ear, sent, since>>

Receive(r) ==
  /\ ear[r] = "open"
  /\ queue[r] # <<>>
  /\ queue' = [queue EXCEPT ![r] = Tail(@)]
  /\ UNCHANGED <<listeners, ear, turn, sent, heard, since>>

\* The client drops its receiver, or keeps it without reading.
CloseReceiver(r) ==
  /\ ear[r] \in {"open", "stopped"}
  /\ ear' = [ear EXCEPT ![r] = "closed"]
  /\ UNCHANGED <<listeners, queue, turn, sent, heard, since>>

StopReading(r) ==
  /\ r \in MayStop
  /\ ear[r] = "open"
  /\ ear' = [ear EXCEPT ![r] = "stopped"]
  /\ UNCHANGED <<listeners, queue, turn, sent, heard, since>>

\* Every sender is done: nothing more has to happen.
NotifyRest == (\A s \in Senders : turn[s] = 0) /\ UNCHANGED notifyVars

NotifyNext ==
  \/ \E s \in Senders : Notify(s) \/ Send(s)
  \/ \E r \in Receivers : Listen(r) \/ Receive(r) \/ CloseReceiver(r) \/ StopReading(r)
  \/ NotifyRest

NotifySpec == NotifyInit /\ [][NotifyNext]_notifyVars

\* A sender that can go on does.  Senders queue for room in turn (tokio's semaphore
\* is fair).  A receiver reads as long as it has not stopped.
NotifyFairness ==
  /\ \A s \in Senders : SF_notifyVars(Send(s))
  /\ \A r \in Receivers : WF_notifyVars(Receive(r))

-----------------------------------------------------------------------------
(* Properties *)

\* Has s finished with r for the notification it is sending?
Passed(s, r) == turn[s] = 0 \/ \E i \in 1 .. turn[s] - 1 : listeners[i] = r

\* A receiver that has not closed gets every notification sent since it began to
\* listen, once and in the order of its sender, however many senders wait for room
\* at the same time, up to the one that is on its way.
NotifyInOrder ==
  \A r \in Receivers, s \in Senders : ear[r] \in {"open", "stopped"} =>
    LET mine == {i \in 1 .. Len(heard[r]) : heard[r][i][1] = s}
        last == IF Passed(s, r) THEN sent[s] ELSE sent[s] - 1
    IN  /\ \A i \in mine : heard[r][i][2] \in since[r][s] + 1 .. last
        /\ \A n \in since[r][s] + 1 .. last : \E i \in mine : heard[r][i][2] = n
        /\ \A i, j \in mine : i < j => heard[r][i][2] < heard[r][j][2]

\* notify returns, unless a receiver that has stopped reading keeps it waiting: a
\* closed one never does.
NotifyReturns ==
  \A s \in Senders : turn[s] # 0 ~> turn[s] = 0 \/ \E r \in Receivers : ear[r] = "stopped"
=============================================================================
