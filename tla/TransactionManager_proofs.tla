----------------------- MODULE TransactionManager_proofs -----------------------
(***************************************************************************)
(* Proofs about TransactionManager for any number of sessions and xids.    *)
(*                                                                         *)
(* Everything but type correctness holds only while fewer transactions     *)
(* have begun than there are xids: after that, fetch_add hands out xids    *)
(* that are in use.  The                                                   *)
(* inductive invariant ties the counter to the number of begins, bounds the*)
(* xids in use by it, and says of every xid whether it is in a session's   *)
(* begin, in active, or ended.                                             *)
(***************************************************************************)
EXTENDS TransactionManager, TLAPS

NoWraparound == MaxBegins < XidLimit

(* next_xid counts the begins.                                             *)
Counted == begins + 1 < XidLimit => next_xid = begins + 1

(* Whatever carries an xid carries one that was handed out.                *)
HandedOut ==
  /\ \A c \in Sessions : pc[c] # "idle" => txn[c].xid \in 1 .. begins
  /\ \A x \in Xids : outcome[x] # "unused" => x <= begins
  /\ \A x \in Xids : active[x] # NoTxn => x <= begins

(* A session's transaction is in progress, and what has ended has no entry.*)
Lifetime ==
  /\ \A c \in Sessions : pc[c] # "idle" => outcome[txn[c].xid] = "in_progress"
  /\ \A x \in Ended : active[x] = NoTxn

(* A transaction in progress is in active or still in its begin.           *)
Accounted ==
  \A x \in Xids : outcome[x] = "in_progress" =>
    \/ active[x] # NoTxn
    \/ \E d \in Sessions : txn[d].xid = x /\ pc[d] \in {"allocated", "snapped"}

(* A session's snapshots carry its xid and list nothing that had ended     *)
(* before its begin.                                                       *)
Snapshots(c) == {txn[c].snapshot, statement[c]} \ {NoSnapshot}

SettledInv ==
  \A c \in Sessions : pc[c] # "idle" =>
    /\ settled[c] \subseteq Ended
    /\ \A x \in settled[c] : x < txn[c].xid
    /\ \A s \in Snapshots(c) : s.xid = txn[c].xid /\ s.active_xids \cap settled[c] = {}

IInv ==
  /\ TypeOK
  /\ Counted
  /\ HandedOut
  /\ XidsUnique
  /\ EndFindsTransaction
  /\ Lifetime
  /\ Accounted
  /\ SettledInv

------------------------------------------------------------------------------
(* Init and every action keep the types; the counter wraps inside Xids.    *)
LEMMA TypeOKStep == TypeOK /\ [Next]_vars => TypeOK'
<1> SUFFICES ASSUME TypeOK, [Next]_vars PROVE TypeOK'
  OBVIOUS
<1> USE TransactionConstants
<1>1. ASSUME NEW c \in Sessions, NEW level \in Levels, BeginAllocate(c, level)
      PROVE  TypeOK'
  <2>1. next_xid' \in Xids
    BY <1>1 DEF TypeOK, BeginAllocate, Xids
  <2>2. [xid |-> next_xid, isolation |-> level, snapshot |-> NoSnapshot] \in Transaction
    BY DEF TypeOK, Transaction
  <2>3. txn' \in [Sessions -> Transaction]
    BY <1>1, <2>2 DEF TypeOK, BeginAllocate
  <2>4. begins' \in 0 .. MaxBegins
    BY <1>1 DEF TypeOK, BeginAllocate
  <2>5. outcome' \in [Xids -> {"unused", "in_progress", "committed", "aborted"}]
    BY <1>1 DEF TypeOK, BeginAllocate
  <2>6. settled' \in [Sessions -> SUBSET Xids]
    BY <1>1 DEF TypeOK, BeginAllocate, Ended
  <2> QED
    BY <1>1, <2>1, <2>3, <2>4, <2>5, <2>6 DEF TypeOK, BeginAllocate
<1>2. ASSUME NEW c \in Sessions, BeginSnapshot(c) PROVE TypeOK'
  <2>1. create_snapshot(txn[c].xid) \in Snapshot
    BY DEF create_snapshot, TypeOK, Transaction, Snapshot, ActiveXids
  <2>2. txn' \in [Sessions -> Transaction]
    BY <1>2, <2>1 DEF TypeOK, BeginSnapshot, Transaction
  <2> QED
    BY <1>2, <2>2 DEF TypeOK, BeginSnapshot
<1>3. ASSUME NEW c \in Sessions, BeginInsert(c) PROVE TypeOK'
  <2>1. active' \in [Xids -> Transaction \cup {NoTxn}]
    BY <1>3 DEF TypeOK, BeginInsert, Transaction
  <2> QED
    BY <1>3, <2>1 DEF TypeOK, BeginInsert
<1>4. ASSUME NEW c \in Sessions, Statement(c) PROVE TypeOK'
  <2>1. create_snapshot(txn[c].xid) \in Snapshot
    BY DEF create_snapshot, TypeOK, Transaction, Snapshot, ActiveXids
  <2>2. statement' \in [Sessions -> Snapshot \cup {NoSnapshot}]
    BY <1>4, <2>1 DEF TypeOK, Statement
  <2> QED
    BY <1>4, <2>2 DEF TypeOK, Statement
<1>5. ASSUME NEW c \in Sessions, NEW how \in {"committed", "aborted"}, End(c, how)
      PROVE  TypeOK'
  <2>1. active' \in [Xids -> Transaction \cup {NoTxn}]
    BY <1>5 DEF TypeOK, End
  <2>2. outcome' \in [Xids -> {"unused", "in_progress", "committed", "aborted"}]
    BY <1>5 DEF TypeOK, End
  <2> QED
    BY <1>5, <2>1, <2>2 DEF TypeOK, End
<1>6. ASSUME NEW c \in Sessions, Abandon(c) PROVE TypeOK'
  BY <1>6 DEF TypeOK, Abandon
<1>7. CASE UNCHANGED vars
  BY <1>7 DEF TypeOK, vars
<1> QED
  BY <1>1, <1>2, <1>3, <1>4, <1>5, <1>6, <1>7
  DEF Next, Act, Rest, commit, rollback

(* TransactionManager keeps its maps, counter and snapshots well typed, for*)
(* any number of begins: the 32-bit counter wraps and never leaves Xids.   *)
THEOREM ManagerTypeCorrect == Spec => []TypeOK
<1>1. Init => TypeOK
  BY TransactionConstants
  DEF Init, TypeOK, NoTransaction, Transaction, Xids, IsolationLevel
<1> QED
  BY <1>1, TypeOKStep, PTL DEF Spec

------------------------------------------------------------------------------
(* One lemma per action: it keeps the inductive invariant.  TypeOK' is     *)
(* TypeOKStep's; the facts named F say what the action leaves of each      *)
(* variable, and the rest follows from them.                               *)

(* begin's fetch_add keeps the inductive invariant. *)
LEMMA AllocateKeeps ==
  ASSUME NoWraparound, IInv, TypeOK',
         NEW c \in Sessions, NEW level \in Levels, BeginAllocate(c, level)
  PROVE  IInv'
<1> USE TransactionConstants
<1>1. next_xid = begins + 1 /\ next_xid \in Xids /\ begins \in Nat /\ begins' = begins + 1
  BY DEF IInv, Counted, NoWraparound, TypeOK, BeginAllocate, Xids
<1>2. \A d \in Sessions \ {c} :
        /\ txn'[d] = txn[d] /\ pc'[d] = pc[d]
        /\ statement'[d] = statement[d] /\ settled'[d] = settled[d]
  BY DEF IInv, TypeOK, BeginAllocate
<1>3. /\ txn'[c].xid = next_xid /\ txn'[c].snapshot = NoSnapshot
      /\ pc'[c] = "allocated" /\ statement'[c] = NoSnapshot /\ settled'[c] = Ended
  BY DEF IInv, TypeOK, BeginAllocate
<1>4. active' = active /\ pc[c] = "idle"
  BY DEF BeginAllocate
<1>5. /\ \A x \in Xids \ {next_xid} : outcome'[x] = outcome[x]
      /\ outcome'[next_xid] = "in_progress" /\ outcome[next_xid] = "unused"
      /\ active[next_xid] = NoTxn
  BY <1>1 DEF IInv, TypeOK, BeginAllocate, HandedOut
<1>6. Ended' = Ended
  BY <1>5 DEF Ended
<1>7. Counted'
  <2>1. next_xid' = (begins + 2) % XidLimit
    BY <1>1 DEF BeginAllocate
  <2>2. begins + 2 < XidLimit => (begins + 2) % XidLimit = begins + 2
    BY <1>1
  <2> QED
    BY <1>1, <2>1, <2>2 DEF Counted
<1>8. HandedOut'
  <2>1. \A d \in Sessions : pc'[d] # "idle" => txn'[d].xid \in 1 .. begins'
    BY <1>1, <1>2, <1>3 DEF IInv, HandedOut
  <2>2. \A x \in Xids : outcome'[x] # "unused" => x <= begins'
    BY <1>1, <1>5 DEF IInv, HandedOut, Xids
  <2>3. \A x \in Xids : active'[x] # NoTxn => x <= begins'
    BY <1>1, <1>4 DEF IInv, HandedOut, Xids
  <2> QED
    BY <2>1, <2>2, <2>3 DEF HandedOut
<1>9. XidsUnique'
  <2>1. \A d \in Sessions \ {c} : pc[d] # "idle" => txn[d].xid # next_xid
    BY <1>1 DEF IInv, HandedOut
  <2> QED
    BY <1>2, <1>3, <2>1 DEF IInv, XidsUnique
<1>10. EndFindsTransaction'
  BY <1>2, <1>3, <1>4 DEF IInv, EndFindsTransaction
<1>11. Lifetime'
  <2>1. \A d \in Sessions : pc'[d] # "idle" => outcome'[txn'[d].xid] = "in_progress"
    <3>1. \A d \in Sessions \ {c} : txn[d].xid \in Xids
      BY DEF IInv, TypeOK, Transaction
    <3> QED
      BY <1>2, <1>3, <1>5, <3>1 DEF IInv, Lifetime
  <2>2. \A x \in Ended' : active'[x] = NoTxn
    BY <1>4, <1>6 DEF IInv, Lifetime
  <2> QED
    BY <2>1, <2>2 DEF Lifetime
<1>12. Accounted'
  <2> SUFFICES ASSUME NEW x \in Xids, outcome'[x] = "in_progress", active'[x] = NoTxn
               PROVE  \E d \in Sessions : txn'[d].xid = x /\ pc'[d] \in {"allocated", "snapped"}
    BY DEF Accounted
  <2>1. CASE x = next_xid
    BY <1>3, <2>1
  <2>2. CASE x # next_xid
    <3>1. PICK d \in Sessions : txn[d].xid = x /\ pc[d] \in {"allocated", "snapped"}
      BY <1>4, <1>5, <2>2 DEF IInv, Accounted
    <3> QED
      BY <1>2, <1>4, <3>1
  <2> QED
    BY <2>1, <2>2
<1>13. SettledInv'
  <2> SUFFICES ASSUME NEW d \in Sessions, pc'[d] # "idle"
               PROVE  /\ settled'[d] \subseteq Ended'
                      /\ \A x \in settled'[d] : x < txn'[d].xid
                      /\ \A s \in Snapshots(d)' :
                           s.xid = txn'[d].xid /\ s.active_xids \cap settled'[d] = {}
    BY DEF SettledInv
  <2>1. CASE d = c
    <3>1. \A x \in Ended : x <= begins
      BY DEF Ended, IInv, HandedOut
    <3>2. \A x \in Ended : x < next_xid
      BY <1>1, <3>1 DEF Ended, Xids
    <3>3. Snapshots(d)' = {}
      BY <1>3, <2>1 DEF Snapshots
    <3> QED
      BY <1>3, <1>6, <2>1, <3>2, <3>3
  <2>2. CASE d # c
    <3>1. Snapshots(d)' = Snapshots(d)
      BY <1>2, <2>2 DEF Snapshots
    <3> QED
      BY <1>2, <1>6, <2>2, <3>1 DEF IInv, SettledInv
  <2> QED
    BY <2>1, <2>2
<1> QED
  BY <1>7, <1>8, <1>9, <1>10, <1>11, <1>12, <1>13 DEF IInv

(* begin's create_snapshot keeps the inductive invariant. *)
LEMMA SnapshotKeeps ==
  ASSUME IInv, TypeOK', NEW c \in Sessions, BeginSnapshot(c)
  PROVE  IInv'
<1> USE TransactionConstants
<1>1. \A d \in Sessions \ {c} : txn'[d] = txn[d] /\ pc'[d] = pc[d]
  BY DEF IInv, TypeOK, BeginSnapshot
<1>2. /\ txn'[c].xid = txn[c].xid /\ pc[c] = "allocated" /\ pc'[c] = "snapped"
      /\ txn'[c].snapshot \in {NoSnapshot, create_snapshot(txn[c].xid)}
  BY DEF IInv, TypeOK, BeginSnapshot, Transaction
<1>3. UNCHANGED <<next_xid, active, statement, begins, outcome, settled>> /\ Ended' = Ended
  BY DEF BeginSnapshot, Ended
<1>4. \A d \in Sessions : txn'[d].xid = txn[d].xid /\ (pc'[d] # "idle" <=> pc[d] # "idle")
  BY <1>1, <1>2
<1>5. Counted'
  BY <1>3 DEF IInv, Counted
<1>6. HandedOut'
  BY <1>3, <1>4 DEF IInv, HandedOut
<1>7. XidsUnique'
  BY <1>4 DEF IInv, XidsUnique
<1>8. EndFindsTransaction'
  BY <1>1, <1>2, <1>3 DEF IInv, EndFindsTransaction
<1>9. Lifetime'
  BY <1>3, <1>4 DEF IInv, Lifetime
<1>10. Accounted'
  <2>1. \A d \in Sessions :
          pc[d] \in {"allocated", "snapped"} => pc'[d] \in {"allocated", "snapped"}
    BY <1>1, <1>2
  <2> QED
    BY <1>3, <1>4, <2>1 DEF IInv, Accounted
<1>11. SettledInv'
  <2> SUFFICES ASSUME NEW d \in Sessions, pc'[d] # "idle"
               PROVE  /\ settled'[d] \subseteq Ended'
                      /\ \A x \in settled'[d] : x < txn'[d].xid
                      /\ \A s \in Snapshots(d)' :
                           s.xid = txn'[d].xid /\ s.active_xids \cap settled'[d] = {}
    BY DEF SettledInv
  <2>1. settled'[d] \subseteq Ended' /\ \A x \in settled'[d] : x < txn'[d].xid
    BY <1>3, <1>4 DEF IInv, SettledInv
  <2>2. ASSUME NEW s \in Snapshots(d)'
        PROVE  s.xid = txn'[d].xid /\ s.active_xids \cap settled'[d] = {}
    <3>1. CASE s \in Snapshots(d)
      BY <1>3, <1>4, <3>1 DEF IInv, SettledInv
    <3>2. CASE s \notin Snapshots(d)
      <4>1. d = c /\ s = create_snapshot(txn[c].xid)
        BY <1>1, <1>2, <1>3, <2>2, <3>2 DEF Snapshots
      <4>2. ActiveXids \cap settled[d] = {}
        BY <1>4 DEF ActiveXids, IInv, SettledInv, Lifetime
      <4> QED
        BY <1>3, <1>4, <4>1, <4>2 DEF create_snapshot
    <3> QED
      BY <3>1, <3>2
  <2> QED
    BY <2>1, <2>2
<1> QED
  BY <1>5, <1>6, <1>7, <1>8, <1>9, <1>10, <1>11 DEF IInv

(* begin's insertion into the map keeps the inductive invariant. *)
LEMMA InsertKeeps ==
  ASSUME IInv, TypeOK', NEW c \in Sessions, BeginInsert(c)
  PROVE  IInv'
<1> USE TransactionConstants
<1>1. \A d \in Sessions \ {c} : pc'[d] = pc[d]
  BY DEF IInv, TypeOK, BeginInsert
<1>2. /\ pc[c] = "snapped" /\ pc'[c] = "open"
      /\ txn[c] \in Transaction /\ txn[c].xid \in Xids /\ txn[c] # NoTxn
  BY DEF IInv, TypeOK, BeginInsert, Transaction
<1>3. UNCHANGED <<next_xid, txn, statement, begins, outcome, settled>> /\ Ended' = Ended
  BY DEF BeginInsert, Ended
<1>4. /\ active'[txn[c].xid] = txn[c]
      /\ \A x \in Xids \ {txn[c].xid} : active'[x] = active[x]
  BY <1>2 DEF IInv, TypeOK, BeginInsert
<1>5. \A d \in Sessions : pc'[d] # "idle" <=> pc[d] # "idle"
  BY <1>1, <1>2
<1>6. Counted'
  BY <1>3 DEF IInv, Counted
<1>7. HandedOut'
  <2>1. \A x \in Xids : active'[x] # NoTxn => x <= begins
    BY <1>2, <1>4 DEF IInv, HandedOut
  <2> QED
    BY <1>3, <1>5, <2>1 DEF IInv, HandedOut
<1>8. XidsUnique'
  BY <1>3, <1>5 DEF IInv, XidsUnique
<1>9. EndFindsTransaction'
  <2>1. \A d \in Sessions \ {c} : pc[d] = "open" => txn[d].xid # txn[c].xid
    BY <1>2 DEF IInv, XidsUnique
  <2>2. \A d \in Sessions : txn[d].xid \in Xids
    BY DEF IInv, TypeOK, Transaction
  <2> QED
    BY <1>1, <1>3, <1>4, <2>1, <2>2 DEF IInv, EndFindsTransaction
<1>10. Lifetime'
  <2>1. txn[c].xid \notin Ended
    BY <1>2 DEF IInv, Lifetime, Ended
  <2>2. \A x \in Ended : active'[x] = NoTxn
    BY <1>4, <2>1 DEF IInv, Lifetime, Ended
  <2> QED
    BY <1>3, <1>5, <2>2 DEF IInv, Lifetime
<1>11. Accounted'
  <2> SUFFICES ASSUME NEW x \in Xids, outcome'[x] = "in_progress", active'[x] = NoTxn
               PROVE  \E d \in Sessions : txn'[d].xid = x /\ pc'[d] \in {"allocated", "snapped"}
    BY DEF Accounted
  <2>1. x # txn[c].xid /\ active[x] = NoTxn
    BY <1>2, <1>4
  <2>2. PICK d \in Sessions : txn[d].xid = x /\ pc[d] \in {"allocated", "snapped"}
    BY <1>3, <2>1 DEF IInv, Accounted
  <2> QED
    BY <1>1, <1>3, <2>1, <2>2
<1>12. SettledInv'
  <2>1. \A d \in Sessions : Snapshots(d)' = Snapshots(d)
    BY <1>3 DEF Snapshots
  <2> QED
    BY <1>3, <1>5, <2>1 DEF IInv, SettledInv
<1> QED
  BY <1>6, <1>7, <1>8, <1>9, <1>10, <1>11, <1>12 DEF IInv

(* A statement's snapshot keeps the inductive invariant. *)
LEMMA StatementKeeps ==
  ASSUME IInv, TypeOK', NEW c \in Sessions, Statement(c)
  PROVE  IInv'
<1> USE TransactionConstants
<1>1. UNCHANGED <<next_xid, active, pc, txn, begins, outcome, settled>> /\ Ended' = Ended
  BY DEF Statement, Ended
<1>2. /\ pc[c] = "open"
      /\ statement'[c] = create_snapshot(txn[c].xid)
      /\ \A d \in Sessions \ {c} : statement'[d] = statement[d]
  BY DEF IInv, TypeOK, Statement
<1>3. Counted' /\ HandedOut' /\ XidsUnique' /\ EndFindsTransaction'
  BY <1>1 DEF IInv, Counted, HandedOut, XidsUnique, EndFindsTransaction
<1>4. Lifetime' /\ Accounted'
  BY <1>1 DEF IInv, Lifetime, Accounted
<1>5. SettledInv'
  <2> SUFFICES ASSUME NEW d \in Sessions, pc'[d] # "idle"
               PROVE  /\ settled'[d] \subseteq Ended'
                      /\ \A x \in settled'[d] : x < txn'[d].xid
                      /\ \A s \in Snapshots(d)' :
                           s.xid = txn'[d].xid /\ s.active_xids \cap settled'[d] = {}
    BY DEF SettledInv
  <2>1. settled'[d] \subseteq Ended' /\ \A x \in settled'[d] : x < txn'[d].xid
    BY <1>1 DEF IInv, SettledInv
  <2>2. ASSUME NEW s \in Snapshots(d)'
        PROVE  s.xid = txn'[d].xid /\ s.active_xids \cap settled'[d] = {}
    <3>1. CASE s \in Snapshots(d)
      BY <1>1, <3>1 DEF IInv, SettledInv
    <3>2. CASE s \notin Snapshots(d)
      <4>1. d = c /\ s = create_snapshot(txn[c].xid)
        BY <1>1, <1>2, <2>2, <3>2 DEF Snapshots
      <4>2. ActiveXids \cap settled[d] = {}
        BY <1>1 DEF ActiveXids, IInv, SettledInv, Lifetime
      <4> QED
        BY <1>1, <4>1, <4>2 DEF create_snapshot
    <3> QED
      BY <3>1, <3>2
  <2> QED
    BY <2>1, <2>2
<1> QED
  BY <1>3, <1>4, <1>5 DEF IInv

(* commit and rollback keep the inductive invariant. *)
LEMMA EndKeeps ==
  ASSUME IInv, TypeOK', NEW c \in Sessions, NEW how \in {"committed", "aborted"},
         End(c, how)
  PROVE  IInv'
<1> USE TransactionConstants
<1>1. /\ pc[c] = "open" /\ pc'[c] = "idle"
      /\ \A d \in Sessions \ {c} : pc'[d] = pc[d]
  BY DEF IInv, TypeOK, End
<1>2. UNCHANGED <<next_xid, txn, statement, begins, settled>>
  BY DEF End
<1>3. txn[c].xid \in Xids /\ active[txn[c].xid] # NoTxn
  BY <1>1 DEF IInv, EndFindsTransaction, TypeOK, Transaction
<1>4. /\ active'[txn[c].xid] = NoTxn /\ outcome'[txn[c].xid] = how
      /\ \A x \in Xids \ {txn[c].xid} : active'[x] = active[x] /\ outcome'[x] = outcome[x]
  BY <1>3 DEF IInv, TypeOK, End
<1>5. \A d \in Sessions \ {c} :
        pc[d] # "idle" => txn[d].xid # txn[c].xid /\ txn[d].xid \in Xids
  BY <1>1 DEF IInv, XidsUnique, TypeOK, Transaction
<1>6. Ended' = Ended \cup {txn[c].xid}
  BY <1>3, <1>4 DEF Ended
<1>7. Counted'
  BY <1>2 DEF IInv, Counted
<1>8. HandedOut'
  <2>1. txn[c].xid <= begins
    BY <1>1 DEF IInv, HandedOut
  <2> QED
    BY <1>1, <1>2, <1>4, <2>1 DEF IInv, HandedOut
<1>9. XidsUnique' /\ EndFindsTransaction'
  BY <1>1, <1>2, <1>4, <1>5 DEF IInv, XidsUnique, EndFindsTransaction
<1>10. Lifetime'
  <2>1. \A d \in Sessions : pc'[d] # "idle" => outcome'[txn'[d].xid] = "in_progress"
    BY <1>1, <1>2, <1>4, <1>5 DEF IInv, Lifetime
  <2>2. \A x \in Ended' : active'[x] = NoTxn
    BY <1>4, <1>6 DEF IInv, Lifetime, Ended
  <2> QED
    BY <2>1, <2>2 DEF Lifetime
<1>11. Accounted'
  <2> SUFFICES ASSUME NEW x \in Xids, outcome'[x] = "in_progress", active'[x] = NoTxn
               PROVE  \E d \in Sessions : txn'[d].xid = x /\ pc'[d] \in {"allocated", "snapped"}
    BY DEF Accounted
  <2>1. x # txn[c].xid
    BY <1>4
  <2>2. PICK d \in Sessions : txn[d].xid = x /\ pc[d] \in {"allocated", "snapped"}
    BY <1>4, <2>1 DEF IInv, Accounted
  <2> QED
    BY <1>1, <1>2, <2>2
<1>12. SettledInv'
  <2>1. \A d \in Sessions : Snapshots(d)' = Snapshots(d)
    BY <1>2 DEF Snapshots
  <2> QED
    BY <1>1, <1>2, <1>6, <2>1 DEF IInv, SettledInv
<1> QED
  BY <1>7, <1>8, <1>9, <1>10, <1>11, <1>12 DEF IInv

(* A session that goes away keeps the inductive invariant. *)
LEMMA AbandonKeeps ==
  ASSUME IInv, TypeOK', NEW c \in Sessions, Abandon(c)
  PROVE  IInv'
<1>1. /\ pc[c] = "open" /\ pc'[c] = "idle"
      /\ \A d \in Sessions \ {c} : pc'[d] = pc[d]
  BY DEF IInv, TypeOK, Abandon
<1>2. UNCHANGED <<next_xid, active, txn, statement, begins, outcome, settled>> /\ Ended' = Ended
  BY DEF Abandon, Ended
<1>3. Counted' /\ HandedOut' /\ XidsUnique' /\ EndFindsTransaction' /\ Lifetime'
  BY <1>1, <1>2 DEF IInv, Counted, HandedOut, XidsUnique, EndFindsTransaction, Lifetime
<1>4. Accounted'
  BY <1>1, <1>2 DEF IInv, Accounted
<1>5. SettledInv'
  <2>1. \A d \in Sessions : Snapshots(d)' = Snapshots(d)
    BY <1>2 DEF Snapshots
  <2> QED
    BY <1>1, <1>2, <2>1 DEF IInv, SettledInv
<1> QED
  BY <1>3, <1>4, <1>5 DEF IInv

(* The inductive invariant holds initially and every step keeps it.        *)
LEMMA IInvInit == Init => IInv
<1> SUFFICES ASSUME Init PROVE IInv
  OBVIOUS
<1> USE TransactionConstants
<1>1. TypeOK
  BY DEF Init, TypeOK, NoTransaction, Transaction, Xids, IsolationLevel
<1>2. Ended = {}
  BY DEF Init, Ended
<1> QED
  BY <1>1, <1>2 DEF Init, IInv, Counted, HandedOut, XidsUnique, EndFindsTransaction,
     Lifetime, Accounted, SettledInv

(* Every step keeps the inductive invariant. *)
LEMMA IInvStep == ASSUME NoWraparound PROVE IInv /\ [Next]_vars => IInv'
<1> SUFFICES ASSUME IInv, [Next]_vars PROVE IInv'
  OBVIOUS
<1>1. TypeOK'
  BY TypeOKStep DEF IInv
<1>2. CASE UNCHANGED vars
  <2>1. Ended' = Ended /\ \A d \in Sessions : Snapshots(d)' = Snapshots(d)
    BY <1>2 DEF vars, Ended, Snapshots
  <2>2. SettledInv'
    BY <1>2, <2>1 DEF vars, IInv, SettledInv
  <2> QED
    BY <1>1, <1>2, <2>1, <2>2 DEF vars, IInv, Counted, HandedOut, XidsUnique,
       EndFindsTransaction, Lifetime, Accounted
<1> QED
  BY <1>1, <1>2, AllocateKeeps, SnapshotKeeps, InsertKeeps, StatementKeeps, EndKeeps,
     AbandonKeeps DEF Next, Act, Rest, commit, rollback

------------------------------------------------------------------------------
(* As long as fewer transactions begin than there are xids, two            *)
(* transactions in progress have different xids, and a session's commit or *)
(* rollback finds its entry in active.                                     *)
THEOREM XidsAreUnique == ASSUME NoWraparound PROVE Spec => []XidsUnique
<1>1. IInv => XidsUnique
  BY DEF IInv
<1> QED
  BY IInvInit, IInvStep, <1>1, PTL DEF Spec

(* commit and rollback of a session's transaction always find it in the map,
   so their "not found" error (EndFindsTransaction) is unreachable. *)
THEOREM EndNeverFails == ASSUME NoWraparound PROVE Spec => []EndFindsTransaction
<1>1. IInv => EndFindsTransaction
  BY DEF IInv
<1> QED
  BY IInvInit, IInvStep, <1>1, PTL DEF Spec

(* Both together: a transaction is ended once, and by its own session.     *)
THEOREM EndedByItsOwn == ASSUME NoWraparound PROVE Spec => []EndsOnce
<1>1. IInv => EndsOnce
  BY DEF IInv, EndsOnce
<1> QED
  BY IInvInit, IInvStep, <1>1, PTL DEF Spec

(* Every snapshot sees what had ended before its transaction's begin.      *)
THEOREM EndedBeforeSeen == ASSUME NoWraparound PROVE Spec => []EndedBeforeIsSeen
<1>1. IInv => EndedBeforeIsSeen
  <2> SUFFICES ASSUME IInv, NEW c \in Sessions, pc[c] # "idle",
                      NEW s \in Snapshots(c), NEW x \in settled[c]
               PROVE  Sees(s, x)
    BY DEF EndedBeforeIsSeen, Snapshots
  <2> QED
    BY DEF IInv, SettledInv, Sees
<1> QED
  BY IInvInit, IInvStep, <1>1, PTL DEF Spec

(* A statement's snapshot takes a running transaction for committed only if*)
(* that transaction is in its begin and not yet in active: the begin window*)
(* is the only way to a dirty snapshot.                                    *)
THEOREM DirtyOnlyInWindow == ASSUME NoWraparound PROVE Spec => DirtyOnlyInBeginWindow
<1> DEFINE Clean ==
      \A c \in Sessions :
       (statement'[c] # statement[c] /\ statement'[c] # NoSnapshot) =>
         \A x \in Xids :
           (outcome[x] = "in_progress" /\ Sees(statement'[c], x)) =>
             \E d \in Sessions : txn[d].xid = x /\ pc[d] \in {"allocated", "snapped"}
<1>1. IInv /\ [Next]_vars => [Clean]_vars
  <2> SUFFICES ASSUME IInv, Next PROVE Clean
    OBVIOUS
  <2>1. ASSUME NEW c \in Sessions, statement'[c] # statement[c], statement'[c] # NoSnapshot
        PROVE  statement'[c] = create_snapshot(txn[c].xid)
    BY <2>1 DEF Next, Act, Rest, vars, BeginAllocate, BeginSnapshot, BeginInsert, Statement,
       commit, rollback, End, Abandon, IInv, TypeOK
  <2>2. ASSUME NEW c \in Sessions, statement'[c] = create_snapshot(txn[c].xid),
               NEW x \in Xids, outcome[x] = "in_progress", Sees(statement'[c], x)
        PROVE  active[x] = NoTxn
    BY <2>2 DEF Sees, create_snapshot, ActiveXids
  <2> QED
    BY <2>1, <2>2 DEF IInv, Accounted
<1> QED
  BY IInvInit, IInvStep, <1>1, PTL DEF Spec, DirtyOnlyInBeginWindow
==============================================================================
