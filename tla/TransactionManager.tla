-------------------------- MODULE TransactionManager --------------------------
(***************************************************************************)
(* The transaction manager of src/src/transaction/mod.rs, used by several  *)
(* sessions at once.                                                       *)
(*                                                                         *)
(* begin is three steps: the atomic fetch_add on next_xid, the snapshot    *)
(* taken under the read lock of active, and the insertion into active under*)
(* its write lock.  Another session can do anything in between.  A         *)
(* statement takes a fresh snapshot under the read lock, and commit and    *)
(* rollback are one write-locked step each.                                *)
(***************************************************************************)
EXTENDS Naturals, FiniteSets

CONSTANTS
  Sessions,     \* sessions, each running one transaction at a time
  Levels,       \* isolation levels they ask for, a subset of IsolationLevel
  XidLimit,     \* 2^32 in the code: next_xid is an AtomicU32 and wraps
  MaxBegins,    \* bound: transactions begun in all
  NoTxn,        \* xid not in active
  NoSnapshot    \* no snapshot taken

IsolationLevel ==
  {"ReadUncommitted", "ReadCommitted", "RepeatableRead", "Serializable"}

Xids == 0 .. XidLimit - 1

Snapshot == [xid : Xids, active_xids : SUBSET Xids]

Transaction ==
  [xid : Xids, isolation : IsolationLevel, snapshot : Snapshot \cup {NoSnapshot}]

ASSUME TransactionConstants ==
  /\ Levels \subseteq IsolationLevel
  /\ XidLimit \in Nat \ {0, 1}
  /\ MaxBegins \in Nat
  /\ NoTxn \notin Transaction
  /\ NoSnapshot \notin Snapshot

VARIABLES
  next_xid,     \* the next transaction id
  active,       \* xid -> the registered transaction
  pc,           \* session -> where it is
  txn,          \* session -> its transaction
  statement,    \* session -> the snapshot of its latest statement
  begins,       \* transactions begun so far
  outcome,      \* history: xid -> what became of it
  settled       \* history: session -> the xids ended before its begin was called

vars == <<next_xid, active, pc, txn, statement, begins, outcome, settled>>

NoTransaction == [xid |-> 0, isolation |-> "ReadCommitted", snapshot |-> NoSnapshot]

(* The keys of the active map. *)
ActiveXids == {x \in Xids : active[x] # NoTxn}

Ended == {x \in Xids : outcome[x] \in {"committed", "aborted"}}

(* Mutant of create_snapshot: only the transactions from x on are listed.  *)
create_snapshot_newer(x) ==
  [xid |-> x, active_xids |-> {y \in ActiveXids : y >= x}]

create_snapshot(x) == [xid |-> x, active_xids |-> ActiveXids]

(* Whether a snapshot takes the work of transaction x for committed: what  *)
(* Snapshot::is_visible and the scans' is_visible ask of an xmin.          *)
Sees(s, x) == x < s.xid /\ x \notin s.active_xids

Init ==
  /\ next_xid = 1
  /\ active = [x \in Xids |-> NoTxn]
  /\ pc = [c \in Sessions |-> "idle"]
  /\ txn = [c \in Sessions |-> NoTransaction]
  /\ statement = [c \in Sessions |-> NoSnapshot]
  /\ begins = 0
  /\ outcome = [x \in Xids |-> "unused"]
  /\ settled = [c \in Sessions |-> {}]

------------------------------------------------------------------------------
(* begin *)

BeginAllocate(c, level) ==
  /\ pc[c] = "idle"
  /\ begins < MaxBegins
  /\ begins' = begins + 1
  /\ txn' = [txn EXCEPT ![c] =
               [xid |-> next_xid, isolation |-> level, snapshot |-> NoSnapshot]]
  /\ next_xid' = (next_xid + 1) % XidLimit
  /\ outcome' = [outcome EXCEPT ![next_xid] = "in_progress"]
  /\ settled' = [settled EXCEPT ![c] = Ended]
  /\ statement' = [statement EXCEPT ![c] = NoSnapshot]
  /\ pc' = [pc EXCEPT ![c] = "allocated"]
  /\ UNCHANGED active

(* The snapshot is taken at every level and kept at two of them.           *)
BeginSnapshot(c) ==
  /\ pc[c] = "allocated"
  /\ txn' = [txn EXCEPT ![c].snapshot =
               IF txn[c].isolation \in {"RepeatableRead", "Serializable"}
               THEN create_snapshot(txn[c].xid)
               ELSE NoSnapshot]
  /\ pc' = [pc EXCEPT ![c] = "snapped"]
  /\ UNCHANGED <<next_xid, active, statement, begins, outcome, settled>>

BeginInsert(c) ==
  /\ pc[c] = "snapped"
  /\ active' = [active EXCEPT ![txn[c].xid] = txn[c]]
  /\ pc' = [pc EXCEPT ![c] = "open"]
  /\ UNCHANGED <<next_xid, txn, statement, begins, outcome, settled>>

------------------------------------------------------------------------------
(* A SELECT reads with get_snapshot_for_statement, whatever the level.     *)
Statement(c) ==
  /\ pc[c] = "open"
  /\ statement' = [statement EXCEPT ![c] = create_snapshot(txn[c].xid)]
  /\ UNCHANGED <<next_xid, active, pc, txn, begins, outcome, settled>>

(* Mutant of End: the entry stays in the active map.                       *)
EndKeepsEntry(c, how) ==
  /\ pc[c] = "open"
  /\ outcome' = [outcome EXCEPT ![txn[c].xid] = how]
  /\ pc' = [pc EXCEPT ![c] = "idle"]
  /\ UNCHANGED <<next_xid, active, txn, statement, begins, settled>>

(* Mutant of End: commit drops every entry up to its own, not one entry.   *)
EndDropsOlder(c, how) ==
  /\ pc[c] = "open"
  /\ active' = [x \in Xids |-> IF x <= txn[c].xid THEN NoTxn ELSE active[x]]
  /\ outcome' = [outcome EXCEPT ![txn[c].xid] = how]
  /\ pc' = [pc EXCEPT ![c] = "idle"]
  /\ UNCHANGED <<next_xid, txn, statement, begins, settled>>

(* commit and rollback differ only in the state they set on the entry they *)
(* are about to remove.  An xid without an entry is an error, which the    *)
(* server ignores: its session is done with the transaction all the same.  *)
End(c, how) ==
  /\ pc[c] = "open"
  /\ active' = [active EXCEPT ![txn[c].xid] = NoTxn]
  /\ outcome' = [outcome EXCEPT ![txn[c].xid] =
                   IF active[txn[c].xid] # NoTxn THEN how ELSE @]
  /\ pc' = [pc EXCEPT ![c] = "idle"]
  /\ UNCHANGED <<next_xid, txn, statement, begins, settled>>

commit(c) == End(c, "committed")

rollback(c) == End(c, "aborted")

(* The connection ends, or begins another transaction, with its            *)
(* transaction open: the entry stays in the active map.                    *)
Abandon(c) ==
  /\ pc[c] = "open"
  /\ pc' = [pc EXCEPT ![c] = "idle"]
  /\ UNCHANGED <<next_xid, active, txn, statement, begins, outcome, settled>>

------------------------------------------------------------------------------
Act(c) ==
  \/ \E level \in Levels : BeginAllocate(c, level)
  \/ BeginSnapshot(c)
  \/ BeginInsert(c)
  \/ Statement(c)
  \/ commit(c)
  \/ rollback(c)
  \/ Abandon(c)

(* The bound on transactions is used up and no session has one.            *)
Rest == begins = MaxBegins /\ (\A c \in Sessions : pc[c] = "idle") /\ UNCHANGED vars

Next == (\E c \in Sessions : Act(c)) \/ Rest

Spec == Init /\ [][Next]_vars

------------------------------------------------------------------------------
(* The maps, the counter and the sessions' transactions have their types;  *)
(* the counter stays inside 32 bits by wrapping.                           *)
TypeOK ==
  /\ next_xid \in Xids
  /\ active \in [Xids -> Transaction \cup {NoTxn}]
  /\ pc \in [Sessions -> {"idle", "allocated", "snapped", "open"}]
  /\ txn \in [Sessions -> Transaction]
  /\ statement \in [Sessions -> Snapshot \cup {NoSnapshot}]
  /\ begins \in 0 .. MaxBegins
  /\ outcome \in [Xids -> {"unused", "in_progress", "committed", "aborted"}]
  /\ settled \in [Sessions -> SUBSET Xids]

(* Two transactions in progress never have the same xid: fetch_add hands   *)
(* every begin a value of its own.                                         *)
XidsUnique ==
  \A c, d \in Sessions :
    (c # d /\ pc[c] # "idle" /\ pc[d] # "idle") => txn[c].xid # txn[d].xid

(* commit and rollback never fail with "Transaction not found": from the   *)
(* return of begin to the end, the session's own entry is in active.       *)
EndFindsTransaction ==
  \A c \in Sessions : pc[c] = "open" => active[txn[c].xid] = txn[c]

(* Every transaction is ended by its own session and by no other: no two   *)
(* in progress share an xid, and commit and rollback find the entry that   *)
(* begin made, whatever the other sessions ended in the meantime.          *)
EndsOnce == XidsUnique /\ EndFindsTransaction

(* A transaction that ended before another one's begin was called is taken *)
(* for ended by every snapshot of the latter: its entry is gone for good   *)
(* and its xid is the smaller one.                                         *)
EndedBeforeIsSeen ==
  \A c \in Sessions :
    (pc[c] # "idle") =>
      \A s \in {txn[c].snapshot, statement[c]} \ {NoSnapshot} :
        \A x \in settled[c] : Sees(s, x)

(* A snapshot takes a transaction that is still running for committed only *)
(* in the window of that transaction's begin, before it is in active.      *)
DirtyOnlyInBeginWindow ==
  [][\A c \in Sessions :
       (statement'[c] # statement[c] /\ statement'[c] # NoSnapshot) =>
         \A x \in Xids :
           (outcome[x] = "in_progress" /\ Sees(statement'[c], x)) =>
             \E d \in Sessions : txn[d].xid = x /\ pc[d] \in {"allocated", "snapped"}]_vars

(* "All four isolation levels": at RepeatableRead and Serializable, every  *)
(* statement of a transaction sees what the one before it saw.             *)
RepeatableReads ==
  [][\A c \in Sessions :
       (/\ pc[c] = "open"
        /\ txn[c].isolation \in {"RepeatableRead", "Serializable"}
        /\ statement[c] # NoSnapshot) =>
         \A x \in Xids : Sees(statement'[c], x) <=> Sees(statement[c], x)]_vars
==============================================================================
