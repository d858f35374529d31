----------------------------- MODULE LockManager -----------------------------
(***************************************************************************)
(* The lock manager of src/src/transaction/locks.rs: table locks, row      *)
(* locks and advisory locks, and the wait queue that detect_deadlock reads.*)
(*                                                                         *)
(* Every map sits behind a mutex of its own, so a call is one step per     *)
(* critical section.  A granted call is one step; a refused table or row   *)
(* call is two, because the request is pushed on the wait queue only after *)
(* the mutex of the lock map has been dropped.                             *)
(*                                                                         *)
(* Table and row entries are only ever tested for existence and removed    *)
(* all at once per holder, so a Vec of entries is a set here; the wait     *)
(* queue is scanned as a whole and never popped, so it is a set as well.   *)
(* Advisory entries are released one by one, the holder's oldest first, so *)
(* they are one sequence of modes per holder.                              *)
(***************************************************************************)
EXTENDS Naturals, Sequences, FiniteSets

CONSTANTS
  Xids,          \* transactions that call the lock manager
  Relations,     \* relation oids
  Rows,          \* (relation oid, page id, tuple offset) keys
  Keys,          \* advisory lock keys
  TableModes,    \* modes the callers pass to acquire_table_lock
  RowModes,      \* modes the callers pass to acquire_row_lock
  MaxAdvisory,   \* bound: entries of one holder on one advisory key
  NoRequest      \* "no refused request outstanding"

LockMode == {"AccessShare", "RowShare", "RowExclusive", "ShareUpdateExclusive",
             "Share", "ShareRowExclusive", "Exclusive", "AccessExclusive",
             "ForUpdate", "ForShare", "ForNoKeyUpdate", "ForKeyShare"}

is_table_lock(m) ==
  m \notin {"ForUpdate", "ForShare", "ForNoKeyUpdate", "ForKeyShare"}

AdvisoryLockMode == {"Exclusive", "Shared"}

LockEntry == [holder : Xids, mode : LockMode]
LockRequest == [xid : Xids, mode : LockMode, target : Relations \cup Rows]

ASSUME LockConstants ==
  /\ Relations \cap Rows = {}
  /\ TableModes \subseteq {m \in LockMode : is_table_lock(m)}
  /\ RowModes \subseteq {m \in LockMode : ~ is_table_lock(m)}
  /\ NoRequest \notin LockRequest
  /\ MaxAdvisory \in Nat

(* The arms of conflicts_with, each unordered pair written once.  A table  *)
(* mode is never in conflict with itself: the code has no such arm.        *)
ConflictArms ==
  [AccessShare          |-> {"Exclusive", "AccessExclusive"},
   RowShare             |-> {"RowExclusive", "ShareUpdateExclusive",
                             "Exclusive", "AccessExclusive"},
   RowExclusive         |-> {"ShareUpdateExclusive", "Share",
                             "ShareRowExclusive", "Exclusive",
                             "AccessExclusive"},
   ShareUpdateExclusive |-> {"Share", "ShareRowExclusive", "Exclusive",
                             "AccessExclusive"},
   Share                |-> {"ShareRowExclusive", "Exclusive",
                             "AccessExclusive"},
   ShareRowExclusive    |-> {"Exclusive", "AccessExclusive"},
   Exclusive            |-> {"AccessExclusive"},
   AccessExclusive      |-> {},
   ForUpdate            |-> {"ForUpdate", "ForShare", "ForNoKeyUpdate",
                             "ForKeyShare"},
   ForShare             |-> {"ForNoKeyUpdate", "ForKeyShare"},
   ForNoKeyUpdate       |-> {"ForNoKeyUpdate"},
   ForKeyShare          |-> {}]

conflicts_with(m, other) ==
  other \in ConflictArms[m] \/ m \in ConflictArms[other]

(* acquire_advisory_lock's match: only Shared against Shared is compatible.*)
advisory_conflict(m, other) == ~ (m = "Shared" /\ other = "Shared")

VARIABLES
  table_locks,     \* relation -> set of entries
  row_locks,       \* row key  -> set of entries
  wait_queue,      \* requests ever refused
  advisory_locks,  \* key -> holder -> sequence of modes
  refused          \* per transaction: NoRequest, or the request refused by
                   \* its last call, and whether it has been pushed yet

vars == <<table_locks, row_locks, wait_queue, advisory_locks, refused>>

Init ==
  /\ table_locks = [r \in Relations |-> {}]
  /\ row_locks = [k \in Rows |-> {}]
  /\ wait_queue = {}
  /\ advisory_locks = [k \in Keys |-> [x \in Xids |-> <<>>]]
  /\ refused = [x \in Xids |-> [req |-> NoRequest, pushed |-> FALSE]]

(* x is inside acquire_* between drop(locks) and wait_queue.lock().        *)
Pushing(x) == refused[x].req # NoRequest /\ ~ refused[x].pushed

(* x's last table or row call was refused and x has done nothing since.    *)
Waiting(x) == refused[x].req # NoRequest /\ refused[x].pushed

Proceed(x) ==
  refused' = [refused EXCEPT ![x] = [req |-> NoRequest, pushed |-> FALSE]]

(* Mutant of Blocked: a transaction that already holds an entry skips the  *)
(* conflict check, as a re-entrancy shortcut would.                        *)
BlockedUnlessHolder(entries, x, m) ==
  /\ \A e \in entries : e.holder # x
  /\ \E e \in entries : conflicts_with(m, e.mode)

Blocked(entries, x, m) ==
  \E e \in entries : e.holder # x /\ conflicts_with(m, e.mode)

Without(entries, x) == {e \in entries : e.holder # x}

Refuse(x, m, target) ==
  refused' = [refused EXCEPT
    ![x] = [req |-> [xid |-> x, mode |-> m, target |-> target],
            pushed |-> FALSE]]

------------------------------------------------------------------------------
(* acquire_table_lock and release_table_lock *)

AcquireTableLock(x, r, m) ==
  /\ ~ Pushing(x)
  /\ ~ Blocked(table_locks[r], x, m)
  /\ table_locks' = [table_locks EXCEPT ![r] = @ \cup {[holder |-> x, mode |-> m]}]
  /\ Proceed(x)
  /\ UNCHANGED <<row_locks, wait_queue, advisory_locks>>

RefuseTableLock(x, r, m) ==
  /\ ~ Pushing(x)
  /\ Blocked(table_locks[r], x, m)
  /\ Refuse(x, m, r)
  /\ UNCHANGED <<table_locks, row_locks, wait_queue, advisory_locks>>

ReleaseTableLock(x, r) ==
  /\ ~ Pushing(x)
  /\ table_locks' = [table_locks EXCEPT ![r] = Without(@, x)]
  /\ Proceed(x)
  /\ UNCHANGED <<row_locks, wait_queue, advisory_locks>>

(* acquire_row_lock and release_row_lock *)

AcquireRowLock(x, k, m) ==
  /\ ~ Pushing(x)
  /\ ~ Blocked(row_locks[k], x, m)
  /\ row_locks' = [row_locks EXCEPT ![k] = @ \cup {[holder |-> x, mode |-> m]}]
  /\ Proceed(x)
  /\ UNCHANGED <<table_locks, wait_queue, advisory_locks>>

RefuseRowLock(x, k, m) ==
  /\ ~ Pushing(x)
  /\ Blocked(row_locks[k], x, m)
  /\ Refuse(x, m, k)
  /\ UNCHANGED <<table_locks, row_locks, wait_queue, advisory_locks>>

ReleaseRowLock(x, k) ==
  /\ ~ Pushing(x)
  /\ row_locks' = [row_locks EXCEPT ![k] = Without(@, x)]
  /\ Proceed(x)
  /\ UNCHANGED <<table_locks, wait_queue, advisory_locks>>

(* Mutant of PushRequest: the request is dropped when the blocker has gone *)
(* by the time the queue is locked.                                        *)
PushRequestIfStillBlocked(x) ==
  /\ Pushing(x)
  /\ LET q == refused[x].req
         held == IF q.target \in Relations THEN table_locks[q.target]
                                           ELSE row_locks[q.target]
     IN  wait_queue' = IF Blocked(held, x, q.mode) THEN wait_queue \cup {q}
                                                  ELSE wait_queue
  /\ refused' = [refused EXCEPT ![x].pushed = TRUE]
  /\ UNCHANGED <<table_locks, row_locks, advisory_locks>>

(* The second critical section of a refused acquire: the request reaches   *)
(* the queue, whatever has become of the blocker since.                    *)
PushRequest(x) ==
  /\ Pushing(x)
  /\ wait_queue' = wait_queue \cup {refused[x].req}
  /\ refused' = [refused EXCEPT ![x].pushed = TRUE]
  /\ UNCHANGED <<table_locks, row_locks, advisory_locks>>

(* release_all_locks holds both mutexes to its end; it touches neither the *)
(* wait queue nor the advisory locks.                                      *)
ReleaseAllLocks(x) ==
  /\ ~ Pushing(x)
  /\ table_locks' = [r \in Relations |-> Without(table_locks[r], x)]
  /\ row_locks' = [k \in Rows |-> Without(row_locks[k], x)]
  /\ Proceed(x)
  /\ UNCHANGED <<wait_queue, advisory_locks>>

------------------------------------------------------------------------------
(* Advisory locks.  A refused call changes nothing. *)

(* Mutant of AdvisoryBlocked: whoever already holds the key gets it again. *)
AdvisoryBlockedUnlessHolder(k, x, m) ==
  /\ advisory_locks[k][x] = <<>>
  /\ \E y \in Xids \ {x} : \E i \in DOMAIN advisory_locks[k][y] :
       advisory_conflict(m, advisory_locks[k][y][i])

AdvisoryBlocked(k, x, m) ==
  \E y \in Xids \ {x} : \E i \in DOMAIN advisory_locks[k][y] :
    advisory_conflict(m, advisory_locks[k][y][i])

AcquireAdvisoryLock(x, k, m) ==
  /\ ~ Pushing(x)
  /\ ~ AdvisoryBlocked(k, x, m)
  /\ Len(advisory_locks[k][x]) < MaxAdvisory
  /\ advisory_locks' = [advisory_locks EXCEPT ![k][x] = Append(@, m)]
  /\ Proceed(x)
  /\ UNCHANGED <<table_locks, row_locks, wait_queue>>

(* position(|e| e.holder == xid) then remove: the oldest entry of x.       *)
ReleaseAdvisoryLock(x, k) ==
  /\ ~ Pushing(x)
  /\ advisory_locks[k][x] # <<>>
  /\ advisory_locks' = [advisory_locks EXCEPT ![k][x] = Tail(@)]
  /\ Proceed(x)
  /\ UNCHANGED <<table_locks, row_locks, wait_queue>>

ReleaseAllAdvisoryLocks(x) ==
  /\ ~ Pushing(x)
  /\ advisory_locks' = [k \in Keys |-> [advisory_locks[k] EXCEPT ![x] = <<>>]]
  /\ Proceed(x)
  /\ UNCHANGED <<table_locks, row_locks, wait_queue>>

------------------------------------------------------------------------------
Next ==
  \E x \in Xids :
    \/ \E r \in Relations, m \in TableModes :
         AcquireTableLock(x, r, m) \/ RefuseTableLock(x, r, m)
    \/ \E r \in Relations : ReleaseTableLock(x, r)
    \/ \E k \in Rows, m \in RowModes :
         AcquireRowLock(x, k, m) \/ RefuseRowLock(x, k, m)
    \/ \E k \in Rows : ReleaseRowLock(x, k)
    \/ PushRequest(x)
    \/ ReleaseAllLocks(x)
    \/ \E k \in Keys, m \in AdvisoryLockMode : AcquireAdvisoryLock(x, k, m)
    \/ \E k \in Keys : ReleaseAdvisoryLock(x, k)
    \/ ReleaseAllAdvisoryLocks(x)

Spec == Init /\ [][Next]_vars

------------------------------------------------------------------------------
(* detect_deadlock: the wait-for graph, built under all three mutexes, and *)
(* its verdict.  The depth-first search itself is module DeadlockDetector; *)
(* its verdict is "some set of transactions is closed under waiting".      *)

LocksOn(target) ==
  IF target \in Relations THEN table_locks[target] ELSE row_locks[target]

Blockers(req) ==
  {e.holder : e \in {f \in LocksOn(req.target) :
                       f.holder # req.xid /\ conflicts_with(req.mode, f.mode)}}

wait_for(x) == UNION {Blockers(req) : req \in {q \in wait_queue : q.xid = x}}

detect_deadlock ==
  \E C \in SUBSET Xids :
    /\ C # {}
    /\ \A x \in C : wait_for(x) \cap C # {}

(* C really is deadlocked: every member waits, in its last call, for a     *)
(* lock that another member holds.                                         *)
Deadlocked(C) ==
  /\ C # {}
  /\ \A x \in C : Waiting(x) /\ Blockers(refused[x].req) \cap C # {}

------------------------------------------------------------------------------
(* Every map holds entries of known transactions in known modes, and an    *)
(* outstanding refusal is the caller's own request.                        *)
TypeOK ==
  /\ table_locks \in [Relations -> SUBSET LockEntry]
  /\ row_locks \in [Rows -> SUBSET LockEntry]
  /\ wait_queue \subseteq LockRequest
  /\ advisory_locks \in [Keys -> [Xids -> Seq(AdvisoryLockMode)]]
  /\ refused \in [Xids -> [req : LockRequest \cup {NoRequest}, pushed : BOOLEAN]]
  /\ \A x \in Xids : refused[x].req # NoRequest => refused[x].req.xid = x

Compatible(entries) ==
  \A e, f \in entries :
    e.holder # f.holder => ~ conflicts_with(e.mode, f.mode)

(* Two different transactions never hold conflicting modes on one relation *)
(* or one row, however grants, upgrades of own locks and releases are      *)
(* interleaved (acquire_table_lock and acquire_row_lock skip the caller's  *)
(* own entries, so the check is against the others only).                  *)
NoConflictingHolders ==
  /\ \A r \in Relations : Compatible(table_locks[r])
  /\ \A k \in Rows : Compatible(row_locks[k])

(* While a transaction has an exclusive advisory entry on a key no other   *)
(* transaction has any entry there, also when the holder re-enters,        *)
(* upgrades from shared, or releases its entries one at a time.            *)
AdvisoryExclusion ==
  \A k \in Keys, x, y \in Xids :
    x # y => \A i \in DOMAIN advisory_locks[k][x], j \in DOMAIN advisory_locks[k][y] :
      ~ advisory_conflict(advisory_locks[k][x][i], advisory_locks[k][y][j])

(* Transactions that block one another, all of them refused and recorded,  *)
(* are always found by detect_deadlock, although requests reach the queue  *)
(* in a critical section later than the one that refused them.             *)
NoMissedDeadlock ==
  (\E C \in SUBSET Xids : Deadlocked(C)) => detect_deadlock
==============================================================================
