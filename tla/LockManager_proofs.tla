-------------------------- MODULE LockManager_proofs --------------------------
(* Theorems of LockManager for every set of transactions, relations, rows, *)
(* keys and modes.                                                         *)
EXTENDS LockManager, TLAPS

(* Every transaction that waits has its request on the wait queue; this is *)
(* what makes NoMissedDeadlock hold.                                       *)
WaitersQueued == \A x \in Xids : Waiting(x) => refused[x].req \in wait_queue

(* The conflict relation is symmetric, as the paired arms of conflicts_with*)
(* intend: a grant checked in one direction is safe in both.               *)
LEMMA ConflictSymmetric ==
  ASSUME NEW m, NEW o
  PROVE  conflicts_with(m, o) <=> conflicts_with(o, m)
  BY DEF conflicts_with

(* advisory_conflict is symmetric as well.                                 *)
LEMMA AdvisoryConflictSymmetric ==
  ASSUME NEW m, NEW o
  PROVE  advisory_conflict(m, o) <=> advisory_conflict(o, m)
  BY DEF advisory_conflict

------------------------------------------------------------------------------
(* Each lock-map operation keeps every map within its type; the requests   *)
(* that reach the queue are the callers' own.                              *)
LEMMA TypeOKStep == TypeOK /\ [Next]_vars => TypeOK'
<1> SUFFICES ASSUME TypeOK, [Next]_vars PROVE TypeOK'
  OBVIOUS
<1> USE LockConstants DEF TypeOK, LockEntry, LockRequest
<1>1. ASSUME NEW x \in Xids, Proceed(x)
      PROVE  /\ refused' \in [Xids -> [req : LockRequest \cup {NoRequest}, pushed : BOOLEAN]]
             /\ \A y \in Xids : refused'[y].req # NoRequest => refused'[y].req.xid = y
  BY <1>1 DEF Proceed
<1>2. ASSUME NEW x \in Xids, NEW m \in LockMode, NEW t \in Relations \cup Rows,
             Refuse(x, m, t)
      PROVE  /\ refused' \in [Xids -> [req : LockRequest \cup {NoRequest}, pushed : BOOLEAN]]
             /\ \A y \in Xids : refused'[y].req # NoRequest => refused'[y].req.xid = y
  BY <1>2 DEF Refuse
<1>3. TableModes \subseteq LockMode /\ RowModes \subseteq LockMode
  OBVIOUS
<1>4. CASE UNCHANGED vars
  BY <1>4 DEF vars
<1>5. ASSUME NEW x \in Xids, NEW r \in Relations, NEW m \in TableModes,
             AcquireTableLock(x, r, m)
      PROVE  TypeOK'
  BY <1>1, <1>3, <1>5 DEF AcquireTableLock
<1>6. ASSUME NEW x \in Xids, NEW r \in Relations, NEW m \in TableModes,
             RefuseTableLock(x, r, m)
      PROVE  TypeOK'
  BY <1>2, <1>3, <1>6 DEF RefuseTableLock
<1>7. ASSUME NEW x \in Xids, NEW r \in Relations, ReleaseTableLock(x, r)
      PROVE  TypeOK'
  BY <1>1, <1>7 DEF ReleaseTableLock, Without
<1>8. ASSUME NEW x \in Xids, NEW k \in Rows, NEW m \in RowModes,
             AcquireRowLock(x, k, m)
      PROVE  TypeOK'
  BY <1>1, <1>3, <1>8 DEF AcquireRowLock
<1>9. ASSUME NEW x \in Xids, NEW k \in Rows, NEW m \in RowModes,
             RefuseRowLock(x, k, m)
      PROVE  TypeOK'
  BY <1>2, <1>3, <1>9 DEF RefuseRowLock
<1>10. ASSUME NEW x \in Xids, NEW k \in Rows, ReleaseRowLock(x, k)
       PROVE  TypeOK'
  BY <1>1, <1>10 DEF ReleaseRowLock, Without
<1>11. ASSUME NEW x \in Xids, PushRequest(x) PROVE TypeOK'
  <2>1. refused[x].req \in LockRequest
    BY <1>11 DEF PushRequest, Pushing
  <2>2. wait_queue' \subseteq LockRequest
    BY <1>11, <2>1 DEF PushRequest
  <2>3. /\ refused' \in [Xids -> [req : LockRequest \cup {NoRequest}, pushed : BOOLEAN]]
        /\ \A y \in Xids : refused'[y].req = refused[y].req
    BY <1>11 DEF PushRequest
  <2> QED
    BY <1>11, <2>2, <2>3 DEF PushRequest
<1>12. ASSUME NEW x \in Xids, ReleaseAllLocks(x) PROVE TypeOK'
  BY <1>1, <1>12 DEF ReleaseAllLocks, Without
<1>13. ASSUME NEW x \in Xids, NEW k \in Keys, NEW m \in AdvisoryLockMode,
              AcquireAdvisoryLock(x, k, m)
       PROVE  TypeOK'
  BY <1>1, <1>13 DEF AcquireAdvisoryLock
<1>14. ASSUME NEW x \in Xids, NEW k \in Keys, ReleaseAdvisoryLock(x, k)
       PROVE  TypeOK'
  BY <1>1, <1>14 DEF ReleaseAdvisoryLock
<1>15. ASSUME NEW x \in Xids, ReleaseAllAdvisoryLocks(x) PROVE TypeOK'
  BY <1>1, <1>15 DEF ReleaseAllAdvisoryLocks
<1> QED
  BY <1>4, <1>5, <1>6, <1>7, <1>8, <1>9, <1>10, <1>11, <1>12, <1>13, <1>14,
     <1>15 DEF Next

(* The lock manager is type correct for every instance.                    *)
THEOREM TypeCorrect == Spec => []TypeOK
<1>1. Init => TypeOK
  BY LockConstants DEF Init, TypeOK
<1>2. QED
  BY <1>1, TypeOKStep, PTL DEF Spec

------------------------------------------------------------------------------
(* Adding an entry that the conflict check admitted keeps a set of entries *)
(* compatible; the check looks in one direction only, so this needs the    *)
(* symmetry of the conflict relation.                                      *)
LEMMA GrantKeepsCompatible ==
  ASSUME NEW entries, NEW x, NEW m, Compatible(entries), ~ Blocked(entries, x, m)
  PROVE  Compatible(entries \cup {[holder |-> x, mode |-> m]})
  BY ConflictSymmetric DEF Compatible, Blocked

(* Removing entries keeps the rest compatible.                             *)
LEMMA ReleaseKeepsCompatible ==
  ASSUME NEW entries, NEW x, Compatible(entries)
  PROVE  Compatible(Without(entries, x))
  BY DEF Compatible, Without

(* Each operation preserves NoConflictingHolders.                          *)
LEMMA HoldersStep == TypeOK /\ NoConflictingHolders /\ [Next]_vars => NoConflictingHolders'
<1> SUFFICES ASSUME TypeOK, NoConflictingHolders, [Next]_vars
             PROVE  NoConflictingHolders'
  OBVIOUS
<1>1. /\ table_locks \in [Relations -> SUBSET LockEntry]
      /\ row_locks \in [Rows -> SUBSET LockEntry]
  BY DEF TypeOK
<1>2. CASE UNCHANGED <<table_locks, row_locks>>
  BY <1>2 DEF NoConflictingHolders, Compatible
<1>3. ASSUME NEW x \in Xids, NEW r \in Relations, NEW m \in TableModes,
             AcquireTableLock(x, r, m)
      PROVE  NoConflictingHolders'
  <2>1. Compatible(table_locks[r] \cup {[holder |-> x, mode |-> m]})
    BY <1>3, GrantKeepsCompatible DEF AcquireTableLock, NoConflictingHolders
  <2>2. \A s \in Relations :
          table_locks'[s] = IF s = r THEN table_locks[r] \cup {[holder |-> x, mode |-> m]}
                                     ELSE table_locks[s]
    BY <1>1, <1>3 DEF AcquireTableLock
  <2>3. row_locks' = row_locks
    BY <1>3 DEF AcquireTableLock
  <2> QED
    BY <2>1, <2>2, <2>3 DEF NoConflictingHolders, Compatible
<1>4. ASSUME NEW x \in Xids, NEW r \in Relations, ReleaseTableLock(x, r)
      PROVE  NoConflictingHolders'
  <2>1. Compatible(Without(table_locks[r], x))
    BY ReleaseKeepsCompatible DEF NoConflictingHolders
  <2>2. \A s \in Relations :
          table_locks'[s] = IF s = r THEN Without(table_locks[r], x) ELSE table_locks[s]
    BY <1>1, <1>4 DEF ReleaseTableLock
  <2>3. row_locks' = row_locks
    BY <1>4 DEF ReleaseTableLock
  <2> QED
    BY <2>1, <2>2, <2>3 DEF NoConflictingHolders, Compatible
<1>5. ASSUME NEW x \in Xids, NEW k \in Rows, NEW m \in RowModes,
             AcquireRowLock(x, k, m)
      PROVE  NoConflictingHolders'
  <2>1. Compatible(row_locks[k] \cup {[holder |-> x, mode |-> m]})
    BY <1>5, GrantKeepsCompatible DEF AcquireRowLock, NoConflictingHolders
  <2>2. \A l \in Rows :
          row_locks'[l] = IF l = k THEN row_locks[k] \cup {[holder |-> x, mode |-> m]}
                                   ELSE row_locks[l]
    BY <1>1, <1>5 DEF AcquireRowLock
  <2>3. table_locks' = table_locks
    BY <1>5 DEF AcquireRowLock
  <2> QED
    BY <2>1, <2>2, <2>3 DEF NoConflictingHolders, Compatible
<1>6. ASSUME NEW x \in Xids, NEW k \in Rows, ReleaseRowLock(x, k)
      PROVE  NoConflictingHolders'
  <2>1. Compatible(Without(row_locks[k], x))
    BY ReleaseKeepsCompatible DEF NoConflictingHolders
  <2>2. \A l \in Rows :
          row_locks'[l] = IF l = k THEN Without(row_locks[k], x) ELSE row_locks[l]
    BY <1>1, <1>6 DEF ReleaseRowLock
  <2>3. table_locks' = table_locks
    BY <1>6 DEF ReleaseRowLock
  <2> QED
    BY <2>1, <2>2, <2>3 DEF NoConflictingHolders, Compatible
<1>7. ASSUME NEW x \in Xids, ReleaseAllLocks(x) PROVE NoConflictingHolders'
  <2>1. /\ \A r \in Relations : table_locks'[r] = Without(table_locks[r], x)
        /\ \A k \in Rows : row_locks'[k] = Without(row_locks[k], x)
    BY <1>7 DEF ReleaseAllLocks
  <2>2. /\ \A r \in Relations : Compatible(Without(table_locks[r], x))
        /\ \A k \in Rows : Compatible(Without(row_locks[k], x))
    BY ReleaseKeepsCompatible DEF NoConflictingHolders
  <2> QED
    BY <2>1, <2>2 DEF NoConflictingHolders, Compatible
<1> QED
  BY <1>2, <1>3, <1>4, <1>5, <1>6, <1>7
     DEF Next, vars, RefuseTableLock, RefuseRowLock, PushRequest,
         AcquireAdvisoryLock, ReleaseAdvisoryLock, ReleaseAllAdvisoryLocks

(* No interleaving of calls lets two transactions hold conflicting table   *)
(* or row locks (acquire_table_lock, acquire_row_lock).                    *)
THEOREM ConflictFreedom == Spec => []NoConflictingHolders
<1>1. Init => NoConflictingHolders
  BY DEF Init, NoConflictingHolders, Compatible
<1>2. QED
  BY <1>1, TypeCorrect, HoldersStep, PTL DEF Spec

------------------------------------------------------------------------------
(* Each operation preserves AdvisoryExclusion.                             *)
LEMMA AdvisoryStep == TypeOK /\ AdvisoryExclusion /\ [Next]_vars => AdvisoryExclusion'
<1> SUFFICES ASSUME TypeOK, AdvisoryExclusion, [Next]_vars
             PROVE  AdvisoryExclusion'
  OBVIOUS
<1>1. advisory_locks \in [Keys -> [Xids -> Seq(AdvisoryLockMode)]]
  BY DEF TypeOK
<1>2. CASE UNCHANGED advisory_locks
  BY <1>2 DEF AdvisoryExclusion
<1>3. ASSUME NEW x \in Xids, NEW k \in Keys, NEW m \in AdvisoryLockMode,
             AcquireAdvisoryLock(x, k, m)
      PROVE  AdvisoryExclusion'
  <2> DEFINE held(l, y) == advisory_locks[l][y]
  <2>1. ASSUME NEW l \in Keys, NEW y \in Xids, NEW i \in DOMAIN advisory_locks'[l][y]
        PROVE  \/ i \in DOMAIN held(l, y) /\ advisory_locks'[l][y][i] = held(l, y)[i]
               \/ l = k /\ y = x /\ advisory_locks'[l][y][i] = m
    BY <1>1, <1>3, <2>1 DEF AcquireAdvisoryLock
  <2>2. \A y \in Xids \ {x} : \A i \in DOMAIN held(k, y) :
          ~ advisory_conflict(m, held(k, y)[i])
    BY <1>3 DEF AcquireAdvisoryLock, AdvisoryBlocked
  <2> HIDE DEF held
  <2>3. ASSUME NEW l \in Keys, NEW y \in Xids, NEW z \in Xids, y # z,
               NEW i \in DOMAIN advisory_locks'[l][y], NEW j \in DOMAIN advisory_locks'[l][z]
        PROVE  ~ advisory_conflict(advisory_locks'[l][y][i], advisory_locks'[l][z][j])
    <3>1. CASE i \in DOMAIN held(l, y) /\ advisory_locks'[l][y][i] = held(l, y)[i]
               /\ j \in DOMAIN held(l, z) /\ advisory_locks'[l][z][j] = held(l, z)[j]
      BY <3>1, <2>3 DEF AdvisoryExclusion, held
    <3>2. CASE l = k /\ y = x /\ advisory_locks'[l][y][i] = m
      BY <2>1, <2>2, <2>3, <3>2
    <3>3. CASE l = k /\ z = x /\ advisory_locks'[l][z][j] = m
      BY <2>1, <2>2, <2>3, <3>3, AdvisoryConflictSymmetric
    <3> QED
      BY <2>1, <3>1, <3>2, <3>3
  <2> QED
    BY <2>3 DEF AdvisoryExclusion
<1>4. ASSUME NEW x \in Xids, NEW k \in Keys, ReleaseAdvisoryLock(x, k)
      PROVE  AdvisoryExclusion'
  <2>1. ASSUME NEW l \in Keys, NEW y \in Xids, NEW i \in DOMAIN advisory_locks'[l][y]
        PROVE  \E j \in DOMAIN advisory_locks[l][y] :
                 advisory_locks'[l][y][i] = advisory_locks[l][y][j]
    <3>1. CASE l = k /\ y = x
      <4>1. advisory_locks'[l][y] = Tail(advisory_locks[k][x])
        BY <1>1, <1>4, <3>1 DEF ReleaseAdvisoryLock
      <4>2. advisory_locks[k][x] \in Seq(AdvisoryLockMode) /\ advisory_locks[k][x] # <<>>
        BY <1>1, <1>4 DEF ReleaseAdvisoryLock
      <4>3. i + 1 \in DOMAIN advisory_locks[k][x]
            /\ Tail(advisory_locks[k][x])[i] = advisory_locks[k][x][i + 1]
        BY <4>1, <4>2
      <4> QED
        BY <3>1, <4>1, <4>3
    <3>2. CASE ~ (l = k /\ y = x)
      <4>1. advisory_locks'[l][y] = advisory_locks[l][y]
        BY <1>1, <1>4, <3>2 DEF ReleaseAdvisoryLock
      <4> QED
        BY <4>1
    <3> QED
      BY <3>1, <3>2
  <2> QED
    BY <2>1 DEF AdvisoryExclusion
<1>5. ASSUME NEW x \in Xids, ReleaseAllAdvisoryLocks(x) PROVE AdvisoryExclusion'
  <2>1. ASSUME NEW l \in Keys, NEW y \in Xids
        PROVE  advisory_locks'[l][y] = IF y = x THEN <<>> ELSE advisory_locks[l][y]
    BY <1>1, <1>5 DEF ReleaseAllAdvisoryLocks
  <2> QED
    BY <2>1 DEF AdvisoryExclusion
<1> QED
  BY <1>2, <1>3, <1>4, <1>5
     DEF Next, vars, AcquireTableLock, RefuseTableLock, ReleaseTableLock,
         AcquireRowLock, RefuseRowLock, ReleaseRowLock, PushRequest, ReleaseAllLocks

(* An exclusive advisory lock excludes every other holder of its key       *)
(* (acquire_advisory_lock, release_advisory_lock).                         *)
THEOREM AdvisorySafety == Spec => []AdvisoryExclusion
<1>1. Init => AdvisoryExclusion
  BY DEF Init, AdvisoryExclusion
<1>2. QED
  BY <1>1, TypeCorrect, AdvisoryStep, PTL DEF Spec

------------------------------------------------------------------------------
(* Each operation preserves WaitersQueued: the queue never shrinks, and    *)
(* only PushRequest turns a refused call into a waiting one.               *)
LEMMA QueuedStep == TypeOK /\ WaitersQueued /\ [Next]_vars => WaitersQueued'
<1> SUFFICES ASSUME TypeOK, WaitersQueued, [Next]_vars PROVE WaitersQueued'
  OBVIOUS
<1> USE DEF WaitersQueued, Waiting
<1>1. refused \in [Xids -> [req : LockRequest \cup {NoRequest}, pushed : BOOLEAN]]
  BY DEF TypeOK
<1>2. CASE UNCHANGED vars
  BY <1>2 DEF vars
<1>3. ASSUME NEW x \in Xids, Proceed(x), wait_queue' = wait_queue
      PROVE  WaitersQueued'
  BY <1>1, <1>3 DEF Proceed
<1>4. ASSUME NEW x \in Xids, NEW m, NEW t, Refuse(x, m, t), wait_queue' = wait_queue
      PROVE  WaitersQueued'
  BY <1>1, <1>4 DEF Refuse
<1>5. ASSUME NEW x \in Xids, PushRequest(x) PROVE WaitersQueued'
  <2>1. refused[x].req \in wait_queue' /\ wait_queue \subseteq wait_queue'
    BY <1>5 DEF PushRequest
  <2>2. ASSUME NEW y \in Xids, Waiting(y)' PROVE (refused[y].req \in wait_queue)'
    <3>1. refused'[y].req = refused[y].req
      BY <1>1, <1>5 DEF PushRequest
    <3>2. y # x => refused'[y] = refused[y]
      BY <1>1, <1>5 DEF PushRequest
    <3> QED
      BY <2>1, <2>2, <3>1, <3>2
  <2> QED
    BY <2>2
<1> QED
  BY <1>2, <1>3, <1>4, <1>5
     DEF Next, AcquireTableLock, RefuseTableLock, ReleaseTableLock,
         AcquireRowLock, RefuseRowLock, ReleaseRowLock, ReleaseAllLocks,
         AcquireAdvisoryLock, ReleaseAdvisoryLock, ReleaseAllAdvisoryLocks

(* Transactions that wait for one another form a cycle of the wait-for     *)
(* graph that detect_deadlock builds from the queue.                       *)
LEMMA DeadlockIsInGraph == TypeOK /\ WaitersQueued => NoMissedDeadlock
<1> SUFFICES ASSUME TypeOK, WaitersQueued,
                    NEW C \in SUBSET Xids, Deadlocked(C)
             PROVE  detect_deadlock
  BY DEF NoMissedDeadlock
<1>1. ASSUME NEW x \in C PROVE wait_for(x) \cap C # {}
  <2>1. /\ Waiting(x)
        /\ Blockers(refused[x].req) \cap C # {}
    BY DEF Deadlocked
  <2>2. refused[x].req \in wait_queue /\ refused[x].req.xid = x
    BY <2>1 DEF WaitersQueued, Waiting, TypeOK
  <2>3. Blockers(refused[x].req) \subseteq wait_for(x)
    BY <2>2 DEF wait_for
  <2> QED
    BY <2>1, <2>3
<1> QED
  BY <1>1 DEF detect_deadlock, Deadlocked

(* detect_deadlock finds every deadlock among recorded waiters, whatever   *)
(* else was refused, retried or abandoned before.                          *)
THEOREM DeadlockFound == Spec => []NoMissedDeadlock
<1>1. Init => WaitersQueued
  BY DEF Init, WaitersQueued, Waiting
<1>2. QED
  BY <1>1, TypeCorrect, QueuedStep, DeadlockIsInGraph, PTL DEF Spec
==============================================================================
