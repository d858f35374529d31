-------------------------------- MODULE Heap --------------------------------
(***************************************************************************)
(* Tables as executor/heap.rs keeps them: the pages of each relation, the  *)
(* copies scans leave in the buffer pool, the ids rows are stamped with    *)
(* and the records appended to the log.                                    *)
(*                                                                         *)
(* A statement that writes holds the mutex around the WAL for the whole    *)
(* call (server/query.rs passes `&*wal.lock().await`), a scan and an       *)
(* insertion hold the relation's mutex.  Updates and deletions read and    *)
(* write pages without that mutex, a page at a time, a row at a time.      *)
(* vacuum_relation has no caller in the server; it is run between          *)
(* statements, as the tests do.                                            *)
(***************************************************************************)
EXTENDS HeapPage

CONSTANTS Sessions, Relations, Keys, NoSession, NoPage,
          TupleLen,     \* encoded length of a row, by its key
          MaxPage,      \* pages the storage can hold
          MaxXid,       \* bound on the row versions made
          MaxScans,     \* bound on the scans started
          Snapshots     \* snapshots a scan may be given

PageIds == 1..MaxPage

\* The values write_page stores: NoPage is none of them.
RowVersions == [row : Nat, rel : Relations, key : Keys, xmin : Nat, xmax : Nat,
                len : Nat \ {0}]
PageImages == [lower : Nat, upper : Int,
               line_pointers : Seq([lp_offset : Int, lp_flags : 0..2]),
               area : SUBSET [start : Int, end : Int, tuple : RowVersions]]

ASSUME HeapConstants ==
    /\ TupleLen \in [Keys -> Nat \ {0}]
    /\ MaxPage \in Nat /\ MaxXid \in Nat /\ MaxScans \in Nat
    /\ NoSession \notin Sessions
    /\ NoPage \notin PageImages

VARIABLES
    pages,          \* relation.pages
    storage,        \* what write_page stored last
    pool,           \* page copies in the buffer pool
    rel_lock,       \* who holds the mutex of a relation's state
    wal_owner,      \* who holds the mutex around the WAL
    current_xid,    \* the counter of WAL::allocate_xid
    log,            \* the records appended
    call,           \* what each session is doing
    scans,          \* number of scans started
    returned,       \* history: rows whose insertion returned
    touched         \* history: rows a deletion or an update has ever selected

heapVars == <<pages, storage, pool, rel_lock, wal_owner, current_xid, log, call,
              scans, returned, touched>>

Idle == [at |-> "idle"]

HeapInit ==
    /\ pages = [r \in Relations |-> << >>]
    /\ storage = [p \in PageIds |-> NoPage]
    /\ pool = [p \in PageIds |-> NoPage]
    /\ rel_lock = [r \in Relations |-> NoSession]
    /\ wal_owner = NoSession
    /\ current_xid = 1
    /\ log = << >>
    /\ call = [s \in Sessions |-> Idle]
    /\ scans = 0
    /\ returned = {}
    /\ touched = {}

\* A row version: row is the row it is a version of (the id of its insertion).
Tuple(row, rel, key, xmin, xmax) ==
    [row |-> row, rel |-> rel, key |-> key, xmin |-> xmin, xmax |-> xmax,
     len |-> TupleLen[key]]

\* The tuples of a stored page that decode.
Decoded(img) ==
    LET p == Deserialize(img) IN {p.tuples[i] : i \in {j \in Slots(p) : p.tuples[j].len > 0}}

\* is_visible
IsVisible(t, snapshot) ==
    LET ended(x) == x \notin snapshot.active_xids /\ x < snapshot.xid
    IN  /\ t.xmin # 0
        /\ ended(t.xmin)
        /\ t.xmax # 0 => ~ended(t.xmax)

\* The snapshot of a statement outside a transaction: u32::MAX.
DefaultSnapshot == [xid |-> MaxXid + 1, active_xids |-> {}]

-----------------------------------------------------------------------------
\* Mutant of TakeWal: a statement does not wait for the mutex.
TakeWal_NotExclusive(s) == wal_owner' = s

\* wal.lock().await in the handlers, held until the call returns.
TakeWal(s) ==
    /\ wal_owner = NoSession
    /\ wal_owner' = s

StartWrite(s, op, r, k) ==
    /\ call[s] = Idle
    /\ current_xid <= MaxXid
    /\ TakeWal(s)
    /\ call' = [call EXCEPT ![s] =
         IF op = "insert"
         THEN [at |-> "insert", rel |-> r, key |-> k]
         ELSE [at |-> "page", op |-> op, rel |-> r, key |-> k, todo |-> pages[r]]]
    /\ UNCHANGED <<pages, storage, pool, rel_lock, current_xid, log, scans, returned, touched>>

(***************************************************************************)
(* tuple_insert under the relation's mutex.  The first page of a relation  *)
(* is page 1, the next one follows its last.  A full page leads to a new   *)
(* page; both are written.                                                 *)
(***************************************************************************)
InsertOnPage(s) ==
    LET c == call[s]
        first == pages[c.rel] = << >>
        page_id == IF first THEN 1 ELSE pages[c.rel][Len(pages[c.rel])]
        p == IF first THEN NewPage ELSE Deserialize(storage[page_id])
        t == Tuple(current_xid, c.rel, c.key, current_xid, 0)
        r == AddTuple(p, t)
        spill == r.slot = 0
        target == IF spill THEN page_id + 1 ELSE page_id
        list == IF first THEN <<1>> ELSE pages[c.rel]
    IN  /\ c.at = "insert"
        /\ rel_lock[c.rel] = NoSession
        /\ ~Underflows(p, t)
        /\ target \in PageIds
        /\ current_xid' = current_xid + 1
        /\ storage' = IF spill
                      THEN [storage EXCEPT ![target] = Serialize(AddTuple(NewPage, t).page),
                                           ![page_id] = Serialize(p)]
                      ELSE [storage EXCEPT ![page_id] = Serialize(r.page)]
        /\ pages' = [pages EXCEPT ![c.rel] = IF spill THEN Append(list, target) ELSE list]
        /\ call' = [call EXCEPT ![s] =
             [at |-> "append", then |-> Idle,
              rec |-> [op |-> "insert", page |-> target, xid |-> current_xid]]]
        /\ UNCHANGED <<pool, rel_lock, wal_owner, log, scans, returned, touched>>

\* The subtraction underflows: the task panics and drops both guards.  A first
\* page has been written by then, but not entered in the relation.
InsertPanics(s) ==
    LET c == call[s]
        first == pages[c.rel] = << >>
        p == IF first THEN NewPage ELSE Deserialize(storage[pages[c.rel][Len(pages[c.rel])]])
    IN  /\ c.at = "insert"
        /\ rel_lock[c.rel] = NoSession
        /\ Underflows(p, Tuple(current_xid, c.rel, c.key, current_xid, 0))
        /\ current_xid' = current_xid + 1
        /\ storage' = IF first THEN [storage EXCEPT ![1] = Serialize(NewPage)] ELSE storage
        /\ wal_owner' = NoSession
        /\ call' = [call EXCEPT ![s] = [at |-> "dead"]]
        /\ UNCHANGED <<pages, pool, rel_lock, log, scans, returned, touched>>

\* The filter of tuple_update and tuple_delete: equality on a column, whether
\* or not the version is visible to anyone.
Selected(c, p) == {i \in Slots(p) : p.tuples[i].len > 0 /\ p.tuples[i].key = c.key}

SetToSortedSeq(S) == CHOOSE q \in [1..Cardinality(S) -> S] :
                        \A i, j \in DOMAIN q : i < j => q[i] < q[j]

\* The head of the loop over the pages: read one, collect the rows.
ReadForWrite(s) ==
    LET c == call[s]
        p == Deserialize(storage[Head(c.todo)])
    IN  /\ c.at = "page"
        /\ c.todo # << >>
        /\ call' = [call EXCEPT ![s] =
             [at |-> "rows", op |-> c.op, rel |-> c.rel, key |-> c.key,
              page_id |-> Head(c.todo), todo |-> Tail(c.todo), page |-> p,
              slots |-> SetToSortedSeq(Selected(c, p))]]
        /\ touched' = touched \cup {p.tuples[i].row : i \in Selected(c, p)}
        /\ UNCHANGED <<pages, storage, pool, rel_lock, wal_owner, current_xid, log,
                       scans, returned>>

\* One row: the page after it, and whether the task panics instead.
Expire(p, i) == [p EXCEPT !.tuples[i].xmax = current_xid]

\* Mutant of UpdatedPage: the fallback does not expire the old version.
UpdatedPage_KeepsOld(p, i) ==
    LET new == [p.tuples[i] EXCEPT !.xmin = current_xid, !.xmax = 0]
        hot == HotUpdate(p, i, new)
    IN  IF hot.slot # 0 THEN Expire(hot.page, i) ELSE AddTuple(p, new).page

UpdatedPage(p, i) ==
    LET old == p.tuples[i]
        new == [old EXCEPT !.xmin = current_xid, !.xmax = 0]
        hot == HotUpdate(p, i, new)
    IN  IF hot.slot # 0 THEN Expire(hot.page, i)
        ELSE AddTuple(Expire(p, i), new).page

WriteRow(s) ==
    LET c == call[s]
        i == Head(c.slots)
        p == IF c.op = "update" THEN UpdatedPage(c.page, i) ELSE Expire(c.page, i)
    IN  /\ c.at = "rows"
        /\ c.slots # << >>
        /\ current_xid <= MaxXid
        /\ c.op = "update" => ~Underflows(c.page, c.page.tuples[i])
        /\ rel_lock[c.rel] = NoSession
        /\ current_xid' = current_xid + 1
        /\ storage' = [storage EXCEPT ![c.page_id] = Serialize(p)]
        /\ call' = [call EXCEPT ![s] =
             [at |-> "append",
              then |-> [c EXCEPT !.page = p, !.slots = Tail(c.slots)],
              rec |-> [op |-> c.op, page |-> c.page_id, xid |-> current_xid]]]
        /\ UNCHANGED <<pages, pool, rel_lock, wal_owner, log, scans, returned, touched>>

UpdatePanics(s) ==
    LET c == call[s] IN
    /\ c.at = "rows"
    /\ c.slots # << >>
    /\ c.op = "update"
    /\ Underflows(c.page, c.page.tuples[Head(c.slots)])
    /\ current_xid' = current_xid + 1
    /\ wal_owner' = NoSession
    /\ call' = [call EXCEPT ![s] = [at |-> "dead"]]
    /\ UNCHANGED <<pages, storage, pool, rel_lock, log, scans, returned, touched>>

\* wal.append of the row's record, after its page was written.
AppendRecord(s) ==
    LET c == call[s] IN
    /\ c.at = "append"
    /\ log' = Append(log, c.rec)
    /\ call' = [call EXCEPT ![s] = c.then]
    /\ IF c.then = Idle
       THEN wal_owner' = NoSession /\ returned' = returned \cup {c.rec.xid}
       ELSE UNCHANGED <<wal_owner, returned>>
    /\ UNCHANGED <<pages, storage, pool, rel_lock, current_xid, scans, touched>>

\* The next page, or the end of the loop over the pages.
NextPage(s) ==
    LET c == call[s] IN
    /\ c.at = "rows"
    /\ c.slots = << >>
    /\ call' = [call EXCEPT ![s] = [at |-> "page", op |-> c.op, rel |-> c.rel,
                                    key |-> c.key, todo |-> c.todo]]
    /\ UNCHANGED <<pages, storage, pool, rel_lock, wal_owner, current_xid, log, scans,
                   returned, touched>>

EndWrite(s) ==
    /\ call[s].at = "page"
    /\ call[s].todo = << >>
    /\ wal_owner' = NoSession
    /\ call' = [call EXCEPT ![s] = Idle]
    /\ UNCHANGED <<pages, storage, pool, rel_lock, current_xid, log, scans, returned, touched>>

-----------------------------------------------------------------------------
\* heap_scan_with_optional_snapshot: takes the relation's mutex, fetches its
\* pages one by one into the pool and then copies them all.
StartScan(s, r, snapshot) ==
    /\ call[s] = Idle
    /\ scans < MaxScans
    /\ rel_lock[r] = NoSession
    /\ rel_lock' = [rel_lock EXCEPT ![r] = s]
    /\ scans' = scans + 1
    /\ call' = [call EXCEPT ![s] = [at |-> "scan", rel |-> r, snapshot |-> snapshot,
                                    todo |-> pages[r]]]
    /\ UNCHANGED <<pages, storage, pool, wal_owner, current_xid, log, returned, touched>>

ScanFetch(s) ==
    LET p == Head(call[s].todo) IN
    /\ call[s].at = "scan"
    /\ call[s].todo # << >>
    /\ pool' = [pool EXCEPT ![p] = IF @ = NoPage THEN storage[p] ELSE @]
    /\ call' = [call EXCEPT ![s].todo = Tail(@)]
    /\ UNCHANGED <<pages, storage, rel_lock, wal_owner, current_xid, log, scans, returned,
                   touched>>

VisibleOn(img, snapshot) == {t \in Decoded(img) : IsVisible(t, snapshot)}

ScanEnd(s) ==
    LET c == call[s]
        seen == UNION {VisibleOn(pool[pages[c.rel][i]], c.snapshot) :
                         i \in DOMAIN pages[c.rel]}
    IN  /\ c.at = "scan"
        /\ c.todo = << >>
        /\ rel_lock' = [rel_lock EXCEPT ![c.rel] = NoSession]
        /\ call' = [call EXCEPT ![s] = [at |-> "scanned", rel |-> c.rel, rows |-> seen]]
        /\ UNCHANGED <<pages, storage, pool, wal_owner, current_xid, log, scans, returned,
                       touched>>

\* slow_scan reads the pages from storage under the relation's mutex.
SlowScan(s, r) ==
    /\ call[s] = Idle
    /\ scans < MaxScans
    /\ rel_lock[r] = NoSession
    /\ scans' = scans + 1
    /\ call' = [call EXCEPT ![s] =
         [at |-> "scanned", rel |-> r,
          rows |-> UNION {VisibleOn(storage[pages[r][i]], DefaultSnapshot) :
                            i \in DOMAIN pages[r]}]]
    /\ UNCHANGED <<pages, storage, pool, rel_lock, wal_owner, current_xid, log, returned,
                   touched>>

ScanReturn(s) ==
    /\ call[s].at = "scanned"
    /\ call' = [call EXCEPT ![s] = Idle]
    /\ UNCHANGED <<pages, storage, pool, rel_lock, wal_owner, current_xid, log, scans,
                   returned, touched>>

\* The pool replaces a page; its copy is never dirty, since nobody writes to it.
PoolEvict(p) ==
    /\ pool[p] # NoPage
    /\ \A s \in Sessions : call[s].at # "scan"
    /\ pool' = [pool EXCEPT ![p] = NoPage]
    /\ UNCHANGED <<pages, storage, rel_lock, wal_owner, current_xid, log, call, scans,
                   returned, touched>>

-----------------------------------------------------------------------------
DeadFor(p, oldest_xmin) ==
    {i \in Slots(p) : /\ IsStored(p, i)
                      /\ p.tuples[i].xmax # 0
                      /\ p.tuples[i].xmax < oldest_xmin}

\* Mutant of VacuumedPage: the comparison takes the inserting id.
VacuumedPage_ByXmin(p, oldest_xmin) ==
    Compact(MarkDead(p, {i \in Slots(p) : IsStored(p, i) /\ p.tuples[i].xmin < oldest_xmin}))

VacuumedPage(p, oldest_xmin) == Compact(MarkDead(p, DeadFor(p, oldest_xmin)))

\* vacuum_relation, between statements: the pages that change are compacted,
\* written and dropped from the pool.
Vacuum(r, oldest_xmin) ==
    LET page(p) == Deserialize(storage[p])
        changed == {p \in PageIds : /\ \E i \in DOMAIN pages[r] : pages[r][i] = p
                                    /\ DeadFor(page(p), oldest_xmin) # {}}
    IN  /\ wal_owner = NoSession
        /\ rel_lock[r] = NoSession
        /\ changed # {}
        /\ storage' = [p \in PageIds |-> IF p \in changed
                                         THEN Serialize(VacuumedPage(page(p), oldest_xmin))
                                         ELSE storage[p]]
        /\ pool' = [p \in PageIds |-> IF p \in changed THEN NoPage ELSE pool[p]]
        /\ UNCHANGED <<pages, rel_lock, wal_owner, current_xid, log, call, scans, returned,
                       touched>>

HeapNext ==
    \/ \E s \in Sessions :
         \/ \E r \in Relations, k \in Keys, op \in {"insert", "update", "delete"} :
                StartWrite(s, op, r, k)
         \/ InsertOnPage(s)
         \/ InsertPanics(s)
         \/ ReadForWrite(s)
         \/ WriteRow(s)
         \/ UpdatePanics(s)
         \/ AppendRecord(s)
         \/ NextPage(s)
         \/ EndWrite(s)
         \/ \E r \in Relations, snap \in Snapshots \cup {DefaultSnapshot} :
                StartScan(s, r, snap)
         \/ ScanFetch(s)
         \/ ScanEnd(s)
         \/ \E r \in Relations : SlowScan(s, r)
         \/ ScanReturn(s)
    \/ \E p \in PageIds : PoolEvict(p)
    \/ \E r \in Relations, x \in 1..MaxXid : Vacuum(r, x)

HeapSpec == HeapInit /\ [][HeapNext]_heapVars

-----------------------------------------------------------------------------
Stored == UNION {Decoded(storage[p]) : p \in {q \in PageIds : storage[q] # NoPage}}

(* A row whose insertion was acknowledged and that no update or deletion    *)
(* has selected is in storage, whatever other sessions write to its page in *)
(* the meantime: tuple_update and tuple_delete write back pages they read   *)
(* earlier, and only the WAL mutex keeps an insertion from getting between. *)
InsertsKept == \A x \in returned \ touched : \E t \in Stored : t.row = x /\ t.xmax = 0

(* Storage never holds two versions of a row, so no scan returns a row      *)
(* twice, even one that reads its pages while they are rewritten.           *)
OneVersionPerRow ==
    /\ \A t, u \in Stored : t.row = u.row => t = u
    /\ \A s \in Sessions : call[s].at = "scanned" =>
          \A t, u \in call[s].rows : t.row = u.row => t = u

(* When a record is appended, storage already bears its effect, so that no  *)
(* crash leaves a record whose page write never happened; and it carries a  *)
(* higher id than every record before it: the id is drawn and the record    *)
(* appended under one hold of the WAL mutex.                                *)
LoggedIsStored ==
    [][log' # log =>
         LET rec == log'[Len(log')] IN
         /\ \E t \in Decoded(storage[rec.page]) : rec.xid \in {t.xmin, t.xmax}
         /\ \A i \in DOMAIN log : log[i].xid < rec.xid]_heapVars

(* Vacuum, with the compaction and the new page layout that go with it,     *)
(* changes nothing a statement with a fresh snapshot can see.               *)
VacuumInvisible ==
    [][(\E r \in Relations, x \in 1..MaxXid : Vacuum(r, x)) =>
         {t \in Stored : IsVisible(t, DefaultSnapshot)} =
         {t \in Stored' : IsVisible(t, DefaultSnapshot)}]_heapVars

=============================================================================
