------------------------------- MODULE BTree --------------------------------
(***************************************************************************)
(* src/btree/page.rs, insert.rs and search.rs, with the second reader of   *)
(* the same pages, walk_btree of src/executor/heap.rs.  An index lives in  *)
(* storage as pages of sorted entries.  The executor only ever inserts     *)
(* with btree_insert, which keeps one page; btree_insert_multipage splits. *)
(*                                                                         *)
(* A key is a number that stands for its bytes in their order, KeyLen its  *)
(* length.  An entry is <<key, pointer>>: the row's heap pointer in a leaf *)
(* and the child's page in the pages above.  heap_oid is always Oid(0).    *)
(***************************************************************************)
EXTENDS Naturals, Sequences, FiniteSets, SequencesExt

CONSTANTS Keys,       \* the keys, in the order of their bytes
          KeyLen,     \* [Keys -> Nat], their lengths
          Pointers,   \* heap pointers
          PageSizes,  \* the page sizes an index is created with
          MaxEntries  \* bound: the number of inserts

VARIABLES
  multipage,  \* which insert the owner of the index calls
  psize,      \* page_size
  pages,      \* storage: page id -> what serialize_page left in its bytes
  root,       \* the caller's root_page
  next,       \* the caller's page allocator
  inserted,   \* history: the entries inserted so far
  splits,     \* history: the number of pages split so far
  found,      \* history: what btree_search finds now, over all keys
  dropped     \* history: serialize_page has left an entry out

vars == <<multipage, psize, pages, root, next, inserted, splits, found, dropped>>

-----------------------------------------------------------------------------
(* Pages *)

NoPage == 0

NewPage(type, id) ==
  [type |-> type, id |-> id, level |-> 0, keys |-> <<>>, left |-> NoPage, right |-> NoPage]

IsFull(page, size) == Len(page.keys) >= size \div 64

\* insert_sorted: binary_search_by may land on any entry with an equal key, and
\* otherwise on the one place that keeps the order.
InsertSorted(keys, e) ==
  LET equal == {i \in 1 .. Len(keys) : keys[i][1] = e[1]}
      place == 1 + Cardinality({i \in 1 .. Len(keys) : keys[i][1] < e[1]})
  IN  {InsertAt(keys, i, e) : i \in IF equal = {} THEN {place} ELSE equal}

SplitAt(page, n) ==
  [left  |-> [page EXCEPT !.keys = SubSeq(@, 1, n)],
   right |-> [NewPage(page.type, NoPage) EXCEPT !.keys = SubSeq(page.keys, n + 1, Len(page.keys)),
                                                !.level = page.level]]

-----------------------------------------------------------------------------
(* Bytes: an entry takes its key and ten bytes, from offset 64 on.          *)

EntryBytes(e) == 4 + KeyLen[e[1]] + 6

Fits(keys, n, size) ==
  LET end[i \in 0 .. n] == IF i = 0 THEN 64 ELSE end[i - 1] + EntryBytes(keys[i])
  IN  end[n] <= size

\* serialize_page stops at the first entry that would pass the end of the page.
\* It writes the full count, but the zeros behind the last entry end the
\* reader's loop, so the count never matters.
Serialize(page, size) ==
  [page EXCEPT !.keys = SubSeq(@, 1, Max({n \in 0 .. Len(@) : Fits(@, n, size)}))]

\* A page that was never written is all zeros.  deserialize_page reads type 0 as
\* a leaf and takes an entry with an empty key for the end.
Deserialize(id, bytes) ==
  [bytes EXCEPT !.id = id,
                !.type = IF @ = "Meta" THEN "Leaf" ELSE @,
                !.keys = SubSeq(@, 1, Max({n \in 0 .. Len(@) : \A i \in 1 .. n : KeyLen[@[i][1]] > 0}))]

Stored(store, id) == IF id \in DOMAIN store THEN store[id] ELSE NewPage("Meta", id)

ReadPage(store, id) == Deserialize(id, Stored(store, id))

-----------------------------------------------------------------------------
(* Inserting.  A call works on the storage, the allocator and the two       *)
(* history counters; result is the page id it returns, NoPage for None.     *)

Call == [pages |-> pages, next |-> next, splits |-> splits, dropped |-> dropped,
         result |-> NoPage]

WritePage(c, page) ==
  LET bytes == Serialize(page, psize)
  IN  [c EXCEPT !.pages = [id \in DOMAIN @ \cup {page.id} |-> IF id = page.id THEN bytes ELSE @[id]],
                !.dropped = @ \/ Deserialize(page.id, bytes).keys # page.keys]

\* The new root points to the two halves under one and the same separator.
NewRoot(c, left, right, separator) ==
  LET id == c.next
      newRoot == [NewPage("Root", id) EXCEPT
                   !.level = left.level + 1,
                   !.keys = << <<separator, left.id>>, <<separator, right.id>> >>]
  IN  [WritePage([c EXCEPT !.next = @ + 1], newRoot) EXCEPT !.result = id]

\* The full leaf is cut in the middle and the new entry goes to the half it
\* belongs to; below the root, the caller is only told of the right half.
SplitLeaf(c, page, e, isRoot) ==
  LET half  == SplitAt(page, Len(page.keys) \div 2)
      right == [half.right EXCEPT !.id = c.next, !.left = page.id]
      goesLeft == e[1] < right.keys[1][1]
      Done(l, r) ==
        LET c2 == WritePage(WritePage([c EXCEPT !.next = @ + 1, !.splits = @ + 1], l), r)
        IN  IF isRoot THEN NewRoot(c2, l, r, r.keys[1][1]) ELSE [c2 EXCEPT !.result = r.id]
  IN  IF goesLeft
      THEN {Done([half.left EXCEPT !.keys = ks], right) : ks \in InsertSorted(half.left.keys, e)}
      ELSE {Done(half.left, [right EXCEPT !.keys = ks]) : ks \in InsertSorted(right.keys, e)}

\* A page above the leaves that is full: it always grows a new root.
SplitInternal(c, page, child) ==
  LET half  == SplitAt(page, Len(page.keys) \div 2)
      left  == [half.left EXCEPT !.type = "Internal"]
      right == [half.right EXCEPT !.type = "Internal", !.id = c.next, !.left = page.id,
                                  !.keys[1][2] = child]
  IN  NewRoot(WritePage(WritePage([c EXCEPT !.next = @ + 1, !.splits = @ + 1], left), right),
              left, right, right.keys[1][1])

\* Stops before an equal key, which is the first of the right half.
FindChild_Strict(page, key) ==
  LET run == Max({n \in 0 .. Len(page.keys) : \A i \in 1 .. n : page.keys[i][1] < key})
  IN  page.keys[IF run = 0 THEN 1 ELSE run][2]

\* find_child_page_id of the insert and find_descend_child of the search: the
\* last entry of the leading run of keys that are not above the key.
FindChild(page, key) ==
  LET run == Max({n \in 0 .. Len(page.keys) : \A i \in 1 .. n : page.keys[i][1] <= key})
  IN  page.keys[IF run = 0 THEN 1 ELSE run][2]

\* The parent's entry for a child that was split is pointed at the new page.
RedirectChild(page, child, new) ==
  LET at == {i \in 1 .. Len(page.keys) : page.keys[i][2] = child}
  IN  IF at = {} THEN page ELSE [page EXCEPT !.keys[Min(at)][2] = new]

RECURSIVE InsertRecursive(_, _, _, _)
InsertRecursive(c, id, e, isRoot) ==
  LET page == ReadPage(c.pages, id)
      leaf == IF page.keys = <<>> THEN [page EXCEPT !.type = "Leaf"] ELSE page
      child == FindChild(page, e[1])
      AfterChild(d) ==
        LET updated == RedirectChild(ReadPage(d.pages, id), child, d.result)
        IN  IF d.result = NoPage THEN d
            ELSE IF IsFull(updated, psize) THEN SplitInternal(d, updated, d.result)
            ELSE [WritePage(d, updated) EXCEPT !.result = NoPage]
  IN  IF leaf.type = "Leaf"
      THEN IF IsFull(leaf, psize) THEN SplitLeaf(c, leaf, e, isRoot)
           ELSE {WritePage(c, [leaf EXCEPT !.keys = ks]) : ks \in InsertSorted(leaf.keys, e)}
      ELSE {AfterChild(d) : d \in InsertRecursive(c, child, e, FALSE)}

-----------------------------------------------------------------------------
(* Searching *)

\* btree_search: down to one leaf, and the entries of that leaf with the key.
RECURSIVE SearchPage(_, _, _)
SearchPage(store, id, key) ==
  LET page == ReadPage(store, id)
  IN  IF page.type \in {"Leaf", "Overflow"}
      THEN SelectSeq(page.keys, LAMBDA e : e[1] = key)
      ELSE SearchPage(store, FindChild(page, key), key)

BtreeSearch(store, top, key) == SearchPage(store, top, key)

FoundIn(store, top) == UNION {Range(BtreeSearch(store, top, k)) : k \in Keys}

\* index_scan: starts at the first page of the storage that is marked as a root,
\* and walk_btree takes the first child whose separator is not below the key, the
\* last one if there is none.  It reads the bytes itself: type 0 holds nothing.
RECURSIVE WalkBtree(_, _)
WalkBtree(id, key) ==
  LET bytes == Stored(pages, id)
      entries == Deserialize(id, bytes).keys
      below == SelectInSeq(entries, LAMBDA e : key <= e[1])
  IN  CASE bytes.type = "Leaf" -> SelectSeq(entries, LAMBDA e : e[1] = key)
        [] bytes.type \in {"Root", "Internal"} /\ entries # <<>> ->
             WalkBtree(entries[IF below = 0 THEN Len(entries) ELSE below][2], key)
        [] OTHER -> <<>>

IndexScan(key) ==
  LET roots == {id \in DOMAIN pages : pages[id].type = "Root"}
  IN  IF roots = {} THEN <<>> ELSE WalkBtree(Min(roots), key)

-----------------------------------------------------------------------------
(* The calls *)

Apply(d) ==
  /\ pages' = d.pages
  /\ next' = d.next
  /\ splits' = d.splits
  /\ dropped' = d.dropped
  /\ LET top == IF d.result = NoPage THEN root ELSE d.result
     IN  root' = top /\ found' = FoundIn(d.pages, top)

\* btree_insert: one page, however many entries it already has.
BtreeInsert(e) ==
  /\ ~multipage
  /\ \E ks \in InsertSorted(ReadPage(pages, root).keys, e) :
       Apply(WritePage(Call, [ReadPage(pages, root) EXCEPT !.keys = ks]))
  /\ inserted' = inserted \cup {e}
  /\ UNCHANGED <<multipage, psize>>

BtreeInsertMultipage(e) ==
  /\ multipage
  /\ \E d \in InsertRecursive(Call, root, e, TRUE) : Apply(d)
  /\ inserted' = inserted \cup {e}
  /\ UNCHANGED <<multipage, psize>>

-----------------------------------------------------------------------------

\* CREATE INDEX hands out a root page that nobody has written.
BTreeInit ==
  /\ multipage \in BOOLEAN
  /\ psize \in PageSizes
  /\ pages = [id \in {} |-> {}]
  /\ root = 1
  /\ next = 2
  /\ inserted = {}
  /\ splits = 0
  /\ found = {}
  /\ dropped = FALSE

\* An index entry is a row's key with the row's own pointer.
BTreeNext ==
  /\ Cardinality(inserted) < MaxEntries
  /\ \E e \in (Keys \X Pointers) \ inserted : BtreeInsert(e) \/ BtreeInsertMultipage(e)

BTreeSpec == BTreeInit /\ [][BTreeNext]_vars

-----------------------------------------------------------------------------
(* Properties *)

Distinct(S) == \A e, f \in S : e[1] = f[1] => e = f

\* The conditions under which the code keeps an index whole: every page written
\* could be read back, and at most one page was split, between different keys.
Exact == ~dropped /\ (splits = 0 \/ (splits = 1 /\ Distinct(inserted)))

\* btree_insert, btree_insert_multipage and btree_search together are an index:
\* while Exact holds every inserted entry is found under its key, and a search
\* never returns what was not inserted, also after entries have been lost.
IndexAbstract == INSTANCE IndexSet WITH Entries <- Keys \X Pointers,
                                        exact <- Exact

ImplementsIndex == IndexAbstract!Spec

\* The two readers of one index agree, with one exception: after a split,
\* walk_btree turns left at the separator, which is the first key on the right.
ReadersAgree ==
  /\ \A k \in Keys : Range(IndexScan(k)) \subseteq inserted
  /\ Exact /\ splits = 1 =>
       LET sep == ReadPage(pages, root).keys[1][1]
       IN  \A k \in Keys : IndexScan(k) = IF k = sep THEN <<>> ELSE BtreeSearch(pages, root, k)

\* Every leaf stays sorted, and no entry is stored in two leaves.
LeavesSorted ==
  LET leaves == {id \in DOMAIN pages : pages[id].type \in {"Meta", "Leaf"}}
  IN  /\ \A id \in leaves : IsSorted(pages[id].keys, LAMBDA x, y : x[1] <= y[1])
      /\ \A a, b \in leaves : a # b => Range(pages[a].keys) \cap Range(pages[b].keys) = {}
=============================================================================
