----------------------------- MODULE MCExecution ----------------------------
(* What lies between a statement and its rows: six models that share no     *)
(* state.  focus says which of them a behaviour is about; the others rest.  *)
EXTENDS BTree, Indexes, MCSelect, Catalog, Parallel, IndexKeys

VARIABLE focus

Lengths60 == [k \in Keys |-> IF k = 0 THEN 0 ELSE IF k = 4 THEN 60 ELSE 4]

ShortKeys == {<<0>>, <<0, 0>>, <<1>>, <<2, 0>>, <<1, 31>>}

McTerms == {[word |-> "a", lower |-> TRUE], [word |-> "a", lower |-> FALSE], [word |-> "b", lower |-> TRUE]}

McNullBytes == <<78, 85, 76, 76>>
McByteValues == {McNullBytes} \cup BoundedSeq({0, 1, 65}, 2)
Column(desc, nullsFirst) == [desc |-> desc, nullsFirst |-> nullsFirst]
McColumnLists == {<<>>, <<Column(TRUE, TRUE)>>, <<Column(FALSE, TRUE), Column(TRUE, FALSE)>>}
McEntries == {<<1, 1>>, <<1, 2>>, <<2, 3>>, <<3, 4>>}

-----------------------------------------------------------------------------
(* A component at rest. *)

BTreeRests == BTreeInit /\ ~multipage /\ psize = 128
IndexesRest == IndexesInit /\ kind = "hash"
SelectRests == query = Base /\ left = <<>> /\ right = <<>> /\ stage = "rest" /\ rows = <<>>
KeysRest ==
  /\ work = "rest" /\ values = <<>> /\ columns = <<>> /\ key = <<>> /\ decoded = <<>>
  /\ entries = <<>> /\ position = 0 /\ visited = <<>> /\ skip = FALSE

btreeVars == vars
everything == <<btreeVars, ivars, svars, catalogVars, parallelVars, keyVars, focus>>

ExecutionInit ==
  /\ CatalogInit /\ ParallelInit
  /\ \/ focus = "btree" /\ BTreeInit /\ IndexesRest /\ SelectRests /\ KeysRest
     \/ focus = "indexes" /\ BTreeRests /\ IndexesInit /\ SelectRests /\ KeysRest
     \/ focus = "select" /\ BTreeRests /\ IndexesRest /\ SelectInit /\ KeysRest
     \/ focus = "keys" /\ BTreeRests /\ IndexesRest /\ SelectRests /\ KeysInit
     \/ focus \in {"catalog", "parallel"} /\ BTreeRests /\ IndexesRest /\ SelectRests /\ KeysRest

ExecutionNext ==
  /\ UNCHANGED focus
  /\ \/ /\ focus = "btree" /\ BTreeNext
        /\ UNCHANGED <<ivars, svars, catalogVars, parallelVars, keyVars>>
     \/ /\ focus = "indexes" /\ IndexesNext
        /\ UNCHANGED <<btreeVars, svars, catalogVars, parallelVars, keyVars>>
     \/ /\ focus = "select" /\ SelectNext
        /\ UNCHANGED <<btreeVars, ivars, catalogVars, parallelVars, keyVars>>
     \/ /\ focus = "catalog" /\ CatalogNext
        /\ UNCHANGED <<btreeVars, ivars, svars, parallelVars, keyVars>>
     \/ /\ focus = "parallel" /\ ParallelNext
        /\ UNCHANGED <<btreeVars, ivars, svars, catalogVars, keyVars>>
     \/ /\ focus = "keys" /\ KeysNext
        /\ UNCHANGED <<btreeVars, ivars, svars, catalogVars, parallelVars>>

ExecutionSpec == ExecutionInit /\ [][ExecutionNext]_everything

-----------------------------------------------------------------------------
(* Properties *)

\* Every kind of index answers with the rows it was told of: the B-tree's leaves
\* stay sorted and its two readers agree (btree_search, walk_btree), the hash, GIN,
\* BRIN and GiST indexes find what a scan of the live rows would find, and pruning
\* keeps the partition of every row that the WHERE clause keeps.  A composite key
\* (encode_index_key) tells apart what it should, and a scan visits its entries.
IndexesAnswer ==
  /\ focus = "btree" => ReadersAgree /\ LeavesSorted
  /\ focus = "indexes" => IndexesExact /\ PruningKeepsRows
  /\ focus = "keys" => KeysExact

\* A SELECT returns the rows SQL asks for, clause by clause: its joins whichever
\* algorithm runs them, WHERE through an index or a scan, DISTINCT, ORDER BY,
\* OFFSET and LIMIT, the groups and their aggregates, the window functions and the
\* set operations (execute_select_with_snapshot).
QueryExact ==
  focus = "select" => JoinsExact /\ ResultExact /\ GroupsShareOut /\ WindowSound /\ SetOpsExact
=============================================================================
