------------------------------ MODULE Indexes -------------------------------
(***************************************************************************)
(* The in-memory indexes as their callers use them: rows come and go, each *)
(* under a tuple id of its own that is used again after the row is gone,   *)
(* and the index is told of every change.  kind says which index it is.    *)
(***************************************************************************)
EXTENDS HashIndex, GinIndex, BrinIndex, GistIndex, Partition

CONSTANTS TupleIds,
          HashKeys,   \* byte sequences
          Terms,      \* records [word, lower]
          Blocks, Values,
          Coords,     \* even numbers
          MaxPartitions,
          MaxCalls    \* bound: counters and stale lists grow with every call

VARIABLES kind,     \* the index, with its type for GIN
          index,    \* its state
          live,     \* the live rows: tuple id -> what was indexed
          calls,    \* the number of calls so far
          stale     \* the tuple ids whose removal named terms as they were written

ivars == <<kind, index, live, calls, stale>>

GinTypes == {"Array", "FullText", "Jsonb"}

TermLists == {<<t>> : t \in Terms} \cup {<<t, u>> : t, u \in Terms}

Ranges ==
  {r \in [lower : {{}} \cup {{c} : c \in Coords}, upper : {{}} \cup {{c} : c \in Coords},
          lowerIncl : BOOLEAN, upperIncl : BOOLEAN] :
     /\ r.lower = {} => ~r.lowerIncl
     /\ r.upper = {} => ~r.upperIncl
     /\ \A l \in r.lower, u \in r.upper : l < u \/ (l = u /\ r.lowerIncl /\ r.upperIncl)}

Boxes == {b \in [minX : Coords, minY : Coords, maxX : Coords, maxY : Coords] :
            b.minX <= b.maxX /\ b.minY <= b.maxY}

Live == DOMAIN live
Free == TupleIds \ Live
AddRow(tid, what) == live' = [t \in Live \cup {tid} |-> IF t = tid THEN what ELSE live[t]]
DropRow(tid) == live' = Restrict(live, Live \ {tid})

InsertHash(tid, key) ==
  kind = "hash" /\ AddRow(tid, key) /\ index' = HashInsert(index, key, tid) /\ UNCHANGED <<kind, stale>>

DeleteHash(tid) ==
  kind = "hash" /\ DropRow(tid) /\ index' = HashDelete(index, live[tid], tid) /\ UNCHANGED <<kind, stale>>

InsertGin(tid, terms) ==
  /\ kind \in GinTypes
  /\ AddRow(tid, terms)
  /\ index' = GinInsert(index, kind, terms, tid)
  /\ UNCHANGED <<kind, stale>>

\* The row's terms are deleted one by one, as they stand in the row.
DeleteGin(tid) ==
  /\ kind \in GinTypes
  /\ DropRow(tid)
  /\ index' = FoldLeft(LAMBDA m, t : GinDelete(m, t, tid), index, live[tid])
  /\ stale' = IF kind = "FullText" /\ \E i \in DOMAIN live[tid] : ~live[tid][i].lower
              THEN stale \cup {tid} ELSE stale
  /\ UNCHANGED kind

InsertBrin(tid, block, v) ==
  kind = "brin" /\ AddRow(tid, v) /\ index' = BrinInsert(index, block, v, tid) /\ UNCHANGED <<kind, stale>>

DeleteBrin(tid) ==
  kind = "brin" /\ DropRow(tid) /\ index' \in BrinDelete(index, live[tid], tid) /\ UNCHANGED <<kind, stale>>

InsertGist(tid, e) ==
  kind = "gist" /\ AddRow(tid, e) /\ index' = GistInsert(index, e) /\ UNCHANGED <<kind, stale>>

DeleteGist(tid) ==
  kind = "gist" /\ DropRow(tid) /\ index' = GistDelete(index, tid) /\ UNCHANGED <<kind, stale>>

\* Partitions are only ever appended, also when rows have been routed already.
Strategies == {"Range", "List", "Hash"}

Bounds ==
  [Range |-> {{[incl |-> i, at |-> v]} : i \in BOOLEAN, v \in Values},
   List  |-> {{v, w} : v, w \in Values},
   Hash  |-> {h \in [modulus : {1, 2}, remainder : {0, 1}] : h.remainder < h.modulus}]

AddPartition(bound) ==
  /\ kind \in Strategies
  /\ Len(index) < MaxPartitions
  /\ index' = Append(index, bound)
  /\ UNCHANGED <<kind, live, stale>>

\* A row of two columns goes to the partition of its first.
RouteRow(tid, row) ==
  /\ kind \in Strategies
  /\ LET p == FindPartitionForValue(kind, index, row.a)
     IN  p # NoPartition /\ AddRow(tid, [row |-> row, part |-> p])
  /\ UNCHANGED <<kind, index, stale>>

RemoveRouted(tid) == kind \in Strategies /\ DropRow(tid) /\ UNCHANGED <<kind, index, stale>>

\* Enough shapes for every way two of them can lie.
GistEntries(tid) ==
  {Point(x, y, tid) : x, y \in Coords}
    \cup {Box(b.minX, b.minY, b.maxX, b.maxY, tid) : b \in {c \in Boxes : c.minY = c.minX}}
    \cup {RangeEntry(r, tid) : r \in Ranges}

IndexesInit ==
  /\ kind \in {"hash", "brin", "gist"} \cup GinTypes \cup Strategies
  /\ index = CASE kind = "hash" -> NewHashIndex
               [] kind = "brin" -> NewBrinIndex
               [] kind = "gist" -> NewGistIndex
               [] kind \in Strategies -> <<>>
               [] OTHER -> NewGinIndex
  /\ live = [t \in {} |-> {}]
  /\ calls = 0
  /\ stale = {}

IndexesStep ==
  \/ \E tid \in Free :
       \/ \E key \in HashKeys : InsertHash(tid, key)
       \/ \E terms \in TermLists : InsertGin(tid, terms)
       \/ \E b \in Blocks, v \in Values : InsertBrin(tid, b, v)
       \/ \E e \in GistEntries(tid) : InsertGist(tid, e)
       \/ \E v, w \in Values : RouteRow(tid, [a |-> v, b |-> w])
  \/ \E tid \in Live :
       DeleteHash(tid) \/ DeleteGin(tid) \/ DeleteBrin(tid) \/ DeleteGist(tid) \/ RemoveRouted(tid)
  \/ kind \in Strategies /\ \E b \in Bounds[kind] : AddPartition(b)

IndexesNext == calls < MaxCalls /\ IndexesStep /\ calls' = calls + 1

-----------------------------------------------------------------------------
(* Properties *)

Once(s) == Cardinality(Range(s)) = Len(s)

HashExact ==
  kind = "hash" => \A k \in HashKeys :
    /\ Once(HashLookup(index, k))
    /\ Range(HashLookup(index, k)) = {t \in Live : HashValue(live[t]) = HashValue(k)}

Has(tid, term) == \E i \in DOMAIN live[tid] : TermsOf(kind, live[tid])[i] = term

GinExact ==
  kind \in GinTypes =>
    LET Rows(terms) == {t \in Live : \A i \in DOMAIN terms : Has(t, terms[i])}
        AnyRows(terms) == {t \in Live : \E i \in DOMAIN terms : Has(t, terms[i])}
    IN  /\ \A q \in Terms :
             /\ Rows(TermsOf(kind, <<q>>)) \subseteq Range(GinLookup(index, kind, q))
             /\ Range(GinLookup(index, kind, q)) \subseteq Rows(TermsOf(kind, <<q>>)) \cup stale
        /\ \A qs \in TermLists :
             /\ Rows(qs) \subseteq Range(GinContains(index, qs))
             /\ Range(GinContains(index, qs)) \subseteq Rows(qs) \cup stale
             /\ AnyRows(qs) \subseteq Range(GinAnyContains(index, qs))
             /\ Range(GinAnyContains(index, qs)) \subseteq AnyRows(qs) \cup stale
             /\ Once(GinAnyContains(index, qs))

BrinExact ==
  kind = "brin" =>
    /\ \A v \in Values \ NullTexts :
         Range(BrinLookup(index, v)) = {t \in Live : live[t] = v}
    /\ \A v \in Values \cap NullTexts :
         Range(BrinLookup(index, v)) \subseteq {t \in Live : live[t] = v}
    /\ \A lo, hi \in Values :
         LET got == Range(BrinLookupRange(index, lo, hi))
             want == {t \in Live : live[t] \in lo .. hi}
         IN  got \subseteq want /\ \A t \in want \ got : live[t] \in NullTexts

GistExact ==
  kind = "gist" =>
    LET inPlane == {t \in Live : live[t].kind \in {"Point", "Box"}}
        box == BoundingBox(index)
    IN  /\ \A x, y \in Coords :
             Range(QueryPoint(index, x, y)) =
               {t \in inPlane : IF live[t].kind = "Point" THEN live[t].x = x /\ live[t].y = y
                                ELSE ContainsPoint(live[t], x, y)}
        /\ \A q \in Ranges :
             Range(QueryRange(index, q)) =
               {t \in Live : \/ live[t].kind = "Point" /\ RangeContains(q, live[t].x)
                             \/ /\ live[t].kind = "Range"
                                /\ \E v \in 0 .. Max(Coords) + 2 :
                                     RangeContains(q, v) /\ RangeContains(live[t].range, v)}
        /\ inPlane # {} => /\ Range(QueryBox(index, box)) = inPlane
                           /\ \A t \in inPlane : live[t].kind = "Box" => ContainsBox(box, live[t])

\* However rows come and go: the hash index returns the rows whose key has the
\* hash, once each; GIN's three searches return the rows with the terms, and beyond
\* them only rows whose terms were deleted with upper case letters from a full-text
\* index; BRIN's summaries never hide a row that is not null; GiST's overlap test
\* is a common number, and the bounding box covers every point and box.
IndexesExact == HashExact /\ GinExact /\ BrinExact /\ GistExact

Equalities == [op : {"="}, col : {"a", "b"}, val : Values]
Clauses ==
  Equalities \cup [op : {"and", "or"}, l : Equalities, r : Equalities \cup {[op |-> "other"]}]
             \cup {[op |-> "other"]}

\* prune_partitions never drops the partition of a row that the WHERE clause
\* keeps, however many partitions were added after the row was routed; what it
\* leaves is what the selectivity estimate counts.
PruningKeepsRows ==
  kind \in Strategies => \A where \in Clauses :
    LET left == PrunePartitions(kind, {"a"}, index, where)
        est == EstimateSelectivity(kind, {"a"}, index, where)
    IN  /\ \A t \in Live : Satisfies(live[t].row, where) => live[t].part \in left
        /\ index # <<>> => est[1] * Len(index) = est[2] * Cardinality(left)
=============================================================================
