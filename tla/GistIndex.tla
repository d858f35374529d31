----------------------------- MODULE GistIndex ------------------------------
(***************************************************************************)
(* src/btree/gist_index.rs: a list of points, boxes and ranges, searched   *)
(* from end to end.  Coordinates are even numbers, so that every number    *)
(* between two of them has a whole one to stand for it.  An optional bound *)
(* of a range is a set of at most one number.                              *)
(***************************************************************************)
EXTENDS Naturals, Sequences, SequencesExt, FiniteSetsExt

NewGistIndex == <<>>

Point(x, y, tid) == [kind |-> "Point", x |-> x, y |-> y, tid |-> tid]
Box(x1, y1, x2, y2, tid) ==
  [kind |-> "Box", minX |-> x1, minY |-> y1, maxX |-> x2, maxY |-> y2, tid |-> tid]
RangeEntry(range, tid) == [kind |-> "Range", range |-> range, tid |-> tid]

\* insert_point, insert_box and insert_range
GistInsert(entries, e) == Append(entries, e)

ContainsPoint(box, x, y) ==
  x >= box.minX /\ x <= box.maxX /\ y >= box.minY /\ y <= box.maxY

Intersects(a, b) ==
  a.minX <= b.maxX /\ a.maxX >= b.minX /\ a.minY <= b.maxY /\ a.maxY >= b.minY

ContainsBox(a, b) ==
  a.minX <= b.minX /\ a.maxX >= b.maxX /\ a.minY <= b.minY /\ a.maxY >= b.maxY

RangeContains(r, v) ==
  /\ \A l \in r.lower : IF r.lowerIncl THEN v >= l ELSE v > l
  /\ \A u \in r.upper : IF r.upperIncl THEN v <= u ELSE v < u

\* A range ends where or after the other begins; touching ends must both be
\* inclusive.
EndsMeet(lower, lowerIncl, upper, upperIncl) ==
  \A l \in lower, u \in upper : IF lowerIncl /\ upperIncl THEN l <= u ELSE l < u

Overlaps(a, b) ==
  /\ EndsMeet(a.lower, a.lowerIncl, b.upper, b.upperIncl)
  /\ EndsMeet(b.lower, b.lowerIncl, a.upper, a.upperIncl)

Tids(entries) == [i \in 1 .. Len(entries) |-> entries[i].tid]

QueryPoint(entries, x, y) ==
  Tids(SelectSeq(entries, LAMBDA e : \/ e.kind = "Point" /\ e.x = x /\ e.y = y
                                     \/ e.kind = "Box" /\ ContainsPoint(e, x, y)))

QueryBox(entries, box) ==
  Tids(SelectSeq(entries, LAMBDA e : \/ e.kind = "Point" /\ ContainsPoint(box, e.x, e.y)
                                     \/ e.kind = "Box" /\ Intersects(e, box)))

\* A point answers a range query with its x.
QueryRange(entries, range) ==
  Tids(SelectSeq(entries, LAMBDA e : \/ e.kind = "Range" /\ Overlaps(e.range, range)
                                     \/ e.kind = "Point" /\ RangeContains(range, e.x)))

GistDelete(entries, tid) ==
  LET pos == SelectInSeq(entries, LAMBDA e : e.tid = tid)
  IN  IF pos = 0 THEN entries ELSE RemoveAt(entries, pos)

\* compute_bounding_box: of the points and boxes; NoBox when there is none.
NoBox == [minX |-> 0]

BoundingBox(entries) ==
  LET es == {entries[i] : i \in 1 .. Len(entries)}
      ps == {e \in es : e.kind = "Point"}
      bs == {e \in es : e.kind = "Box"}
  IN  IF ps \cup bs = {} THEN NoBox
      ELSE [minX |-> Min({p.x : p \in ps} \cup {b.minX : b \in bs}),
            minY |-> Min({p.y : p \in ps} \cup {b.minY : b \in bs}),
            maxX |-> Max({p.x : p \in ps} \cup {b.maxX : b \in bs}),
            maxY |-> Max({p.y : p \in ps} \cup {b.maxY : b \in bs})]
=============================================================================
