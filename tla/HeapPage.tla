------------------------------ MODULE HeapPage ------------------------------
(***************************************************************************)
(* The slotted page of storage/heap_page.rs: line pointers grow from the   *)
(* header upwards, tuples from the end of the page downwards.  Sizes are   *)
(* constants so that a page of a few bytes fills up.  A tuple is any       *)
(* record with a field len (its encoded length); its bytes are not         *)
(* modelled, but where they lie on the page is.  Slots count from 1.       *)
(***************************************************************************)
EXTENDS Integers, Sequences, FiniteSets

CONSTANTS PageSize, PageHeaderSize, LinePointerSize

ASSUME PageConstants ==
    /\ PageSize \in Nat /\ PageHeaderSize \in Nat /\ PageHeaderSize <= PageSize
    /\ LinePointerSize \in Nat \ {0}

LP_NORMAL == 0
LP_REDIRECT == 1
LP_DEAD == 2

\* The empty byte vector deserialize leaves in a slot that stores nothing.
EmptyTuple == [len |-> 0]

\* HeapPage::new
NewPage == [lower |-> PageHeaderSize, upper |-> PageSize,
            line_pointers |-> << >>, tuples |-> << >>]

LinePointer(offset) == [lp_offset |-> offset, lp_flags |-> LP_NORMAL]

Slots(p) == DOMAIN p.line_pointers

IsNormal(p, i) == p.line_pointers[i].lp_flags = LP_NORMAL

\* A slot whose tuple serialize copies to the page.
IsStored(p, i) == IsNormal(p, i) /\ i <= Len(p.tuples) /\ p.tuples[i].len > 0

\* Bytes taken by the stored tuples of the slots up to n.
StoredLength(p, n) ==
    LET sum[i \in 0..n] ==
          IF i = 0 THEN 0
          ELSE sum[i - 1] + (IF IsStored(p, i) THEN p.tuples[i].len ELSE 0)
    IN  sum[n]

(***************************************************************************)
(* serialize: tuples are laid out again from the end of the page, in slot  *)
(* order, and every pointer that is not normal loses its offset.  `area`   *)
(* is what the bytes between upper and the end of the page hold.           *)
(***************************************************************************)
Serialize(p) ==
    LET n == Len(p.line_pointers)
        offset(i) == PageSize - StoredLength(p, i)
    IN  [lower |-> PageHeaderSize + n * LinePointerSize,
         upper |-> PageSize - StoredLength(p, n),
         line_pointers |->
            [i \in 1..n |->
               [p.line_pointers[i] EXCEPT
                  !.lp_offset = CASE IsStored(p, i) -> offset(i)
                                  [] IsNormal(p, i) /\ ~IsStored(p, i) -> @
                                  [] OTHER -> 0]],
         area |-> {[start |-> offset(i), end |-> offset(i) + p.tuples[i].len,
                    tuple |-> p.tuples[i]] : i \in {j \in 1..n : IsStored(p, j)}}]

\* Mutant of Deserialize: the end is taken from the pointer before, of any kind.
Deserialize_PreviousPointer(img) ==
    LET n == Len(img.line_pointers)
        start(i) == img.line_pointers[i].lp_offset
        end(i) == IF i = 1 THEN PageSize ELSE img.line_pointers[i - 1].lp_offset
        found(i) == {a \in img.area : a.start = start(i) /\ a.end = end(i)}
    IN  [lower |-> img.lower, upper |-> img.upper, line_pointers |-> img.line_pointers,
         tuples |-> [i \in 1..n |-> IF IsNormal(img, i) /\ found(i) # {}
                                    THEN (CHOOSE a \in found(i) : TRUE).tuple
                                    ELSE EmptyTuple]]

(***************************************************************************)
(* deserialize: a tuple ends where the nearest normal pointer before it    *)
(* starts.  Bytes that are not exactly a stored tuple do not decode.       *)
(***************************************************************************)
Deserialize(img) ==
    LET n == (img.lower - PageHeaderSize) \div LinePointerSize
        normalBefore(i) == {j \in 1..(i - 1) : IsNormal(img, j)}
        start(i) == img.line_pointers[i].lp_offset
        end(i) == IF normalBefore(i) = {} THEN PageSize
                  ELSE img.line_pointers[CHOOSE j \in normalBefore(i) :
                                           \A k \in normalBefore(i) : k <= j].lp_offset
        found(i) == {a \in img.area : a.start = start(i) /\ a.end = end(i)}
    IN  [lower |-> img.lower, upper |-> img.upper,
         line_pointers |-> SubSeq(img.line_pointers, 1, n),
         tuples |-> [i \in 1..n |->
                       IF IsNormal(img, i) /\ start(i) < end(i) /\ end(i) <= PageSize
                            /\ found(i) # {}
                       THEN (CHOOSE a \in found(i) : TRUE).tuple
                       ELSE EmptyTuple]]

DeadSlots(p) == {i \in Slots(p) : p.line_pointers[i].lp_flags = LP_DEAD}

(***************************************************************************)
(* The subtraction pd_upper - len is done on usize before the free space   *)
(* is compared: a tuple longer than pd_upper makes it underflow, and the   *)
(* task panics (in a release build one call later, in serialize).          *)
(***************************************************************************)
Underflows(p, t) == t.len > p.upper

\* add_tuple, when the subtraction is defined: slot 0 stands for None.
AddTuple(p, t) ==
    LET reuse == DeadSlots(p)
        idx == CHOOSE i \in reuse : \A j \in reuse : i <= j
        newUpper == p.upper - t.len
        newLower == p.lower + (IF reuse = {} THEN LinePointerSize ELSE 0)
    IN  IF newLower > newUpper
        THEN [page |-> p, slot |-> 0]
        ELSE IF reuse # {}
        THEN [page |-> [p EXCEPT !.line_pointers[idx] = LinePointer(newUpper),
                                 !.tuples[idx] = t, !.upper = newUpper],
              slot |-> idx]
        ELSE [page |-> [lower |-> newLower, upper |-> newUpper,
                        line_pointers |-> Append(p.line_pointers, LinePointer(newUpper)),
                        tuples |-> Append(p.tuples, t)],
              slot |-> Len(p.line_pointers) + 1]

\* Mutant of HotUpdate: the old slot stays normal.
HotUpdate_KeepsOld(p, old, t) == AddTuple(p, t)

\* hot_update: the new version goes on the same page, the old slot redirects to it.
HotUpdate(p, old, t) ==
    LET newLower == p.lower + LinePointerSize
        newUpper == p.upper - t.len
        new == Len(p.line_pointers) + 1
    IN  IF \/ old \notin Slots(p)
           \/ ~IsNormal(p, old)
           \/ newLower > newUpper
        THEN [page |-> p, slot |-> 0]
        ELSE [page |-> [lower |-> newLower, upper |-> newUpper,
                        line_pointers |->
                          Append([p.line_pointers EXCEPT
                                    ![old] = [lp_offset |-> new, lp_flags |-> LP_REDIRECT]],
                                 LinePointer(newUpper)),
                        tuples |-> Append(p.tuples, t)],
              slot |-> new]

\* compact: drops the dead slots, so that later slots move down.
Compact(p) ==
    LET kept == {i \in Slots(p) : p.line_pointers[i].lp_flags # LP_DEAD}
        nth(k) == CHOOSE i \in kept : Cardinality({j \in kept : j <= i}) = k
        n == Cardinality(kept)
        q == [lower |-> PageHeaderSize + n * LinePointerSize, upper |-> 0,
              line_pointers |-> [k \in 1..n |-> p.line_pointers[nth(k)]],
              tuples |-> [k \in 1..n |-> IF nth(k) <= Len(p.tuples)
                                         THEN p.tuples[nth(k)] ELSE EmptyTuple]]
    IN  [q EXCEPT !.upper = PageSize - StoredLength(q, n)]

MarkDead(p, dead) ==
    [p EXCEPT !.line_pointers =
        [i \in Slots(p) |-> IF i \in dead THEN [@[i] EXCEPT !.lp_flags = LP_DEAD] ELSE @[i]]]

\* prune: a slot is dead when the word it takes for xmax is below the cutoff.
PruneDead(p, cutoff) ==
    {i \in Slots(p) : /\ IsStored(p, i)
                      /\ p.tuples[i].xmax # 0
                      /\ p.tuples[i].xmax < cutoff}

Prune(p, cutoff) ==
    IF PruneDead(p, cutoff) = {} THEN p ELSE Compact(MarkDead(p, PruneDead(p, cutoff)))

\* follow_chain: 0 stands for None; a walk longer than the slots is a loop.
FollowChain(p, first) ==
    LET at[k \in 0..Len(p.line_pointers)] ==
          IF k = 0 THEN first
          ELSE IF at[k - 1] \in Slots(p)
                    /\ p.line_pointers[at[k - 1]].lp_flags = LP_REDIRECT
               THEN p.line_pointers[at[k - 1]].lp_offset
               ELSE at[k - 1]
        last == at[Len(p.line_pointers)]
    IN  IF last \in Slots(p) /\ IsNormal(p, last) THEN last ELSE 0

=============================================================================
