------------------------------ MODULE BufferPool ------------------------------
(***************************************************************************)
(* The buffer pool of src/src/buffer_cache/mod.rs and the calls its        *)
(* clients make on it from several threads.                                *)
(*                                                                         *)
(* buffers and page_map have a mutex each.  Most calls look the page up    *)
(* under one and touch the slot under the other, so the slot index can be  *)
(* stale when it is used; fetch_page holds the buffers mutex while it waits*)
(* for page_map, invalidate_page the other way round.  One step is one     *)
(* critical section; a mutex that is held across steps is a variable.      *)
(*                                                                         *)
(* A page image is a record saying which page it is an image of and in     *)
(* which version, which is all the properties tell apart.                  *)
(***************************************************************************)
EXTENDS Naturals, FiniteSets

CONSTANTS
  Threads,      \* client threads
  Pages,        \* page ids
  Unreadable,   \* pages whose storage read fails (beyond the mapped file)
  PoolSize,     \* number of slots
  Calls,        \* kinds of call the clients make, a subset of CallKinds
  MaxBatch,     \* bound: pages in one fetch_pages_batch
  MaxCalls,     \* bound: calls per thread
  Nobody,       \* a mutex that is free
  NoSlot,       \* page not in page_map
  NoPage        \* page id of a slot that was never filled

CallKinds == {"read", "touch", "update", "pin", "invalidate", "flush_all",
              "flush_dirty"}

ASSUME PoolConstants ==
  /\ PoolSize \in Nat \ {0}
  /\ Unreadable \subseteq Pages
  /\ Calls \subseteq CallKinds
  /\ MaxBatch \in Nat \ {0}
  /\ MaxCalls \in Nat
  /\ NoPage \notin Pages
  /\ NoSlot \notin 0 .. PoolSize - 1
  /\ Nobody \notin Threads

Slots == 0 .. PoolSize - 1

VARIABLES
  buffers,      \* slot -> page_id, data, is_dirty, usage_count, pin_count
  page_map,     \* page -> slot
  next_victim,  \* the clock hand
  storage,      \* page -> image
  map_lock,     \* holder of the page_map mutex between steps
  buf_lock,     \* holder of the buffers mutex between steps
  pc,           \* thread -> where it is inside its call
  call,         \* thread -> the call and its locals
  returned,     \* thread -> images its last read returned
  budget        \* thread -> calls it may still make

vars == <<buffers, page_map, next_victim, storage, map_lock, buf_lock,
          pc, call, returned, budget>>

Image(p, v) == [of |-> p, ver |-> v]

NoCall == [kind |-> "none", page |-> NoPage, todo |-> {}, got |-> <<>>,
           slot |-> NoSlot, data |-> Image(NoPage, 0)]

Init ==
  /\ buffers = [s \in Slots |->
       [page_id |-> NoPage, data |-> Image(NoPage, 0), is_dirty |-> FALSE,
        usage_count |-> 0, pin_count |-> 0]]
  /\ page_map = [p \in Pages |-> NoSlot]
  /\ next_victim = 0
  /\ storage = [p \in Pages |-> Image(p, 0)]
  /\ map_lock = Nobody
  /\ buf_lock = Nobody
  /\ pc = [t \in Threads |-> "idle"]
  /\ call = [t \in Threads |-> NoCall]
  /\ returned = [t \in Threads |-> <<>>]
  /\ budget = [t \in Threads |-> MaxCalls]

(* Moving a thread on inside its call, with its locals. *)
Goto(t, where, locals) ==
  /\ pc' = [pc EXCEPT ![t] = where]
  /\ call' = [call EXCEPT ![t] = locals]

Finish(t) == Goto(t, "idle", NoCall)

------------------------------------------------------------------------------
(* Clients begin a call.  "read" is SharedBufferCache::fetch_page and      *)
(* fetch_pages_batch, which never unpin; "touch" and "update" fetch and    *)
(* unpin, clean or dirty.                                                  *)

Begin(t, kind, where, pages) ==
  /\ kind \in Calls
  /\ pc[t] = "idle"
  /\ budget[t] > 0
  /\ budget' = [budget EXCEPT ![t] = @ - 1]
  /\ \E p \in pages :
       Goto(t, where, [NoCall EXCEPT !.kind = kind, !.page = p, !.todo = pages])
  /\ UNCHANGED <<buffers, page_map, next_victim, storage, map_lock, buf_lock,
                 returned>>

BeginRead(t) ==
  \E P \in SUBSET Pages :
    Cardinality(P) \in 1 .. MaxBatch /\ Begin(t, "read", "lookup", P)

BeginFetch(t) ==
  \E p \in Pages, kind \in {"touch", "update"} : Begin(t, kind, "lookup", {p})

BeginPin(t) == \E p \in Pages : Begin(t, "pin", "pin_lookup", {p})

BeginInvalidate(t) ==
  \E p \in Pages : Begin(t, "invalidate", "unmap_page", {p})

------------------------------------------------------------------------------
(* find_victim: the clock sweep of at most two rounds over the slots, then *)
(* the first unpinned slot, then slot 0 whatever its pin count.            *)

SweepStep(r) ==
  LET b == r.bufs[r.hand]
      next == (r.hand + 1) % PoolSize
  IN  CASE r.victim # NoSlot -> r
        [] r.victim = NoSlot /\ b.pin_count > 0 -> [r EXCEPT !.hand = next]
        [] r.victim = NoSlot /\ b.pin_count = 0 /\ b.usage_count > 0 ->
             [r EXCEPT !.hand = next, !.bufs[r.hand].usage_count = @ - 1]
        [] OTHER -> [r EXCEPT !.hand = next, !.victim = r.hand]

Sweep(bufs, start) ==
  LET round[k \in 0 .. 2 * PoolSize] ==
        IF k = 0 THEN [bufs |-> bufs, hand |-> start, victim |-> NoSlot]
                 ELSE SweepStep(round[k - 1])
  IN  round[2 * PoolSize]

Unpinned(bufs) == {s \in Slots : bufs[s].pin_count = 0}

(* Mutant of find_victim: the fallback does not look at pin counts.        *)
find_victim_any(bufs, hand) ==
  LET swept == Sweep(bufs, hand)
  IN  IF swept.victim # NoSlot
      THEN swept
      ELSE [bufs |-> swept.bufs, hand |-> hand, victim |-> 0]

find_victim(bufs, hand) ==
  LET swept == Sweep(bufs, hand)
      free == Unpinned(swept.bufs)
      first == CHOOSE s \in free : \A r \in free : s <= r
  IN  CASE swept.victim # NoSlot -> swept
        [] swept.victim = NoSlot /\ free # {} ->
             [bufs |-> swept.bufs, hand |-> (first + 1) % PoolSize, victim |-> first]
        [] OTHER -> [bufs |-> swept.bufs, hand |-> hand, victim |-> 0]

------------------------------------------------------------------------------
(* fetch_page *)

(* The map is consulted and its mutex dropped.                             *)
FetchLookup(t) ==
  /\ pc[t] = "lookup"
  /\ map_lock = Nobody
  /\ LET idx == page_map[call[t].page]
     IN  Goto(t, IF idx # NoSlot THEN "hit" ELSE "miss", [call[t] EXCEPT !.slot = idx])
  /\ UNCHANGED <<buffers, page_map, next_victim, storage, map_lock, buf_lock,
                 returned, budget>>

(* fetch_page returns slot s: the batch goes on with the next page, and a  *)
(* finished batch goes on to the client's use of the slots.                *)
Fetched(t, s) ==
  LET c == call[t]
      rest == c.todo \ {c.page}
      got == [q \in {c.page} \cup DOMAIN c.got |-> IF q = c.page THEN s ELSE c.got[q]]
  IN  IF rest # {}
      THEN \E p \in rest :
             Goto(t, "lookup", [c EXCEPT !.page = p, !.todo = rest, !.got = got])
      ELSE Goto(t, CASE c.kind = "read" -> "clone"
                     [] c.kind = "update" -> "modify"
                     [] c.kind = "touch" -> "unpin_lookup",
                [c EXCEPT !.todo = {}, !.got = got])

FetchHit(t) ==
  /\ pc[t] = "hit"
  /\ buf_lock = Nobody
  /\ buffers' = [buffers EXCEPT ![call[t].slot].usage_count = @ + 1,
                                ![call[t].slot].pin_count = @ + 1]
  /\ Fetched(t, call[t].slot)
  /\ UNCHANGED <<page_map, next_victim, storage, map_lock, buf_lock, returned,
                 budget>>

(* Mutant of FetchMiss: the victim is not written back.                    *)
FetchMissNoWriteBack(t) ==
  /\ pc[t] = "miss"
  /\ buf_lock = Nobody
  /\ call[t].page \notin Unreadable
  /\ LET found == find_victim(buffers, next_victim)
         old == found.bufs[found.victim]
     IN  /\ buffers' = found.bufs
         /\ next_victim' = found.hand
         /\ Goto(t, IF old.is_dirty /\ old.pin_count = 0 THEN "unmap_old" ELSE "install",
                 [call[t] EXCEPT !.slot = found.victim,
                                 !.data = storage[call[t].page]])
  /\ buf_lock' = t
  /\ UNCHANGED <<page_map, storage, map_lock, returned, budget>>

(* A miss takes the buffers mutex, picks the victim and reads the page; a  *)
(* dirty unpinned victim is written back at once.                          *)
FetchMiss(t) ==
  /\ pc[t] = "miss"
  /\ buf_lock = Nobody
  /\ call[t].page \notin Unreadable
  /\ LET found == find_victim(buffers, next_victim)
         old == found.bufs[found.victim]
         evict == old.is_dirty /\ old.pin_count = 0
     IN  /\ buffers' = found.bufs
         /\ next_victim' = found.hand
         /\ storage' = IF evict THEN [storage EXCEPT ![old.page_id] = old.data]
                                ELSE storage
         /\ Goto(t, IF evict THEN "unmap_old" ELSE "install",
                 [call[t] EXCEPT !.slot = found.victim,
                                 !.data = storage[call[t].page]])
  /\ buf_lock' = t
  /\ UNCHANGED <<page_map, map_lock, returned, budget>>

(* read_page fails: the sweep has already aged the slots; the batch ends.  *)
FetchMissFails(t) ==
  /\ pc[t] = "miss"
  /\ buf_lock = Nobody
  /\ call[t].page \in Unreadable
  /\ LET found == find_victim(buffers, next_victim)
     IN  buffers' = found.bufs /\ next_victim' = found.hand
  /\ Finish(t)
  /\ UNCHANGED <<page_map, storage, map_lock, buf_lock, returned, budget>>

(* Only a victim that was written back leaves the map.                     *)
FetchUnmapOld(t) ==
  /\ pc[t] = "unmap_old"
  /\ map_lock = Nobody
  /\ page_map' = [page_map EXCEPT ![buffers[call[t].slot].page_id] = NoSlot]
  /\ Goto(t, "install", call[t])
  /\ UNCHANGED <<buffers, next_victim, storage, map_lock, buf_lock, returned,
                 budget>>

(* Mutant of FetchInstall: the page is mapped to the clock hand, one slot  *)
(* past the victim.                                                        *)
FetchInstallMapsHand(t) ==
  /\ pc[t] = "install"
  /\ map_lock = Nobody
  /\ buffers' = [buffers EXCEPT ![call[t].slot] =
       [page_id |-> call[t].page, data |-> call[t].data, is_dirty |-> FALSE,
        usage_count |-> 1, pin_count |-> 1]]
  /\ page_map' = [page_map EXCEPT ![call[t].page] = next_victim]
  /\ buf_lock' = Nobody
  /\ Fetched(t, call[t].slot)
  /\ UNCHANGED <<next_victim, storage, map_lock, returned, budget>>

FetchInstall(t) ==
  /\ pc[t] = "install"
  /\ map_lock = Nobody
  /\ buffers' = [buffers EXCEPT ![call[t].slot] =
       [page_id |-> call[t].page, data |-> call[t].data, is_dirty |-> FALSE,
        usage_count |-> 1, pin_count |-> 1]]
  /\ page_map' = [page_map EXCEPT ![call[t].page] = call[t].slot]
  /\ buf_lock' = Nobody
  /\ Fetched(t, call[t].slot)
  /\ UNCHANGED <<next_victim, storage, map_lock, returned, budget>>

------------------------------------------------------------------------------
(* What the clients do with the fetched slots *)

(* Mutant of CloneData: a batch is answered from the last slot fetched.    *)
CloneDataLastSlot(t) ==
  /\ pc[t] = "clone"
  /\ buf_lock = Nobody
  /\ returned' = [returned EXCEPT ![t] =
       [p \in DOMAIN call[t].got |-> buffers[call[t].got[call[t].page]].data]]
  /\ Finish(t)
  /\ UNCHANGED <<buffers, page_map, next_victim, storage, map_lock, buf_lock,
                 budget>>

(* SharedBufferCache locks the pool again and clones the slots' data.      *)
CloneData(t) ==
  /\ pc[t] = "clone"
  /\ buf_lock = Nobody
  /\ returned' = [returned EXCEPT ![t] =
       [p \in DOMAIN call[t].got |-> buffers[call[t].got[p]].data]]
  /\ Finish(t)
  /\ UNCHANGED <<buffers, page_map, next_victim, storage, map_lock, buf_lock,
                 budget>>

(* A writer changes its page through lock_pool and unpins it dirty.        *)
ModifyData(t) ==
  /\ pc[t] = "modify"
  /\ buf_lock = Nobody
  /\ buffers' = [buffers EXCEPT ![call[t].got[call[t].page]].data =
                   Image(call[t].page, @.ver + 1)]
  /\ Goto(t, "unpin_lookup", call[t])
  /\ UNCHANGED <<page_map, next_victim, storage, map_lock, buf_lock, returned,
                 budget>>

(* unpin_page, pin_page and flush_page look the slot up in page_map and    *)
(* then lock the buffers; a page that is not mapped is left alone.         *)
SlotLookup(t, from, to) ==
  /\ pc[t] = from
  /\ map_lock = Nobody
  /\ LET idx == page_map[call[t].page]
     IN  IF idx = NoSlot THEN Finish(t) ELSE Goto(t, to, [call[t] EXCEPT !.slot = idx])
  /\ UNCHANGED <<buffers, page_map, next_victim, storage, map_lock, buf_lock,
                 returned, budget>>

UnpinLookup(t) == SlotLookup(t, "unpin_lookup", "unpin")

UnpinSlot(t) ==
  /\ pc[t] = "unpin"
  /\ buf_lock = Nobody
  /\ buffers' = [buffers EXCEPT
       ![call[t].slot].pin_count = IF @ > 0 THEN @ - 1 ELSE 0,
       ![call[t].slot].is_dirty = @ \/ call[t].kind = "update"]
  /\ Finish(t)
  /\ UNCHANGED <<page_map, next_victim, storage, map_lock, buf_lock, returned,
                 budget>>

PinLookup(t) == SlotLookup(t, "pin_lookup", "pin")

PinSlot(t) ==
  /\ pc[t] = "pin"
  /\ buf_lock = Nobody
  /\ buffers' = [buffers EXCEPT ![call[t].slot].pin_count = @ + 1,
                                ![call[t].slot].usage_count = @ + 1]
  /\ Finish(t)
  /\ UNCHANGED <<page_map, next_victim, storage, map_lock, buf_lock, returned,
                 budget>>

------------------------------------------------------------------------------
(* invalidate_page keeps the page_map mutex while it waits for buffers.    *)

InvalidateUnmap(t) ==
  /\ pc[t] = "unmap_page"
  /\ map_lock = Nobody
  /\ LET idx == page_map[call[t].page]
     IN  IF idx = NoSlot
         THEN Finish(t) /\ UNCHANGED <<page_map, map_lock>>
         ELSE /\ page_map' = [page_map EXCEPT ![call[t].page] = NoSlot]
              /\ map_lock' = t
              /\ Goto(t, "reset", [call[t] EXCEPT !.slot = idx])
  /\ UNCHANGED <<buffers, next_victim, storage, buf_lock, returned, budget>>

InvalidateReset(t) ==
  /\ pc[t] = "reset"
  /\ buf_lock = Nobody
  /\ buffers' = [buffers EXCEPT ![call[t].slot].is_dirty = FALSE,
                                ![call[t].slot].usage_count = 0,
                                ![call[t].slot].pin_count = 0]
  /\ map_lock' = Nobody
  /\ Finish(t)
  /\ UNCHANGED <<page_map, next_victim, storage, buf_lock, returned, budget>>

------------------------------------------------------------------------------
(* flush_all and flush_dirty_pages walk a clone of the map; the latter     *)
(* first looks at the dirty flag of the slot the clone names.  Both then   *)
(* call flush_page, which looks the page up afresh.                        *)

BeginFlush(t, kind, where) ==
  /\ kind \in Calls
  /\ pc[t] = "idle"
  /\ budget[t] > 0
  /\ map_lock = Nobody
  /\ budget' = [budget EXCEPT ![t] = @ - 1]
  /\ LET mapped == {p \in Pages : page_map[p] # NoSlot}
     IN  \E p \in mapped :
           Goto(t, where, [NoCall EXCEPT !.kind = kind, !.page = p, !.todo = mapped,
                             !.got = [q \in mapped |-> page_map[q]]])
  /\ UNCHANGED <<buffers, page_map, next_victim, storage, map_lock, buf_lock,
                 returned>>

(* Mutant of NextFlush: the walk over the map starts over.                 *)
NextFlushAgain(t) ==
  \E p \in call[t].todo :
    Goto(t, IF call[t].kind = "flush_all" THEN "flush_lookup" ELSE "flush_check",
         [call[t] EXCEPT !.page = p])

(* The walk goes on with the next page of the cloned map.                  *)
NextFlush(t) ==
  LET c == call[t]
      rest == c.todo \ {c.page}
  IN  IF rest = {}
      THEN Finish(t)
      ELSE \E p \in rest :
             Goto(t, IF c.kind = "flush_all" THEN "flush_lookup" ELSE "flush_check",
                  [c EXCEPT !.page = p, !.todo = rest])

FlushCheck(t) ==
  /\ pc[t] = "flush_check"
  /\ buf_lock = Nobody
  /\ IF buffers[call[t].got[call[t].page]].is_dirty
     THEN Goto(t, "flush_lookup", call[t])
     ELSE NextFlush(t)
  /\ UNCHANGED <<buffers, page_map, next_victim, storage, map_lock, buf_lock,
                 returned, budget>>

FlushLookup(t) ==
  /\ pc[t] = "flush_lookup"
  /\ map_lock = Nobody
  /\ LET idx == page_map[call[t].page]
     IN  IF idx = NoSlot THEN NextFlush(t)
                         ELSE Goto(t, "flush", [call[t] EXCEPT !.slot = idx])
  /\ UNCHANGED <<buffers, page_map, next_victim, storage, map_lock, buf_lock,
                 returned, budget>>

(* The image is written under the page id of the caller, not the slot's.   *)
FlushSlot(t) ==
  /\ pc[t] = "flush"
  /\ buf_lock = Nobody
  /\ LET b == buffers[call[t].slot]
     IN  IF b.is_dirty
         THEN /\ storage' = [storage EXCEPT ![call[t].page] = b.data]
              /\ buffers' = [buffers EXCEPT ![call[t].slot].is_dirty = FALSE]
         ELSE UNCHANGED <<storage, buffers>>
  /\ NextFlush(t)
  /\ UNCHANGED <<page_map, next_victim, map_lock, buf_lock, returned, budget>>

------------------------------------------------------------------------------
Fetch(t) ==
  FetchLookup(t) \/ FetchHit(t) \/ FetchMiss(t) \/ FetchMissFails(t)
    \/ FetchUnmapOld(t) \/ FetchInstall(t)

Step(t) ==
  \/ Fetch(t) \/ CloneData(t) \/ ModifyData(t)
  \/ UnpinLookup(t) \/ UnpinSlot(t) \/ PinLookup(t) \/ PinSlot(t)
  \/ InvalidateUnmap(t) \/ InvalidateReset(t)
  \/ FlushCheck(t) \/ FlushLookup(t) \/ FlushSlot(t)

Start(t) ==
  \/ BeginRead(t) \/ BeginFetch(t) \/ BeginPin(t) \/ BeginInvalidate(t)
  \/ BeginFlush(t, "flush_all", "flush_lookup")
  \/ BeginFlush(t, "flush_dirty", "flush_check")

(* All clients are between calls; there may be none left to make.          *)
Rest == (\A t \in Threads : pc[t] = "idle") /\ UNCHANGED vars

Next == (\E t \in Threads : Start(t) \/ Step(t)) \/ Rest

Spec == Init /\ [][Next]_vars

(* parking_lot mutexes are eventually fair, so a thread that finds a mutex *)
(* free again and again gets it.                                           *)
FairSpec == Spec /\ \A t \in Threads : SF_vars(Step(t))

------------------------------------------------------------------------------
(* Slots, map and mutexes hold what the code can put there, and a mutex is *)
(* kept across steps only at the places that keep it.                      *)
TypeOK ==
  /\ \A s \in Slots :
       /\ buffers[s].page_id \in Pages \cup {NoPage}
       /\ buffers[s].is_dirty \in BOOLEAN
       /\ buffers[s].usage_count \in Nat
       /\ buffers[s].pin_count \in Nat
  /\ page_map \in [Pages -> Slots \cup {NoSlot}]
  /\ next_victim \in Slots
  /\ \A t \in Threads :
       /\ buf_lock = t <=> pc[t] \in {"unmap_old", "install"}
       /\ map_lock = t <=> pc[t] = "reset"

(* find_victim gives up a pinned page only when every slot is pinned; no   *)
(* hit, pin or invalidation by another thread comes between the choice and *)
(* the replacement.                                                        *)
PinnedVictimOnlyWhenFull ==
  [][\A s \in Slots :
       (buffers'[s].page_id # buffers[s].page_id /\ buffers[s].pin_count > 0)
         => Unpinned(buffers) = {}]_vars

(* The slot of an unpinned dirty page is reused only after the page's image*)
(* has reached storage (fetch_page's write-back precedes its install).     *)
WriteBackBeforeReuse ==
  [][\A s \in Slots :
       (/\ buffers'[s].page_id # buffers[s].page_id
        /\ buffers[s].is_dirty /\ buffers[s].pin_count = 0)
         => storage[buffers[s].page_id] = buffers[s].data]_vars

(* Whatever SharedBufferCache::fetch_page or fetch_pages_batch returns for *)
(* a page is an image of that page.                                        *)
ReadsReturnRequestedPage ==
  \A t \in Threads : \A p \in DOMAIN returned[t] : returned[t][p].of = p

(* A page's current image is the mapped slot's, or else storage's.         *)
Current(p) == IF page_map[p] = NoSlot THEN storage[p] ELSE buffers[page_map[p]].data

(* One thread has made all the calls so far.                               *)
Alone == \E t \in Threads : \A u \in Threads \ {t} : budget[u] = MaxCalls

(* Every mapped page is in the slot page_map names for it.  The code gives *)
(* this up where it replaces a page that stays mapped: a victim is unmapped*)
(* only if it was dirty and unpinned.                                      *)
MapAgrees == \A p \in Pages : page_map[p] # NoSlot => buffers[page_map[p]].page_id = p

(* Nothing in the pool is in the wrong place: besides the map, every image *)
(* is in a slot, or in storage, of its own page, and a dirty slot is found *)
(* through the map until it is replaced or reset.                          *)
SlotsAgree ==
  /\ \A p \in Pages : storage[p].of = p
  /\ \A s \in Slots : LET b == buffers[s] IN
       /\ b.page_id # NoPage => b.data.of = b.page_id
       /\ b.is_dirty => \/ b.page_id \in Pages /\ page_map[b.page_id] = s
                       \/ \E t \in Threads : pc[t] \in {"install", "reset"} /\ call[t].slot = s

(* What a call found under one mutex still holds when it uses it under the *)
(* other.                                                                  *)
CallAgrees(t) ==
  LET p == call[t].page IN
  /\ pc[t] \in {"hit", "unpin", "pin", "flush"} => page_map[p] = call[t].slot
  /\ pc[t] = "modify" => page_map[p] = call[t].got[p]
  /\ pc[t] \in {"miss", "unmap_old", "install"} => page_map[p] = NoSlot
  /\ pc[t] \in {"unmap_old", "install"} => call[t].data = storage[p]
  /\ pc[t] = "unmap_old" => LET b == buffers[call[t].slot] IN
       page_map[b.page_id] = call[t].slot /\ storage[b.page_id] = b.data

Coherent == MapAgrees /\ SlotsAgree /\ \A t \in Threads : CallAgrees(t)

(* A pool that one thread has to itself stays coherent for as long as the  *)
(* map agrees with the slots, and as long as it is, a page never goes back *)
(* to an older version or to another page's image: no eviction, flush or   *)
(* refetch loses an update that was unpinned dirty.  Only invalidate_page  *)
(* may drop what was not flushed.                                          *)
NoUpdateLost ==
  [][Alone' /\ Coherent /\ MapAgrees' =>
       /\ Coherent'
       /\ \A p \in Pages :
            \/ Current(p)'.of = p /\ Current(p)'.ver >= Current(p).ver
            \/ \E t \in Threads : pc[t] = "unmap_page" /\ call[t].page = p]_vars

(* No two threads wait for each other's mutex: fetch_page's "callers can   *)
(* iterate without deadlocking".                                           *)
NoLockOrderCycle ==
  ~ (map_lock # Nobody /\ buf_lock # Nobody)

(* Every call that was begun returns.                                      *)
CallsReturn == \A t \in Threads : pc[t] # "idle" ~> pc[t] = "idle"
==============================================================================
