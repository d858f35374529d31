-------------------------- MODULE BufferPool_proofs --------------------------
(***************************************************************************)
(* Proofs about the buffer pool.  PoolInv holds for every pool and every   *)
(* mix of calls and gives the two action properties about victims.  With   *)
(* room for every page each thread may miss, RoomInv says that no slot is  *)
(* ever used twice, from which it follows that a read returns its page.    *)
(* In a pool one thread has to itself Coherent is kept for as long as the  *)
(* map agrees with the slots, and no update is lost.                       *)
(***************************************************************************)
EXTENDS BufferPool, FiniteSetTheorems, WellFoundedInduction, TLAPS

------------------------------------------------------------------------------
(* Invariants                                                              *)

Images == [of : Pages \cup {NoPage}, ver : Nat]

Buffer == [page_id : Pages \cup {NoPage}, data : Images, is_dirty : BOOLEAN,
           usage_count : Nat, pin_count : Nat]

(* What a call has fetched or cloned from the map.                         *)
Gots == UNION {[P -> Slots] : P \in SUBSET Pages}

Fetching == {"lookup", "hit", "miss", "unmap_old", "install"}
Flushing == {"flush_check", "flush_lookup", "flush"}
Looking == {"modify", "unpin_lookup", "pin_lookup", "unmap_page"}
AtSlot == {"hit", "unpin", "pin", "reset", "flush"}
Replacing == {"unmap_old", "install"}
Wheres == Fetching \cup Flushing \cup Looking \cup AtSlot \cup {"idle", "clone"}

CallRec == [kind : CallKinds \cup {"none"}, page : Pages \cup {NoPage},
            todo : SUBSET Pages, got : Gots, slot : Slots \cup {NoSlot},
            data : Images]

Shape ==
  /\ buffers \in [Slots -> Buffer]
  /\ page_map \in [Pages -> Slots \cup {NoSlot}]
  /\ next_victim \in Slots
  /\ storage \in [Pages -> Images]
  /\ pc \in [Threads -> Wheres]
  /\ call \in [Threads -> CallRec]

(* The mutexes are held exactly where the code keeps them.                 *)
Locks ==
  /\ buf_lock \in Threads \cup {Nobody}
  /\ map_lock \in Threads \cup {Nobody}
  /\ \A t \in Threads : buf_lock = t <=> pc[t] \in Replacing
  /\ \A t \in Threads : map_lock = t <=> pc[t] = "reset"

(* The locals a call needs where it is.                                    *)
Locals(w, c) ==
  /\ w \notin {"idle", "clone"} => c.page \in Pages
  /\ w \in AtSlot \cup Replacing => c.slot \in Slots
  /\ w \in Fetching => c.kind \in {"read", "touch", "update"}
  /\ w = "modify" => c.page \in DOMAIN c.got
  /\ w \in Flushing => c.page \in c.todo /\ c.todo \subseteq DOMAIN c.got

Calling == \A t \in Threads : Locals(pc[t], call[t])

IsFilled(s) == buffers[s].page_id # NoPage

(* Slots that are mapped, dirty or about to be used hold a page.           *)
Filled ==
  /\ \A p \in Pages : page_map[p] # NoSlot => IsFilled(page_map[p])
  /\ \A s \in Slots : buffers[s].is_dirty => IsFilled(s)
  /\ \A t \in Threads : pc[t] \in AtSlot => IsFilled(call[t].slot)

(* A chosen victim is unpinned unless everything is pinned, and if it is   *)
(* dirty and unpinned its image is in storage.                             *)
VictimReady(s) ==
  /\ buffers[s].pin_count > 0 => Unpinned(buffers) = {}
  /\ buffers[s].is_dirty /\ buffers[s].pin_count = 0
       => storage[buffers[s].page_id] = buffers[s].data

Victims == \A t \in Threads : pc[t] \in Replacing => VictimReady(call[t].slot)

PoolInv == Shape /\ Locks /\ Calling /\ Filled /\ Victims

------------------------------------------------------------------------------
(* A slot for every page each thread may miss, no failing read and nobody  *)
(* who invalidates.                                                        *)
Room ==
  /\ IsFiniteSet(Threads) /\ IsFiniteSet(Pages)
  /\ Cardinality(Threads) * Cardinality(Pages) <= PoolSize
  /\ Unreadable = {}
  /\ "invalidate" \notin Calls

(* Filled slots hold an image of their page, which is mapped; the map,     *)
(* storage and the calls name pages rightly.                               *)
NamedSlots ==
  \A s \in Slots : IsFilled(s) => /\ buffers[s].data.of = buffers[s].page_id
                                 /\ page_map[buffers[s].page_id] # NoSlot

NamedMap == \A p \in Pages : page_map[p] # NoSlot => buffers[page_map[p]].page_id = p

NamedStorage == \A p \in Pages : storage[p].of = p

NamedCall(w, c) ==
  /\ w \in AtSlot => buffers[c.slot].page_id = c.page
  /\ \A q \in DOMAIN c.got : buffers[c.got[q]].page_id = q
  /\ w = "install" => c.data.of = c.page

NamedCalls == \A t \in Threads : NamedCall(pc[t], call[t])

(* Slots are filled in order, the hand at the first that is not, or one    *)
(* past it while the page is on its way there.                             *)
FilledUpTo(k) ==
  /\ \A s \in Slots : IsFilled(s) <=> s < k
  /\ \A s \in Slots : ~IsFilled(s) => buffers[s].usage_count = 0 /\ buffers[s].pin_count = 0
  /\ buf_lock = Nobody => next_victim = k % PoolSize
  /\ buf_lock # Nobody => next_victim = (k + 1) % PoolSize
  /\ \A t \in Threads : pc[t] = "install" => call[t].slot = k

InOrder == \E k \in 0 .. PoolSize : FilledUpTo(k)

NoUnmapping == \A t \in Threads : pc[t] \notin {"unmap_old", "unmap_page", "reset"}

(* Each filled slot stands for a thread's one miss of its page.            *)
FilledSlots == {s \in Slots : IsFilled(s)}

Owners(f) ==
  /\ \A s, r \in FilledSlots : f[s] = f[r] => s = r
  /\ \A s \in FilledSlots : f[s][2] = buffers[s].page_id
  /\ \A t \in Threads : pc[t] \in {"miss", "install"} =>
       \A s \in FilledSlots : f[s] # <<t, call[t].page>>

Owned == \E f \in [FilledSlots -> Threads \X Pages] : Owners(f)

RoomInv == NamedSlots /\ NamedMap /\ NamedStorage /\ NamedCalls /\ InOrder /\ NoUnmapping /\ Owned

Returns ==
  /\ returned = [t \in Threads |-> returned[t]]
  /\ ReadsReturnRequestedPage

------------------------------------------------------------------------------
(* Induction: the least member of a set of naturals, from the library's    *)
(* well-foundedness of <.                                                  *)

LEMMA LeastNatural ==
  ASSUME NEW T, T \subseteq Nat, T # {}
  PROVE  \E m \in T : \A k \in T : m <= k
<1> DEFINE R == {ss \in Nat \X Nat : ss[1] < ss[2]}
<1>1. IsWellFoundedOn(R, Nat)
  BY NatLessThanWellFounded DEF OpToRel
<1>2. PICK m \in T : \A k \in T : ~ (<<k, m>> \in R)
  BY <1>1, WFMin
<1>3. \A k \in T : <<k, m>> \in Nat \X Nat /\ <<k, m>>[1] = k /\ <<k, m>>[2] = m
  OBVIOUS
<1>4. \A k \in T : ~ (k < m)
  BY <1>2, <1>3
<1> QED
  BY <1>4

LEMMA InductiveSet ==
  ASSUME NEW S, 0 \in S, \A n \in Nat : n \in S => n + 1 \in S
  PROVE  Nat \subseteq S
<1> DEFINE T == {n \in Nat : n \notin S}
<1> SUFFICES ASSUME T # {} PROVE FALSE
  OBVIOUS
<1>1. PICK m \in T : \A k \in T : m <= k
  <2> HIDE DEF T
  <2>1. T \subseteq Nat
    BY DEF T
  <2> QED
    BY <2>1, LeastNatural
<1>2. m # 0 /\ m \in Nat /\ m - 1 \in Nat
  BY <1>1
<1>3. m - 1 \in S
  BY <1>1, <1>2
<1> QED
  BY <1>2, <1>3

------------------------------------------------------------------------------
(* find_victim                                                             *)

LEMMA NextSlot ==
  ASSUME NEW h \in Slots
  PROVE  (h + 1) % PoolSize \in Slots
  BY PoolConstants DEF Slots

(* The rounds of the sweep up to the k-th.                                 *)
Rounds(r0, k, f) ==
  f = [n \in 0 .. k |-> IF n = 0 THEN r0 ELSE SweepStep(f[n - 1])]

LEMMA RoundsExist ==
  ASSUME NEW r0, NEW k \in Nat
  PROVE  \E f : Rounds(r0, k, f)
<1> DEFINE S == {j \in Nat : \E f : Rounds(r0, j, f)}
<1>1. 0 \in S
  <2> DEFINE f == [n \in 0 .. 0 |-> r0]
  <2>1. Rounds(r0, 0, f)
    BY DEF Rounds
  <2> QED
    BY <2>1
<1>2. ASSUME NEW j \in Nat, j \in S
      PROVE  j + 1 \in S
  <2>1. PICK f : Rounds(r0, j, f)
    BY <1>2
  <2> DEFINE g == [n \in 0 .. j + 1 |-> IF n = j + 1 THEN SweepStep(f[j]) ELSE f[n]]
  <2>2. \A n \in 0 .. j : g[n] = f[n]
    OBVIOUS
  <2>3. \A n \in 0 .. j : f[n] = IF n = 0 THEN r0 ELSE SweepStep(f[n - 1])
    BY <2>1 DEF Rounds
  <2>4. ASSUME NEW n \in 0 .. j + 1
        PROVE  g[n] = IF n = 0 THEN r0 ELSE SweepStep(g[n - 1])
    <3>1. CASE n = j + 1
      <4>1. n # 0 /\ n - 1 = j /\ g[n - 1] = f[j]
        BY <3>1, <2>2
      <4> QED
        BY <3>1, <4>1
    <3>2. CASE n \in 0 .. j
      <4>1. g[n] = f[n] /\ (n # 0 => n - 1 \in 0 .. j)
        BY <3>2, <2>2
      <4>2. n # 0 => g[n - 1] = f[n - 1]
        BY <4>1, <2>2
      <4> QED
        BY <3>2, <4>1, <4>2, <2>3
    <3> QED
      BY <3>1, <3>2
  <2>5. Rounds(r0, j + 1, g)
    <3> DEFINE h == [n \in 0 .. j + 1 |-> IF n = 0 THEN r0 ELSE SweepStep(g[n - 1])]
    <3>1. \A n \in 0 .. j + 1 : g[n] = h[n]
      BY <2>4
    <3>2. g = h
      BY <3>1
    <3> QED
      BY <3>2 DEF Rounds
  <2> QED
    BY <2>5
<1>3. Nat \subseteq S
  <2> HIDE DEF S
  <2> QED
    BY <1>1, <1>2, InductiveSet
<1> QED
  BY <1>3

Swept(bufs, hand) == [bufs |-> bufs, hand |-> hand, victim |-> NoSlot]

SweepsBy(bufs, hand, f) ==
  /\ f[0] = Swept(bufs, hand)
  /\ \A n \in 1 .. 2 * PoolSize : f[n] = SweepStep(f[n - 1])
  /\ Sweep(bufs, hand) = f[2 * PoolSize]

LEMMA SweepRounds ==
  ASSUME NEW bufs, NEW hand
  PROVE  \E f : SweepsBy(bufs, hand, f)
<1> DEFINE N == 2 * PoolSize
           r0 == Swept(bufs, hand)
<1>0. N \in Nat
  BY PoolConstants
<1> HIDE DEF N
<1> DEFINE f == CHOOSE f : Rounds(r0, N, f)
<1>1. Rounds(r0, N, f)
  BY <1>0, RoundsExist
<1>2. Sweep(bufs, hand) = f[N]
  BY DEF Sweep, Rounds, Swept, N
<1>3. \A n \in 0 .. N : f[n] = IF n = 0 THEN r0 ELSE SweepStep(f[n - 1])
  <2> HIDE DEF f
  <2> QED
    BY <1>1 DEF Rounds
<1> HIDE DEF f
<1>4. f[0] = r0
  BY <1>3, <1>0
<1>5. \A n \in 1 .. N : f[n] = SweepStep(f[n - 1])
  BY <1>3, <1>0
<1> QED
  BY <1>2, <1>4, <1>5 DEF N, SweepsBy

(* Two states of the slots that differ in usage counts only.               *)
SameButUsage(a, b) ==
  \A s \in Slots : /\ a[s].page_id = b[s].page_id
                   /\ a[s].data = b[s].data
                   /\ a[s].is_dirty = b[s].is_dirty
                   /\ a[s].pin_count = b[s].pin_count

SweepStates == [bufs : [Slots -> Buffer], hand : Slots, victim : Slots \cup {NoSlot}]

SweepOk(bufs, r) ==
  /\ r \in SweepStates
  /\ SameButUsage(r.bufs, bufs)
  /\ r.victim # NoSlot => r.bufs[r.victim].pin_count = 0

LEMMA SweepStepOk ==
  ASSUME NEW bufs \in [Slots -> Buffer], NEW r, SweepOk(bufs, r)
  PROVE  SweepOk(bufs, SweepStep(r))
<1> DEFINE b == r.bufs[r.hand]
           next == (r.hand + 1) % PoolSize
<1>1. r.hand \in Slots /\ next \in Slots /\ r.bufs \in [Slots -> Buffer] /\ b \in Buffer
  BY NextSlot DEF SweepOk, SweepStates
<1>2. b.pin_count \in Nat /\ b.usage_count \in Nat
  BY <1>1 DEF Buffer
<1> HIDE DEF next
<1>3. CASE r.victim # NoSlot
  BY <1>3 DEF SweepStep
<1>4. CASE r.victim = NoSlot /\ b.pin_count > 0
  <2>1. SweepStep(r) = [r EXCEPT !.hand = next]
    BY <1>4 DEF SweepStep, next
  <2> QED
    BY <2>1, <1>4, <1>1 DEF SweepOk, SweepStates
<1>5. CASE r.victim = NoSlot /\ b.pin_count = 0 /\ b.usage_count > 0
  <2> DEFINE c == [b EXCEPT !.usage_count = @ - 1]
             bs == [r.bufs EXCEPT ![r.hand] = c]
  <2>1. SweepStep(r) = [r EXCEPT !.hand = next, !.bufs = bs]
    BY <1>5 DEF SweepStep, next
  <2>2. c \in Buffer /\ c.page_id = b.page_id /\ c.data = b.data /\ c.is_dirty = b.is_dirty
          /\ c.pin_count = b.pin_count
    BY <1>1, <1>2, <1>5 DEF Buffer
  <2> HIDE DEF c
  <2>3. bs \in [Slots -> Buffer] /\ SameButUsage(bs, bufs)
    BY <2>2, <1>1 DEF SweepOk, SameButUsage
  <2>4. SweepStep(r) = [bufs |-> bs, hand |-> next, victim |-> NoSlot]
    BY <2>1, <1>5 DEF SweepOk, SweepStates
  <2> QED
    BY <2>3, <2>4, <1>1 DEF SweepOk, SweepStates
<1>6. CASE r.victim = NoSlot /\ b.pin_count = 0 /\ b.usage_count = 0
  <2>1. SweepStep(r) = [r EXCEPT !.hand = next, !.victim = r.hand]
    BY <1>6 DEF SweepStep, next
  <2>2. SweepStep(r) = [bufs |-> r.bufs, hand |-> next, victim |-> r.hand]
    BY <2>1 DEF SweepOk, SweepStates
  <2> QED
    BY <2>2, <1>6, <1>1 DEF SweepOk, SweepStates
<1> QED
  BY <1>2, <1>3, <1>4, <1>5, <1>6

LEMMA SweepIsOk ==
  ASSUME NEW bufs \in [Slots -> Buffer], NEW hand \in Slots
  PROVE  SweepOk(bufs, Sweep(bufs, hand))
<1>0. PICK f : SweepsBy(bufs, hand, f)
  BY SweepRounds
<1>1. /\ f[0] = Swept(bufs, hand)
      /\ \A n \in 1 .. 2 * PoolSize : f[n] = SweepStep(f[n - 1])
      /\ Sweep(bufs, hand) = f[2 * PoolSize]
  BY <1>0 DEF SweepsBy
<1> DEFINE S == {n \in Nat : n <= 2 * PoolSize => SweepOk(bufs, f[n])}
<1>2. 0 \in S
  BY <1>1 DEF SweepOk, SweepStates, Swept, SameButUsage
<1>3. ASSUME NEW n \in Nat, n \in S
      PROVE  n + 1 \in S
  <2>1. CASE n + 1 <= 2 * PoolSize
    <3>1. n + 1 \in 1 .. 2 * PoolSize /\ (n + 1) - 1 = n /\ n <= 2 * PoolSize
      BY <2>1, PoolConstants
    <3>2. f[n + 1] = SweepStep(f[n]) /\ SweepOk(bufs, f[n])
      BY <3>1, <1>1, <1>3
    <3>3. SweepOk(bufs, f[n + 1])
      BY <3>2, SweepStepOk
    <3> QED
      BY <3>3
  <2> QED
    BY <2>1
<1>4. Nat \subseteq S
  <2> HIDE DEF S
  <2> QED
    BY <1>2, <1>3, InductiveSet
<1>5. 2 * PoolSize \in Nat
  BY PoolConstants
<1> QED
  BY <1>1, <1>4, <1>5

(* What fetch_page gets: a slot, the pages of the pool as they were, and a *)
(* pinned slot only when there is no other.                                *)
VictimOk(bufs, v) ==
  /\ v.bufs \in [Slots -> Buffer]
  /\ SameButUsage(v.bufs, bufs)
  /\ v.hand \in Slots
  /\ v.victim \in Slots
  /\ v.bufs[v.victim].pin_count > 0 => Unpinned(v.bufs) = {}

LEMMA VictimChosen ==
  ASSUME NEW bufs \in [Slots -> Buffer], NEW hand \in Slots
  PROVE  VictimOk(bufs, find_victim(bufs, hand))
<1> DEFINE swept == Sweep(bufs, hand)
           free == Unpinned(swept.bufs)
           first == CHOOSE s \in free : \A r \in free : s <= r
<1>1. SweepOk(bufs, swept)
  BY SweepIsOk
<1> HIDE DEF swept
<1>2. CASE swept.victim # NoSlot
  <2>1. find_victim(bufs, hand) = swept
    BY <1>2 DEF find_victim, swept
  <2> QED
    BY <2>1, <1>1, <1>2 DEF VictimOk, SweepOk, SweepStates
<1>3. CASE swept.victim = NoSlot /\ free # {}
  <2>1. free \subseteq Slots /\ Slots \subseteq Nat
    BY PoolConstants DEF Unpinned, Slots
  <2>2. \E s \in free : \A r \in free : s <= r
    <3> HIDE DEF free
    <3> QED
      BY <2>1, <1>3, LeastNatural
  <2>3. first \in free
    BY <2>2
  <2> HIDE DEF first
  <2>4. first \in Slots /\ swept.bufs[first].pin_count = 0
    BY <2>3 DEF Unpinned
  <2>5. find_victim(bufs, hand) =
          [bufs |-> swept.bufs, hand |-> (first + 1) % PoolSize, victim |-> first]
    BY <1>3 DEF find_victim, swept, first
  <2>6. (first + 1) % PoolSize \in Slots
    BY <2>4, NextSlot
  <2> QED
    BY <2>4, <2>5, <2>6, <1>1 DEF VictimOk, SweepOk, SweepStates
<1>4. CASE swept.victim = NoSlot /\ free = {}
  <2>1. find_victim(bufs, hand) = [bufs |-> swept.bufs, hand |-> hand, victim |-> 0]
    BY <1>4 DEF find_victim, swept
  <2>2. 0 \in Slots
    BY PoolConstants DEF Slots
  <2> QED
    BY <2>1, <2>2, <1>1, <1>4 DEF VictimOk, SweepOk, SweepStates
<1> QED
  BY <1>2, <1>3, <1>4

------------------------------------------------------------------------------
(* Calls                                                                   *)

LEMMA NoCallIsCall ==
  /\ NoCall \in CallRec
  /\ NoCall.got = << >> /\ DOMAIN NoCall.got = {}
  /\ Locals("idle", NoCall)
<1>1. << >> \in [{} -> Slots]
  OBVIOUS
<1>2. << >> \in Gots
  BY <1>1 DEF Gots
<1> QED
  BY <1>2 DEF NoCall, CallRec, Images, Image, CallKinds, Locals, AtSlot, Replacing, Fetching, Flushing

LEMMA GotsAre ==
  ASSUME NEW g \in Gots
  PROVE  DOMAIN g \subseteq Pages /\ \A q \in DOMAIN g : g[q] \in Slots
  BY DEF Gots

(* What a call has fetched, with one page more.                            *)
Grown(g, p, s) == [q \in {p} \cup DOMAIN g |-> IF q = p THEN s ELSE g[q]]

LEMMA GotsGrow ==
  ASSUME NEW g \in Gots, NEW p \in Pages, NEW s \in Slots
  PROVE  Grown(g, p, s) \in Gots
<1> DEFINE h == Grown(g, p, s)
<1>2. DOMAIN g \subseteq Pages /\ \A q \in DOMAIN g : g[q] \in Slots
  BY GotsAre
<1>3. h \in [{p} \cup DOMAIN g -> Slots]
  BY <1>2 DEF Grown
<1>4. {p} \cup DOMAIN g \in SUBSET Pages
  BY <1>2
<1> HIDE DEF h
<1>5. h \in Gots
  BY <1>3, <1>4 DEF Gots
<1> QED
  BY <1>5 DEF h

LEMMA CallFields ==
  ASSUME NEW c \in CallRec
  PROVE  /\ c.kind \in CallKinds \cup {"none"} /\ c.page \in Pages \cup {NoPage}
         /\ c.todo \in SUBSET Pages /\ c.got \in Gots
         /\ c.slot \in Slots \cup {NoSlot} /\ c.data \in Images
  BY DEF CallRec

LEMMA WithSlot ==
  ASSUME NEW c \in CallRec, NEW s \in Slots \cup {NoSlot}, NEW d \in Images
  PROVE  /\ [c EXCEPT !.slot = s] \in CallRec
         /\ [c EXCEPT !.slot = s].slot = s
         /\ [c EXCEPT !.slot = s].kind = c.kind
         /\ [c EXCEPT !.slot = s].page = c.page
         /\ [c EXCEPT !.slot = s].todo = c.todo
         /\ [c EXCEPT !.slot = s].got = c.got
         /\ [c EXCEPT !.slot = s].data = c.data
         /\ [c EXCEPT !.slot = s, !.data = d] \in CallRec
         /\ [c EXCEPT !.slot = s, !.data = d].slot = s
         /\ [c EXCEPT !.slot = s, !.data = d].kind = c.kind
         /\ [c EXCEPT !.slot = s, !.data = d].page = c.page
         /\ [c EXCEPT !.slot = s, !.data = d].todo = c.todo
         /\ [c EXCEPT !.slot = s, !.data = d].got = c.got
         /\ [c EXCEPT !.slot = s, !.data = d].data = d
  BY DEF CallRec

(* Where fetch_page's return leads.                                        *)
Fetched2(t, s, w, c) ==
  /\ Goto(t, w, c)
  /\ w \in {"lookup", "clone", "modify", "unpin_lookup"}
  /\ c \in CallRec
  /\ Locals(w, c)
  /\ c.got = Grown(call[t].got, call[t].page, s)

LEMMA FetchedGoes ==
  ASSUME Shape, Calling, NEW t \in Threads, NEW s \in Slots, pc[t] \in Fetching, Fetched(t, s)
  PROVE  \E w, c : Fetched2(t, s, w, c)
<1> DEFINE c == call[t]
           rest == c.todo \ {c.page}
           got == Grown(c.got, c.page, s)
<1>1. c \in CallRec
  BY DEF Shape
<1>2. c.page \in Pages /\ c.kind \in {"read", "touch", "update"}
  BY DEF Calling, Locals, Fetching
<1>3. c.todo \in SUBSET Pages /\ c.got \in Gots
  BY <1>1, CallFields
<1>4. got \in Gots /\ DOMAIN got = {c.page} \cup DOMAIN c.got
  BY <1>2, <1>3, GotsGrow DEF Grown
<1>5. rest \in SUBSET Pages
  BY <1>3
<1> HIDE DEF got
<1>6. CASE rest # {}
  <2>1. PICK p \in rest : Goto(t, "lookup", [c EXCEPT !.page = p, !.todo = rest, !.got = got])
    BY <1>6 DEF Fetched, got, Grown
  <2> DEFINE d == [c EXCEPT !.page = p, !.todo = rest, !.got = got]
  <2>2. p \in Pages
    BY <1>5
  <2>3. d \in CallRec /\ d.page = p /\ d.kind = c.kind /\ d.todo = rest /\ d.got = got
    BY <1>1, <1>4, <1>5, <2>2 DEF CallRec
  <2> HIDE DEF d
  <2>4. Locals("lookup", d)
    BY <2>2, <2>3, <1>2 DEF Locals, AtSlot, Replacing, Fetching, Flushing
  <2>5. Fetched2(t, s, "lookup", d)
    BY <2>1, <2>3, <2>4 DEF Fetched2, d, got
  <2> QED
    BY <2>5
<1>7. CASE rest = {}
  <2> DEFINE d == [c EXCEPT !.todo = {}, !.got = got]
             w == CASE c.kind = "read" -> "clone"
                    [] c.kind = "update" -> "modify"
                    [] c.kind = "touch" -> "unpin_lookup"
  <2>1. Goto(t, w, d)
    BY <1>7 DEF Fetched, got, Grown
  <2>2. w \in {"clone", "modify", "unpin_lookup"}
    BY <1>2
  <2>3. d \in CallRec /\ d.page = c.page /\ d.got = got
    <3>1. {} \in SUBSET Pages
      OBVIOUS
    <3> QED
      BY <1>1, <1>2, <1>4, <3>1 DEF CallRec
  <2> HIDE DEF d, w
  <2>4. Locals(w, d)
    BY <2>2, <2>3, <1>2, <1>4 DEF Locals, AtSlot, Replacing, Fetching, Flushing
  <2>5. Fetched2(t, s, w, d)
    BY <2>1, <2>2, <2>3, <2>4 DEF Fetched2, got
  <2> QED
    BY <2>5
<1> QED
  BY <1>6, <1>7

(* Where the walk over the cloned map goes next.                           *)
Flushed2(t, w, c) ==
  /\ Goto(t, w, c)
  /\ w \in {"idle", "flush_lookup", "flush_check"}
  /\ c \in CallRec
  /\ Locals(w, c)
  /\ c = NoCall \/ c.got = call[t].got

LEMMA NextFlushGoes ==
  ASSUME Shape, Calling, NEW t \in Threads, pc[t] \in Flushing, NextFlush(t)
  PROVE  \E w, c : Flushed2(t, w, c)
<1> DEFINE c == call[t]
           rest == c.todo \ {c.page}
<1>1. c \in CallRec
  BY DEF Shape
<1>2. c.page \in c.todo /\ c.todo \subseteq DOMAIN c.got /\ c.todo \in SUBSET Pages
  BY <1>1, CallFields DEF Calling, Locals
<1>3. CASE rest = {}
  <2>1. Goto(t, "idle", NoCall)
    BY <1>3 DEF NextFlush, Finish
  <2>2. Flushed2(t, "idle", NoCall)
    BY <2>1, NoCallIsCall DEF Flushed2
  <2> QED
    BY <2>2
<1>4. CASE rest # {}
  <2> DEFINE w == IF c.kind = "flush_all" THEN "flush_lookup" ELSE "flush_check"
  <2>1. PICK p \in rest : Goto(t, w, [c EXCEPT !.page = p, !.todo = rest])
    BY <1>4 DEF NextFlush
  <2> DEFINE d == [c EXCEPT !.page = p, !.todo = rest]
  <2>2. p \in Pages /\ rest \in SUBSET Pages /\ c.got \in Gots
    BY <1>2, <1>1, CallFields
  <2>3. d \in CallRec /\ d.page = p /\ d.todo = rest /\ d.got = c.got
    BY <1>1, <2>2 DEF CallRec
  <2>4. w \in {"flush_lookup", "flush_check"}
    OBVIOUS
  <2> HIDE DEF d, w
  <2>5. Locals(w, d)
    BY <2>2, <2>3, <2>4, <1>2 DEF Locals, AtSlot, Replacing, Fetching, Flushing
  <2>6. Flushed2(t, w, d)
    BY <2>1, <2>3, <2>4, <2>5 DEF Flushed2, d
  <2> QED
    BY <2>6
<1> QED
  BY <1>3, <1>4

------------------------------------------------------------------------------
(* PoolInv                                                                 *)

LEMMA MoveKeeps ==
  ASSUME Shape, Calling, NEW t \in Threads, NEW w \in Wheres, NEW c \in CallRec,
         Locals(w, c), Goto(t, w, c)
  PROVE  /\ pc' \in [Threads -> Wheres] /\ call' \in [Threads -> CallRec]
         /\ Calling'
         /\ pc'[t] = w /\ call'[t] = c
         /\ \A u \in Threads \ {t} : pc'[u] = pc[u] /\ call'[u] = call[u]
<1>1. /\ pc' \in [Threads -> Wheres] /\ call' \in [Threads -> CallRec]
      /\ pc'[t] = w /\ call'[t] = c
      /\ \A u \in Threads \ {t} : pc'[u] = pc[u] /\ call'[u] = call[u]
  BY DEF Goto, Shape
<1>2. Calling'
  BY <1>1 DEF Calling
<1> QED
  BY <1>1, <1>2

LEMMA BufFreeMeans ==
  ASSUME Locks, buf_lock = Nobody
  PROVE  \A u \in Threads : pc[u] \notin Replacing
  BY PoolConstants DEF Locks

(* A step of a thread that holds no mutex before or after.                 *)
LEMMA LocksKept ==
  ASSUME Locks, NEW t \in Threads, pc[t] \notin Replacing \cup {"reset"},
         pc'[t] \notin Replacing \cup {"reset"},
         \A u \in Threads \ {t} : pc'[u] = pc[u],
         UNCHANGED <<buf_lock, map_lock>>
  PROVE  Locks'
<1>1. \A u \in Threads : (pc'[u] \in Replacing <=> pc[u] \in Replacing)
        /\ (pc'[u] = "reset" <=> pc[u] = "reset")
  OBVIOUS
<1> QED
  BY <1>1 DEF Locks

(* Steps that only look.                                                   *)
LEMMA QuietStep ==
  ASSUME PoolInv, NEW t \in Threads, NEW w \in Wheres, NEW c \in CallRec,
         Locals(w, c), Goto(t, w, c),
         pc[t] \notin Replacing \cup {"reset"}, w \notin Replacing \cup {"reset"},
         w \in AtSlot => IsFilled(c.slot),
         UNCHANGED <<buffers, page_map, next_victim, storage, map_lock, buf_lock>>
  PROVE  PoolInv'
<1> USE DEF PoolInv
<1>1. /\ pc' \in [Threads -> Wheres] /\ call' \in [Threads -> CallRec]
      /\ Calling'
      /\ pc'[t] = w /\ call'[t] = c
      /\ \A u \in Threads \ {t} : pc'[u] = pc[u] /\ call'[u] = call[u]
  BY MoveKeeps
<1>2. Shape'
  BY <1>1 DEF Shape
<1>3. Locks'
  BY <1>1, LocksKept
<1>4. Filled'
  BY <1>1 DEF Filled, IsFilled
<1>5. Victims'
  BY <1>1 DEF Victims, VictimReady, Unpinned
<1> QED
  BY <1>1, <1>2, <1>3, <1>4, <1>5

(* Steps under the buffers mutex that change no slot's page.               *)
LEMMA BufferStep ==
  ASSUME PoolInv, NEW t \in Threads, NEW w \in Wheres, NEW c \in CallRec,
         Locals(w, c), Goto(t, w, c),
         pc[t] # "reset", w \notin AtSlot \cup Replacing,
         buf_lock = Nobody,
         buffers' \in [Slots -> Buffer],
         \A s \in Slots : buffers'[s].page_id = buffers[s].page_id,
         \A s \in Slots : buffers'[s].is_dirty => buffers[s].is_dirty \/ IsFilled(s),
         next_victim' \in Slots,
         storage' \in [Pages -> Images],
         UNCHANGED <<page_map, map_lock, buf_lock>>
  PROVE  PoolInv'
<1> USE DEF PoolInv
<1>1. /\ pc' \in [Threads -> Wheres] /\ call' \in [Threads -> CallRec]
      /\ Calling'
      /\ pc'[t] = w /\ call'[t] = c
      /\ \A u \in Threads \ {t} : pc'[u] = pc[u] /\ call'[u] = call[u]
  BY MoveKeeps
<1>2. Shape'
  BY <1>1 DEF Shape
<1>3. \A u \in Threads : pc[u] \notin Replacing /\ pc'[u] \notin Replacing
  BY <1>1, BufFreeMeans
<1>4. w # "reset"
  BY DEF AtSlot
<1>5. Locks'
  BY <1>1, <1>3, <1>4, LocksKept
<1>6. \A s \in Slots : IsFilled(s)' <=> IsFilled(s)
  BY DEF IsFilled
<1>7. Filled'
  <2>1. \A p \in Pages : page_map[p] # NoSlot => page_map[p] \in Slots
    BY DEF Shape
  <2>2. ASSUME NEW p \in Pages, page_map'[p] # NoSlot
        PROVE  IsFilled(page_map[p])'
    BY <2>1, <2>2 DEF Filled, IsFilled
  <2>3. \A s \in Slots : buffers'[s].is_dirty => IsFilled(s)'
    BY <1>6 DEF Filled
  <2>4. ASSUME NEW u \in Threads, pc'[u] \in AtSlot
        PROVE  IsFilled(call[u].slot)'
    <3>1. u # t /\ pc'[u] = pc[u] /\ call'[u] = call[u]
      BY <1>1, <2>4
    <3>2. call[u].slot \in Slots /\ IsFilled(call[u].slot)
      BY <3>1, <2>4 DEF Filled, Calling, Locals
    <3> QED
      BY <3>1, <3>2 DEF IsFilled
  <2> QED
    BY <2>2, <2>3, <2>4 DEF Filled
<1>8. Victims'
  BY <1>3 DEF Victims
<1> QED
  BY <1>1, <1>2, <1>5, <1>7, <1>8

LEMMA InitPool == Init => PoolInv
<1> SUFFICES ASSUME Init PROVE PoolInv
  OBVIOUS
<1>1. 0 \in Slots
  BY PoolConstants DEF Slots
<1>2. Shape
  BY <1>1, NoCallIsCall DEF Init, Shape, Buffer, Images, Image, Wheres
<1>3. Locks
  BY PoolConstants DEF Init, Locks, Replacing
<1>4. Calling
  BY NoCallIsCall DEF Init, Calling
<1>5. Filled
  BY DEF Init, Filled, AtSlot
<1>6. Victims
  BY DEF Init, Victims, Replacing
<1> QED
  BY <1>2, <1>3, <1>4, <1>5, <1>6 DEF PoolInv

(* Shorthand for the facts about a thread's call.                          *)
LEMMA CallOf ==
  ASSUME PoolInv, NEW t \in Threads
  PROVE  /\ call[t] \in CallRec /\ Locals(pc[t], call[t]) /\ pc[t] \in Wheres
         /\ call[t].got \in Gots /\ call[t].todo \in SUBSET Pages
         /\ call[t].slot \in Slots \cup {NoSlot}
  BY CallFields DEF PoolInv, Shape, Calling

LEMMA BufferFields ==
  ASSUME NEW bufs \in [Slots -> Buffer], NEW s \in Slots
  PROVE  /\ bufs[s] \in Buffer
         /\ bufs[s].page_id \in Pages \cup {NoPage} /\ bufs[s].data \in Images
         /\ bufs[s].is_dirty \in BOOLEAN
         /\ bufs[s].usage_count \in Nat /\ bufs[s].pin_count \in Nat
  BY DEF Buffer

LEMMA BeginStep ==
  ASSUME PoolInv, NEW t \in Threads, NEW kind, NEW where, NEW P \in SUBSET Pages,
         where \in {"lookup", "pin_lookup", "unmap_page"},
         where = "lookup" => kind \in {"read", "touch", "update"},
         Begin(t, kind, where, P)
  PROVE  PoolInv'
<1>1. PICK p \in P : Goto(t, where, [NoCall EXCEPT !.kind = kind, !.page = p, !.todo = P])
  BY DEF Begin
<1> DEFINE c == [NoCall EXCEPT !.kind = kind, !.page = p, !.todo = P]
<1>2. kind \in CallKinds /\ pc[t] = "idle" /\ p \in Pages
  BY PoolConstants DEF Begin
<1>3. c \in CallRec /\ c.page = p /\ c.kind = kind
  <2>1. NoCall \in CallRec
    BY NoCallIsCall
  <2> QED
    BY <2>1, <1>2 DEF CallRec
<1> HIDE DEF c
<1>4. Locals(where, c)
  BY <1>2, <1>3 DEF Locals, AtSlot, Replacing, Fetching, Flushing
<1>5. where \in Wheres /\ where \notin AtSlot \cup Replacing \cup {"reset"}
  BY DEF Wheres, Fetching, Looking, AtSlot, Replacing
<1>6. UNCHANGED <<buffers, page_map, next_victim, storage, map_lock, buf_lock>>
  BY DEF Begin
<1>7. pc[t] \notin Replacing \cup {"reset"}
  BY <1>2 DEF Replacing
<1>8. Goto(t, where, c)
  BY <1>1 DEF c
<1> QED
  BY <1>3, <1>4, <1>5, <1>6, <1>7, <1>8, QuietStep

LEMMA BeginFlushStep ==
  ASSUME PoolInv, NEW t \in Threads, NEW kind, NEW where,
         where \in {"flush_lookup", "flush_check"},
         BeginFlush(t, kind, where)
  PROVE  PoolInv'
<1> DEFINE mapped == {p \in Pages : page_map[p] # NoSlot}
           got == [q \in mapped |-> page_map[q]]
<1>1. PICK p \in mapped :
        Goto(t, where, [NoCall EXCEPT !.kind = kind, !.page = p, !.todo = mapped, !.got = got])
  BY DEF BeginFlush
<1> DEFINE c == [NoCall EXCEPT !.kind = kind, !.page = p, !.todo = mapped, !.got = got]
<1>2. kind \in CallKinds /\ pc[t] = "idle" /\ p \in Pages /\ p \in mapped
  BY PoolConstants DEF BeginFlush
<1>3. got \in [mapped -> Slots] /\ mapped \in SUBSET Pages
  BY DEF PoolInv, Shape
<1>4. got \in Gots /\ DOMAIN got = mapped
  <2>1. DOMAIN got = mapped
    OBVIOUS
  <2> HIDE DEF got, mapped
  <2> QED
    BY <1>3, <2>1 DEF Gots
<1> HIDE DEF got, mapped
<1>5. c \in CallRec /\ c.page = p /\ c.todo = mapped /\ c.got = got
  <2>1. NoCall \in CallRec
    BY NoCallIsCall
  <2> QED
    BY <2>1, <1>2, <1>3, <1>4 DEF CallRec
<1> HIDE DEF c
<1>6. Locals(where, c)
  BY <1>2, <1>4, <1>5 DEF Locals, AtSlot, Replacing, Fetching, Flushing
<1>7. where \in Wheres /\ where \notin AtSlot \cup Replacing \cup {"reset"}
  BY DEF Wheres, Flushing, AtSlot, Replacing
<1>8. UNCHANGED <<buffers, page_map, next_victim, storage, map_lock, buf_lock>>
  BY DEF BeginFlush
<1>9. pc[t] \notin Replacing \cup {"reset"}
  BY <1>2 DEF Replacing
<1>10. Goto(t, where, c)
  BY <1>1 DEF c, got, mapped
<1> QED
  BY <1>5, <1>6, <1>7, <1>8, <1>9, <1>10, QuietStep

LEMMA StartStep ==
  ASSUME PoolInv, NEW t \in Threads, Start(t)
  PROVE  PoolInv'
<1>1. CASE BeginRead(t)
  <2>1. PICK P \in SUBSET Pages : Begin(t, "read", "lookup", P)
    BY <1>1 DEF BeginRead
  <2> QED
    BY <2>1, BeginStep
<1>2. CASE BeginFetch(t)
  <2>1. PICK p \in Pages, kind \in {"touch", "update"} : Begin(t, kind, "lookup", {p})
    BY <1>2 DEF BeginFetch
  <2>2. {p} \in SUBSET Pages
    OBVIOUS
  <2> QED
    BY <2>1, <2>2, BeginStep
<1>3. CASE BeginPin(t)
  <2>1. PICK p \in Pages : Begin(t, "pin", "pin_lookup", {p})
    BY <1>3 DEF BeginPin
  <2>2. {p} \in SUBSET Pages
    OBVIOUS
  <2> QED
    BY <2>1, <2>2, BeginStep
<1>4. CASE BeginInvalidate(t)
  <2>1. PICK p \in Pages : Begin(t, "invalidate", "unmap_page", {p})
    BY <1>4 DEF BeginInvalidate
  <2>2. {p} \in SUBSET Pages
    OBVIOUS
  <2> QED
    BY <2>1, <2>2, BeginStep
<1>5. CASE BeginFlush(t, "flush_all", "flush_lookup") \/ BeginFlush(t, "flush_dirty", "flush_check")
  BY <1>5, BeginFlushStep
<1> QED
  BY <1>1, <1>2, <1>3, <1>4, <1>5 DEF Start

LEMMA FetchLookupStep ==
  ASSUME PoolInv, NEW t \in Threads, FetchLookup(t)
  PROVE  PoolInv'
<1> DEFINE idx == page_map[call[t].page]
           w == IF idx # NoSlot THEN "hit" ELSE "miss"
           c == [call[t] EXCEPT !.slot = idx]
<1>1. pc[t] = "lookup" /\ Goto(t, w, c)
        /\ UNCHANGED <<buffers, page_map, next_victim, storage, map_lock, buf_lock>>
  BY DEF FetchLookup
<1>2. call[t] \in CallRec /\ Locals("lookup", call[t])
  BY <1>1, CallOf
<1>3. call[t].page \in Pages /\ call[t].kind \in {"read", "touch", "update"}
  BY <1>2 DEF Locals, Fetching
<1>4. idx \in Slots \cup {NoSlot} /\ (idx # NoSlot => IsFilled(idx))
  BY <1>3 DEF PoolInv, Shape, Filled
<1>5. c \in CallRec /\ c.slot = idx /\ c.kind = call[t].kind /\ c.page = call[t].page
  BY <1>2, <1>4 DEF CallRec
<1>6. w \in {"hit", "miss"} /\ (w = "hit" => idx \in Slots /\ IsFilled(idx))
  BY <1>4
<1> HIDE DEF c, w, idx
<1>7. Locals(w, c)
  BY <1>3, <1>5, <1>6 DEF Locals, AtSlot, Replacing, Fetching, Flushing
<1>8. w \in Wheres /\ w \notin Replacing \cup {"reset"} /\ pc[t] \notin Replacing \cup {"reset"}
  BY <1>1, <1>6 DEF Wheres, Fetching, Replacing
<1>9. w \in AtSlot => IsFilled(c.slot)
  BY <1>5, <1>6 DEF AtSlot
<1> QED
  BY <1>1, <1>5, <1>7, <1>8, <1>9, QuietStep

LEMMA SlotLookupStep ==
  ASSUME PoolInv, NEW t \in Threads, NEW from, NEW to, SlotLookup(t, from, to),
         from \in {"unpin_lookup", "pin_lookup"}, to \in {"unpin", "pin"}
  PROVE  PoolInv'
<1> DEFINE idx == page_map[call[t].page]
           c == [call[t] EXCEPT !.slot = idx]
<1>1. pc[t] = from
        /\ UNCHANGED <<buffers, page_map, next_victim, storage, map_lock, buf_lock>>
  BY DEF SlotLookup
<1>2. call[t] \in CallRec /\ call[t].page \in Pages
  BY <1>1, CallOf DEF Locals
<1>3. pc[t] \notin Replacing \cup {"reset"}
  BY <1>1 DEF Replacing
<1>4. CASE idx = NoSlot
  <2>1. Goto(t, "idle", NoCall)
    BY <1>4 DEF SlotLookup, Finish
  <2>2. "idle" \in Wheres /\ "idle" \notin AtSlot \cup Replacing \cup {"reset"}
    BY DEF Wheres, AtSlot, Replacing
  <2> QED
    BY <1>1, <1>3, <2>1, <2>2, NoCallIsCall, QuietStep
<1>5. CASE idx # NoSlot
  <2>1. Goto(t, to, c)
    BY <1>5 DEF SlotLookup
  <2>2. idx \in Slots /\ IsFilled(idx)
    BY <1>2, <1>5 DEF PoolInv, Shape, Filled
  <2>3. c \in CallRec /\ c.slot = idx /\ c.page = call[t].page
    BY <1>2, <2>2 DEF CallRec
  <2> HIDE DEF c, idx
  <2>4. Locals(to, c)
    BY <1>2, <2>2, <2>3 DEF Locals, AtSlot, Replacing, Fetching, Flushing
  <2>5. to \in Wheres /\ to \notin Replacing \cup {"reset"}
    BY DEF Wheres, AtSlot, Replacing
  <2>6. to \in AtSlot => IsFilled(c.slot)
    BY <2>2, <2>3
  <2> QED
    BY <1>1, <1>3, <2>1, <2>3, <2>4, <2>5, <2>6, QuietStep
<1> QED
  BY <1>4, <1>5

LEMMA CloneDataStep ==
  ASSUME PoolInv, NEW t \in Threads, CloneData(t)
  PROVE  PoolInv'
<1>1. pc[t] = "clone" /\ Goto(t, "idle", NoCall)
        /\ UNCHANGED <<buffers, page_map, next_victim, storage, map_lock, buf_lock>>
  BY DEF CloneData, Finish
<1>2. "idle" \in Wheres /\ "idle" \notin AtSlot \cup Replacing \cup {"reset"}
  BY DEF Wheres, AtSlot, Replacing
<1>3. pc[t] \notin Replacing \cup {"reset"}
  BY <1>1 DEF Replacing
<1> QED
  BY <1>1, <1>2, <1>3, NoCallIsCall, QuietStep

LEMMA FlushCheckStep ==
  ASSUME PoolInv, NEW t \in Threads, FlushCheck(t)
  PROVE  PoolInv'
<1>1. pc[t] = "flush_check"
        /\ UNCHANGED <<buffers, page_map, next_victim, storage, map_lock, buf_lock>>
  BY DEF FlushCheck
<1>2. pc[t] \notin Replacing \cup {"reset"} /\ pc[t] \in Flushing
  BY <1>1 DEF Replacing, Flushing
<1>3. CASE Goto(t, "flush_lookup", call[t])
  <2>1. call[t] \in CallRec /\ Locals("flush_check", call[t])
    BY <1>1, CallOf
  <2>2. Locals("flush_lookup", call[t])
    BY <2>1 DEF Locals, AtSlot, Replacing, Fetching, Flushing
  <2>3. "flush_lookup" \in Wheres /\ "flush_lookup" \notin AtSlot \cup Replacing \cup {"reset"}
    BY DEF Wheres, Flushing, AtSlot, Replacing
  <2> QED
    BY <1>1, <1>2, <1>3, <2>1, <2>2, <2>3, QuietStep
<1>4. CASE NextFlush(t)
  <2>1. PICK w, c : Flushed2(t, w, c)
    BY <1>2, <1>4, NextFlushGoes DEF PoolInv
  <2>2. w \in Wheres /\ w \notin AtSlot \cup Replacing \cup {"reset"}
    BY <2>1 DEF Flushed2, Wheres, Flushing, AtSlot, Replacing
  <2>3. Goto(t, w, c) /\ c \in CallRec /\ Locals(w, c)
    BY <2>1 DEF Flushed2
  <2> QED
    BY <1>1, <1>2, <2>2, <2>3, QuietStep
<1> QED
  BY <1>3, <1>4 DEF FlushCheck

LEMMA FlushLookupStep ==
  ASSUME PoolInv, NEW t \in Threads, FlushLookup(t)
  PROVE  PoolInv'
<1> DEFINE idx == page_map[call[t].page]
           c == [call[t] EXCEPT !.slot = idx]
<1>1. pc[t] = "flush_lookup"
        /\ UNCHANGED <<buffers, page_map, next_victim, storage, map_lock, buf_lock>>
  BY DEF FlushLookup
<1>2. pc[t] \notin Replacing \cup {"reset"} /\ pc[t] \in Flushing
  BY <1>1 DEF Replacing, Flushing
<1>3. CASE idx = NoSlot
  <2>1. PICK w, d : Flushed2(t, w, d)
    BY <1>2, <1>3, NextFlushGoes DEF PoolInv, FlushLookup
  <2>2. w \in Wheres /\ w \notin AtSlot \cup Replacing \cup {"reset"}
    BY <2>1 DEF Flushed2, Wheres, Flushing, AtSlot, Replacing
  <2>3. Goto(t, w, d) /\ d \in CallRec /\ Locals(w, d)
    BY <2>1 DEF Flushed2
  <2> QED
    BY <1>1, <1>2, <2>2, <2>3, QuietStep
<1>4. CASE idx # NoSlot
  <2>1. Goto(t, "flush", c)
    BY <1>4 DEF FlushLookup
  <2>2. call[t] \in CallRec /\ Locals("flush_lookup", call[t])
    BY <1>1, CallOf
  <2>3. call[t].page \in Pages /\ call[t].page \in call[t].todo /\ call[t].todo \subseteq DOMAIN call[t].got
    BY <2>2 DEF Locals, Flushing
  <2>4. idx \in Slots /\ IsFilled(idx)
    BY <2>3, <1>4 DEF PoolInv, Shape, Filled
  <2>5. c \in CallRec /\ c.slot = idx /\ c.page = call[t].page /\ c.todo = call[t].todo /\ c.got = call[t].got
    BY <2>2, <2>4 DEF CallRec
  <2> HIDE DEF c, idx
  <2>6. Locals("flush", c)
    BY <2>3, <2>4, <2>5 DEF Locals, AtSlot, Replacing, Fetching, Flushing
  <2>7. "flush" \in Wheres /\ "flush" \notin Replacing \cup {"reset"} /\ IsFilled(c.slot)
    BY <2>4, <2>5 DEF Wheres, AtSlot, Replacing
  <2> QED
    BY <1>1, <1>2, <2>1, <2>5, <2>6, <2>7, QuietStep
<1> QED
  BY <1>3, <1>4

(* One slot changed, its page kept.                                        *)
SlotSet(s, b) ==
  /\ s \in Slots /\ b \in Buffer
  /\ b.page_id = buffers[s].page_id
  /\ b.is_dirty => buffers[s].is_dirty \/ IsFilled(s)
  /\ DOMAIN buffers' = Slots
  /\ buffers'[s] = b
  /\ \A r \in Slots \ {s} : buffers'[r] = buffers[r]
  /\ buffers' = [r \in Slots |-> buffers'[r]]

SlotSetAt(at, p, s, b) ==
  SlotSet(s, b) /\ s = at /\ (b.data = buffers[s].data \/ b.data.of = p)

LEMMA SlotSetKeeps ==
  ASSUME Shape, NEW s, NEW b, SlotSet(s, b)
  PROVE  /\ buffers' \in [Slots -> Buffer]
         /\ \A r \in Slots : buffers'[r].page_id = buffers[r].page_id
         /\ \A r \in Slots : buffers'[r].is_dirty => buffers[r].is_dirty \/ IsFilled(r)
<1>1. \A r \in Slots : buffers[r] \in Buffer
  BY DEF Shape
<1>2. \A r \in Slots : buffers'[r] \in Buffer
  BY <1>1 DEF SlotSet
<1>3. buffers' \in [Slots -> Buffer]
  BY <1>2 DEF SlotSet
<1> QED
  BY <1>3 DEF SlotSet

LEMMA FetchHitSets ==
  ASSUME PoolInv, NEW t \in Threads, FetchHit(t)
  PROVE  \E s, b : SlotSetAt(call[t].slot, call[t].page, s, b)
<1> DEFINE s == call[t].slot
           o == buffers[s]
           b == [page_id |-> o.page_id, data |-> o.data, is_dirty |-> o.is_dirty,
                 usage_count |-> o.usage_count + 1, pin_count |-> o.pin_count + 1]
<1>1. pc[t] = "hit"
  BY DEF FetchHit
<1>2. s \in Slots
  BY <1>1, CallOf DEF Locals, AtSlot
<1>3. buffers \in [Slots -> Buffer] /\ o \in Buffer
  BY <1>2 DEF PoolInv, Shape
<1>4. /\ o.page_id \in Pages \cup {NoPage} /\ o.data \in Images /\ o.is_dirty \in BOOLEAN
      /\ o.usage_count \in Nat /\ o.pin_count \in Nat
  BY <1>3 DEF Buffer
<1>5. b \in Buffer /\ b.page_id = o.page_id
  BY <1>4 DEF Buffer
<1>6. b.is_dirty => o.is_dirty \/ IsFilled(s)
  OBVIOUS
<1>7. buffers' = [buffers EXCEPT ![s] = b]
  BY <1>2, <1>3, <1>4 DEF FetchHit, Buffer
<1>8. SlotSet(s, b)
  <2> HIDE DEF b, s
  <2>1. /\ DOMAIN buffers' = Slots /\ buffers'[s] = b
        /\ \A r \in Slots \ {s} : buffers'[r] = buffers[r]
        /\ buffers' = [r \in Slots |-> buffers'[r]]
    BY <1>2, <1>3, <1>7
  <2> QED
    BY <1>2, <1>5, <1>6, <2>1 DEF SlotSet
<1>9. b.data = o.data \/ b.data.of = call[t].page
  BY DEF Image
<1> QED
  BY <1>8, <1>9 DEF SlotSetAt

LEMMA PinSlotSets ==
  ASSUME PoolInv, NEW t \in Threads, PinSlot(t)
  PROVE  \E s, b : SlotSetAt(call[t].slot, call[t].page, s, b)
<1> DEFINE s == call[t].slot
           o == buffers[s]
           b == [page_id |-> o.page_id, data |-> o.data, is_dirty |-> o.is_dirty,
                 usage_count |-> o.usage_count + 1, pin_count |-> o.pin_count + 1]
<1>1. pc[t] = "pin"
  BY DEF PinSlot
<1>2. s \in Slots
  BY <1>1, CallOf DEF Locals, AtSlot
<1>3. buffers \in [Slots -> Buffer] /\ o \in Buffer
  BY <1>2 DEF PoolInv, Shape
<1>4. /\ o.page_id \in Pages \cup {NoPage} /\ o.data \in Images /\ o.is_dirty \in BOOLEAN
      /\ o.usage_count \in Nat /\ o.pin_count \in Nat
  BY <1>3 DEF Buffer
<1>5. b \in Buffer /\ b.page_id = o.page_id
  BY <1>4 DEF Buffer
<1>6. b.is_dirty => o.is_dirty \/ IsFilled(s)
  OBVIOUS
<1>7. buffers' = [buffers EXCEPT ![s] = b]
  BY <1>2, <1>3, <1>4 DEF PinSlot, Buffer
<1>8. SlotSet(s, b)
  <2> HIDE DEF b, s
  <2>1. /\ DOMAIN buffers' = Slots /\ buffers'[s] = b
        /\ \A r \in Slots \ {s} : buffers'[r] = buffers[r]
        /\ buffers' = [r \in Slots |-> buffers'[r]]
    BY <1>2, <1>3, <1>7
  <2> QED
    BY <1>2, <1>5, <1>6, <2>1 DEF SlotSet
<1>9. b.data = o.data \/ b.data.of = call[t].page
  BY DEF Image
<1> QED
  BY <1>8, <1>9 DEF SlotSetAt

LEMMA ModifyDataSets ==
  ASSUME PoolInv, NEW t \in Threads, ModifyData(t)
  PROVE  \E s, b : SlotSetAt(call[t].got[call[t].page], call[t].page, s, b)
<1> DEFINE s == call[t].got[call[t].page]
           o == buffers[s]
           b == [page_id |-> o.page_id, data |-> Image(call[t].page, o.data.ver + 1),
                 is_dirty |-> o.is_dirty, usage_count |-> o.usage_count, pin_count |-> o.pin_count]
<1>1. pc[t] = "modify"
  BY DEF ModifyData
<1>2. s \in Slots
  BY <1>1, CallOf, GotsAre DEF Locals
<1>3. buffers \in [Slots -> Buffer] /\ o \in Buffer
  BY <1>2 DEF PoolInv, Shape
<1>4. /\ o.page_id \in Pages \cup {NoPage} /\ o.data \in Images /\ o.is_dirty \in BOOLEAN
      /\ o.usage_count \in Nat /\ o.pin_count \in Nat
  BY <1>3 DEF Buffer
<1>5. b \in Buffer /\ b.page_id = o.page_id
  <2>1. call[t].page \in Pages
    BY <1>1, CallOf DEF Locals
  <2> QED
    BY <1>4, <2>1 DEF Buffer, Image, Images
<1>6. b.is_dirty => o.is_dirty \/ IsFilled(s)
  OBVIOUS
<1>7. buffers' = [buffers EXCEPT ![s] = b]
  <2> DEFINE x == Image(call[t].page, o.data.ver + 1)
  <2>1. buffers' = [buffers EXCEPT ![s] = [o EXCEPT !.data = x]]
    BY DEF ModifyData
  <2> HIDE DEF x
  <2>2. [o EXCEPT !.data = x] = b
    BY <1>3 DEF Buffer, x
  <2> QED
    BY <2>1, <2>2
<1>8. SlotSet(s, b)
  <2> HIDE DEF b, s
  <2>1. /\ DOMAIN buffers' = Slots /\ buffers'[s] = b
        /\ \A r \in Slots \ {s} : buffers'[r] = buffers[r]
        /\ buffers' = [r \in Slots |-> buffers'[r]]
    BY <1>2, <1>3, <1>7
  <2> QED
    BY <1>2, <1>5, <1>6, <2>1 DEF SlotSet
<1>9. b.data = o.data \/ b.data.of = call[t].page
  BY DEF Image
<1> QED
  BY <1>8, <1>9 DEF SlotSetAt

LEMMA UnpinSlotSets ==
  ASSUME PoolInv, NEW t \in Threads, UnpinSlot(t)
  PROVE  \E s, b : SlotSetAt(call[t].slot, call[t].page, s, b)
<1> DEFINE s == call[t].slot
           o == buffers[s]
           b == [page_id |-> o.page_id, data |-> o.data,
                 is_dirty |-> (o.is_dirty \/ call[t].kind = "update"), usage_count |-> o.usage_count,
                 pin_count |-> IF o.pin_count > 0 THEN o.pin_count - 1 ELSE 0]
<1>1. pc[t] = "unpin"
  BY DEF UnpinSlot
<1>2. s \in Slots
  BY <1>1, CallOf DEF Locals, AtSlot
<1>3. buffers \in [Slots -> Buffer] /\ o \in Buffer
  BY <1>2 DEF PoolInv, Shape
<1>4. /\ o.page_id \in Pages \cup {NoPage} /\ o.data \in Images /\ o.is_dirty \in BOOLEAN
      /\ o.usage_count \in Nat /\ o.pin_count \in Nat
  BY <1>3 DEF Buffer
<1>5. b \in Buffer /\ b.page_id = o.page_id
  <2>1. (o.is_dirty \/ call[t].kind = "update") \in BOOLEAN
    BY <1>4
  <2>2. (IF o.pin_count > 0 THEN o.pin_count - 1 ELSE 0) \in Nat
    BY <1>4
  <2> QED
    BY <1>4, <2>1, <2>2 DEF Buffer
<1>6. b.is_dirty => o.is_dirty \/ IsFilled(s)
  BY <1>1 DEF PoolInv, Filled, AtSlot
<1>7. buffers' = [buffers EXCEPT ![s] = b]
  <2> DEFINE n == IF o.pin_count > 0 THEN o.pin_count - 1 ELSE 0
             d == o.is_dirty \/ call[t].kind = "update"
             o1 == [o EXCEPT !.pin_count = n]
  <2>1. buffers' = [[buffers EXCEPT ![s] = o1] EXCEPT ![s].is_dirty = @ \/ call[t].kind = "update"]
    BY DEF UnpinSlot
  <2>2. o1.is_dirty = o.is_dirty
    BY <1>3 DEF Buffer
  <2>3. buffers' = [buffers EXCEPT ![s] = [o1 EXCEPT !.is_dirty = d]]
    <3> HIDE DEF o1
    <3> QED
      BY <1>2, <1>3, <2>1, <2>2
  <2>4. [o1 EXCEPT !.is_dirty = d] = b
    <3> HIDE DEF n, d
    <3>1. o1 \in [page_id : {o.page_id}, data : {o.data}, is_dirty : {o.is_dirty},
                  usage_count : {o.usage_count}, pin_count : {n}]
      BY <1>3 DEF Buffer
    <3> HIDE DEF o1
    <3> QED
      BY <3>1 DEF n, d
  <2> QED
    BY <2>3, <2>4
<1>8. SlotSet(s, b)
  <2> HIDE DEF b, s
  <2>1. /\ DOMAIN buffers' = Slots /\ buffers'[s] = b
        /\ \A r \in Slots \ {s} : buffers'[r] = buffers[r]
        /\ buffers' = [r \in Slots |-> buffers'[r]]
    BY <1>2, <1>3, <1>7
  <2> QED
    BY <1>2, <1>5, <1>6, <2>1 DEF SlotSet
<1>9. b.data = o.data \/ b.data.of = call[t].page
  BY DEF Image
<1> QED
  BY <1>8, <1>9 DEF SlotSetAt

LEMMA FetchHitStep ==
  ASSUME PoolInv, NEW t \in Threads, FetchHit(t)
  PROVE  PoolInv'
<1>1. PICK s, b : SlotSetAt(call[t].slot, call[t].page, s, b)
  BY FetchHitSets
<1>2. /\ buffers' \in [Slots -> Buffer]
      /\ \A r \in Slots : buffers'[r].page_id = buffers[r].page_id
      /\ \A r \in Slots : buffers'[r].is_dirty => buffers[r].is_dirty \/ IsFilled(r)
  BY <1>1, SlotSetKeeps DEF PoolInv, SlotSetAt
<1>3. /\ pc[t] = "hit" /\ buf_lock = Nobody
      /\ UNCHANGED <<page_map, next_victim, storage, map_lock, buf_lock>>
  BY DEF FetchHit
<1>4. next_victim' \in Slots /\ storage' \in [Pages -> Images]
  BY <1>3 DEF PoolInv, Shape
<1>5. PICK w, c : Fetched2(t, call[t].slot, w, c)
  <2>1. call[t].slot \in Slots /\ pc[t] \in Fetching
    BY <1>3, CallOf DEF Locals, AtSlot, Fetching
  <2> QED
    BY <2>1, FetchedGoes DEF FetchHit, PoolInv
<1>6. w \in {"lookup", "clone", "modify", "unpin_lookup"}
  BY <1>5 DEF Fetched2
<1>7. Goto(t, w, c) /\ c \in CallRec /\ Locals(w, c)
  BY <1>5 DEF Fetched2
<1>9. w \in Wheres /\ w \notin AtSlot \cup Replacing
  BY <1>6 DEF Wheres, Fetching, Looking, AtSlot, Replacing
<1> QED
  BY <1>2, <1>3, <1>4, <1>7, <1>9, BufferStep

LEMMA ModifyDataStep ==
  ASSUME PoolInv, NEW t \in Threads, ModifyData(t)
  PROVE  PoolInv'
<1>1. PICK s, b : SlotSetAt(call[t].got[call[t].page], call[t].page, s, b)
  BY ModifyDataSets
<1>2. /\ buffers' \in [Slots -> Buffer]
      /\ \A r \in Slots : buffers'[r].page_id = buffers[r].page_id
      /\ \A r \in Slots : buffers'[r].is_dirty => buffers[r].is_dirty \/ IsFilled(r)
  BY <1>1, SlotSetKeeps DEF PoolInv, SlotSetAt
<1>3. /\ pc[t] = "modify" /\ buf_lock = Nobody
      /\ UNCHANGED <<page_map, next_victim, storage, map_lock, buf_lock>>
  BY DEF ModifyData
<1>4. next_victim' \in Slots /\ storage' \in [Pages -> Images]
  BY <1>3 DEF PoolInv, Shape
<1> DEFINE w == "unpin_lookup"
           c == call[t]
<1>5. c \in CallRec /\ Locals("modify", c)
  BY <1>3, CallOf
<1>6. w \in {"unpin_lookup"}
  OBVIOUS
<1>7. Goto(t, w, c) /\ c \in CallRec /\ Locals(w, c)
  BY <1>5 DEF ModifyData, Locals, AtSlot, Replacing, Fetching, Flushing
<1>9. w \in Wheres /\ w \notin AtSlot \cup Replacing
  BY <1>6 DEF Wheres, Fetching, Looking, AtSlot, Replacing
<1> HIDE DEF w, c
<1> QED
  BY <1>2, <1>3, <1>4, <1>7, <1>9, BufferStep

LEMMA UnpinSlotStep ==
  ASSUME PoolInv, NEW t \in Threads, UnpinSlot(t)
  PROVE  PoolInv'
<1>1. PICK s, b : SlotSetAt(call[t].slot, call[t].page, s, b)
  BY UnpinSlotSets
<1>2. /\ buffers' \in [Slots -> Buffer]
      /\ \A r \in Slots : buffers'[r].page_id = buffers[r].page_id
      /\ \A r \in Slots : buffers'[r].is_dirty => buffers[r].is_dirty \/ IsFilled(r)
  BY <1>1, SlotSetKeeps DEF PoolInv, SlotSetAt
<1>3. /\ pc[t] = "unpin" /\ buf_lock = Nobody
      /\ UNCHANGED <<page_map, next_victim, storage, map_lock, buf_lock>>
  BY DEF UnpinSlot
<1>4. next_victim' \in Slots /\ storage' \in [Pages -> Images]
  BY <1>3 DEF PoolInv, Shape
<1> DEFINE w == "idle"
           c == NoCall
<1>6. w \in {"idle"}
  OBVIOUS
<1>7. Goto(t, w, c) /\ c \in CallRec /\ Locals(w, c)
  BY NoCallIsCall DEF UnpinSlot, Finish
<1>9. w \in Wheres /\ w \notin AtSlot \cup Replacing
  BY <1>6 DEF Wheres, Fetching, Looking, AtSlot, Replacing
<1> HIDE DEF w, c
<1> QED
  BY <1>2, <1>3, <1>4, <1>7, <1>9, BufferStep

LEMMA PinSlotStep ==
  ASSUME PoolInv, NEW t \in Threads, PinSlot(t)
  PROVE  PoolInv'
<1>1. PICK s, b : SlotSetAt(call[t].slot, call[t].page, s, b)
  BY PinSlotSets
<1>2. /\ buffers' \in [Slots -> Buffer]
      /\ \A r \in Slots : buffers'[r].page_id = buffers[r].page_id
      /\ \A r \in Slots : buffers'[r].is_dirty => buffers[r].is_dirty \/ IsFilled(r)
  BY <1>1, SlotSetKeeps DEF PoolInv, SlotSetAt
<1>3. /\ pc[t] = "pin" /\ buf_lock = Nobody
      /\ UNCHANGED <<page_map, next_victim, storage, map_lock, buf_lock>>
  BY DEF PinSlot
<1>4. next_victim' \in Slots /\ storage' \in [Pages -> Images]
  BY <1>3 DEF PoolInv, Shape
<1> DEFINE w == "idle"
           c == NoCall
<1>6. w \in {"idle"}
  OBVIOUS
<1>7. Goto(t, w, c) /\ c \in CallRec /\ Locals(w, c)
  BY NoCallIsCall DEF PinSlot, Finish
<1>9. w \in Wheres /\ w \notin AtSlot \cup Replacing
  BY <1>6 DEF Wheres, Fetching, Looking, AtSlot, Replacing
<1> HIDE DEF w, c
<1> QED
  BY <1>2, <1>3, <1>4, <1>7, <1>9, BufferStep

(* What flush_page does to its slot and to storage.                        *)
LEMMA FlushSlotSets ==
  ASSUME PoolInv, NEW t \in Threads, FlushSlot(t)
  PROVE  /\ \E s, b : SlotSetAt(call[t].slot, call[t].page, s, b)
         /\ storage' \in [Pages -> Images]
         /\ \A p \in Pages : storage'[p] = storage[p]
              \/ (p = call[t].page /\ storage'[p] = buffers[call[t].slot].data)
<1> DEFINE s == call[t].slot
           o == buffers[s]
           b == [page_id |-> o.page_id, data |-> o.data, is_dirty |-> FALSE,
                 usage_count |-> o.usage_count, pin_count |-> o.pin_count]
<1>1. pc[t] = "flush"
  BY DEF FlushSlot
<1>2. s \in Slots /\ call[t].page \in Pages
  BY <1>1, CallOf DEF Locals, AtSlot
<1>3. buffers \in [Slots -> Buffer] /\ o \in Buffer /\ storage \in [Pages -> Images]
  BY <1>2 DEF PoolInv, Shape
<1>4. /\ o.page_id \in Pages \cup {NoPage} /\ o.data \in Images /\ o.is_dirty \in BOOLEAN
      /\ o.usage_count \in Nat /\ o.pin_count \in Nat
  BY <1>3 DEF Buffer
<1>5. CASE o.is_dirty
  <2>1. buffers' = [buffers EXCEPT ![s].is_dirty = FALSE] /\ storage' = [storage EXCEPT ![call[t].page] = o.data]
    BY <1>5 DEF FlushSlot
  <2>2. b \in Buffer /\ b.page_id = o.page_id /\ ~b.is_dirty /\ b.data = o.data
    BY <1>4 DEF Buffer
  <2>3. buffers' = [buffers EXCEPT ![s] = b]
    <3>1. buffers' = [buffers EXCEPT ![s] = [o EXCEPT !.is_dirty = FALSE]]
      BY <2>1
    <3>2. [o EXCEPT !.is_dirty = FALSE] = b
      <4> DEFINE z == FALSE
      <4> HIDE DEF z
      <4>1. [o EXCEPT !.is_dirty = z] =
              [page_id |-> o.page_id, data |-> o.data, is_dirty |-> z,
               usage_count |-> o.usage_count, pin_count |-> o.pin_count]
        BY <1>3 DEF Buffer
      <4> QED
        BY <4>1 DEF z
    <3> QED
      BY <3>1, <3>2
  <2> HIDE DEF b
  <2>4. SlotSet(s, b)
    <3> HIDE DEF s
    <3>1. /\ DOMAIN buffers' = Slots /\ buffers'[s] = b
          /\ \A r \in Slots \ {s} : buffers'[r] = buffers[r]
          /\ buffers' = [r \in Slots |-> buffers'[r]]
      BY <1>2, <1>3, <2>3
    <3> QED
      BY <1>2, <2>2, <3>1 DEF SlotSet
  <2>5. storage' \in [Pages -> Images] /\ \A p \in Pages : storage'[p] = storage[p]
              \/ (p = call[t].page /\ storage'[p] = o.data)
    <3> DEFINE q == call[t].page
               x == o.data
    <3>1. storage' = [storage EXCEPT ![q] = x] /\ q \in Pages /\ x \in Images
      BY <2>1, <1>2, <1>4
    <3> HIDE DEF q, x
    <3>2. storage' \in [Pages -> Images] /\ \A p \in Pages : storage'[p] = storage[p] \/ (p = q /\ storage'[p] = x)
      BY <3>1, <1>3
    <3> QED
      BY <3>2 DEF q, x
  <2>6. SlotSetAt(s, call[t].page, s, b)
    BY <2>2, <2>4 DEF SlotSetAt
  <2> QED
    BY <2>5, <2>6
<1>6. CASE ~o.is_dirty
  <2>1. buffers' = buffers /\ storage' = storage
    BY <1>6 DEF FlushSlot
  <2>2. SlotSetAt(s, call[t].page, s, o)
    BY <2>1, <1>2, <1>3 DEF SlotSet, SlotSetAt
  <2>3. storage' \in [Pages -> Images] /\ \A p \in Pages : storage'[p] = storage[p]
    BY <2>1, <1>3
  <2> QED
    BY <2>2, <2>3
<1> QED
  BY <1>5, <1>6

LEMMA FlushSlotStep ==
  ASSUME PoolInv, NEW t \in Threads, FlushSlot(t)
  PROVE  PoolInv'
<1>1. PICK s, b : SlotSetAt(call[t].slot, call[t].page, s, b)
  BY FlushSlotSets
<1>2. /\ buffers' \in [Slots -> Buffer]
      /\ \A r \in Slots : buffers'[r].page_id = buffers[r].page_id
      /\ \A r \in Slots : buffers'[r].is_dirty => buffers[r].is_dirty \/ IsFilled(r)
  BY <1>1, SlotSetKeeps DEF PoolInv, SlotSetAt
<1>3. /\ pc[t] = "flush" /\ buf_lock = Nobody
      /\ UNCHANGED <<page_map, next_victim, map_lock, buf_lock>>
  BY DEF FlushSlot
<1>4. next_victim' \in Slots /\ storage' \in [Pages -> Images]
  BY <1>3, FlushSlotSets DEF PoolInv, Shape
<1>5. PICK w, c : Flushed2(t, w, c)
  BY <1>3, NextFlushGoes DEF FlushSlot, PoolInv, Flushing
<1>6. w \in Wheres /\ w \notin AtSlot \cup Replacing
  BY <1>5 DEF Flushed2, Wheres, Flushing, AtSlot, Replacing
<1>7. Goto(t, w, c) /\ c \in CallRec /\ Locals(w, c)
  BY <1>5 DEF Flushed2
<1> QED
  BY <1>2, <1>3, <1>4, <1>6, <1>7, BufferStep

LEMMA FetchMissFailsStep ==
  ASSUME PoolInv, NEW t \in Threads, FetchMissFails(t)
  PROVE  PoolInv'
<1> DEFINE v == find_victim(buffers, next_victim)
<1>1. /\ pc[t] = "miss" /\ buf_lock = Nobody /\ buffers' = v.bufs /\ next_victim' = v.hand
      /\ Goto(t, "idle", NoCall)
      /\ UNCHANGED <<page_map, storage, map_lock, buf_lock>>
  BY DEF FetchMissFails, Finish
<1>2. VictimOk(buffers, v)
  BY VictimChosen DEF PoolInv, Shape
<1> HIDE DEF v
<1>3. /\ buffers' \in [Slots -> Buffer] /\ next_victim' \in Slots /\ storage' \in [Pages -> Images]
      /\ \A s \in Slots : buffers'[s].page_id = buffers[s].page_id
      /\ \A s \in Slots : buffers'[s].is_dirty => buffers[s].is_dirty \/ IsFilled(s)
  BY <1>1, <1>2 DEF VictimOk, SameButUsage, PoolInv, Shape
<1>4. "idle" \in Wheres /\ "idle" \notin AtSlot \cup Replacing
  BY DEF Wheres, AtSlot, Replacing
<1>5. pc[t] # "reset"
  BY <1>1
<1> QED
  BY <1>1, <1>3, <1>4, <1>5, NoCallIsCall, BufferStep

(* The victim is chosen, and written back if it has to be.                 *)
LEMMA FetchMissStep ==
  ASSUME PoolInv, NEW t \in Threads, FetchMiss(t)
  PROVE  PoolInv'
<1> USE DEF PoolInv
<1> DEFINE v == find_victim(buffers, next_victim)
           old == v.bufs[v.victim]
           evict == old.is_dirty /\ old.pin_count = 0
           w == IF evict THEN "unmap_old" ELSE "install"
           c == [call[t] EXCEPT !.slot = v.victim, !.data = storage[call[t].page]]
<1>1. /\ pc[t] = "miss" /\ buf_lock = Nobody /\ buffers' = v.bufs /\ next_victim' = v.hand
      /\ storage' = IF evict THEN [storage EXCEPT ![old.page_id] = old.data] ELSE storage
      /\ Goto(t, w, c) /\ buf_lock' = t
      /\ UNCHANGED <<page_map, map_lock>>
  BY DEF FetchMiss
<1>2. VictimOk(buffers, v)
  BY VictimChosen DEF Shape
<1> HIDE DEF v
<1>3. /\ v.bufs \in [Slots -> Buffer] /\ v.hand \in Slots /\ v.victim \in Slots /\ old \in Buffer
      /\ SameButUsage(v.bufs, buffers)
      /\ old.pin_count > 0 => Unpinned(v.bufs) = {}
  BY <1>2 DEF VictimOk
<1>4. call[t] \in CallRec /\ call[t].page \in Pages /\ call[t].kind \in {"read", "touch", "update"}
  BY <1>1, CallOf DEF Locals, Fetching
<1>5. storage[call[t].page] \in Images
  BY <1>4 DEF Shape
<1>6. c \in CallRec /\ c.slot = v.victim /\ c.data = storage[call[t].page] /\ c.got = call[t].got /\ c.page = call[t].page /\ c.kind = call[t].kind
  BY <1>3, <1>4, <1>5 DEF CallRec
<1>7. w \in Replacing /\ w \in Wheres /\ w \in Fetching /\ w \notin AtSlot \cup Flushing /\ w # "modify"
        /\ w # "reset"
  BY DEF Replacing, Wheres, Fetching, AtSlot, Flushing
<1> HIDE DEF c
<1>8. Locals(w, c)
  BY <1>3, <1>4, <1>6, <1>7 DEF Locals
<1>9. /\ pc' \in [Threads -> Wheres] /\ call' \in [Threads -> CallRec]
      /\ Calling'
      /\ pc'[t] = w /\ call'[t] = c
      /\ \A u \in Threads \ {t} : pc'[u] = pc[u] /\ call'[u] = call[u]
  <2> HIDE DEF w
  <2> QED
    BY <1>1, <1>6, <1>7, <1>8, MoveKeeps
<1> HIDE DEF w
<1>10. \A u \in Threads : pc[u] \notin Replacing
  BY <1>1, BufFreeMeans
<1>11. old.is_dirty => old.page_id \in Pages
  <2>1. old.page_id = buffers[v.victim].page_id /\ old.is_dirty = buffers[v.victim].is_dirty
    BY <1>3 DEF SameButUsage
  <2> QED
    BY <2>1, <1>3 DEF Filled, IsFilled, Buffer
<1>12. old.data \in Images
  BY <1>3 DEF Buffer
<1>13. storage' \in [Pages -> Images] /\ (evict => storage'[old.page_id] = old.data)
  <2>1. storage \in [Pages -> Images]
    BY DEF Shape
  <2>2. CASE evict
    <3>1. storage' = [storage EXCEPT ![old.page_id] = old.data] /\ old.page_id \in Pages
      BY <2>2, <1>1, <1>11
    <3> HIDE DEF old
    <3> QED
      BY <2>1, <3>1, <1>12
  <2>3. CASE ~evict
    <3> HIDE DEF evict
    <3> QED
      BY <2>1, <2>3, <1>1
  <2> QED
    BY <2>2, <2>3
<1>14. Shape'
  BY <1>1, <1>3, <1>9, <1>13 DEF Shape
<1>15. Locks'
  BY <1>1, <1>7, <1>9, <1>10, PoolConstants DEF Locks
<1>16. Filled'
  <2>1. \A s \in Slots : buffers'[s].page_id = buffers[s].page_id /\ buffers'[s].is_dirty = buffers[s].is_dirty
    BY <1>1, <1>3 DEF SameButUsage
  <2>2. ASSUME NEW p \in Pages, page_map'[p] # NoSlot PROVE IsFilled(page_map[p])'
    <3>1. page_map[p] \in Slots /\ IsFilled(page_map[p]) /\ page_map' = page_map
      BY <1>1, <2>2 DEF Filled, Shape
    <3> QED
      BY <2>1, <3>1 DEF IsFilled
  <2>3. \A s \in Slots : buffers'[s].is_dirty => IsFilled(s)'
    BY <2>1 DEF Filled, IsFilled
  <2>4. ASSUME NEW u \in Threads, pc'[u] \in AtSlot PROVE IsFilled(call[u].slot)'
    <3>1. u # t /\ pc[u] \in AtSlot /\ call'[u] = call[u]
      BY <1>7, <1>9, <2>4
    <3>2. call[u].slot \in Slots /\ IsFilled(call[u].slot)
      BY <3>1 DEF Filled, Calling, Locals
    <3> QED
      BY <3>1, <3>2, <2>1 DEF IsFilled
  <2> QED
    BY <2>2, <2>3, <2>4 DEF Filled
<1>17. Victims'
  <2> SUFFICES ASSUME NEW u \in Threads, pc'[u] \in Replacing
               PROVE  VictimReady(call[u].slot)'
    BY DEF Victims
  <2>1. u = t /\ call'[u].slot = v.victim
    BY <1>6, <1>9, <1>10
  <2>2. buffers'[call'[u].slot] = old
    BY <2>1, <1>1
  <2>3. old.pin_count > 0 => Unpinned(buffers') = {}
    BY <1>1, <1>3
  <2>4. old.is_dirty /\ old.pin_count = 0 => storage'[old.page_id] = old.data
    BY <1>13
  <2> HIDE DEF old
  <2> QED
    BY <2>2, <2>3, <2>4 DEF VictimReady, Unpinned
<1> QED
  BY <1>9, <1>14, <1>15, <1>16, <1>17

LEMMA FetchUnmapOldStep ==
  ASSUME PoolInv, NEW t \in Threads, FetchUnmapOld(t)
  PROVE  PoolInv'
<1> USE DEF PoolInv
<1> DEFINE x == buffers[call[t].slot].page_id
<1>1. /\ pc[t] = "unmap_old" /\ page_map' = [page_map EXCEPT ![x] = NoSlot]
      /\ Goto(t, "install", call[t])
      /\ UNCHANGED <<buffers, next_victim, storage, map_lock, buf_lock>>
  BY DEF FetchUnmapOld
<1> HIDE DEF x
<1>2. call[t] \in CallRec /\ Locals("unmap_old", call[t])
  BY <1>1, CallOf
<1>3. Locals("install", call[t]) /\ "install" \in Wheres
  BY <1>2 DEF Locals, AtSlot, Replacing, Fetching, Flushing, Wheres
<1>4. /\ pc' \in [Threads -> Wheres] /\ call' \in [Threads -> CallRec]
      /\ Calling'
      /\ pc'[t] = "install" /\ call'[t] = call[t]
      /\ \A u \in Threads \ {t} : pc'[u] = pc[u] /\ call'[u] = call[u]
  BY <1>1, <1>2, <1>3, MoveKeeps
<1>5. Shape'
  BY <1>1, <1>4 DEF Shape
<1>6. Locks'
  BY <1>1, <1>4 DEF Locks, Replacing
<1>7. \A p \in Pages : page_map'[p] = page_map[p] \/ page_map'[p] = NoSlot
  BY <1>1 DEF Shape
<1>8. Filled'
  BY <1>1, <1>4, <1>7 DEF Filled, IsFilled, AtSlot
<1>9. Victims'
  BY <1>1, <1>4 DEF Victims, VictimReady, Unpinned, Replacing
<1> QED
  BY <1>4, <1>5, <1>6, <1>8, <1>9

(* The new page of a slot.                                                 *)
Installed(t) ==
  [page_id |-> call[t].page, data |-> call[t].data, is_dirty |-> FALSE,
   usage_count |-> 1, pin_count |-> 1]

LEMMA InstallSets ==
  ASSUME PoolInv, NEW t \in Threads, FetchInstall(t)
  PROVE  /\ call[t].slot \in Slots /\ call[t].page \in Pages
         /\ buffers' \in [Slots -> Buffer]
         /\ buffers'[call[t].slot] = Installed(t)
         /\ \A r \in Slots \ {call[t].slot} : buffers'[r] = buffers[r]
         /\ page_map' \in [Pages -> Slots \cup {NoSlot}]
         /\ page_map'[call[t].page] = call[t].slot
         /\ \A p \in Pages \ {call[t].page} : page_map'[p] = page_map[p]
<1>1. pc[t] = "install"
  BY DEF FetchInstall
<1>2. call[t].slot \in Slots /\ call[t].page \in Pages /\ call[t].data \in Images
  BY <1>1, CallOf, CallFields DEF Locals, Replacing
<1>3. Installed(t) \in Buffer
  BY <1>2 DEF Installed, Buffer
<1>4. buffers' = [buffers EXCEPT ![call[t].slot] = Installed(t)]
  BY DEF FetchInstall, Installed
<1>5. page_map' = [page_map EXCEPT ![call[t].page] = call[t].slot]
  BY DEF FetchInstall
<1>6. buffers \in [Slots -> Buffer] /\ page_map \in [Pages -> Slots \cup {NoSlot}]
  BY DEF PoolInv, Shape
<1> QED
  BY <1>2, <1>3, <1>4, <1>5, <1>6

LEMMA FetchInstallStep ==
  ASSUME PoolInv, NEW t \in Threads, FetchInstall(t)
  PROVE  PoolInv'
<1> USE DEF PoolInv
<1>1. /\ pc[t] = "install" /\ map_lock = Nobody /\ buf_lock' = Nobody
      /\ UNCHANGED <<next_victim, storage, map_lock>>
  BY DEF FetchInstall
<1>2. /\ call[t].slot \in Slots /\ call[t].page \in Pages
      /\ buffers' \in [Slots -> Buffer]
      /\ buffers'[call[t].slot] = Installed(t)
      /\ \A r \in Slots \ {call[t].slot} : buffers'[r] = buffers[r]
      /\ page_map' \in [Pages -> Slots \cup {NoSlot}]
      /\ page_map'[call[t].page] = call[t].slot
      /\ \A p \in Pages \ {call[t].page} : page_map'[p] = page_map[p]
  BY InstallSets
<1>3. PICK w, c : Fetched2(t, call[t].slot, w, c)
  <2>1. pc[t] \in Fetching
    BY <1>1 DEF Fetching
  <2> QED
    BY <1>2, <2>1, FetchedGoes DEF FetchInstall
<1>4. w \in Wheres /\ w \notin AtSlot \cup Replacing \cup {"reset"}
  BY <1>3 DEF Fetched2, Wheres, Fetching, Looking, AtSlot, Replacing
<1>5. Goto(t, w, c) /\ c \in CallRec /\ Locals(w, c)
  BY <1>3 DEF Fetched2
<1>6. /\ pc' \in [Threads -> Wheres] /\ call' \in [Threads -> CallRec]
      /\ Calling'
      /\ pc'[t] = w /\ call'[t] = c
      /\ \A u \in Threads \ {t} : pc'[u] = pc[u] /\ call'[u] = call[u]
  BY <1>4, <1>5, MoveKeeps
<1>7. Shape'
  BY <1>1, <1>2, <1>6 DEF Shape
<1>8. \A u \in Threads \ {t} : pc[u] \notin Replacing
  BY <1>1 DEF Locks, Replacing
<1>9. Locks'
  BY <1>1, <1>4, <1>6, <1>8, PoolConstants DEF Locks
<1>10. \A s \in Slots : IsFilled(s) \/ s = call[t].slot => IsFilled(s)'
  BY <1>2, PoolConstants DEF IsFilled, Installed
<1>11. \A p \in Pages : page_map'[p] # NoSlot => IsFilled(page_map[p])'
  <2> SUFFICES ASSUME NEW p \in Pages, page_map'[p] # NoSlot PROVE IsFilled(page_map[p])'
    OBVIOUS
  <2>1. page_map'[p] \in Slots /\ (IsFilled(page_map'[p]) \/ page_map'[p] = call[t].slot)
    BY <1>2 DEF Filled, Shape
  <2>2. PICK s \in Slots : s = page_map'[p]
    BY <2>1
  <2>3. buffers'[s].page_id # NoPage
    BY <2>1, <2>2, <1>10 DEF IsFilled
  <2> QED
    BY <2>2, <2>3 DEF IsFilled
<1>12. \A s \in Slots : buffers'[s].is_dirty => IsFilled(s)'
  BY <1>2, <1>10 DEF Filled, Installed
<1>13. \A u \in Threads : pc'[u] \in AtSlot => IsFilled(call[u].slot)'
  <2> SUFFICES ASSUME NEW u \in Threads, pc'[u] \in AtSlot PROVE IsFilled(call[u].slot)'
    OBVIOUS
  <2>1. u # t /\ pc[u] \in AtSlot /\ call'[u] = call[u]
    BY <1>4, <1>6
  <2>2. call[u].slot \in Slots /\ IsFilled(call[u].slot)
    BY <2>1 DEF Filled, Calling, Locals
  <2> QED
    BY <2>1, <2>2, <1>10 DEF IsFilled
<1>14. Filled'
  BY <1>11, <1>12, <1>13 DEF Filled
<1>15. Victims'
  BY <1>4, <1>6, <1>8 DEF Victims
<1> QED
  BY <1>6, <1>7, <1>9, <1>14, <1>15

LEMMA InvalidateUnmapStep ==
  ASSUME PoolInv, NEW t \in Threads, InvalidateUnmap(t)
  PROVE  PoolInv'
<1> USE DEF PoolInv
<1> DEFINE q == call[t].page
           idx == page_map[q]
           c == [call[t] EXCEPT !.slot = idx]
<1>1. /\ pc[t] = "unmap_page" /\ map_lock = Nobody
      /\ UNCHANGED <<buffers, next_victim, storage, buf_lock>>
  BY DEF InvalidateUnmap
<1>2. call[t] \in CallRec /\ q \in Pages
  BY <1>1, CallOf DEF Locals
<1>3. pc[t] \notin Replacing \cup {"reset"}
  BY <1>1 DEF Replacing
<1>4. CASE idx = NoSlot
  <2>1. Goto(t, "idle", NoCall) /\ UNCHANGED <<page_map, map_lock>>
    BY <1>4 DEF InvalidateUnmap, Finish
  <2>2. "idle" \in Wheres /\ "idle" \notin AtSlot \cup Replacing \cup {"reset"}
    BY DEF Wheres, AtSlot, Replacing
  <2> QED
    BY <1>1, <1>3, <2>1, <2>2, NoCallIsCall, QuietStep
<1>5. CASE idx # NoSlot
  <2>1. Goto(t, "reset", c) /\ map_lock' = t /\ page_map' = [page_map EXCEPT ![q] = NoSlot]
    BY <1>5 DEF InvalidateUnmap
  <2>2. idx \in Slots /\ IsFilled(idx)
    BY <1>2, <1>5 DEF Shape, Filled
  <2>3. c \in CallRec /\ c.slot = idx /\ c.page = q
    BY <1>2, <2>2 DEF CallRec
  <2> HIDE DEF c, idx, q
  <2>4. Locals("reset", c)
    BY <1>2, <2>2, <2>3 DEF Locals, AtSlot, Replacing, Fetching, Flushing
  <2>5. "reset" \in Wheres
    BY DEF Wheres, AtSlot
  <2>6. /\ pc' \in [Threads -> Wheres] /\ call' \in [Threads -> CallRec]
        /\ Calling'
        /\ pc'[t] = "reset" /\ call'[t] = c
        /\ \A u \in Threads \ {t} : pc'[u] = pc[u] /\ call'[u] = call[u]
    BY <2>1, <2>3, <2>4, <2>5, MoveKeeps
  <2>7. Shape'
    BY <1>1, <2>1, <2>6 DEF Shape
  <2>8. Locks'
    BY <1>1, <1>3, <2>1, <2>6, PoolConstants DEF Locks, Replacing
  <2>9. \A p \in Pages : page_map'[p] = page_map[p] \/ page_map'[p] = NoSlot
    BY <2>1 DEF Shape
  <2>10. Filled'
    BY <1>1, <2>2, <2>3, <2>6, <2>9 DEF Filled, IsFilled
  <2>11. Victims'
    BY <1>1, <2>6 DEF Victims, VictimReady, Unpinned, Replacing
  <2> QED
    BY <2>6, <2>7, <2>8, <2>10, <2>11
<1> QED
  BY <1>4, <1>5

LEMMA InvalidateResetStep ==
  ASSUME PoolInv, NEW t \in Threads, InvalidateReset(t)
  PROVE  PoolInv'
<1> USE DEF PoolInv
<1> DEFINE i == call[t].slot
           o == buffers[i]
<1>1. /\ pc[t] = "reset" /\ buf_lock = Nobody /\ map_lock' = Nobody /\ Goto(t, "idle", NoCall)
      /\ UNCHANGED <<page_map, next_victim, storage, buf_lock>>
  BY DEF InvalidateReset, Finish
<1>2. i \in Slots
  BY <1>1, CallOf DEF Locals, AtSlot
<1>3. buffers \in [Slots -> Buffer] /\ o \in Buffer
  BY <1>2 DEF Shape
<1>4. PICK f, z : f = FALSE /\ z = 0
  OBVIOUS
<1> DEFINE o1 == [o EXCEPT !.is_dirty = f]
           o2 == [o1 EXCEPT !.usage_count = z]
           o3 == [o2 EXCEPT !.pin_count = z]
<1>5. buffers' = [buffers EXCEPT ![i].is_dirty = f, ![i].usage_count = z, ![i].pin_count = z]
  BY <1>4 DEF InvalidateReset
<1>6. buffers' = [buffers EXCEPT ![i] = o3]
  BY <1>2, <1>3, <1>5
<1>7. f \in BOOLEAN /\ z \in Nat
  BY <1>4
<1>8. o1 \in Buffer /\ o1.page_id = o.page_id
  BY <1>3, <1>7 DEF Buffer
<1>9. o1.is_dirty = f
  BY <1>3, <1>7 DEF Buffer
<1> HIDE DEF o1
<1>10. o2 \in Buffer /\ o2.page_id = o.page_id /\ o2.is_dirty = f
  BY <1>7, <1>8, <1>9 DEF Buffer
<1> HIDE DEF o2
<1>11. o3 \in Buffer /\ o3.page_id = o.page_id /\ o3.is_dirty = f
  BY <1>7, <1>10 DEF Buffer
<1> HIDE DEF o3
<1>12. /\ buffers' \in [Slots -> Buffer]
       /\ \A s \in Slots : buffers'[s].page_id = buffers[s].page_id
  BY <1>2, <1>3, <1>6, <1>11
<1>13. \A s \in Slots : buffers'[s].is_dirty => buffers[s].is_dirty
  BY <1>2, <1>3, <1>4, <1>6, <1>11
<1>14. "idle" \in Wheres /\ "idle" \notin AtSlot \cup Replacing
  BY DEF Wheres, AtSlot, Replacing
<1>15. /\ pc' \in [Threads -> Wheres] /\ call' \in [Threads -> CallRec]
       /\ Calling'
       /\ pc'[t] = "idle" /\ call'[t] = NoCall
       /\ \A u \in Threads \ {t} : pc'[u] = pc[u] /\ call'[u] = call[u]
  BY <1>1, <1>14, NoCallIsCall, MoveKeeps
<1>16. \A u \in Threads : pc[u] \notin Replacing
  BY <1>1, BufFreeMeans
<1>17. Shape'
  BY <1>1, <1>12, <1>15 DEF Shape
<1>18. Locks'
  BY <1>1, <1>14, <1>15, <1>16, PoolConstants DEF Locks
<1>19. ASSUME NEW p \in Pages, page_map'[p] # NoSlot PROVE IsFilled(page_map[p])'
  <2>1. page_map[p] \in Slots /\ IsFilled(page_map[p]) /\ page_map' = page_map
    BY <1>1, <1>19 DEF Filled, Shape
  <2> QED
    BY <1>12, <2>1 DEF IsFilled
<1>20. \A s \in Slots : buffers'[s].is_dirty => IsFilled(s)'
  BY <1>12, <1>13 DEF Filled, IsFilled
<1>21. ASSUME NEW u \in Threads, pc'[u] \in AtSlot PROVE IsFilled(call[u].slot)'
  <2>1. u # t /\ pc[u] \in AtSlot /\ call'[u] = call[u]
    BY <1>14, <1>15, <1>21
  <2>2. call[u].slot \in Slots /\ IsFilled(call[u].slot)
    BY <2>1 DEF Filled, Calling, Locals
  <2> QED
    BY <2>1, <2>2, <1>12 DEF IsFilled
<1>22. Filled'
  BY <1>19, <1>20, <1>21 DEF Filled
<1>23. Victims'
  BY <1>14, <1>15, <1>16 DEF Victims
<1> QED
  BY <1>15, <1>17, <1>18, <1>22, <1>23

LEMMA PoolStep ==
  ASSUME PoolInv, [Next]_vars
  PROVE  PoolInv'
<1>1. ASSUME NEW t \in Threads, Start(t)
      PROVE  PoolInv'
  BY <1>1, StartStep
<1>2. ASSUME NEW t \in Threads, Fetch(t)
      PROVE  PoolInv'
  BY <1>2, FetchLookupStep, FetchHitStep, FetchMissStep, FetchMissFailsStep,
     FetchUnmapOldStep, FetchInstallStep DEF Fetch
<1>3. ASSUME NEW t \in Threads, CloneData(t) \/ ModifyData(t)
      PROVE  PoolInv'
  BY <1>3, CloneDataStep, ModifyDataStep
<1>4. ASSUME NEW t \in Threads, UnpinLookup(t) \/ PinLookup(t)
      PROVE  PoolInv'
  BY <1>4, SlotLookupStep DEF UnpinLookup, PinLookup
<1>5. ASSUME NEW t \in Threads, UnpinSlot(t) \/ PinSlot(t)
      PROVE  PoolInv'
  BY <1>5, UnpinSlotStep, PinSlotStep
<1>6. ASSUME NEW t \in Threads, InvalidateUnmap(t) \/ InvalidateReset(t)
      PROVE  PoolInv'
  BY <1>6, InvalidateUnmapStep, InvalidateResetStep
<1>7. ASSUME NEW t \in Threads, FlushCheck(t) \/ FlushLookup(t) \/ FlushSlot(t)
      PROVE  PoolInv'
  BY <1>7, FlushCheckStep, FlushLookupStep, FlushSlotStep
<1>8. CASE UNCHANGED vars
  BY <1>8 DEF vars, PoolInv, Shape, Locks, Calling, Filled, Victims, IsFilled, VictimReady, Unpinned
<1> QED
  BY <1>1, <1>2, <1>3, <1>4, <1>5, <1>6, <1>7, <1>8 DEF Next, Step, Rest

(* The slots, the map, the mutexes and the calls in progress are what the  *)
(* code can make them, and a victim between its choice and its replacement *)
(* is unpinned or the pool is full, and written back if it was dirty.      *)
THEOREM PoolInvariant == Spec => []PoolInv
  BY InitPool, PoolStep, PTL DEF Spec

(* Types of the pool and the lock discipline: a mutex is held across steps *)
(* exactly by the thread that is between unmapping a victim and installing *)
(* its page, or between unmapping an invalidated page and resetting it.    *)
THEOREM PoolTypeCorrect == Spec => []TypeOK
<1>1. PoolInv => TypeOK
  BY DEF PoolInv, Shape, Locks, Replacing, TypeOK, Buffer
<1> QED
  BY <1>1, PoolInvariant, PTL

(* A slot's page changes only where FetchInstall replaces a victim.        *)
LEMMA PageChange ==
  ASSUME PoolInv, [Next]_vars, NEW s \in Slots, buffers'[s].page_id # buffers[s].page_id
  PROVE  \E t \in Threads : pc[t] = "install" /\ s = call[t].slot
<1>1. ASSUME NEW t \in Threads, Start(t)
      PROVE  FALSE
  <2>1. UNCHANGED buffers
    BY <1>1 DEF Start, BeginRead, BeginFetch, BeginPin, BeginInvalidate, Begin, BeginFlush
  <2> QED
    BY <2>1
<1>2. ASSUME NEW t \in Threads, FetchHit(t) \/ ModifyData(t) \/ UnpinSlot(t) \/ PinSlot(t) \/ FlushSlot(t)
      PROVE  FALSE
  <2>1. PICK at, p, r, b : SlotSetAt(at, p, r, b)
    BY <1>2, FetchHitSets, ModifyDataSets, UnpinSlotSets, PinSlotSets, FlushSlotSets
  <2> QED
    BY <2>1, SlotSetKeeps DEF PoolInv, SlotSetAt
<1>3. ASSUME NEW t \in Threads, FetchMiss(t) \/ FetchMissFails(t)
      PROVE  FALSE
  <2>1. buffers' = find_victim(buffers, next_victim).bufs
    BY <1>3 DEF FetchMiss, FetchMissFails
  <2>2. VictimOk(buffers, find_victim(buffers, next_victim))
    BY VictimChosen DEF PoolInv, Shape
  <2> QED
    BY <2>1, <2>2 DEF VictimOk, SameButUsage
<1>4. ASSUME NEW t \in Threads, FetchInstall(t)
      PROVE  \E u \in Threads : pc[u] = "install" /\ s = call[u].slot
  BY <1>4, InstallSets DEF FetchInstall
<1>5. ASSUME NEW t \in Threads, InvalidateReset(t)
      PROVE  FALSE
  <2>1. buffers \in [Slots -> Buffer] /\ call[t].slot \in Slots
    BY <1>5, CallOf DEF InvalidateReset, Locals, AtSlot, PoolInv, Shape
  <2>2. buffers'[s].page_id = buffers[s].page_id
    BY <2>1, <1>5 DEF InvalidateReset, Buffer
  <2> QED
    BY <2>2
<1>6. ASSUME NEW t \in Threads, \/ FetchLookup(t) \/ FetchUnmapOld(t) \/ CloneData(t)
                               \/ UnpinLookup(t) \/ PinLookup(t) \/ InvalidateUnmap(t)
                               \/ FlushCheck(t) \/ FlushLookup(t)
      PROVE  FALSE
  <2>1. UNCHANGED buffers
    BY <1>6 DEF FetchLookup, FetchUnmapOld, CloneData, UnpinLookup, PinLookup, SlotLookup,
                InvalidateUnmap, FlushCheck, FlushLookup
  <2> QED
    BY <2>1
<1>7. CASE UNCHANGED vars
  BY <1>7 DEF vars
<1> QED
  BY <1>1, <1>2, <1>3, <1>4, <1>5, <1>6, <1>7 DEF Next, Step, Fetch, Rest

(* A pinned page is given up only when every slot is pinned, for every     *)
(* pool size, number of threads and mix of calls: nothing another thread   *)
(* does comes between the choice of the victim and its replacement.        *)
THEOREM PinnedOnlyWhenFull == Spec => PinnedVictimOnlyWhenFull
<1>1. ASSUME PoolInv, [Next]_vars
      PROVE  [\A s \in Slots :
                (buffers'[s].page_id # buffers[s].page_id /\ buffers[s].pin_count > 0)
                  => Unpinned(buffers) = {}]_vars
  BY <1>1, PageChange DEF PoolInv, Victims, VictimReady, Replacing
<1> QED
  BY <1>1, PoolInvariant, PTL DEF Spec, PinnedVictimOnlyWhenFull

(* The slot of a dirty unpinned page is reused only after fetch_page has   *)
(* written its image to storage, for every pool and mix of calls.          *)
THEOREM WrittenBeforeReuse == Spec => WriteBackBeforeReuse
<1>1. ASSUME PoolInv, [Next]_vars
      PROVE  [\A s \in Slots :
                (/\ buffers'[s].page_id # buffers[s].page_id
                 /\ buffers[s].is_dirty /\ buffers[s].pin_count = 0)
                  => storage[buffers[s].page_id] = buffers[s].data]_vars
  BY <1>1, PageChange DEF PoolInv, Victims, VictimReady, Replacing
<1> QED
  BY <1>1, PoolInvariant, PTL DEF Spec, WriteBackBeforeReuse

------------------------------------------------------------------------------
(* A pool with room                                                        *)

(* The sweep takes an unused slot under the hand at once.                  *)
LEMMA SweepFresh ==
  ASSUME NEW bufs \in [Slots -> Buffer], NEW hand \in Slots,
         bufs[hand].pin_count = 0, bufs[hand].usage_count = 0
  PROVE  find_victim(bufs, hand) =
           [bufs |-> bufs, hand |-> (hand + 1) % PoolSize, victim |-> hand]
<1> DEFINE r == [bufs |-> bufs, hand |-> (hand + 1) % PoolSize, victim |-> hand]
<1>0. PICK f : SweepsBy(bufs, hand, f)
  BY SweepRounds
<1>1. /\ f[0] = Swept(bufs, hand)
      /\ \A n \in 1 .. 2 * PoolSize : f[n] = SweepStep(f[n - 1])
      /\ Sweep(bufs, hand) = f[2 * PoolSize]
  BY <1>0 DEF SweepsBy
<1>2. hand # NoSlot
  BY PoolConstants DEF Slots
<1>3. SweepStep(Swept(bufs, hand)) = r
  <2> DEFINE r0 == Swept(bufs, hand)
             next == (hand + 1) % PoolSize
  <2>1. r0.victim = NoSlot /\ r0.bufs = bufs /\ r0.hand = hand
    BY DEF Swept
  <2>2. [r0 EXCEPT !.hand = next, !.victim = hand] = r
    <3> HIDE DEF next
    <3> DEFINE r1 == [r0 EXCEPT !.hand = next]
    <3>1. r1 \in [bufs : {bufs}, hand : {next}, victim : {NoSlot}]
      BY DEF Swept
    <3> HIDE DEF r1
    <3>2. [r1 EXCEPT !.victim = hand] \in [bufs : {bufs}, hand : {next}, victim : {hand}]
      BY <3>1
    <3>3. [r1 EXCEPT !.victim = hand] = [bufs |-> bufs, hand |-> next, victim |-> hand]
      BY <3>2
    <3> QED
      BY <3>3 DEF next, r1
  <2> HIDE DEF r0
  <2>3. SweepStep(r0) = [r0 EXCEPT !.hand = next, !.victim = hand]
    BY <2>1 DEF SweepStep
  <2> QED
    BY <2>2, <2>3 DEF r0
<1>4. SweepStep(r) = r
  BY <1>2 DEF SweepStep
<1> HIDE DEF r
<1>5. 1 \in 1 .. 2 * PoolSize /\ 2 * PoolSize \in Nat /\ 2 * PoolSize >= 1
  BY PoolConstants
<1>6. f[1] = r
  BY <1>1, <1>3, <1>5
<1> DEFINE S == {n \in Nat : n + 1 <= 2 * PoolSize => f[n + 1] = r}
<1>7. 0 \in S
  BY <1>6
<1>8. ASSUME NEW n \in Nat, n \in S
      PROVE  n + 1 \in S
  <2>1. CASE (n + 1) + 1 <= 2 * PoolSize
    <3>1. (n + 1) + 1 \in 1 .. 2 * PoolSize /\ ((n + 1) + 1) - 1 = n + 1 /\ n + 1 <= 2 * PoolSize
      BY <2>1, <1>5
    <3>2. f[(n + 1) + 1] = SweepStep(f[n + 1]) /\ f[n + 1] = r
      BY <3>1, <1>1, <1>8
    <3> QED
      BY <3>2, <1>4
  <2> QED
    BY <2>1
<1>9. Nat \subseteq S
  <2> HIDE DEF S
  <2> QED
    BY <1>7, <1>8, InductiveSet
<1>10. PICK m \in Nat : m + 1 = 2 * PoolSize
  <2>1. 2 * PoolSize - 1 \in Nat /\ (2 * PoolSize - 1) + 1 = 2 * PoolSize
    BY <1>5
  <2> QED
    BY <2>1
<1>11. f[2 * PoolSize] = r
  BY <1>9, <1>10
<1>12. Sweep(bufs, hand) = r
  BY <1>1, <1>11
<1>13. r.victim # NoSlot
  BY <1>2 DEF r
<1> QED
  BY <1>12, <1>13 DEF find_victim, r

(* A step of one thread that keeps every slot's page, the map and the hand.*)
LEMMA RoomKept ==
  ASSUME PoolInv, PoolInv', RoomInv, NEW t \in Threads, NEW w \in Wheres, NEW c \in CallRec,
         Locals(w, c), Goto(t, w, c),
         \A s \in Slots : buffers'[s].page_id = buffers[s].page_id,
         \A s \in Slots : IsFilled(s) => buffers'[s].data.of = buffers[s].page_id,
         \A s \in Slots : ~IsFilled(s) => buffers'[s].usage_count = 0 /\ buffers'[s].pin_count = 0,
         \A p \in Pages : storage'[p].of = p,
         UNCHANGED <<page_map, next_victim, buf_lock>>,
         NamedCall(w, c),
         w \notin {"install", "unmap_old", "unmap_page", "reset"}, pc[t] # "install",
         w = "miss" => page_map[c.page] = NoSlot
  PROVE  RoomInv'
<1>1. /\ pc'[t] = w /\ call'[t] = c
      /\ \A u \in Threads \ {t} : pc'[u] = pc[u] /\ call'[u] = call[u]
  BY MoveKeeps DEF PoolInv
<1>2. \A s \in Slots : IsFilled(s)' <=> IsFilled(s)
  BY DEF IsFilled
<1>3. NamedSlots'
  BY <1>2 DEF NamedSlots, RoomInv
<1>4. NamedMap'
  BY DEF NamedMap, RoomInv, PoolInv, Shape
<1>5. NamedStorage'
  BY DEF NamedStorage
<1>6. NamedCalls'
  <2> SUFFICES ASSUME NEW u \in Threads PROVE NamedCall(pc[u], call[u])'
    BY DEF NamedCalls
  <2>1. NamedCall(pc'[u], call'[u])
    BY <1>1 DEF NamedCalls, RoomInv
  <2>2. call'[u].got \in Gots /\ Locals(pc'[u], call'[u])
    BY CallFields DEF PoolInv, Shape, Calling
  <2>3. \A q \in DOMAIN call'[u].got : call'[u].got[q] \in Slots
    BY <2>2, GotsAre
  <2>4. pc'[u] \in AtSlot => call'[u].slot \in Slots
    BY <2>2 DEF Locals
  <2> QED
    BY <2>1, <2>3, <2>4 DEF NamedCall
<1>7. InOrder'
  <2>1. PICK k \in 0 .. PoolSize : FilledUpTo(k)
    BY DEF RoomInv, InOrder
  <2>2. \A s \in Slots : IsFilled(s)' <=> s < k
    BY <1>2, <2>1 DEF FilledUpTo
  <2>3. \A s \in Slots : ~IsFilled(s)' => buffers'[s].usage_count = 0 /\ buffers'[s].pin_count = 0
    BY <1>2
  <2>4. \A u \in Threads : pc'[u] = "install" => call'[u].slot = k
    BY <1>1, <2>1 DEF FilledUpTo
  <2>5. FilledUpTo(k)'
    BY <2>1, <2>2, <2>3, <2>4 DEF FilledUpTo
  <2> QED
    BY <2>5 DEF InOrder
<1>8. NoUnmapping'
  BY <1>1 DEF NoUnmapping, RoomInv
<1>9. Owned'
  <2>1. PICK f \in [FilledSlots -> Threads \X Pages] : Owners(f)
    BY DEF RoomInv, Owned
  <2>2. FilledSlots' = FilledSlots
    BY <1>2 DEF FilledSlots
  <2>3. ASSUME NEW u \in Threads, pc'[u] \in {"miss", "install"}, NEW s \in FilledSlots
        PROVE  f[s] # <<u, call'[u].page>>
    <3>1. CASE u # t
      BY <3>1, <2>3, <2>1, <1>1 DEF Owners
    <3>2. CASE u = t
      <4>1. page_map[call'[u].page] = NoSlot
        BY <3>2, <2>3, <1>1
      <4>2. f[s][2] = buffers[s].page_id /\ page_map[buffers[s].page_id] # NoSlot
        BY <2>1 DEF Owners, FilledSlots, RoomInv, NamedSlots
      <4>3. f[s][2] # call'[u].page
        BY <4>1, <4>2
      <4> QED
        BY <4>3
    <3> QED
      BY <3>1, <3>2
  <2>4. \A s \in FilledSlots : f[s][2] = buffers'[s].page_id
    BY <2>1 DEF Owners, FilledSlots
  <2>5. Owners(f)'
    BY <2>1, <2>2, <2>3, <2>4 DEF Owners
  <2> QED
    BY <2>1, <2>2, <2>5 DEF Owned
<1> QED
  BY <1>3, <1>4, <1>5, <1>6, <1>7, <1>8, <1>9 DEF RoomInv

LEMMA RoomQuiet ==
  ASSUME PoolInv, PoolInv', RoomInv, NEW t \in Threads, NEW w \in Wheres, NEW c \in CallRec,
         Locals(w, c), Goto(t, w, c),
         UNCHANGED <<buffers, page_map, next_victim, storage, map_lock, buf_lock>>,
         NamedCall(w, c),
         w \notin {"install", "unmap_old", "unmap_page", "reset"}, pc[t] # "install",
         w = "miss" => page_map[c.page] = NoSlot
  PROVE  RoomInv'
<1>1. PICK k \in 0 .. PoolSize : FilledUpTo(k)
  BY DEF RoomInv, InOrder
<1>2. \A s \in Slots : buffers'[s].page_id = buffers[s].page_id
  OBVIOUS
<1>3. \A s \in Slots : IsFilled(s) => buffers'[s].data.of = buffers[s].page_id
  BY DEF RoomInv, NamedSlots
<1>4. \A s \in Slots : ~IsFilled(s) => buffers'[s].usage_count = 0 /\ buffers'[s].pin_count = 0
  BY <1>1 DEF FilledUpTo
<1>5. \A p \in Pages : storage'[p].of = p
  BY DEF RoomInv, NamedStorage
<1> QED
  BY <1>2, <1>3, <1>4, <1>5, RoomKept

LEMMA RoomSlot ==
  ASSUME PoolInv, PoolInv', RoomInv, NEW t \in Threads, NEW w \in Wheres, NEW c \in CallRec,
         Locals(w, c), Goto(t, w, c),
         NEW at \in Slots, NEW q \in Pages, buffers[at].page_id = q,
         NEW s, NEW b, SlotSetAt(at, q, s, b),
         \A p \in Pages : storage'[p].of = p,
         UNCHANGED <<page_map, next_victim, buf_lock>>,
         NamedCall(w, c),
         w \notin {"install", "unmap_old", "unmap_page", "reset", "miss"}, pc[t] # "install"
  PROVE  RoomInv'
<1>1. PICK k \in 0 .. PoolSize : FilledUpTo(k)
  BY DEF RoomInv, InOrder
<1>2. \A r \in Slots : buffers'[r].page_id = buffers[r].page_id
  BY SlotSetKeeps DEF SlotSetAt, PoolInv
<1>3. SlotSet(at, b) /\ (b.data = buffers[at].data \/ b.data.of = q)
  BY DEF SlotSetAt
<1>4. IsFilled(at) /\ buffers'[at].data.of = q
  BY <1>3, PoolConstants DEF IsFilled, SlotSet, RoomInv, NamedSlots
<1>5. \A r \in Slots : IsFilled(r) => buffers'[r].data.of = buffers[r].page_id
  BY <1>3, <1>4 DEF RoomInv, NamedSlots, SlotSet
<1>6. \A r \in Slots : ~IsFilled(r) => buffers'[r].usage_count = 0 /\ buffers'[r].pin_count = 0
  BY <1>1, <1>3, <1>4 DEF FilledUpTo, SlotSet
<1> QED
  BY <1>2, <1>5, <1>6, RoomKept

LEMMA RoomBegin ==
  ASSUME PoolInv, PoolInv', RoomInv, NEW t \in Threads, NEW kind, NEW where, NEW P \in SUBSET Pages,
         where \in {"lookup", "pin_lookup"},
         where = "lookup" => kind \in {"read", "touch", "update"},
         Begin(t, kind, where, P)
  PROVE  RoomInv'
<1>1. PICK p \in P : Goto(t, where, [NoCall EXCEPT !.kind = kind, !.page = p, !.todo = P])
  BY DEF Begin
<1> DEFINE c == [NoCall EXCEPT !.kind = kind, !.page = p, !.todo = P]
<1>2. kind \in CallKinds /\ pc[t] = "idle" /\ p \in Pages
  BY PoolConstants DEF Begin
<1>3. c \in CallRec /\ c.page = p /\ c.kind = kind /\ c.got = NoCall.got
  <2>1. NoCall \in CallRec
    BY NoCallIsCall
  <2> QED
    BY <2>1, <1>2 DEF CallRec
<1> HIDE DEF c
<1>4. Locals(where, c)
  BY <1>2, <1>3 DEF Locals, AtSlot, Replacing, Fetching, Flushing
<1>5. where \in Wheres /\ where \notin AtSlot
  BY DEF Wheres, Fetching, Looking, AtSlot
<1>6. NamedCall(where, c)
  BY <1>3, <1>5, NoCallIsCall DEF NamedCall
<1>7. UNCHANGED <<buffers, page_map, next_victim, storage, map_lock, buf_lock>> /\ Goto(t, where, c)
  BY <1>1 DEF Begin, c
<1> QED
  BY <1>2, <1>3, <1>4, <1>5, <1>6, <1>7, RoomQuiet

LEMMA RoomBeginFlush ==
  ASSUME PoolInv, PoolInv', RoomInv, NEW t \in Threads, NEW kind, NEW where,
         where \in {"flush_lookup", "flush_check"},
         BeginFlush(t, kind, where)
  PROVE  RoomInv'
<1> DEFINE mapped == {p \in Pages : page_map[p] # NoSlot}
           got == [q \in mapped |-> page_map[q]]
<1>1. PICK p \in mapped :
        Goto(t, where, [NoCall EXCEPT !.kind = kind, !.page = p, !.todo = mapped, !.got = got])
  BY DEF BeginFlush
<1> DEFINE c == [NoCall EXCEPT !.kind = kind, !.page = p, !.todo = mapped, !.got = got]
<1>2. kind \in CallKinds /\ pc[t] = "idle" /\ p \in Pages /\ p \in mapped
  BY PoolConstants DEF BeginFlush
<1>3. got \in [mapped -> Slots] /\ mapped \in SUBSET Pages
  BY DEF PoolInv, Shape
<1>4. got \in Gots /\ DOMAIN got = mapped
  <2>1. DOMAIN got = mapped
    OBVIOUS
  <2> HIDE DEF got, mapped
  <2> QED
    BY <1>3, <2>1 DEF Gots
<1>5. \A q \in mapped : buffers[got[q]].page_id = q
  BY DEF RoomInv, NamedMap
<1> HIDE DEF got, mapped
<1>6. c \in CallRec /\ c.page = p /\ c.todo = mapped /\ c.got = got
  <2>1. NoCall \in CallRec
    BY NoCallIsCall
  <2> QED
    BY <2>1, <1>2, <1>3, <1>4 DEF CallRec
<1> HIDE DEF c
<1>7. Locals(where, c)
  BY <1>2, <1>4, <1>6 DEF Locals, AtSlot, Replacing, Fetching, Flushing
<1>8. where \in Wheres /\ where \notin AtSlot
  BY DEF Wheres, Flushing, AtSlot
<1>9. NamedCall(where, c)
  BY <1>4, <1>5, <1>6, <1>8 DEF NamedCall
<1>10. UNCHANGED <<buffers, page_map, next_victim, storage, map_lock, buf_lock>> /\ Goto(t, where, c)
  BY <1>1 DEF BeginFlush, c, got, mapped
<1> QED
  BY <1>2, <1>6, <1>7, <1>8, <1>9, <1>10, RoomQuiet

LEMMA RoomStart ==
  ASSUME Room, PoolInv, PoolInv', RoomInv, NEW t \in Threads, Start(t)
  PROVE  RoomInv'
<1>1. CASE BeginRead(t)
  <2>1. PICK P \in SUBSET Pages : Begin(t, "read", "lookup", P)
    BY <1>1 DEF BeginRead
  <2> QED
    BY <2>1, RoomBegin
<1>2. CASE BeginFetch(t)
  <2>1. PICK p \in Pages, kind \in {"touch", "update"} : Begin(t, kind, "lookup", {p})
    BY <1>2 DEF BeginFetch
  <2>2. {p} \in SUBSET Pages
    OBVIOUS
  <2> QED
    BY <2>1, <2>2, RoomBegin
<1>3. CASE BeginPin(t)
  <2>1. PICK p \in Pages : Begin(t, "pin", "pin_lookup", {p})
    BY <1>3 DEF BeginPin
  <2>2. {p} \in SUBSET Pages
    OBVIOUS
  <2> QED
    BY <2>1, <2>2, RoomBegin
<1>4. CASE BeginInvalidate(t)
  BY <1>4 DEF BeginInvalidate, Begin, Room
<1>5. CASE BeginFlush(t, "flush_all", "flush_lookup") \/ BeginFlush(t, "flush_dirty", "flush_check")
  BY <1>5, RoomBeginFlush
<1> QED
  BY <1>1, <1>2, <1>3, <1>4, <1>5 DEF Start

LEMMA RoomFetchLookup ==
  ASSUME PoolInv, PoolInv', RoomInv, NEW t \in Threads, FetchLookup(t)
  PROVE  RoomInv'
<1> DEFINE idx == page_map[call[t].page]
           w == IF idx # NoSlot THEN "hit" ELSE "miss"
           c == [call[t] EXCEPT !.slot = idx]
<1>1. pc[t] = "lookup" /\ Goto(t, w, c)
        /\ UNCHANGED <<buffers, page_map, next_victim, storage, map_lock, buf_lock>>
  BY DEF FetchLookup
<1>2. call[t] \in CallRec /\ Locals("lookup", call[t])
  BY <1>1, CallOf
<1>3. call[t].page \in Pages /\ call[t].kind \in {"read", "touch", "update"}
  BY <1>2 DEF Locals, Fetching
<1>4. idx \in Slots \cup {NoSlot} /\ (idx # NoSlot => buffers[idx].page_id = call[t].page)
  BY <1>3 DEF PoolInv, Shape, RoomInv, NamedMap
<1>5. c \in CallRec /\ c.slot = idx /\ c.kind = call[t].kind /\ c.page = call[t].page /\ c.got = call[t].got
  BY <1>2, <1>4 DEF CallRec
<1>6. w \in {"hit", "miss"} /\ (w = "hit" => idx \in Slots /\ buffers[idx].page_id = call[t].page)
        /\ (w = "miss" => page_map[c.page] = NoSlot)
  BY <1>4, <1>5
<1> HIDE DEF c, w, idx
<1>7. Locals(w, c)
  BY <1>3, <1>5, <1>6 DEF Locals, AtSlot, Replacing, Fetching, Flushing
<1>8. w \in Wheres /\ pc[t] # "install"
  BY <1>1, <1>6 DEF Wheres, Fetching
<1>9. NamedCall(w, c)
  BY <1>5, <1>6 DEF NamedCall, RoomInv, NamedCalls, AtSlot
<1> QED
  BY <1>1, <1>5, <1>6, <1>7, <1>8, <1>9, RoomQuiet

LEMMA RoomSlotLookup ==
  ASSUME PoolInv, PoolInv', RoomInv, NEW t \in Threads, NEW from, NEW to, SlotLookup(t, from, to),
         from \in {"unpin_lookup", "pin_lookup"}, to \in {"unpin", "pin"}
  PROVE  RoomInv'
<1> DEFINE idx == page_map[call[t].page]
           c == [call[t] EXCEPT !.slot = idx]
<1>1. pc[t] = from
        /\ UNCHANGED <<buffers, page_map, next_victim, storage, map_lock, buf_lock>>
  BY DEF SlotLookup
<1>2. call[t] \in CallRec /\ call[t].page \in Pages
  BY <1>1, CallOf DEF Locals
<1>4. CASE idx = NoSlot
  <2>1. Goto(t, "idle", NoCall)
    BY <1>4 DEF SlotLookup, Finish
  <2>2. "idle" \in Wheres /\ NamedCall("idle", NoCall)
    BY NoCallIsCall DEF Wheres, AtSlot, NamedCall
  <2> QED
    BY <1>1, <2>1, <2>2, NoCallIsCall, RoomQuiet
<1>5. CASE idx # NoSlot
  <2>1. Goto(t, to, c)
    BY <1>5 DEF SlotLookup
  <2>2. idx \in Slots /\ buffers[idx].page_id = call[t].page
    BY <1>2, <1>5 DEF PoolInv, Shape, RoomInv, NamedMap
  <2>3. c \in CallRec /\ c.slot = idx /\ c.page = call[t].page /\ c.got = call[t].got
    BY <1>2, <2>2 DEF CallRec
  <2> HIDE DEF c, idx
  <2>4. Locals(to, c)
    BY <1>2, <2>2, <2>3 DEF Locals, AtSlot, Replacing, Fetching, Flushing
  <2>5. to \in Wheres
    BY DEF Wheres, AtSlot
  <2>6. NamedCall(to, c)
    BY <2>2, <2>3 DEF NamedCall, RoomInv, NamedCalls
  <2> QED
    BY <1>1, <2>1, <2>3, <2>4, <2>5, <2>6, RoomQuiet
<1> QED
  BY <1>4, <1>5

LEMMA RoomCloneData ==
  ASSUME PoolInv, PoolInv', RoomInv, NEW t \in Threads, CloneData(t)
  PROVE  RoomInv'
<1>1. pc[t] = "clone" /\ Goto(t, "idle", NoCall)
        /\ UNCHANGED <<buffers, page_map, next_victim, storage, map_lock, buf_lock>>
  BY DEF CloneData, Finish
<1>2. "idle" \in Wheres /\ NamedCall("idle", NoCall)
  BY NoCallIsCall DEF Wheres, AtSlot, NamedCall
<1> QED
  BY <1>1, <1>2, NoCallIsCall, RoomQuiet

(* The calls that Flushed2 and Fetched2 lead to are named rightly.         *)
LEMMA FlushedNamed ==
  ASSUME RoomInv, NEW t \in Threads, NEW w, NEW c, Flushed2(t, w, c)
  PROVE  /\ NamedCall(w, c) /\ Goto(t, w, c) /\ c \in CallRec /\ Locals(w, c)
         /\ w \in Wheres /\ w \notin {"install", "unmap_old", "unmap_page", "reset", "miss"}
<1>1. /\ Goto(t, w, c) /\ c \in CallRec /\ Locals(w, c) /\ w \in {"idle", "flush_lookup", "flush_check"}
      /\ c = NoCall \/ c.got = call[t].got
  BY DEF Flushed2
<1>2. \A q \in DOMAIN c.got : buffers[c.got[q]].page_id = q
  BY <1>1, NoCallIsCall DEF RoomInv, NamedCalls, NamedCall
<1>3. NamedCall(w, c)
  BY <1>1, <1>2 DEF NamedCall, AtSlot
<1> QED
  BY <1>1, <1>3 DEF Wheres, Flushing

LEMMA RoomFlushCheck ==
  ASSUME PoolInv, PoolInv', RoomInv, NEW t \in Threads, FlushCheck(t)
  PROVE  RoomInv'
<1>1. pc[t] = "flush_check"
        /\ UNCHANGED <<buffers, page_map, next_victim, storage, map_lock, buf_lock>>
  BY DEF FlushCheck
<1>3. CASE Goto(t, "flush_lookup", call[t])
  <2>1. call[t] \in CallRec /\ Locals("flush_check", call[t])
    BY <1>1, CallOf
  <2>2. Locals("flush_lookup", call[t])
    BY <2>1 DEF Locals, AtSlot, Replacing, Fetching, Flushing
  <2>3. "flush_lookup" \in Wheres /\ NamedCall("flush_lookup", call[t])
    BY DEF Wheres, Flushing, AtSlot, NamedCall, NamedCalls, RoomInv
  <2> QED
    BY <1>1, <1>3, <2>1, <2>2, <2>3, RoomQuiet
<1>4. CASE NextFlush(t)
  <2>1. PICK w, c : Flushed2(t, w, c)
    BY <1>1, <1>4, NextFlushGoes DEF PoolInv, Flushing
  <2>2. /\ NamedCall(w, c) /\ Goto(t, w, c) /\ c \in CallRec /\ Locals(w, c)
        /\ w \in Wheres /\ w \notin {"install", "unmap_old", "unmap_page", "reset", "miss"}
    BY <2>1, FlushedNamed
  <2> QED
    BY <1>1, <2>2, RoomQuiet
<1> QED
  BY <1>3, <1>4 DEF FlushCheck

LEMMA RoomFlushLookup ==
  ASSUME PoolInv, PoolInv', RoomInv, NEW t \in Threads, FlushLookup(t)
  PROVE  RoomInv'
<1> DEFINE idx == page_map[call[t].page]
           c == [call[t] EXCEPT !.slot = idx]
<1>1. pc[t] = "flush_lookup"
        /\ UNCHANGED <<buffers, page_map, next_victim, storage, map_lock, buf_lock>>
  BY DEF FlushLookup
<1>3. CASE idx = NoSlot
  <2>1. PICK w, d : Flushed2(t, w, d)
    BY <1>1, <1>3, NextFlushGoes DEF PoolInv, FlushLookup, Flushing
  <2>2. /\ NamedCall(w, d) /\ Goto(t, w, d) /\ d \in CallRec /\ Locals(w, d)
        /\ w \in Wheres /\ w \notin {"install", "unmap_old", "unmap_page", "reset", "miss"}
    BY <2>1, FlushedNamed
  <2> QED
    BY <1>1, <2>2, RoomQuiet
<1>4. CASE idx # NoSlot
  <2>1. Goto(t, "flush", c)
    BY <1>4 DEF FlushLookup
  <2>2. call[t] \in CallRec /\ Locals("flush_lookup", call[t])
    BY <1>1, CallOf
  <2>3. call[t].page \in Pages /\ call[t].page \in call[t].todo /\ call[t].todo \subseteq DOMAIN call[t].got
    BY <2>2 DEF Locals, Flushing
  <2>4. idx \in Slots /\ buffers[idx].page_id = call[t].page
    BY <2>3, <1>4 DEF PoolInv, Shape, RoomInv, NamedMap
  <2>5. c \in CallRec /\ c.slot = idx /\ c.page = call[t].page /\ c.todo = call[t].todo /\ c.got = call[t].got
    BY <2>2, <2>4 DEF CallRec
  <2> HIDE DEF c, idx
  <2>6. Locals("flush", c)
    BY <2>3, <2>4, <2>5 DEF Locals, AtSlot, Replacing, Fetching, Flushing
  <2>7. "flush" \in Wheres /\ NamedCall("flush", c)
    BY <2>4, <2>5 DEF Wheres, AtSlot, NamedCall, RoomInv, NamedCalls
  <2> QED
    BY <1>1, <2>1, <2>5, <2>6, <2>7, RoomQuiet
<1> QED
  BY <1>3, <1>4

(* The slot a call works on, under the name of its page.                   *)
LEMMA AtNamedSlot ==
  ASSUME PoolInv, RoomInv, NEW t \in Threads, pc[t] \in AtSlot
  PROVE  call[t].slot \in Slots /\ call[t].page \in Pages /\ buffers[call[t].slot].page_id = call[t].page
<1>1. Locals(pc[t], call[t]) /\ NamedCall(pc[t], call[t])
  BY DEF PoolInv, Calling, RoomInv, NamedCalls
<1> QED
  BY <1>1 DEF Locals, NamedCall, AtSlot

LEMMA FetchedNamed ==
  ASSUME RoomInv, NEW t \in Threads, NEW w, NEW c, NEW s, Fetched2(t, s, w, c),
         buffers[s].page_id = call[t].page
  PROVE  /\ NamedCall(w, c) /\ Goto(t, w, c) /\ c \in CallRec /\ Locals(w, c)
         /\ w \in Wheres /\ w \notin {"install", "unmap_old", "unmap_page", "reset", "miss"}
<1>1. /\ Goto(t, w, c) /\ c \in CallRec /\ Locals(w, c)
      /\ w \in {"lookup", "clone", "modify", "unpin_lookup"}
      /\ c.got = Grown(call[t].got, call[t].page, s)
  BY DEF Fetched2
<1>2. \A q \in DOMAIN call[t].got : buffers[call[t].got[q]].page_id = q
  BY DEF RoomInv, NamedCalls, NamedCall
<1>3. \A q \in DOMAIN c.got : buffers[c.got[q]].page_id = q
  BY <1>1, <1>2 DEF Grown
<1>4. NamedCall(w, c)
  BY <1>1, <1>3 DEF NamedCall, AtSlot
<1> QED
  BY <1>1, <1>4 DEF Wheres, Fetching, Looking

LEMMA RoomFetchHit ==
  ASSUME PoolInv, PoolInv', RoomInv, NEW t \in Threads, FetchHit(t)
  PROVE  RoomInv'
<1>1. PICK s, b : SlotSetAt(call[t].slot, call[t].page, s, b)
  BY FetchHitSets
<1>2. pc[t] = "hit" /\ UNCHANGED <<page_map, next_victim, storage, buf_lock>>
  BY DEF FetchHit
<1>3. call[t].slot \in Slots /\ call[t].page \in Pages /\ buffers[call[t].slot].page_id = call[t].page
  BY <1>2, AtNamedSlot DEF AtSlot
<1>4. PICK w, c : Fetched2(t, call[t].slot, w, c)
  BY <1>2, <1>3, FetchedGoes DEF FetchHit, PoolInv, Fetching
<1>5. /\ NamedCall(w, c) /\ Goto(t, w, c) /\ c \in CallRec /\ Locals(w, c)
      /\ w \in Wheres /\ w \notin {"install", "unmap_old", "unmap_page", "reset", "miss"}
  BY <1>3, <1>4, FetchedNamed
<1>6. \A p \in Pages : storage'[p].of = p
  BY <1>2 DEF RoomInv, NamedStorage
<1> QED
  BY <1>1, <1>2, <1>3, <1>5, <1>6, RoomSlot

LEMMA RoomModifyData ==
  ASSUME PoolInv, PoolInv', RoomInv, NEW t \in Threads, ModifyData(t)
  PROVE  RoomInv'
<1>1. PICK s, b : SlotSetAt(call[t].got[call[t].page], call[t].page, s, b)
  BY ModifyDataSets
<1>2. pc[t] = "modify" /\ Goto(t, "unpin_lookup", call[t])
        /\ UNCHANGED <<page_map, next_victim, storage, buf_lock>>
  BY DEF ModifyData
<1>3. call[t] \in CallRec /\ Locals("modify", call[t]) /\ NamedCall("modify", call[t])
  BY <1>2, CallOf DEF RoomInv, NamedCalls
<1>4. call[t].page \in Pages /\ call[t].page \in DOMAIN call[t].got /\ call[t].got \in Gots
  BY <1>3, CallFields DEF Locals
<1>5. call[t].got[call[t].page] \in Slots /\ buffers[call[t].got[call[t].page]].page_id = call[t].page
  BY <1>3, <1>4, GotsAre DEF NamedCall
<1>6. Locals("unpin_lookup", call[t]) /\ NamedCall("unpin_lookup", call[t])
  BY <1>3 DEF Locals, NamedCall, AtSlot, Replacing, Fetching, Flushing
<1>7. "unpin_lookup" \in Wheres
  BY DEF Wheres, Looking
<1>8. \A p \in Pages : storage'[p].of = p
  BY <1>2 DEF RoomInv, NamedStorage
<1> QED
  BY <1>1, <1>2, <1>3, <1>4, <1>5, <1>6, <1>7, <1>8, RoomSlot

LEMMA RoomPinned ==
  ASSUME PoolInv, PoolInv', RoomInv, NEW t \in Threads, UnpinSlot(t) \/ PinSlot(t)
  PROVE  RoomInv'
<1>1. PICK s, b : SlotSetAt(call[t].slot, call[t].page, s, b)
  BY UnpinSlotSets, PinSlotSets
<1>2. pc[t] \in {"unpin", "pin"} /\ Goto(t, "idle", NoCall)
        /\ UNCHANGED <<page_map, next_victim, storage, buf_lock>>
  BY DEF UnpinSlot, PinSlot, Finish
<1>3. call[t].slot \in Slots /\ call[t].page \in Pages /\ buffers[call[t].slot].page_id = call[t].page
  BY <1>2, AtNamedSlot DEF AtSlot
<1>4. "idle" \in Wheres /\ NamedCall("idle", NoCall)
  BY NoCallIsCall DEF Wheres, AtSlot, NamedCall
<1>5. \A p \in Pages : storage'[p].of = p
  BY <1>2 DEF RoomInv, NamedStorage
<1> QED
  BY <1>1, <1>2, <1>3, <1>4, <1>5, NoCallIsCall, RoomSlot

LEMMA RoomFlushSlot ==
  ASSUME PoolInv, PoolInv', RoomInv, NEW t \in Threads, FlushSlot(t)
  PROVE  RoomInv'
<1>1. PICK s, b : SlotSetAt(call[t].slot, call[t].page, s, b)
  BY FlushSlotSets
<1>2. pc[t] = "flush" /\ UNCHANGED <<page_map, next_victim, buf_lock>>
  BY DEF FlushSlot
<1>3. call[t].slot \in Slots /\ call[t].page \in Pages /\ buffers[call[t].slot].page_id = call[t].page
  BY <1>2, AtNamedSlot DEF AtSlot
<1>4. buffers[call[t].slot].data.of = call[t].page
  BY <1>3, PoolConstants DEF RoomInv, NamedSlots, IsFilled
<1>5. \A p \in Pages : storage'[p].of = p
  BY <1>4, FlushSlotSets DEF RoomInv, NamedStorage
<1>6. PICK w, c : Flushed2(t, w, c)
  BY <1>2, NextFlushGoes DEF FlushSlot, PoolInv, Flushing
<1>7. /\ NamedCall(w, c) /\ Goto(t, w, c) /\ c \in CallRec /\ Locals(w, c)
      /\ w \in Wheres /\ w \notin {"install", "unmap_old", "unmap_page", "reset", "miss"}
  BY <1>6, FlushedNamed
<1> QED
  BY <1>1, <1>2, <1>3, <1>5, <1>7, RoomSlot

(* A thread that misses a page has not used up the pool: no filled slot    *)
(* stands for its miss of that page, so fewer than PoolSize are filled.    *)
LEMMA RoomLeft ==
  ASSUME Room, PoolInv, RoomInv, NEW t \in Threads, pc[t] \in {"miss", "install"},
         NEW k \in 0 .. PoolSize, FilledUpTo(k)
  PROVE  k < PoolSize
<1> DEFINE T == (Threads \X Pages) \ {<<t, call[t].page>>}
<1>1. call[t].page \in Pages
  BY DEF PoolInv, Calling, Locals
<1>2. PICK f \in [FilledSlots -> Threads \X Pages] : Owners(f)
  BY DEF RoomInv, Owned
<1>3. f \in [FilledSlots -> T]
  BY <1>2 DEF Owners
<1>4. \A x, y \in FilledSlots : f[x] = f[y] => x = y
  BY <1>2 DEF Owners
<1>5. PoolSize \in Nat \ {0} /\ k \in Nat /\ k - 1 \in Int /\ 0 \in Int
  BY PoolConstants
<1>6. FilledSlots = 0 .. k - 1
  BY <1>5 DEF FilledSlots, FilledUpTo, Slots
<1>7. IsFiniteSet(0 .. k - 1) /\ Cardinality(0 .. k - 1) = k
  <2>1. IsFiniteSet(0 .. k - 1) /\ Cardinality(0 .. k - 1) = IF 0 > k - 1 THEN 0 ELSE (k - 1) - 0 + 1
    BY <1>5, FS_Interval
  <2> QED
    BY <2>1, <1>5
<1>8. /\ IsFiniteSet(Threads \X Pages)
      /\ Cardinality(Threads \X Pages) = Cardinality(Threads) * Cardinality(Pages)
  BY FS_Product DEF Room
<1>9. Cardinality(Threads \X Pages) \in Nat /\ Cardinality(Threads \X Pages) <= PoolSize
  BY <1>8, FS_CardinalityType DEF Room
<1>10. IsFiniteSet(T) /\ Cardinality(T) = Cardinality(Threads \X Pages) - 1
  <2>1. <<t, call[t].page>> \in Threads \X Pages
    BY <1>1
  <2> QED
    BY <1>8, <2>1, FS_RemoveElement
<1> HIDE DEF T
<1>11. ~ (Cardinality(T) < Cardinality(FilledSlots))
  <2>1. IsFiniteSet(FilledSlots)
    BY <1>6, <1>7
  <2>2. ASSUME Cardinality(T) < Cardinality(FilledSlots) PROVE FALSE
    <3>1. \E x, y \in FilledSlots : x # y /\ f[x] = f[y]
      BY <2>1, <2>2, <1>3, <1>10, FS_PigeonHole
    <3> QED
      BY <3>1, <1>4
  <2> QED
    BY <2>2
<1>12. Cardinality(FilledSlots) = k
  BY <1>6, <1>7
<1> QED
  BY <1>5, <1>9, <1>10, <1>11, <1>12

(* The miss takes the first slot that was never filled.                    *)
LEMMA MissTakesFresh ==
  ASSUME Room, PoolInv, RoomInv, NEW t \in Threads, FetchMiss(t),
         NEW k \in 0 .. PoolSize, FilledUpTo(k)
  PROVE  /\ k \in Slots /\ ~IsFilled(k)
         /\ UNCHANGED <<buffers, storage, page_map>>
         /\ next_victim' = (k + 1) % PoolSize
         /\ Goto(t, "install", [call[t] EXCEPT !.slot = k, !.data = storage[call[t].page]])
<1>1. pc[t] = "miss" /\ buf_lock = Nobody /\ page_map' = page_map
  BY DEF FetchMiss
<1>2. k < PoolSize
  BY <1>1, RoomLeft
<1>3. k \in Slots /\ k % PoolSize = k
  BY <1>2, PoolConstants DEF Slots
<1>4. next_victim = k /\ ~IsFilled(k)
  BY <1>1, <1>3, <1>2, PoolConstants DEF FilledUpTo
<1>5. buffers[k].usage_count = 0 /\ buffers[k].pin_count = 0
  BY <1>3, <1>4 DEF FilledUpTo
<1>6. buffers \in [Slots -> Buffer] /\ ~buffers[k].is_dirty
  BY <1>3, <1>4 DEF PoolInv, Shape, Filled
<1> DEFINE v == find_victim(buffers, next_victim)
<1>7. v = [bufs |-> buffers, hand |-> (k + 1) % PoolSize, victim |-> k]
  BY <1>3, <1>4, <1>5, <1>6, SweepFresh
<1> HIDE DEF v
<1>8. v.bufs = buffers /\ v.hand = (k + 1) % PoolSize /\ v.victim = k
  BY <1>7
<1> DEFINE old == v.bufs[v.victim]
           evict == old.is_dirty /\ old.pin_count = 0
<1>9. /\ buffers' = v.bufs /\ next_victim' = v.hand
      /\ storage' = IF evict THEN [storage EXCEPT ![old.page_id] = old.data] ELSE storage
      /\ Goto(t, IF evict THEN "unmap_old" ELSE "install",
              [call[t] EXCEPT !.slot = v.victim, !.data = storage[call[t].page]])
  BY DEF FetchMiss, v
<1>10. ~evict
  BY <1>6, <1>8
<1> HIDE DEF evict
<1> QED
  BY <1>1, <1>3, <1>4, <1>8, <1>9, <1>10

LEMMA RoomFetchMiss ==
  ASSUME Room, PoolInv, PoolInv', RoomInv, NEW t \in Threads, FetchMiss(t)
  PROVE  RoomInv'
<1>1. PICK k \in 0 .. PoolSize : FilledUpTo(k)
  BY DEF RoomInv, InOrder
<1> DEFINE c == [call[t] EXCEPT !.slot = k, !.data = storage[call[t].page]]
<1>2. /\ k \in Slots /\ ~IsFilled(k)
      /\ UNCHANGED <<buffers, storage, page_map>>
      /\ next_victim' = (k + 1) % PoolSize
      /\ Goto(t, "install", c)
  BY <1>1, MissTakesFresh
<1>3. pc[t] = "miss" /\ buf_lock = Nobody /\ buf_lock' = t
  BY DEF FetchMiss
<1>4. call[t] \in CallRec /\ call[t].page \in Pages
  BY <1>3, CallOf DEF Locals
<1>5. storage[call[t].page] \in Images /\ storage[call[t].page].of = call[t].page
  BY <1>4 DEF PoolInv, Shape, RoomInv, NamedStorage
<1>6. c.slot = k /\ c.page = call[t].page /\ c.got = call[t].got /\ c.data = storage[call[t].page]
  BY <1>2, <1>4, <1>5 DEF CallRec
<1> HIDE DEF c
<1>7. /\ pc'[t] = "install" /\ call'[t] = c
      /\ \A u \in Threads \ {t} : pc'[u] = pc[u] /\ call'[u] = call[u]
  BY <1>2 DEF Goto, PoolInv, Shape
<1>8. \A u \in Threads : pc[u] \notin Replacing
  BY <1>3, BufFreeMeans DEF PoolInv
<1>9. NamedSlots' /\ NamedMap' /\ NamedStorage'
  BY <1>2 DEF NamedSlots, NamedMap, NamedStorage, IsFilled, RoomInv
<1>10. NamedCalls'
  <2> SUFFICES ASSUME NEW u \in Threads PROVE NamedCall(pc[u], call[u])'
    BY DEF NamedCalls
  <2>1. CASE u = t
    <3>1. \A q \in DOMAIN c.got : buffers[c.got[q]].page_id = q
      BY <1>6 DEF RoomInv, NamedCalls, NamedCall
    <3> QED
      BY <2>1, <3>1, <1>2, <1>5, <1>6, <1>7 DEF NamedCall, AtSlot
  <2>2. CASE u # t
    BY <2>2, <1>2, <1>7 DEF RoomInv, NamedCalls, NamedCall
  <2> QED
    BY <2>1, <2>2
<1>11. InOrder'
  <2>1. \A u \in Threads : pc'[u] = "install" => call'[u].slot = k
    BY <1>6, <1>7, <1>8 DEF Replacing
  <2>2. buf_lock' # Nobody
    BY <1>3, PoolConstants
  <2>3. FilledUpTo(k)'
    BY <1>1, <1>2, <2>1, <2>2 DEF FilledUpTo, IsFilled
  <2> QED
    BY <2>3 DEF InOrder
<1>12. NoUnmapping'
  BY <1>7 DEF RoomInv, NoUnmapping
<1>13. Owned'
  <2>1. PICK f \in [FilledSlots -> Threads \X Pages] : Owners(f)
    BY DEF RoomInv, Owned
  <2>2. FilledSlots' = FilledSlots
    BY <1>2 DEF FilledSlots, IsFilled
  <2>3. \A u \in Threads : pc'[u] \in {"miss", "install"} =>
          \A s \in FilledSlots : f[s] # <<u, call'[u].page>>
    BY <2>1, <1>3, <1>6, <1>7 DEF Owners
  <2>4. Owners(f)'
    BY <2>1, <2>2, <2>3, <1>2 DEF Owners
  <2> QED
    BY <2>1, <2>2, <2>4 DEF Owned
<1> QED
  BY <1>9, <1>10, <1>11, <1>12, <1>13 DEF RoomInv

LEMMA RoomFetchInstall ==
  ASSUME PoolInv, PoolInv', RoomInv, NEW t \in Threads, FetchInstall(t)
  PROVE  RoomInv'
<1>1. PICK k \in 0 .. PoolSize : FilledUpTo(k)
  BY DEF RoomInv, InOrder
<1> DEFINE p == call[t].page
<1>2. pc[t] = "install" /\ buf_lock' = Nobody /\ UNCHANGED <<next_victim, storage>>
  BY DEF FetchInstall
<1>3. call[t].slot = k
  BY <1>1, <1>2 DEF FilledUpTo
<1>4. /\ k \in Slots /\ p \in Pages
      /\ buffers'[k] = Installed(t)
      /\ \A r \in Slots \ {k} : buffers'[r] = buffers[r]
      /\ page_map'[p] = k
      /\ \A q \in Pages \ {p} : page_map'[q] = page_map[q]
  BY <1>3, InstallSets
<1>5. buffers'[k].page_id = p /\ buffers'[k].data.of = p
  BY <1>2, <1>4 DEF Installed, RoomInv, NamedCalls, NamedCall
<1>6. k \in Nat /\ k < PoolSize /\ ~IsFilled(k)
  BY <1>1, <1>4, PoolConstants DEF FilledUpTo, Slots
<1>7. k # NoSlot /\ p # NoPage
  BY <1>4, PoolConstants DEF Slots
<1>8. \A s \in Slots : IsFilled(s) => s # k /\ buffers'[s] = buffers[s]
  BY <1>4, <1>6
<1>9. \A s \in Slots : IsFilled(s)' <=> (IsFilled(s) \/ s = k)
  BY <1>4, <1>5, <1>7 DEF IsFilled
<1>10. \A s \in Slots : buffers[s].page_id \in Pages \cup {NoPage}
  BY DEF PoolInv, Shape, Buffer
<1>11. NamedSlots'
  <2> SUFFICES ASSUME NEW s \in Slots, IsFilled(s)'
               PROVE  buffers'[s].data.of = buffers'[s].page_id /\ page_map'[buffers'[s].page_id] # NoSlot
    BY DEF NamedSlots
  <2>1. CASE s = k
    BY <2>1, <1>4, <1>5, <1>7
  <2>2. CASE s # k
    <3>1. IsFilled(s) /\ buffers'[s] = buffers[s]
      BY <2>2, <1>4, <1>9
    <3>2. buffers[s].data.of = buffers[s].page_id /\ page_map[buffers[s].page_id] # NoSlot
      BY <3>1 DEF RoomInv, NamedSlots
    <3>3. buffers[s].page_id \in Pages
      BY <3>1, <1>10 DEF IsFilled
    <3>4. page_map'[buffers[s].page_id] # NoSlot
      BY <3>2, <3>3, <1>4, <1>7
    <3> QED
      BY <3>1, <3>2, <3>4
  <2> QED
    BY <2>1, <2>2
<1>12. NamedMap'
  <2> SUFFICES ASSUME NEW q \in Pages, page_map'[q] # NoSlot
               PROVE  buffers'[page_map'[q]].page_id = q
    BY DEF NamedMap
  <2>1. CASE q = p
    BY <2>1, <1>4, <1>5
  <2>2. CASE q # p
    <3>1. page_map'[q] = page_map[q] /\ page_map[q] \in Slots
      BY <2>2, <1>4 DEF PoolInv, Shape
    <3>2. buffers[page_map[q]].page_id = q
      BY <3>1 DEF RoomInv, NamedMap
    <3>3. IsFilled(page_map[q])
      BY <3>2, PoolConstants DEF IsFilled
    <3> QED
      BY <3>1, <3>2, <3>3, <1>8
  <2> QED
    BY <2>1, <2>2
<1>13. NamedStorage'
  BY <1>2 DEF NamedStorage, RoomInv
<1>14. PICK w, c : Fetched2(t, k, w, c)
  BY <1>2, <1>3, <1>4, FetchedGoes DEF FetchInstall, PoolInv, Fetching
<1>15. /\ Goto(t, w, c) /\ w \in {"lookup", "clone", "modify", "unpin_lookup"}
       /\ c \in CallRec /\ Locals(w, c) /\ c.got = Grown(call[t].got, p, k)
  BY <1>14 DEF Fetched2
<1>16. /\ pc'[t] = w /\ call'[t] = c
       /\ \A u \in Threads \ {t} : pc'[u] = pc[u] /\ call'[u] = call[u]
  BY <1>15 DEF Goto, PoolInv, Shape
<1>17. \A u \in Threads \ {t} : pc[u] \notin Replacing
  BY <1>2 DEF PoolInv, Locks, Replacing
<1>18. \A s \in Slots : \A q \in Pages : buffers[s].page_id = q => buffers'[s].page_id = q
  BY <1>8, PoolConstants DEF IsFilled
<1>19. ASSUME NEW u \in Threads
       PROVE  \A q \in DOMAIN call[u].got : call[u].got[q] \in Slots /\ q \in Pages
                /\ buffers[call[u].got[q]].page_id = q
  <2>1. call[u].got \in Gots
    BY CallFields DEF PoolInv, Shape
  <2> QED
    BY <2>1, GotsAre DEF RoomInv, NamedCalls, NamedCall
<1>20. NamedCalls'
  <2> SUFFICES ASSUME NEW u \in Threads PROVE NamedCall(pc[u], call[u])'
    BY DEF NamedCalls
  <2>1. CASE u = t
    <3>1. \A q \in DOMAIN c.got : buffers'[c.got[q]].page_id = q
      BY <1>5, <1>15, <1>18, <1>19 DEF Grown
    <3> QED
      BY <2>1, <3>1, <1>15, <1>16 DEF NamedCall, AtSlot
  <2>2. CASE u # t
    <3>1. \A q \in DOMAIN call[u].got : buffers'[call[u].got[q]].page_id = q
      BY <1>18, <1>19
    <3>2. pc[u] \in AtSlot => buffers'[call[u].slot].page_id = call[u].page
      BY <1>18, AtNamedSlot
    <3> QED
      BY <2>2, <3>1, <3>2, <1>16, <1>17 DEF NamedCall, Replacing
  <2> QED
    BY <2>1, <2>2
<1>21. InOrder'
  <2>1. \A s \in Slots : IsFilled(s)' <=> s < k + 1
    BY <1>1, <1>6, <1>9, PoolConstants DEF FilledUpTo, Slots
  <2>2. \A s \in Slots : ~IsFilled(s)' => buffers'[s].usage_count = 0 /\ buffers'[s].pin_count = 0
    BY <1>1, <1>4, <1>9 DEF FilledUpTo
  <2>3. next_victim' = (k + 1) % PoolSize
    <3>1. buf_lock # Nobody
      BY <1>2, PoolConstants DEF PoolInv, Locks, Replacing
    <3> QED
      BY <3>1, <1>1, <1>2 DEF FilledUpTo
  <2>4. \A u \in Threads : pc'[u] # "install"
    BY <1>15, <1>16, <1>17 DEF Replacing
  <2>5. FilledUpTo(k + 1)'
    BY <1>2, <2>1, <2>2, <2>3, <2>4 DEF FilledUpTo
  <2>6. k + 1 \in 0 .. PoolSize
    BY <1>6, PoolConstants
  <2> QED
    BY <2>5, <2>6 DEF InOrder
<1>22. NoUnmapping'
  BY <1>15, <1>16 DEF RoomInv, NoUnmapping
<1>23. Owned'
  <2>1. PICK f \in [FilledSlots -> Threads \X Pages] : Owners(f)
    BY DEF RoomInv, Owned
  <2>2. FilledSlots' = FilledSlots \cup {k} /\ k \notin FilledSlots
    BY <1>4, <1>6, <1>9 DEF FilledSlots
  <2> DEFINE x == <<t, p>>
             g == [s \in FilledSlots \cup {k} |-> IF s = k THEN x ELSE f[s]]
  <2>3. x \in Threads \X Pages /\ x[2] = p
    BY <1>4
  <2>4. \A s \in FilledSlots : f[s] # x
    BY <2>1, <1>2 DEF Owners
  <2>5. g \in [FilledSlots \cup {k} -> Threads \X Pages]
    <3> HIDE DEF x
    <3> QED
      BY <2>1, <2>3
  <2>6. \A s, r \in FilledSlots \cup {k} : g[s] = g[r] => s = r
    <3> HIDE DEF x
    <3> QED
      BY <2>1, <2>2, <2>4 DEF Owners
  <2>7. \A s \in FilledSlots \cup {k} : g[s][2] = buffers'[s].page_id
    <3>1. g[k][2] = buffers'[k].page_id
      BY <2>3, <1>5
    <3>2. \A s \in FilledSlots : f[s][2] = buffers[s].page_id /\ buffers'[s] = buffers[s]
      BY <2>1, <1>8 DEF Owners, FilledSlots
    <3>3. \A s \in FilledSlots : g[s] = f[s]
      BY <2>2
    <3> HIDE DEF g
    <3> QED
      BY <3>1, <3>2, <3>3
  <2>8. ASSUME NEW u \in Threads, pc'[u] \in {"miss", "install"}, NEW s \in FilledSlots \cup {k}
        PROVE  g[s] # <<u, call'[u].page>>
    <3>1. u # t /\ pc[u] \in {"miss", "install"} /\ call'[u] = call[u]
      BY <2>8, <1>15, <1>16
    <3>2. CASE s = k
      BY <3>1, <3>2
    <3>3. CASE s \in FilledSlots
      <4>1. g[s] = f[s]
        BY <3>3, <2>2
      <4> QED
        BY <4>1, <3>1, <3>3, <2>1 DEF Owners
    <3> QED
      BY <3>2, <3>3
  <2> HIDE DEF g
  <2>9. PICK h : h = g
    OBVIOUS
  <2>10. Owners(h)'
    BY <2>2, <2>6, <2>7, <2>8, <2>9 DEF Owners
  <2> QED
    BY <2>2, <2>5, <2>9, <2>10 DEF Owned
<1> QED
  BY <1>11, <1>12, <1>13, <1>20, <1>21, <1>22, <1>23 DEF RoomInv

LEMMA RoomInit == Init => RoomInv /\ Returns
<1> SUFFICES ASSUME Init PROVE RoomInv /\ Returns
  OBVIOUS
<1>1. \A s \in Slots : ~IsFilled(s) /\ buffers[s].usage_count = 0 /\ buffers[s].pin_count = 0
  BY DEF Init, IsFilled
<1>2. NamedSlots /\ NamedMap
  BY <1>1 DEF Init, NamedSlots, NamedMap
<1>3. NamedStorage
  BY DEF Init, NamedStorage, Image
<1>4. NamedCalls
  BY NoCallIsCall DEF Init, NamedCalls, NamedCall, AtSlot
<1>5. InOrder
  <2>1. 0 \in 0 .. PoolSize /\ 0 % PoolSize = 0 /\ \A s \in Slots : ~ (s < 0)
    BY PoolConstants DEF Slots
  <2>2. FilledUpTo(0)
    BY <1>1, <2>1 DEF Init, FilledUpTo
  <2> QED
    BY <2>1, <2>2 DEF InOrder
<1>6. NoUnmapping
  BY DEF Init, NoUnmapping
<1>7. Owned
  <2>1. FilledSlots = {}
    BY <1>1 DEF FilledSlots
  <2> DEFINE f == [s \in FilledSlots |-> <<CHOOSE t \in Threads : TRUE, CHOOSE p \in Pages : TRUE>>]
  <2>2. f \in [FilledSlots -> Threads \X Pages] /\ Owners(f)
    BY <2>1 DEF Owners
  <2> QED
    BY <2>2 DEF Owned
<1>8. Returns
  BY DEF Init, Returns, ReadsReturnRequestedPage
<1> QED
  BY <1>2, <1>3, <1>4, <1>5, <1>6, <1>7, <1>8 DEF RoomInv

LEMMA RoomStep ==
  ASSUME Room, PoolInv, PoolInv', RoomInv, [Next]_vars
  PROVE  RoomInv'
<1>1. ASSUME NEW t \in Threads, Start(t)
      PROVE  RoomInv'
  BY <1>1, RoomStart
<1>2. ASSUME NEW t \in Threads, FetchLookup(t) \/ FetchHit(t) \/ FetchMiss(t) \/ FetchInstall(t)
      PROVE  RoomInv'
  BY <1>2, RoomFetchLookup, RoomFetchHit, RoomFetchMiss, RoomFetchInstall
<1>3. ASSUME NEW t \in Threads, FetchMissFails(t)
      PROVE  FALSE
  BY <1>3 DEF FetchMissFails, Room
<1>4. ASSUME NEW t \in Threads, FetchUnmapOld(t) \/ InvalidateUnmap(t) \/ InvalidateReset(t)
      PROVE  FALSE
  BY <1>4 DEF FetchUnmapOld, InvalidateUnmap, InvalidateReset, RoomInv, NoUnmapping
<1>5. ASSUME NEW t \in Threads, CloneData(t) \/ ModifyData(t) \/ UnpinSlot(t) \/ PinSlot(t)
      PROVE  RoomInv'
  BY <1>5, RoomCloneData, RoomModifyData, RoomPinned
<1>6. ASSUME NEW t \in Threads, UnpinLookup(t) \/ PinLookup(t)
      PROVE  RoomInv'
  BY <1>6, RoomSlotLookup DEF UnpinLookup, PinLookup
<1>7. ASSUME NEW t \in Threads, FlushCheck(t) \/ FlushLookup(t) \/ FlushSlot(t)
      PROVE  RoomInv'
  BY <1>7, RoomFlushCheck, RoomFlushLookup, RoomFlushSlot
<1>8. CASE UNCHANGED vars
  <2>1. UNCHANGED <<buffers, page_map, next_victim, storage, buf_lock, pc, call>>
    BY <1>8 DEF vars
  <2>2. NamedSlots' /\ NamedMap' /\ NamedStorage' /\ NamedCalls' /\ NoUnmapping'
    BY <2>1 DEF RoomInv, NamedSlots, NamedMap, NamedStorage, NamedCalls, NamedCall, NoUnmapping, IsFilled
  <2>3. InOrder'
    BY <2>1 DEF RoomInv, InOrder, FilledUpTo, IsFilled
  <2>4. Owned'
    <3>1. PICK f \in [FilledSlots -> Threads \X Pages] : Owners(f)
      BY DEF RoomInv, Owned
    <3>2. FilledSlots' = FilledSlots
      BY <2>1 DEF FilledSlots, IsFilled
    <3>3. Owners(f)'
      BY <2>1, <3>1, <3>2 DEF Owners
    <3> QED
      BY <3>1, <3>2, <3>3 DEF Owned
  <2> QED
    BY <2>2, <2>3, <2>4 DEF RoomInv
<1> QED
  BY <1>1, <1>2, <1>3, <1>4, <1>5, <1>6, <1>7, <1>8 DEF Next, Step, Fetch, Rest

(* Only CloneData returns images, those of the slots it fetched.           *)
LEMMA ReturnsStep ==
  ASSUME PoolInv, RoomInv, Returns, [Next]_vars
  PROVE  Returns'
<1>1. CASE UNCHANGED returned
  BY <1>1 DEF Returns, ReadsReturnRequestedPage
<1>2. ASSUME NEW t \in Threads, CloneData(t)
      PROVE  Returns'
  <2> DEFINE got == call[t].got
             images == [p \in DOMAIN got |-> buffers[got[p]].data]
  <2>1. \A p \in DOMAIN got : buffers[got[p]].page_id = p
    BY DEF RoomInv, NamedCalls, NamedCall
  <2>2. got \in Gots
    BY CallFields DEF PoolInv, Shape
  <2>3. \A p \in DOMAIN got : got[p] \in Slots /\ p \in Pages
    BY <2>2, GotsAre
  <2>4. \A p \in DOMAIN got : images[p].of = p
    BY <2>1, <2>3, PoolConstants DEF RoomInv, NamedSlots, IsFilled
  <2>5. DOMAIN images = DOMAIN got
    OBVIOUS
  <2>6. returned' = [returned EXCEPT ![t] = images]
    BY <1>2 DEF CloneData
  <2> HIDE DEF images
  <2>7. returned = [u \in Threads |-> returned[u]]
    BY DEF Returns
  <2>8. returned' = [u \in Threads |-> returned'[u]]
    BY <2>6, <2>7
  <2>9. returned'[t] = images /\ \A u \in Threads \ {t} : returned'[u] = returned[u]
    BY <2>6, <2>7
  <2>10. ReadsReturnRequestedPage'
    BY <2>4, <2>5, <2>9 DEF ReadsReturnRequestedPage, Returns
  <2> QED
    BY <2>8, <2>10 DEF Returns
<1>3. ASSUME NEW t \in Threads, Start(t)
      PROVE  UNCHANGED returned
  BY <1>3 DEF Start, BeginRead, BeginFetch, BeginPin, BeginInvalidate, Begin, BeginFlush
<1>4. ASSUME NEW t \in Threads, Fetch(t)
      PROVE  UNCHANGED returned
  BY <1>4 DEF Fetch, FetchLookup, FetchHit, FetchMiss, FetchMissFails, FetchUnmapOld, FetchInstall
<1>5. ASSUME NEW t \in Threads, \/ ModifyData(t) \/ UnpinLookup(t) \/ UnpinSlot(t) \/ PinLookup(t)
                                \/ PinSlot(t) \/ InvalidateUnmap(t) \/ InvalidateReset(t)
                                \/ FlushCheck(t) \/ FlushLookup(t) \/ FlushSlot(t)
      PROVE  UNCHANGED returned
  BY <1>5 DEF ModifyData, UnpinLookup, UnpinSlot, PinLookup, PinSlot, SlotLookup,
              InvalidateUnmap, InvalidateReset, FlushCheck, FlushLookup, FlushSlot
<1>6. CASE UNCHANGED vars
  BY <1>1, <1>6 DEF vars
<1> QED
  BY <1>1, <1>2, <1>3, <1>4, <1>5, <1>6 DEF Next, Step, Rest

(* In a pool with a slot for every page each thread may miss, and no       *)
(* invalidation, SharedBufferCache::fetch_page and fetch_pages_batch return*)
(* an image of the page that was asked for, although the buffers mutex is  *)
(* released between the fetch and the clone of the slot: no slot is ever   *)
(* given to a second page.                                                 *)
THEOREM ReadsReturnWithRoom ==
  ASSUME Room
  PROVE  Spec => []ReadsReturnRequestedPage
<1>1. Init => RoomInv /\ Returns
  BY RoomInit
<1>2. PoolInv /\ PoolInv' /\ (RoomInv /\ Returns) /\ [Next]_vars => (RoomInv /\ Returns)'
  BY RoomStep, ReturnsStep
<1>3. RoomInv /\ Returns => ReadsReturnRequestedPage
  BY DEF Returns
<1> QED
  BY <1>1, <1>2, <1>3, PoolInvariant, PTL DEF Spec

------------------------------------------------------------------------------
(* One thread alone                                                        *)

(* Nobody but t is inside a call.                                          *)
Solo(t) == \A u \in Threads \ {t} : pc[u] = "idle"

(* CallAgrees for a call c that is at w.                                   *)
AgreesAt(w, c) ==
  /\ w \in {"hit", "unpin", "pin", "flush"} => page_map[c.page] = c.slot
  /\ w = "modify" => page_map[c.page] = c.got[c.page]
  /\ w \in {"miss", "unmap_old", "install"} => page_map[c.page] = NoSlot
  /\ w \in {"unmap_old", "install"} => c.data = storage[c.page]
  /\ w = "unmap_old" => LET b == buffers[c.slot] IN page_map[b.page_id] = c.slot /\ storage[b.page_id] = b.data

(* Where t's step leaves every page that t does not invalidate.            *)
Newer(t) ==
  \A p \in Pages : \/ Current(p)'.of = p /\ Current(p)'.ver >= Current(p).ver
                   \/ pc[t] = "unmap_page" /\ call[t].page = p

(* What a step of t alone shows.                                           *)
StaysCoherent(t) == SlotsAgree' /\ CallAgrees(t)' /\ Newer(t)

(* A thread that has begun no call is in none.                             *)
Unstarted ==
  /\ budget \in [Threads -> Nat]
  /\ \A t \in Threads : budget[t] <= MaxCalls /\ (budget[t] = MaxCalls => pc[t] = "idle")

LEMMA MovesTo ==
  ASSUME Shape, NEW t \in Threads, NEW w, NEW c, Goto(t, w, c)
  PROVE  /\ pc'[t] = w /\ call'[t] = c
         /\ \A u \in Threads \ {t} : pc'[u] = pc[u] /\ call'[u] = call[u]
  BY DEF Goto, Shape

LEMMA AgreesMeans ==
  ASSUME NEW t \in Threads
  PROVE  CallAgrees(t) <=> AgreesAt(pc[t], call[t])
  BY DEF CallAgrees, AgreesAt

(* A coherent pool's current images are images of their pages.             *)
LEMMA CurrentNamed ==
  ASSUME PoolInv, Coherent, NEW p \in Pages
  PROVE  Current(p) \in Images /\ Current(p).of = p
<1>1. CASE page_map[p] = NoSlot
  BY <1>1 DEF Current, PoolInv, Shape, Coherent, SlotsAgree
<1>2. CASE page_map[p] # NoSlot
  <2>1. page_map[p] \in Slots /\ buffers[page_map[p]].page_id = p /\ p # NoPage
    BY <1>2, PoolConstants DEF PoolInv, Shape, Coherent, MapAgrees
  <2>2. buffers[page_map[p]].data \in Images
    BY <2>1, BufferFields DEF PoolInv, Shape
  <2>3. buffers[page_map[p]].data.of = p
    BY <2>1 DEF Coherent, SlotsAgree
  <2> QED
    BY <1>2, <2>2, <2>3 DEF Current
<1> QED
  BY <1>1, <1>2

(* With one thread, a dirty slot is mapped or that thread is replacing or  *)
(* resetting it.                                                           *)
LEMMA DirtyIsMapped ==
  ASSUME PoolInv, Coherent, NEW t \in Threads, Solo(t), NEW s \in Slots, buffers[s].is_dirty,
         ~ (pc[t] \in {"install", "reset"} /\ call[t].slot = s)
  PROVE  buffers[s].page_id \in Pages /\ page_map[buffers[s].page_id] = s
<1>1. ~ \E u \in Threads : pc[u] \in {"install", "reset"} /\ call[u].slot = s
  BY DEF Solo
<1> QED
  BY <1>1 DEF Coherent, SlotsAgree

(* Steps that only look.                                                   *)
LEMMA CoherentQuiet ==
  ASSUME PoolInv, Coherent, NEW t \in Threads, Solo(t), pc[t] \notin {"install", "reset"},
         NEW w, NEW c, Goto(t, w, c), AgreesAt(w, c),
         UNCHANGED <<buffers, page_map, storage>>
  PROVE  StaysCoherent(t)
<1>1. pc'[t] = w /\ call'[t] = c
  BY MovesTo DEF PoolInv
<1>2. CallAgrees(t)'
  BY <1>1 DEF CallAgrees, AgreesAt
<1>3. \A s \in Slots : buffers[s].is_dirty
        => buffers[s].page_id \in Pages /\ page_map[buffers[s].page_id] = s
  BY DirtyIsMapped
<1>4. SlotsAgree'
  BY <1>3 DEF SlotsAgree, Coherent
<1>5. ASSUME NEW p \in Pages
      PROVE  Current(p)'.of = p /\ Current(p)'.ver >= Current(p).ver
  <2>1. Current(p)' = Current(p)
    BY DEF Current
  <2>2. Current(p).of = p /\ Current(p).ver \in Nat
    BY CurrentNamed DEF Images
  <2> QED
    BY <2>1, <2>2
<1> QED
  BY <1>2, <1>4, <1>5 DEF StaysCoherent, Newer

LEMMA CoherentBegin ==
  ASSUME PoolInv, Coherent, NEW t \in Threads, Solo(t), Start(t)
  PROVE  StaysCoherent(t)
<1>1. /\ pc[t] = "idle" /\ UNCHANGED <<buffers, page_map, storage>>
      /\ \E w \in {"lookup", "pin_lookup", "unmap_page", "flush_lookup", "flush_check"} : \E c : Goto(t, w, c)
  BY DEF Start, BeginRead, BeginFetch, BeginPin, BeginInvalidate, Begin, BeginFlush
<1>2. PICK w, c : w \in {"lookup", "pin_lookup", "unmap_page", "flush_lookup", "flush_check"} /\ Goto(t, w, c)
  BY <1>1
<1>3. AgreesAt(w, c) /\ pc[t] \notin {"install", "reset"}
  BY <1>1, <1>2 DEF AgreesAt
<1> QED
  BY <1>1, <1>2, <1>3, CoherentQuiet, Zenon

LEMMA CoherentLookup ==
  ASSUME PoolInv, Coherent, NEW t \in Threads, Solo(t),
         FetchLookup(t) \/ UnpinLookup(t) \/ PinLookup(t)
  PROVE  StaysCoherent(t)
<1> DEFINE idx == page_map[call[t].page]
           c == [call[t] EXCEPT !.slot = idx]
<1>1. /\ pc[t] \in {"lookup", "unpin_lookup", "pin_lookup"} /\ UNCHANGED <<buffers, page_map, storage>>
      /\ \/ Goto(t, "idle", NoCall)
         \/ idx = NoSlot /\ Goto(t, "miss", c)
         \/ \E w \in {"hit", "unpin", "pin"} : Goto(t, w, c)
  BY DEF FetchLookup, UnpinLookup, PinLookup, SlotLookup, Finish
<1>2. call[t] \in CallRec /\ call[t].page \in Pages
  BY <1>1, CallOf DEF Locals
<1>3. idx \in Slots \cup {NoSlot}
  BY <1>2 DEF PoolInv, Shape
<1>4. c.slot = idx /\ c.page = call[t].page
  BY <1>2, <1>3 DEF CallRec
<1> HIDE DEF c
<1>5. AgreesAt("idle", NoCall) /\ (idx = NoSlot => AgreesAt("miss", c))
      /\ \A w \in {"hit", "unpin", "pin"} : AgreesAt(w, c)
  BY <1>4 DEF AgreesAt
<1>6. pc[t] \notin {"install", "reset"}
  BY <1>1
<1> QED
  BY <1>1, <1>5, <1>6, CoherentQuiet

LEMMA CoherentFlushLooks ==
  ASSUME PoolInv, Coherent, NEW t \in Threads, Solo(t),
         CloneData(t) \/ FlushCheck(t) \/ FlushLookup(t)
  PROVE  StaysCoherent(t)
<1> DEFINE idx == page_map[call[t].page]
           c == [call[t] EXCEPT !.slot = idx]
<1>1. /\ pc[t] \in {"clone", "flush_check", "flush_lookup"} /\ UNCHANGED <<buffers, page_map, storage>>
      /\ \/ Goto(t, "idle", NoCall)
         \/ \E w \in {"flush_lookup", "flush_check"} : \E d : Goto(t, w, d)
         \/ pc[t] = "flush_lookup" /\ Goto(t, "flush", c)
  BY DEF CloneData, FlushCheck, FlushLookup, NextFlush, Finish
<1>2. pc[t] = "flush_lookup" => c.slot = idx /\ c.page = call[t].page
  <2>1. call[t] \in CallRec
    BY CallOf
  <2> QED
    BY <2>1 DEF CallRec
<1> HIDE DEF c
<1>3. /\ AgreesAt("idle", NoCall) /\ (pc[t] = "flush_lookup" => AgreesAt("flush", c))
      /\ \A w \in {"flush_lookup", "flush_check"} : \A d : AgreesAt(w, d)
  BY <1>2 DEF AgreesAt
<1>4. pc[t] \notin {"install", "reset"}
  BY <1>1
<1> QED
  BY <1>1, <1>3, <1>4, CoherentQuiet, Zenon

(* Where fetch_page's return leads, once the page is mapped to its slot.   *)
LEMMA FetchedAgrees ==
  ASSUME PoolInv, NEW t \in Threads, pc[t] \in Fetching, NEW s \in Slots, Fetched(t, s),
         page_map'[call[t].page] = s
  PROVE  CallAgrees(t)' /\ pc'[t] \notin {"install", "reset"}
<1> DEFINE c == call[t]
           rest == c.todo \ {c.page}
           got == Grown(c.got, c.page, s)
           d == [c EXCEPT !.todo = {}, !.got = got]
<1>1. c \in CallRec /\ c.kind \in {"read", "touch", "update"}
  BY CallOf DEF Locals
<1>2. got[c.page] = s
  BY DEF Grown
<1>3. d.page = c.page /\ d.got = got
  BY <1>1 DEF CallRec
<1>4. CASE rest # {}
  <2>1. PICK e : Goto(t, "lookup", e)
    BY <1>4 DEF Fetched
  <2>2. pc'[t] = "lookup"
    BY <2>1, MovesTo DEF PoolInv
  <2> QED
    BY <2>2 DEF CallAgrees
<1>5. CASE rest = {}
  <2>1. \E w \in {"clone", "modify", "unpin_lookup"} : Goto(t, w, d)
    BY <1>1, <1>5 DEF Fetched, Grown
  <2> HIDE DEF d
  <2>2. pc'[t] \in {"clone", "modify", "unpin_lookup"} /\ call'[t] = d
    BY <2>1, MovesTo DEF PoolInv
  <2> QED
    BY <1>2, <1>3, <2>2 DEF CallAgrees
<1> QED
  BY <1>4, <1>5

(* Steps that change the slot s their page p is mapped to: its image only  *)
(* for a newer one of p, or storage's copy of p for the slot's.            *)
LEMMA CoherentSlot ==
  ASSUME PoolInv, Coherent, NEW t \in Threads, Solo(t), pc[t] \notin {"install", "reset"},
         NEW p \in Pages, NEW s \in Slots, page_map[p] = s, page_map' = page_map,
         \A r \in Slots \ {s} : buffers'[r] = buffers[r],
         buffers'[s].page_id = buffers[s].page_id,
         buffers'[s].data.of = p, buffers'[s].data.ver >= buffers[s].data.ver,
         \A q \in Pages : storage'[q] = storage[q] \/ (q = p /\ storage'[q] = buffers[s].data),
         CallAgrees(t)'
  PROVE  StaysCoherent(t)
<1>1. buffers[s].page_id = p /\ p # NoPage /\ buffers[s].data.of = p /\ s # NoSlot
  BY PoolConstants DEF Coherent, MapAgrees, SlotsAgree, Slots
<1>2. \A r \in Slots : buffers[r].is_dirty
        => buffers[r].page_id \in Pages /\ page_map[buffers[r].page_id] = r
  BY DirtyIsMapped
<1>3. \A q \in Pages : storage'[q].of = q
  BY <1>1 DEF Coherent, SlotsAgree
<1>4. ASSUME NEW r \in Slots
      PROVE  /\ buffers'[r].page_id # NoPage => buffers'[r].data.of = buffers'[r].page_id
             /\ buffers'[r].is_dirty => buffers'[r].page_id \in Pages /\ page_map'[buffers'[r].page_id] = r
  <2>1. CASE r = s
    BY <1>1, <2>1
  <2>2. CASE r # s
    BY <1>2, <2>2 DEF Coherent, SlotsAgree
  <2> QED
    BY <2>1, <2>2
<1>5. SlotsAgree'
  BY <1>3, <1>4 DEF SlotsAgree
<1>6. ASSUME NEW q \in Pages
      PROVE  Current(q)'.of = q /\ Current(q)'.ver >= Current(q).ver
  <2>0. Current(q).of = q /\ Current(q).ver \in Nat
    BY CurrentNamed DEF Images
  <2>1. CASE q = p
    BY <1>1, <2>1 DEF Current
  <2>2. CASE q # p /\ page_map[q] = NoSlot
    <3>1. Current(q)' = Current(q)
      BY <2>2 DEF Current
    <3> QED
      BY <2>0, <3>1
  <2>3. CASE q # p /\ page_map[q] # NoSlot
    <3>1. page_map[q] \in Slots /\ buffers[page_map[q]].page_id = q
      BY <2>3 DEF PoolInv, Shape, Coherent, MapAgrees
    <3>2. page_map[q] # s
      BY <1>1, <2>3, <3>1
    <3>3. Current(q)' = Current(q)
      BY <2>3, <3>1, <3>2 DEF Current
    <3> QED
      BY <2>0, <3>3
  <2> QED
    BY <2>1, <2>2, <2>3
<1> QED
  BY <1>5, <1>6 DEF StaysCoherent, Newer

(* The slot a step of t works on is its page's.                            *)
LEMMA AtMapped ==
  ASSUME PoolInv, Coherent, NEW t \in Threads, pc[t] \in {"hit", "unpin", "pin", "flush", "modify"}
  PROVE  /\ call[t].page \in Pages /\ page_map[call[t].page] \in Slots
         /\ pc[t] # "modify" => page_map[call[t].page] = call[t].slot
         /\ pc[t] = "modify" => page_map[call[t].page] = call[t].got[call[t].page]
         /\ buffers[page_map[call[t].page]].page_id = call[t].page
         /\ buffers[page_map[call[t].page]].data.of = call[t].page
         /\ buffers[page_map[call[t].page]].data.ver \in Nat
<1>1. /\ call[t].page \in Pages
      /\ pc[t] # "modify" => page_map[call[t].page] = call[t].slot /\ call[t].slot \in Slots
      /\ pc[t] = "modify" => page_map[call[t].page] = call[t].got[call[t].page]
                               /\ call[t].got[call[t].page] \in Slots
  <2>1. call[t].got \in Gots /\ Locals(pc[t], call[t])
    BY CallOf
  <2>2. pc[t] = "modify" => call[t].got[call[t].page] \in Slots
    BY <2>1, GotsAre DEF Locals
  <2> QED
    BY <2>1, <2>2 DEF Locals, AtSlot, Coherent, CallAgrees
<1>2. page_map[call[t].page] \in Slots
  BY <1>1
<1>3. buffers[page_map[call[t].page]].page_id = call[t].page /\ call[t].page # NoPage
  BY <1>1, <1>2, PoolConstants DEF Coherent, MapAgrees, Slots
<1>4. buffers[page_map[call[t].page]].data \in Images
  BY <1>2, BufferFields DEF PoolInv, Shape
<1> QED
  BY <1>1, <1>2, <1>3, <1>4 DEF Coherent, SlotsAgree, Images

LEMMA CoherentPinned ==
  ASSUME PoolInv, Coherent, NEW t \in Threads, Solo(t), FetchHit(t) \/ PinSlot(t) \/ UnpinSlot(t)
  PROVE  StaysCoherent(t)
<1> DEFINE s == call[t].slot
           p == call[t].page
<1>1. pc[t] \in {"hit", "unpin", "pin"} /\ UNCHANGED <<page_map, storage>>
  BY DEF FetchHit, PinSlot, UnpinSlot
<1>2. /\ p \in Pages /\ s \in Slots /\ page_map[p] = s
      /\ buffers[s].page_id = p /\ buffers[s].data.of = p /\ buffers[s].data.ver \in Nat
  BY <1>1, AtMapped
<1>3. buffers \in [Slots -> Buffer]
  BY DEF PoolInv, Shape
<1>4. /\ \A r \in Slots \ {s} : buffers'[r] = buffers[r]
      /\ buffers'[s].page_id = buffers[s].page_id /\ buffers'[s].data = buffers[s].data
  <2>1. CASE FetchHit(t)
    BY <1>2, <1>3, <2>1 DEF FetchHit, Buffer
  <2>2. CASE PinSlot(t)
    BY <1>2, <1>3, <2>2 DEF PinSlot, Buffer
  <2>3. CASE UnpinSlot(t)
    BY <1>2, <1>3, <2>3 DEF UnpinSlot, Buffer
  <2> QED
    BY <2>1, <2>2, <2>3
<1>5. CallAgrees(t)'
  <2>1. CASE FetchHit(t)
    <3>1. pc[t] \in Fetching /\ Fetched(t, s) /\ page_map'[p] = s
      BY <1>1, <1>2, <2>1 DEF FetchHit, Fetching
    <3> QED
      BY <1>2, <3>1, FetchedAgrees
  <2>2. CASE PinSlot(t) \/ UnpinSlot(t)
    <3>1. Goto(t, "idle", NoCall)
      BY <2>2 DEF PinSlot, UnpinSlot, Finish
    <3>2. pc'[t] = "idle"
      BY <3>1, MovesTo DEF PoolInv
    <3> QED
      BY <3>2 DEF CallAgrees
  <2> QED
    BY <2>1, <2>2
<1>6. buffers'[s].data.of = p /\ buffers'[s].data.ver >= buffers[s].data.ver
  BY <1>2, <1>4
<1>7. pc[t] \notin {"install", "reset"}
  BY <1>1
<1> HIDE DEF s, p
<1> QED
  BY <1>1, <1>2, <1>4, <1>5, <1>6, <1>7, CoherentSlot

LEMMA CoherentModify ==
  ASSUME PoolInv, Coherent, NEW t \in Threads, Solo(t), ModifyData(t)
  PROVE  StaysCoherent(t)
<1> DEFINE p == call[t].page
           s == call[t].got[p]
<1>1. /\ pc[t] = "modify" /\ UNCHANGED <<page_map, storage>> /\ Goto(t, "unpin_lookup", call[t])
      /\ buffers' = [buffers EXCEPT ![s].data = Image(p, @.ver + 1)]
  BY Zenon DEF ModifyData
<1>2. /\ p \in Pages /\ s \in Slots /\ page_map[p] = s
      /\ buffers[s].page_id = p /\ buffers[s].data.of = p /\ buffers[s].data.ver \in Nat
  BY <1>1, AtMapped, Zenon
<1>3. buffers \in [Slots -> Buffer]
  BY DEF PoolInv, Shape
<1>4. /\ \A r \in Slots \ {s} : buffers'[r] = buffers[r]
      /\ buffers'[s].page_id = buffers[s].page_id
      /\ buffers'[s].data = Image(p, buffers[s].data.ver + 1)
  BY <1>1, <1>2, <1>3 DEF Buffer
<1>5. buffers'[s].data.of = p /\ buffers'[s].data.ver >= buffers[s].data.ver
  BY <1>2, <1>4 DEF Image
<1>6. pc'[t] = "unpin_lookup"
  BY <1>1, MovesTo DEF PoolInv
<1>7. CallAgrees(t)'
  BY <1>6 DEF CallAgrees
<1>8. pc[t] \notin {"install", "reset"}
  BY <1>1
<1> HIDE DEF s, p
<1> QED
  BY <1>1, <1>2, <1>4, <1>5, <1>7, <1>8, CoherentSlot

LEMMA CoherentFlush ==
  ASSUME PoolInv, Coherent, NEW t \in Threads, Solo(t), FlushSlot(t)
  PROVE  StaysCoherent(t)
<1> DEFINE p == call[t].page
           s == call[t].slot
<1>1. pc[t] = "flush" /\ page_map' = page_map
  BY DEF FlushSlot
<1>2. /\ p \in Pages /\ s \in Slots /\ page_map[p] = s
      /\ buffers[s].page_id = p /\ buffers[s].data.of = p /\ buffers[s].data.ver \in Nat
  BY <1>1, AtMapped
<1>3. buffers \in [Slots -> Buffer]
  BY DEF PoolInv, Shape
<1>4. /\ \A r \in Slots \ {s} : buffers'[r] = buffers[r]
      /\ buffers'[s].page_id = buffers[s].page_id /\ buffers'[s].data = buffers[s].data
  BY <1>2, <1>3 DEF FlushSlot, Buffer
<1>5. \A q \in Pages : storage'[q] = storage[q] \/ (q = p /\ storage'[q] = buffers[s].data)
  BY FlushSlotSets
<1>6. pc'[t] \in {"idle", "flush_lookup", "flush_check"}
  <2>1. \E w \in {"idle", "flush_lookup", "flush_check"} : \E c : Goto(t, w, c)
    BY DEF FlushSlot, NextFlush, Finish
  <2> QED
    BY <2>1, MovesTo DEF PoolInv
<1>7. CallAgrees(t)'
  BY <1>6 DEF CallAgrees
<1>8. /\ buffers'[s].data.of = p /\ buffers'[s].data.ver >= buffers[s].data.ver
      /\ pc[t] \notin {"install", "reset"}
  BY <1>1, <1>2, <1>4
<1> HIDE DEF s, p
<1> QED
  BY <1>1, <1>2, <1>4, <1>5, <1>7, <1>8, CoherentSlot

(* A miss ages the slots; a dirty unpinned victim, which is mapped, is also*)
(* written back, and it is not the page that was missed.                   *)
LEMMA CoherentMiss ==
  ASSUME PoolInv, Coherent, NEW t \in Threads, Solo(t), FetchMiss(t) \/ FetchMissFails(t)
  PROVE  StaysCoherent(t)
<1> DEFINE v == find_victim(buffers, next_victim)
           old == v.bufs[v.victim]
           evict == old.is_dirty /\ old.pin_count = 0
           written == FetchMiss(t) /\ evict
           c == [call[t] EXCEPT !.slot = v.victim, !.data = storage[call[t].page]]
<1>1. /\ pc[t] = "miss" /\ buffers' = v.bufs /\ page_map' = page_map
      /\ storage' = IF written THEN [storage EXCEPT ![old.page_id] = old.data] ELSE storage
      /\ FetchMiss(t) => Goto(t, IF evict THEN "unmap_old" ELSE "install", c)
      /\ FetchMissFails(t) => Goto(t, "idle", NoCall)
  <2>1. CASE FetchMiss(t)
    <3>1. ~ FetchMissFails(t)
      BY <2>1 DEF FetchMiss, FetchMissFails
    <3> QED
      BY <2>1, <3>1 DEF FetchMiss
  <2>2. CASE FetchMissFails(t)
    <3>1. ~ FetchMiss(t)
      BY <2>2 DEF FetchMiss, FetchMissFails
    <3> QED
      BY <2>2, <3>1 DEF FetchMissFails, Finish
  <2> QED
    BY <2>1, <2>2
<1>2. VictimOk(buffers, v)
  BY VictimChosen DEF PoolInv, Shape
<1> HIDE DEF v
<1>3. /\ v.bufs \in [Slots -> Buffer] /\ v.victim \in Slots
      /\ \A r \in Slots : /\ buffers'[r].page_id = buffers[r].page_id
                          /\ buffers'[r].data = buffers[r].data
                          /\ buffers'[r].is_dirty = buffers[r].is_dirty
  BY <1>1, <1>2 DEF VictimOk, SameButUsage
<1>4. \A r \in Slots : buffers[r].is_dirty
        => buffers[r].page_id \in Pages /\ page_map[buffers[r].page_id] = r
  BY <1>1, DirtyIsMapped
<1>5. /\ old.page_id = buffers[v.victim].page_id /\ old.data = buffers[v.victim].data
      /\ old.is_dirty = buffers[v.victim].is_dirty
  BY <1>1, <1>3
<1>6. evict => /\ old.page_id \in Pages /\ page_map[old.page_id] = v.victim
               /\ old.page_id # NoPage /\ old.data.of = old.page_id
  <2>1. buffers[v.victim].page_id \in Pages => buffers[v.victim].data.of = buffers[v.victim].page_id
    BY <1>3, PoolConstants DEF Coherent, SlotsAgree
  <2>2. evict => buffers[v.victim].is_dirty
    BY <1>5
  <2> HIDE DEF evict, old
  <2> QED
    BY <1>3, <1>4, <1>5, <2>1, <2>2, PoolConstants
<1>7. call[t] \in CallRec /\ call[t].page \in Pages /\ page_map[call[t].page] = NoSlot
  BY <1>1, CallOf DEF Locals, Coherent, CallAgrees
<1>8. v.victim # NoSlot
  BY <1>3, PoolConstants DEF Slots
<1>9. storage \in [Pages -> Images] /\ storage[call[t].page] \in Images
  BY <1>7 DEF PoolInv, Shape
<1> HIDE DEF evict, old
<1>10. \A q \in Pages : storage'[q] = storage[q] \/ (evict /\ q = old.page_id /\ storage'[q] = old.data)
  BY <1>1, <1>9
<1>11. SlotsAgree'
  <2>1. \A q \in Pages : storage'[q].of = q
    BY <1>6, <1>10 DEF Coherent, SlotsAgree
  <2>2. \A r \in Slots : /\ buffers'[r].page_id # NoPage => buffers'[r].data.of = buffers'[r].page_id
                         /\ buffers'[r].is_dirty => buffers'[r].page_id \in Pages /\ page_map'[buffers'[r].page_id] = r
    BY <1>1, <1>3, <1>4 DEF Coherent, SlotsAgree
  <2> QED
    BY <2>1, <2>2 DEF SlotsAgree
<1>12. CallAgrees(t)'
  <2>1. CASE FetchMissFails(t)
    <3>1. pc'[t] = "idle"
      BY <1>1, <2>1, MovesTo DEF PoolInv
    <3> QED
      BY <3>1 DEF CallAgrees
  <2>2. CASE FetchMiss(t)
    <3>1. c.slot = v.victim /\ c.data = storage[call[t].page] /\ c.page = call[t].page
      BY <1>3, <1>7, <1>9 DEF CallRec
    <3> HIDE DEF c
    <3>2. pc'[t] = (IF evict THEN "unmap_old" ELSE "install") /\ call'[t] = c
      BY <1>1, <2>2, MovesTo DEF PoolInv
    <3>3. page_map'[c.page] = NoSlot
      BY <1>1, <1>7, <3>1
    <3>4. c.data = storage'[c.page]
      BY <1>6, <1>7, <1>8, <1>10, <3>1
    <3>5. evict => page_map'[buffers'[c.slot].page_id] = c.slot
      BY <1>1, <1>3, <1>5, <1>6, <3>1
    <3>6. evict => storage'[buffers'[c.slot].page_id] = buffers'[c.slot].data
      <4>1. evict => storage'[old.page_id] = old.data
        BY <1>1, <1>6, <1>9, <2>2
      <4> QED
        BY <1>3, <1>5, <3>1, <4>1
    <3> QED
      BY <3>2, <3>3, <3>4, <3>5, <3>6 DEF CallAgrees
  <2> QED
    BY <2>1, <2>2
<1>13. ASSUME NEW q \in Pages
       PROVE  Current(q)'.of = q /\ Current(q)'.ver >= Current(q).ver
  <2>0. Current(q).of = q /\ Current(q).ver \in Nat
    BY CurrentNamed DEF Images
  <2>1. CASE page_map[q] = NoSlot
    <3>1. ~ (evict /\ q = old.page_id)
      BY <1>6, <1>8, <2>1
    <3>2. Current(q)' = Current(q)
      BY <1>1, <1>10, <2>1, <3>1 DEF Current
    <3> QED
      BY <2>0, <3>2
  <2>2. CASE page_map[q] # NoSlot
    <3>1. page_map[q] \in Slots
      BY <2>2 DEF PoolInv, Shape
    <3>2. Current(q)' = Current(q)
      BY <1>1, <1>3, <2>2, <3>1 DEF Current
    <3> QED
      BY <2>0, <3>2
  <2> QED
    BY <2>1, <2>2
<1> QED
  BY <1>11, <1>12, <1>13 DEF StaysCoherent, Newer

(* The victim leaves the map with its image in storage.                    *)
LEMMA CoherentUnmapOld ==
  ASSUME PoolInv, Coherent, NEW t \in Threads, Solo(t), FetchUnmapOld(t)
  PROVE  StaysCoherent(t)
<1> DEFINE s == call[t].slot
           x == buffers[s].page_id
<1>1. /\ pc[t] = "unmap_old" /\ UNCHANGED <<buffers, storage>>
      /\ page_map' = [page_map EXCEPT ![x] = NoSlot] /\ Goto(t, "install", call[t])
  BY DEF FetchUnmapOld
<1>2. pc'[t] = "install" /\ call'[t] = call[t]
  BY <1>1, MovesTo DEF PoolInv
<1>3. /\ call[t].page \in Pages /\ page_map[call[t].page] = NoSlot
      /\ call[t].data = storage[call[t].page] /\ page_map[x] = s /\ s \in Slots
      /\ storage[x] = buffers[s].data
  BY <1>1, CallOf DEF Locals, Replacing, Coherent, CallAgrees
<1>4. page_map \in [Pages -> Slots \cup {NoSlot}]
  BY DEF PoolInv, Shape
<1>5. /\ page_map'[call[t].page] = NoSlot
      /\ \A q \in Pages : page_map'[q] = (IF q = x THEN NoSlot ELSE page_map[q])
  BY <1>1, <1>3, <1>4
<1>6. CallAgrees(t)'
  BY <1>1, <1>2, <1>3, <1>5 DEF CallAgrees
<1>7. \A r \in Slots : buffers[r].is_dirty
        => buffers[r].page_id \in Pages /\ page_map[buffers[r].page_id] = r
  BY <1>1, DirtyIsMapped
<1>8. SlotsAgree'
  <2>1. ASSUME NEW r \in Slots, buffers[r].is_dirty
        PROVE  \/ buffers[r].page_id \in Pages /\ page_map'[buffers[r].page_id] = r
               \/ pc'[t] \in {"install", "reset"} /\ call'[t].slot = r
    BY <1>2, <1>3, <1>5, <1>7, <2>1
  <2> QED
    BY <1>1, <2>1 DEF SlotsAgree, Coherent
<1>9. ASSUME NEW q \in Pages
      PROVE  Current(q)'.of = q /\ Current(q)'.ver >= Current(q).ver
  <2>0. Current(q).of = q /\ Current(q).ver \in Nat
    BY CurrentNamed DEF Images
  <2>1. CASE q # x
    <3>1. Current(q)' = Current(q)
      BY <1>1, <1>5, <2>1 DEF Current
    <3> QED
      BY <2>0, <3>1
  <2>2. CASE q = x
    <3>1. s # NoSlot
      BY <1>3, PoolConstants DEF Slots
    <3>2. Current(q) = buffers[s].data
      BY <1>3, <2>2, <3>1 DEF Current
    <3>3. Current(q)' = storage[q]
      BY <1>1, <1>5, <2>2 DEF Current
    <3>4. storage[q] = buffers[s].data
      BY <1>3, <2>2
    <3> QED
      BY <2>0, <3>2, <3>3, <3>4
  <2> QED
    BY <2>1, <2>2
<1> QED
  BY <1>6, <1>8, <1>9 DEF StaysCoherent, Newer

(* The page is installed; a page that is still mapped to the victim's slot *)
(* would leave the map wrong.                                              *)
LEMMA CoherentInstall ==
  ASSUME PoolInv, Coherent, MapAgrees', NEW t \in Threads, Solo(t), FetchInstall(t)
  PROVE  StaysCoherent(t)
<1> DEFINE s == call[t].slot
           p == call[t].page
<1>1. pc[t] = "install" /\ storage' = storage /\ Fetched(t, s)
  BY DEF FetchInstall
<1>2. /\ s \in Slots /\ p \in Pages /\ buffers' \in [Slots -> Buffer]
      /\ buffers'[s] = Installed(t)
      /\ \A r \in Slots \ {s} : buffers'[r] = buffers[r]
      /\ page_map'[p] = s
      /\ \A q \in Pages \ {p} : page_map'[q] = page_map[q]
  BY InstallSets
<1>3. page_map[p] = NoSlot /\ call[t].data = storage[p]
  BY <1>1 DEF Coherent, CallAgrees
<1>4. buffers'[s].page_id = p /\ buffers'[s].data = storage[p] /\ ~ buffers'[s].is_dirty
  BY <1>2, <1>3 DEF Installed
<1>5. storage[p].of = p /\ s # NoSlot
  BY <1>2, PoolConstants DEF Coherent, SlotsAgree, Slots
<1>6. CallAgrees(t)'
  <2>1. pc[t] \in Fetching
    BY <1>1 DEF Fetching
  <2> QED
    BY <1>1, <1>2, <2>1, FetchedAgrees
<1>7. \A r \in Slots \ {s} : buffers[r].is_dirty
        => buffers[r].page_id \in Pages /\ page_map[buffers[r].page_id] = r
  BY DirtyIsMapped
<1>8. SlotsAgree'
  <2>1. ASSUME NEW r \in Slots
        PROVE  /\ buffers'[r].page_id # NoPage => buffers'[r].data.of = buffers'[r].page_id
               /\ buffers'[r].is_dirty => buffers'[r].page_id \in Pages /\ page_map'[buffers'[r].page_id] = r
    <3>1. CASE r = s
      BY <1>4, <1>5, <3>1
    <3>2. CASE r # s
      <4>1. r # NoSlot
        BY PoolConstants DEF Slots
      <4>2. buffers[r].is_dirty => buffers[r].page_id # p
        BY <1>3, <1>7, <3>2, <4>1
      <4> QED
        BY <1>2, <1>7, <3>2, <4>2 DEF Coherent, SlotsAgree
    <3> QED
      BY <3>1, <3>2
  <2> QED
    BY <1>1, <2>1 DEF SlotsAgree, Coherent
<1>9. ASSUME NEW q \in Pages
      PROVE  Current(q)'.of = q /\ Current(q)'.ver >= Current(q).ver
  <2>0. Current(q).of = q /\ Current(q).ver \in Nat
    BY CurrentNamed DEF Images
  <2>1. CASE q = p
    <3>1. Current(q) = storage[p] /\ Current(q)' = storage[p]
      BY <1>2, <1>3, <1>4, <1>5, <2>1 DEF Current
    <3> QED
      BY <2>0, <3>1
  <2>2. CASE q # p /\ page_map[q] = NoSlot
    <3>1. Current(q)' = Current(q)
      BY <1>1, <1>2, <2>2 DEF Current
    <3> QED
      BY <2>0, <3>1
  <2>3. CASE q # p /\ page_map[q] # NoSlot
    <3>1. page_map[q] \in Slots /\ page_map'[q] = page_map[q]
      BY <1>2, <2>3 DEF PoolInv, Shape
    <3>2. page_map[q] # s
      BY <1>4, <2>3, <3>1 DEF MapAgrees
    <3>3. Current(q)' = Current(q)
      BY <1>2, <2>3, <3>1, <3>2 DEF Current
    <3> QED
      BY <2>0, <3>3
  <2> QED
    BY <2>1, <2>2, <2>3
<1> QED
  BY <1>6, <1>8, <1>9 DEF StaysCoherent, Newer

LEMMA CoherentInvalidate ==
  ASSUME PoolInv, Coherent, NEW t \in Threads, Solo(t), InvalidateUnmap(t)
  PROVE  StaysCoherent(t)
<1> DEFINE p == call[t].page
           idx == page_map[p]
           c == [call[t] EXCEPT !.slot = idx]
<1>1. pc[t] = "unmap_page" /\ UNCHANGED <<buffers, storage>>
  BY DEF InvalidateUnmap
<1>2. call[t] \in CallRec /\ p \in Pages /\ page_map \in [Pages -> Slots \cup {NoSlot}]
  BY <1>1, CallOf DEF Locals, PoolInv, Shape
<1>3. CASE idx = NoSlot
  <2>1. Goto(t, "idle", NoCall) /\ page_map' = page_map
    BY <1>3 DEF InvalidateUnmap, Finish
  <2>2. AgreesAt("idle", NoCall) /\ pc[t] \notin {"install", "reset"}
    BY <1>1 DEF AgreesAt
  <2> QED
    BY <1>1, <2>1, <2>2, CoherentQuiet
<1>4. CASE idx # NoSlot
  <2>1. Goto(t, "reset", c) /\ page_map' = [page_map EXCEPT ![p] = NoSlot]
    BY <1>4 DEF InvalidateUnmap
  <2>2. c.slot = idx
    BY <1>2 DEF CallRec
  <2> HIDE DEF c
  <2>3. pc'[t] = "reset" /\ call'[t].slot = idx
    BY <2>1, <2>2, MovesTo DEF PoolInv
  <2>4. CallAgrees(t)'
    BY <2>3 DEF CallAgrees
  <2>5. \A q \in Pages : page_map'[q] = IF q = p THEN NoSlot ELSE page_map[q]
    BY <1>2, <2>1
  <2>6. \A r \in Slots : buffers[r].is_dirty
          => buffers[r].page_id \in Pages /\ page_map[buffers[r].page_id] = r
    BY <1>1, DirtyIsMapped
  <2>7. SlotsAgree'
    <3>1. ASSUME NEW r \in Slots, buffers[r].is_dirty
          PROVE  \/ buffers[r].page_id \in Pages /\ page_map'[buffers[r].page_id] = r
                 \/ pc'[t] \in {"install", "reset"} /\ call'[t].slot = r
      BY <2>3, <2>5, <2>6, <3>1
    <3> QED
      BY <1>1, <3>1 DEF SlotsAgree, Coherent
  <2>8. ASSUME NEW q \in Pages, q # p
        PROVE  Current(q)'.of = q /\ Current(q)'.ver >= Current(q).ver
    <3>1. Current(q)' = Current(q)
      BY <1>1, <2>5, <2>8 DEF Current
    <3>2. Current(q).of = q /\ Current(q).ver \in Nat
      BY CurrentNamed DEF Images
    <3> QED
      BY <3>1, <3>2
  <2> QED
    BY <1>1, <2>4, <2>7, <2>8 DEF StaysCoherent, Newer
<1> QED
  BY <1>3, <1>4

LEMMA CoherentReset ==
  ASSUME PoolInv, Coherent, NEW t \in Threads, Solo(t), InvalidateReset(t)
  PROVE  StaysCoherent(t)
<1> DEFINE s == call[t].slot
<1>1. pc[t] = "reset" /\ UNCHANGED <<page_map, storage>> /\ Goto(t, "idle", NoCall)
  BY DEF InvalidateReset, Finish
<1>2. buffers \in [Slots -> Buffer] /\ s \in Slots
  BY <1>1, CallOf DEF Locals, AtSlot, PoolInv, Shape
<1>3. /\ \A r \in Slots : buffers'[r].page_id = buffers[r].page_id /\ buffers'[r].data = buffers[r].data
      /\ \A r \in Slots \ {s} : buffers'[r] = buffers[r]
  BY <1>2 DEF InvalidateReset, Buffer
<1>4. ~ buffers'[s].is_dirty
  <2>1. PICK f, z : f = FALSE /\ z = 0 /\ f \in BOOLEAN /\ z \in Nat
    OBVIOUS
  <2>2. buffers' = [buffers EXCEPT ![s].is_dirty = f, ![s].usage_count = z, ![s].pin_count = z]
    BY <2>1 DEF InvalidateReset
  <2>3. buffers'[s].is_dirty = f
    BY <1>2, <2>1, <2>2 DEF Buffer
  <2> QED
    BY <2>1, <2>3
<1>5. pc'[t] = "idle"
  BY <1>1, MovesTo DEF PoolInv
<1>6. CallAgrees(t)'
  BY <1>5 DEF CallAgrees
<1>7. \A r \in Slots \ {s} : buffers[r].is_dirty
        => buffers[r].page_id \in Pages /\ page_map[buffers[r].page_id] = r
  BY DirtyIsMapped
<1>8. SlotsAgree'
  <2>1. \A r \in Slots : /\ buffers'[r].page_id # NoPage => buffers'[r].data.of = buffers'[r].page_id
                         /\ buffers'[r].is_dirty => buffers'[r].page_id \in Pages /\ page_map'[buffers'[r].page_id] = r
    BY <1>1, <1>3, <1>4, <1>7 DEF Coherent, SlotsAgree
  <2> QED
    BY <1>1, <2>1 DEF SlotsAgree, Coherent
<1>9. ASSUME NEW q \in Pages
      PROVE  Current(q)'.of = q /\ Current(q)'.ver >= Current(q).ver
  <2>1. page_map[q] # NoSlot => page_map[q] \in Slots
    BY DEF PoolInv, Shape
  <2>2. Current(q)' = Current(q)
    BY <1>1, <1>3, <2>1 DEF Current
  <2>3. Current(q).of = q /\ Current(q).ver \in Nat
    BY CurrentNamed DEF Images
  <2> QED
    BY <2>2, <2>3
<1> QED
  BY <1>6, <1>8, <1>9 DEF StaysCoherent, Newer

LEMMA CoherentStep ==
  ASSUME PoolInv, Coherent, MapAgrees', NEW t \in Threads, Solo(t), Start(t) \/ Step(t)
  PROVE  StaysCoherent(t)
<1>1. CASE Start(t)
  BY <1>1, CoherentBegin
<1>2. CASE Fetch(t)
  BY <1>2, CoherentLookup, CoherentPinned, CoherentMiss, CoherentUnmapOld, CoherentInstall DEF Fetch
<1>3. CASE CloneData(t) \/ ModifyData(t) \/ UnpinLookup(t) \/ UnpinSlot(t) \/ PinLookup(t) \/ PinSlot(t)
  BY <1>3, CoherentFlushLooks, CoherentModify, CoherentLookup, CoherentPinned
<1>4. CASE InvalidateUnmap(t) \/ InvalidateReset(t)
  BY <1>4, CoherentInvalidate, CoherentReset
<1>5. CASE FlushCheck(t) \/ FlushLookup(t) \/ FlushSlot(t)
  BY <1>5, CoherentFlushLooks, CoherentFlush
<1> QED
  BY <1>1, <1>2, <1>3, <1>4, <1>5 DEF Step

(* Every step moves one thread, which begins a call or was in one.         *)
LEMMA StepMoves ==
  ASSUME PoolInv, NEW t \in Threads, Start(t) \/ Step(t)
  PROVE  /\ \A u \in Threads \ {t} : pc'[u] = pc[u]
         /\ \/ budget[t] > 0 /\ budget' = [budget EXCEPT ![t] = @ - 1]
            \/ pc[t] # "idle" /\ budget' = budget
<1>1. \A w, c : Goto(t, w, c) => \A u \in Threads \ {t} : pc'[u] = pc[u]
  BY MovesTo DEF PoolInv
<1>2. CASE Start(t)
  <2>1. /\ budget[t] > 0 /\ budget' = [budget EXCEPT ![t] = @ - 1]
        /\ \E w, c : Goto(t, w, c)
    BY <1>2 DEF Start, BeginRead, BeginFetch, BeginPin, BeginInvalidate, Begin, BeginFlush
  <2> QED
    BY <1>1, <2>1, Zenon
<1>3. CASE Fetch(t)
  <2>1. pc[t] # "idle" /\ budget' = budget
    BY <1>3, Zenon DEF Fetch, FetchLookup, FetchHit, FetchMiss, FetchMissFails, FetchUnmapOld, FetchInstall
  <2>2. \E w, c : Goto(t, w, c)
    BY <1>3, ZenonT(60) DEF Fetch, FetchLookup, FetchHit, FetchMiss, FetchMissFails, FetchUnmapOld, FetchInstall,
                Fetched, Finish
  <2> QED
    BY <1>1, <2>1, <2>2
<1>4. CASE CloneData(t) \/ ModifyData(t) \/ UnpinLookup(t) \/ UnpinSlot(t) \/ PinLookup(t) \/ PinSlot(t)
  <2>1. pc[t] # "idle" /\ budget' = budget
    BY <1>4, Zenon DEF CloneData, ModifyData, UnpinLookup, UnpinSlot, PinLookup, PinSlot, SlotLookup
  <2>2. \E w, c : Goto(t, w, c)
    BY <1>4 DEF CloneData, ModifyData, UnpinLookup, UnpinSlot, PinLookup, PinSlot, SlotLookup, Finish
  <2> QED
    BY <1>1, <2>1, <2>2
<1>5. CASE InvalidateUnmap(t) \/ InvalidateReset(t)
  <2>1. pc[t] # "idle" /\ budget' = budget /\ \E w, c : Goto(t, w, c)
    BY <1>5, Zenon DEF InvalidateUnmap, InvalidateReset, Finish
  <2> QED
    BY <1>1, <2>1
<1>6. CASE FlushCheck(t) \/ FlushLookup(t) \/ FlushSlot(t)
  <2>1. pc[t] # "idle" /\ budget' = budget /\ \E w, c : Goto(t, w, c)
    BY <1>6 DEF FlushCheck, FlushLookup, FlushSlot, NextFlush, Finish
  <2> QED
    BY <1>1, <2>1
<1> QED
  BY <1>2, <1>3, <1>4, <1>5, <1>6 DEF Step

LEMMA UnstartedStep ==
  ASSUME PoolInv, Unstarted, [Next]_vars
  PROVE  Unstarted'
<1> USE PoolConstants DEF Unstarted
<1>1. ASSUME NEW t \in Threads, Start(t) \/ Step(t)
      PROVE  Unstarted'
  <2>1. /\ \A u \in Threads \ {t} : pc'[u] = pc[u]
        /\ \/ budget[t] > 0 /\ budget' = [budget EXCEPT ![t] = @ - 1]
           \/ pc[t] # "idle" /\ budget' = budget
    BY <1>1, StepMoves
  <2> QED
    BY <2>1
<1>2. CASE UNCHANGED vars
  BY <1>2 DEF vars
<1> QED
  BY <1>1, <1>2 DEF Next, Rest

(* If one thread has made all the calls, it is the one that moves.         *)
LEMMA AloneMoves ==
  ASSUME PoolInv, Unstarted, Unstarted', Alone', NEW t \in Threads, Start(t) \/ Step(t)
  PROVE  Solo(t) /\ \A u \in Threads \ {t} : pc'[u] = "idle"
<1> USE PoolConstants DEF Unstarted
<1>1. PICK a \in Threads : \A u \in Threads \ {a} : budget'[u] = MaxCalls
  BY DEF Alone
<1>2. /\ \A u \in Threads \ {t} : pc'[u] = pc[u]
      /\ \/ budget[t] > 0 /\ budget' = [budget EXCEPT ![t] = @ - 1]
         \/ pc[t] # "idle" /\ budget' = budget
  BY StepMoves
<1>3. budget'[t] # MaxCalls
  BY <1>2
<1>4. t = a
  BY <1>1, <1>3
<1>5. \A u \in Threads \ {t} : pc'[u] = "idle"
  BY <1>1, <1>4
<1> QED
  BY <1>2, <1>5 DEF Solo

(* The pool is coherent when it is created.                                *)
LEMMA CoherentInit == Init => Coherent
  BY DEF Init, Coherent, MapAgrees, SlotsAgree, CallAgrees, Image

(* In a pool of any size that one thread has to itself, and for as long as *)
(* every mapped page is in the slot page_map names for it, nothing fetch,  *)
(* unpin, pin, flush and invalidation do loses an update or puts an image  *)
(* where it does not belong.  The pool starts out coherent, and stays so.  *)
THEOREM UpdatesAreKept == Spec => Coherent /\ NoUpdateLost
<1>1. Init => Unstarted
  BY PoolConstants DEF Init, Unstarted
<1>2. PoolInv /\ Unstarted /\ [Next]_vars => Unstarted'
  BY UnstartedStep
<1>3. ASSUME PoolInv, Unstarted, Unstarted', [Next]_vars
      PROVE  [Alone' /\ Coherent /\ MapAgrees' =>
                /\ Coherent'
                /\ \A p \in Pages :
                     \/ Current(p)'.of = p /\ Current(p)'.ver >= Current(p).ver
                     \/ \E t \in Threads : pc[t] = "unmap_page" /\ call[t].page = p]_vars
  <2> SUFFICES ASSUME Next, Alone', Coherent, MapAgrees', vars' # vars
               PROVE  /\ Coherent'
                      /\ \A p \in Pages :
                           \/ Current(p)'.of = p /\ Current(p)'.ver >= Current(p).ver
                           \/ \E t \in Threads : pc[t] = "unmap_page" /\ call[t].page = p
    BY <1>3
  <2>1. PICK t \in Threads : Start(t) \/ Step(t)
    BY DEF Next, Rest
  <2>2. Solo(t) /\ \A u \in Threads \ {t} : pc'[u] = "idle"
    BY <1>3, <2>1, AloneMoves
  <2>3. SlotsAgree' /\ CallAgrees(t)' /\ Newer(t)
    BY <1>3, <2>1, <2>2, CoherentStep DEF StaysCoherent
  <2>4. \A u \in Threads \ {t} : CallAgrees(u)'
    BY <2>2 DEF CallAgrees
  <2>5. Coherent'
    BY <2>3, <2>4 DEF Coherent
  <2> QED
    BY <2>3, <2>5 DEF Newer
<1> QED
  BY <1>1, <1>2, <1>3, CoherentInit, PoolInvariant, PTL DEF Spec, NoUpdateLost

==============================================================================
