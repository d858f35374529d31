---------------------------- MODULE HeapPageOps ----------------------------
EXTENDS HeapPage

\* One page in memory, worked on through every operation and stored and read
\* back at any moment.  live is a history variable: the tuples that must be
\* there.  chained maps each slot updated since the page was last compacted or
\* stored to the tuple its chain must lead to.
VARIABLES hp, live, chained, used

pageVars == <<hp, live, chained, used>>

CONSTANTS TupleLens, MaxTuples, PageCutoffs

ASSUME PageOpsConstants ==
    TupleLens \subseteq Nat \ {0} /\ MaxTuples \in Nat /\ PageCutoffs \subseteq Nat

PageInit == hp = NewPage /\ live = {} /\ chained = << >> /\ used = 0

Fresh(len, xmax) == [id |-> used + 1, len |-> len, xmax |-> xmax]

PageAddTuple(t) ==
    LET r == AddTuple(hp, t) IN
    /\ used < MaxTuples
    /\ ~Underflows(hp, t)
    /\ used' = used + 1
    /\ hp' = r.page
    /\ live' = IF r.slot = 0 THEN live ELSE live \cup {t}
    /\ UNCHANGED chained

\* The chains that led to the old slot now lead to the new tuple.
PageHotUpdate(old, t) ==
    LET r == HotUpdate(hp, old, t) IN
    /\ used < MaxTuples
    /\ ~Underflows(hp, t)
    /\ used' = used + 1
    /\ hp' = r.page
    /\ IF r.slot = 0
       THEN UNCHANGED <<live, chained>>
       ELSE /\ live' = (live \ {hp.tuples[old]}) \cup {t}
            /\ chained' = [s \in DOMAIN chained \cup {old} |->
                             IF s = old \/ chained[s] = hp.tuples[old] THEN t ELSE chained[s]]

PagePrune(cutoff) ==
    /\ hp' = Prune(hp, cutoff)
    /\ hp' # hp
    /\ live' = live \ {hp.tuples[i] : i \in PruneDead(hp, cutoff)}
    /\ chained' = << >>
    /\ UNCHANGED used

PageReload ==
    /\ hp' = Deserialize(Serialize(hp))
    /\ hp' # hp
    /\ chained' = << >>
    /\ UNCHANGED <<live, used>>

PageNext ==
    \/ \E len \in TupleLens, xmax \in PageCutoffs \cup {0} :
          \/ PageAddTuple(Fresh(len, xmax))
          \/ \E s \in Slots(hp) : PageHotUpdate(s, Fresh(len, xmax))
    \/ \E c \in PageCutoffs : PagePrune(c + 1)
    \/ PageReload

PageSpec == PageInit /\ [][PageNext]_pageVars

PageStored == {hp.tuples[i] : i \in {j \in Slots(hp) : IsStored(hp, j)}}

(* Whatever was added, updated, pruned and stored before, writing the page  *)
(* and reading it back yields exactly the tuples that are live: serialize   *)
(* and deserialize agree on where each one starts and ends.                 *)
RoundTripKeepsLive ==
    LET back == Deserialize(Serialize(hp)) IN
    /\ PageStored = live
    /\ {back.tuples[i] : i \in {j \in Slots(back) : IsStored(back, j)}} = live

(* The tuples of a page and its line pointers never share a byte: the free  *)
(* space add_tuple and hot_update count on is there when serialize lays the *)
(* tuples out again.                                                        *)
NoOverlap ==
    /\ hp.lower = PageHeaderSize + Len(hp.line_pointers) * LinePointerSize
    /\ hp.lower <= hp.upper
    /\ hp.upper <= PageSize - StoredLength(hp, Len(hp.line_pointers))

(* Until the page is compacted or stored, follow_chain leads from any slot  *)
(* that was updated, however often, to its newest version.                  *)
ChainReachesNewest ==
    \A s \in DOMAIN chained :
        LET last == FollowChain(hp, s) IN last # 0 /\ hp.tuples[last] = chained[s]

(* The three together: a page keeps its live tuples through every change,   *)
(* the way to storage and back, and every chain of HOT updates.             *)
PageSound == RoundTripKeepsLive /\ NoOverlap /\ ChainReachesNewest
=============================================================================
