--------------------------- MODULE DeadlockDetector ---------------------------
(***************************************************************************)
(* The search inside LockManager::detect_deadlock (locks.rs): the loop over*)
(* the keys of the wait-for graph and the recursive detect_cycle, with the *)
(* visited set and the recursion-stack set they share.                     *)
(*                                                                         *)
(* The graph is fixed while the search runs (all three mutexes are held).  *)
(* The hash map yields its keys in any order and a Vec of blockers may list*)
(* its members in any order, so both are consumed as sets.  One step is    *)
(* one iteration of a loop or one return.                                  *)
(***************************************************************************)
EXTENDS Naturals, Sequences, FiniteSets

CONSTANTS
  Xids,      \* transactions
  Running,   \* result while the search goes on
  NoCycle    \* None, the result of a search that found nothing

ASSUME DetectorConstants ==
  /\ Running # NoCycle
  /\ Running \notin Xids \X Xids
  /\ NoCycle \notin Xids \X Xids

VARIABLES
  wait_for,  \* transaction -> set of blockers
  keys,      \* keys of wait_for the outer loop has still to visit
  visited,   \* shared by all activations of detect_cycle
  stack,     \* likewise: the transactions on the current path
  path,      \* the open activations of detect_cycle, outermost first
  rest,      \* blockers the activation on a transaction has still to go through
  finished,  \* history: transactions whose activation returned None
  result     \* Running, NoCycle, or <<xid, blocker>>

vars == <<wait_for, keys, visited, stack, path, rest, finished, result>>

(* The graph never has a self-edge: detect_deadlock skips the requester's  *)
(* own locks; a transaction is a key only if it has a blocker.             *)
Init ==
  /\ wait_for \in [Xids -> SUBSET Xids]
  /\ \A x \in Xids : x \notin wait_for[x]
  /\ keys = {x \in Xids : wait_for[x] # {}}
  /\ visited = {}
  /\ stack = {}
  /\ path = <<>>
  /\ rest = [x \in Xids |-> {}]
  /\ finished = {}
  /\ result = Running

Top == path[Len(path)]

(* visited.insert(xid); stack.insert(xid); begin iterating the blockers.   *)
Enter(x) ==
  /\ visited' = visited \cup {x}
  /\ stack' = stack \cup {x}
  /\ path' = Append(path, x)

(* Mutant of VisitKey: the key is not consumed.                            *)
VisitKeyAgain ==
  /\ result = Running
  /\ path = <<>>
  /\ \E x \in keys : Enter(x) /\ rest' = [rest EXCEPT ![x] = wait_for[x]]
  /\ UNCHANGED <<wait_for, keys, finished, result>>

(* One round of the outer loop.  The key is entered again even when it has *)
(* been visited from another key.                                          *)
VisitKey ==
  /\ result = Running
  /\ path = <<>>
  /\ \E x \in keys :
       /\ keys' = keys \ {x}
       /\ Enter(x)
       /\ rest' = [rest EXCEPT ![x] = wait_for[x]]
  /\ UNCHANGED <<wait_for, finished, result>>

(* The outer loop is exhausted: None.                                      *)
GiveUp ==
  /\ result = Running
  /\ path = <<>>
  /\ keys = {}
  /\ result' = NoCycle
  /\ UNCHANGED <<wait_for, keys, visited, stack, path, rest, finished>>

(* A blocker that was not visited is searched recursively.                 *)
Descend ==
  /\ result = Running
  /\ path # <<>>
  /\ \E b \in rest[Top] \ visited :
       /\ Enter(b)
       /\ rest' = [rest EXCEPT ![Top] = @ \ {b}, ![b] = wait_for[b]]
  /\ UNCHANGED <<wait_for, keys, finished, result>>

(* A visited blocker that is on the path closes a cycle; the activations   *)
(* all return it at once.                                                  *)
CloseCycle ==
  /\ result = Running
  /\ path # <<>>
  /\ \E b \in rest[Top] \cap visited \cap stack : result' = <<Top, b>>
  /\ UNCHANGED <<wait_for, keys, visited, stack, path, rest, finished>>

(* Mutant of SkipBlocker: visited is tested before the path is.            *)
SkipVisited ==
  /\ result = Running
  /\ path # <<>>
  /\ \E b \in rest[Top] \cap visited : rest' = [rest EXCEPT ![Top] = @ \ {b}]
  /\ UNCHANGED <<wait_for, keys, visited, stack, path, finished, result>>

(* A visited blocker that is off the path is passed over.                  *)
SkipBlocker ==
  /\ result = Running
  /\ path # <<>>
  /\ \E b \in (rest[Top] \cap visited) \ stack :
       rest' = [rest EXCEPT ![Top] = @ \ {b}]
  /\ UNCHANGED <<wait_for, keys, visited, stack, path, finished, result>>

Pop == SubSeq(path, 1, Len(path) - 1)

(* No blockers left: stack.remove(&xid) and None to the caller.            *)
Return ==
  /\ result = Running
  /\ path # <<>>
  /\ rest[Top] = {}
  /\ stack' = stack \ {Top}
  /\ path' = Pop
  /\ finished' = finished \cup {Top}
  /\ UNCHANGED <<wait_for, keys, visited, rest, result>>

Done == result # Running /\ UNCHANGED vars

Next ==
  VisitKey \/ GiveUp \/ Descend \/ CloseCycle \/ SkipBlocker \/ Return \/ Done

Spec == Init /\ [][Next]_vars /\ WF_vars(Next)

------------------------------------------------------------------------------
(* The search works on transactions of the graph only, its result has one  *)
(* of the three forms, and the shared path set is the set of open          *)
(* activations.                                                            *)
TypeOK ==
  /\ wait_for \in [Xids -> SUBSET Xids]
  /\ keys \subseteq Xids
  /\ visited \subseteq Xids
  /\ stack \subseteq Xids
  /\ path \in Seq(Xids)
  /\ rest \in [Xids -> SUBSET Xids]
  /\ finished \subseteq Xids
  /\ result \in {Running, NoCycle} \cup (Xids \X Xids)
  /\ stack = {path[i] : i \in DOMAIN path}

(* y can be reached from x along wait-for edges: y is in every set that    *)
(* contains x and is closed under waiting.                                 *)
Reaches(x, y) ==
  \A S \in SUBSET Xids :
    (x \in S /\ \A z \in S : wait_for[z] \subseteq S) => y \in S

(* A set of transactions each of which waits for a member of the set.      *)
WaitingSet(C) == C # {} /\ \A x \in C : wait_for[x] \cap C # {}

(* What is reported is a cycle: detect_deadlock's pair is an edge of the   *)
(* wait-for graph whose end waits, directly or not, for its start.  A path *)
(* set left over from an earlier branch would break this.                  *)
ReportedCycleIsReal ==
  \A x, b \in Xids : result = <<x, b>> => b \in wait_for[x] /\ Reaches(b, x)

(* Nothing is missed: when None is returned no set of transactions is      *)
(* closed under waiting, although transactions visited once are never      *)
(* searched again from another key.                                        *)
NoneMeansAcyclic ==
  result = NoCycle => ~ \E C \in SUBSET Xids : WaitingSet(C)

(* detect_deadlock decides whether there is a deadlock: what it reports is *)
(* one, and None means there is none.                                      *)
SearchExact == ReportedCycleIsReal /\ NoneMeansAcyclic

(* The search ends on every graph.                                         *)
SearchEnds == <>(result # Running)
==============================================================================
