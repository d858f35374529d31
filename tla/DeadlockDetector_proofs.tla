------------------------ MODULE DeadlockDetector_proofs ------------------------
(***************************************************************************)
(* The depth-first search of detect_deadlock is sound and complete on      *)
(* every wait-for graph.                                                   *)
(*                                                                         *)
(* Soundness needs that the open activations form a path.  Completeness    *)
(* needs that the finished transactions are closed under waiting and hold  *)
(* no waiting set: adding a transaction all of whose blockers are finished *)
(* cannot create one.                                                      *)
(***************************************************************************)
EXTENDS DeadlockDetector, SequenceTheorems, TLAPS

(* The open activations are distinct transactions on a wait-for path, and  *)
(* what each has still to look at are blockers of its transaction.         *)
PathInv ==
  /\ \A x \in Xids : x \notin wait_for[x] /\ rest[x] \subseteq wait_for[x]
  /\ \A i, j \in DOMAIN path :
       /\ i # j => path[i] # path[j]
       /\ i <= j => Reaches(path[i], path[j])

(* What an open activation has looked at is finished, or is the activation *)
(* above it.                                                               *)
LookedAt(i) ==
  finished \cup rest[path[i]]
    \cup (IF i < Len(path) THEN {path[i + 1]} ELSE {})

FinishedInv ==
  /\ visited = finished \cup stack
  /\ \A x \in finished : wait_for[x] \subseteq finished
  /\ \A i \in DOMAIN path : wait_for[path[i]] \subseteq LookedAt(i)
  /\ \A C \in SUBSET finished : ~ WaitingSet(C)
  /\ \A x \in Xids : wait_for[x] # {} => x \in keys \cup finished \cup stack
  /\ result = NoCycle => keys = {} /\ path = <<>>

IInv == TypeOK /\ PathInv /\ FinishedInv /\ ReportedCycleIsReal

(* Reaches is reflexive, transitive, and contains the edges of the graph.  *)
LEMMA ReachesEdge ==
  ASSUME NEW x \in Xids, NEW y \in Xids, NEW z \in wait_for[y], Reaches(x, y),
         wait_for \in [Xids -> SUBSET Xids]
  PROVE  Reaches(x, z)
  BY DEF Reaches

(* A transaction reaches itself.                                           *)
LEMMA ReachesSelf == ASSUME NEW x \in Xids PROVE Reaches(x, x)
  BY DEF Reaches

(* Popping a nonempty path drops the innermost activation only.           *)
LEMMA PopProperties ==
  ASSUME path \in Seq(Xids), path # <<>>
  PROVE  /\ Len(path) \in Nat \ {0} /\ DOMAIN path = 1 .. Len(path) /\ Top \in Xids
         /\ Pop \in Seq(Xids)
         /\ Len(Pop) = Len(path) - 1 /\ DOMAIN Pop = 1 .. Len(path) - 1
         /\ \A i \in 1 .. Len(path) - 1 : Pop[i] = path[i]
<1>1. Len(path) \in Nat \ {0} /\ DOMAIN path = 1 .. Len(path) /\ Top \in Xids
  BY DEF Top
<1> DEFINE n == Len(path) - 1
<1>2. \A i \in 1 .. n : path[i] \in Xids
  BY <1>1
<1>3. n \in Nat /\ 1 \in Int /\ n \in Int
  BY <1>1
<1> HIDE DEF n
<1>4. /\ SubSeq(path, 1, n) \in Seq(Xids)
      /\ Len(SubSeq(path, 1, n)) = IF 1 <= n THEN n - 1 + 1 ELSE 0
      /\ \A i \in 1 .. n - 1 + 1 : SubSeq(path, 1, n)[i] = path[1 + i - 1]
  BY <1>2, <1>3, SubSeqProperties
<1>5. Pop = SubSeq(path, 1, n)
  BY DEF Pop, n
<1>6. Pop \in Seq(Xids) /\ Len(Pop) = n
  BY <1>3, <1>4, <1>5
<1>7. DOMAIN Pop = 1 .. n
  BY <1>6
<1>8. \A i \in 1 .. n : Pop[i] = path[i]
  BY <1>3, <1>4, <1>5
<1> QED
  BY <1>1, <1>6, <1>7, <1>8 DEF n

(* The invariant of the initial states.                                    *)
LEMMA InitIInv == Init => IInv
<1> SUFFICES ASSUME Init PROVE IInv
  OBVIOUS
<1>1. TypeOK
  BY DEF Init, TypeOK
<1>2. PathInv
  BY DEF Init, PathInv
<1>3. FinishedInv
  BY DetectorConstants DEF Init, FinishedInv, WaitingSet
<1>4. ReportedCycleIsReal
  BY DetectorConstants DEF Init, ReportedCycleIsReal
<1> QED
  BY <1>1, <1>2, <1>3, <1>4 DEF IInv

------------------------------------------------------------------------------
(* A key is entered, possibly for the second time.                         *)
LEMMA VisitKeyStep == IInv /\ VisitKey => IInv'
<1> SUFFICES ASSUME IInv, VisitKey PROVE IInv'
  OBVIOUS
<1>0. TypeOK /\ PathInv /\ FinishedInv /\ ReportedCycleIsReal
  BY DEF IInv
<1>1. PICK x \in keys : /\ keys' = keys \ {x} /\ Enter(x)
                        /\ rest' = [rest EXCEPT ![x] = wait_for[x]]
  BY DEF VisitKey
<1>2. /\ path = <<>> /\ stack = {} /\ x \in Xids
      /\ wait_for \in [Xids -> SUBSET Xids] /\ wait_for' = wait_for
      /\ rest \in [Xids -> SUBSET Xids]
      /\ finished' = finished /\ result' = result /\ result = Running
  BY <1>0, <1>1 DEF VisitKey, TypeOK
<1>3. path' = <<x>> /\ visited' = visited \cup {x} /\ stack' = {x}
  BY <1>1, <1>2 DEF Enter
<1>4. /\ path' \in Seq(Xids) /\ DOMAIN path' = {1} /\ Len(path') = 1 /\ path'[1] = x
      /\ rest' \in [Xids -> SUBSET Xids] /\ rest'[x] = wait_for[x]
      /\ \A y \in Xids \ {x} : rest'[y] = rest[y]
  BY <1>1, <1>2, <1>3
<1>5. TypeOK'
  BY <1>0, <1>1, <1>2, <1>3, <1>4 DEF TypeOK
<1>6. PathInv'
  <2>1. Reaches(x, x)'
    BY <1>2 DEF Reaches
  <2> QED
    BY <1>0, <1>2, <1>4, <2>1 DEF PathInv
<1>7. FinishedInv'
  <2>1. (visited = finished \cup stack)'
    BY <1>0, <1>2, <1>3 DEF FinishedInv
  <2>2. (\A y \in finished : wait_for[y] \subseteq finished)'
    BY <1>0, <1>2 DEF FinishedInv
  <2>3. (\A i \in DOMAIN path : wait_for[path[i]] \subseteq LookedAt(i))'
    BY <1>2, <1>4 DEF LookedAt
  <2>4. (\A C \in SUBSET finished : ~ WaitingSet(C))'
    BY <1>0, <1>2 DEF FinishedInv, WaitingSet
  <2>5. (\A y \in Xids : wait_for[y] # {} => y \in keys \cup finished \cup stack)'
    BY <1>0, <1>1, <1>2, <1>3 DEF FinishedInv
  <2>6. result' # NoCycle
    BY <1>2, DetectorConstants
  <2> QED
    BY <2>1, <2>2, <2>3, <2>4, <2>5, <2>6 DEF FinishedInv
<1>8. ReportedCycleIsReal'
  BY <1>2, DetectorConstants DEF ReportedCycleIsReal
<1> QED
  BY <1>5, <1>6, <1>7, <1>8 DEF IInv

(* The outer loop ends.                                                    *)
LEMMA GiveUpStep == IInv /\ GiveUp => IInv'
<1> SUFFICES ASSUME IInv, GiveUp PROVE IInv'
  OBVIOUS
<1>1. UNCHANGED <<wait_for, keys, visited, stack, path, rest, finished>>
      /\ result' = NoCycle /\ keys = {} /\ path = <<>>
  BY DEF GiveUp
<1>2. TypeOK'
  BY <1>1 DEF IInv, TypeOK
<1>3. PathInv'
  BY <1>1 DEF IInv, PathInv, Reaches
<1>4. FinishedInv'
  BY <1>1 DEF IInv, FinishedInv, LookedAt, WaitingSet
<1>5. ReportedCycleIsReal'
  BY <1>1, DetectorConstants DEF ReportedCycleIsReal
<1> QED
  BY <1>2, <1>3, <1>4, <1>5 DEF IInv

(* A blocker is entered: it extends the path by one edge.                  *)
LEMMA DescendStep == IInv /\ Descend => IInv'
<1> SUFFICES ASSUME IInv, Descend PROVE IInv'
  OBVIOUS
<1>0. TypeOK /\ PathInv /\ FinishedInv /\ ReportedCycleIsReal
  BY DEF IInv
<1>1. PICK b \in rest[Top] \ visited :
        Enter(b) /\ rest' = [rest EXCEPT ![Top] = @ \ {b}, ![b] = wait_for[b]]
  BY DEF Descend
<1> DEFINE n == Len(path)
<1>2. /\ path \in Seq(Xids) /\ path # <<>> /\ result = Running
      /\ wait_for \in [Xids -> SUBSET Xids] /\ wait_for' = wait_for
      /\ rest \in [Xids -> SUBSET Xids]
      /\ finished' = finished /\ result' = result /\ keys' = keys
  BY <1>0 DEF Descend, TypeOK
<1>3. n \in Nat \ {0} /\ DOMAIN path = 1 .. n /\ Top \in Xids /\ Top = path[n]
  BY <1>2, PopProperties DEF Top
<1>4. /\ b \in Xids /\ b \in wait_for[Top] /\ b \notin visited /\ b # Top
      /\ rest[Top] \subseteq wait_for[Top]
  BY <1>0, <1>1, <1>2, <1>3 DEF PathInv
<1>5. visited' = visited \cup {b} /\ stack' = stack \cup {b} /\ path' = Append(path, b)
  BY <1>1 DEF Enter
<1>6. /\ path' \in Seq(Xids) /\ Len(path') = n + 1 /\ DOMAIN path' = 1 .. n + 1
      /\ \A i \in 1 .. n : path'[i] = path[i]
      /\ path'[n + 1] = b
  BY <1>2, <1>3, <1>4, <1>5, AppendProperties
<1>7. /\ rest' \in [Xids -> SUBSET Xids]
      /\ rest'[Top] = rest[Top] \ {b} /\ rest'[b] = wait_for[b]
      /\ \A y \in Xids \ {Top, b} : rest'[y] = rest[y]
  BY <1>1, <1>2, <1>3, <1>4
<1>8. stack = {path[i] : i \in 1 .. n} /\ stack \subseteq visited
  BY <1>0, <1>3 DEF TypeOK, FinishedInv
<1>9. \A i \in 1 .. n : path[i] \in Xids /\ path[i] # b
  BY <1>2, <1>3, <1>4, <1>8
<1> HIDE DEF n
<1>10. TypeOK'
  <2>1. stack' = {path'[i] : i \in 1 .. n + 1}
    <3>1. ASSUME NEW y \in stack' PROVE y \in {path'[i] : i \in 1 .. n + 1}
      BY <1>3, <1>5, <1>6, <1>8
    <3>2. ASSUME NEW i \in 1 .. n + 1 PROVE path'[i] \in stack'
      BY <1>3, <1>5, <1>6, <1>8
    <3> QED
      BY <3>1, <3>2
  <2> QED
    BY <1>0, <1>2, <1>4, <1>5, <1>6, <1>7, <2>1 DEF TypeOK
<1>11. PathInv'
  <2>1. ASSUME NEW i \in 1 .. n PROVE Reaches(path[i], b)
    <3>1. path[i] \in Xids /\ Reaches(path[i], Top)
      BY <1>0, <1>2, <1>3 DEF PathInv
    <3> QED
      BY <1>2, <1>3, <1>4, <3>1, ReachesEdge
  <2>2. ASSUME NEW i \in 1 .. n + 1, NEW j \in 1 .. n + 1, i <= j
        PROVE  Reaches(path'[i], path'[j])
    <3>1. CASE j \in 1 .. n
      BY <1>0, <1>3, <1>6, <2>2, <3>1 DEF PathInv
    <3>2. CASE j = n + 1 /\ i \in 1 .. n
      BY <1>6, <2>1, <3>2
    <3>3. CASE j = n + 1 /\ i = n + 1
      BY <1>4, <1>6, <3>3, ReachesSelf
    <3> QED
      BY <1>3, <2>2, <3>1, <3>2, <3>3
  <2>3. \A x, y \in Xids : Reaches(x, y) => Reaches(x, y)'
    BY <1>2 DEF Reaches
  <2>4. ASSUME NEW i \in 1 .. n + 1, NEW j \in 1 .. n + 1, i # j
        PROVE  path'[i] # path'[j]
    BY <1>0, <1>3, <1>6, <1>9, <2>4 DEF PathInv
  <2>5. ASSUME NEW y \in Xids PROVE y \notin wait_for[y] /\ rest'[y] \subseteq wait_for[y]
    BY <1>0, <1>3, <1>4, <1>7 DEF PathInv
  <2>6. \A i \in 1 .. n + 1 : path'[i] \in Xids
    BY <1>6
  <2> QED
    BY <1>2, <1>6, <2>2, <2>3, <2>4, <2>5, <2>6 DEF PathInv
<1>12. FinishedInv'
  <2>1. (visited = finished \cup stack)'
    BY <1>0, <1>2, <1>5 DEF FinishedInv
  <2>2. ASSUME NEW i \in 1 .. n + 1
        PROVE  wait_for[path'[i]] \subseteq LookedAt(i)'
    <3>1. CASE i = n + 1
      BY <1>2, <1>3, <1>6, <1>7, <3>1 DEF LookedAt
    <3>2. CASE i = n
      <4>1. wait_for[Top] \subseteq finished \cup rest[Top]
        BY <1>0, <1>3 DEF FinishedInv, LookedAt, n
      <4>2. LookedAt(i)' = finished \cup (rest[Top] \ {b}) \cup {b}
        BY <1>2, <1>3, <1>6, <1>7, <3>2 DEF LookedAt
      <4> QED
        BY <1>3, <1>6, <3>2, <4>1, <4>2
    <3>3. CASE i \in 1 .. n /\ i # n
      <4>1. i + 1 \in 1 .. n /\ i < n /\ i < n + 1
        BY <1>3, <3>3
      <4>2. wait_for[path[i]] \subseteq finished \cup rest[path[i]] \cup {path[i + 1]}
        BY <1>0, <1>3, <3>3, <4>1 DEF FinishedInv, LookedAt, n
      <4>3. path[i] \in Xids \ {Top, b}
        BY <1>0, <1>3, <1>9, <3>3 DEF PathInv
      <4>4. LookedAt(i)' = finished \cup rest[path[i]] \cup {path[i + 1]}
        BY <1>2, <1>6, <1>7, <3>3, <4>1, <4>3 DEF LookedAt
      <4> QED
        BY <1>6, <3>3, <4>2, <4>4
    <3> QED
      BY <1>3, <3>1, <3>2, <3>3
  <2>3. (\A C \in SUBSET finished : ~ WaitingSet(C))'
    BY <1>0, <1>2 DEF FinishedInv, WaitingSet
  <2>4. (\A y \in Xids : wait_for[y] # {} => y \in keys \cup finished \cup stack)'
    BY <1>0, <1>2, <1>5 DEF FinishedInv
  <2>5. (\A y \in finished : wait_for[y] \subseteq finished)'
    BY <1>0, <1>2 DEF FinishedInv
  <2>6. result' # NoCycle
    BY <1>2, DetectorConstants
  <2> QED
    BY <1>2, <1>6, <2>1, <2>2, <2>3, <2>4, <2>5, <2>6 DEF FinishedInv
<1>13. ReportedCycleIsReal'
  BY <1>2, DetectorConstants DEF ReportedCycleIsReal
<1> QED
  BY <1>10, <1>11, <1>12, <1>13 DEF IInv

(* The end of an edge back into the path is found to reach its start.      *)
LEMMA CloseCycleStep == IInv /\ CloseCycle => IInv'
<1> SUFFICES ASSUME IInv, CloseCycle PROVE IInv'
  OBVIOUS
<1>0. TypeOK /\ PathInv /\ FinishedInv /\ ReportedCycleIsReal
  BY DEF IInv
<1>1. PICK b \in rest[Top] \cap visited \cap stack : result' = <<Top, b>>
  BY DEF CloseCycle
<1>2. UNCHANGED <<wait_for, keys, visited, stack, path, rest, finished>>
  BY DEF CloseCycle
<1>3. path \in Seq(Xids) /\ path # <<>>
  BY <1>0 DEF CloseCycle, TypeOK
<1>4. /\ Len(path) \in Nat \ {0} /\ DOMAIN path = 1 .. Len(path) /\ Top \in Xids
      /\ Top = path[Len(path)]
  BY <1>3, PopProperties DEF Top
<1>5. PICK i \in DOMAIN path : b = path[i]
  BY <1>0, <1>1 DEF TypeOK
<1>6. b \in Xids /\ b \in wait_for[Top] /\ Reaches(b, Top)
  BY <1>0, <1>1, <1>3, <1>4, <1>5 DEF PathInv
<1>7. TypeOK'
  BY <1>0, <1>1, <1>2, <1>4, <1>6 DEF TypeOK
<1>8. PathInv'
  BY <1>0, <1>2 DEF PathInv, Reaches
<1>9. FinishedInv'
  <2>1. result' # NoCycle
    BY <1>1, <1>4, <1>6, DetectorConstants
  <2> QED
    BY <1>0, <1>2, <2>1 DEF FinishedInv, LookedAt, WaitingSet
<1>10. ReportedCycleIsReal'
  <2>1. Reaches(b, Top)'
    BY <1>2, <1>6 DEF Reaches, Top
  <2>2. Top' = Top
    BY <1>2 DEF Top
  <2> QED
    BY <1>1, <1>2, <1>6, <2>1, <2>2 DEF ReportedCycleIsReal
<1> QED
  BY <1>7, <1>8, <1>9, <1>10 DEF IInv

(* A blocker that was visited and is off the path is finished.             *)
LEMMA SkipBlockerStep == IInv /\ SkipBlocker => IInv'
<1> SUFFICES ASSUME IInv, SkipBlocker PROVE IInv'
  OBVIOUS
<1>0. TypeOK /\ PathInv /\ FinishedInv /\ ReportedCycleIsReal
  BY DEF IInv
<1>1. PICK b \in (rest[Top] \cap visited) \ stack : rest' = [rest EXCEPT ![Top] = @ \ {b}]
  BY DEF SkipBlocker
<1>2. UNCHANGED <<wait_for, keys, visited, stack, path, finished, result>>
  BY DEF SkipBlocker
<1>3. /\ path \in Seq(Xids) /\ path # <<>>
      /\ rest \in [Xids -> SUBSET Xids] /\ wait_for \in [Xids -> SUBSET Xids]
  BY <1>0 DEF SkipBlocker, TypeOK
<1>4. DOMAIN path = 1 .. Len(path) /\ Top \in Xids
  BY <1>3, PopProperties
<1>5. b \in finished
  BY <1>0, <1>1 DEF FinishedInv
<1>6. /\ rest' \in [Xids -> SUBSET Xids]
      /\ \A y \in Xids : rest'[y] \subseteq rest[y] /\ rest[y] \subseteq rest'[y] \cup {b}
  BY <1>1, <1>3, <1>4
<1>7. TypeOK'
  BY <1>0, <1>2, <1>6 DEF TypeOK
<1>8. PathInv'
  BY <1>0, <1>2, <1>6 DEF PathInv, Reaches
<1>9. FinishedInv'
  <2>1. ASSUME NEW i \in DOMAIN path PROVE wait_for[path[i]] \subseteq LookedAt(i)'
    <3>1. path[i] \in Xids
      BY <1>3
    <3>2. LookedAt(i) \subseteq LookedAt(i)'
      BY <1>2, <1>5, <1>6, <3>1 DEF LookedAt
    <3> QED
      BY <1>0, <3>2 DEF FinishedInv
  <2> QED
    BY <1>0, <1>2, <2>1 DEF FinishedInv, WaitingSet
<1>10. ReportedCycleIsReal'
  BY <1>0, <1>2 DEF ReportedCycleIsReal, Reaches
<1> QED
  BY <1>7, <1>8, <1>9, <1>10 DEF IInv

(* A transaction whose blockers are all finished joins the finished ones;  *)
(* no waiting set can run through it.                                      *)
LEMMA ReturnStep == IInv /\ Return => IInv'
<1> SUFFICES ASSUME IInv, Return PROVE IInv'
  OBVIOUS
<1>0. TypeOK /\ PathInv /\ FinishedInv /\ ReportedCycleIsReal
  BY DEF IInv
<1> DEFINE n == Len(path)
<1>1. /\ rest[Top] = {} /\ path # <<>> /\ result = Running /\ path' = Pop
      /\ stack' = stack \ {Top} /\ finished' = finished \cup {Top}
      /\ UNCHANGED <<wait_for, keys, visited, rest, result>>
  BY DEF Return
<1>2. /\ path \in Seq(Xids) /\ rest \in [Xids -> SUBSET Xids]
      /\ wait_for \in [Xids -> SUBSET Xids]
  BY <1>0 DEF TypeOK
<1>3. /\ n \in Nat \ {0} /\ DOMAIN path = 1 .. n /\ Top \in Xids /\ Top = path[n]
      /\ path' \in Seq(Xids) /\ Len(path') = n - 1 /\ DOMAIN path' = 1 .. n - 1
      /\ \A i \in 1 .. n - 1 : path'[i] = path[i]
  BY <1>1, <1>2, PopProperties DEF Top
<1>4. wait_for[Top] \subseteq finished
  BY <1>0, <1>1, <1>3 DEF FinishedInv, LookedAt
<1> HIDE DEF n
<1>5. stack = {path[i] : i \in 1 .. n} /\ Top \in stack
  <2>1. stack = {path[i] : i \in 1 .. n}
    BY <1>0, <1>3 DEF TypeOK
  <2>2. n \in 1 .. n
    BY <1>3
  <2> QED
    BY <1>3, <2>1, <2>2
<1>6. \A i \in 1 .. n - 1 : path[i] \in Xids /\ path[i] # Top
  <2> TAKE i \in 1 .. n - 1
  <2>1. i \in 1 .. n /\ n \in 1 .. n /\ i # n
    BY <1>3
  <2> QED
    BY <1>0, <1>2, <1>3, <2>1 DEF PathInv
<1>7. TypeOK'
  <2>1. stack' = {path'[i] : i \in 1 .. n - 1}
    <3>1. ASSUME NEW y \in stack' PROVE y \in {path'[i] : i \in 1 .. n - 1}
      <4>1. PICK i \in 1 .. n : y = path[i]
        BY <1>1, <1>5
      <4>2. i # n
        BY <1>1, <1>3, <4>1
      <4> QED
        BY <1>3, <4>1, <4>2
    <3>2. ASSUME NEW i \in 1 .. n - 1 PROVE path'[i] \in stack'
      BY <1>1, <1>3, <1>5, <1>6
    <3> QED
      BY <3>1, <3>2
  <2> QED
    BY <1>0, <1>1, <1>3, <2>1 DEF TypeOK
<1>8. PathInv'
  <2>1. \A i, j \in 1 .. n - 1 :
          /\ i # j => path'[i] # path'[j]
          /\ i <= j => Reaches(path'[i], path'[j])
    BY <1>0, <1>3 DEF PathInv
  <2>2. \A x, y \in Xids : Reaches(x, y) => Reaches(x, y)'
    BY <1>1 DEF Reaches
  <2>3. \A i \in 1 .. n - 1 : path'[i] \in Xids
    BY <1>3, <1>6
  <2> QED
    BY <1>0, <1>1, <1>3, <2>1, <2>2, <2>3 DEF PathInv
<1>9. FinishedInv'
  <2>1. (visited = finished \cup stack)'
    BY <1>0, <1>1, <1>5 DEF FinishedInv
  <2>2. (\A x \in finished : wait_for[x] \subseteq finished)'
    BY <1>0, <1>1, <1>4 DEF FinishedInv
  <2>3. ASSUME NEW i \in 1 .. n - 1 PROVE wait_for[path'[i]] \subseteq LookedAt(i)'
    <3>1. i < n /\ i \in 1 .. n /\ i + 1 \in 1 .. n
      BY <1>3
    <3>2. wait_for[path[i]] \subseteq finished \cup rest[path[i]] \cup {path[i + 1]}
      BY <1>0, <1>3, <3>1 DEF FinishedInv, LookedAt, n
    <3>3. path'[i] = path[i] /\ rest'[path'[i]] = rest[path[i]]
      BY <1>1, <1>3
    <3>4. path[i + 1] \in LookedAt(i)'
      <4>1. CASE i = n - 1
        BY <1>1, <1>3, <4>1 DEF LookedAt
      <4>2. CASE i # n - 1
        <5>1. i < n - 1 /\ i + 1 \in 1 .. n - 1
          BY <1>3, <4>2
        <5> QED
          BY <1>3, <5>1 DEF LookedAt
      <4> QED
        BY <4>1, <4>2
    <3>5. finished \cup rest[path[i]] \subseteq LookedAt(i)'
      BY <1>1, <3>3 DEF LookedAt
    <3> QED
      BY <3>2, <3>3, <3>4, <3>5
  <2>4. ASSUME NEW C \in SUBSET (finished \cup {Top}), WaitingSet(C) PROVE FALSE
    <3>1. \A D \in SUBSET finished : ~ WaitingSet(D)
      BY <1>0 DEF FinishedInv
    <3>2. Top \in C /\ Top \notin finished
      BY <2>4, <3>1
    <3>3. ASSUME NEW y \in C \ {Top} PROVE wait_for[y] \cap (C \ {Top}) # {}
      <4>1. y \in finished /\ wait_for[y] \subseteq finished
        BY <1>0 DEF FinishedInv
      <4>2. wait_for[y] \cap C # {}
        BY <2>4 DEF WaitingSet
      <4> QED
        BY <3>2, <4>1, <4>2
    <3>4. C \ {Top} # {}
      <4>1. wait_for[Top] \cap C # {}
        BY <2>4, <3>2 DEF WaitingSet
      <4> QED
        BY <1>4, <3>2, <4>1
    <3>5. WaitingSet(C \ {Top}) /\ C \ {Top} \in SUBSET finished
      BY <3>3, <3>4 DEF WaitingSet
    <3> QED
      BY <3>1, <3>5
  <2>5. (\A C \in SUBSET finished : ~ WaitingSet(C))'
    BY <1>1, <2>4 DEF WaitingSet
  <2>6. (\A y \in Xids : wait_for[y] # {} => y \in keys \cup finished \cup stack)'
    BY <1>0, <1>1 DEF FinishedInv
  <2>7. result' # NoCycle
    BY <1>1, DetectorConstants
  <2> QED
    BY <1>1, <1>3, <2>1, <2>2, <2>3, <2>5, <2>6, <2>7 DEF FinishedInv
<1>10. ReportedCycleIsReal'
  BY <1>1, DetectorConstants DEF ReportedCycleIsReal
<1> QED
  BY <1>7, <1>8, <1>9, <1>10 DEF IInv

------------------------------------------------------------------------------
(* Every step of the search preserves the invariant.                       *)
LEMMA IInvStep == IInv /\ [Next]_vars => IInv'
<1>1. IInv /\ UNCHANGED vars => IInv'
  BY DEF vars, IInv, TypeOK, PathInv, FinishedInv, ReportedCycleIsReal, Reaches,
         LookedAt, WaitingSet
<1> QED
  BY <1>1, VisitKeyStep, GiveUpStep, DescendStep, CloseCycleStep, SkipBlockerStep,
     ReturnStep DEF Next, Done

(* The search stays within the graph and its path set is exact.            *)
THEOREM SearchTypeCorrect == Spec => []TypeOK
<1>1. IInv => TypeOK
  BY DEF IInv
<1> QED
  BY <1>1, InitIInv, IInvStep, PTL DEF Spec

(* A reported pair is an edge on a cycle of the wait-for graph.            *)
THEOREM SearchSound == Spec => []ReportedCycleIsReal
<1>1. IInv => ReportedCycleIsReal
  BY DEF IInv
<1> QED
  BY <1>1, InitIInv, IInvStep, PTL DEF Spec

(* None is returned only for a graph without a waiting set.                *)
THEOREM SearchComplete == Spec => []NoneMeansAcyclic
<1>1. IInv => NoneMeansAcyclic
  <2> SUFFICES ASSUME IInv, result = NoCycle, NEW C \in SUBSET Xids, WaitingSet(C)
               PROVE  FALSE
    BY DEF NoneMeansAcyclic
  <2>1. keys = {} /\ path = <<>> /\ stack = {}
    BY DEF IInv, FinishedInv, TypeOK
  <2>2. C \subseteq finished
    BY <2>1 DEF IInv, FinishedInv, WaitingSet
  <2> QED
    BY <2>2 DEF IInv, FinishedInv
<1> QED
  BY <1>1, InitIInv, IInvStep, PTL DEF Spec

(* The two halves together: the search decides deadlock, for every graph.  *)
THEOREM SearchDecides == Spec => []SearchExact
<1>1. ReportedCycleIsReal /\ NoneMeansAcyclic => SearchExact
  BY DEF SearchExact
<1> QED
  BY <1>1, SearchSound, SearchComplete, PTL
==============================================================================
