---------------------------- MODULE Services_proofs ----------------------------
(***************************************************************************)
(* Proofs about three small parts of the server that share no state: the   *)
(* catalog and its cache (Catalog), the parallel executor (Parallel) and   *)
(* the notification queues (NotifyManager), each for any number of clients,*)
(* workers and listeners.                                                  *)
(***************************************************************************)
EXTENDS Catalog, Parallel, NotifyManager, TLAPS

------------------------------------------------------------------------------
(* The catalog and its cache                                               *)

Oids == Nat \ {0}
Below(oid) == oid \in Oids /\ oid < next_oid
CallSteps == {"idle", "register", "select", "remove", "unregister", "index"}
CallOps == {"none", "create", "with", "drop", "index"}

CatalogTypes ==
  /\ next_oid \in Oids
  /\ \A r \in relations : Below(r.oid)
  /\ \A oid \in cached : Below(oid)
  /\ \A i \in indexes : Below(i.root)
  /\ call \in [Clients -> [pc : CallSteps, op : CallOps, oid : Oids \cup {NoOid},
                           name : RelNames \cup {"none"}, found : Oids \cup {NoOid}]]

InCatalog(oid) == \E r \in relations : r.oid = oid

(* What a statement knows of its relation at each step.                    *)
CallInv(c) ==
  LET k == call[c] IN
  /\ k.pc = "idle" <=> k.op = "none"
  /\ k.pc # "idle" => Below(k.oid)
  /\ k.pc = "register" => /\ k.op \in {"create", "with"}
                          /\ InCatalog(k.oid) \/ k.oid \in overlapped
                          /\ \A i \in indexes : i.root # k.oid
  /\ k.pc = "select" => k.op = "with"
  /\ k.pc = "index" => k.op = "index"
  /\ k.pc \in {"remove", "unregister"} => k.op \in {"with", "drop"}
  /\ k.pc = "unregister" => ~ InCatalog(k.oid)
  /\ k.op = "with" =>
       /\ \A d \in Clients \ {c} : call[d].op = "with" => call[d].oid # k.oid
       /\ k.pc \in {"register", "select"} =>
            \/ \E r \in relations : r.oid = k.oid /\ r.name = k.name
            \/ k.oid \in droppedRels

CatalogInv == CatalogTypes /\ (\A c \in Clients : CallInv(c)) /\ CatalogSound

LEMMA CatalogTypesStep ==
  ASSUME CatalogTypes, \A c \in Clients : CallInv(c), [CatalogNext]_catalogVars
  PROVE  CatalogTypes'
<1> USE CatalogConstants DEF CatalogTypes, Below, Oids, CallSteps, CallOps, Goto, NoCall, Named
<1>1. ASSUME NEW c \in Clients, NEW n \in RelNames, NEW op \in {"create", "with"}, CreateRelation(c, n, op)
      PROVE  CatalogTypes'
  BY <1>1 DEF CallInv, CreateRelation
<1>2. ASSUME NEW c \in Clients, RegisterRelation(c)
      PROVE  CatalogTypes'
  BY <1>2 DEF CallInv, RegisterRelation
<1>3. ASSUME NEW c \in Clients, SelectFromWith(c)
      PROVE  CatalogTypes'
  <2>0. PICK oid \in IF Named(call[c].name) = {} THEN {NoOid} ELSE {r.oid : r \in Named(call[c].name)} :
               call' = [call EXCEPT ![c].pc = "remove", ![c].found = oid]
    BY <1>3 DEF SelectFromWith
  <2>1. oid \in Oids \cup {NoOid}
    <3>1. CASE Named(call[c].name) = {}
      BY <2>0, <3>1 DEF Named
    <3>2. CASE Named(call[c].name) # {}
      BY <2>0, <3>2 DEF Named
    <3> QED
      BY <3>1, <3>2
  <2>2. call[c] \in [pc : CallSteps, op : CallOps, oid : Oids \cup {NoOid},
                     name : RelNames \cup {"none"}, found : Oids \cup {NoOid}]
    OBVIOUS
  <2>3. /\ call'[c] \in [pc : CallSteps, op : CallOps, oid : Oids \cup {NoOid},
                         name : RelNames \cup {"none"}, found : Oids \cup {NoOid}]
        /\ call'[c].pc = "remove" /\ call'[c].op = call[c].op /\ call'[c].oid = call[c].oid
        /\ call'[c].found = oid
    <3>1. call'[c] = [call[c] EXCEPT !.pc = "remove", !.found = oid]
      BY <2>0
    <3> HIDE DEF Oids
    <3> QED
      BY <2>1, <2>2, <3>1
  <2>4. /\ call' \in [Clients -> [pc : CallSteps, op : CallOps, oid : Oids \cup {NoOid},
                                  name : RelNames \cup {"none"}, found : Oids \cup {NoOid}]]
        /\ \A e \in Clients \ {c} : call'[e] = call[e]
    BY <2>0, <2>3
  <2>5. UNCHANGED <<relations, cached, indexes, next_oid, overlapped, droppedRels>>
    BY <1>3 DEF SelectFromWith
  <2> QED
    BY <1>3, <2>3, <2>4, <2>5 DEF CallInv, SelectFromWith
<1>4. ASSUME NEW c \in Clients, NEW n \in RelNames, DropFind(c, n)
      PROVE  CatalogTypes'
  BY <1>4 DEF CallInv, DropFind
<1>5. ASSUME NEW c \in Clients, DeleteRelation(c)
      PROVE  CatalogTypes'
  BY <1>5 DEF CallInv, DeleteRelation
<1>6. ASSUME NEW c \in Clients, UnregisterRelation(c)
      PROVE  CatalogTypes'
  BY <1>6 DEF CallInv, UnregisterRelation
<1>7. ASSUME NEW c \in Clients, NEW n \in RelNames, IndexFind(c, n)
      PROVE  CatalogTypes'
  BY <1>7 DEF CallInv, IndexFind
<1>8. ASSUME NEW c \in Clients, RegisterIndex(c)
      PROVE  CatalogTypes'
  BY <1>8 DEF CallInv, RegisterIndex
<1>9. CASE UNCHANGED catalogVars
  BY <1>9 DEF CallInv, catalogVars
<1> QED
  BY <1>1, <1>2, <1>3, <1>4, <1>5, <1>6, <1>7, <1>8, <1>9 DEF CatalogNext

LEMMA CallInvStep ==
  ASSUME CatalogTypes, \A c \in Clients : CallInv(c), [CatalogNext]_catalogVars, NEW d \in Clients
  PROVE  CallInv(d)'
<1> USE CatalogConstants DEF CatalogTypes, Below, Oids, CallSteps, CallOps, Goto, NoCall, Named, InCatalog
<1>1. ASSUME NEW c \in Clients, NEW n \in RelNames, NEW op \in {"create", "with"}, CreateRelation(c, n, op)
      PROVE  CallInv(d)'
  <2>1. next_oid \in Oids /\ next_oid' = next_oid + 1
    BY <1>1 DEF CreateRelation
  <2>2. relations' = relations \cup {[oid |-> next_oid, name |-> n, columns |-> op = "create"]}
    BY <1>1 DEF CreateRelation
  <2>3. CASE d = c
    <3>1. call'[d] = [pc |-> "register", op |-> op, oid |-> next_oid, name |-> n, found |-> NoOid]
      BY <1>1, <2>3 DEF CreateRelation
    <3>2. \A i \in indexes' : i.root # next_oid
      BY <1>1 DEF CreateRelation
    <3>3. \A e \in Clients \ {c} : call'[e] = call[e]
      BY <1>1 DEF CreateRelation
    <3>4. \A e \in Clients : call[e].pc # "idle" => call[e].oid # next_oid
      BY DEF CallInv
    <3>5. \A e \in Clients : call[e].op = "with" => call[e].pc # "idle"
      BY DEF CallInv
    <3>6. \E r \in relations' : r.oid = next_oid /\ r.name = n
      <4> DEFINE new == [oid |-> next_oid, name |-> n, columns |-> op = "create"]
      <4>1. new \in relations' /\ new.oid = next_oid /\ new.name = n
        BY <2>2
      <4> QED
        BY <4>1
    <3> QED
      BY <2>1, <2>3, <3>1, <3>2, <3>3, <3>4, <3>5, <3>6 DEF CallInv
  <2>4. CASE d # c
    <3>1. call'[d] = call[d]
      BY <1>1, <2>4 DEF CreateRelation
    <3>2. call[d].pc # "idle" => call[d].oid # next_oid
      BY DEF CallInv
    <3>3. \A e \in Clients : call'[e] = call[e] \/ call'[e].oid = next_oid
      BY <1>1 DEF CreateRelation
    <3> QED
      BY <1>1, <2>1, <2>2, <2>4, <3>1, <3>2, <3>3 DEF CallInv, CreateRelation
  <2> QED
    BY <2>3, <2>4
<1>2. ASSUME NEW c \in Clients, RegisterRelation(c)
      PROVE  CallInv(d)'
  BY <1>2 DEF CallInv, RegisterRelation
<1>3. ASSUME NEW c \in Clients, SelectFromWith(c)
      PROVE  CallInv(d)'
  <2>0. PICK oid \in IF Named(call[c].name) = {} THEN {NoOid} ELSE {r.oid : r \in Named(call[c].name)} :
               call' = [call EXCEPT ![c].pc = "remove", ![c].found = oid]
    BY <1>3 DEF SelectFromWith
  <2>1. oid \in Oids \cup {NoOid}
    <3>1. CASE Named(call[c].name) = {}
      BY <2>0, <3>1 DEF Named
    <3>2. CASE Named(call[c].name) # {}
      BY <2>0, <3>2 DEF Named
    <3> QED
      BY <3>1, <3>2
  <2>2. call[c] \in [pc : CallSteps, op : CallOps, oid : Oids \cup {NoOid},
                     name : RelNames \cup {"none"}, found : Oids \cup {NoOid}]
    OBVIOUS
  <2>3. /\ call'[c] \in [pc : CallSteps, op : CallOps, oid : Oids \cup {NoOid},
                         name : RelNames \cup {"none"}, found : Oids \cup {NoOid}]
        /\ call'[c].pc = "remove" /\ call'[c].op = call[c].op /\ call'[c].oid = call[c].oid
        /\ call'[c].found = oid
    <3>1. call'[c] = [call[c] EXCEPT !.pc = "remove", !.found = oid]
      BY <2>0
    <3> HIDE DEF Oids
    <3> QED
      BY <2>1, <2>2, <3>1
  <2>4. /\ call' \in [Clients -> [pc : CallSteps, op : CallOps, oid : Oids \cup {NoOid},
                                  name : RelNames \cup {"none"}, found : Oids \cup {NoOid}]]
        /\ \A e \in Clients \ {c} : call'[e] = call[e]
    BY <2>0, <2>3
  <2>5. UNCHANGED <<relations, cached, indexes, next_oid, overlapped, droppedRels>>
    BY <1>3 DEF SelectFromWith
  <2> QED
    BY <1>3, <2>3, <2>4, <2>5 DEF CallInv, SelectFromWith
<1>4. ASSUME NEW c \in Clients, NEW n \in RelNames, DropFind(c, n)
      PROVE  CallInv(d)'
  BY <1>4 DEF CallInv, DropFind
<1>5. ASSUME NEW c \in Clients, DeleteRelation(c)
      PROVE  CallInv(d)'
  BY <1>5 DEF CallInv, DeleteRelation
<1>6. ASSUME NEW c \in Clients, UnregisterRelation(c)
      PROVE  CallInv(d)'
  BY <1>6 DEF CallInv, UnregisterRelation
<1>7. ASSUME NEW c \in Clients, NEW n \in RelNames, IndexFind(c, n)
      PROVE  CallInv(d)'
  BY <1>7 DEF CallInv, IndexFind
<1>8. ASSUME NEW c \in Clients, RegisterIndex(c)
      PROVE  CallInv(d)'
  BY <1>8 DEF CallInv, RegisterIndex
<1>9. CASE UNCHANGED catalogVars
  BY <1>9 DEF CallInv, catalogVars
<1> QED
  BY <1>1, <1>2, <1>3, <1>4, <1>5, <1>6, <1>7, <1>8, <1>9 DEF CatalogNext

RelationsCached == \A r \in relations : r.oid \in cached \/ Executing("register", r.oid)
CachedRelations == \A oid \in cached : InCatalog(oid) \/ Executing("unregister", oid) \/ oid \in overlapped
WithEnds == \A r \in relations : ~ r.columns => \E c \in Clients : call[c].op = "with" /\ call[c].oid = r.oid
WithFound == \A c \in Clients : call[c].op = "with" /\ call[c].pc \in {"remove", "unregister"} =>
                   call[c].found # NoOid \/ call[c].oid \in droppedRels
RootsApart == \A i \in indexes : i.root \notin cached /\ \A j \in indexes : i.root = j.root => i = j

LEMMA RelationsCachedStep ==
  ASSUME CatalogTypes, \A c \in Clients : CallInv(c), RelationsCached, [CatalogNext]_catalogVars
  PROVE  RelationsCached'
<1> USE CatalogConstants DEF RelationsCached, CatalogTypes, Below, Oids, CallSteps, CallOps, Goto, NoCall, Named, InCatalog, Executing, CallInv
<1>1. ASSUME NEW c \in Clients, NEW n \in RelNames, NEW op \in {"create", "with"}, CreateRelation(c, n, op)
      PROVE  RelationsCached'
  BY <1>1 DEF CreateRelation
<1>2. ASSUME NEW c \in Clients, RegisterRelation(c)
      PROVE  RelationsCached'
  BY <1>2 DEF RegisterRelation
<1>3. ASSUME NEW c \in Clients, SelectFromWith(c)
      PROVE  RelationsCached'
  BY <1>3 DEF SelectFromWith
<1>4. ASSUME NEW c \in Clients, NEW n \in RelNames, DropFind(c, n)
      PROVE  RelationsCached'
  BY <1>4 DEF DropFind
<1>5. ASSUME NEW c \in Clients, DeleteRelation(c)
      PROVE  RelationsCached'
  BY <1>5 DEF DeleteRelation
<1>6. ASSUME NEW c \in Clients, UnregisterRelation(c)
      PROVE  RelationsCached'
  BY <1>6 DEF UnregisterRelation
<1>7. ASSUME NEW c \in Clients, NEW n \in RelNames, IndexFind(c, n)
      PROVE  RelationsCached'
  BY <1>7 DEF IndexFind
<1>8. ASSUME NEW c \in Clients, RegisterIndex(c)
      PROVE  RelationsCached'
  BY <1>8 DEF RegisterIndex
<1>9. CASE UNCHANGED catalogVars
  BY <1>9 DEF catalogVars
<1> QED
  BY <1>1, <1>2, <1>3, <1>4, <1>5, <1>6, <1>7, <1>8, <1>9 DEF CatalogNext

LEMMA CachedRelationsStep ==
  ASSUME CatalogTypes, \A c \in Clients : CallInv(c), CachedRelations, [CatalogNext]_catalogVars
  PROVE  CachedRelations'
<1> USE CatalogConstants DEF CachedRelations, CatalogTypes, Below, Oids, CallSteps, CallOps, Goto, NoCall, Named, InCatalog, Executing, CallInv
<1>1. ASSUME NEW c \in Clients, NEW n \in RelNames, NEW op \in {"create", "with"}, CreateRelation(c, n, op)
      PROVE  CachedRelations'
  BY <1>1 DEF CreateRelation
<1>2. ASSUME NEW c \in Clients, RegisterRelation(c)
      PROVE  CachedRelations'
  BY <1>2 DEF RegisterRelation
<1>3. ASSUME NEW c \in Clients, SelectFromWith(c)
      PROVE  CachedRelations'
  BY <1>3 DEF SelectFromWith
<1>4. ASSUME NEW c \in Clients, NEW n \in RelNames, DropFind(c, n)
      PROVE  CachedRelations'
  BY <1>4 DEF DropFind
<1>5. ASSUME NEW c \in Clients, DeleteRelation(c)
      PROVE  CachedRelations'
  BY <1>5 DEF DeleteRelation
<1>6. ASSUME NEW c \in Clients, UnregisterRelation(c)
      PROVE  CachedRelations'
  BY <1>6 DEF UnregisterRelation
<1>7. ASSUME NEW c \in Clients, NEW n \in RelNames, IndexFind(c, n)
      PROVE  CachedRelations'
  BY <1>7 DEF IndexFind
<1>8. ASSUME NEW c \in Clients, RegisterIndex(c)
      PROVE  CachedRelations'
  BY <1>8 DEF RegisterIndex
<1>9. CASE UNCHANGED catalogVars
  BY <1>9 DEF catalogVars
<1> QED
  BY <1>1, <1>2, <1>3, <1>4, <1>5, <1>6, <1>7, <1>8, <1>9 DEF CatalogNext

LEMMA WithEndsStep ==
  ASSUME CatalogTypes, \A c \in Clients : CallInv(c), WithEnds, [CatalogNext]_catalogVars
  PROVE  WithEnds'
<1> USE CatalogConstants DEF WithEnds, CatalogTypes, Below, Oids, CallSteps, CallOps, Goto, NoCall, Named, InCatalog, Executing, CallInv
<1>1. ASSUME NEW c \in Clients, NEW n \in RelNames, NEW op \in {"create", "with"}, CreateRelation(c, n, op)
      PROVE  WithEnds'
  <2> SUFFICES ASSUME NEW r \in relations', ~ r.columns
               PROVE  \E e \in Clients : call'[e].op = "with" /\ call'[e].oid = r.oid
    OBVIOUS
  <2>1. CASE r \in relations
    <3>1. PICK e \in Clients : call[e].op = "with" /\ call[e].oid = r.oid
      BY <2>1
    <3>2. e # c
      BY <1>1, <3>1 DEF CreateRelation
    <3> QED
      BY <1>1, <3>1, <3>2 DEF CreateRelation
  <2>2. CASE r = [oid |-> next_oid, name |-> n, columns |-> op = "create"]
    <3>1. op = "with"
      BY <2>2, Zenon
    <3> QED
      BY <1>1, <2>2, <3>1 DEF CreateRelation
  <2> QED
    BY <1>1, <2>1, <2>2 DEF CreateRelation
<1>2. ASSUME NEW c \in Clients, RegisterRelation(c)
      PROVE  WithEnds'
  BY <1>2 DEF RegisterRelation
<1>3. ASSUME NEW c \in Clients, SelectFromWith(c)
      PROVE  WithEnds'
  BY <1>3 DEF SelectFromWith
<1>4. ASSUME NEW c \in Clients, NEW n \in RelNames, DropFind(c, n)
      PROVE  WithEnds'
  BY <1>4 DEF DropFind
<1>5. ASSUME NEW c \in Clients, DeleteRelation(c)
      PROVE  WithEnds'
  BY <1>5 DEF DeleteRelation
<1>6. ASSUME NEW c \in Clients, UnregisterRelation(c)
      PROVE  WithEnds'
  BY <1>6 DEF UnregisterRelation
<1>7. ASSUME NEW c \in Clients, NEW n \in RelNames, IndexFind(c, n)
      PROVE  WithEnds'
  BY <1>7 DEF IndexFind
<1>8. ASSUME NEW c \in Clients, RegisterIndex(c)
      PROVE  WithEnds'
  BY <1>8 DEF RegisterIndex
<1>9. CASE UNCHANGED catalogVars
  BY <1>9 DEF catalogVars
<1> QED
  BY <1>1, <1>2, <1>3, <1>4, <1>5, <1>6, <1>7, <1>8, <1>9 DEF CatalogNext

LEMMA WithFoundStep ==
  ASSUME CatalogTypes, \A c \in Clients : CallInv(c), WithFound, [CatalogNext]_catalogVars
  PROVE  WithFound'
<1> USE CatalogConstants DEF WithFound, CatalogTypes, Below, Oids, CallSteps, CallOps, Goto, NoCall, Named, InCatalog, Executing, CallInv
<1>1. ASSUME NEW c \in Clients, NEW n \in RelNames, NEW op \in {"create", "with"}, CreateRelation(c, n, op)
      PROVE  WithFound'
  BY <1>1 DEF CreateRelation
<1>2. ASSUME NEW c \in Clients, RegisterRelation(c)
      PROVE  WithFound'
  BY <1>2 DEF RegisterRelation
<1>3. ASSUME NEW c \in Clients, SelectFromWith(c)
      PROVE  WithFound'
  BY <1>3 DEF SelectFromWith
<1>4. ASSUME NEW c \in Clients, NEW n \in RelNames, DropFind(c, n)
      PROVE  WithFound'
  BY <1>4 DEF DropFind
<1>5. ASSUME NEW c \in Clients, DeleteRelation(c)
      PROVE  WithFound'
  BY <1>5 DEF DeleteRelation
<1>6. ASSUME NEW c \in Clients, UnregisterRelation(c)
      PROVE  WithFound'
  BY <1>6 DEF UnregisterRelation
<1>7. ASSUME NEW c \in Clients, NEW n \in RelNames, IndexFind(c, n)
      PROVE  WithFound'
  BY <1>7 DEF IndexFind
<1>8. ASSUME NEW c \in Clients, RegisterIndex(c)
      PROVE  WithFound'
  BY <1>8 DEF RegisterIndex
<1>9. CASE UNCHANGED catalogVars
  BY <1>9 DEF catalogVars
<1> QED
  BY <1>1, <1>2, <1>3, <1>4, <1>5, <1>6, <1>7, <1>8, <1>9 DEF CatalogNext

LEMMA RootsApartStep ==
  ASSUME CatalogTypes, \A c \in Clients : CallInv(c), RootsApart, [CatalogNext]_catalogVars
  PROVE  RootsApart'
<1> USE CatalogConstants DEF RootsApart, CatalogTypes, Below, Oids, CallSteps, CallOps, Goto, NoCall, Named, InCatalog, Executing, CallInv
<1>1. ASSUME NEW c \in Clients, NEW n \in RelNames, NEW op \in {"create", "with"}, CreateRelation(c, n, op)
      PROVE  RootsApart'
  BY <1>1 DEF CreateRelation
<1>2. ASSUME NEW c \in Clients, RegisterRelation(c)
      PROVE  RootsApart'
  BY <1>2 DEF RegisterRelation
<1>3. ASSUME NEW c \in Clients, SelectFromWith(c)
      PROVE  RootsApart'
  BY <1>3 DEF SelectFromWith
<1>4. ASSUME NEW c \in Clients, NEW n \in RelNames, DropFind(c, n)
      PROVE  RootsApart'
  BY <1>4 DEF DropFind
<1>5. ASSUME NEW c \in Clients, DeleteRelation(c)
      PROVE  RootsApart'
  BY <1>5 DEF DeleteRelation
<1>6. ASSUME NEW c \in Clients, UnregisterRelation(c)
      PROVE  RootsApart'
  BY <1>6 DEF UnregisterRelation
<1>7. ASSUME NEW c \in Clients, NEW n \in RelNames, IndexFind(c, n)
      PROVE  RootsApart'
  BY <1>7 DEF IndexFind
<1>8. ASSUME NEW c \in Clients, RegisterIndex(c)
      PROVE  RootsApart'
  BY <1>8 DEF RegisterIndex
<1>9. CASE UNCHANGED catalogVars
  BY <1>9 DEF catalogVars
<1> QED
  BY <1>1, <1>2, <1>3, <1>4, <1>5, <1>6, <1>7, <1>8, <1>9 DEF CatalogNext

(* The catalog's map and the cache's agree up to the statement that is     *)
(* between them, and nothing of a WITH clause outlives it, for any number  *)
(* of connections, names and object ids.                                   *)
THEOREM CatalogIsSound == CatalogSpec => []CatalogSound
<1>1. CatalogInit => CatalogInv
  BY CatalogConstants DEF CatalogInit, CatalogInv, CatalogTypes, CallInv, CatalogSound, InCatalog, Executing,
     SystemRelations, FirstOid, NoCall, Below, Oids, CallSteps, CallOps
<1>2. CatalogInv /\ [CatalogNext]_catalogVars => CatalogInv'
  <2> SUFFICES ASSUME CatalogInv, [CatalogNext]_catalogVars
               PROVE  CatalogInv'
    OBVIOUS
  <2>1. CatalogTypes /\ \A c \in Clients : CallInv(c)
    BY DEF CatalogInv
  <2>2. RelationsCached /\ CachedRelations /\ WithEnds /\ WithFound /\ RootsApart
    BY DEF CatalogInv, CatalogSound, RelationsCached, CachedRelations, WithEnds, WithFound, RootsApart, InCatalog
  <2>3. CatalogTypes' /\ \A c \in Clients : CallInv(c)'
    BY <2>1, CatalogTypesStep, CallInvStep
  <2>4. RelationsCached' /\ CachedRelations' /\ WithEnds' /\ WithFound' /\ RootsApart'
    BY <2>1, <2>2, RelationsCachedStep, CachedRelationsStep, WithEndsStep, WithFoundStep, RootsApartStep
  <2>5. CatalogSound'
    BY <2>4 DEF CatalogSound, RelationsCached, CachedRelations, WithEnds, WithFound, RootsApart, InCatalog
  <2> QED
    BY <2>3, <2>5 DEF CatalogInv
<1>3. CatalogInv => CatalogSound
  BY DEF CatalogInv
<1> QED
  BY <1>1, <1>2, <1>3, PTL DEF CatalogSpec

------------------------------------------------------------------------------
(* The parallel executor                                                   *)

TaskIds == Executions \X Workers

ParallelTypes ==
  /\ tuples \in Seq(TaskIds)
  /\ error \in BOOLEAN
  /\ tasks \in [TaskIds -> {"none", "running", "adding", "done", "panicked"}]
  /\ executing \in 0 .. MaxExecutions
  /\ awaiting \in 0 .. NWorkers + 2
  /\ results \in [Executions -> [status : {"none", "ok", "error", "panic"}, rows : Seq(TaskIds)]]
  /\ reported \subseteq TaskIds

(* The list holds one row of every task that is done, and of no other.     *)
RowsOfDone ==
  /\ \A i, j \in 1 .. Len(tuples) : tuples[i] = tuples[j] => i = j
  /\ \A i \in 1 .. Len(tuples) : tasks[tuples[i]] = "done"
  /\ \A t \in TaskIds : tasks[t] = "done" => \E i \in 1 .. Len(tuples) : tuples[i] = t

(* Only tasks of calls that have begun are there.                          *)
Spawned == \A c \in Executions, w \in Workers : c > executing => tasks[<<c, w>>] = "none"

(* The open call has seen its first handles through, has no result, and    *)
(* after its check of the error no worker of its own can report one.       *)
OpenCall ==
  /\ awaiting # 0 => executing >= 1
  /\ \A w \in Workers : w < awaiting => tasks[<<executing, w>>] = "done"
  /\ awaiting = NWorkers + 2 =>
       /\ \A w \in Workers : <<executing, w>> \notin reported
       /\ \A c \in Executions : results[c].status # "error"
  /\ \A c \in Executions : c > executing \/ (c = executing /\ awaiting # 0) => results[c].status = "none"

(* A task reports while it runs, and the error is never taken back.        *)
Reports ==
  /\ \A t \in reported : tasks[t] \in {"adding", "done"}
  /\ reported # {} => error
  /\ \A c \in Executions : results[c].status = "error" => error

(* A call that succeeded is past every task of its own.                    *)
Succeeded ==
  \A c \in Executions : results[c].status = "ok" => \A w \in Workers : tasks[<<c, w>>] = "done"

ParallelInv == ParallelTypes /\ RowsOfDone /\ Spawned /\ OpenCall /\ Reports /\ Succeeded /\ ParallelExact

LEMMA TaskIdParts ==
  /\ \A c \in Executions, w \in Workers : <<c, w>> \in TaskIds /\ <<c, w>>[1] = c /\ <<c, w>>[2] = w
  /\ \A t \in TaskIds : t[1] \in Executions /\ t[2] \in Workers /\ t = <<t[1], t[2]>>
  BY DEF TaskIds

LEMMA EmptyRows == << >> \in Seq(TaskIds)
  OBVIOUS

LEMMA ResultOf ==
  ASSUME NEW status \in {"none", "ok", "error", "panic"}, NEW rows \in Seq(TaskIds)
  PROVE  [status |-> status, rows |-> rows] \in [status : {"none", "ok", "error", "panic"}, rows : Seq(TaskIds)]
  OBVIOUS

(* A row is put at the end of the list.                                    *)
LEMMA RowAppended ==
  ASSUME NEW q \in Seq(TaskIds), NEW t \in TaskIds
  PROVE  /\ Append(q, t) \in Seq(TaskIds)
         /\ Len(Append(q, t)) = Len(q) + 1 /\ Len(q) \in Nat
         /\ \A i \in 1 .. Len(q) : Append(q, t)[i] = q[i] /\ q[i] \in TaskIds
         /\ Append(q, t)[Len(q) + 1] = t
  OBVIOUS

(* What a call returns is its own result and closes it.                    *)
LEMMA ReturnSets ==
  ASSUME ParallelTypes, executing \in Executions,
         NEW status \in {"none", "ok", "error", "panic"}, NEW rows \in Seq(TaskIds),
         ReturnResult(status, rows)
  PROVE  /\ results' \in [Executions -> [status : {"none", "ok", "error", "panic"}, rows : Seq(TaskIds)]]
         /\ awaiting' = 0
         /\ results'[executing].status = status /\ results'[executing].rows = rows
         /\ \A c \in Executions \ {executing} : results'[c] = results[c]
<1>1. results' = [results EXCEPT ![executing] = [status |-> status, rows |-> rows]] /\ awaiting' = 0
  BY DEF ReturnResult
<1>2. results \in [Executions -> [status : {"none", "ok", "error", "panic"}, rows : Seq(TaskIds)]]
  BY DEF ParallelTypes
<1> QED
  BY <1>1, <1>2, ResultOf

LEMMA ParallelTypesStep ==
  ASSUME ParallelTypes, OpenCall, [ParallelNext]_parallelVars
  PROVE  ParallelTypes'
<1> USE ParallelConstants DEF ParallelTypes, OpenCall, Executions, Workers, ReturnResult
<1>1. CASE Spawn
  BY <1>1 DEF Spawn, TaskIds
<1>2. CASE AwaitHandle
  <2>1. executing \in Executions /\ << >> \in Seq(TaskIds)
    BY <1>2 DEF AwaitHandle
  <2>2. CASE tasks[<<executing, awaiting>>] = "done" /\ awaiting' = awaiting + 1 /\ UNCHANGED results
    BY <1>2, <2>1, <2>2, TaskIdParts DEF AwaitHandle
  <2>3. CASE ReturnResult("panic", << >>)
    <3>1. /\ results' \in [Executions -> [status : {"none", "ok", "error", "panic"}, rows : Seq(TaskIds)]]
          /\ awaiting' = 0
          /\ results'[executing].status = "panic"
          /\ \A c \in Executions \ {executing} : results'[c] = results[c]
      <4> HIDE DEF ReturnResult, ParallelTypes
      <4> QED
        BY <2>1, <2>3, ReturnSets
    <3>2. UNCHANGED <<tuples, error, tasks, executing, reported>>
      BY <1>2 DEF AwaitHandle
    <3> QED
      BY <2>1, <2>3, <3>1, <3>2
  <2> QED
    BY <1>2, <2>2, <2>3 DEF AwaitHandle
<1>3. CASE CheckError
  <2>1. executing \in Executions /\ << >> \in Seq(TaskIds)
    BY <1>3 DEF CheckError
  <2>2. CASE ~ error /\ awaiting' = NWorkers + 2 /\ UNCHANGED results
    BY <1>3, <2>1, <2>2, TaskIdParts DEF CheckError
  <2>3. CASE error /\ ReturnResult("error", << >>)
    <3>1. /\ results' \in [Executions -> [status : {"none", "ok", "error", "panic"}, rows : Seq(TaskIds)]]
          /\ awaiting' = 0
          /\ results'[executing].status = "error"
          /\ \A c \in Executions \ {executing} : results'[c] = results[c]
      <4> HIDE DEF ReturnResult, ParallelTypes
      <4> QED
        BY <2>1, <2>3, ReturnSets
    <3>2. UNCHANGED <<tuples, error, tasks, executing, reported>>
      BY <1>3 DEF CheckError
    <3> QED
      BY <2>1, <2>3, <3>1, <3>2
  <2> QED
    BY <1>3, <2>2, <2>3 DEF CheckError
<1>4. CASE GetTuples
  BY <1>4, EmptyRows, ResultOf DEF GetTuples, OpenCall
<1>5. ASSUME NEW t \in TaskIds, TaskComputes(t)
      PROVE  ParallelTypes'
  BY <1>5 DEF TaskComputes
<1>6. ASSUME NEW t \in TaskIds, TaskPanics(t)
      PROVE  ParallelTypes'
  BY <1>6 DEF TaskPanics
<1>7. ASSUME NEW t \in TaskIds, AddTuples(t)
      PROVE  ParallelTypes'
  <2>1. tuples' \in Seq(TaskIds)
    BY <1>7, RowAppended DEF AddTuples
  <2> QED
    BY <1>7, <2>1 DEF AddTuples
<1>8. CASE UNCHANGED parallelVars
  BY <1>8 DEF parallelVars
<1> QED
  BY <1>1, <1>2, <1>3, <1>4, <1>5, <1>6, <1>7, <1>8 DEF ParallelNext, TaskIds

LEMMA RowsOfDoneStep ==
  ASSUME ParallelTypes, RowsOfDone, Spawned, [ParallelNext]_parallelVars
  PROVE  RowsOfDone'
<1> USE ParallelConstants DEF ParallelTypes, RowsOfDone, Spawned, Executions, Workers, ReturnResult
<1>1. CASE Spawn
  <2>1. \A u \in TaskIds : tasks[u] # "none" => tasks'[u] = tasks[u]
    BY <1>1, TaskIdParts DEF Spawn, TaskIds, Spawned
  <2>2. \A u \in TaskIds : tasks'[u] = "done" => tasks[u] = "done"
    BY <1>1 DEF Spawn, TaskIds
  <2>3. UNCHANGED tuples
    BY <1>1 DEF Spawn
  <2> QED
    BY <2>1, <2>2, <2>3
<1>2. CASE AwaitHandle
  BY <1>2 DEF AwaitHandle
<1>3. CASE CheckError
  BY <1>3 DEF CheckError
<1>4. CASE GetTuples
  BY <1>4 DEF GetTuples
<1>5. ASSUME NEW t \in TaskIds, TaskComputes(t)
      PROVE  RowsOfDone'
  BY <1>5 DEF TaskComputes
<1>6. ASSUME NEW t \in TaskIds, TaskPanics(t)
      PROVE  RowsOfDone'
  BY <1>6 DEF TaskPanics
<1>7. ASSUME NEW t \in TaskIds, AddTuples(t)
      PROVE  RowsOfDone'
  <2>1. tuples' = Append(tuples, t) /\ tasks[t] = "adding" /\ tasks' = [tasks EXCEPT ![t] = "done"]
    BY <1>7 DEF AddTuples
  <2>2. /\ Len(tuples') = Len(tuples) + 1 /\ Len(tuples) \in Nat
        /\ \A i \in 1 .. Len(tuples) : tuples'[i] = tuples[i] /\ tuples[i] \in TaskIds
        /\ tuples'[Len(tuples) + 1] = t
    BY <2>1, RowAppended
  <2> QED
    BY <2>1, <2>2
<1>8. CASE UNCHANGED parallelVars
  BY <1>8 DEF parallelVars
<1> QED
  BY <1>1, <1>2, <1>3, <1>4, <1>5, <1>6, <1>7, <1>8 DEF ParallelNext, TaskIds

LEMMA SpawnedStep ==
  ASSUME ParallelTypes, Spawned, [ParallelNext]_parallelVars
  PROVE  Spawned'
<1> USE ParallelConstants DEF ParallelTypes, Spawned, Executions, Workers, ReturnResult
<1>1. CASE Spawn
  <2>1. \A c \in Executions, w \in Workers : c > executing + 1 => tasks'[<<c, w>>] = tasks[<<c, w>>]
    BY <1>1, TaskIdParts DEF Spawn, TaskIds
  <2> QED
    BY <1>1, <2>1 DEF Spawn
<1>2. CASE AwaitHandle
  BY <1>2 DEF AwaitHandle
<1>3. CASE CheckError
  BY <1>3 DEF CheckError
<1>4. CASE GetTuples
  BY <1>4 DEF GetTuples
<1>5. ASSUME NEW t \in TaskIds, TaskComputes(t)
      PROVE  Spawned'
  BY <1>5 DEF TaskComputes
<1>6. ASSUME NEW t \in TaskIds, TaskPanics(t)
      PROVE  Spawned'
  BY <1>6 DEF TaskPanics
<1>7. ASSUME NEW t \in TaskIds, AddTuples(t)
      PROVE  Spawned'
  BY <1>7 DEF AddTuples
<1>8. CASE UNCHANGED parallelVars
  BY <1>8 DEF parallelVars
<1> QED
  BY <1>1, <1>2, <1>3, <1>4, <1>5, <1>6, <1>7, <1>8 DEF ParallelNext, TaskIds

LEMMA OpenCallStep ==
  ASSUME ParallelTypes, Spawned, OpenCall, Reports, [ParallelNext]_parallelVars
  PROVE  OpenCall'
<1> USE ParallelConstants DEF ParallelTypes, Spawned, OpenCall, Reports, Executions, Workers, ReturnResult
<1>1. CASE Spawn
  <2>1. \A u \in TaskIds : tasks[u] # "none" => tasks'[u] = tasks[u]
    BY <1>1, TaskIdParts DEF Spawn, TaskIds, Spawned
  <2> QED
    BY <1>1, <2>1, TaskIdParts DEF Spawn
<1>2. CASE AwaitHandle
  <2>1. executing \in Executions /\ << >> \in Seq(TaskIds)
    BY <1>2 DEF AwaitHandle
  <2>2. CASE tasks[<<executing, awaiting>>] = "done" /\ awaiting' = awaiting + 1 /\ UNCHANGED results
    <3>1. awaiting \in Workers /\ awaiting' = awaiting + 1 /\ UNCHANGED <<tasks, executing, results, reported>>
      BY <1>2, <2>2 DEF AwaitHandle
    <3>2. \A w \in Workers : w < awaiting' => w < awaiting \/ w = awaiting
      BY <3>1
    <3>3. \A w \in Workers : w < awaiting' => tasks'[<<executing', w>>] = "done"
      BY <2>2, <3>1, <3>2
    <3>4. awaiting' # NWorkers + 2 /\ awaiting # 0
      BY <3>1
    <3> QED
      BY <2>1, <3>1, <3>3, <3>4
  <2>3. CASE ReturnResult("panic", << >>)
    <3>1. /\ results' \in [Executions -> [status : {"none", "ok", "error", "panic"}, rows : Seq(TaskIds)]]
          /\ awaiting' = 0
          /\ results'[executing].status = "panic"
          /\ \A c \in Executions \ {executing} : results'[c] = results[c]
      <4> HIDE DEF ReturnResult, ParallelTypes
      <4> QED
        BY <2>1, <2>3, ReturnSets
    <3>2. UNCHANGED <<tuples, error, tasks, executing, reported>>
      BY <1>2 DEF AwaitHandle
    <3> QED
      BY <2>1, <2>3, <3>1, <3>2
  <2> QED
    BY <1>2, <2>2, <2>3 DEF AwaitHandle
<1>3. CASE CheckError
  <2>1. executing \in Executions /\ << >> \in Seq(TaskIds)
    BY <1>3 DEF CheckError
  <2>2. CASE ~ error /\ awaiting' = NWorkers + 2 /\ UNCHANGED results
    BY <1>3, <2>1, <2>2, TaskIdParts DEF CheckError
  <2>3. CASE error /\ ReturnResult("error", << >>)
    <3>1. /\ results' \in [Executions -> [status : {"none", "ok", "error", "panic"}, rows : Seq(TaskIds)]]
          /\ awaiting' = 0
          /\ results'[executing].status = "error"
          /\ \A c \in Executions \ {executing} : results'[c] = results[c]
      <4> HIDE DEF ReturnResult, ParallelTypes
      <4> QED
        BY <2>1, <2>3, ReturnSets
    <3>2. UNCHANGED <<tuples, error, tasks, executing, reported>>
      BY <1>3 DEF CheckError
    <3> QED
      BY <2>1, <2>3, <3>1, <3>2
  <2> QED
    BY <1>3, <2>2, <2>3 DEF CheckError
<1>4. CASE GetTuples
  BY <1>4, TaskIdParts, EmptyRows, ResultOf DEF GetTuples
<1>5. ASSUME NEW t \in TaskIds, TaskComputes(t)
      PROVE  OpenCall'
  BY <1>5 DEF TaskComputes
<1>6. ASSUME NEW t \in TaskIds, TaskPanics(t)
      PROVE  OpenCall'
  BY <1>6 DEF TaskPanics
<1>7. ASSUME NEW t \in TaskIds, AddTuples(t)
      PROVE  OpenCall'
  BY <1>7 DEF AddTuples
<1>8. CASE UNCHANGED parallelVars
  BY <1>8 DEF parallelVars
<1> QED
  BY <1>1, <1>2, <1>3, <1>4, <1>5, <1>6, <1>7, <1>8 DEF ParallelNext, TaskIds

LEMMA ReportsStep ==
  ASSUME ParallelTypes, Spawned, OpenCall, Reports, [ParallelNext]_parallelVars
  PROVE  Reports'
<1> USE ParallelConstants DEF ParallelTypes, Spawned, OpenCall, Reports, Executions, Workers, ReturnResult
<1>1. CASE Spawn
  <2>1. \A u \in TaskIds : tasks[u] # "none" => tasks'[u] = tasks[u]
    BY <1>1, TaskIdParts DEF Spawn, TaskIds, Spawned
  <2> QED
    BY <1>1, <2>1, TaskIdParts DEF Spawn
<1>2. CASE AwaitHandle
  <2>1. executing \in Executions /\ << >> \in Seq(TaskIds)
    BY <1>2 DEF AwaitHandle
  <2>2. CASE tasks[<<executing, awaiting>>] = "done" /\ awaiting' = awaiting + 1 /\ UNCHANGED results
    BY <1>2, <2>1, <2>2, TaskIdParts DEF AwaitHandle
  <2>3. CASE ReturnResult("panic", << >>)
    <3>1. /\ results' \in [Executions -> [status : {"none", "ok", "error", "panic"}, rows : Seq(TaskIds)]]
          /\ awaiting' = 0
          /\ results'[executing].status = "panic"
          /\ \A c \in Executions \ {executing} : results'[c] = results[c]
      <4> HIDE DEF ReturnResult, ParallelTypes
      <4> QED
        BY <2>1, <2>3, ReturnSets
    <3>2. UNCHANGED <<tuples, error, tasks, executing, reported>>
      BY <1>2 DEF AwaitHandle
    <3> QED
      BY <2>1, <2>3, <3>1, <3>2
  <2> QED
    BY <1>2, <2>2, <2>3 DEF AwaitHandle
<1>3. CASE CheckError
  <2>1. executing \in Executions /\ << >> \in Seq(TaskIds)
    BY <1>3 DEF CheckError
  <2>2. CASE ~ error /\ awaiting' = NWorkers + 2 /\ UNCHANGED results
    BY <1>3, <2>1, <2>2, TaskIdParts DEF CheckError
  <2>3. CASE error /\ ReturnResult("error", << >>)
    <3>1. /\ results' \in [Executions -> [status : {"none", "ok", "error", "panic"}, rows : Seq(TaskIds)]]
          /\ awaiting' = 0
          /\ results'[executing].status = "error"
          /\ \A c \in Executions \ {executing} : results'[c] = results[c]
      <4> HIDE DEF ReturnResult, ParallelTypes
      <4> QED
        BY <2>1, <2>3, ReturnSets
    <3>2. UNCHANGED <<tuples, error, tasks, executing, reported>>
      BY <1>3 DEF CheckError
    <3> QED
      BY <2>1, <2>3, <3>1, <3>2
  <2> QED
    BY <1>3, <2>2, <2>3 DEF CheckError
<1>4. CASE GetTuples
  BY <1>4 DEF GetTuples
<1>5. ASSUME NEW t \in TaskIds, TaskComputes(t)
      PROVE  Reports'
  BY <1>5 DEF TaskComputes
<1>6. ASSUME NEW t \in TaskIds, TaskPanics(t)
      PROVE  Reports'
  BY <1>6 DEF TaskPanics
<1>7. ASSUME NEW t \in TaskIds, AddTuples(t)
      PROVE  Reports'
  BY <1>7 DEF AddTuples
<1>8. CASE UNCHANGED parallelVars
  BY <1>8 DEF parallelVars
<1> QED
  BY <1>1, <1>2, <1>3, <1>4, <1>5, <1>6, <1>7, <1>8 DEF ParallelNext, TaskIds

LEMMA SucceededStep ==
  ASSUME ParallelTypes, Spawned, Succeeded, OpenCall, [ParallelNext]_parallelVars
  PROVE  Succeeded'
<1> USE ParallelConstants DEF ParallelTypes, Spawned, Succeeded, OpenCall, Executions, Workers, ReturnResult
<1>1. CASE Spawn
  <2>1. \A u \in TaskIds : tasks[u] # "none" => tasks'[u] = tasks[u]
    BY <1>1, TaskIdParts DEF Spawn, TaskIds, Spawned
  <2> QED
    BY <1>1, <2>1, TaskIdParts DEF Spawn
<1>2. CASE AwaitHandle
  <2>1. executing \in Executions /\ << >> \in Seq(TaskIds)
    BY <1>2 DEF AwaitHandle
  <2>2. CASE tasks[<<executing, awaiting>>] = "done" /\ awaiting' = awaiting + 1 /\ UNCHANGED results
    BY <1>2, <2>1, <2>2, TaskIdParts DEF AwaitHandle
  <2>3. CASE ReturnResult("panic", << >>)
    <3>1. /\ results' \in [Executions -> [status : {"none", "ok", "error", "panic"}, rows : Seq(TaskIds)]]
          /\ awaiting' = 0
          /\ results'[executing].status = "panic"
          /\ \A c \in Executions \ {executing} : results'[c] = results[c]
      <4> HIDE DEF ReturnResult, ParallelTypes
      <4> QED
        BY <2>1, <2>3, ReturnSets
    <3>2. UNCHANGED <<tuples, error, tasks, executing, reported>>
      BY <1>2 DEF AwaitHandle
    <3> QED
      BY <2>1, <2>3, <3>1, <3>2
  <2> QED
    BY <1>2, <2>2, <2>3 DEF AwaitHandle
<1>3. CASE CheckError
  <2>1. executing \in Executions /\ << >> \in Seq(TaskIds)
    BY <1>3 DEF CheckError
  <2>2. CASE ~ error /\ awaiting' = NWorkers + 2 /\ UNCHANGED results
    BY <1>3, <2>1, <2>2, TaskIdParts DEF CheckError
  <2>3. CASE error /\ ReturnResult("error", << >>)
    <3>1. /\ results' \in [Executions -> [status : {"none", "ok", "error", "panic"}, rows : Seq(TaskIds)]]
          /\ awaiting' = 0
          /\ results'[executing].status = "error"
          /\ \A c \in Executions \ {executing} : results'[c] = results[c]
      <4> HIDE DEF ReturnResult, ParallelTypes
      <4> QED
        BY <2>1, <2>3, ReturnSets
    <3>2. UNCHANGED <<tuples, error, tasks, executing, reported>>
      BY <1>3 DEF CheckError
    <3> QED
      BY <2>1, <2>3, <3>1, <3>2
  <2> QED
    BY <1>3, <2>2, <2>3 DEF CheckError
<1>4. CASE GetTuples
  BY <1>4, TaskIdParts, EmptyRows, ResultOf DEF GetTuples
<1>5. ASSUME NEW t \in TaskIds, TaskComputes(t)
      PROVE  Succeeded'
  BY <1>5 DEF TaskComputes
<1>6. ASSUME NEW t \in TaskIds, TaskPanics(t)
      PROVE  Succeeded'
  BY <1>6 DEF TaskPanics
<1>7. ASSUME NEW t \in TaskIds, AddTuples(t)
      PROVE  Succeeded'
  BY <1>7 DEF AddTuples
<1>8. CASE UNCHANGED parallelVars
  BY <1>8 DEF parallelVars
<1> QED
  BY <1>1, <1>2, <1>3, <1>4, <1>5, <1>6, <1>7, <1>8 DEF ParallelNext, TaskIds

(* ParallelExact for one call, of given results and reports.               *)
ExactFor(c, res, rep) ==
  res[c].status = "ok" =>
    /\ \A i, j \in 1 .. Len(res[c].rows) : res[c].rows[i] = res[c].rows[j] => i = j
    /\ \A w \in Workers : \E i \in 1 .. Len(res[c].rows) : res[c].rows[i] = <<c, w>>
    /\ \A i \in 1 .. Len(res[c].rows) : res[c].rows[i][1] <= c
    /\ \A w \in Workers : <<c, w>> \notin rep
    /\ \A d \in 1 .. c - 1 : res[d].status # "error"

(* A result that stands stays exact as long as its own workers report no   *)
(* error and no earlier call turns out to have failed.                     *)
LEMMA ExactKept ==
  ASSUME NEW c, NEW res, NEW rep, NEW res2, NEW rep2, ExactFor(c, res, rep),
         res2[c] = res[c],
         res[c].status = "ok" => \A w \in Workers : <<c, w>> \in rep2 => <<c, w>> \in rep,
         res[c].status = "ok" => \A d \in 1 .. c - 1 : res2[d].status = "error" => res[d].status = "error"
  PROVE  ExactFor(c, res2, rep2)
  BY DEF ExactFor

LEMMA ParallelExactStep ==
  ASSUME ParallelTypes, RowsOfDone, Spawned, OpenCall, Reports, Succeeded, ParallelExact,
         [ParallelNext]_parallelVars
  PROVE  ParallelExact'
<1> SUFFICES ASSUME NEW c \in Executions PROVE ExactFor(c, results', reported')
  BY DEF ParallelExact, ExactFor
<1>0. ExactFor(c, results, reported)
  BY DEF ParallelExact, ExactFor
<1>a. c \in Nat /\ \A d \in 1 .. c - 1 : d \in Executions /\ d < c
  BY ParallelConstants DEF Executions
<1>b. results[c].status = "ok" => \A w \in Workers : <<c, w>> \in TaskIds /\ tasks[<<c, w>>] = "done"
  BY TaskIdParts DEF Succeeded
(* A return is the open call's, which has no result yet.                   *)
<1>c. ASSUME executing \in Executions, awaiting # 0, NEW status \in {"error", "panic"},
             ReturnResult(status, << >>), UNCHANGED reported
      PROVE  ExactFor(c, results', reported')
  <2>1. /\ results'[executing].status = status
        /\ \A d \in Executions \ {executing} : results'[d] = results[d]
    BY <1>c, ReturnSets, EmptyRows
  <2>2. CASE c = executing
    BY <2>1, <2>2 DEF ExactFor
  <2>3. CASE c # executing
    <3>1. results[c].status = "ok" => c < executing
      BY <1>a, <1>c, <2>3 DEF OpenCall, ParallelTypes
    <3>2. results[c].status = "ok" => \A d \in 1 .. c - 1 : results'[d] = results[d]
      BY <1>a, <1>c, <2>1, <3>1 DEF ParallelTypes
    <3> QED
      BY <1>0, <1>c, <2>1, <2>3, <3>2, ExactKept
  <2> QED
    BY <2>2, <2>3
<1>1. CASE Spawn
  BY <1>0, <1>1, ExactKept DEF Spawn
<1>2. CASE AwaitHandle
  <2>1. executing \in Executions /\ awaiting # 0 /\ UNCHANGED reported
    BY <1>2, ParallelConstants DEF AwaitHandle, OpenCall, ParallelTypes, Executions, Workers
  <2>2. CASE UNCHANGED results
    BY <1>0, <2>1, <2>2, ExactKept
  <2> QED
    BY <1>2, <1>c, <2>1, <2>2 DEF AwaitHandle
<1>3. CASE CheckError
  <2>1. executing \in Executions /\ awaiting # 0 /\ UNCHANGED reported
    BY <1>3, ParallelConstants DEF CheckError, OpenCall, ParallelTypes, Executions
  <2>2. CASE UNCHANGED results
    BY <1>0, <2>1, <2>2, ExactKept
  <2> QED
    BY <1>3, <1>c, <2>1, <2>2 DEF CheckError
<1>4. CASE GetTuples
  <2>1. executing \in Executions /\ awaiting = NWorkers + 2 /\ awaiting # 0 /\ UNCHANGED reported
    BY <1>4, ParallelConstants DEF GetTuples, OpenCall, ParallelTypes, Executions
  <2>2. tuples \in Seq(TaskIds) /\ ReturnResult("ok", tuples)
    BY <1>4 DEF GetTuples, ParallelTypes
  <2>3. /\ results'[executing].status = "ok" /\ results'[executing].rows = tuples
        /\ \A d \in Executions \ {executing} : results'[d] = results[d]
    BY <2>1, <2>2, ReturnSets
  <2>4. CASE c = executing
    <3>1. \A w \in Workers : \E i \in 1 .. Len(tuples) : tuples[i] = <<c, w>>
      <4> SUFFICES ASSUME NEW w \in Workers PROVE \E i \in 1 .. Len(tuples) : tuples[i] = <<c, w>>
        OBVIOUS
      <4>1. <<c, w>> \in TaskIds /\ w < awaiting
        BY <2>1, TaskIdParts, ParallelConstants DEF Workers
      <4>2. tasks[<<c, w>>] = "done"
        BY <4>1, <2>4 DEF OpenCall
      <4> QED
        BY <4>1, <4>2 DEF RowsOfDone
    <3>2. \A i \in 1 .. Len(tuples) : tuples[i][1] <= c
      <4> SUFFICES ASSUME NEW i \in 1 .. Len(tuples) PROVE tuples[i][1] <= c
        OBVIOUS
      <4>1. tuples[i] \in TaskIds /\ tasks[tuples[i]] = "done"
        BY <2>2 DEF RowsOfDone
      <4>2. PICK d \in Executions, w \in Workers : tuples[i] = <<d, w>>
        BY <4>1, TaskIdParts
      <4>3. ~ (d > executing)
        BY <4>1, <4>2 DEF Spawned
      <4>4. tuples[i][1] = d /\ d \in Nat /\ executing \in Nat
        BY <4>2, <2>1, ParallelConstants DEF Executions
      <4> QED
        BY <2>4, <4>3, <4>4
    <3>3. \A w \in Workers : <<c, w>> \notin reported'
      BY <2>1, <2>4 DEF OpenCall
    <3>4. \A d \in 1 .. c - 1 : results'[d].status # "error"
      <4>1. \A d \in 1 .. c - 1 : d \in Executions \ {executing}
        BY <1>a, <2>4, ParallelConstants DEF Executions
      <4> QED
        BY <2>1, <2>3, <4>1 DEF OpenCall
    <3>5. \A i, j \in 1 .. Len(tuples) : tuples[i] = tuples[j] => i = j
      BY DEF RowsOfDone
    <3>6. results'[c].rows = tuples
      BY <2>3, <2>4
    <3> QED
      BY <3>1, <3>2, <3>3, <3>4, <3>5, <3>6 DEF ExactFor
  <2>5. CASE c # executing
    <3>1. \A d \in Executions : results'[d].status = "error" => results[d].status = "error"
      BY <2>3
    <3> QED
      BY <1>0, <1>a, <2>1, <2>3, <2>5, <3>1, ExactKept
  <2> QED
    BY <2>4, <2>5
<1>5. ASSUME NEW t \in TaskIds, TaskComputes(t)
      PROVE  ExactFor(c, results', reported')
  <2>1. tasks[t] = "running" /\ reported' \subseteq reported \cup {t} /\ UNCHANGED results
    BY <1>5 DEF TaskComputes
  <2>2. results[c].status = "ok" => \A w \in Workers : <<c, w>> # t
    BY <1>b, <2>1
  <2> QED
    BY <1>0, <2>1, <2>2, ExactKept
<1>6. ASSUME NEW t \in TaskIds, TaskPanics(t)
      PROVE  ExactFor(c, results', reported')
  BY <1>0, <1>6, ExactKept DEF TaskPanics
<1>7. ASSUME NEW t \in TaskIds, AddTuples(t)
      PROVE  ExactFor(c, results', reported')
  BY <1>0, <1>7, ExactKept DEF AddTuples
<1>8. CASE UNCHANGED parallelVars
  BY <1>0, <1>8, ExactKept DEF parallelVars
<1> QED
  BY <1>1, <1>2, <1>3, <1>4, <1>5, <1>6, <1>7, <1>8 DEF ParallelNext, TaskIds

(* What execute_parallel returns as a success is exact, for any number of  *)
(* workers and calls, whatever tasks earlier calls left running.           *)
THEOREM ParallelIsExact == ParallelSpec => []ParallelExact
<1>1. ParallelInit => ParallelInv
  <2> SUFFICES ASSUME ParallelInit PROVE ParallelInv
    OBVIOUS
  <2>1. ParallelTypes
    <3>1. results \in [Executions -> [status : {"none", "ok", "error", "panic"}, rows : Seq(TaskIds)]]
      BY EmptyRows, ResultOf DEF ParallelInit
    <3>2. tasks \in [TaskIds -> {"none", "running", "adding", "done", "panicked"}] /\ reported \subseteq TaskIds
      BY DEF ParallelInit, TaskIds
    <3>3. executing \in 0 .. MaxExecutions /\ awaiting \in 0 .. NWorkers + 2
      BY ParallelConstants DEF ParallelInit
    <3> QED
      BY <3>1, <3>2, <3>3, EmptyRows DEF ParallelInit, ParallelTypes
  <2>2. \A t \in TaskIds : tasks[t] = "none"
    BY DEF ParallelInit, TaskIds
  <2>3. \A c \in Executions : results[c].status = "none"
    BY DEF ParallelInit
  <2>4. RowsOfDone /\ Spawned /\ OpenCall
    BY <2>2, <2>3, TaskIdParts, ParallelConstants
       DEF RowsOfDone, Spawned, OpenCall, ParallelInit, Executions, Workers
  <2>5. Reports /\ Succeeded /\ ParallelExact
    BY <2>3 DEF Reports, Succeeded, ParallelExact, ParallelInit
  <2> QED
    BY <2>1, <2>4, <2>5 DEF ParallelInv
<1>2. ParallelInv /\ [ParallelNext]_parallelVars => ParallelInv'
  BY ParallelTypesStep, RowsOfDoneStep, SpawnedStep, OpenCallStep, ReportsStep, SucceededStep, ParallelExactStep
     DEF ParallelInv
<1>3. ParallelInv => ParallelExact
  BY DEF ParallelInv
<1> QED
  BY <1>1, <1>2, <1>3, PTL DEF ParallelSpec

------------------------------------------------------------------------------
(* The notification queues                                                 *)

Notes == Senders \X Nat

NotifyTypes ==
  /\ listeners \in Seq(Receivers)
  /\ ear \in [Receivers -> {"none", "open", "stopped", "closed"}]
  /\ turn \in [Senders -> Nat]
  /\ sent \in [Senders -> Nat]
  /\ heard \in [Receivers -> Seq(Notes)]
  /\ since \in [Receivers -> [Senders -> Nat]]

(* Everybody who listens is in the list, once; a notify is somewhere in it, *)
(* and its number is later than what any receiver has begun with.          *)
Listening ==
  /\ \A i, j \in 1 .. Len(listeners) : listeners[i] = listeners[j] => i = j
  /\ \A i \in 1 .. Len(listeners) : ear[listeners[i]] # "none"
  /\ \A r \in Receivers : ear[r] # "none" => \E i \in 1 .. Len(listeners) : listeners[i] = r
  /\ \A r \in Receivers : ear[r] = "none" => heard[r] = << >>
  /\ \A s \in Senders : turn[s] <= Len(listeners)
  /\ \A r \in Receivers, s \in Senders : since[r][s] <= sent[s] /\ (turn[s] # 0 => since[r][s] < sent[s])

(* NotifyInOrder for one receiver and one sender: what was heard, the number *)
(* the receiver began with, and the last one it should have by now.        *)
InOrder(h, s, from, last) ==
  /\ \A i \in 1 .. Len(h) : h[i][1] = s => h[i][2] \in from + 1 .. last
  /\ \A n \in from + 1 .. last : \E i \in 1 .. Len(h) : h[i][1] = s /\ h[i][2] = n
  /\ \A i, j \in 1 .. Len(h) : h[i][1] = s /\ h[j][1] = s /\ i < j => h[i][2] < h[j][2]

Last(s, r) == IF Passed(s, r) THEN sent[s] ELSE sent[s] - 1

Attentive(r) == ear[r] \in {"open", "stopped"}

HeardInOrder ==
  \A r \in Receivers, s \in Senders : Attentive(r) => InOrder(heard[r], s, since[r][s], Last(s, r))

NotifyInv == NotifyTypes /\ Listening /\ HeardInOrder

LEMMA NotifyInOrderIs == NotifyInOrder <=> HeardInOrder
<1> DEFINE mine(r, s) == {i \in 1 .. Len(heard[r]) : heard[r][i][1] = s}
           Each(r, s) == \A i \in mine(r, s) : heard[r][i][2] \in since[r][s] + 1 .. Last(s, r)
           All(r, s) == \A n \in since[r][s] + 1 .. Last(s, r) : \E i \in mine(r, s) : heard[r][i][2] = n
           Once(r, s) == \A i, j \in mine(r, s) : i < j => heard[r][i][2] < heard[r][j][2]
<1>1. NotifyInOrder <=>
        \A r \in Receivers, s \in Senders : Attentive(r) => Each(r, s) /\ All(r, s) /\ Once(r, s)
  BY DEF NotifyInOrder, Last, Attentive
<1>2. ASSUME NEW r \in Receivers, NEW s \in Senders
      PROVE  InOrder(heard[r], s, since[r][s], Last(s, r)) <=> Each(r, s) /\ All(r, s) /\ Once(r, s)
  <2>1. Each(r, s) <=>
          \A i \in 1 .. Len(heard[r]) : heard[r][i][1] = s => heard[r][i][2] \in since[r][s] + 1 .. Last(s, r)
    OBVIOUS
  <2>2. All(r, s) <=>
          \A n \in since[r][s] + 1 .. Last(s, r) :
            \E i \in 1 .. Len(heard[r]) : heard[r][i][1] = s /\ heard[r][i][2] = n
    OBVIOUS
  <2>3. Once(r, s) <=>
          \A i, j \in 1 .. Len(heard[r]) :
            heard[r][i][1] = s /\ heard[r][j][1] = s /\ i < j => heard[r][i][2] < heard[r][j][2]
    OBVIOUS
  <2> HIDE DEF Each, All, Once
  <2> QED
    BY <2>1, <2>2, <2>3 DEF InOrder
<1> HIDE DEF Each, All, Once
<1> QED
  BY <1>1, <1>2 DEF HeardInOrder

LEMMA NoteAppended ==
  ASSUME NEW h \in Seq(Notes), NEW n \in Notes
  PROVE  /\ Append(h, n) \in Seq(Notes)
         /\ Len(Append(h, n)) = Len(h) + 1 /\ Len(h) \in Nat
         /\ \A i \in 1 .. Len(h) : Append(h, n)[i] = h[i]
         /\ Append(h, n)[Len(h) + 1] = n
  OBVIOUS

LEMMA NoteParts == \A s \in Senders, n \in Nat : <<s, n>> \in Notes /\ <<s, n>>[1] = s /\ <<s, n>>[2] = n
  BY DEF Notes

(* The next notification of a sender comes in order, and leaves the others  *)
(* in order.                                                               *)
LEMMA HearOne ==
  ASSUME NEW h \in Seq(Notes), NEW s \in Senders, NEW from \in Nat, NEW last \in Nat, NEW n \in Notes,
         InOrder(h, s, from, last)
  PROVE  /\ n[1] = s /\ n[2] = last + 1 /\ from <= last => InOrder(Append(h, n), s, from, last + 1)
         /\ n[1] # s => InOrder(Append(h, n), s, from, last)
<1> DEFINE g == Append(h, n)
<1>1. /\ Len(g) = Len(h) + 1 /\ Len(h) \in Nat
      /\ \A i \in 1 .. Len(h) : g[i] = h[i]
      /\ g[Len(h) + 1] = n
  BY NoteAppended
<1>2. \A i \in 1 .. Len(g) : i \in 1 .. Len(h) \/ i = Len(h) + 1
  BY <1>1
<1>3. 1 .. Len(h) \subseteq 1 .. Len(g) /\ Len(h) + 1 \in 1 .. Len(g)
  BY <1>1
<1> HIDE DEF g
<1>4. CASE n[1] # s
  BY <1>1, <1>2, <1>3, <1>4 DEF InOrder, g
<1>5. ASSUME n[1] = s, n[2] = last + 1, from <= last
      PROVE  InOrder(g, s, from, last + 1)
  <2>1. \A i \in 1 .. Len(g) : g[i][1] = s => g[i][2] \in from + 1 .. last + 1
    BY <1>1, <1>2, <1>5 DEF InOrder
  <2>2. \A m \in from + 1 .. last + 1 : \E i \in 1 .. Len(g) : g[i][1] = s /\ g[i][2] = m
    <3> SUFFICES ASSUME NEW m \in from + 1 .. last + 1 PROVE \E i \in 1 .. Len(g) : g[i][1] = s /\ g[i][2] = m
      OBVIOUS
    <3>1. CASE m = last + 1
      BY <1>1, <1>3, <1>5, <3>1
    <3>2. CASE m \in from + 1 .. last
      BY <1>1, <1>3, <3>2 DEF InOrder
    <3> QED
      BY <3>1, <3>2
  <2>3. \A i, j \in 1 .. Len(g) : g[i][1] = s /\ g[j][1] = s /\ i < j => g[i][2] < g[j][2]
    <3> SUFFICES ASSUME NEW i \in 1 .. Len(g), NEW j \in 1 .. Len(g), g[i][1] = s, g[j][1] = s, i < j
                 PROVE  g[i][2] < g[j][2]
      OBVIOUS
    <3>1. i \in 1 .. Len(h)
      BY <1>1
    <3>2. CASE j \in 1 .. Len(h)
      BY <1>1, <3>1, <3>2 DEF InOrder
    <3>3. CASE j = Len(h) + 1
      BY <1>1, <1>5, <3>1, <3>3 DEF InOrder
    <3> QED
      BY <1>2, <3>2, <3>3
  <2> QED
    BY <2>1, <2>2, <2>3 DEF InOrder
<1> QED
  BY <1>4, <1>5 DEF g

(* Where a notify is in the list, and what its next step does.              *)
LEMMA SendStep ==
  ASSUME NotifyTypes, Listening, NEW s \in Senders, Send(s)
  PROVE  /\ turn[s] \in 1 .. Len(listeners)
         /\ listeners[turn[s]] \in Receivers
         /\ <<s, sent[s]>> \in Notes
         /\ turn' \in [Senders -> Nat]
         /\ turn'[s] = (IF turn[s] = Len(listeners) THEN 0 ELSE turn[s] + 1)
         /\ \A u \in Senders \ {s} : turn'[u] = turn[u]
         /\ heard' \in [Receivers -> Seq(Notes)]
         /\ \A r \in Receivers \ {listeners[turn[s]]} : heard'[r] = heard[r]
         /\ ear[listeners[turn[s]]] # "closed" =>
              heard'[listeners[turn[s]]] = Append(heard[listeners[turn[s]]], <<s, sent[s]>>)
         /\ UNCHANGED <<listeners, ear, sent, since>>
<1>1. turn[s] \in 1 .. Len(listeners) /\ Len(listeners) \in Nat
  BY DEF Send, NotifyTypes, Listening
<1>2. listeners[turn[s]] \in Receivers
  BY <1>1 DEF NotifyTypes
<1>3. <<s, sent[s]>> \in Notes
  BY NoteParts DEF NotifyTypes
<1>4. /\ turn' \in [Senders -> Nat]
      /\ turn'[s] = (IF turn[s] = Len(listeners) THEN 0 ELSE turn[s] + 1)
      /\ \A u \in Senders \ {s} : turn'[u] = turn[u]
  BY <1>1 DEF Send, NextListener, NotifyTypes
<1>5. UNCHANGED <<listeners, ear, sent, since>>
  BY DEF Send
<1> DEFINE r0 == listeners[turn[s]]
<1>6. Append(heard[r0], <<s, sent[s]>>) \in Seq(Notes)
  BY <1>2, <1>3, NoteAppended DEF NotifyTypes
<1>7. \/ ear[r0] = "closed" /\ UNCHANGED heard
      \/ ear[r0] # "closed" /\ heard' = [heard EXCEPT ![r0] = Append(@, <<s, sent[s]>>)]
  BY DEF Send
<1>8. /\ heard' \in [Receivers -> Seq(Notes)]
      /\ \A r \in Receivers \ {r0} : heard'[r] = heard[r]
      /\ ear[r0] # "closed" => heard'[r0] = Append(heard[r0], <<s, sent[s]>>)
  BY <1>2, <1>6, <1>7 DEF NotifyTypes
<1> QED
  BY <1>1, <1>2, <1>3, <1>4, <1>5, <1>8

LEMMA ListenerAppended ==
  ASSUME NEW q \in Seq(Receivers), NEW r \in Receivers
  PROVE  /\ Append(q, r) \in Seq(Receivers)
         /\ Len(Append(q, r)) = Len(q) + 1 /\ Len(q) \in Nat
         /\ \A i \in 1 .. Len(q) : Append(q, r)[i] = q[i]
         /\ Append(q, r)[Len(q) + 1] = r
  OBVIOUS

LEMMA NotifyTypesStep ==
  ASSUME NotifyTypes, Listening, [NotifyNext]_notifyVars
  PROVE  NotifyTypes'
<1> USE DEF NotifyTypes
<1>1. ASSUME NEW s \in Senders, Notify(s)
      PROVE  NotifyTypes'
  BY <1>1 DEF Notify
<1>2. ASSUME NEW s \in Senders, Send(s)
      PROVE  NotifyTypes'
  <2> HIDE DEF NotifyTypes
  <2>1. /\ turn' \in [Senders -> Nat] /\ heard' \in [Receivers -> Seq(Notes)]
        /\ UNCHANGED <<listeners, ear, sent, since>>
    BY <1>2, SendStep
  <2> QED
    BY <2>1 DEF NotifyTypes
<1>3. ASSUME NEW r \in Receivers, Listen(r)
      PROVE  NotifyTypes'
  <2>1. listeners' \in Seq(Receivers)
    BY <1>3, ListenerAppended DEF Listen
  <2>2. UNCHANGED <<turn, sent, heard>>
    BY <1>3 DEF Listen
  <2>3. ear' \in [Receivers -> {"none", "open", "stopped", "closed"}] /\ since' \in [Receivers -> [Senders -> Nat]]
    BY <1>3 DEF Listen
  <2> QED
    BY <2>1, <2>2, <2>3
<1>4. ASSUME NEW r \in Receivers, Receive(r)
      PROVE  NotifyTypes'
  BY <1>4 DEF Receive
<1>5. ASSUME NEW r \in Receivers, CloseReceiver(r)
      PROVE  NotifyTypes'
  BY <1>5 DEF CloseReceiver
<1>6. ASSUME NEW r \in Receivers, StopReading(r)
      PROVE  NotifyTypes'
  BY <1>6 DEF StopReading
<1>7. CASE UNCHANGED notifyVars
  BY <1>7 DEF notifyVars
<1> QED
  BY <1>1, <1>2, <1>3, <1>4, <1>5, <1>6, <1>7 DEF NotifyNext, NotifyRest

LEMMA ListeningStep ==
  ASSUME NotifyTypes, Listening, [NotifyNext]_notifyVars
  PROVE  Listening'
<1> USE DEF NotifyTypes, Listening
<1>1. ASSUME NEW s \in Senders, Notify(s)
      PROVE  Listening'
  <2>1. /\ sent' = [sent EXCEPT ![s] = sent[s] + 1] /\ UNCHANGED <<listeners, ear, heard, since>>
        /\ turn' = [turn EXCEPT ![s] = IF listeners = << >> THEN 0 ELSE 1]
    <3> HIDE DEF NotifyTypes, Listening
    <3> QED
      BY <1>1 DEF Notify
  <2>2. listeners # << >> => Len(listeners) >= 1
    OBVIOUS
  <2>3. \A u \in Senders : turn'[u] <= Len(listeners')
    BY <2>1, <2>2
  <2>4. \A r \in Receivers, u \in Senders : since'[r][u] <= sent'[u] /\ (turn'[u] # 0 => since'[r][u] < sent'[u])
    <3> SUFFICES ASSUME NEW r \in Receivers, NEW u \in Senders
                 PROVE  since'[r][u] <= sent'[u] /\ (turn'[u] # 0 => since'[r][u] < sent'[u])
      OBVIOUS
    <3>1. since[r][u] \in Nat /\ sent[u] \in Nat /\ since[r][u] <= sent[u]
      OBVIOUS
    <3>2. CASE u = s
      BY <2>1, <3>1, <3>2
    <3>3. CASE u # s
      BY <2>1, <3>1, <3>3
    <3> QED
      BY <3>2, <3>3
  <2> QED
    BY <2>1, <2>3, <2>4
<1>2. ASSUME NEW s \in Senders, Send(s)
      PROVE  Listening'
  <2> HIDE DEF NotifyTypes, Listening
  <2> DEFINE r0 == listeners[turn[s]]
  <2>1. /\ turn[s] \in 1 .. Len(listeners) /\ r0 \in Receivers
        /\ turn'[s] = (IF turn[s] = Len(listeners) THEN 0 ELSE turn[s] + 1)
        /\ \A u \in Senders \ {s} : turn'[u] = turn[u]
        /\ \A r \in Receivers \ {r0} : heard'[r] = heard[r]
        /\ UNCHANGED <<listeners, ear, sent, since>>
    BY <1>2, SendStep
  <2>2. ear[r0] # "none"
    BY <2>1 DEF Listening
  <2>3. Len(listeners) \in Nat
    BY DEF NotifyTypes
  <2>4. \A r \in Receivers : ear'[r] = "none" => heard'[r] = << >>
    BY <2>1, <2>2 DEF Listening
  <2>5. \A u \in Senders : turn'[u] <= Len(listeners') /\ (turn'[u] # 0 => turn[u] # 0)
    BY <2>1, <2>3 DEF Listening
  <2> QED
    BY <2>1, <2>4, <2>5 DEF Listening
<1>3. ASSUME NEW r \in Receivers, Listen(r)
      PROVE  Listening'
  <2>1. listeners' = Append(listeners, r) /\ ear[r] = "none" /\ \A s \in Senders : turn[s] = 0
    BY <1>3 DEF Listen
  <2>2. /\ Len(listeners') = Len(listeners) + 1 /\ Len(listeners) \in Nat
        /\ \A i \in 1 .. Len(listeners) : listeners'[i] = listeners[i] /\ listeners[i] \in Receivers
        /\ listeners'[Len(listeners) + 1] = r
    BY <2>1, ListenerAppended
  <2>3. \A i \in 1 .. Len(listeners') : i \in 1 .. Len(listeners) \/ i = Len(listeners) + 1
    BY <2>2
  <2>4. 1 .. Len(listeners) \subseteq 1 .. Len(listeners') /\ Len(listeners) + 1 \in 1 .. Len(listeners')
    BY <2>2
  <2>5. \A i \in 1 .. Len(listeners) : listeners[i] # r
    BY <2>1
  <2>6. UNCHANGED <<turn, sent, heard>> /\ ear' = [ear EXCEPT ![r] = "open"] /\ since' = [since EXCEPT ![r] = sent]
    BY <1>3 DEF Listen
  <2>7. /\ \A i, j \in 1 .. Len(listeners') : listeners'[i] = listeners'[j] => i = j
        /\ \A i \in 1 .. Len(listeners') : ear'[listeners'[i]] # "none"
    BY <2>2, <2>3, <2>5, <2>6
  <2>8. \A q \in Receivers : ear'[q] # "none" => \E i \in 1 .. Len(listeners') : listeners'[i] = q
    BY <2>2, <2>4, <2>6
  <2>9. \A q \in Receivers, s \in Senders : since'[q][s] <= sent'[s] /\ (turn'[s] # 0 => since'[q][s] < sent'[s])
    BY <2>1, <2>6
  <2>10. \A q \in Receivers : ear'[q] = "none" => heard'[q] = << >>
    BY <2>6
  <2>11. \A s \in Senders : turn'[s] <= Len(listeners')
    BY <2>1, <2>2, <2>6
  <2> QED
    BY <2>7, <2>8, <2>9, <2>10, <2>11
<1>4. ASSUME NEW r \in Receivers, Receive(r)
      PROVE  Listening'
  BY <1>4 DEF Receive
<1>5. ASSUME NEW r \in Receivers, CloseReceiver(r)
      PROVE  Listening'
  BY <1>5 DEF CloseReceiver
<1>6. ASSUME NEW r \in Receivers, StopReading(r)
      PROVE  Listening'
  BY <1>6 DEF StopReading
<1>7. CASE UNCHANGED notifyVars
  BY <1>7 DEF notifyVars
<1> QED
  BY <1>1, <1>2, <1>3, <1>4, <1>5, <1>6, <1>7 DEF NotifyNext, NotifyRest

LEMMA HeardInOrderStep ==
  ASSUME NotifyTypes, Listening, HeardInOrder, [NotifyNext]_notifyVars
  PROVE  HeardInOrder'
<1> SUFFICES ASSUME NEW r \in Receivers, NEW u \in Senders, Attentive(r)'
             PROVE  InOrder(heard'[r], u, since'[r][u], Last(u, r)')
  BY DEF HeardInOrder
<1>a. Attentive(r) => InOrder(heard[r], u, since[r][u], Last(u, r))
  BY DEF HeardInOrder
<1>b. /\ since[r][u] \in Nat /\ sent[u] \in Nat /\ turn[u] \in Nat /\ heard[r] \in Seq(Notes)
      /\ Len(listeners) \in Nat
  BY DEF NotifyTypes
<1>1. ASSUME NEW s \in Senders, Notify(s)
      PROVE  InOrder(heard'[r], u, since'[r][u], Last(u, r)')
  <2>1. Attentive(r) /\ UNCHANGED <<listeners, heard, since>>
    BY <1>1 DEF Notify, Attentive
  <2>2. CASE u # s
    <3>1. turn'[u] = turn[u] /\ sent'[u] = sent[u]
      BY <1>1, <2>2 DEF Notify, NotifyTypes
    <3>2. Last(u, r)' = Last(u, r)
      BY <2>1, <3>1 DEF Last, Passed
    <3> QED
      BY <1>a, <2>1, <3>2
  <2>3. CASE u = s
    <3>1. listeners # << >>
      BY <2>1 DEF Listening, Attentive
    <3>2. turn[u] = 0 /\ turn'[u] = 1 /\ sent'[u] = sent[u] + 1
      BY <1>1, <2>3, <3>1 DEF Notify, NotifyTypes
    <3>3. Last(u, r) = sent[u] /\ Last(u, r)' = sent[u]
      BY <1>b, <3>2 DEF Last, Passed
    <3> QED
      BY <1>a, <2>1, <3>3
  <2> QED
    BY <2>2, <2>3
<1>2. ASSUME NEW s \in Senders, Send(s)
      PROVE  InOrder(heard'[r], u, since'[r][u], Last(u, r)')
  <2> DEFINE r0 == listeners[turn[s]]
             n == <<s, sent[s]>>
  <2>1. /\ turn[s] \in 1 .. Len(listeners) /\ n \in Notes
        /\ turn'[s] = (IF turn[s] = Len(listeners) THEN 0 ELSE turn[s] + 1)
        /\ \A v \in Senders \ {s} : turn'[v] = turn[v]
        /\ r # r0 => heard'[r] = heard[r]
        /\ r = r0 /\ ear[r] # "closed" => heard'[r] = Append(heard[r], n)
        /\ UNCHANGED <<listeners, ear, sent, since>>
    BY <1>2, SendStep
  <2>2. Attentive(r) /\ ear[r] # "closed"
    BY <2>1 DEF Attentive
  <2>3. n[1] = s /\ n[2] = sent[s] /\ sent[s] \in Nat
    BY DEF NotifyTypes
  <2> HIDE DEF n
  <2>4. CASE u # s
    <3>1. Last(u, r)' = Last(u, r)
      BY <2>1, <2>4 DEF Last, Passed
    <3>2. CASE r # r0
      BY <1>a, <2>1, <2>2, <3>1, <3>2
    <3>3. CASE r = r0
      <4>1. Last(u, r) \in Nat
        BY <1>b DEF Last, Passed, Listening
      <4>2. n[1] # u /\ InOrder(heard[r], u, since[r][u], Last(u, r))
        BY <1>a, <2>2, <2>3, <2>4
      <4>3. PICK last \in Nat : last = Last(u, r)
        BY <4>1
      <4>4. InOrder(Append(heard[r], n), u, since[r][u], last)
        BY <1>b, <2>1, <4>2, <4>3, HearOne
      <4> QED
        BY <2>1, <2>2, <3>1, <3>3, <4>3, <4>4
    <3> QED
      BY <3>2, <3>3
  <2>5. CASE u = s /\ r # r0
    <3>1. PICK k \in 1 .. Len(listeners) : listeners[k] = r
      BY <2>2 DEF Listening, Attentive
    <3>2. k # turn[s]
      BY <2>5, <3>1
    <3>3. Passed(u, r)' <=> Passed(u, r)
      <4>1. CASE turn[s] = Len(listeners)
        <5>1. turn'[u] = 0 /\ k \in 1 .. turn[u] - 1
          BY <1>b, <2>1, <2>5, <3>2, <4>1
        <5> QED
          BY <3>1, <5>1 DEF Passed
      <4>2. CASE turn[s] # Len(listeners)
        <5>1. turn'[u] = turn[u] + 1 /\ turn[u] # 0 /\ turn'[u] # 0
          BY <1>b, <2>1, <2>5, <4>2
        <5>2. \A i \in 1 .. turn[u] : listeners[i] = r => i \in 1 .. turn[u] - 1
          BY <1>b, <2>5
        <5>3. 1 .. turn[u] - 1 \subseteq 1 .. turn[u] /\ turn'[u] - 1 = turn[u]
          BY <1>b, <5>1
        <5> QED
          BY <2>1, <5>1, <5>2, <5>3 DEF Passed
      <4> QED
        BY <4>1, <4>2
    <3>4. Last(u, r)' = Last(u, r)
      BY <2>1, <3>3 DEF Last
    <3> QED
      BY <1>a, <2>1, <2>2, <2>5, <3>4
  <2>6. CASE u = s /\ r = r0
    <3>1. ~ Passed(u, r)
      <4>1. turn[u] # 0 /\ \A i \in 1 .. turn[u] - 1 : i \in 1 .. Len(listeners) /\ i # turn[u]
        BY <1>b, <2>1, <2>6
      <4>2. \A i \in 1 .. turn[u] - 1 : listeners[i] # r
        BY <2>1, <2>6, <4>1 DEF Listening
      <4> QED
        BY <4>1, <4>2 DEF Passed
    <3>2. Passed(u, r)'
      <4>1. CASE turn[s] = Len(listeners)
        BY <2>1, <2>6, <4>1 DEF Passed
      <4>2. CASE turn[s] # Len(listeners)
        <5>1. turn'[u] = turn[u] + 1 /\ turn[u] \in 1 .. turn'[u] - 1 /\ listeners'[turn[u]] = r
          BY <1>b, <2>1, <2>6, <4>2
        <5> QED
          BY <5>1 DEF Passed
      <4> QED
        BY <4>1, <4>2
    <3>3. since[r][u] < sent[u]
      BY <1>b, <2>1, <2>6 DEF Listening
    <3>4. Last(u, r) = sent[u] - 1 /\ Last(u, r)' = sent[u]
      BY <2>1, <3>1, <3>2 DEF Last
    <3>5. sent[u] - 1 \in Nat /\ since[r][u] <= sent[u] - 1 /\ (sent[u] - 1) + 1 = sent[u]
      BY <1>b, <3>3
    <3>6. n[1] = u /\ n[2] = (sent[u] - 1) + 1
      BY <2>3, <2>6, <3>5
    <3>7. InOrder(Append(heard[r], n), u, since[r][u], (sent[u] - 1) + 1)
      BY <1>a, <1>b, <2>1, <2>2, <3>4, <3>5, <3>6, HearOne
    <3> QED
      BY <2>1, <2>2, <2>6, <3>4, <3>5, <3>7
  <2> QED
    BY <2>4, <2>5, <2>6
<1>3. ASSUME NEW q \in Receivers, Listen(q)
      PROVE  InOrder(heard'[r], u, since'[r][u], Last(u, r)')
  <2>1. /\ ear[q] = "none" /\ turn[u] = 0 /\ UNCHANGED <<turn, sent, heard>>
        /\ ear' = [ear EXCEPT ![q] = "open"] /\ since' = [since EXCEPT ![q] = sent]
    BY <1>3 DEF Listen
  <2>2. Last(u, r) = sent[u] /\ Last(u, r)' = sent[u]
    BY <2>1 DEF Last, Passed
  <2>3. CASE r = q
    <3>1. since'[r][u] = sent[u] /\ heard'[r] = << >>
      BY <2>1, <2>3 DEF NotifyTypes, Listening
    <3> QED
      BY <1>b, <2>2, <3>1 DEF InOrder
  <2>4. CASE r # q
    <3>1. since'[r][u] = since[r][u] /\ heard'[r] = heard[r] /\ Attentive(r)
      BY <2>1, <2>4 DEF NotifyTypes, Attentive
    <3> QED
      BY <1>a, <2>2, <3>1
  <2> QED
    BY <2>3, <2>4
<1>4. CASE UNCHANGED <<listeners, turn, sent, heard, since>> /\ Attentive(r)
  <2>1. Last(u, r)' = Last(u, r)
    BY <1>4 DEF Last, Passed
  <2> QED
    BY <1>4, <1>a, <2>1
<1>5. ASSUME NEW q \in Receivers, Receive(q) \/ CloseReceiver(q) \/ StopReading(q)
      PROVE  UNCHANGED <<listeners, turn, sent, heard, since>> /\ Attentive(r)
  BY <1>5 DEF Receive, CloseReceiver, StopReading, Attentive, NotifyTypes
<1>6. ASSUME UNCHANGED notifyVars
      PROVE  UNCHANGED <<listeners, turn, sent, heard, since>> /\ Attentive(r)
  BY <1>6 DEF notifyVars, Attentive
<1> QED
  BY <1>1, <1>2, <1>3, <1>4, <1>5, <1>6 DEF NotifyNext, NotifyRest

(* Every listener that has not closed its end has every notification since *)
(* it began to listen, once and in the order of its sender: for any number *)
(* of senders, receivers and notifications and any size of the queues.     *)
THEOREM NotifyIsInOrder == NotifySpec => []NotifyInOrder
<1>1. NotifyInit => NotifyInv
  BY DEF NotifyInit, NotifyInv, NotifyTypes, Listening, HeardInOrder, Attentive
<1>2. NotifyInv /\ [NotifyNext]_notifyVars => NotifyInv'
  BY NotifyTypesStep, ListeningStep, HeardInOrderStep DEF NotifyInv
<1>3. NotifyInv => NotifyInOrder
  BY NotifyInOrderIs DEF NotifyInv
<1> QED
  BY <1>1, <1>2, <1>3, PTL DEF NotifySpec
==============================================================================
