------------------------------ MODULE Catalog -------------------------------
(***************************************************************************)
(* src/catalog/mod.rs with the relation map of SharedBufferCache, and the  *)
(* statements of src/server that change them: CREATE TABLE, DROP TABLE,    *)
(* CREATE INDEX, and SELECT ... WITH, whose common table expressions are   *)
(* relations of the one shared catalog while the statement runs.           *)
(*                                                                         *)
(* The catalog's map and the cache's have a lock each; a statement takes   *)
(* them one after the other.  Nothing keeps names unique: a lookup by name *)
(* finds any of the relations that have it.                                *)
(***************************************************************************)
EXTENDS Naturals, FiniteSets

CONSTANTS Clients,  \* connection tasks
          RelNames,
          NoOid,
          MaxOid    \* bound: the last object id that is given out

ASSUME CatalogConstants == MaxOid \in Nat /\ NoOid \notin Nat \ {0}

VARIABLES
  relations,  \* Catalog.relations: records [oid, name, columns]
  cached,     \* the keys of SharedBufferCache.rels
  indexes,    \* Catalog.indexes: records [rel, root]
  next_oid,   \* Catalog.next_oid
  call,       \* client -> the statement it executes
  overlapped, \* history: the relations dropped before they were registered
  droppedRels     \* history: the relations that a DROP TABLE has removed

catalogVars == <<relations, cached, indexes, next_oid, call, overlapped, droppedRels>>

NoCall == [pc |-> "idle", op |-> "none", oid |-> NoOid, name |-> "none", found |-> NoOid]

FirstOid == 10000

\* bootstrap makes the four system tables before the first connection; a statement
\* can name them like any other.
SystemRelations ==
  {[oid |-> 1259, name |-> "pg_class", columns |-> TRUE],
   [oid |-> 1249, name |-> "pg_attribute", columns |-> TRUE],
   [oid |-> 1247, name |-> "pg_type", columns |-> TRUE],
   [oid |-> 1250, name |-> "pg_index", columns |-> TRUE]}

CatalogInit ==
  /\ relations = SystemRelations
  /\ cached = {r.oid : r \in SystemRelations}
  /\ indexes = {}
  /\ next_oid = FirstOid
  /\ call = [c \in Clients |-> NoCall]
  /\ overlapped = {}
  /\ droppedRels = {}

Named(n) == {r \in relations : r.name = n}

Goto(c, pc) == call' = [call EXCEPT ![c] = IF pc = "idle" THEN NoCall ELSE [@ EXCEPT !.pc = pc]]

\* create_relation up to where it lets go of the catalog's lock.  The id has been
\* given out before: by create_relation for a table, by handle_select_statement
\* for a common table expression, which has no columns; the model has one of these
\* per statement.
CreateRelation(c, n, op) ==
  /\ call[c].pc = "idle"
  /\ next_oid <= MaxOid
  /\ relations' = relations \cup {[oid |-> next_oid, name |-> n, columns |-> op = "create"]}
  /\ next_oid' = next_oid + 1
  /\ call' = [call EXCEPT ![c] = [pc |-> "register", op |-> op, oid |-> next_oid, name |-> n, found |-> NoOid]]
  /\ UNCHANGED <<cached, indexes, overlapped, droppedRels>>

\* Its second half: register_relation.
RegisterRelation(c) ==
  /\ call[c].pc = "register"
  /\ cached' = cached \cup {call[c].oid}
  /\ Goto(c, IF call[c].op = "with" THEN "select" ELSE "idle")
  /\ UNCHANGED <<relations, indexes, next_oid, overlapped, droppedRels>>

\* The SELECT itself looks its table up by name.
SelectFromWith(c) ==
  /\ call[c].pc = "select"
  /\ \E oid \in IF Named(call[c].name) = {} THEN {NoOid} ELSE {r.oid : r \in Named(call[c].name)} :
       call' = [call EXCEPT ![c].pc = "remove", ![c].found = oid]
  /\ UNCHANGED <<relations, cached, indexes, next_oid, overlapped, droppedRels>>

\* execute_drop_table works on a copy of the list.  Without a relation of that
\* name it fails and changes nothing.
DropFind(c, n) ==
  /\ call[c].pc = "idle"
  /\ \E r \in Named(n) :
       call' = [call EXCEPT ![c] = [pc |-> "remove", op |-> "drop", oid |-> r.oid, name |-> n, found |-> r.oid]]
  /\ UNCHANGED <<relations, cached, indexes, next_oid, overlapped, droppedRels>>

\* The cache forgets the relation before the catalog does.
DeleteRelation_CacheFirst(c) ==
  /\ call[c].pc = "remove"
  /\ cached' = cached \ {call[c].oid}
  /\ Goto(c, "unregister")
  /\ UNCHANGED <<relations, indexes, next_oid, overlapped, droppedRels>>

\* delete_relation, first the catalog's map and then the cache's.
DeleteRelation(c) ==
  LET oid == call[c].oid
  IN  /\ call[c].pc = "remove"
      /\ relations' = {r \in relations : r.oid # oid}
      /\ overlapped' = IF \E d \in Clients : call[d].pc = "register" /\ call[d].oid = oid
                       THEN overlapped \cup {oid} ELSE overlapped
      /\ droppedRels' = IF call[c].op = "drop" THEN droppedRels \cup {oid} ELSE droppedRels
      /\ Goto(c, "unregister")
      /\ UNCHANGED <<cached, indexes, next_oid>>

UnregisterRelation(c) ==
  /\ call[c].pc = "unregister"
  /\ cached' = cached \ {call[c].oid}
  /\ Goto(c, "idle")
  /\ UNCHANGED <<relations, indexes, next_oid, overlapped, droppedRels>>

\* execute_create_index: the relation is found, then an index is registered for
\* it, whatever has become of the relation.  The root page is an object id that no
\* page has been written for.
IndexFind(c, n) ==
  /\ call[c].pc = "idle"
  /\ \E r \in Named(n) :
       call' = [call EXCEPT ![c] = [pc |-> "index", op |-> "index", oid |-> r.oid, name |-> n, found |-> r.oid]]
  /\ UNCHANGED <<relations, cached, indexes, next_oid, overlapped, droppedRels>>

RegisterIndex(c) ==
  /\ call[c].pc = "index"
  /\ next_oid + 1 <= MaxOid
  /\ indexes' = indexes \cup {[rel |-> call[c].oid, root |-> next_oid]}
  /\ next_oid' = next_oid + 2
  /\ Goto(c, "idle")
  /\ UNCHANGED <<relations, cached, overlapped, droppedRels>>

CatalogNext ==
  \E c \in Clients :
    \/ \E n \in RelNames : \/ \E op \in {"create", "with"} : CreateRelation(c, n, op)
                           \/ DropFind(c, n)
                           \/ IndexFind(c, n)
    \/ RegisterRelation(c) \/ SelectFromWith(c)
    \/ DeleteRelation(c) \/ UnregisterRelation(c) \/ RegisterIndex(c)

CatalogSpec == CatalogInit /\ [][CatalogNext]_catalogVars

-----------------------------------------------------------------------------
(* Properties *)

Executing(pc, oid) == \E c \in Clients : call[c].pc = pc /\ call[c].oid = oid

\* The two maps of create_relation and delete_relation agree: a relation of the
\* catalog is in the cache unless its creator is about to put it there, and one
\* that is only in the cache is about to leave it, unless it was dropped while it
\* was being created, which leaves it in the cache for good.  A relation of a
\* WITH clause does not outlive its statement (handle_select_statement), which
\* finds a relation of that name unless somebody's DROP TABLE took it, and every
\* index root is a page of its own.
CatalogSound ==
  /\ \A r \in relations : r.oid \in cached \/ Executing("register", r.oid)
  /\ \A oid \in cached : \/ \E r \in relations : r.oid = oid
                         \/ Executing("unregister", oid)
                         \/ oid \in overlapped
  /\ \A r \in relations : ~r.columns => \E c \in Clients : call[c].op = "with" /\ call[c].oid = r.oid
  /\ \A c \in Clients : call[c].op = "with" /\ call[c].pc \in {"remove", "unregister"} =>
       call[c].found # NoOid \/ call[c].oid \in droppedRels
  /\ \A i \in indexes : i.root \notin cached /\ \A j \in indexes : i.root = j.root => i = j
=============================================================================
