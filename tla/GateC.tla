------------------------------- MODULE GateC -------------------------------
(***************************************************************************)
(* The Gate C copy of SalesOS' rows into the Nova database (scripts/gate_c):*)
(* the source manifest, the import, the target manifest and their          *)
(* reconciliation, while SalesOS goes on adding rows, Nova may already     *)
(* write to its own database, and the tools die at any point.              *)
(*                                                                         *)
(* Every statement sees what is committed when it runs: a tool that reads  *)
(* six tables reads six different instants.  SalesOS deletes no row, one    *)
(* import runs at a time, and what a row contains is left out, as the      *)
(* manifests leave it out.  Foreign keys are those of PostgreSQL.          *)
(***************************************************************************)
EXTENDS Integers, Sequences, FiniteSets

CONSTANTS
  Tables,       \* TABLES, in the order they are copied
  Keys,         \* the stable ids of SalesOS' rows
  OwnKeys,      \* ids of the rows Nova creates itself
  TableOf, ParentOf,       \* of any row, of SalesOS' row; its parent is Nil when it refers to none
  TenantOf, UserOf,        \* legacy owner; the user is Nil when it is null
  Nullable,     \* tables whose subject may be null
  TenantIds, UserSubjects, Reattributions,     \* the reviewed mapping, as functions
  Nil

\* Every row of SalesOS is of a table that is copied; Nova makes ids of its own.
CopyAssumption ==
  /\ Tables \in Seq(STRING) /\ OwnKeys \cap Keys = {}
  /\ \A k \in Keys : \E i \in 1..Len(Tables) : TableOf[k] = Tables[i]
  /\ \A u \in DOMAIN UserSubjects : UserSubjects[u] # Nil

VARIABLES
  source,       \* ids of the rows SalesOS has
  target,       \* committed rows of Nova's data tables
  trail,        \* whether Nova's audit_events holds a row
  export,       \* the source manifest: tables read so far, and rows
  import,       \* the running import: tables copied so far, and uncommitted rows
  evidence,     \* the target manifest, in the same way
  promised,     \* history: the source when the import of the rows there began
  reconciled    \* whether reconcile has answered ok

copyVars == <<source, target, trail, export, import, evidence, promised, reconciled>>
-----------------------------------------------------------------------------
RowsOf(keys, t) == {k \in keys : TableOf[k] = t}
KeysOf(rows)    == {r.key : r \in rows}
Unread          == [done |-> 0, rows |-> {}]
Idle            == [running |-> FALSE, done |-> 0, rows |-> {}]

CopyInit ==
  /\ source = {} /\ target = {} /\ trail = FALSE
  /\ export = Unread /\ import = Idle /\ evidence = Unread
  /\ promised = {} /\ reconciled = FALSE

\* _load_mapping and _validated_mapping.
Injective(f) == \A a, b \in DOMAIN f : f[a] = f[b] => a = b
MappingValid ==
  /\ DOMAIN TenantIds # {} /\ DOMAIN UserSubjects # {}
  /\ Injective(TenantIds) /\ Injective(UserSubjects)
  /\ \A u \in DOMAIN Reattributions :
       u \notin DOMAIN UserSubjects /\ Reattributions[u] \in DOMAIN UserSubjects

\* manifest_from_database leaves a tenant without a mapping as it is.
TenantInManifest(k) == IF TenantOf[k] \in DOMAIN TenantIds THEN TenantIds[TenantOf[k]] ELSE TenantOf[k]

User(k) == IF UserOf[k] \in DOMAIN Reattributions THEN Reattributions[UserOf[k]] ELSE UserOf[k]

\* Mutant of Convertible: a reference without a mapping is copied as it is.
ConvertibleAnyhow(k) == TRUE

\* map_legacy_row refuses it.
Convertible(k) ==
  /\ TenantOf[k] \in DOMAIN TenantIds
  /\ User(k) \in DOMAIN UserSubjects \/ (User(k) = Nil /\ TableOf[k] \in Nullable)

Converted(k) ==
  [key |-> k, tenant |-> TenantInManifest(k),
   subject |-> IF User(k) \in DOMAIN UserSubjects THEN UserSubjects[User(k)] ELSE Nil]
-----------------------------------------------------------------------------
\* SalesOS adds a row.
SourceAdds(k) ==
  /\ k \notin source /\ ParentOf[k] \in source \cup {Nil}
  /\ source' = source \cup {k}
  /\ UNCHANGED <<target, trail, export, import, evidence, promised, reconciled>>

\* Nova writes a row and its audit event before it is the write authority.
NovaAdds(k) ==
  /\ k \notin KeysOf(target)
  /\ target' = target \cup {[key |-> k, tenant |-> Nil, subject |-> Nil]} /\ trail' = TRUE
  /\ UNCHANGED <<source, export, import, evidence, promised, reconciled>>

\* write_manifest over the source, with the mapping: one SELECT per table; the
\* manifest exists when the last one is read, and is never overwritten.
ExportTable ==
  /\ export.done < Len(Tables)
  /\ export' = [done |-> export.done + 1,
                rows |-> export.rows \cup
                  {[key |-> k, tenant |-> TenantInManifest(k)] : k \in RowsOf(source, Tables[export.done + 1])}]
  /\ UNCHANGED <<source, target, trail, import, evidence, promised, reconciled>>

Imported == {r \in target : r.key \in Keys}

\* export_import: schema and audit probe, then one transaction of the target.
ImportBegin ==
  /\ ~import.running /\ MappingValid /\ ~trail
  /\ import' = [running |-> TRUE, done |-> 0, rows |-> {}]
  /\ promised' = IF Imported = {} THEN source ELSE promised
  /\ UNCHANGED <<source, target, trail, export, evidence, reconciled>>

Batch == RowsOf(source, Tables[import.done + 1])

Accepts(keys) ==
  /\ \A k \in keys : Convertible(k) /\ k \notin KeysOf(target)
  /\ \A k \in keys : ParentOf[k] \in keys \cup KeysOf(import.rows) \cup KeysOf(target) \cup {Nil}

\* Mutant of ImportTable: every table is committed on its own.
ImportTableCommitted ==
  /\ import.running /\ import.done < Len(Tables) /\ Accepts(Batch)
  /\ target' = target \cup {Converted(k) : k \in Batch}
  /\ import' = [import EXCEPT !.done = @ + 1]
  /\ UNCHANGED <<source, trail, export, evidence, promised, reconciled>>

ImportTable ==
  /\ import.running /\ import.done < Len(Tables) /\ Accepts(Batch)
  /\ import' = [import EXCEPT !.done = @ + 1, !.rows = @ \cup {Converted(k) : k \in Batch}]
  /\ UNCHANGED <<source, target, trail, export, evidence, promised, reconciled>>

\* MappingError, a primary key that is there already, or a parent that the
\* earlier SELECT did not see: the transaction is rolled back.
ImportAborts ==
  /\ import.running /\ import.done < Len(Tables) /\ ~Accepts(Batch)
  /\ import' = Idle
  /\ UNCHANGED <<source, target, trail, export, evidence, promised, reconciled>>

ImportCommits ==
  /\ import.running /\ import.done = Len(Tables)
  /\ target' = target \cup import.rows
  /\ import' = Idle
  /\ UNCHANGED <<source, trail, export, evidence, promised, reconciled>>

\* The manifest of the target, by the import that has just committed or by
\* write_manifest later; an existing file is refused.
MeasureTable ==
  /\ ~import.running /\ evidence.done < Len(Tables)
  /\ evidence' = [done |-> evidence.done + 1,
                  rows |-> evidence.rows \cup
                    {[key |-> r.key, tenant |-> r.tenant] :
                       r \in {q \in target : TableOf[q.key] = Tables[evidence.done + 1]}}]
  /\ UNCHANGED <<source, target, trail, export, import, promised, reconciled>>

\* The operator sets a manifest that does not reconcile aside.
Discard ==
  /\ evidence.done = Len(Tables) /\ ~reconciled
  /\ evidence' = Unread /\ export' = Unread
  /\ UNCHANGED <<source, target, trail, import, promised, reconciled>>

\* Mutant of Matches: only the counts are compared.
MatchesCounts == Cardinality(evidence.rows) = Cardinality(export.rows)

\* Count, id digest and tenant-ownership digest of every table.
Matches == evidence.rows = export.rows

Reconcile ==
  /\ evidence.done = Len(Tables) /\ export.done = Len(Tables) /\ Matches
  /\ reconciled' = TRUE
  /\ UNCHANGED <<source, target, trail, export, import, evidence, promised>>

\* A tool dies: an open transaction is rolled back, a half-read manifest lost.
ToolDies ==
  /\ \/ import.running /\ import' = Idle /\ UNCHANGED <<export, evidence>>
     \/ export.done \in 1..Len(Tables) - 1 /\ export' = Unread /\ UNCHANGED <<import, evidence>>
     \/ evidence.done \in 1..Len(Tables) - 1 /\ evidence' = Unread /\ UNCHANGED <<import, export>>
  /\ UNCHANGED <<source, target, trail, promised, reconciled>>

CopyNext ==
  \/ \E k \in Keys : SourceAdds(k)
  \/ \E k \in OwnKeys : NovaAdds(k)
  \/ ExportTable \/ ImportBegin \/ ImportTable \/ ImportAborts \/ ImportCommits
  \/ MeasureTable \/ Discard \/ Reconcile \/ ToolDies

CopySpec == CopyInit /\ [][CopyNext]_copyVars
-----------------------------------------------------------------------------
CopyTypeOK ==
  /\ source \subseteq Keys /\ promised \subseteq Keys
  /\ KeysOf(target) \subseteq Keys \cup OwnKeys /\ KeysOf(import.rows) \subseteq Keys
  /\ \A n \in {export.done, import.done, evidence.done} : n \in 0..Len(Tables)

AllOrNothing == Imported # {} => promised \subseteq KeysOf(target)

OwnershipReviewed ==
  \A r \in Imported \cup import.rows :
    /\ \E t \in DOMAIN TenantIds : TenantOf[r.key] = t /\ r.tenant = TenantIds[t]
    /\ r.subject = Nil => UserOf[r.key] = Nil
    /\ ParentOf[r.key] \in KeysOf(target \cup import.rows) \cup {Nil}

\* The copy is all or nothing: as soon as one row of SalesOS is in the target,
\* so is every row SalesOS had when that import began (one target transaction
\* in export_import), whichever runs failed, died or were repeated; and none is
\* there, committed or not, under an owner nobody reviewed or without its parent
\* (map_legacy_row, the foreign keys), although the tables were read apart.
ImportSound == AllOrNothing /\ OwnershipReviewed

\* A reconciliation that answered ok means that the target still has every row
\* the source manifest counted, each under the reviewed tenant of its legacy
\* one, and had no row of Nova's own when it was measured (reconcile.py).
ReconciledExact ==
  reconciled =>
    /\ \A r \in export.rows : \E q \in Imported : q.key = r.key /\ q.tenant = r.tenant
    /\ \A r \in export.rows : TenantOf[r.key] \in DOMAIN TenantIds
    /\ KeysOf(evidence.rows) \subseteq source
=============================================================================
