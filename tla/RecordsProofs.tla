---------------------------- MODULE RecordsProofs ----------------------------
(***************************************************************************)
(* Proofs about the rows Nova keeps, for any tables, fields, prospects and *)
(* number of requests.                                                     *)
(*   GateC      a copy is all or nothing and under reviewed owners, and a  *)
(*              reconciliation that answered ok means what it says         *)
(*   Policy     the policy in force is what the audit trail shows          *)
(*   Directory  a walk over the pages hides nobody, and a rank is that of  *)
(*              the best analysis                                          *)
(*   MCRecords  side by side each module is what it is alone, and a        *)
(*              database at rest is one that starts and upgrades lead to   *)
(***************************************************************************)
EXTENDS MCRecords, SchemaProofs, PresentationProofs, FiniteSetTheorems, SequenceTheorems, TLAPS

\* What the import inserts, what Nova inserts itself, and a line of the export.
Copies   == {Converted(k) : k \in Keys}
Owns     == {[key |-> k, tenant |-> Nil, subject |-> Nil] : k \in OwnKeys}
Lines    == {[key |-> k, tenant |-> TenantInManifest(k)] : k \in source}
Inserted == Imported \cup import.rows

CopyTypes ==
  /\ source \subseteq Keys /\ promised \subseteq source /\ target \subseteq Copies \cup Owns
  /\ import \in [running : BOOLEAN, done : 0..Len(Tables), rows : SUBSET Copies]
  /\ export.done \in 0..Len(Tables) /\ export.rows \subseteq Lines
  /\ evidence.done \in 0..Len(Tables)

\* An import whose target was empty has read what was promised of its tables.
Promise ==
  /\ Imported # {} => promised \subseteq KeysOf(target)
  /\ import.running /\ Imported = {} =>
       \A k \in promised : (\E i \in 1..import.done : TableOf[k] = Tables[i]) => k \in KeysOf(import.rows)

\* Rows are inserted by a running import with a valid mapping only, and a
\* committed row never counts on an uncommitted one.
Mapped ==
  /\ import.running \/ Inserted # {} => MappingValid
  /\ ~import.running => import.rows = {}
  /\ \A r \in Inserted : Convertible(r.key)
  /\ \A r \in Imported : ParentOf[r.key] \in KeysOf(target) \cup {Nil}
  /\ \A r \in import.rows : ParentOf[r.key] \in KeysOf(target) \cup KeysOf(import.rows) \cup {Nil}

\* A target manifest counts rows that are there, and a match is final.
Measured ==
  /\ \A e \in evidence.rows : \E q \in target : q.key = e.key /\ q.tenant = e.tenant
  /\ reconciled =>
       export.done = Len(Tables) /\ evidence.done = Len(Tables) /\ evidence.rows = export.rows

CopyInv == CopyTypes /\ Promise /\ Mapped /\ Measured
-----------------------------------------------------------------------------
\* The number of tables is a number.
LEMMA TablesFact == ASSUME CopyAssumption PROVE Len(Tables) \in Nat
BY DEF CopyAssumption

\* A copied row keeps its key, and is one of the target's rows of SalesOS.
LEMMA CopiesFacts ==
  /\ \A k \in Keys : Converted(k) \in Copies /\ Converted(k).key = k /\ Converted(k).tenant = TenantInManifest(k)
  /\ \A r \in Copies : r.key \in Keys /\ r = Converted(r.key)
  /\ CopyAssumption => \A r \in Owns : r.key \notin Keys
BY DEF Copies, Owns, Converted, CopyAssumption

\* Nothing is there at the start.
LEMMA CopyInitHolds == ASSUME CopyAssumption, CopyInit PROVE CopyInv
<1>1. Len(Tables) \in Nat
  BY TablesFact
<1>2. CopyTypes
  BY <1>1 DEF CopyInit, CopyTypes, Idle, Unread
<1>3. Promise /\ Mapped /\ Measured
  BY DEF CopyInit, Promise, Mapped, Measured, Imported, Inserted, Idle, Unread
<1> QED
  BY <1>2, <1>3 DEF CopyInv

\* A step that leaves both databases and the import alone keeps the copy.
LEMMA CopyKept ==
  ASSUME CopyInv, UNCHANGED <<target, import, promised>>, source \subseteq source', source' \subseteq Keys
  PROVE  Promise' /\ Mapped' /\ (promised \subseteq source)'
BY DEF CopyInv, CopyTypes, Promise, Mapped, Imported, Inserted, KeysOf

\* A row of SalesOS more.
LEMMA SourceStep == ASSUME CopyInv, NEW k \in Keys, SourceAdds(k) PROVE CopyInv'
<1>1. UNCHANGED <<target, trail, export, import, evidence, promised, reconciled>> /\ source' = source \cup {k}
  BY DEF SourceAdds
<1>2. CopyTypes'
  BY <1>1 DEF CopyInv, CopyTypes, Lines
<1>3. Promise' /\ Mapped'
  BY <1>1, CopyKept DEF CopyInv, CopyTypes
<1>4. Measured'
  BY <1>1 DEF CopyInv, Measured
<1> QED
  BY <1>2, <1>3, <1>4 DEF CopyInv

\* A row of Nova's own more.
LEMMA NovaStep == ASSUME CopyAssumption, CopyInv, NEW k \in OwnKeys, NovaAdds(k) PROVE CopyInv'
<1> DEFINE own == [key |-> k, tenant |-> Nil, subject |-> Nil]
<1>1. /\ UNCHANGED <<source, export, import, evidence, promised, reconciled>>
      /\ target' = target \cup {own} /\ own \in Owns /\ own.key = k /\ k \notin Keys
  BY DEF NovaAdds, Owns, CopyAssumption
<1> HIDE DEF own
<1>2. Imported' = Imported /\ KeysOf(target) \subseteq KeysOf(target')
  BY <1>1 DEF Imported, KeysOf
<1>3. CopyTypes'
  BY <1>1 DEF CopyInv, CopyTypes, Lines
<1>4. Promise' /\ Mapped'
  BY <1>1, <1>2 DEF CopyInv, Promise, Mapped, Inserted, KeysOf
<1>5. Measured'
  BY <1>1 DEF CopyInv, Measured
<1> QED
  BY <1>3, <1>4, <1>5 DEF CopyInv

\* The manifests: tables read, set aside, and compared.
LEMMA ManifestStep ==
  ASSUME CopyAssumption, CopyInv, ExportTable \/ MeasureTable \/ Discard \/ Reconcile
  PROVE  CopyInv'
<1>1. UNCHANGED <<source, target, import, promised>> /\ Len(Tables) \in Nat
  BY TablesFact DEF ExportTable, MeasureTable, Discard, Reconcile
<1>2. Promise' /\ Mapped' /\ (promised \subseteq source)'
  BY <1>1, CopyKept DEF CopyInv, CopyTypes
<1>3. CopyTypes' /\ Measured'
  <2>1. CASE ExportTable
    <3>1. RowsOf(source, Tables[export.done + 1]) \subseteq source
      BY DEF RowsOf
    <3>2. /\ export'.done = export.done + 1 /\ export.done < Len(Tables)
          /\ export'.rows = export.rows \cup
               {[key |-> k, tenant |-> TenantInManifest(k)] : k \in RowsOf(source, Tables[export.done + 1])}
          /\ UNCHANGED <<evidence, reconciled>>
      BY <2>1 DEF ExportTable
    <3>3. export'.rows \subseteq Lines'
      BY <1>1, <3>1, <3>2 DEF CopyInv, CopyTypes, Lines
    <3>4. CopyTypes'
      BY <1>1, <1>2, <3>2, <3>3 DEF CopyInv, CopyTypes
    <3>5. ~reconciled
      BY <1>1, <3>2 DEF CopyInv, Measured
    <3> QED
      BY <1>1, <3>2, <3>4, <3>5 DEF CopyInv, Measured
  <2>2. CASE MeasureTable
    <3>1. /\ evidence'.done = evidence.done + 1 /\ evidence.done < Len(Tables)
          /\ evidence'.rows = evidence.rows \cup
               {[key |-> r.key, tenant |-> r.tenant] :
                  r \in {q \in target : TableOf[q.key] = Tables[evidence.done + 1]}}
          /\ UNCHANGED <<export, reconciled>>
      BY <2>2 DEF MeasureTable
    <3>2. CopyTypes'
      BY <1>1, <1>2, <3>1 DEF CopyInv, CopyTypes, Lines
    <3>3. ~reconciled
      BY <1>1, <3>1 DEF CopyInv, Measured
    <3>4. \A e \in evidence'.rows : \E q \in target' : q.key = e.key /\ q.tenant = e.tenant
      BY <1>1, <3>1 DEF CopyInv, Measured
    <3> QED
      BY <3>1, <3>2, <3>3, <3>4 DEF Measured
  <2>3. CASE Discard
    BY <1>1, <1>2, <2>3 DEF Discard, CopyInv, CopyTypes, Measured, Unread, Lines
  <2>4. CASE Reconcile
    <3>1. UNCHANGED <<export, evidence>>
      BY <2>4 DEF Reconcile
    <3> QED
      BY <1>1, <1>2, <2>4, <3>1 DEF Reconcile, Matches, CopyInv, CopyTypes, Measured, Lines
  <2> QED
    BY <2>1, <2>2, <2>3, <2>4
<1> QED
  BY <1>2, <1>3 DEF CopyInv

\* The import begins: what is promised is what the source has then.
LEMMA BeginStep == ASSUME CopyAssumption, CopyInv, ImportBegin PROVE CopyInv'
<1>1. /\ UNCHANGED <<source, target, trail, export, evidence, reconciled>> /\ MappingValid /\ ~import.running
      /\ import' = [running |-> TRUE, done |-> 0, rows |-> {}]
      /\ promised' = IF Imported = {} THEN source ELSE promised
  BY DEF ImportBegin
<1>2. Imported' = Imported
  BY <1>1 DEF Imported
<1>3. CopyTypes'
  BY <1>1, TablesFact DEF CopyInv, CopyTypes, Lines
<1>4. Promise'
  BY <1>1, <1>2 DEF CopyInv, Promise
<1>5. Mapped'
  BY <1>1, <1>2 DEF CopyInv, Mapped, Inserted, MappingValid, KeysOf
<1>6. Measured'
  BY <1>1 DEF CopyInv, Measured
<1> QED
  BY <1>3, <1>4, <1>5, <1>6 DEF CopyInv

\* A table is read and inserted as a whole, or the import ends.
LEMMA TableStep == ASSUME CopyAssumption, CopyInv, ImportTable PROVE CopyInv'
<1> DEFINE new == {Converted(k) : k \in Batch}
<1>1. /\ UNCHANGED <<source, target, trail, export, evidence, promised, reconciled>>
      /\ import.running /\ import.done < Len(Tables) /\ Accepts(Batch)
      /\ import' = [running |-> TRUE, done |-> import.done + 1, rows |-> import.rows \cup new]
  BY DEF ImportTable, CopyInv, CopyTypes
<1>2. Batch \subseteq Keys /\ Batch = {k \in source : TableOf[k] = Tables[import.done + 1]}
  BY DEF CopyInv, CopyTypes, Batch, RowsOf
<1>3. new \subseteq Copies /\ KeysOf(new) = Batch
  BY <1>2, CopiesFacts DEF KeysOf
<1>4. Imported' = Imported /\ KeysOf(import'.rows) = KeysOf(import.rows) \cup Batch
  BY <1>1, <1>3 DEF Imported, KeysOf
<1> HIDE DEF new
<1>5. CopyTypes'
  BY <1>1, <1>3, TablesFact DEF CopyInv, CopyTypes, Lines
<1>6. Promise'
  <2>1. Imported' # {} => promised' \subseteq KeysOf(target')
    BY <1>1, <1>4 DEF CopyInv, Promise
  <2>2. ASSUME Imported = {}, NEW k \in promised, NEW i \in 1..import.done + 1, TableOf[k] = Tables[i]
        PROVE  k \in KeysOf(import'.rows)
    <3>1. import.done \in Nat /\ k \in source
      BY DEF CopyInv, CopyTypes
    <3>2. CASE i = import.done + 1
      BY <1>2, <1>4, <2>2, <3>1, <3>2
    <3>3. CASE i # import.done + 1
      <4>1. i \in 1..import.done
        BY <3>1, <3>3
      <4> QED
        BY <1>1, <1>4, <2>2, <4>1 DEF CopyInv, Promise
    <3> QED
      BY <3>2, <3>3
  <2> QED
    BY <1>1, <1>4, <2>1, <2>2 DEF Promise
<1>7. Mapped'
  <2>1. \A r \in new : Convertible(r.key) /\ ParentOf[r.key] \in Batch \cup KeysOf(import.rows) \cup KeysOf(target) \cup {Nil}
    BY <1>1, <1>3 DEF Accepts, KeysOf
  <2>2. MappingValid
    BY <1>1 DEF CopyInv, Mapped
  <2>3. \A r \in Inserted' : Convertible(r.key)
    BY <1>1, <1>4, <2>1 DEF CopyInv, Mapped, Inserted
  <2>4. \A r \in Imported' : ParentOf[r.key] \in KeysOf(target') \cup {Nil}
    BY <1>1, <1>4 DEF CopyInv, Mapped
  <2>5. \A r \in import'.rows : ParentOf[r.key] \in KeysOf(target') \cup KeysOf(import'.rows) \cup {Nil}
    BY <1>1, <1>4, <2>1 DEF CopyInv, Mapped
  <2> QED
    BY <1>1, <2>2, <2>3, <2>4, <2>5 DEF Mapped, MappingValid, Convertible, User
<1>8. Measured'
  BY <1>1 DEF CopyInv, Measured
<1> QED
  BY <1>5, <1>6, <1>7, <1>8 DEF CopyInv

\* The rows of all tables are committed at once.
LEMMA CommitStep == ASSUME CopyAssumption, CopyInv, ImportCommits PROVE CopyInv'
<1>1. /\ UNCHANGED <<source, trail, export, evidence, promised, reconciled>>
      /\ import.running /\ import.done = Len(Tables) /\ import' = Idle
      /\ target' = target \cup import.rows
  BY DEF ImportCommits
<1>2. import'.rows = {} /\ ~import'.running /\ import.rows \subseteq Copies
  BY <1>1 DEF Idle, CopyInv, CopyTypes
<1>3. Imported' = Imported \cup import.rows /\ KeysOf(target') = KeysOf(target) \cup KeysOf(import.rows)
  BY <1>1, <1>2, CopiesFacts DEF Imported, KeysOf
<1>4. CopyTypes'
  BY <1>1, <1>2, TablesFact DEF CopyInv, CopyTypes, Lines, Idle
<1>5. promised \subseteq KeysOf(target')
  <2>1. CASE Imported # {}
    BY <1>3, <2>1 DEF CopyInv, Promise
  <2>2. CASE Imported = {}
    <3>1. \A k \in promised : \E i \in 1..import.done : TableOf[k] = Tables[i]
      BY <1>1 DEF CopyAssumption, CopyInv, CopyTypes
    <3> QED
      BY <1>1, <1>3, <2>2, <3>1 DEF CopyInv, Promise
  <2> QED
    BY <2>1, <2>2
<1>6. Promise'
  BY <1>1, <1>2, <1>5 DEF Promise
<1>7. Mapped'
  BY <1>1, <1>2, <1>3 DEF CopyInv, Mapped, Inserted, MappingValid, Convertible, User
<1>8. Measured'
  BY <1>1 DEF CopyInv, Measured
<1> QED
  BY <1>4, <1>6, <1>7, <1>8 DEF CopyInv

\* The import is given up, or a tool dies: uncommitted rows are gone.
LEMMA GivenUp == ASSUME CopyAssumption, CopyInv, ImportAborts \/ ToolDies PROVE CopyInv'
<1>1. UNCHANGED <<source, target, trail, promised, reconciled>> /\ Len(Tables) \in Nat
  BY TablesFact DEF ImportAborts, ToolDies
<1>2. CASE import' = Idle /\ UNCHANGED <<export, evidence>>
  <2>1. import'.rows = {} /\ ~import'.running /\ Imported' = Imported
    BY <1>1, <1>2 DEF Idle, Imported
  <2>2. CopyTypes'
    BY <1>1, <1>2 DEF CopyInv, CopyTypes, Idle, Lines
  <2>3. Promise' /\ Mapped'
    BY <1>1, <2>1 DEF CopyInv, Promise, Mapped, Inserted, MappingValid, Convertible, User
  <2>4. Measured'
    BY <1>1, <1>2 DEF CopyInv, Measured
  <2> QED
    BY <2>2, <2>3, <2>4 DEF CopyInv
<1>3. CASE export.done \in 1..Len(Tables) - 1 /\ export' = Unread /\ UNCHANGED <<import, evidence>>
  <2>1. CopyTypes'
    BY <1>1, <1>3 DEF CopyInv, CopyTypes, Unread, Lines
  <2>2. ~reconciled /\ Measured'
    BY <1>1, <1>3 DEF CopyInv, Measured
  <2> QED
    BY <1>1, <1>3, <2>1, <2>2, CopyKept DEF CopyInv, CopyTypes
<1>4. CASE evidence.done \in 1..Len(Tables) - 1 /\ evidence' = Unread /\ UNCHANGED <<import, export>>
  <2>1. CopyTypes'
    BY <1>1, <1>4 DEF CopyInv, CopyTypes, Unread, Lines
  <2>2. ~reconciled /\ Measured'
    BY <1>1, <1>4 DEF CopyInv, Measured, Unread
  <2> QED
    BY <1>1, <1>4, <2>1, <2>2, CopyKept DEF CopyInv, CopyTypes
<1> QED
  BY <1>2, <1>3, <1>4 DEF ImportAborts, ToolDies
-----------------------------------------------------------------------------
\* The invariant of the copy, for any tables, rows and mapping.
THEOREM CopyInvariant == ASSUME CopyAssumption PROVE CopySpec => []CopyInv
<1>1. CopyInit => CopyInv
  BY CopyInitHolds
<1>2. ASSUME CopyInv, [CopyNext]_copyVars PROVE CopyInv'
  <2>1. CASE UNCHANGED copyVars
    BY <1>2, <2>1 DEF copyVars, CopyInv, CopyTypes, Promise, Mapped, Measured, Imported, Inserted, Lines,
                      MappingValid, Convertible, User
  <2>2. CASE CopyNext
    BY <1>2, <2>2, SourceStep, NovaStep, ManifestStep, BeginStep, TableStep, CommitStep, GivenUp DEF CopyNext
  <2> QED
    BY <1>2, <2>1, <2>2
<1> QED
  BY <1>1, <1>2, PTL DEF CopySpec

\* A copied row has its reviewed owner.
LEMMA Reviewed ==
  ASSUME CopyAssumption, MappingValid, NEW k \in Keys, Convertible(k)
  PROVE  /\ TenantOf[k] \in DOMAIN TenantIds /\ Converted(k).tenant = TenantIds[TenantOf[k]]
         /\ Converted(k).subject = Nil => UserOf[k] = Nil
<1>1. TenantOf[k] \in DOMAIN TenantIds /\ Converted(k).tenant = TenantIds[TenantOf[k]]
  BY DEF Convertible, Converted, TenantInManifest
<1>2. ASSUME Converted(k).subject = Nil PROVE UserOf[k] = Nil
  <2>1. User(k) \notin DOMAIN UserSubjects
    BY <1>2 DEF Converted, CopyAssumption
  <2>2. UserOf[k] \notin DOMAIN Reattributions
    BY <2>1 DEF User, MappingValid
  <2> QED
    BY <2>1, <2>2 DEF Convertible, User
<1> QED
  BY <1>1, <1>2

\* All or nothing, and nothing under an owner nobody reviewed
\* (export_import's one transaction, map_legacy_row).
THEOREM ImportIsSound == ASSUME CopyAssumption PROVE CopySpec => []ImportSound
<1>1. ASSUME CopyInv PROVE ImportSound
  <2>1. AllOrNothing
    BY <1>1 DEF CopyInv, Promise, AllOrNothing
  <2>2. ASSUME NEW r \in Imported \cup import.rows
        PROVE  /\ \E t \in DOMAIN TenantIds : TenantOf[r.key] = t /\ r.tenant = TenantIds[t]
               /\ r.subject = Nil => UserOf[r.key] = Nil
               /\ ParentOf[r.key] \in KeysOf(target \cup import.rows) \cup {Nil}
    <3>1. r.key \in Keys /\ r = Converted(r.key)
      BY <1>1, CopiesFacts DEF CopyInv, CopyTypes, Imported
    <3>2. MappingValid /\ Convertible(r.key)
      BY <1>1 DEF CopyInv, Mapped, Inserted
    <3>3. ParentOf[r.key] \in KeysOf(target \cup import.rows) \cup {Nil}
      BY <1>1 DEF CopyInv, Mapped, KeysOf
    <3> QED
      BY <3>1, <3>2, <3>3, Reviewed
  <2> QED
    BY <2>1, <2>2 DEF ImportSound, OwnershipReviewed
<1> QED
  BY <1>1, CopyInvariant, PTL

\* A reconciliation that answered ok stays true (reconcile.py).
THEOREM ReconciledIsExact == ASSUME CopyAssumption PROVE CopySpec => []ReconciledExact
<1>1. ASSUME CopyInv, reconciled PROVE
        /\ \A r \in export.rows : \E q \in Imported : q.key = r.key /\ q.tenant = r.tenant
        /\ \A r \in export.rows : TenantOf[r.key] \in DOMAIN TenantIds
        /\ KeysOf(evidence.rows) \subseteq source
  <2>1. \A r \in export.rows : r.key \in source /\ r.key \in Keys
    BY <1>1 DEF CopyInv, CopyTypes, Lines
  <2>2. evidence.rows = export.rows
    BY <1>1 DEF CopyInv, Measured
  <2>3. \A r \in export.rows : \E q \in Imported : q.key = r.key /\ q.tenant = r.tenant
    BY <1>1, <2>1, <2>2 DEF CopyInv, Measured, Imported
  <2>4. \A q \in Imported : TenantOf[q.key] \in DOMAIN TenantIds
    BY <1>1 DEF CopyInv, Mapped, Inserted, Convertible
  <2>5. \A r \in export.rows : TenantOf[r.key] \in DOMAIN TenantIds
    BY <2>3, <2>4
  <2> QED
    BY <2>1, <2>2, <2>3, <2>5 DEF KeysOf
<1>2. CopyInv => ReconciledExact
  BY <1>1 DEF ReconciledExact
<1> QED
  BY <1>2, CopyInvariant, PTL

\* The types, for any tables and rows.
THEOREM CopyTypeCorrect == ASSUME CopyAssumption PROVE CopySpec => []CopyTypeOK
<1>1. ASSUME CopyInv PROVE CopyTypeOK
  <2>1. KeysOf(target) \subseteq Keys \cup OwnKeys
    BY <1>1, CopiesFacts DEF CopyInv, CopyTypes, KeysOf, Owns
  <2>2. KeysOf(import.rows) \subseteq Keys
    BY <1>1, CopiesFacts DEF CopyInv, CopyTypes, KeysOf
  <2> QED
    BY <1>1, <2>1, <2>2 DEF CopyInv, CopyTypes, CopyTypeOK
<1> QED
  BY <1>1, CopyInvariant, PTL
-----------------------------------------------------------------------------
(***************************************************************************)
(* Policy: an update knows which fields others have changed since it has   *)
(* loaded the row.  The others are still as it loaded them.                *)
(***************************************************************************)
KnowsChanges(r) ==
  r.loaded # Unset => policy # Unset /\ \A f \in Fields \ r.changed : policy[f] = r.loaded[f]

PolicyInv ==
  /\ PolicyTypeOK /\ PolicyMatchesTrail
  /\ \A t \in Updaters : request[t] # Unset => KnowsChanges(request[t])

\* What an update writes, and what that changes.
LEMMA WritesPayload ==
  ASSUME PolicyAssumption, NEW r \in Pending, policy \in Payloads \cup {Unset},
         r.loaded = Unset => policy = Unset, KnowsChanges(r)
  PROVE  /\ Written(r) \in Payloads
         /\ \A f \in Fields \ r.changed : Written(r)[f] = r.payload[f]
         /\ r.loaded = Unset => Written(r) = r.payload
<1>1. r.payload \in Payloads /\ r.loaded \in Payloads \cup {Unset}
  BY DEF Pending
<1>2. CASE r.loaded = Unset
  BY <1>1, <1>2 DEF Written, Payloads
<1>3. CASE r.loaded # Unset
  <2>1. policy \in Payloads
    BY <1>3 DEF KnowsChanges
  <2>2. Written(r) = [f \in Fields |-> IF r.payload[f] # r.loaded[f] THEN r.payload[f] ELSE policy[f]]
    BY <1>3 DEF Written
  <2>3. Written(r) \in Payloads
    BY <1>1, <2>1, <2>2 DEF Payloads
  <2>4. ASSUME NEW f \in Fields \ r.changed PROVE Written(r)[f] = r.payload[f]
    BY <1>3, <2>2 DEF KnowsChanges
  <2> QED
    BY <1>3, <2>3, <2>4
<1> QED
  BY <1>2, <1>3

\* An update that commits.
LEMMA CommitUpdateKeeps ==
  ASSUME PolicyAssumption, PolicyInv, NEW t \in Updaters, CommitUpdate(t)
  PROVE  PolicyInv'
<1> DEFINE r == request[t]
           new == Written(r)
<1>1. r \in Pending /\ r # Unset /\ (r.loaded = Unset => policy = Unset) /\ KnowsChanges(r)
  BY DEF CommitUpdate, PolicyInv, PolicyTypeOK
<1>2. /\ policy' = new /\ event' = r.payload /\ blended' = r.changed /\ updates' = updates
      /\ request' = [u \in Updaters |->
           IF u = t \/ request[u] = Unset THEN Unset
           ELSE [request[u] EXCEPT !.changed = @ \cup Altered(new)]]
  BY DEF CommitUpdate
<1>3. /\ policy \in Payloads \cup {Unset} /\ updates \in 0..MaxUpdates
      /\ request \in [Updaters -> Pending \cup {Unset}]
  BY DEF PolicyInv, PolicyTypeOK
<1>4. /\ new \in Payloads /\ (r.loaded = Unset => new = r.payload)
      /\ \A f \in Fields \ r.changed : new[f] = r.payload[f]
  BY <1>1, <1>3, WritesPayload
<1>5. r.payload \in Payloads /\ r.changed \subseteq Fields
  BY <1>1 DEF Pending
<1> HIDE DEF r, new
<1>6. ASSUME NEW u \in Updaters, request'[u] # Unset
      PROVE  /\ request[u] \in Pending /\ request[u] # Unset /\ request'[u] \in Pending
             /\ request'[u].loaded = request[u].loaded
             /\ request'[u].changed = request[u].changed \cup Altered(new)
  <2>1. request[u] \in Pending /\ request[u] # Unset
        /\ request'[u] = [request[u] EXCEPT !.changed = @ \cup Altered(new)]
    BY <1>2, <1>3, <1>6
  <2>2. Altered(new) \subseteq Fields
    BY DEF Altered
  <2> QED
    BY <2>1, <2>2 DEF Pending
<1>7. PolicyTypeOK'
  <2>1. request' \in [Updaters -> Pending \cup {Unset}]
    BY <1>2, <1>6
  <2> QED
    BY <1>2, <1>3, <1>4, <1>5, <2>1 DEF PolicyTypeOK
<1>8. PolicyMatchesTrail'
  <2>1. new # Unset /\ r.payload # Unset
    BY <1>4, <1>5 DEF PolicyAssumption
  <2> QED
    BY <1>2, <1>4, <2>1 DEF PolicyMatchesTrail
<1>9. ASSUME NEW u \in Updaters, request'[u] # Unset, request'[u].loaded # Unset
      PROVE  policy' # Unset /\ \A f \in Fields \ request'[u].changed : policy'[f] = request'[u].loaded[f]
  <2>1. KnowsChanges(request[u]) /\ request[u].loaded # Unset
    BY <1>6, <1>9 DEF PolicyInv
  <2>2. policy' # Unset
    BY <1>2, <1>4 DEF PolicyAssumption
  <2>3. ASSUME NEW f \in Fields \ request'[u].changed PROVE policy'[f] = request'[u].loaded[f]
    <3>1. f \notin request[u].changed /\ f \notin Altered(new)
      BY <1>6, <1>9
    <3>2. policy[f] = request[u].loaded[f] /\ new[f] = policy[f]
      BY <2>1, <3>1 DEF KnowsChanges, Altered
    <3> QED
      BY <1>2, <1>6, <1>9, <3>2
  <2> QED
    BY <2>2, <2>3
<1> QED
  BY <1>7, <1>8, <1>9 DEF PolicyInv, KnowsChanges

\* The invariant of the policy, for any fields, values and number of updates.
THEOREM PolicyInvariant == ASSUME PolicyAssumption PROVE PolicySpec => []PolicyInv
<1>1. ASSUME PolicyInit PROVE PolicyInv
  BY <1>1 DEF PolicyInit, PolicyInv, PolicyTypeOK, PolicyMatchesTrail, PolicyAssumption
<1>2. ASSUME PolicyInv, [PolicyNext]_policyVars PROVE PolicyInv'
  <2>1. CASE UNCHANGED policyVars
    BY <1>2, <2>1 DEF policyVars, PolicyInv, PolicyTypeOK, PolicyMatchesTrail, KnowsChanges
  <2>2. ASSUME NEW t \in Updaters, NEW sent \in SUBSET Fields, NEW payload \in Payloads, Load(t, sent, payload)
        PROVE  PolicyInv'
    <3> DEFINE r == [loaded |-> policy, sent |-> sent, payload |-> Dumped(sent, payload), changed |-> {}]
    <3>1. /\ request' = [request EXCEPT ![t] = r] /\ updates' = updates + 1 /\ updates < MaxUpdates
          /\ policy' = policy /\ event' = event /\ blended' = blended
      BY <2>2 DEF Load
    <3>2. r \in Pending
      <4>1. Dumped(sent, payload) \in Payloads
        BY DEF Dumped, Payloads, PolicyAssumption
      <4> QED
        BY <1>2, <4>1 DEF PolicyInv, PolicyTypeOK, Pending
    <3>3. KnowsChanges(r)
      BY DEF KnowsChanges
    <3> HIDE DEF r
    <3>4. /\ request' \in [Updaters -> Pending \cup {Unset}]
          /\ \A u \in Updaters : request'[u] = IF u = t THEN r ELSE request[u]
      BY <1>2, <3>1, <3>2 DEF PolicyInv, PolicyTypeOK
    <3>5. PolicyTypeOK' /\ PolicyMatchesTrail'
      BY <1>2, <3>1, <3>4 DEF PolicyInv, PolicyTypeOK, PolicyMatchesTrail, PolicyAssumption
    <3>6. \A u \in Updaters : request'[u] # Unset => KnowsChanges(request[u])'
      BY <1>2, <3>1, <3>3, <3>4 DEF PolicyInv, KnowsChanges
    <3> QED
      BY <3>5, <3>6 DEF PolicyInv
  <2>3. ASSUME NEW t \in Updaters, Conflict(t) PROVE PolicyInv'
    <3>1. /\ request' = [request EXCEPT ![t] = Unset] /\ updates' = updates
          /\ policy' = policy /\ event' = event /\ blended' = blended
      BY <2>3 DEF Conflict
    <3>2. PolicyTypeOK' /\ PolicyMatchesTrail'
      BY <1>2, <3>1 DEF PolicyInv, PolicyTypeOK, PolicyMatchesTrail
    <3>3. \A u \in Updaters : request'[u] # Unset => KnowsChanges(request[u])'
      BY <1>2, <3>1 DEF PolicyInv, PolicyTypeOK, KnowsChanges
    <3> QED
      BY <3>2, <3>3 DEF PolicyInv
  <2> QED
    BY <1>2, <2>1, <2>2, <2>3, CommitUpdateKeeps DEF PolicyNext
<1> QED
  BY <1>1, <1>2, PTL DEF PolicySpec

\* The policy in force is what the trail shows (update_policy: the row and its
\* event in one transaction), for any number of concurrent updates.
THEOREM TrailShowsPolicy == ASSUME PolicyAssumption PROVE PolicySpec => []PolicyMatchesTrail
<1>1. PolicyInv => PolicyMatchesTrail
  BY DEF PolicyInv
<1> QED
  BY <1>1, PolicyInvariant, PTL

\* The types of Policy.
THEOREM PolicyTypeCorrect == ASSUME PolicyAssumption PROVE PolicySpec => []PolicyTypeOK
<1>1. PolicyInv => PolicyTypeOK
  BY DEF PolicyInv
<1> QED
  BY <1>1, PolicyInvariant, PTL
-----------------------------------------------------------------------------
(***************************************************************************)
(* Directory: while a walk reads, each prospect that it still owes is in   *)
(* the list with at least as many before it as the walk has passed; every  *)
(* analysis has loaded a score no lower than the one that is kept.         *)
(***************************************************************************)
Ahead(p) == {q \in Listed : Before(q, p)}
Rank(p)  == Cardinality(Ahead(p))

WalkOn ==
  /\ walk.reading => \A p \in owed : p \in Listed /\ Rank(p) >= walk.offset
  /\ walk.total # Nothing => walk.reading /\ (owed = {} \/ Cardinality(Listed) <= walk.total)
  /\ NothingHidden

LoadedEnough(t) ==
  analysis[t].prospect \in Existing /\ analysis[t].loaded.score >= kept[analysis[t].prospect]

ScoresSafe ==
  /\ \A t \in Analysts : analysis[t] # Nothing => LoadedEnough(t)
  /\ ScoreKept

DirectoryInv == DirectoryTypeOK /\ WalkOn /\ ScoresSafe

\* The list, and the prospects before one, are finitely many.
LEMMA ListedIsFinite ==
  ASSUME DirectoryAssumption, DirectoryTypeOK
  PROVE  /\ Listed \subseteq Existing /\ IsFiniteSet(Listed)
         /\ Cardinality(Listed) \in 0..Cardinality(Prospects)
         /\ \A p : IsFiniteSet(Ahead(p)) /\ Rank(p) \in Nat
<1>1. IsFiniteSet(Prospects) /\ Listed \subseteq Existing /\ Listed \subseteq Prospects
  BY DEF DirectoryAssumption, DirectoryTypeOK, Listed, Matching
<1>2. /\ IsFiniteSet(Listed) /\ Cardinality(Listed) <= Cardinality(Prospects)
      /\ Cardinality(Listed) \in Nat /\ Cardinality(Prospects) \in Nat
  BY <1>1, FS_Subset, FS_CardinalityType
<1>3. ASSUME NEW p PROVE IsFiniteSet(Ahead(p)) /\ Rank(p) \in Nat
  <2>1. Ahead(p) \subseteq Listed
    BY DEF Ahead
  <2> QED
    BY <1>2, <2>1, FS_Subset, FS_CardinalityType DEF Rank
<1> QED
  BY <1>1, <1>2, <1>3

\* Scores and times are numbers.
LEMMA RankedFacts ==
  ASSUME DirectoryAssumption, NEW r \in Ranked
  PROVE  /\ r.score \in Scores /\ r.created_at \in Times /\ r.status \in Statuses
         /\ r.score \in Nat /\ r.created_at \in Nat
<1>1. r.score \in Scores /\ r.created_at \in Times /\ r.status \in Statuses
  BY DEF Ranked
<1> QED
  BY <1>1 DEF DirectoryAssumption

\* Whoever is still owed stays in the list, and whoever was before it stays before
\* it.
NoneFallsBack ==
  \A p \in owed' : p \in Listed => p \in Listed' /\ Ahead(p) \subseteq Ahead(p)'

\* A write while a walk is on.
LEMMA WalkStays ==
  ASSUME DirectoryAssumption, DirectoryTypeOK, DirectoryTypeOK', WalkOn, walk' = walk,
         owed' \subseteq owed, NoneFallsBack,
         walk.total # Nothing => owed' = {} \/ Listed' \subseteq Listed
  PROVE  WalkOn'
<1>1. walk.offset \in Nat /\ (walk.total # Nothing => walk.total \in Nat)
  BY DEF DirectoryTypeOK, Walks
<1>3. ASSUME walk.reading, NEW p \in owed' PROVE p \in Listed' /\ Rank(p)' >= walk.offset
  <2>1. p \in owed /\ p \in Listed /\ Rank(p) >= walk.offset
    BY <1>3 DEF WalkOn
  <2>2. p \in Listed' /\ Ahead(p) \subseteq Ahead(p)'
    BY <1>3, <2>1 DEF NoneFallsBack
  <2>3. IsFiniteSet(Ahead(p)') /\ Rank(p)' \in Nat /\ Rank(p) \in Nat
    <3>1. IsFiniteSet(Prospects) /\ Ahead(p)' \subseteq Prospects
      BY DEF Ahead, Listed, Matching, DirectoryTypeOK, DirectoryAssumption
    <3>2. IsFiniteSet(Ahead(p)') /\ Rank(p)' \in Nat
      BY <3>1, FS_Subset, FS_CardinalityType DEF Rank
    <3> QED
      BY <3>2, ListedIsFinite
  <2>4. Rank(p) <= Rank(p)'
    BY <2>2, <2>3, FS_Subset DEF Rank
  <2> QED
    BY <1>1, <2>1, <2>2, <2>3, <2>4
<1>4. ASSUME walk.total # Nothing
      PROVE  walk.reading /\ (owed' = {} \/ Cardinality(Listed)' <= walk.total)
  <2>1. walk.reading /\ (owed = {} \/ Cardinality(Listed) <= walk.total)
    BY <1>4 DEF WalkOn
  <2>2. CASE owed' = {} \/ owed = {}
    BY <2>1, <2>2
  <2>3. CASE Listed' \subseteq Listed /\ Cardinality(Listed) <= walk.total
    <3>1. /\ IsFiniteSet(Listed) /\ Cardinality(Listed) \in Nat
          /\ Cardinality(Listed') \in Nat /\ Cardinality(Listed') <= Cardinality(Listed)
      BY <2>3, ListedIsFinite, FS_Subset, FS_CardinalityType
    <3> QED
      BY <1>1, <1>4, <2>1, <2>3, <3>1
  <2> QED
    BY <1>4, <2>1, <2>2, <2>3
<1>5. NothingHidden'
  BY DEF WalkOn, NothingHidden
<1> QED
  BY <1>3, <1>4, <1>5 DEF WalkOn

\* A row that is written leaves the others alone.
LEMMA StoredRow ==
  ASSUME DirectoryAssumption, DirectoryTypeOK, NEW p \in Existing, NEW new \in Ranked, Store(p, new)
  PROVE  /\ Existing' = Existing /\ row'[p] = new
         /\ \A q \in Existing : row'[q] \in Ranked /\ (q # p => row'[q] = row[q])
         /\ owed' \subseteq owed
<1>1. row' = [row EXCEPT ![p] = new]
  BY DEF Store
<1>2. Existing' = Existing /\ row'[p] = new /\ \A q \in Existing : q # p => row'[q] = row[q]
  BY <1>1 DEF Existing
<1>3. \A q \in Existing : row'[q] \in Ranked
  BY <1>2 DEF DirectoryTypeOK
<1> QED
  BY <1>2, <1>3 DEF Store

\* A row changes its score, its status or both: whoever is owed from then on stays
\* where it is, with everyone before it that was.
LEMMA StoreWalk ==
  ASSUME DirectoryAssumption, DirectoryTypeOK, DirectoryTypeOK', WalkOn, walk' = walk,
         NEW p \in Existing, NEW new \in Ranked, new.created_at = row[p].created_at, Store(p, new)
  PROVE  WalkOn'
<1> DEFINE stays == walk.status \in {Nothing, new.status}
<1>1. /\ Existing' = Existing /\ row'[p] = new
      /\ \A q \in Existing : q # p => row'[q] = row[q]
      /\ owed' \subseteq owed /\ owed' \cap Missed(p, new) = {}
  BY StoredRow DEF Store
<1>2. /\ p \in Listed' <=> stays
      /\ \A q \in Existing \ {p} : q \in Listed' <=> q \in Listed
      /\ Listed \subseteq Existing /\ Listed' \subseteq Existing
  BY <1>1 DEF Listed, Matching
<1>3. /\ row[p].score \in Nat /\ new.score \in Nat /\ row[p].created_at \in Nat
      /\ \A q \in Existing : row[q].score \in Nat /\ row[q].created_at \in Nat
  BY RankedFacts DEF DirectoryTypeOK
<1>4. ASSUME NEW r \in owed', r \in Listed, p \in Listed
      PROVE  /\ r = p => stays /\ new.score <= row[p].score
             /\ Before(p, r) => stays /\ (new.score >= row[p].score \/ new.score > row[r].score)
  <2>1. r \notin Missed(p, new) /\ r \in owed /\ r \in Existing
    BY <1>1, <1>2, <1>4
  <2>2. /\ r = p => stays /\ ~(new.score > row[p].score)
        /\ Before(p, r) => stays /\ ~(new.score < row[p].score /\ new.score <= row[r].score)
    BY <1>4, <2>1 DEF Missed
  <2> HIDE DEF stays
  <2> QED
    BY <1>3, <2>1, <2>2
<1> HIDE DEF stays
<1>5. ASSUME NEW r \in owed', r \in Listed PROVE r \in Listed'
  BY <1>2, <1>4, <1>5
<1>6. ASSUME NEW r \in owed', r \in Listed, NEW q \in Ahead(r)
      PROVE  q \in Ahead(r)'
  <2>1. q \in Listed /\ Before(q, r) /\ q \in Existing /\ r \in Existing
    BY <1>2, <1>6 DEF Ahead
  <2>2. q # r
    BY <1>3, <2>1 DEF Before
  <2>3. CASE q = p
    <3>1. stays /\ (new.score >= row[p].score \/ new.score > row[r].score)
      BY <1>4, <1>6, <2>1, <2>3
    <3>2. row'[q] = new /\ row'[r] = row[r] /\ q \in Listed'
      BY <1>1, <1>2, <2>1, <2>2, <2>3, <3>1
    <3>3. Before(q, r)'
      BY <1>3, <2>1, <2>3, <3>1, <3>2 DEF Before
    <3> QED
      BY <3>2, <3>3 DEF Ahead
  <2>4. CASE r = p
    <3>1. new.score <= row[p].score
      BY <1>4, <1>6, <2>1, <2>4
    <3>2. row'[r] = new /\ row'[q] = row[q] /\ q \in Listed'
      BY <1>1, <1>2, <2>1, <2>2, <2>4
    <3>3. Before(q, r)'
      BY <1>3, <2>1, <2>4, <3>1, <3>2 DEF Before
    <3> QED
      BY <3>2, <3>3 DEF Ahead
  <2>5. CASE q # p /\ r # p
    <3>1. row'[r] = row[r] /\ row'[q] = row[q] /\ q \in Listed'
      BY <1>1, <1>2, <2>1, <2>5
    <3> QED
      BY <2>1, <3>1 DEF Ahead, Before
  <2> QED
    BY <2>3, <2>4, <2>5
<1>7. NoneFallsBack
  BY <1>5, <1>6 DEF NoneFallsBack
<1>8. ASSUME walk.total # Nothing PROVE owed' = {} \/ Listed' \subseteq Listed
  <2>1. CASE p \in Listed \/ ~stays
    BY <1>2, <2>1
  <2>2. CASE p \notin Listed /\ stays
    <3>1. Missed(p, new) = owed
      BY <1>8, <2>2 DEF Missed, stays
    <3> QED
      BY <1>1, <3>1
  <2> QED
    BY <2>1, <2>2
<1> QED
  BY <1>1, <1>7, <1>8, WalkStays

\* Rows that come in move nobody forward, wherever they land.
LEMMA AddRowsWalk ==
  ASSUME DirectoryAssumption, DirectoryTypeOK, DirectoryTypeOK', WalkOn,
         NEW new \in SUBSET Prospects, NEW s \in Scores, NEW c \in Times, AddRows(new, s, c)
  PROVE  WalkOn'
<1>1. /\ Existing' = Existing \cup new /\ \A p \in Existing : row'[p] = row[p]
      /\ \A p \in new : row'[p].status = "qualified"
      /\ walk' = walk /\ owed' \subseteq owed
      /\ walk.total # Nothing /\ walk.status \in {Nothing, "qualified"} => owed' = {}
  BY DEF AddRows, Existing
<1>2. Listed \subseteq Listed' /\ Listed \subseteq Existing
  BY <1>1 DEF Listed, Matching
<1>3. ASSUME NEW p \in Listed, NEW q \in Ahead(p) PROVE q \in Ahead(p)'
  BY <1>1, <1>2, <1>3 DEF Ahead, Before
<1>4. NoneFallsBack
  BY <1>2, <1>3 DEF NoneFallsBack
<1>5. walk.total # Nothing => owed' = {} \/ Listed' \subseteq Listed
  <2>1. walk.status \notin {Nothing, "qualified"} => Listed' \subseteq Listed
    BY <1>1 DEF Listed, Matching
  <2> QED
    BY <1>1, <2>1
<1> QED
  BY <1>1, <1>4, <1>5, WalkStays

\* What one SELECT returns is the list, each prospect once, and whoever is tied with no
\* other has exactly those before it in front.
LEMMA OrderRanks ==
  ASSUME DirectoryAssumption, DirectoryTypeOK, NEW o \in Orders
  PROVE  /\ o \in [1..Cardinality(Listed) -> Listed] /\ Len(o) = Cardinality(Listed)
         /\ \A p \in Listed : \E i \in 1..Cardinality(Listed) :
              o[i] = p /\ ((\A q \in Listed : ~Tied(p, q)) => Rank(p) = i - 1)
<1> DEFINE n == Cardinality(Listed)
<1>1. IsFiniteSet(Listed) /\ n \in Nat
  BY ListedIsFinite, FS_CardinalityType
<1>2. /\ o \in [1..n -> Listed] /\ \A i, j \in 1..n : i # j => o[i] # o[j]
      /\ \A i, j \in 1..n : i < j => ~Before(o[j], o[i])
  BY DEF Orders, SetToSeqs
<1> HIDE DEF n
<1>3. Len(o) = n
  BY <1>1, <1>2
<1>4. \A p \in Listed : \E i \in 1..n : o[i] = p
  <2>1. o \in Injection(1..n, Listed)
    BY <1>2 DEF Injection, IsInjective
  <2>2. Cardinality(1..n) = Cardinality(Listed)
    BY <1>1, FS_Interval DEF n
  <2>3. o \in Surjection(1..n, Listed)
    BY <1>1, <2>1, <2>2, FS_Injection
  <2> QED
    BY <2>3 DEF Surjection
<1>5. ASSUME NEW p \in Listed, NEW i \in 1..n, o[i] = p, \A q \in Listed : ~Tied(p, q)
      PROVE  Rank(p) = i - 1
  <2>1. ASSUME NEW j \in 1..i - 1 PROVE o[j] \in Ahead(p)
    <3>1. j \in 1..n /\ j < i /\ o[j] \in Listed /\ o[j] # p
      BY <1>1, <1>2, <1>5, <2>1
    <3>2. ~Before(p, o[j]) /\ ~Tied(p, o[j])
      BY <1>2, <1>5, <3>1
    <3> QED
      BY <3>1, <3>2 DEF Tied, Ahead
  <2>2. ASSUME NEW q \in Ahead(p) PROVE \E j \in 1..i - 1 : o[j] = q
    <3>1. q \in Listed /\ Before(q, p)
      BY <2>2 DEF Ahead
    <3>2. PICK j \in 1..n : o[j] = q
      BY <1>4, <3>1
    <3>3. q # p
      BY <3>1, RankedFacts DEF Before, DirectoryTypeOK, Listed, Matching
    <3>4. ~(i < j) /\ i # j
      BY <1>2, <1>5, <3>1, <3>2, <3>3
    <3> QED
      BY <1>1, <3>2, <3>4
  <2> DEFINE f == [j \in 1..i - 1 |-> o[j]]
  <2>3. f \in [1..i - 1 -> Ahead(p)] /\ \A j, k \in 1..i - 1 : f[j] = f[k] => j = k
    <3>1. \A j, k \in 1..i - 1 : j \in 1..n /\ k \in 1..n
      BY <1>1
    <3> QED
      BY <1>2, <2>1, <3>1
  <2>4. \A q \in Ahead(p) : \E j \in 1..i - 1 : f[j] = q
    BY <2>2
  <2> HIDE DEF f
  <2>5. f \in Injection(1..i - 1, Ahead(p))
    BY <2>3 DEF Injection, IsInjective
  <2>6. f \in Surjection(1..i - 1, Ahead(p))
    BY <2>3, <2>4 DEF Surjection
  <2>7. Cardinality(1..i - 1) = Cardinality(Ahead(p))
    BY <2>5, <2>6, ListedIsFinite, FS_Injection
  <2>8. Cardinality(1..i - 1) = i - 1
    BY <1>1, FS_Interval
  <2> QED
    BY <2>7, <2>8 DEF Rank
<1>6. \A p \in Listed : \E i \in 1..n : o[i] = p /\ ((\A q \in Listed : ~Tied(p, q)) => Rank(p) = i - 1)
  BY <1>4, <1>5
<1> QED
  BY <1>2, <1>3, <1>6 DEF n

\* The elements of a sequence from the a-th on to the b-th.
LEMMA PageShows ==
  ASSUME NEW S, NEW o \in Seq(S), NEW a \in Nat, NEW b \in Nat, b <= Len(o)
  PROVE  /\ \A i \in a + 1..b : o[i] \in ToSet(SubSeq(o, a + 1, b))
         /\ ToSet(SubSeq(o, a + 1, b)) \subseteq S
<1> DEFINE s == SubSeq(o, a + 1, b)
<1>1. CASE a + 1 <= b
  <2>1. /\ s \in Seq(S) /\ Len(s) = b - a
        /\ \A j \in 1..b - a : s[j] = o[a + j]
    BY <1>1, SubSeqProperties
  <2> HIDE DEF s
  <2>2. DOMAIN s = 1..b - a /\ \A j \in DOMAIN s : s[j] \in S
    BY <2>1
  <2>3. ASSUME NEW i \in a + 1..b PROVE o[i] \in ToSet(s)
    <3>1. i - a \in 1..b - a /\ a + (i - a) = i
      OBVIOUS
    <3> QED
      BY <2>1, <2>2, <3>1 DEF ToSet
  <2> QED
    BY <2>2, <2>3 DEF ToSet, s
<1>2. CASE a + 1 > b
  <2>1. s \in Seq(S) /\ Len(s) = 0 /\ a + 1..b = {}
    BY <1>2, SubSeqProperties
  <2> HIDE DEF s
  <2>2. DOMAIN s = {}
    BY <2>1
  <2> QED
    BY <2>1, <2>2 DEF ToSet, s
<1> QED
  BY <1>1, <1>2

\* A page is read: whoever is still owed comes after it.
LEMMA RowsWalk ==
  ASSUME DirectoryAssumption, DirectoryTypeOK, WalkOn, Rows
  PROVE  WalkOn' /\ walk' \in Walks /\ owed' \subseteq owed
<1> DEFINE n == Cardinality(Listed)
           until(o) == Higher(walk.offset, Lower(walk.offset + Limit, Len(o)))
           last(o)  == Lower(until(o), Len(o))
           shown(o) == ToSet(SubSeq(o, walk.offset + 1, last(o)))
<1>1. PICK o \in Orders :
        /\ walk' = IF until(o) < walk.total THEN [walk EXCEPT !.total = Nothing, !.offset = until(o)]
                   ELSE NoWalk
        /\ owed' = {p \in owed \ shown(o) : \A q \in Listed : ~Tied(p, q)}
  BY DEF Rows
<1>2. /\ walk.total # Nothing /\ row' = row /\ walk.reading /\ (owed = {} \/ n <= walk.total)
  BY DEF Rows, WalkOn
<1>3. /\ walk \in Walks /\ walk.offset \in 0..Cardinality(Prospects) /\ Cardinality(Prospects) \in Nat
      /\ walk.total \in 0..Cardinality(Prospects) /\ n \in 0..Cardinality(Prospects) /\ Limit \in Nat
      /\ Nothing \notin Nat /\ Nothing \notin Statuses
  BY <1>2, ListedIsFinite, FS_CardinalityType DEF DirectoryTypeOK, Walks, DirectoryAssumption
<1>4. /\ o \in [1..n -> Listed] /\ Len(o) = n
      /\ \A p \in Listed : \E i \in 1..n : o[i] = p /\ ((\A q \in Listed : ~Tied(p, q)) => Rank(p) = i - 1)
  BY OrderRanks
<1> HIDE DEF n
<1>5. /\ until(o) \in 0..Cardinality(Prospects) /\ until(o) >= walk.offset
      /\ last(o) \in Nat /\ last(o) <= n /\ (last(o) = until(o) \/ last(o) = n)
      /\ n \in Nat /\ until(o) \in Nat /\ walk.offset \in Nat /\ walk.total \in Nat
  BY <1>3, <1>4 DEF Higher, Lower
<1> DEFINE u == until(o)
           l == last(o)
           sh == shown(o)
<1>6. \A i \in walk.offset + 1..l : o[i] \in sh
  <2>1. o \in Seq(Listed) /\ l \in Nat /\ l <= Len(o) /\ walk.offset \in Nat /\ sh = ToSet(SubSeq(o, walk.offset + 1, l))
    BY <1>4, <1>5
  <2> HIDE DEF l, sh
  <2> QED
    BY <2>1, PageShows
<1>7. /\ walk' = IF u < walk.total THEN [walk EXCEPT !.total = Nothing, !.offset = u] ELSE NoWalk
      /\ owed' = {p \in owed \ sh : \A q \in Listed : ~Tied(p, q)}
      /\ u \in 0..Cardinality(Prospects) /\ u >= walk.offset /\ u \in Nat
      /\ l \in Nat /\ l <= n /\ (l = u \/ l = n)
  BY <1>1, <1>5
<1> HIDE DEF until, last, shown, u, l, sh
<1>8. /\ walk' \in Walks /\ walk'.total = Nothing /\ (walk'.reading <=> u < walk.total)
      /\ u < walk.total => walk'.offset = u /\ walk'.status = walk.status
  <2>1. CASE u < walk.total
    <3>1. walk' = [walk EXCEPT !.total = Nothing, !.offset = u]
      BY <1>7, <2>1
    <3>2. walk' \in Walks
      BY <1>3, <1>7, <3>1 DEF Walks
    <3>3. /\ walk'.total = Nothing /\ walk'.offset = u
          /\ walk'.reading = walk.reading /\ walk'.status = walk.status
      BY <1>3, <3>1 DEF Walks
    <3> QED
      BY <1>2, <1>3, <2>1, <3>2, <3>3 DEF Walks
  <2>2. CASE ~(u < walk.total)
    BY <1>3, <1>7, <2>2 DEF Walks, NoWalk
  <2> QED
    BY <2>1, <2>2
<1>9. ASSUME NEW p \in owed' PROVE p \in Listed /\ Rank(p) >= u /\ u < walk.total
  <2>1. p \in owed /\ (\A q \in Listed : ~Tied(p, q)) /\ p \notin sh /\ n <= walk.total
    BY <1>2, <1>7, <1>9
  <2>2. p \in Listed /\ Rank(p) >= walk.offset
    BY <1>2, <2>1 DEF WalkOn
  <2>3. PICK i \in 1..n : o[i] = p /\ Rank(p) = i - 1
    BY <1>4, <2>1, <2>2
  <2>4. i \notin walk.offset + 1..l
    BY <1>6, <2>1, <2>3
  <2>5. i \in Nat /\ i <= n
    BY <1>5, <2>3
  <2>6. i > u
    BY <1>5, <1>7, <2>2, <2>3, <2>4, <2>5
  <2> QED
    BY <1>5, <1>7, <2>1, <2>2, <2>3, <2>5, <2>6
<1>10. ASSUME u < walk.total, NEW p \in owed' PROVE p \in Listed' /\ Rank(p)' >= u
  <2>1. Listed' = Listed
    BY <1>2, <1>8, <1>10 DEF Listed, Matching, Existing
  <2>2. Rank(p)' = Rank(p)
    BY <1>2, <2>1 DEF Rank, Ahead, Before
  <2> QED
    BY <1>9, <1>10, <2>1, <2>2
<1>11. NothingHidden'
  BY <1>8, <1>9 DEF NothingHidden
<1> QED
  BY <1>7, <1>8, <1>10, <1>11 DEF WalkOn

\* Rows come in, and nothing else changes.
LEMMA AddRowsKeeps ==
  ASSUME DirectoryAssumption, DirectoryInv,
         NEW new \in SUBSET Prospects, NEW s \in Scores, NEW c \in Times, AddRows(new, s, c)
  PROVE  DirectoryInv'
<1> DEFINE first == [score |-> s, created_at |-> c, status |-> "qualified"]
<1>1. /\ Existing' = Existing \cup new /\ new \cap Existing = {}
      /\ \A p \in Existing : row'[p] = row[p]
      /\ \A p \in new : row'[p] = first
      /\ UNCHANGED <<analysis, walk, writes>>
      /\ owed' \subseteq owed
      /\ kept' = [p \in Prospects |-> IF p \in new THEN s ELSE kept[p]]
  BY DEF AddRows, Existing
<1>2. DirectoryTypeOK /\ WalkOn /\ ScoresSafe
  BY DEF DirectoryInv
<1>3. first \in Ranked /\ first.score = s /\ s \in Nat
  BY DEF Ranked, DirectoryAssumption
<1> HIDE DEF first
<1>4. /\ kept' \in [Prospects -> Scores] /\ \A p \in new : kept'[p] = s
      /\ \A p \in Existing : kept'[p] = kept[p]
  BY <1>1, <1>2 DEF DirectoryTypeOK
<1>5. DirectoryTypeOK'
  BY <1>1, <1>2, <1>3, <1>4 DEF DirectoryTypeOK
<1>6. WalkOn'
  BY <1>2, <1>5, AddRowsWalk
<1>7. ASSUME NEW t \in Analysts, analysis'[t] # Nothing PROVE LoadedEnough(t)'
  <2>1. LoadedEnough(t)
    BY <1>1, <1>2, <1>7 DEF ScoresSafe
  <2> QED
    BY <1>1, <1>4, <2>1 DEF LoadedEnough
<1>8. ScoreKept'
  <2>1. ASSUME NEW p \in new PROVE row'[p].score >= kept'[p]
    BY <1>1, <1>3, <1>4
  <2>2. ASSUME NEW p \in Existing PROVE row'[p].score >= kept'[p]
    BY <1>1, <1>2, <1>4 DEF ScoresSafe, ScoreKept
  <2> QED
    BY <1>1, <2>1, <2>2 DEF ScoreKept
<1> QED
  BY <1>5, <1>6, <1>7, <1>8 DEF DirectoryInv, ScoresSafe

\* The walk does not see which requests analyse.
LEMMA WalkUnmoved ==
  ASSUME WalkOn, row' = row, walk' = walk, owed' = owed
  PROVE  WalkOn'
<1>1. Listed' = Listed
  BY DEF Listed, Matching, Existing
<1>2. \A p : Rank(p)' = Rank(p)
  BY <1>1 DEF Rank, Ahead, Before
<1> QED
  BY <1>1, <1>2 DEF WalkOn, NothingHidden

LEMMA AnalyseKeeps ==
  ASSUME DirectoryAssumption, DirectoryInv, NEW t \in Analysts, NEW p \in Prospects, Analyse(t, p)
  PROVE  DirectoryInv'
<1> DEFINE a == [prospect |-> p, loaded |-> row[p]]
<1>1. /\ p \in Existing /\ analysis' = [analysis EXCEPT ![t] = a]
      /\ writes' = writes + 1 /\ writes < MaxWrites
      /\ row' = row /\ walk' = walk /\ owed' = owed /\ kept' = kept
  BY DEF Analyse
<1>2. DirectoryTypeOK /\ WalkOn /\ ScoresSafe
  BY DEF DirectoryInv
<1>3. a \in Analysed /\ a.prospect = p /\ a.loaded = row[p]
  BY <1>1, <1>2 DEF DirectoryTypeOK, Analysed
<1> HIDE DEF a
<1>4. /\ analysis' \in [Analysts -> Analysed \cup {Nothing}] /\ analysis'[t] = a
      /\ \A u \in Analysts \ {t} : analysis'[u] = analysis[u]
  BY <1>1, <1>2, <1>3 DEF DirectoryTypeOK
<1>5. DirectoryTypeOK'
  BY <1>1, <1>2, <1>4 DEF DirectoryTypeOK, Existing, DirectoryAssumption
<1>6. WalkOn'
  BY <1>1, <1>2, WalkUnmoved
<1>7. ASSUME NEW u \in Analysts, analysis'[u] # Nothing PROVE LoadedEnough(u)'
  <2>1. CASE u = t
    BY <1>1, <1>2, <1>3, <1>4, <2>1 DEF LoadedEnough, ScoresSafe, ScoreKept, Existing
  <2>2. CASE u # t
    <3>1. analysis'[u] = analysis[u] /\ LoadedEnough(u)
      BY <1>2, <1>4, <1>7, <2>2 DEF ScoresSafe
    <3> QED
      BY <1>1, <3>1 DEF LoadedEnough, Existing
  <2> QED
    BY <2>1, <2>2
<1>8. ScoreKept'
  BY <1>1, <1>2 DEF ScoresSafe, ScoreKept, Existing
<1> QED
  BY <1>5, <1>6, <1>7, <1>8 DEF DirectoryInv, ScoresSafe

LEMMA AbandonKeeps ==
  ASSUME DirectoryAssumption, DirectoryInv, NEW t \in Analysts, Abandon(t)
  PROVE  DirectoryInv'
<1>1. /\ analysis' = [analysis EXCEPT ![t] = Nothing]
      /\ row' = row /\ walk' = walk /\ owed' = owed /\ kept' = kept /\ writes' = writes
  BY DEF Abandon
<1>2. DirectoryTypeOK /\ WalkOn /\ ScoresSafe
  BY DEF DirectoryInv
<1>3. /\ analysis' \in [Analysts -> Analysed \cup {Nothing}] /\ analysis'[t] = Nothing
      /\ \A u \in Analysts \ {t} : analysis'[u] = analysis[u]
  BY <1>1, <1>2 DEF DirectoryTypeOK
<1>4. DirectoryTypeOK'
  BY <1>1, <1>2, <1>3 DEF DirectoryTypeOK, Existing
<1>5. WalkOn'
  BY <1>1, <1>2, WalkUnmoved
<1>6. ASSUME NEW u \in Analysts, analysis'[u] # Nothing PROVE LoadedEnough(u)'
  <2>1. analysis'[u] = analysis[u] /\ LoadedEnough(u)
    BY <1>2, <1>3, <1>6 DEF ScoresSafe
  <2> QED
    BY <1>1, <2>1 DEF LoadedEnough, Existing
<1>7. ScoreKept'
  BY <1>1, <1>2 DEF ScoresSafe, ScoreKept, Existing
<1> QED
  BY <1>4, <1>5, <1>6, <1>7 DEF DirectoryInv, ScoresSafe

\* An operator's score is kept, but for an analysis that has loaded a lower one.
LEMMA EditKeeps ==
  ASSUME DirectoryAssumption, DirectoryInv, NEW p \in Prospects, NEW s \in Scores,
         NEW status \in Statuses, Edit(p, s, status)
  PROVE  DirectoryInv'
<1> DEFINE new  == [row[p] EXCEPT !.score = s, !.status = status]
           busy == \E t \in Analysts : Runs(t, p)
           keep == IF busy THEN Lower(kept[p], s) ELSE s
<1>1. DirectoryTypeOK /\ WalkOn /\ ScoresSafe
  BY DEF DirectoryInv
<1>2. /\ p \in Existing /\ Store(p, new) /\ writes' = writes + 1 /\ writes < MaxWrites
      /\ analysis' = analysis /\ walk' = walk
      /\ kept' = [kept EXCEPT ![p] = keep]
  BY DEF Edit
<1>3. /\ new \in Ranked /\ new.created_at = row[p].created_at /\ new.score = s
      /\ s \in Nat /\ kept[p] \in Scores /\ kept[p] \in Nat
  BY <1>1, <1>2 DEF DirectoryTypeOK, Ranked, DirectoryAssumption
<1>4. keep \in Scores /\ keep <= s /\ (busy => keep <= kept[p])
  BY <1>3 DEF Lower
<1> HIDE DEF new, keep
<1>5. /\ Existing' = Existing /\ row'[p] = new /\ owed' \subseteq owed
      /\ \A q \in Existing : row'[q] \in Ranked /\ (q # p => row'[q] = row[q])
  BY <1>1, <1>2, <1>3, StoredRow
<1>6. /\ kept' \in [Prospects -> Scores] /\ kept'[p] = keep
      /\ \A q \in Prospects \ {p} : kept'[q] = kept[q]
  BY <1>1, <1>2, <1>4 DEF DirectoryTypeOK
<1>7. DirectoryTypeOK'
  BY <1>1, <1>2, <1>5, <1>6 DEF DirectoryTypeOK, DirectoryAssumption
<1>8. WalkOn'
  BY <1>1, <1>2, <1>3, <1>7, StoreWalk
<1>9. ASSUME NEW t \in Analysts, analysis'[t] # Nothing PROVE LoadedEnough(t)'
  <2>1. /\ LoadedEnough(t) /\ analysis[t] # Nothing /\ analysis[t].prospect \in Prospects
        /\ analysis[t].loaded.score \in Nat
    BY <1>1, <1>2, <1>9, RankedFacts DEF ScoresSafe, DirectoryTypeOK, Analysed
  <2>2. CASE analysis[t].prospect = p
    <3>1. busy
      BY <2>1, <2>2 DEF Runs
    <3>2. keep <= kept[p] /\ keep \in Nat
      BY <1>4, <3>1 DEF DirectoryAssumption
    <3> QED
      BY <1>2, <1>3, <1>5, <1>6, <2>1, <2>2, <3>2 DEF LoadedEnough
  <2>3. CASE analysis[t].prospect # p
    BY <1>2, <1>5, <1>6, <2>1, <2>3 DEF LoadedEnough
  <2> QED
    BY <2>2, <2>3
<1>10. ScoreKept'
  <2>1. row'[p].score >= kept'[p]
    BY <1>3, <1>4, <1>5, <1>6 DEF DirectoryAssumption
  <2>2. \A q \in Existing \ {p} : row'[q].score >= kept'[q]
    BY <1>1, <1>5, <1>6 DEF ScoresSafe, ScoreKept, DirectoryTypeOK
  <2> QED
    BY <1>5, <2>1, <2>2 DEF ScoreKept
<1> QED
  BY <1>7, <1>8, <1>9, <1>10 DEF DirectoryInv, ScoresSafe

\* A new status leaves the score.
LEMMA AdvanceKeeps ==
  ASSUME DirectoryAssumption, DirectoryInv, NEW p \in Prospects, NEW status \in Statuses,
         Advance(p, status)
  PROVE  DirectoryInv'
<1> DEFINE new == [row[p] EXCEPT !.status = status]
<1>1. DirectoryTypeOK /\ WalkOn /\ ScoresSafe
  BY DEF DirectoryInv
<1>2. /\ p \in Existing /\ Store(p, new) /\ writes' = writes + 1 /\ writes < MaxWrites
      /\ analysis' = analysis /\ walk' = walk /\ kept' = kept
  BY DEF Advance
<1>3. new \in Ranked /\ new.created_at = row[p].created_at /\ new.score = row[p].score
  BY <1>1, <1>2 DEF DirectoryTypeOK, Ranked
<1> HIDE DEF new
<1>4. /\ Existing' = Existing /\ row'[p] = new /\ owed' \subseteq owed
      /\ \A q \in Existing : row'[q] \in Ranked /\ (q # p => row'[q] = row[q])
  BY <1>1, <1>2, <1>3, StoredRow
<1>5. DirectoryTypeOK'
  BY <1>1, <1>2, <1>4 DEF DirectoryTypeOK, DirectoryAssumption
<1>6. WalkOn'
  BY <1>1, <1>2, <1>3, <1>5, StoreWalk
<1>7. \A t \in Analysts : analysis'[t] # Nothing => LoadedEnough(t)'
  BY <1>1, <1>2, <1>4 DEF ScoresSafe, LoadedEnough
<1>8. ScoreKept'
  <2>1. \A q \in Existing : row'[q].score = row[q].score
    BY <1>3, <1>4
  <2> QED
    BY <1>1, <1>2, <1>4, <2>1 DEF ScoresSafe, ScoreKept
<1> QED
  BY <1>5, <1>6, <1>7, <1>8 DEF DirectoryInv, ScoresSafe

\* What an analysis stores is no lower than what it loaded, nor than what is
\* kept; an analysis that ends last leaves at least what is kept from then on.
LEMMA CommitScoreKeeps ==
  ASSUME DirectoryAssumption, DirectoryInv, NEW t \in Analysts, NEW s \in Scores, CommitScore(t, s)
  PROVE  DirectoryInv'
<1> DEFINE a == analysis[t]
           p == a.prospect
           old == a.loaded
           assigned == [old EXCEPT !.score = Raised(@, s), !.status = "analysis_ready"]
           stored == Flushed(row[p], old, assigned)
           shared == \E u \in Analysts \ {t} : Runs(u, p)
           keep == IF old.score = row[p].score THEN Higher(row[p].score, s) ELSE stored.score
<1>1. DirectoryTypeOK /\ WalkOn /\ ScoresSafe
  BY DEF DirectoryInv
<1>2. /\ a # Nothing /\ Store(p, stored) /\ analysis' = [analysis EXCEPT ![t] = Nothing]
      /\ kept' = IF shared THEN kept ELSE [kept EXCEPT ![p] = keep]
      /\ walk' = walk /\ writes' = writes
  BY DEF CommitScore
<1>3. /\ p \in Existing /\ p \in Prospects /\ old \in Ranked /\ row[p] \in Ranked
      /\ old.score >= kept[p] /\ row[p].score >= kept[p]
  <2>1. a \in Analysed /\ LoadedEnough(t)
    BY <1>1, <1>2 DEF DirectoryTypeOK, ScoresSafe
  <2>2. p \in Existing /\ p \in Prospects /\ old \in Ranked /\ old.score >= kept[p]
    BY <2>1 DEF Analysed, LoadedEnough
  <2> QED
    BY <1>1, <2>2 DEF DirectoryTypeOK, ScoresSafe, ScoreKept
<1>4. /\ old.score \in Scores /\ row[p].score \in Scores /\ kept[p] \in Scores
      /\ old.score \in Nat /\ row[p].score \in Nat /\ kept[p] \in Nat /\ s \in Nat
  BY <1>1, <1>3, RankedFacts DEF DirectoryTypeOK, DirectoryAssumption
<1>5. /\ stored \in Ranked /\ stored.created_at = row[p].created_at
      /\ stored.score = IF Raised(old.score, s) = old.score THEN row[p].score ELSE Raised(old.score, s)
  <2>1. /\ assigned \in Ranked /\ assigned.score = Raised(old.score, s)
        /\ assigned.created_at = old.created_at
    BY <1>3, <1>4 DEF Ranked, Raised, Higher, DirectoryAssumption
  <2>2. DOMAIN row[p] = {"score", "created_at", "status"}
    BY <1>3 DEF Ranked
  <2> HIDE DEF assigned
  <2>3. stored = [c \in {"score", "created_at", "status"} |->
                    IF assigned[c] = old[c] THEN row[p][c] ELSE assigned[c]]
    BY <2>2 DEF Flushed
  <2> HIDE DEF stored, a, p, old
  <2>4. /\ stored = [score |-> IF assigned.score = old.score THEN row[p].score ELSE assigned.score,
                     created_at |-> row[p].created_at,
                     status |-> IF assigned.status = old.status THEN row[p].status ELSE assigned.status]
    BY <2>1, <2>3
  <2> QED
    BY <1>3, <2>1, <2>4 DEF Ranked
<1> HIDE DEF stored
<1>6. /\ stored.score \in Nat /\ stored.score >= kept[p] /\ keep \in Scores /\ stored.score >= keep
  BY <1>3, <1>4, <1>5 DEF Raised, Higher
<1> HIDE DEF keep
<1>7. /\ Existing' = Existing /\ row'[p] = stored /\ owed' \subseteq owed
      /\ \A q \in Existing : row'[q] \in Ranked /\ (q # p => row'[q] = row[q])
  BY <1>1, <1>2, <1>3, <1>5, StoredRow
<1>8. /\ analysis' \in [Analysts -> Analysed \cup {Nothing}] /\ analysis'[t] = Nothing
      /\ \A u \in Analysts \ {t} : analysis'[u] = analysis[u]
  BY <1>1, <1>2 DEF DirectoryTypeOK
<1>9. /\ kept' \in [Prospects -> Scores] /\ \A q \in Prospects \ {p} : kept'[q] = kept[q]
      /\ kept'[p] = IF shared THEN kept[p] ELSE keep
  BY <1>1, <1>2, <1>3, <1>6 DEF DirectoryTypeOK
<1>10. DirectoryTypeOK'
  BY <1>1, <1>2, <1>7, <1>8, <1>9 DEF DirectoryTypeOK
<1>11. WalkOn'
  BY <1>1, <1>2, <1>3, <1>5, <1>10, StoreWalk
<1>12. ASSUME NEW u \in Analysts, analysis'[u] # Nothing PROVE LoadedEnough(u)'
  <2>1. u # t /\ analysis'[u] = analysis[u] /\ LoadedEnough(u) /\ analysis[u] # Nothing
    BY <1>1, <1>8, <1>12 DEF ScoresSafe
  <2>2. analysis[u].prospect = p => shared
    BY <2>1 DEF Runs
  <2>3. analysis[u].prospect \in Prospects
    BY <1>1, <2>1 DEF LoadedEnough, DirectoryTypeOK
  <2>4. kept'[analysis[u].prospect] = kept[analysis[u].prospect]
    BY <1>9, <2>2, <2>3
  <2> QED
    BY <1>7, <2>1, <2>4 DEF LoadedEnough
<1>13. ScoreKept'
  <2>1. row'[p].score >= kept'[p]
    BY <1>6, <1>7, <1>9
  <2>2. \A q \in Existing \ {p} : row'[q].score >= kept'[q]
    BY <1>1, <1>7, <1>9 DEF ScoresSafe, ScoreKept, DirectoryTypeOK
  <2> QED
    BY <1>7, <2>1, <2>2 DEF ScoreKept
<1> QED
  BY <1>10, <1>11, <1>12, <1>13 DEF DirectoryInv, ScoresSafe

\* The reader's own steps leave rows and analyses alone.
LEMMA ReaderKeeps ==
  ASSUME DirectoryAssumption, DirectoryInv,
         (\E status \in Statuses \cup {Nothing} : Open(status)) \/ Count \/ Rows
  PROVE  DirectoryInv'
<1>1. DirectoryTypeOK /\ WalkOn /\ ScoresSafe
  BY DEF DirectoryInv
<1>2. /\ UNCHANGED <<row, analysis, kept, writes>>
      /\ Existing' = Existing
  BY DEF Open, Count, Rows, Existing
<1>3. ScoresSafe'
  BY <1>1, <1>2 DEF ScoresSafe, ScoreKept, LoadedEnough
<1>4. ASSUME walk' \in Walks, owed' \subseteq Existing
      PROVE  DirectoryTypeOK'
  BY <1>1, <1>2, <1>4 DEF DirectoryTypeOK
<1>5. ASSUME NEW status \in Statuses \cup {Nothing}, Open(status) PROVE DirectoryInv'
  <2>1. /\ walk' = [reading |-> TRUE, status |-> status, total |-> Nothing, offset |-> 0]
        /\ owed' = Matching(status)
    BY <1>5 DEF Open, NoWalk
  <2>2. Cardinality(Prospects) \in Nat /\ Matching(status) \subseteq Existing /\ Existing \subseteq Prospects
    BY <1>1, FS_CardinalityType DEF DirectoryAssumption, Matching, DirectoryTypeOK
  <2>3. walk' \in Walks /\ owed' \subseteq Existing
    BY <2>1, <2>2 DEF Walks
  <2>4. DirectoryTypeOK'
    BY <1>4, <2>1, <2>3
  <2>5. Listed' = Matching(status) /\ \A p : Rank(p)' \in Nat
    <3>1. Listed' = Matching(status)
      BY <1>2, <2>1 DEF Listed, Matching
    <3>2. \A p : IsFiniteSet(Ahead(p)')
      BY <2>2, <3>1, FS_Subset DEF Ahead, DirectoryAssumption
    <3> QED
      BY <3>1, <3>2, FS_CardinalityType DEF Rank
  <2>6. WalkOn'
    BY <2>1, <2>5 DEF WalkOn, NothingHidden
  <2> QED
    BY <1>3, <2>4, <2>6 DEF DirectoryInv
<1>6. CASE Count
  <2>1. walk.reading /\ walk.total = Nothing /\ owed' = owed
        /\ walk' = [walk EXCEPT !.total = Cardinality(Listed)]
    BY <1>6 DEF Count
  <2>2. walk \in Walks /\ Cardinality(Listed) \in 0..Cardinality(Prospects) /\ Cardinality(Listed) \in Nat
    BY <1>1, ListedIsFinite DEF DirectoryTypeOK
  <2>3. walk' \in Walks
    BY <2>1, <2>2 DEF Walks
  <2>4. /\ walk'.reading = walk.reading /\ walk'.total = Cardinality(Listed) /\ walk'.offset = walk.offset
        /\ walk'.status = walk.status
    BY <2>1, <2>2 DEF Walks
  <2>5. Listed' = Listed
    BY <1>2, <2>4 DEF Listed, Matching
  <2>6. \A p : Rank(p)' = Rank(p)
    BY <1>2, <2>5 DEF Rank, Ahead, Before
  <2>7. WalkOn'
    BY <1>1, <2>1, <2>2, <2>4, <2>5, <2>6 DEF WalkOn, NothingHidden
  <2> QED
    BY <1>1, <1>3, <1>4, <2>1, <2>3, <2>4, <2>7 DEF DirectoryInv, DirectoryTypeOK
<1>7. CASE Rows
  <2>1. WalkOn' /\ walk' \in Walks /\ owed' \subseteq Existing
    BY <1>1, <1>7, RowsWalk DEF DirectoryTypeOK
  <2> QED
    BY <1>3, <1>4, <2>1 DEF DirectoryInv
<1> QED
  BY <1>5, <1>6, <1>7

\* The invariant of the list, for any prospects, scores, statuses, page size and
\* analysts.
THEOREM DirectoryInvariant == ASSUME DirectoryAssumption PROVE DirectorySpec => []DirectoryInv
<1>1. ASSUME DirectoryInit PROVE DirectoryInv
  <2>1. DirectoryTypeOK
    <3>1. Cardinality(Prospects) \in Nat
      BY FS_CardinalityType DEF DirectoryAssumption
    <3> QED
      BY <1>1, <3>1 DEF DirectoryInit, NoWalk, DirectoryTypeOK, Walks, Existing, DirectoryAssumption
  <2>2. WalkOn
    BY <1>1 DEF DirectoryInit, NoWalk, WalkOn, NothingHidden
  <2>3. ScoresSafe
    BY <1>1 DEF DirectoryInit, ScoresSafe, ScoreKept, Existing
  <2> QED
    BY <2>1, <2>2, <2>3 DEF DirectoryInv
<1>2. ASSUME DirectoryInv, [DirectoryNext]_directoryVars PROVE DirectoryInv'
  <2>1. CASE UNCHANGED directoryVars
    <3>1. DirectoryTypeOK' /\ ScoresSafe'
      BY <1>2, <2>1 DEF directoryVars, DirectoryInv, DirectoryTypeOK, ScoresSafe, ScoreKept, LoadedEnough, Existing
    <3>2. WalkOn'
      BY <1>2, <2>1, WalkUnmoved DEF directoryVars, DirectoryInv
    <3> QED
      BY <3>1, <3>2 DEF DirectoryInv
  <2>2. CASE \E new \in SUBSET Prospects, s \in Scores, c \in Times : AddRows(new, s, c)
    BY <1>2, <2>2, AddRowsKeeps
  <2>3. ASSUME NEW t \in Analysts,
               \/ Abandon(t) \/ \E p \in Prospects : Analyse(t, p) \/ \E s \in Scores : CommitScore(t, s)
        PROVE  DirectoryInv'
    BY <1>2, <2>3, AbandonKeeps, AnalyseKeeps, CommitScoreKeeps
  <2>4. ASSUME NEW p \in Prospects, NEW status \in Statuses,
               (\E s \in Scores : Edit(p, s, status)) \/ Advance(p, status)
        PROVE  DirectoryInv'
    BY <1>2, <2>4, EditKeeps, AdvanceKeeps
  <2>5. CASE (\E status \in Statuses \cup {Nothing} : Open(status)) \/ Count \/ Rows
    BY <1>2, <2>5, ReaderKeeps
  <2>6. CASE DirectoryNext
    <3>1. CASE \E c \in Times : \/ \E p \in Prospects, s \in Scores : CreateProspect(p, s, c)
                              \/ \E new \in SUBSET Prospects : \/ PasteProspects(new, c)
                                                              \/ \E s \in Scores : DiscoverProspects(new, s, c)
      <4>1. 0 \in Scores /\ \A p \in Prospects : {p} \in SUBSET Prospects
        BY DEF DirectoryAssumption
      <4>2. \E new \in SUBSET Prospects, s \in Scores, c \in Times : AddRows(new, s, c)
        BY <3>1, <4>1 DEF CreateProspect, PasteProspects, DiscoverProspects
      <4> QED
        BY <2>2, <4>2
    <3> QED
      BY <2>3, <2>4, <2>5, <2>6, <3>1 DEF DirectoryNext
  <2> QED
    BY <1>2, <2>1, <2>6
<1> QED
  BY <1>1, <1>2, PTL DEF DirectorySpec

\* A walk over the pages of the list, filtered by a status or not, shows everyone
\* it may not excuse (count, OFFSET, LIMIT and has_more of list_prospects), for any
\* page size, any number of prospects and any order the database chooses among
\* equals, while scores and statuses change and rows come in.
THEOREM WalkHidesNobody == ASSUME DirectoryAssumption PROVE DirectorySpec => []NothingHidden
<1>1. DirectoryInv => NothingHidden
  BY DEF DirectoryInv, WalkOn
<1> QED
  BY <1>1, DirectoryInvariant, PTL

\* Analyses never leave a prospect lower than they found it when none was running
\* (run_analysis), for any number of them, overlapping in any way, and whatever
\* score the prospect was created with.
THEOREM ScoreNeverLost == ASSUME DirectoryAssumption PROVE DirectorySpec => []ScoreKept
<1>1. DirectoryInv => ScoreKept
  BY DEF DirectoryInv, ScoresSafe
<1> QED
  BY <1>1, DirectoryInvariant, PTL

\* The types of Directory.
THEOREM DirectoryTypeCorrect == ASSUME DirectoryAssumption PROVE DirectorySpec => []DirectoryTypeOK
<1>1. DirectoryInv => DirectoryTypeOK
  BY DEF DirectoryInv
<1> QED
  BY <1>1, DirectoryInvariant, PTL
-----------------------------------------------------------------------------
(* Side by side. *)

\* A step of one module leaves the variables of the others alone.
LEMMA RecordsStep ==
  ASSUME [RecordsNext]_recordsVars
  PROVE  /\ [Next]_vars /\ [CopyNext]_copyVars /\ [FilmNext]_filmVars
         /\ [AuditNext]_auditVars /\ [DirectoryNext]_directoryVars /\ [PolicyNext]_policyVars
<1>1. CASE RunSchema
  BY <1>1 DEF RunSchema
<1>2. CASE RunGate
  BY <1>2 DEF RunGate
<1>3. CASE RunFilm
  BY <1>3 DEF RunFilm
<1>4. CASE RunAudit
  BY <1>4 DEF RunAudit
<1>5. CASE RunDirectory
  BY <1>5 DEF RunDirectory
<1>6. CASE RunPolicy
  BY <1>6 DEF RunPolicy
<1>7. CASE UNCHANGED recordsVars
  BY <1>7 DEF recordsVars
<1> QED
  BY <1>1, <1>2, <1>3, <1>4, <1>5, <1>6, <1>7 DEF RecordsNext

\* A database that is migrated and served has nothing left to do and all there is.
LEMMA ServingSound == ASSUME SchemaAssumption, Serving PROVE IInv
<1>1. /\ site = [transactional |-> TRUE, migrates |-> TRUE, creates |-> TRUE, finds |-> "nothing"]
      /\ schema = Whole(Latest) /\ version = Latest /\ crashes = 0
      /\ worker = [w \in Workers |-> [at |-> "serving", work |-> <<>>]]
  BY DEF Serving
<1>2. site \in Sites /\ site.migrates /\ crashes \in 0..MaxCrashes /\ version \in 0..Latest
  BY <1>1, RevisionFacts DEF Sites, SchemaAssumption
<1>3. [at |-> "serving", work |-> <<>>] \in [at : Places, work : Seq(Statement)]
  BY EmptyWork DEF Places
<1>4. Types
  BY <1>1, <1>2, <1>3 DEF Types
<1>5. StampTruthful
  BY <1>1 DEF StampTruthful
<1>6. Database
  BY <1>1, <1>2 DEF Database
<1>7. Sound([at |-> "serving", work |-> <<>>])
  BY <1>1, EmptyWork DEF Sound
<1>8. \A w \in Workers : Sound(worker[w])
  BY <1>1, <1>7
<1> QED
  BY <1>4, <1>5, <1>6, <1>8 DEF IInv

\* Every behaviour of the run is one of the copy, the film, the audit, the
\* list and the policies, so the theorems about them hold for it.
THEOREM SideBySide ==
  RecordsSpec => CopySpec /\ FilmSpec /\ AuditSpec /\ DirectorySpec /\ PolicySpec
<1>1. RecordsInit => CopyInit /\ FilmInit /\ AuditInit /\ DirectoryInit /\ PolicyInit
  BY DEF RecordsInit
<1>2. [RecordsNext]_recordsVars =>
        /\ [CopyNext]_copyVars /\ [FilmNext]_filmVars
        /\ [AuditNext]_auditVars /\ [DirectoryNext]_directoryVars /\ [PolicyNext]_policyVars
  BY RecordsStep
<1> QED
  BY <1>1, <1>2, PTL DEF RecordsSpec, CopySpec, FilmSpec, AuditSpec, DirectorySpec, PolicySpec

\* What is recorded of the schema is there, in the run too, where the database
\* either starts or is at rest.
THEOREM DatabaseSideBySide == ASSUME SchemaAssumption PROVE RecordsSpec => []IInv
<1>1. RecordsInit => IInv
  BY InitSound, ServingSound DEF RecordsInit
<1>2. IInv /\ [RecordsNext]_recordsVars => IInv'
  BY RecordsStep, StepsKeep
<1> QED
  BY <1>1, <1>2, PTL DEF RecordsSpec

\* The types of the six modules, side by side, whatever the constants.
THEOREM RecordsTypes ==
  ASSUME SchemaAssumption, CopyAssumption, FilmAssumption, AuditAssumption, DirectoryAssumption,
         PolicyAssumption
  PROVE  RecordsSpec => []TypesOK
<1>1. IInv => TypeOK
  BY InvariantTypes
<1>2. TypeOK /\ CopyTypeOK /\ FilmTypeOK /\ AuditTypeOK /\ DirectoryTypeOK /\ PolicyTypeOK => TypesOK
  BY DEF TypesOK
<1> QED
  BY <1>1, <1>2, SideBySide, DatabaseSideBySide, CopyTypeCorrect, FilmTypeCorrect, AuditTypeCorrect,
     DirectoryTypeCorrect, PolicyTypeCorrect, PTL
=============================================================================
