------------------------------ MODULE MCRecords ------------------------------
(***************************************************************************)
(* The database and the copy it may begin with, the scores and policies    *)
(* kept in it, and the list and the film they are shown in, side by side:  *)
(* each behaviour is one of a single module, chosen in the initial state,  *)
(* with the variables of the others at rest.                               *)
(***************************************************************************)
EXTENDS Schema, GateC, MeetingFilm, PageAudit, Directory, Policy, TLC

VARIABLE part

recordsVars == <<part, vars, copyVars, filmVars, auditVars, directoryVars, policyVars>>
-----------------------------------------------------------------------------
\* Two tables; a prospect of a tenant the mapping lacks; an analysis by a user
\* that the review gave to another; and a row of Nova's own.
CopiedTables == <<"prospects", "analyses">>
TableOfRow   == [k \in {"p1", "p2"} |-> "prospects"] @@ [k \in {"a1", "a2", "n1"} |-> "analyses"]
ParentOfRow  == "p1" :> Nil @@ "p2" :> Nil @@ "a1" :> "p1" @@ "a2" :> "p1"
TenantOfRow  == "p1" :> 7 @@ "p2" :> 8 @@ "a1" :> 7 @@ "a2" :> 7
UserOfRow    == "p1" :> Nil @@ "p2" :> Nil @@ "a1" :> 1 @@ "a2" :> 2
MappedTenant == 7 :> "north"
MappedUser   == 1 :> "ann"
Reattributed == 2 :> 1

\* The film as it is; its starts are checked by FilmAssumption.
StartsOf == <<0, 14, 29, 43, 61, 79, 96, 112, 130>>

\* The defaults of the two fields of a policy.
DefaultRules == [minimum_score |-> 1, daily_delivery_limit |-> 1]

ASSUME DatabaseInstance  == SchemaAssumption
ASSUME CopyInstance      == CopyAssumption
ASSUME FilmInstance      == FilmAssumption
ASSUME AuditInstance     == AuditAssumption
ASSUME DirectoryInstance == DirectoryAssumption
ASSUME PolicyInstance    == PolicyAssumption
-----------------------------------------------------------------------------
\* The database at rest: migrated, and served by every process.
Serving ==
  /\ site = [transactional |-> TRUE, migrates |-> TRUE, creates |-> TRUE, finds |-> "nothing"]
  /\ schema = Whole(Latest) /\ version = Latest /\ crashes = 0
  /\ worker = [w \in Workers |-> [at |-> "serving", work |-> <<>>]]

\* A bound on the list: three prospects have two scores between them, fewer have all.
SmallList == Cardinality(Existing) <= 2 \/ \A p \in Existing : row[p].score < 2

RecordsInit ==
  /\ part \in {"schema", "gate", "film", "audit", "directory", "policy"}
  /\ IF part = "schema" THEN Init ELSE Serving
  /\ CopyInit /\ FilmInit /\ AuditInit /\ DirectoryInit /\ PolicyInit

RunSchema    == part = "schema" /\ Next
                /\ UNCHANGED <<part, copyVars, filmVars, auditVars, directoryVars, policyVars>>
RunGate      == part = "gate" /\ CopyNext
                /\ UNCHANGED <<part, vars, filmVars, auditVars, directoryVars, policyVars>>
RunFilm      == part = "film" /\ FilmNext
                /\ UNCHANGED <<part, vars, copyVars, auditVars, directoryVars, policyVars>>
RunAudit     == part = "audit" /\ AuditNext
                /\ UNCHANGED <<part, vars, copyVars, filmVars, directoryVars, policyVars>>
RunDirectory == part = "directory" /\ DirectoryNext /\ SmallList'
                /\ UNCHANGED <<part, vars, copyVars, filmVars, auditVars, policyVars>>
RunPolicy    == part = "policy" /\ PolicyNext
                /\ UNCHANGED <<part, vars, copyVars, filmVars, auditVars, directoryVars>>

RecordsNext == RunSchema \/ RunGate \/ RunFilm \/ RunAudit \/ RunDirectory \/ RunPolicy

\* The fairness of Schema and of MeetingFilm; at rest neither has a step to take.
RecordsSpec == RecordsInit /\ [][RecordsNext]_recordsVars /\ Fairness /\ FilmFairness
-----------------------------------------------------------------------------
\* The type invariants of the six modules.
TypesOK == TypeOK /\ CopyTypeOK /\ FilmTypeOK /\ AuditTypeOK /\ DirectoryTypeOK /\ PolicyTypeOK
=============================================================================
