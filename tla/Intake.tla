------------------------------- MODULE Intake -------------------------------
(***************************************************************************)
(* How prospects enter a tenant: create_prospect, a paste of CSV rows      *)
(* (bulk_create_prospects_from_csv) and a discovery (discover_for_campaign *)
(* once its provider has answered).  Each looks every domain up, inserts   *)
(* the ones it does not find, and commits once at its end.                 *)
(*                                                                         *)
(* The database is PostgreSQL at READ COMMITTED.  (tenant_id,              *)
(* normalized_domain) is unique, and the index arbitrates between open     *)
(* transactions: an insert waits for a transaction that has inserted the   *)
(* same domain, fails when that one commits and goes on when it rolls      *)
(* back; of transactions that wait for each other in a circle one is       *)
(* aborted.  One tenant; prospects are never deleted.                      *)
(*                                                                         *)
(* MaxRequests bounds the requests of a behaviour.                         *)
(***************************************************************************)
EXTENDS Integers, Sequences

CONSTANTS
  Domains,      \* normalised domains
  Invalid,      \* a row without a usable name or URL
  Lists,        \* the rows of a request, in order
  None,
  Threads, MaxRequests

Kinds    == {"create", "csv", "discovery"}
Requests == 1..MaxRequests

ASSUME IntakeAssumption ==
  /\ Invalid \notin Domains
  /\ Lists \subseteq Seq(Domains \cup {Invalid})
  /\ MaxRequests \in Nat
  /\ None \notin [kind : Kinds, rows : Lists, created : SUBSET Domains,
                  outcome : {"ok", "duplicate", "unavailable"}]

VARIABLES
  owner,   \* the request that stored the prospect of a domain; 0 when there is none
  batch,   \* the request each thread is serving
  report,  \* what each request was answered
  begun    \* requests so far

vars == <<owner, batch, report, begun>>
-----------------------------------------------------------------------------
Idle == [pc |-> "idle", request |-> 0, kind |-> "create", rows |-> <<>>, next |-> 1,
         created |-> {}]

Init ==
  /\ owner = [d \in Domains |-> 0]
  /\ batch = [t \in Threads |-> Idle]
  /\ report = [r \in Requests |-> None] /\ begun = 0

Stored(d) == owner[d] # 0

\* A create is one row, and its URL has been validated with its body.
Begin(t, kind, rows) ==
  /\ batch[t].pc = "idle" /\ begun < MaxRequests
  /\ kind = "create" => Len(rows) = 1 /\ rows[1] # Invalid
  /\ begun' = begun + 1
  /\ batch' = [batch EXCEPT ![t] = [pc |-> "row", request |-> begun + 1, kind |-> kind,
                                    rows |-> rows, next |-> 1, created |-> {}]]
  /\ UNCHANGED <<owner, report>>

Row(t) == batch[t].rows[batch[t].next]

Left(t) == batch[t].next <= Len(batch[t].rows)

\* The response, or the typed error, that ends a request.
Answered(t, outcome, created) ==
  /\ report' = [report EXCEPT ![batch[t].request] =
                  [kind |-> batch[t].kind, rows |-> batch[t].rows, created |-> created,
                   outcome |-> outcome]]
  /\ batch' = [batch EXCEPT ![t] = Idle]

\* Mutant of Refuse: the session of a failed request keeps its transaction.
RefuseHolding(t, outcome) ==
  /\ report' = [report EXCEPT ![batch[t].request] =
                  [kind |-> batch[t].kind, rows |-> batch[t].rows, created |-> {},
                   outcome |-> outcome]]
  /\ batch' = [batch EXCEPT ![t] = [Idle EXCEPT !.created = batch[t].created]]
  /\ UNCHANGED <<owner, begun>>

\* A request that fails is rolled back as a whole: get_db rolls back what an
\* exception leaves open.
Refuse(t, outcome) ==
  /\ Answered(t, outcome, {})
  /\ UNCHANGED <<owner, begun>>

\* The lookup sees what is committed and what this session has flushed.
Known(t) == Row(t) \in Domains /\ (Stored(Row(t)) \/ Row(t) \in batch[t].created)

Skip(t) ==
  /\ batch[t].pc = "row" /\ Left(t)
  /\ batch[t].kind # "create" /\ (Row(t) = Invalid \/ Known(t))
  /\ batch' = [batch EXCEPT ![t].next = @ + 1]
  /\ UNCHANGED <<owner, report, begun>>

RefuseDuplicate(t) ==
  /\ batch[t].pc = "row" /\ Left(t)
  /\ batch[t].kind = "create" /\ Known(t)
  /\ Refuse(t, "duplicate")

\* Mutant of Add: the rows of a paste are not validated.
AddAnyRow(t) ==
  /\ batch[t].pc = "row" /\ Left(t) /\ ~Known(t)
  /\ batch' = [batch EXCEPT ![t].pc = "insert"]
  /\ UNCHANGED <<owner, report, begun>>

Add(t) ==
  /\ batch[t].pc = "row" /\ Left(t)
  /\ Row(t) # Invalid /\ ~Known(t)
  /\ batch' = [batch EXCEPT ![t].pc = "insert"]
  /\ UNCHANGED <<owner, report, begun>>

WaitsFor(t, u) == t # u /\ batch[t].pc = "insert" /\ Row(t) \in batch[u].created

\* Mutant of Insert: a conflict is rolled back and its row skipped, and the
\* batch goes on without the rows the rollback took with it.
InsertOrSkip(t) ==
  /\ batch[t].pc = "insert" /\ ~\E u \in Threads : WaitsFor(t, u)
  /\ batch' = [batch EXCEPT ![t].pc = "row", ![t].next = @ + 1,
                            ![t].created = IF Stored(Row(t)) THEN {} ELSE @ \cup {Row(t)}]
  /\ UNCHANGED <<owner, report, begun>>

\* The flush of a new prospect.  Only create_prospect catches the
\* IntegrityError; elsewhere it becomes a 503 for the whole request.
Insert(t) ==
  /\ batch[t].pc = "insert" /\ ~\E u \in Threads : WaitsFor(t, u)
  /\ IF Stored(Row(t))
     THEN Refuse(t, IF batch[t].kind = "create" THEN "duplicate" ELSE "unavailable")
     ELSE /\ batch' = [batch EXCEPT ![t].pc = "row", ![t].next = @ + 1,
                                    ![t].created = @ \cup {Row(t)}]
          /\ UNCHANGED <<owner, report, begun>>

\* t is on a circle of transactions that wait for each other.
Deadlocked(t) ==
  \E circle \in SUBSET Threads :
    /\ t \in circle
    /\ \A u \in circle : /\ \E w \in circle : WaitsFor(u, w)
                         /\ \E w \in circle : WaitsFor(w, u)

\* PostgreSQL ends one transaction of a circle.
Abort(t) == Deadlocked(t) /\ Refuse(t, "unavailable")

Commit(t) ==
  /\ batch[t].pc = "row" /\ ~Left(t)
  /\ owner' = [d \in Domains |-> IF d \in batch[t].created THEN batch[t].request ELSE owner[d]]
  /\ Answered(t, "ok", batch[t].created)
  /\ UNCHANGED begun

\* The process dies, or the connection: nobody is answered.
Abandon(t) ==
  /\ batch[t].pc # "idle"
  /\ batch' = [batch EXCEPT ![t] = Idle]
  /\ UNCHANGED <<owner, report, begun>>

Step(t) ==
  Skip(t) \/ RefuseDuplicate(t) \/ Add(t) \/ Insert(t) \/ Abort(t) \/ Commit(t)

Next ==
  \E t \in Threads :
    \/ \E kind \in Kinds, rows \in Lists : Begin(t, kind, rows)
    \/ Step(t) \/ Abandon(t)

\* A thread keeps running unless it waits for a lock, and PostgreSQL looks for
\* circles after deadlock_timeout.
Spec == Init /\ [][Next]_vars /\ \A t \in Threads : WF_vars(Step(t))
-----------------------------------------------------------------------------
(* Properties *)

Batch == [pc : {"idle", "row", "insert"}, request : 0..MaxRequests, kind : Kinds,
          rows : Lists \cup {<<>>}, next : Nat \ {0}, created : SUBSET Domains]
Report == [kind : Kinds, rows : Lists, created : SUBSET Domains,
           outcome : {"ok", "duplicate", "unavailable"}]

\* A row is looked at or inserted only while the request has rows left, and
\* only a domain is inserted.
Placed(b) ==
  /\ b.pc # "idle" => b.request \in Requests /\ b.rows \in Lists
  /\ b.next <= Len(b.rows) + 1
  /\ b.pc = "insert" => b.next <= Len(b.rows) /\ b.rows[b.next] \in Domains

\* Every variable keeps the shape its columns and its handlers give it.
TypeOK ==
  /\ owner \in [Domains -> 0..MaxRequests]
  /\ batch \in [Threads -> Batch] /\ \A t \in Threads : Placed(batch[t])
  /\ report \in [Requests -> Report \cup {None}]
  /\ begun \in 0..MaxRequests

\* The domains a list of rows asks for.
Asked(rows) == {rows[i] : i \in DOMAIN rows} \ {Invalid}

StoredBy(r) == {d \in Domains : owner[d] = r}

\* An answer tells the truth about what is stored, however requests for the
\* same domains overlap: a request answered "ok" stored the rows it reports as
\* created, and every other row it read is in the tenant already; one refused
\* as a duplicate has a prospect to be a duplicate of; one that failed or was
\* never answered left nothing behind.
ReportHolds ==
  \A r \in Requests :
    IF report[r] # None /\ report[r].outcome = "ok"
    THEN StoredBy(r) = report[r].created /\ \A d \in Asked(report[r].rows) : Stored(d)
    ELSE /\ StoredBy(r) = {}
         /\ report[r] # None /\ report[r].outcome = "duplicate" =>
              \A d \in Asked(report[r].rows) : Stored(d)

\* No intake request hangs on the locks of another: a circle is broken, and a
\* transaction never outlives its request.
EveryIntakeAnswered == \A t \in Threads : (batch[t].pc # "idle") ~> (batch[t].pc = "idle")

\* service.py:361 "Skips duplicates/invalid rows": a paste of CSV rows is not
\* refused for a row in it.
DuplicatesSkipped ==
  \A r \in Requests :
    report[r] # None /\ report[r].kind = "csv" => report[r].outcome = "ok"
=============================================================================
