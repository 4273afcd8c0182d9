------------------------------ MODULE Schema ------------------------------
(***************************************************************************)
(* How a database comes by its schema: the container's entrypoint          *)
(* (alembic upgrade head), the application's lifespan and ensure_schema    *)
(* (db/bootstrap.py), as several processes start, fail, die and are        *)
(* started again over one database.                                        *)
(*                                                                         *)
(* PostgreSQL runs DDL in transactions, SQLite statement by statement; a   *)
(* table stands for its indexes too.  MaxCrashes bounds the crashes.       *)
(***************************************************************************)
EXTENDS Integers, Sequences

CONSTANTS Workers, MaxCrashes

SchemaAssumption == MaxCrashes \in Nat

VARIABLES
  site,      \* what the deployment fixes, and the database it starts from
  schema,    \* the tables and later columns that exist
  version,   \* alembic_version: 0 when the table is missing or empty
  worker,    \* per process: where it is, and the statements it has left
  crashes    \* crashes so far

vars == <<site, schema, version, worker, crashes>>
-----------------------------------------------------------------------------
Adds(pieces) == [adds |-> pieces, stamps |-> 0]
Stamps(n)    == [adds |-> {}, stamps |-> n]

Initial == <<Adds({"campaigns"}), Adds({"prospects"}), Adds({"analyses"}),
             Adds({"proposals"}), Adds({"policies"}), Adds({"suppressions"})>>
AuditAndWindow == <<Adds({"audit"}), Adds({"window"})>>
Candidates     == <<Adds({"candidates"})>>

Revisions == <<Initial, AuditAndWindow, Candidates>>
Latest      == Len(Revisions)

PiecesOf(work) == UNION {work[i].adds : i \in DOMAIN work}
Whole(n)       == UNION {PiecesOf(Revisions[i]) : i \in 1..n}

\* Base.metadata.create_all: a table has all its columns at once.
CreateAll ==
  <<Adds({"campaigns"}), Adds({"prospects"}), Adds({"analyses", "candidates"}),
    Adds({"proposals", "window"}), Adds({"policies"}), Adds({"suppressions"}), Adds({"audit"})>>

\* Mutant of Revision: the revision is recorded before its statements ran.
RevisionStampedFirst(n) == <<Stamps(n)>> \o Revisions[n]

\* A revision records itself when its upgrade() has returned.
Revision(n) == Revisions[n] \o <<Stamps(n)>>

\* Mutant of Upgrade: the whole chain is run, whatever revision is recorded.
UpgradeFromStart(n) == Revision(1) \o Revision(2) \o Revision(3)

\* alembic upgrade head, from revision n.
Upgrade(n) ==
  CASE n = 0 -> Revision(1) \o Revision(2) \o Revision(3)
    [] n = 1 -> Revision(2) \o Revision(3)
    [] n = 2 -> Revision(3)
    [] OTHER -> <<>>

\* It looks first which tables are there, and passes over those.
Missing == [i \in DOMAIN CreateAll |->
  IF CreateAll[i].adds \cap schema = {} THEN CreateAll[i] ELSE Adds({})]

\* Mutant of Bootstrap: the tables are left without a revision.
BootstrapUnstamped == Missing

\* ensure_schema on an empty database: create_all, then stamp head.
Bootstrap == Missing \o <<Stamps(Latest)>>
-----------------------------------------------------------------------------
Sites == [transactional : BOOLEAN,   \* PostgreSQL
          migrates      : BOOLEAN,   \* NOVA_RUN_MIGRATIONS
          creates       : BOOLEAN,   \* NOVA_DB_AUTO_CREATE
          finds         : {"nothing", "unstamped", "revision 1", "revision 2"}]

Found(s) == CASE s.finds = "revision 1" -> 1 [] s.finds = "revision 2" -> 2 [] OTHER -> 0
Down     == [at |-> "down", work |-> <<>>]

Init ==
  /\ site \in Sites
  /\ version = Found(site)
  /\ schema = IF site.finds = "unstamped" THEN Whole(1) \cup {"audit"} ELSE Whole(version)
  /\ worker = [w \in Workers |-> Down] /\ crashes = 0

Goes(w, at, work) ==
  /\ worker' = [worker EXCEPT ![w] = [at |-> at, work |-> work]]
  /\ UNCHANGED <<site, crashes>>

\* The entrypoint of a container that was started, or started again.
Start(w) ==
  /\ worker[w].at = "down"
  /\ IF site.migrates THEN Goes(w, "upgrading", Upgrade(version)) ELSE Goes(w, "booting", <<>>)
  /\ UNCHANGED <<schema, version>>

\* lifespan: an empty database is created, any other is served as it is.
Boot(w) ==
  /\ worker[w].at = "booting"
  /\ IF site.creates /\ version = 0 /\ schema = {}
     THEN Goes(w, "looking", <<>>) ELSE Goes(w, "serving", <<>>)
  /\ UNCHANGED <<schema, version>>

\* create_all's own look at the tables, after ensure_schema's.
Look(w) ==
  /\ worker[w].at = "looking" /\ Goes(w, "creating", Bootstrap)
  /\ UNCHANGED <<schema, version>>

\* The number of statements that take effect together: the whole upgrade, or
\* all of create_all, where DDL is transactional; stamp has a transaction of
\* its own.
Together(w) ==
  LET n == Len(worker[w].work)
  IN CASE n <= 1 -> n
       [] n > 1 /\ ~site.transactional -> 1
       [] n > 1 /\ site.transactional -> IF worker[w].at = "upgrading" THEN n ELSE n - 1

Added(w)    == PiecesOf(SubSeq(worker[w].work, 1, Together(w)))
Collides(w) == Added(w) \cap schema # {}

\* The revision that is recorded once the statements of work have run.
Recorded(work) == IF work # <<>> /\ work[Len(work)].stamps > 0 THEN work[Len(work)].stamps ELSE version

\* Their commit: alembic's env.py, metadata.create_all or command.stamp.
Apply(w) ==
  LET work == worker[w].work
      rest == SubSeq(work, Together(w) + 1, Len(work))
  IN /\ worker[w].at \in {"upgrading", "creating"} /\ ~Collides(w)
     /\ schema' = schema \cup Added(w)
     /\ version' = Recorded(SubSeq(work, 1, Together(w)))
     /\ CASE rest # <<>> -> Goes(w, worker[w].at, rest)
          [] rest = <<>> /\ worker[w].at = "upgrading" -> Goes(w, "booting", <<>>)
          [] OTHER -> Goes(w, "serving", <<>>)

\* Mutant of Fail: an entrypoint without set -e serves all the same.
FailAndServe(w) ==
  /\ worker[w].at \in {"upgrading", "creating"} /\ Collides(w)
  /\ Goes(w, "booting", <<>>) /\ UNCHANGED <<schema, version>>

\* A table exists already: the process exits.
Fail(w) ==
  /\ worker[w].at \in {"upgrading", "creating"} /\ Collides(w)
  /\ Goes(w, "down", <<>>) /\ UNCHANGED <<schema, version>>

Crash(w) ==
  /\ worker[w].at # "down" /\ crashes < MaxCrashes
  /\ worker' = [worker EXCEPT ![w] = Down] /\ crashes' = crashes + 1
  /\ UNCHANGED <<site, schema, version>>

Step(w) == Start(w) \/ Boot(w) \/ Look(w) \/ Apply(w) \/ Fail(w)

Next == \E w \in Workers : Step(w) \/ Crash(w)

\* A process runs, and a container that exits is started again.
Fairness == \A w \in Workers : WF_vars(Step(w))
Spec == Init /\ [][Next]_vars /\ Fairness
-----------------------------------------------------------------------------
Places == {"down", "upgrading", "booting", "looking", "creating", "serving"}

TypeOK ==
  /\ site \in Sites /\ schema \subseteq Whole(Latest) /\ version \in 0..Latest
  /\ \A w \in Workers : worker[w].at \in Places
  /\ \A w \in Workers : PiecesOf(worker[w].work) \subseteq Whole(Latest)
  /\ crashes \in 0..MaxCrashes

\* The recorded revision never claims a table or a column the database does
\* not have, whatever start, upgrade or crash came between (the order of
\* upgrade() and alembic_version, of create_all and stamp in ensure_schema).
StampTruthful == Whole(version) \subseteq schema

\* A process that runs the migrations serves only the schema its models know:
\* an upgrade that failed or was cut off never leads to serving (entrypoint.sh,
\* set -e), whichever other process is creating or upgrading the database.
ServesMigrated ==
  site.migrates => \A w \in Workers : worker[w].at = "serving" => schema = Whole(Latest)

Orphaned == schema # {} /\ version = 0

\* Tables without a revision, which no later start repairs (bootstrap.py:60),
\* come only from an older release or from a crash within create_all and
\* stamp: races between starting processes never leave them behind.
OrphanedByCrash ==
  Orphaned => \/ site.finds = "unstamped" \/ crashes > 0
              \/ \E w \in Workers : worker[w].at \in {"upgrading", "creating"}

\* Every process comes to serve in the end, however the starts collide, unless
\* it must migrate a database that a crash or an older release has left with
\* tables its recorded revision does not explain.
EventuallyServes ==
  <>[](\/ \A w \in Workers : worker[w].at = "serving"
       \/ site.migrates /\ schema # Whole(version))
=============================================================================
