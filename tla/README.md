# Nova, modelled in TLA+

A verification development of the Nova prospecting service (`src/services/api/app`):
TLA+ modules that model its handlers step by step, TLC configurations that check them on
small instances, and proofs, checked by TLAPS, that hold for every instance.

Line numbers are those of the file named; `service.py`, `models.py`, `outbound.py`,
`discovery.py`, `analyzer.py`, `agentic_extract.py`, `pagespeed.py`, `presentation.py` and
`schemas.py` are in `services/api/app/prospecting/`, `docker/` and `scripts/` at the root, the
other paths in `services/api/app/`. `README.md:24` and the like name the README of the repository.

## 1. The system

Nova is a FastAPI service. An operator collects prospects (companies with a website), has
the site analysed, generates a proposal, edits and approves it, shares it under a link,
mails it, and hands the prospect to a CRM. The state is a relational database; there are no
background workers and no queue. What makes it concurrent is that every route is a
synchronous function, so FastAPI runs each request in a thread of its pool, and that several
processes may serve one PostgreSQL.

Every handler has one shape (`db/session.py`, `service.py`): it loads rows into a session of
its own, checks them, works (perhaps with a call to another service), and commits once. No
row is locked and no table has a version column. The session does not autoflush; a flush
writes only the columns whose value differs from the loaded one, `WHERE id = ...` and
nothing else. Hence the two questions that recur in every module: what does a handler write
when the row it decided on has changed meanwhile, and what is left when it stops half-way?

| Component | State | Operations | What is hard | What makes it correct |
|---|---|---|---|---|
| Delivery (`service.py` 685-707, 1102-1241, `outbound.py`) | delivery columns of a proposal; contact columns of a prospect; suppression list; at the provider: mailboxes and retained idempotency keys | `deliver_proposal`, `update_prospect`, `add_suppression`, `public_opt_out` | check and commit with a network call in between; lost answers, retries; a failed attempt overwriting a successful one; an opt-out during a send | one message per address; a row says "delivered" only if it was; opt-outs are honoured; the daily limit; every request answered |
| Analysis and proposals (`service.py` 808-1060) | analyses; proposals with version, text, status, reviewers, share link; audit events | `run_analysis`, `generate_proposal`, `update_proposal`, `approve_proposal`, `create_share`, `public_proposal` | two generates of one version; an edit racing an approval; two approvals; failure after a flush | contiguous versions; approval final and audited; a link that was answered opens its proposal |
| Intake (`service.py` 294-472, 1244-1280) | prospects, unique per domain | `create_prospect`, `bulk_create_prospects_from_csv`, `discover_for_campaign` | lookup and insert race; batches in opposite orders; failure of a whole batch | answers that tell the truth; nothing half-stored; no request waits for ever |
| CRM promotion (`service.py` 608-682, `crm/client.py`) | pipeline stage of a prospect, audit event; at the CRM: leads and keys | `promote_prospect_to_crm` | remote effect before the local commit; retries | one lead per prospect; an audited promotion has its lead; failure leaves local state alone |
| Outbound HTTP (`integrations/http.py`) | none | `request_json` | which failures are retried, how often | bounded attempts |
| Policy, campaigns (`service.py` 256-291, 1282-1320) | two tables | `update_policy`, `create_campaign` | overlapping updates that write changed columns only; two first updates | the policy in force is the one the trail shows |
| Rate limiter (`core/ratelimit.py`) | a table of windows under one lock | `check` | clock read outside the lock; eviction at 10 000 keys | bounded overshoot; a quota always comes back |
| Routes, authentication, tenancy, audit trail, middleware (`api/routes.py`, `auth.py`, `tenancy/service.py`, `core/`) | gauge of requests in flight, quotas; audit events | 26 routes behind the same guards | order of the guards; failures after the commit; the death of the process | tenants are isolated; one event per change, whatever the answer was |
| Website analyzer (`analyzer.py`, `agentic_extract.py`, `pagespeed.py`) | last visit per host | fetch, parse, score, merge | a verdict read before a sleep; redirects; caps and rounding | only permitted, public, spaced requests; a worse page never ranks lower |
| Lists (`service.py` 473-545) | score, status, `created_at` of a prospect | `list_prospects`; the handlers that insert prospects or write these columns | OFFSET paging of a list that rows enter, leave and move in; count and page in two statements; ties; overlapping analyses | nothing hidden but by what moved; a score is not lost to analyses that overlap |
| Presentation (`presentation.py`) | clock, scene and speech of the film | story, player | frames, clicks, keys in any order | the three stay in step; no empty scene |
| Schema bootstrap (`db/bootstrap.py`, `services/api/alembic/`, `docker/entrypoint.sh`) | tables, columns and revision stamp | `upgrade head`, `ensure_schema` | containers starting at once; death between two statements | a truthful stamp; only a whole schema is served |
| Gate C (`scripts/gate_c`) | a source and a target database, two manifests | export, import, reconcile | tables read at different instants; an import that stops half-way | all or nothing, under reviewed owners; "ok" means equal |
| Console, configuration, logging, discovery provider, spike, deploy scripts | none the others rely on | rendering, parsing | - | - |

Interactions: Delivery reads what Proposals writes (an approved proposal and its link) and
what `update_prospect` and the opt-out page write; Proposals reads analyses; Promotion reads
the newest analysis and the contact; all of them write the audit trail in their own
transaction. `PROJECT.json` lists every hazard with its line, and the properties aimed at it.

## 2. The modules

| Module | Models |
|---|---|
| `UnitOfWork` | what the flush of a session writes: `Flushed(stored, loaded, assigned)` |
| `Delivery` | sending an approved proposal, and the handlers that write what sending consults |
| `Outreach` | the abstract specification of delivery: a letter per proposal and address, to nobody found suppressed, nothing about what was found delivered, no claim without a letter; `Delivery` with Resend implements it |
| `Promotion` | handing a prospect to the CRM, and the handlers that write the prospect meanwhile |
| `Handoff` | the abstract specification of a promotion: one lead, then a record of it; `Promotion` implements it |
| `VersionHistory` | the abstract specification of proposals: numbered versions appended at the end, each going from draft to approved and nowhere else |
| `Proposals` | analyses and proposals up to delivery; implements `VersionHistory` |
| `Intake` | three ways to insert prospects, against the unique index of PostgreSQL |
| `Api` | what every request goes through, on each of the 26 routes; the transaction of a change and its event |
| `RateLimiter` | the windows in front of three routes |
| `Schema` | migrations, `create_all` and stamp, by several processes that start, fail and die |
| `GateC` | the copy of SalesOS' rows and its reconciliation |
| `PublicFetch` | asking websites for pages |
| `PageAudit`, `MeetingStory` | the score of a page and its merge with PageSpeed; the film's story as operators on the findings |
| `MeetingFilm` | the film's player in the browser |
| `Directory` | the ranked list, read page by page while rows enter, leave and move in it; what overlapping analyses do to a score |
| `Policy` | overlapping updates of a tenant's policy |
| `MCDelivery`, `MCPromotion`, `MCProposals`, `MCIntake` | small instances for TLC |
| `MCTraffic`, `MCRecords` | small instances of the others, side by side |
| `DeliveryProofs`, `PromotionProofs`, `ProposalsProofs`, `IntakeProofs`, `SchemaProofs` | theorems about the module of that name |
| `TrafficProofs` | theorems about `Api`, `RateLimiter` and `PublicFetch`, and about `MCTraffic` |
| `RecordsProofs` | theorems about `GateC`, `Policy` and `Directory`, and about `MCRecords` |
| `PresentationProofs` | theorems about `MeetingFilm` and `PageAudit` |

Conventions. A thread is a constant's element (`Senders`, `Threads`, ...), and what it has
read and decided is a record in a function over the threads (`task[s]`, `call[t]`,
`batch[t]`) with a program counter or an operation name. Each query whose answer another
handler can change, each call to another service and each commit is a step of its own, and
in between every other thread may run. An `Abandon` action ends a request at any point with
nothing committed: the process died, or an exception nobody types was rolled back by
`get_db` (`db/session.py:44`). Operators called *mutant* in their comment are plausible bugs
of the definition below them; they are used only to confirm that a property can fail.

### Delivery

`LoadProposal`, `LoadContact`, `CheckSuppression`, `CheckBudget` are the queries of
`deliver_proposal` in the order of the code (`service.py` 1101-1146), each with its early
return; `SendLocally`, `SendForbidden` and `Attempt` are `deliver_email` (`outbound.py`) with
the retry loop of `integrations/http.py`; `RecordSent` and `RecordFailed` the two commits.
`Update`, `Suppress` and `OptOut` load for the three editing handlers, `Lookup` and
`CommitEdit` are `_upsert_suppression` and the commit. `inbox` counts messages that reached an
address and `keys` what the provider retained: neither is visible to Nova, which learns only
the answer of an attempt. `vouched` is a history variable.

Abstractions. One tenant; approval is never withdrawn, so every proposal here is approved.
A Resend key is kept for ever (the real service keeps it for a day), and a request that
repeats a key with another body is an "error" answer. The message is its proposal and its
address. The campaign and policy limits are the constant `DailyLimit`, the configuration
(kill switch, provider) the constant `ExternalProvider`.

Two properties say together what is left of README.md:24, "once per proposal". `OutreachKept` is about
Resend: what a request may yet bring to whom (`Reachable`: nothing for a test, nothing once its row was
found delivered, any address not suppressed when it arrived until the recipient is known, then that one)
is `underway` in `Outreach`, and every step of `Delivery` is a step of `Outreach` or a stutter.
`SettledForGood` is about every provider: once a proposal is marked delivered and each request that still
works on it has found it so (`Settled`), it stays so and no mailbox gets it again.

### Proposals

A handler loads in `Begin...` and commits in `Commit...`. `run_analysis` flushes its row
first, so that it takes its place in the order of creation while no other session sees it;
after a failure it rolls back and commits a failed row in its place. `Written` is the flush of
the three handlers that change a proposal: equal columns are not written, except the time of
review and the token of a link, which are always new. Left out: the pipeline stage and score
of the prospect (written here, read by none of these handlers); the contact checks of
`approve_proposal` depend on Delivery's rows and may succeed or refuse at any time.

### Intake

A request is a list of rows. `Skip`, `RefuseDuplicate` and `Add` are the lookup of a row,
`Insert` its flush, `Commit` the end. The unique index is modelled as PostgreSQL has it at
READ COMMITTED: an insert waits for an open transaction that inserted the same domain, fails
when that one commits, goes on when it rolls back, and one transaction of a circle is aborted
(`Abort`). `create_prospect` alone turns the conflict into its 409; elsewhere it is rolled
back and answered 503. CSV parsing and URL normalisation are one bit: a row is a domain or
`Invalid`. SQLite's single writer (the development database) is not modelled.

### Promotion

`BeginPromote` is `promote_prospect_to_crm` up to its call, `Attempt` one round of the retry loop
as `crm/client.py` uses it (three attempts, one key per prospect), `CommitPromote` the stage and
the audit event after the answer. `BeginUpdate` and `CommitUpdate` are `update_prospect`; for the
two columns of this module (`status` and `do_not_contact`) the commits of `run_analysis`,
`generate_proposal`, `approve_proposal` and the opt-outs are updates of this form. The CRM is
external: it keeps its keys and answers a retained key with its first promotion
(`crm/client.py:56`). What a lead contains (contact, evidence, titles) is left out, because nothing
reads it back; `chosen` is a history variable. `Handoff` is the abstract specification: per
prospect nothing, then a lead, then a record of it.

### Api

A request is its route, the tenant and scope of its token, whether `?tenant_id` agrees, and the
tenant whose row the path names. It passes `Authenticate`, `CheckLimit`, then one of `Refuse`, `Read`,
`Commit` (the change and its event in one transaction) or `Note` (`run_analysis` and
`deliver_proposal` record a failure in a commit of its own and raise), then `Refresh` (which may
fail after the commit) and `Answer` (`metrics.observe`). The rows are reduced to the tenant that
owns them: what the handlers do to them is the matter of the other modules. A crash empties
gauge and quotas. The limiter is spent before the write scope is looked at, as in the code.

### RateLimiter

`ReadClock` comes before the lock, `Admit` and `Refuse` are one step each under it. `admitted` is a
history of the uses let through, per instant. Retry-After is left out.

### Schema

A worker is a container: `Start` is `docker/entrypoint.sh`, `Boot` the lifespan of `main.py` with
`ensure_schema`'s look at the database, `Look` the look of `create_all` itself, `Apply` the
statements that take effect together (`Together`: on PostgreSQL a whole upgrade or a whole
`create_all`, on SQLite one statement), `Fail` a statement that finds its table there, `Crash` the
death of the process. A schema is a set of tables and later columns; the three revisions are the
lists of what they add. `site` is what a deployment chooses: the database, whether it migrates,
whether it creates, and what it finds.

### GateC

`ExportTable` and `MeasureTable` read one table of the source or the target each, at different
instants; `ImportBegin`, `ImportTable`, `ImportAborts`, `ImportCommits` are `export_import`. SalesOS
adds rows meanwhile, Nova may write to the target, `ToolDies` ends a tool at any point. A row is its
key, its owner and its parent: the manifests look at no more (`reconcile.py` compares counts,
ids and tenants only, so that a row whose other columns differ does reconcile).

### PublicFetch, PageAudit, MeetingStory, MeetingFilm

`PublicFetch`: an extraction reads robots.txt (`Verdict`), waits, and calls `fetch_public_html`,
which reads it again (`Permission`); redirects are checked one by one. `PageAudit`: a page is how
bad it is in each of the sixteen respects the code looks at; `Audit` is `analyze_html` with its
penalties, caps, clamps and Python's rounding, `Merged` is `_merge_pagespeed`. `MeetingStory` is
`_finding_actions` and the numbers of cards of `build_meeting_story`; the loop that collects labels
until there are four is the first four of the labels at their first occurrence, findings first and
fallbacks after them (`UpToFour`, `NewLabels`). `MeetingFilm`: the variables
are those of the script; `Frame` is `frame` with `update`, `Seek` is `seek`, with which the progress
bar, the arrows and the two buttons differ in their argument only. The unit of time is the
distance the script keeps from the end of the film.

### Directory, Policy

`Directory`: a row has the three columns that place it in a list, the score, `created_at` and the status.
`CreateProspect`, `PasteProspects` and `DiscoverProspects` insert rows as `create_prospect` (the score of
the payload), the CSV paste (0) and `discover_for_campaign` (the campaign's `min_score`) do; `created_at` is
the start of the transaction, so a row may come in behind one that was committed before it. `Analyse` and
`CommitScore` are what `run_analysis` does to its prospect: it loads the row, and its flush writes score and
status ("analysis_ready") as far as they differ from what was loaded (`Flushed`). `Edit` is `update_prospect`,
`Advance` the status that proposals, approvals and promotions set. A reader opens a walk with a status to
filter by or none, and takes `Count` and `Rows` as the two statements they are, each over the rows that match
then; rows equal in score and time come in any order at each statement. The walk goes on while `has_more`,
from where the page ended. A search compares the name and the domain, which only an insert writes, so
`Prospects` stands for those it finds. `owed` is history: whom the walk has still to show. A write takes from
it those it may hide from the reader (`Missed`), a page those that it shows and those that are tied.

`Policy`: `Load` takes the row and the payload
with its defaults, `Commit` writes the columns that differ from the loaded ones, `Conflict` is the
second INSERT of a first policy.

## 3. What the runs check

| Run | Instance | Checks |
|---|---|---|
| `resend` | 1 proposal, 2 addresses, 2 senders, 2 editors, 3 requests, 2 days; Resend configured, bodies for Resend, mock, SMTP and tests; 826 202 states | `DeliveredWasSent`, `PriorOptOutHonoured`, `OptOutTakesEffect`, `OutreachKept`, types |
| `budget` | 3 proposals, 1 address, 2 senders, limit 1, 2 days, queue and SMTP and a forbidden provider; 186 911 states | `OvershootBounded`, `SettledForGood`, `EveryDeliveryAnswered` |
| `proposals` | 2 prospects, 3 proposals, 2 threads, 2 analyses, 2 versions, 3 days, 7 requests, symmetry; about 90 000 states | `VersionsContiguous`, `RestsOnAnalysis`, `ApprovalAudited`, `LinkOpens`, `HistoryKept`, types |
| `intake` | 2 domains, 2 threads, 3 requests, lists in both orders, with a repeated and an invalid row; 83 168 states | `ReportHolds`, `EveryIntakeAnswered`, types |
| `promotion` | 2 prospects, 3 stages, 2 threads, 3 requests; 22 958 states | `ContactedHasCause`, `HandoffKept`, types |
| `traffic` | `Api`: 2 tenants, 2 requests on every route, quota 1; `RateLimiter`: 2 keys, 2 threads, limit 1, window 2, capacity 1, 4 instants; `PublicFetch`: 2 threads, 3 hosts, one not public, 3 runs; 947 788 states | `TenantIsolated`, `Recorded`; `OvershootBounded`, `RefusalEarned`; `Polite`; types |
| `records` | `Schema`: 2 processes, 2 crashes, every deployment; `GateC`: 2 tables, 4 rows and one of Nova's own, an unmapped tenant, a reattributed user; `PageAudit`: up to 4 defects of 16 kinds, 3 scores; `MeetingFilm`: the nine scenes, 3 inputs; `Directory`: 3 prospects in pages of 2, 3 scores (2 once there are three), 2 statuses, 2 values of `created_at`, walks with either filter or none, 2 analyses or edits; `Policy`: 2 fields, 2 threads, 3 updates; 487 900 states | `StampTruthful`, `ServesMigrated`, `OrphanedByCrash`, `EventuallyServes`; `ImportSound`, `ReconciledExact`; `WorseNeverRanksLower`, `StoryComplete`; `FilmInSync`, `FilmEnds`; `NothingHidden`, `ScoreKept`; `PolicyMatchesTrail`; types |
| `once`, `limit`, `verified`, `immutable`, `intake_skips` | instances of the same modules | a sentence of the documentation the code does not keep; section 5 |

Why the bounds are enough. Every race in this code is between one handler's read and
another's commit, so two threads exhibit it; a third can only repeat it against a row that
is already stale. Two senders and three requests give the overlap of two deliveries followed
or interrupted by a third request (a retry after a failure, an edit, an opt-out); two addresses
tell apart the address a request chose and the one the contact has now. Two editors look one address up before
either inserts it, so that the second meets the unique index and is rolled back. A limit of one with
three proposals makes the limit bind and be overshot. Two days make one midnight fall between
a count and a commit. In `proposals`, seven requests are an analysis, two racing generates, and
enough left for two racing edits, approvals or shares of one proposal. In `intake`, two domains
in both orders are the smallest circle of waits. For most of these properties the bound does not
matter in the end, because section 4 proves all but the liveness for every value of the constants. Deadlock
checking is off in every configuration: a behaviour ends when its requests are used up.

Symmetry (`proposals` only) permutes sets whose elements no action tells apart; the run checks
invariants and action properties only.

In `promotion`, two overlapping promotions of one prospect and an update between them, with every
loss and crash, are within three requests and three attempts.

`MCTraffic` and `MCRecords` put modules side by side that share no state: each behaviour is one of a
single module, chosen in the initial state, while the variables of the others rest (the database of
`Schema` migrated and served by every process, so that its fairness asks nothing of the behaviours
of the others). The states are the sum of those of the modules, not their product, and each
property is that of its module. All of these modules are extended, so that a run and a proof speak of the
same definition; those that are extended together name their initial states, steps and specifications after
themselves (`LimiterSpec`, `CopySpec`, `FilmSpec`, ...). The parts that do interact are composed by what they leave of each other: the limiter is a quota in `Api`, findings of `PageAudit`
are the input of `MeetingStory`, whose durations are the film of `MeetingFilm`.

Their bounds. Limiter: with two threads one is late while the other opens a window, and with
a capacity of one each second entry evicts. Schema: two processes are every collision of two
starts, two crashes a death within a repair of the first. GateC: two tables are a parent and a child
read at two instants; every way a row may fail to convert is there. Api: two requests share a quota,
a gauge and a crash; they meet nowhere else. PageAudit: two defects of one kind or of several reach
every cap and rounding that differ between neighbours, four fill the engine scene. Film: each input can
be followed by any other and by a third that undoes it. Directory: three rows and pages of two are a
page boundary with a row on both sides; to a filter a status matches or does not, so two
are enough. Two writes are two overlapping analyses, of which the lower of two improvements may be stored last, or
an analysis and an edit that lowers the row it has loaded; for the first of these it takes three scores, and
`SmallList` in `MCRecords` allows the third as long as there are two prospects. Policy: two overlapping updates after a first one.

Fairness. `Schema` assumes it of every process's next step: a process runs, and an orchestrator
starts a container again that exited (a crash is obliged of nobody). `MeetingFilm` assumes it of the
frames alone: a browser goes on drawing a page that is looked at; nothing obliges a presenter to do
anything. `Delivery` assumes weak fairness of every thread's next step: each call
has a timeout (`integrations/http.py`, `outbound.py:148`), so a thread in a handler keeps
running. `Intake` assumes it of every thread's step; a thread that waits for a lock has no
step, PostgreSQL breaks circles after `deadlock_timeout`, and since requests are bounded a
waiting insert is not overtaken for ever. Nothing obliges a client to send a request, and
nothing obliges a process to die. `Proposals` and `Promotion` state no liveness: their requests end
with their commit, which nothing delays but the promotion's call, whose attempts its type invariant
bounds.

## 4. What is proved

Each theorem is `Spec => []Inv` (or the action or refinement form) for all values of the
constants that satisfy the module's `ASSUME`, among them every number of threads, proposals and
requests. TLC evaluates each assumption in the runs.

- **Delivery** (`DeliveryProofs`). `TypeCorrect`. `OvershootTheorem`: `OvershootBounded` is not
  inductive, since a request past its check will add to the count later; the invariant
  `BudgetInv` bounds the processed proposals together with the requests past the check.
  `DeliveredTheorem`: `MailInv` says that a request past its send, and a row marked delivered,
  have a message behind them. `OnceTheorem` (`OncePerAddress`, which no run states of its own, since a
  second letter is no step of `Outreach`), under the extra assumption that the provider is
  Resend: a message in a mailbox has its key among the retained ones (`OnceInv`), so the second
  is not sent. `HonouredTheorem`, an action property: the recipient of a request past the
  suppression check was not suppressed when it arrived. `OptOutTheorem`, an action property: an edit that
  had an address to suppress leaves it suppressed; an edit that is ready to commit without an insert has
  found its address on the list (`LookedUp`), from which nothing is taken off again. `SettledTheorem`, an
  action property for every provider: a request past the suppression check, unless it is a test, has not
  found the row delivered (`PendingInv`), because that answer comes first; so of a settled proposal no
  request gets past it, and nobody is left who could send it or overwrite its row.
  `OutreachTheorem`, with Resend: every step is one of `Outreach` or a stutter. A request's load is `Arrive`,
  and what it may bring shrinks from then on (`ReachNarrows`); the attempt that reaches a mailbox is `Send`,
  and the letter is the first because a letter has its key retained (`OnceInv`); a commit is a claim, whose
  letter `MailInv` provides, or withdraws one, and in the same step the request ends; the edits, and the
  opt-outs one address at a time, are `Bar`.
- **Proposals** (`ProposalsProofs`). `TypeCorrect`; `VersionsTheorem`, from an invariant about
  the row a pending generate carries (its version is one above a version that exists);
  `RestsTheorem` (completed analyses stay as they are); `AuditTheorem`, from an invariant about
  pending approvals: equal columns are not written, so what a column holds was audited by this
  approval or an earlier one; `LinkTheorem` (tokens in use are distinct); `HistoryTheorem`:
  every step of `Proposals` is a step of `VersionHistory` or a stutter under the mapping
  `HistoryOf`.
- **Intake** (`IntakeProofs`). `TypeCorrect`, and `ReportTheorem` from `IntakeInv`: a pending
  request has no report and owns nothing yet, no two open transactions have inserted one domain
  nor a stored one (`CreatedInv`), and the rows a request has passed are stored or its own
  (`PassedInv`).
- **Promotion** (`PromotionProofs`). `TypeCorrect`; `CauseTheorem`, inductive with the types because
  a flush writes the stage only where its handler changed it; `HandoffTheorem`: `LeadInv` (a
  retained key has one lead, nothing is answered or recorded without its key) maps every step to a
  step of `Handoff` or a stutter.

- **Schema** (`SchemaProofs`), assuming only that the number of crashes is a natural number.
  `StampIsTruthful`, `ServesTheWholeSchema`, `TypeCorrect`. Neither property is inductive: what a
  process may do next depends on the list it was given when it looked at the database, which others
  have changed since. The invariant (`IInv`) says of each process that whatever its remaining
  statements will stamp is covered by what exists and what they add before, and that one which
  migrates has, or has still to add, the whole schema (`Sound`); and of the database that tables are
  whole wherever only `create_all` makes them (`Database`). `OrphansHaveACause` needs in addition that, as
  long as nothing is recorded and nobody has died, what exists are the first k statements of the plan all
  processes follow, and one of them is about to run the next (`Orderly`).
- **GateC** (`RecordsProofs`), under `CopyAssumption`: every row belongs to a table that is copied, Nova's
  ids are new, and no mapped subject is null. `ImportIsSound` needs that the running transaction holds
  what the tables it has passed promised (`Promise`) and only mapped rows (`Mapped`);
  `ReconciledIsExact` that a manifest's rows were there when they were read and nothing is ever
  deleted (`Measured`).
- **Policy** (`RecordsProofs`), under `PolicyAssumption` (`Unset` is no payload and no request).
  `TrailShowsPolicy`: that the row is what the last event shows is not inductive, since the next commit
  writes what its request loaded perhaps long ago. The invariant (`PolicyInv`) says of each pending update
  that in the fields nobody has changed since its SELECT, the row is still as it loaded it
  (`KnowsChanges`); so a column that equals the loaded value, and is therefore not written, holds the value
  of the event as well. `PolicyTypeCorrect`.
- **Directory** (`RecordsProofs`), under `DirectoryAssumption`: finitely many prospects, scores and times that are
  natural numbers with the score 0 among them, pages of at least one row. `WalkHidesNobody`: while a walk reads,
  every prospect that it still owes is in the list with at least as many prospects strictly before it as the walk
  has passed, and a total that was counted is no smaller than the list unless nobody is owed (`WalkOn`). Whoever
  a write does not strike off stays in the list and keeps everyone before it that was (`StoreWalk`, `AddRowsWalk`).
  A page strikes off the tied, and the lemma `OrderRanks` shows that in every order the database may choose the others
  stand exactly behind those before them; so each is in the page that covers its rank, and at the last page there is
  nobody left to owe. `ScoreNeverLost`: every analysis in flight has loaded a score no lower than the one that is
  kept (`LoadedEnough`), so what it stores is not lower either; what is kept rises only when no other analysis
  of the prospect is in flight. `DirectoryTypeCorrect`.
- **Api** (`TrafficProofs`), under `ApiAssumption`: `TenantsAreIsolated`, `ChangesAreRecorded`, `TypeCorrect`.
  The invariant relates each request's place to what it may have changed and been answered (`AllGood`), a
  quota to the requests that have spent it (`Spending`), and the gauge to the number of requests in
  flight, so that it never reaches the floor at zero while one of them is.
- **RateLimiter** (`TrafficProofs`), under `LimiterAssumption`: finitely many threads, limits that are natural
  numbers (zero included), a window of at least one instant, any capacity. `OvershootIsBounded` is about a sum over
  the uses of a window, of which the table keeps only the last count. The invariant `Shared(k, x)` is one
  inequality for every instant x of the last window: the uses admitted since x, and the room the entry
  still has, are at most the limit for each thread that is not late for x, and once more when the entry
  begins at x or after. A thread is late for x when it waits for the lock with an instant read before x; it
  may open one more window of the past, and is late no longer when it has: the loss of the one pays for
  the other. `RefusalsAreEarned`, an action property, needs that an entry counts no use that was not
  admitted at its start or after (`Earned`), whatever was evicted. `LimiterTypeCorrect`.
- **PublicFetch** (`TrafficProofs`), under `FetchAssumption`: `FetchIsPolite`, from what a call knows at each
  of its steps (`Courteous`): the wake it sleeps until is at least `MinInterval` after the mark it found, the
  permission is read after the wake, and the host it asks, redirects included, is public.
  `FetchTypeCorrect`.
- **MeetingFilm** (`PresentationProofs`), under `FilmAssumption` (the scenes follow one another and none is
  empty): `SyncTheorem` and `FilmTypeCorrect`; that the clock stays inside the film makes the scene that
  is shown well defined.
- **PageAudit** (`PresentationProofs`), under `AuditAssumption` (what PageSpeed measures is an integer, of any
  size, or nothing): `WorseRanksNoLower`, an action property. Its lemmas are about the operators: `Rounded`
  keeps the order although it rounds halves to the even neighbour, percentages and caps keep it
  (`PercentRises`, `AltPenaltyRises`), no metric rises with a defect (`MetricsFall`), and so the improvement
  does not fall. `AuditTypeCorrect`. `StoryTheorem`: the story is complete whatever was found. Each finding of
  the analysis, and PageSpeed's, has a label in `action_by_key` (`FindingKnown`, `FindingsTold`); among the
  labels of the findings followed by the four fallbacks, each fallback occurs somewhere for the first
  time, so at least four positions are new (`FourNewLabels`); a set of n positions has an i-th for each i
  up to n (`NthFacts`), the first four of them exist, and no two bear the same label (`FourDifferent`).
- **Side by side** (`TrafficProofs`, `RecordsProofs`). `TrafficTypes` and `RecordsTypes`: `TypesOK` of the two runs
  that put modules side by side, under the assumptions of the modules. Their two theorems `SideBySide` say
  that a behaviour of the run is a behaviour of each module, so that what is proved of the modules holds
  in the run. For `Schema`, whose database the run may also begin with at rest, `DatabaseSideBySide` shows that a
  database that is migrated and served satisfies the invariant that starts and upgrades keep (`ServingSound`).

What stays with TLC, and why:

- `EveryDeliveryAnswered`, `EveryIntakeAnswered`, `EventuallyServes` and `FilmEnds` are liveness: they rest
  on fairness and ENABLED, which the prover does not treat.
- The five sentences of section 5, which do not hold.

## 5. Where the documentation and the code differ

| Run | The documentation | What the run shows |
|---|---|---|
| `once` | README.md:24 "once per proposal" | through SMTP, which has no idempotency key, two overlapping requests, or a retry after a lost answer, send twice |
| `limit` | README.md:24 "inside a per-tenant daily limit" | two overlapping requests both pass the count; by how much at most is `OvershootBounded` |
| `verified` | models.py:134-136: using an address "still requires the operator to say how they verified it" | an update of `contact_email` alone keeps `contact_verified` |
| `immutable` | README.md:22 "Approved proposals are immutable" | an edit that loaded the draft commits after the approval |
| `intake_skips` | service.py:361 "Skips duplicates/invalid rows" | a duplicate committed after the lookup fails the whole paste with 503 |

Not violations of a run, but worth knowing:

- A promotion that returns while an operator has moved the prospect to "won" sets it back to
  "contacted"; `Promotion` behaves so, and nothing says which should win.
- `docs/ARCHITECTURE.md:21` says prospecting mutations create audit events. Three commits have
  none: the public opt-out (`service.py` 1233-1241), a failed delivery (1166-1172) and a failed analysis
  (859-885). `Recorded` names them as its exceptions.
- An answer of 503 does not mean that nothing was committed: the refresh after the commit may fail
  (`Refresh`). A 403 may be the website's, of an analysis that was recorded (`Note`).
- The quota of a tenant is spent by requests that are then refused for want of the write scope
  (`api/routes.py:184`, 289, 416, before `_require_write`).
- `list_prospects` pages by OFFSET. A row that leaves a filtered list above the reader (`run_analysis` sets
  the status, 857, as do proposals, approvals, promotions and updates) or whose score is lowered hides another
  from that reader; so does a row committed between count and page. The rows of one transaction share
  `created_at` and, after a paste or a discovery, the score: the pages may repeat one and miss another. `Missed`
  and the history `owed` in `Directory` name exactly these cases, and `NothingHidden` says there are no others.
- Of overlapping analyses of one prospect the lower score may be stored last, over the better one and over
  what an operator has set while they ran; `ScoreKept` bounds the loss.
- Tables left by an older release, or by a crash between `create_all` and stamp, make every later
  migration fail until an operator stamps them (`Orphaned` in `Schema`); `bootstrap.py` says so itself.
- The finding `healthy_baseline` cites names of metrics where the others cite evidence
  (`analyzer.py:378`).

## 6. Not modelled

Text processing: the parsing of HTML, CSV and JSON, the extraction of facts and contact candidates
(`agentic_extract.py` 140-430), the wording of proposals, messages and scenes; a model has its outcome.
Signatures of tokens: a token is valid or not. The console (`apps/nova`) is a client that holds no state the
service relies on. Configuration is parsed once at start; what it decides are constants of the models
(kill switches, limits, providers). Logging and the counters of finished requests are write-only; the health and metrics
endpoints of `main.py` read.
The summary is a row of counts nothing decides on. Downgrades of the schema are run by hand. The
discovery provider's pages are I/O, its rows the input of `Intake`. The crawl spike and the deploy
scripts are outside the service.

## 7. Plan

1. *(done)* `Delivery`, `Proposals` with `VersionHistory`, `Intake`, `Promotion` with `Handoff`: the
   handlers whose effects leave the process or race each other, with their proofs.
2. *(done)* The platform: `RateLimiter`, `Schema`, `GateC`, `Api`; the audit and what is seen of it:
   `PublicFetch`, `PageAudit`, `MeetingStory`, `MeetingFilm`, `Directory`, `Policy`; proofs for `Schema`,
   `GateC`, `Api` and `MeetingFilm`.
3. *(done)* A proof for each safety invariant and action property that the runs check: see section 4
   for the invariants they need and for what is left to TLC.
4. *(done)* An abstract specification of delivery (`Outreach`: a message per address) and its refinement.
5. The ranking and trimming of contact candidates, once the text they are found in has a model.
