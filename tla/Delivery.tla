------------------------------ MODULE Delivery ------------------------------
(***************************************************************************)
(* Outbound e-mail for approved proposals: deliver_proposal and the        *)
(* provider adapters behind it, together with the three handlers that      *)
(* write what it consults (update_prospect, add_suppression,               *)
(* public_opt_out).  One tenant; every proposal here is already approved,  *)
(* and approval is never withdrawn.                                        *)
(*                                                                         *)
(* A handler runs in a thread of its own, over its own session, and its    *)
(* statements interleave with those of every other handler: each query,    *)
(* each attempt at the provider and each commit is a step.  Senders are    *)
(* the threads that may be inside deliver_proposal, Editors those that may *)
(* be inside one of the other three.                                       *)
(*                                                                         *)
(* MaxRequests bounds the requests of a behaviour, MaxDay the midnights.   *)
(***************************************************************************)
EXTENDS UnitOfWork, Integers, FiniteSets

CONSTANTS
  Proposals, Prospects,
  ProspectOf,        \* the prospect a proposal was generated for
  Emails,            \* contact addresses, normalised
  Operator,          \* the address of the operator, the only test recipient
  None,              \* SQL NULL
  Senders, Editors,
  DailyLimit,        \* the limit in force for a prospect: its campaign's
                     \* daily_limit if it has a campaign, else the policy's
  MaxLimit,
  ExternalProvider,  \* "resend" or "smtp_generic" when real mail is enabled
                     \* and configured, "none" under the kill switch
  Deliveries,        \* the bodies deliver_proposal may receive
  Updates,           \* the bodies update_prospect may receive, unset fields absent
  MaxRequests, MaxDay

Addresses   == Emails \cup {Operator}
AnyProvider == {"queue", "mock", "resend", "smtp_generic"}

ASSUME DeliveryAssumption ==
  /\ ProspectOf \in [Proposals -> Prospects]
  /\ Operator \notin Emails /\ None \notin Addresses \cup Prospects \cup Proposals
  /\ IsFiniteSet(Senders) /\ IsFiniteSet(Proposals)
  /\ MaxLimit \in Nat \ {0} /\ DailyLimit \in [Prospects -> 1..MaxLimit]
  /\ ExternalProvider \in {"resend", "smtp_generic", "none"}
  /\ Deliveries \subseteq [provider : AnyProvider, test : BOOLEAN]
  /\ \A u \in Updates :
       /\ "email" \in DOMAIN u => u.email \in Emails \cup {None}
       /\ "verified" \in DOMAIN u => u.verified \in BOOLEAN
       /\ "do_not_contact" \in DOMAIN u => u.do_not_contact \in BOOLEAN
  /\ MaxRequests \in Nat /\ MaxDay \in Nat \ {0}

VARIABLES
  proposal,    \* the delivery columns of website_proposals
  contact,     \* the contact columns of website_prospects
  suppressed,  \* the addresses in prospect_suppressions
  day,         \* today's date; 0 is no date
  inbox,       \* external messages that reached an address, per proposal
  keys,        \* idempotency keys the e-mail provider has retained
  task,        \* the deliver request each sender is serving
  edit,        \* the request each editor is serving
  left,        \* requests the behaviour may still start
  vouched      \* history: addresses a human declared verified, per prospect

vars == <<proposal, contact, suppressed, day, inbox, keys, task, edit, left, vouched>>
-----------------------------------------------------------------------------
AcceptedStatuses == {"queued", "mock_delivered", "delivered"}
Row     == [status : AcceptedStatuses \cup {"not_queued", "failed"},
            delivered_at : 0..MaxDay, processed_at : 0..MaxDay]
Contact == [email : Emails \cup {None}, verified : BOOLEAN, do_not_contact : BOOLEAN]

FreshRow  == [status |-> "not_queued", delivered_at |-> 0, processed_at |-> 0]
NoContact == [email |-> None, verified |-> FALSE, do_not_contact |-> FALSE]

IdleTask == [pc |-> "idle", proposal |-> None, provider |-> "queue", test |-> FALSE,
             row |-> FreshRow, recipient |-> None, tries |-> 0, stamp |-> 0,
             barred |-> {}]
IdleEdit == [pc |-> "idle", prospect |-> None, loaded |-> NoContact,
             assigned |-> NoContact, address |-> None, insert |-> FALSE,
             vouches |-> FALSE]

Init ==
  /\ proposal = [p \in Proposals |-> FreshRow]
  /\ contact \in [Prospects -> [email : Emails, verified : {TRUE}, do_not_contact : {FALSE}]]
  /\ suppressed = {} /\ day = 1
  /\ inbox = [m \in Proposals \X Addresses |-> 0] /\ keys = {}
  /\ task = [s \in Senders |-> IdleTask] /\ edit = [e \in Editors |-> IdleEdit]
  /\ left = MaxRequests
  /\ vouched = {<<q, contact[q].email>> : q \in Prospects}
-----------------------------------------------------------------------------
(* deliver_proposal *)

Store == <<proposal, contact, suppressed, vouched>>
World == <<inbox, keys, day>>

Goto(s, pc) == task' = [task EXCEPT ![s].pc = pc]
Answer(s)   == task' = [task EXCEPT ![s] = IdleTask]

\* The row of the proposal enters the session.  What is suppressed now was
\* suppressed before the request arrived.
LoadProposal(s, p, body) ==
  /\ task[s].pc = "idle" /\ left > 0
  /\ task' = [task EXCEPT ![s] = [IdleTask EXCEPT !.pc = "loaded", !.proposal = p,
                                    !.provider = body.provider, !.test = body.test,
                                    !.row = proposal[p], !.barred = suppressed]]
  /\ left' = left - 1
  /\ UNCHANGED <<Store, World, edit>>

Recipient(s, person) == IF task[s].test THEN Operator ELSE person.email

\* A test goes to the operator whatever the contact says.
LoadContact(s) ==
  LET person == contact[ProspectOf[task[s].proposal]]
      refused == /\ ~task[s].test
                 /\ person.email = None \/ ~person.verified \/ person.do_not_contact
  IN /\ task[s].pc = "loaded"
     /\ IF refused
        THEN Answer(s)
        ELSE task' = [task EXCEPT ![s].recipient = Recipient(s, person),
                                  ![s].pc = IF task[s].test THEN "sending" ELSE "addressed"]
     /\ UNCHANGED <<Store, World, edit, left>>

\* Mutant of CheckSuppression: the suppression list is not consulted.
SkipSuppression(s) ==
  /\ task[s].pc = "addressed"
  /\ IF task[s].row.status \in AcceptedStatuses THEN Answer(s) ELSE Goto(s, "permitted")
  /\ UNCHANGED <<Store, World, edit, left>>

\* Mutant of CheckSuppression: the delivery status is not looked at.
CheckSuppressionOnly(s) ==
  /\ task[s].pc = "addressed"
  /\ IF task[s].recipient \in suppressed THEN Answer(s) ELSE Goto(s, "permitted")
  /\ UNCHANGED <<Store, World, edit, left>>

\* _is_suppressed queries afresh; the delivery status is the loaded one.
CheckSuppression(s) ==
  /\ task[s].pc = "addressed"
  /\ IF task[s].recipient \in suppressed \/ task[s].row.status \in AcceptedStatuses
     THEN Answer(s) ELSE Goto(s, "permitted")
  /\ UNCHANGED <<Store, World, edit, left>>

ProcessedToday ==
  {p \in Proposals : /\ proposal[p].status \in AcceptedStatuses
                     /\ proposal[p].processed_at >= day}

\* Mutant of CheckBudget: > where the code has >=.
CheckBudgetLate(s) ==
  /\ task[s].pc = "permitted"
  /\ IF Cardinality(ProcessedToday) > DailyLimit[ProspectOf[task[s].proposal]]
     THEN Answer(s) ELSE Goto(s, "sending")
  /\ UNCHANGED <<Store, World, edit, left>>

CheckBudget(s) ==
  /\ task[s].pc = "permitted"
  /\ IF Cardinality(ProcessedToday) >= DailyLimit[ProspectOf[task[s].proposal]]
     THEN Answer(s) ELSE Goto(s, "sending")
  /\ UNCHANGED <<Store, World, edit, left>>
-----------------------------------------------------------------------------
(* deliver_email *)

IsExternal(provider) == provider \in {"resend", "smtp_generic"}

\* queue and mock never leave the process.
SendLocally(s) ==
  /\ task[s].pc = "sending" /\ ~IsExternal(task[s].provider)
  /\ task' = [task EXCEPT ![s].pc = "sent", ![s].stamp = day]
  /\ UNCHANGED <<Store, World, edit, left>>

\* Mutant of SendForbidden: a forbidden provider answers like a local one.
SendForbiddenSilently(s) ==
  /\ task[s].pc = "sending"
  /\ IsExternal(task[s].provider) /\ task[s].provider # ExternalProvider
  /\ task' = [task EXCEPT ![s].pc = "sent", ![s].stamp = day]
  /\ UNCHANGED <<Store, World, edit, left>>

\* The kill switch, or a provider that is not the configured one.
SendForbidden(s) ==
  /\ task[s].pc = "sending"
  /\ IsExternal(task[s].provider) /\ task[s].provider # ExternalProvider
  /\ Goto(s, "failed")
  /\ UNCHANGED <<Store, World, edit, left>>

\* Mutant of Attempts: the retry policy counts retries instead of attempts.
AttemptsAndOne(provider) == IF provider = "resend" THEN 3 ELSE 2

\* An SMTP submission is tried once, a Resend request at most twice.
Attempts(provider) == IF provider = "resend" THEN 2 ELSE 1

\* Mutant of IdempotencyKey: one key per request instead of per recipient.
KeyPerRequest(s) == <<task[s].proposal, s>>
IdempotencyKey(s) == <<task[s].proposal, task[s].recipient>>

\* What an accepted submission does at the provider: Resend answers a key it
\* has retained with the first answer and sends nothing; SMTP has no keys.
Accepted(s) ==
  LET known == task[s].provider = "resend" /\ IdempotencyKey(s) \in keys
  IN /\ inbox' = IF known THEN inbox
                 ELSE [inbox EXCEPT ![<<task[s].proposal, task[s].recipient>>] = @ + 1]
     /\ keys' = IF task[s].provider = "resend" THEN keys \cup {IdempotencyKey(s)} ELSE keys

\* Mutant of Attempt: the attempt counter starts over, so a provider that
\* never answers is asked for ever.
AttemptForever(s) ==
  /\ task[s].pc = "sending" /\ task[s].provider = ExternalProvider
  /\ task' = [task EXCEPT ![s].tries = 1 - @]
  /\ UNCHANGED <<Store, World, edit, left>>

\* One attempt.  The provider may have accepted a message whose answer is lost
\* ("lost": timeout, reset, retryable status) or unusable ("error").
Attempt(s) ==
  /\ task[s].pc = "sending" /\ task[s].provider = ExternalProvider
  /\ \E accepted \in BOOLEAN, answer \in {"ok", "lost", "error"} :
       /\ answer = "ok" => accepted
       /\ IF accepted THEN Accepted(s) ELSE UNCHANGED <<inbox, keys>>
       /\ CASE answer = "ok" ->
                 task' = [task EXCEPT ![s].pc = "sent", ![s].stamp = day]
            [] answer = "lost" /\ task[s].tries + 1 < Attempts(task[s].provider) ->
                 task' = [task EXCEPT ![s].tries = @ + 1]
            [] OTHER -> Goto(s, "failed")
  /\ UNCHANGED <<Store, day, edit, left>>

Resolved(provider) ==
  CASE IsExternal(provider) -> "delivered"
    [] provider = "queue"   -> "queued"
    [] provider = "mock"    -> "mock_delivered"

\* The commit after a receipt.  A timestamp is new whenever it is written, so
\* the timestamps always reach the row; NULL does so only over a loaded value.
RecordSent(s) ==
  LET t == task[s]
      cleared(stored) == Flushed(stored, t.row, [t.row EXCEPT !.delivered_at = 0])
  IN /\ t.pc = "sent"
     /\ proposal' = IF t.test THEN proposal
                    ELSE [proposal EXCEPT ![t.proposal] =
                            [status |-> Resolved(t.provider),
                             processed_at |-> t.stamp,
                             delivered_at |-> IF IsExternal(t.provider) THEN t.stamp
                                              ELSE cleared(@).delivered_at]]
     /\ Answer(s)
     /\ UNCHANGED <<contact, suppressed, vouched, World, edit, left>>

\* The commit after a ProspectingDeliveryError.
RecordFailed(s) ==
  LET t == task[s]
  IN /\ t.pc = "failed"
     /\ proposal' = IF t.test THEN proposal
                    ELSE [proposal EXCEPT ![t.proposal] =
                            Flushed(@, t.row, [t.row EXCEPT !.status = "failed"])]
     /\ Answer(s)
     /\ UNCHANGED <<contact, suppressed, vouched, World, edit, left>>

\* A request that ends with nothing committed: the process dies, an exception
\* outside the typed ones is rolled back, or the share link is refused.
AbandonTask(s) ==
  /\ task[s].pc # "idle"
  /\ Answer(s)
  /\ UNCHANGED <<Store, World, edit, left>>

SenderStep(s) ==
  \/ LoadContact(s) \/ CheckSuppression(s) \/ CheckBudget(s)
  \/ SendLocally(s) \/ SendForbidden(s) \/ Attempt(s)
  \/ RecordSent(s) \/ RecordFailed(s)
-----------------------------------------------------------------------------
(* update_prospect, add_suppression, public_opt_out *)

Begin(e, request) ==
  /\ edit[e].pc = "idle" /\ left > 0
  /\ edit' = [edit EXCEPT ![e] = request]
  /\ left' = left - 1
  /\ UNCHANGED <<Store, World, task>>

Overlay(row, changes) ==
  [c \in DOMAIN row |-> IF c \in DOMAIN changes THEN changes[c] ELSE row[c]]

Sets(changes, column) == column \in DOMAIN changes /\ changes[column]

\* A prospect may be marked verified only with an address; do_not_contact
\* suppresses the address the row has after the update.
Update(e, q, changes) ==
  LET assigned == Overlay(contact[q], changes)
  IN /\ Sets(changes, "verified") => assigned.email # None
     /\ Begin(e, [pc |-> "loaded", prospect |-> q,
                  loaded |-> contact[q], assigned |-> assigned,
                  address |-> IF Sets(changes, "do_not_contact") THEN assigned.email ELSE None,
                  insert |-> FALSE, vouches |-> Sets(changes, "verified")])

Barred(row) == [row EXCEPT !.do_not_contact = TRUE]

\* prospect_id is optional in the body of add_suppression.
Suppress(e, address, q) ==
  Begin(e, [pc |-> "loaded", prospect |-> q,
            loaded |-> IF q = None THEN NoContact ELSE contact[q],
            assigned |-> IF q = None THEN NoContact ELSE Barred(contact[q]),
            address |-> address, insert |-> FALSE, vouches |-> FALSE])

\* The token in a link is an HMAC over prospect and address; it verifies
\* against the address the prospect has now.
OptOutValid(q, address) == contact[q].email # None /\ contact[q].email = address

OptOut(e, q, address) ==
  /\ OptOutValid(q, address)
  /\ Begin(e, [pc |-> "loaded", prospect |-> q,
               loaded |-> contact[q], assigned |-> Barred(contact[q]),
               address |-> contact[q].email, insert |-> FALSE, vouches |-> FALSE])

\* Mutant of Lookup: an insert that another request has yet to commit counts.
LookupDirty(e) ==
  LET inserted == {edit[u].address : u \in {v \in Editors : edit[v].insert}}
  IN /\ edit[e].pc = "loaded"
     /\ edit' = [edit EXCEPT ![e].pc = "ready",
                   ![e].insert = edit[e].address \notin suppressed \cup inserted \cup {None}]
     /\ UNCHANGED <<Store, World, task, left>>

\* _upsert_suppression looks the address up and inserts it when it is absent.
Lookup(e) ==
  /\ edit[e].pc = "loaded"
  /\ edit' = [edit EXCEPT ![e].pc = "ready",
                          ![e].insert = edit[e].address \notin suppressed \cup {None}]
  /\ UNCHANGED <<Store, World, task, left>>

\* (tenant_id, normalized_email) is unique: the second of two inserts fails,
\* and with it everything else its transaction had to write.
CommitEdit(e) ==
  LET r == edit[e]
      conflict == r.insert /\ r.address \in suppressed
  IN /\ r.pc = "ready"
     /\ IF conflict
        THEN UNCHANGED Store
        ELSE /\ contact' = IF r.prospect = None THEN contact
                           ELSE [contact EXCEPT ![r.prospect] = Flushed(@, r.loaded, r.assigned)]
             /\ suppressed' = IF r.insert THEN suppressed \cup {r.address} ELSE suppressed
             /\ vouched' = IF r.vouches
                           THEN vouched \cup {<<r.prospect, r.assigned.email>>} ELSE vouched
             /\ UNCHANGED proposal
     /\ edit' = [edit EXCEPT ![e] = IdleEdit]
     /\ UNCHANGED <<World, task, left>>

AbandonEdit(e) ==
  /\ edit[e].pc # "idle"
  /\ edit' = [edit EXCEPT ![e] = IdleEdit]
  /\ UNCHANGED <<Store, World, task, left>>

EditorStep(e) == Lookup(e) \/ CommitEdit(e)
-----------------------------------------------------------------------------
Midnight ==
  /\ day < MaxDay
  /\ day' = day + 1
  /\ UNCHANGED <<Store, inbox, keys, task, edit, left>>

Request ==
  \/ \E s \in Senders, p \in Proposals, body \in Deliveries : LoadProposal(s, p, body)
  \/ \E e \in Editors, q \in Prospects, changes \in Updates : Update(e, q, changes)
  \/ \E e \in Editors, address \in Emails, q \in Prospects \cup {None} :
       Suppress(e, address, q)
  \/ \E e \in Editors, p \in Proposals, address \in Addresses :
       inbox[<<p, address>>] > 0 /\ OptOut(e, ProspectOf[p], address)

Next ==
  \/ Request
  \/ \E s \in Senders : SenderStep(s) \/ AbandonTask(s)
  \/ \E e \in Editors : EditorStep(e) \/ AbandonEdit(e)
  \/ Midnight

\* Every call a handler makes is bounded by a timeout, and its thread keeps
\* running; nothing obliges a client to send a request.
Fairness ==
  /\ \A s \in Senders : WF_vars(SenderStep(s))
  /\ \A e \in Editors : WF_vars(EditorStep(e))

Spec == Init /\ [][Next]_vars /\ Fairness
-----------------------------------------------------------------------------
(* Properties *)

Task == [pc : {"idle", "loaded", "addressed", "permitted", "sending", "sent", "failed"},
         proposal : Proposals \cup {None}, provider : AnyProvider,
         test : BOOLEAN, row : Row, recipient : Addresses \cup {None},
         tries : 0..1, stamp : 0..MaxDay, barred : SUBSET Emails]
Edit == [pc : {"idle", "loaded", "ready"}, prospect : Prospects \cup {None},
         loaded : Contact, assigned : Contact, address : Emails \cup {None},
         insert : BOOLEAN, vouches : BOOLEAN]

\* A request being served has its proposal, and past the contact its recipient.
Bound(t) ==
  /\ t.pc # "idle" => t.proposal \in Proposals
  /\ t.pc \notin {"idle", "loaded"} =>
       t.recipient \in IF t.test THEN {Operator} ELSE Emails

BoundEdit(r) ==
  /\ r.vouches => r.prospect \in Prospects
  /\ r.insert => r.address \in Emails

\* Every variable keeps the shape its columns and its handlers give it.
TypeOK ==
  /\ proposal \in [Proposals -> Row]
  /\ contact \in [Prospects -> Contact]
  /\ suppressed \in SUBSET Emails
  /\ day \in 1..MaxDay
  /\ inbox \in [Proposals \X Addresses -> Nat]
  /\ keys \in SUBSET (Proposals \X Addresses)
  /\ task \in [Senders -> Task] /\ \A s \in Senders : Bound(task[s])
  /\ edit \in [Editors -> Edit]
  /\ \A e \in Editors : BoundEdit(edit[e])
  /\ left \in 0..MaxRequests
  /\ vouched \in SUBSET (Prospects \X (Emails \cup {None}))

\* Sent mail to a contact; mail to the operator is a test.
Mailed(p, address) == address \in Emails /\ inbox[<<p, address>>] > 0

\* deliver_proposal counts and commits in two steps, with a network call in
\* between, so the limit can be overshot: but by no more than the requests
\* that can be in flight at once, whatever the order of their commits, and
\* whatever a failed attempt or a midnight does to the count.
OvershootBounded == Cardinality(ProcessedToday) <= MaxLimit - 1 + Cardinality(Senders)

\* A row never claims a delivery that did not happen: under every race of
\* commits, "delivered" comes with its own timestamps and with a message that
\* reached a contact.
DeliveredWasSent ==
  \A p \in Proposals : proposal[p].status = "delivered" =>
    /\ proposal[p].delivered_at = proposal[p].processed_at
    /\ proposal[p].delivered_at \in 1..day
    /\ \E address \in Emails : Mailed(p, address)

\* With Resend a proposal reaches an address once, whatever is retried, lost,
\* abandoned or requested twice: the idempotency key names both.
OncePerAddress == \A m \in Proposals \X Addresses : inbox[m] <= 1

\* An opt-out committed before a deliver request arrives is honoured by it:
\* the message of a request never goes to an address that was suppressed then.
PriorOptOutHonoured ==
  [][\A p \in Proposals, address \in Emails :
       inbox'[<<p, address>>] > inbox[<<p, address>>] =>
         \E s \in Senders : /\ task[s].proposal = p /\ task[s].recipient = address
                            /\ address \notin task[s].barred]_vars

\* An edit that had an address to suppress leaves it suppressed when it is
\* answered, also when its lookup was stale or its insert lost the race against
\* that of another (the unique index under _upsert_suppression).
OptOutTakesEffect ==
  [][\A e \in Editors : CommitEdit(e) =>
       edit[e].address \in suppressed' \cup {None}]_vars

\* What a request may yet bring to whom, or record of it.
Reachable(t) ==
  IF t.test \/ t.pc = "idle" \/ t.row.status = "delivered" THEN {}
  ELSE {t.proposal} \X ((IF t.pc = "loaded" THEN Emails ELSE {t.recipient}) \ t.barred)

Abstract ==
  INSTANCE Outreach WITH
    letters  <- [m \in Proposals \X Emails |-> inbox[m]],
    barred   <- suppressed,
    claimed  <- {p \in Proposals : proposal[p].status = "delivered"},
    underway <- UNION {Reachable(task[s]) : s \in Senders}

\* With Resend, deliveries that overlap, are retried, lose their answers or
\* die, with edits and opt-outs in between, implement Outreach.
OutreachKept == Abstract!Spec

\* Nobody who found the proposal undelivered is at it any more.
Settled(p) ==
  /\ proposal[p].status = "delivered"
  /\ \A s \in Senders :
       task[s].proposal = p /\ ~task[s].test => task[s].row.status = "delivered"

\* "Once per proposal" as far as the code keeps it, with every provider: when
\* the requests that raced for a proposal are over and its row says delivered,
\* it stays so, and no later request sends it to anybody again.
SettledForGood ==
  [][\A p \in Proposals : Settled(p) =>
       Settled(p)' /\ \A a \in Emails : inbox'[<<p, a>>] = inbox[<<p, a>>]]_vars

\* No deliver request hangs: attempts are bounded and every path answers.
EveryDeliveryAnswered == \A s \in Senders : (task[s].pc # "idle") ~> (task[s].pc = "idle")

(* What the documentation says and the code does not keep. *)

\* README.md:24 "once per proposal".
OncePerProposal ==
  \A p \in Proposals : \A a, b \in Emails :
    Mailed(p, a) /\ Mailed(p, b) => a = b /\ inbox[<<p, a>>] = 1

\* README.md:24 "inside a per-tenant daily limit".
WithinDailyLimit == Cardinality(ProcessedToday) <= MaxLimit

\* models.py:134-136: an address is used only after an operator said how it
\* was verified.
OnlyVouchedAddresses ==
  \A p \in Proposals, address \in Emails :
    Mailed(p, address) => <<ProspectOf[p], address>> \in vouched
=============================================================================
