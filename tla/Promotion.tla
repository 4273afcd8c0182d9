----------------------------- MODULE Promotion -----------------------------
(***************************************************************************)
(* Handing a prospect to the SalesOS CRM: promote_prospect_to_crm, the     *)
(* client behind it, and the handlers that write the pipeline stage and    *)
(* do_not_contact of a prospect while the CRM is being called.             *)
(*                                                                         *)
(* The CRM is called before anything is committed, up to three times, with *)
(* a key that names the prospect; the stage and the audit event are        *)
(* committed after its answer.  One tenant.  The content of a lead         *)
(* (contact, evidence, titles) is left out: nothing reads it back.         *)
(*                                                                         *)
(* MaxRequests bounds the requests of a behaviour.                         *)
(***************************************************************************)
EXTENDS UnitOfWork, Integers

CONSTANTS
  Prospects,
  Stages,         \* website_prospects.status
  None,
  Threads, MaxRequests

Prospect == [stage : Stages, do_not_contact : BOOLEAN]

ASSUME PromotionAssumption ==
  /\ {"qualified", "contacted"} \subseteq Stages
  /\ None \notin Prospects
  /\ MaxRequests \in Nat

VARIABLES
  prospect,   \* the stage and do_not_contact columns of website_prospects
  promoted,   \* prospects with a prospecting.prospect_promoted audit event
  leads,      \* leads the CRM has created, per prospect
  keys,       \* idempotency keys the CRM has retained
  call,       \* the request each thread is serving
  left,       \* requests the behaviour may still start
  chosen      \* history: prospects an operator has set to "contacted"

vars == <<prospect, promoted, leads, keys, call, left, chosen>>
-----------------------------------------------------------------------------
Fresh == [stage |-> "qualified", do_not_contact |-> FALSE]
Idle  == [pc |-> "idle", prospect |-> None, loaded |-> Fresh, assigned |-> Fresh, tries |-> 0]

Init ==
  /\ prospect = [q \in Prospects |-> Fresh]
  /\ promoted = {} /\ chosen = {}
  /\ leads = [q \in Prospects |-> 0] /\ keys = {}
  /\ call = [t \in Threads |-> Idle]
  /\ left = MaxRequests

Nova == <<prospect, promoted, chosen>>
Crm  == <<leads, keys>>

\* A request for prospect q arrives and loads its row.
Begin(t, q, pc, assigned) ==
  /\ call[t].pc = "idle" /\ left > 0
  /\ call' = [call EXCEPT ![t] = [pc |-> pc, prospect |-> q, loaded |-> prospect[q],
                                  assigned |-> assigned, tries |-> 0]]
  /\ left' = left - 1
  /\ UNCHANGED <<Nova, Crm>>

Answer(t) == call' = [call EXCEPT ![t] = Idle]
-----------------------------------------------------------------------------
(* promote_prospect_to_crm *)

BeginPromote(t, q) ==
  /\ ~prospect[q].do_not_contact
  /\ Begin(t, q, "calling", [prospect[q] EXCEPT !.stage = "contacted"])

\* Mutant of IdempotencyKey: a key per request.
KeyPerRequest(t) == <<call[t].prospect, t>>
IdempotencyKey(t) == call[t].prospect

\* The CRM answers a key it has retained with its first promotion.
Accepted(t) ==
  /\ leads' = IF IdempotencyKey(t) \in keys THEN leads
              ELSE [leads EXCEPT ![call[t].prospect] = @ + 1]
  /\ keys' = keys \cup {IdempotencyKey(t)}

\* Mutant of Attempts: the policy counts retries instead of attempts.
AttemptsAndOne == 4

\* RetryPolicy(attempts=3).
Attempts == 3

\* One attempt.  The CRM may have created the lead though its answer is lost
\* ("lost": timeout, reset, retryable status) or of no use ("error"); without
\* a base URL or a bearer token it is never asked, an error not accepted.
Attempt(t) ==
  /\ call[t].pc = "calling"
  /\ \E accepted \in BOOLEAN, answer \in {"ok", "lost", "error"} :
       /\ answer = "ok" => accepted
       /\ IF accepted THEN Accepted(t) ELSE UNCHANGED Crm
       /\ CASE answer = "ok" ->
                 call' = [call EXCEPT ![t].pc = "answered"]
            [] answer = "lost" /\ call[t].tries + 1 < Attempts ->
                 call' = [call EXCEPT ![t].tries = @ + 1]
            [] OTHER -> Answer(t)
  /\ UNCHANGED <<Nova, left>>

\* Mutant of CommitPromote: the workflow is advanced before the answer.
CommitEarly(t) ==
  LET c == call[t]
  IN /\ c.pc \in {"calling", "answered"}
     /\ prospect' = [prospect EXCEPT ![c.prospect] = Flushed(@, c.loaded, c.assigned)]
     /\ promoted' = IF c.pc = "answered" THEN promoted \cup {c.prospect} ELSE promoted
     /\ IF c.pc = "answered" THEN Answer(t)
        ELSE call' = [call EXCEPT ![t].loaded = c.assigned]
     /\ UNCHANGED <<chosen, Crm, left>>

\* record_audit is part of the transaction.
CommitPromote(t) ==
  LET c == call[t]
  IN /\ c.pc = "answered"
     /\ prospect' = [prospect EXCEPT ![c.prospect] = Flushed(@, c.loaded, c.assigned)]
     /\ promoted' = promoted \cup {c.prospect}
     /\ Answer(t)
     /\ UNCHANGED <<chosen, Crm, left>>
-----------------------------------------------------------------------------
(* update_prospect; run_analysis, generate_proposal and approve_proposal     *)
(* write the stage and the opt-outs do_not_contact, as some update does.     *)

BeginUpdate(t, q) ==
  \E assigned \in Prospect : assigned # prospect[q] /\ Begin(t, q, "writing", assigned)

CommitUpdate(t) ==
  LET c == call[t]
      choice == c.assigned.stage = "contacted" /\ c.loaded.stage # "contacted"
  IN /\ c.pc = "writing"
     /\ prospect' = [prospect EXCEPT ![c.prospect] = Flushed(@, c.loaded, c.assigned)]
     /\ chosen' = IF choice THEN chosen \cup {c.prospect} ELSE chosen
     /\ Answer(t)
     /\ UNCHANGED <<promoted, Crm, left>>
-----------------------------------------------------------------------------
\* The process dies, or an exception that is not typed is rolled back: also
\* after the CRM has created the lead.
Abandon(t) ==
  /\ call[t].pc # "idle"
  /\ Answer(t)
  /\ UNCHANGED <<Nova, Crm, left>>

Request(t) == \E q \in Prospects : BeginPromote(t, q) \/ BeginUpdate(t, q)
Step(t)    == Attempt(t) \/ CommitPromote(t) \/ CommitUpdate(t)

Next == \E t \in Threads : Request(t) \/ Step(t) \/ Abandon(t)

\* An attempt is bounded by its timeout, and a thread keeps running.
Spec == Init /\ [][Next]_vars
-----------------------------------------------------------------------------
(* Properties *)

Call == [pc : {"idle", "calling", "answered", "writing"}, prospect : Prospects \cup {None},
         loaded : Prospect, assigned : Prospect, tries : 0..2]

\* Every variable keeps the shape its columns and its handlers give it; the
\* attempts of a request stay below the retry policy's three.
TypeOK ==
  /\ prospect \in [Prospects -> Prospect]
  /\ promoted \in SUBSET Prospects /\ chosen \in SUBSET Prospects
  /\ leads \in [Prospects -> Nat] /\ keys \in SUBSET Prospects
  /\ call \in [Threads -> Call]
  /\ \A t \in Threads : call[t].pc # "idle" => call[t].prospect \in Prospects
  /\ left \in 0..MaxRequests

\* README.md:162 "a CRM failure must leave Nova's own state untouched": a
\* prospect is "contacted" only when a promotion of it was recorded or an
\* operator said so, whatever promotions fail, are retried or die half-way
\* and whatever other handlers commit while they run.
ContactedHasCause ==
  \A q \in Prospects : prospect[q].stage = "contacted" => q \in promoted \cup chosen

HandoffOf(q) ==
  CASE leads[q] > 1                       -> "duplicated"
    [] leads[q] = 1 /\ q \in promoted     -> "recorded"
    [] leads[q] = 1 /\ q \notin promoted  -> "lead"
    [] leads[q] = 0 /\ q \in promoted     -> "invented"
    [] leads[q] = 0 /\ q \notin promoted  -> "none"

Abstract == INSTANCE Handoff WITH handoff <- [q \in Prospects |-> HandoffOf(q)]

\* Overlapping promotions, retries, lost answers and crashes implement one
\* hand-over per prospect: one lead, recorded only once it exists.
HandoffKept == Abstract!Spec
=============================================================================
