-------------------------- MODULE PromotionProofs --------------------------
(***************************************************************************)
(* Proofs about Promotion: type correctness, that a contacted prospect has *)
(* a recorded promotion or an operator's choice behind it, and that every  *)
(* step hands over at most one lead per prospect.                          *)
(***************************************************************************)
EXTENDS Promotion, TLAPS

\* What a flush leaves in a prospect's row, column by column.
LEMMA FlushedProspect ==
  ASSUME NEW stored \in Prospect, NEW loaded \in Prospect, NEW assigned \in Prospect
  PROVE  LET f == Flushed(stored, loaded, assigned)
         IN /\ f \in Prospect
            /\ f.stage = IF assigned.stage = loaded.stage THEN stored.stage ELSE assigned.stage
<1> DEFINE f == Flushed(stored, loaded, assigned)
<1>1. DOMAIN stored = {"stage", "do_not_contact"}
  BY DEF Prospect
<1>2. f = [stage |-> f["stage"], do_not_contact |-> f["do_not_contact"]]
  BY <1>1 DEF Flushed
<1>3. /\ f["stage"] = IF assigned.stage = loaded.stage THEN stored.stage ELSE assigned.stage
      /\ f["do_not_contact"] \in {stored.do_not_contact, assigned.do_not_contact}
  BY <1>1 DEF Flushed
<1>4. f["stage"] \in Stages /\ f["do_not_contact"] \in BOOLEAN
  BY <1>3 DEF Prospect
<1> HIDE DEF f
<1>5. f \in Prospect
  BY <1>2, <1>4 DEF Prospect
<1> QED
  BY <1>3, <1>5 DEF f

\* The row and the thread of nobody are well-typed.
LEMMA FreshType == Fresh \in Prospect /\ Idle \in Call
BY PromotionAssumption DEF Fresh, Idle, Call, Prospect

\* The request a thread serves, field by field.
LEMMA CallFields ==
  ASSUME TypeOK, NEW t \in Threads
  PROVE  /\ call[t] \in Call
         /\ call[t].loaded \in Prospect /\ call[t].assigned \in Prospect
         /\ call[t].pc # "idle" => call[t].prospect \in Prospects
BY DEF TypeOK, Call

\* What Request(t) makes of the variables.
LEMMA RequestCases ==
  ASSUME TypeOK, NEW t \in Threads, Request(t)
  PROVE  /\ \E q \in Prospects, pc \in {"calling", "writing"}, assigned \in Prospect :
              call' = [call EXCEPT ![t] = [pc |-> pc, prospect |-> q, loaded |-> prospect[q],
                                           assigned |-> assigned, tries |-> 0]]
         /\ left > 0 /\ left' = left - 1
         /\ UNCHANGED <<prospect, promoted, chosen, leads, keys>>
<1>1. CASE \E q \in Prospects : BeginPromote(t, q)
  <2>1. PICK q \in Prospects : BeginPromote(t, q)
    BY <1>1
  <2>2. [prospect[q] EXCEPT !.stage = "contacted"] \in Prospect
    BY PromotionAssumption DEF TypeOK, Prospect
  <2> QED
    BY <2>1, <2>2 DEF BeginPromote, Begin, Nova, Crm
<1>2. CASE \E q \in Prospects : BeginUpdate(t, q)
  BY <1>2 DEF BeginUpdate, Begin, Nova, Crm
<1> QED
  BY <1>1, <1>2 DEF Request

\* What an attempt makes of the variables.
LEMMA AttemptCases ==
  ASSUME TypeOK, NEW t \in Threads, Attempt(t)
  PROVE  /\ call[t].pc = "calling" /\ call[t].prospect \in Prospects
         /\ UNCHANGED <<prospect, promoted, chosen, left>>
         /\ \/ UNCHANGED <<leads, keys>>
            \/ Accepted(t)
         /\ \/ call' = [call EXCEPT ![t].pc = "answered"] /\ Accepted(t)
            \/ call' = [call EXCEPT ![t].tries = @ + 1] /\ call[t].tries + 1 < 3
            \/ call' = [call EXCEPT ![t] = Idle]
BY CallFields DEF Attempt, Nova, Crm, Answer, Attempts

\* A call that is put in place of another.
LEMMA CallStep ==
  ASSUME TypeOK, NEW t \in Threads, NEW c \in Call, c.pc # "idle" => c.prospect \in Prospects,
         call' = [call EXCEPT ![t] = c]
  PROVE  /\ call' \in [Threads -> Call]
         /\ \A u \in Threads : call'[u].pc # "idle" => call'[u].prospect \in Prospects
BY DEF TypeOK

\* Every step keeps the types.
LEMMA TypeStep == TypeOK /\ [Next]_vars => TypeOK'
<1> SUFFICES ASSUME TypeOK, [Next]_vars PROVE TypeOK'
  OBVIOUS
<1>1. ASSUME NEW t \in Threads, Request(t) PROVE TypeOK'
  <2>1. PICK q \in Prospects, pc \in {"calling", "writing"}, assigned \in Prospect :
          call' = [call EXCEPT ![t] = [pc |-> pc, prospect |-> q, loaded |-> prospect[q],
                                       assigned |-> assigned, tries |-> 0]]
    BY <1>1, RequestCases
  <2> DEFINE c == [pc |-> pc, prospect |-> q, loaded |-> prospect[q],
                   assigned |-> assigned, tries |-> 0]
  <2>2. c \in Call /\ c.prospect \in Prospects
    BY DEF Call, TypeOK
  <2> HIDE DEF c
  <2>3. /\ call' \in [Threads -> Call]
        /\ \A u \in Threads : call'[u].pc # "idle" => call'[u].prospect \in Prospects
    BY <2>1, <2>2, CallStep DEF c
  <2>4. /\ left > 0 /\ left' = left - 1
        /\ UNCHANGED <<prospect, promoted, chosen, leads, keys>>
    BY <1>1, RequestCases
  <2> QED
    BY <2>3, <2>4, PromotionAssumption DEF TypeOK
<1>2. ASSUME NEW t \in Threads, Attempt(t) PROVE TypeOK'
  <2>1. [call[t] EXCEPT !.pc = "answered"] \in Call
    BY CallFields DEF Call
  <2>2. call[t].tries + 1 < 3 => [call[t] EXCEPT !.tries = @ + 1] \in Call
    BY CallFields DEF Call
  <2>3. /\ call' \in [Threads -> Call]
        /\ \A u \in Threads : call'[u].pc # "idle" => call'[u].prospect \in Prospects
    BY <1>2, <2>1, <2>2, AttemptCases, CallStep, CallFields, FreshType DEF Idle, Call
  <2>4. leads' \in [Prospects -> Nat] /\ keys' \in SUBSET Prospects
    BY <1>2, AttemptCases DEF Accepted, IdempotencyKey, TypeOK
  <2> QED
    BY <1>2, <2>3, <2>4, AttemptCases DEF TypeOK
<1>3. ASSUME NEW t \in Threads, CommitPromote(t) \/ CommitUpdate(t) \/ Abandon(t) PROVE TypeOK'
  <2>1. /\ call' \in [Threads -> Call]
        /\ \A u \in Threads : call'[u].pc # "idle" => call'[u].prospect \in Prospects
    BY <1>3, CallStep, FreshType DEF CommitPromote, CommitUpdate, Abandon, Answer, Idle
  <2>2. prospect' \in [Prospects -> Prospect]
    BY <1>3, FlushedProspect, CallFields
    DEF CommitPromote, CommitUpdate, Abandon, Nova, TypeOK
  <2>3. promoted' \in SUBSET Prospects /\ chosen' \in SUBSET Prospects
    BY <1>3, CallFields DEF CommitPromote, CommitUpdate, Abandon, Nova, TypeOK
  <2>4. UNCHANGED <<leads, keys, left>>
    BY <1>3 DEF CommitPromote, CommitUpdate, Abandon, Crm
  <2> QED
    BY <2>1, <2>2, <2>3, <2>4 DEF TypeOK
<1>4. CASE UNCHANGED vars
  BY <1>4 DEF vars, TypeOK
<1> QED
  BY <1>1, <1>2, <1>3, <1>4 DEF Next, Step

\* The initial states have the types.
LEMMA TypeInit == Init => TypeOK
BY FreshType, PromotionAssumption DEF Init, TypeOK, Idle

\* The variables keep their types, for any prospects, stages and threads.
THEOREM TypeCorrect == Spec => []TypeOK
BY TypeInit, TypeStep, PTL DEF Spec
-----------------------------------------------------------------------------
(* The stage *)

\* A commit of a promotion gives the cause with the stage; a commit of an
\* update writes the stage only where the operator changed it.
LEMMA CauseStep == TypeOK /\ ContactedHasCause /\ [Next]_vars => ContactedHasCause'
<1> SUFFICES ASSUME TypeOK, ContactedHasCause, [Next]_vars PROVE ContactedHasCause'
  OBVIOUS
<1>1. ASSUME NEW t \in Threads, CommitPromote(t) PROVE ContactedHasCause'
  BY <1>1, CallFields DEF CommitPromote, ContactedHasCause, TypeOK
<1>2. ASSUME NEW t \in Threads, CommitUpdate(t) PROVE ContactedHasCause'
  <2> DEFINE c == call[t]
             q == c.prospect
  <2>1. q \in Prospects /\ c.loaded \in Prospect /\ c.assigned \in Prospect
    BY <1>2, CallFields DEF CommitUpdate
  <2>2. /\ prospect' = [prospect EXCEPT ![q] = Flushed(prospect[q], c.loaded, c.assigned)]
        /\ chosen' = IF c.assigned.stage = "contacted" /\ c.loaded.stage # "contacted"
                     THEN chosen \cup {q} ELSE chosen
        /\ promoted' = promoted
    BY <1>2 DEF CommitUpdate
  <2>3. prospect'[q].stage = IF c.assigned.stage = c.loaded.stage
                             THEN prospect[q].stage ELSE c.assigned.stage
    BY <2>1, <2>2, FlushedProspect DEF TypeOK
  <2>4. \A r \in Prospects : r # q => prospect'[r] = prospect[r]
    BY <2>2 DEF TypeOK
  <2> QED
    BY <2>1, <2>2, <2>3, <2>4 DEF ContactedHasCause
<1>3. ASSUME NEW t \in Threads, Request(t) \/ Attempt(t) \/ Abandon(t) PROVE ContactedHasCause'
  <2>1. UNCHANGED <<prospect, promoted, chosen>>
    BY <1>3, RequestCases, AttemptCases DEF Abandon, Nova
  <2> QED
    BY <2>1 DEF ContactedHasCause
<1>4. CASE UNCHANGED vars
  BY <1>4 DEF vars, ContactedHasCause
<1> QED
  BY <1>1, <1>2, <1>3, <1>4 DEF Next, Step

\* A prospect is "contacted" only when a promotion of it was recorded or an
\* operator said so: a CRM failure leaves the stage untouched.
THEOREM CauseTheorem == Spec => []ContactedHasCause
<1>1. Init => ContactedHasCause
  BY DEF Init, ContactedHasCause, Fresh
<1> QED
  BY <1>1, TypeInit, TypeStep, CauseStep, PTL DEF Spec
-----------------------------------------------------------------------------
(* The lead *)

\* A lead stands for each retained key, and nothing is answered or recorded
\* without its key.
LeadInv ==
  /\ \A q \in Prospects : leads[q] = IF q \in keys THEN 1 ELSE 0
  /\ \A t \in Threads : call[t].pc = "answered" => call[t].prospect \in keys
  /\ promoted \subseteq keys

\* A request leaves the leads alone, and is not answered yet.
LEMMA LeadRequest ==
  ASSUME TypeOK, LeadInv, NEW t \in Threads, Request(t) PROVE LeadInv'
BY RequestCases DEF LeadInv, TypeOK

\* An accepted attempt creates the lead of its key, once.
LEMMA LeadAttempt ==
  ASSUME TypeOK, LeadInv, NEW t \in Threads, Attempt(t) PROVE LeadInv'
<1> DEFINE q == call[t].prospect
<1>1. /\ q \in Prospects /\ UNCHANGED promoted
      /\ keys \subseteq keys'
      /\ \A r \in Prospects : leads'[r] = IF r \in keys' THEN 1 ELSE 0
  BY AttemptCases DEF LeadInv, Accepted, IdempotencyKey, TypeOK
<1>2. ASSUME NEW u \in Threads, call'[u].pc = "answered" PROVE call'[u].prospect \in keys'
  <2>1. CASE u # t
    BY <1>1, <1>2, <2>1, AttemptCases DEF LeadInv, TypeOK
  <2>2. CASE u = t
    BY <1>2, <2>2, AttemptCases, CallFields DEF Accepted, IdempotencyKey, TypeOK, Idle, Call
  <2> QED
    BY <2>1, <2>2
<1> QED
  BY <1>1, <1>2 DEF LeadInv

\* A commit records a promotion whose key is retained.
LEMMA LeadCommit ==
  ASSUME TypeOK, LeadInv, NEW t \in Threads,
         CommitPromote(t) \/ CommitUpdate(t) \/ Abandon(t)
  PROVE  LeadInv'
<1>1. /\ UNCHANGED <<leads, keys>> /\ call' = [call EXCEPT ![t] = Idle]
      /\ promoted' \subseteq promoted \cup (IF call[t].pc = "answered"
                                            THEN {call[t].prospect} ELSE {})
  BY DEF CommitPromote, CommitUpdate, Abandon, Answer, Nova, Crm
<1> QED
  BY <1>1 DEF LeadInv, TypeOK, Idle

\* Every step keeps a lead behind each key.
LEMMA LeadStep == TypeOK /\ LeadInv /\ [Next]_vars => LeadInv'
<1>1. UNCHANGED vars /\ LeadInv => LeadInv'
  BY DEF vars, LeadInv
<1> QED
  BY <1>1, LeadRequest, LeadAttempt, LeadCommit DEF Next, Step

\* Under the invariant a prospect is in one of three phases.
LEMMA Phase ==
  ASSUME LeadInv, NEW q \in Prospects
  PROVE  HandoffOf(q) = IF q \in promoted THEN "recorded"
                        ELSE IF q \in keys THEN "lead" ELSE "none"
BY DEF LeadInv, HandoffOf

Handed == [q \in Prospects |-> HandoffOf(q)]

\* At most one prospect gets a key or a record in a step, never both.
LEMMA OneChange ==
  ASSUME TypeOK, LeadInv, [Next]_vars
  PROVE  \/ UNCHANGED <<keys, promoted>>
         \/ \E q \in Prospects : keys' = keys \cup {q} /\ promoted' = promoted
         \/ \E q \in Prospects : q \in keys /\ keys' = keys /\ promoted' = promoted \cup {q}
<1>1. ASSUME NEW t \in Threads, Attempt(t)
      PROVE  \/ UNCHANGED <<keys, promoted>>
             \/ \E q \in Prospects : keys' = keys \cup {q} /\ promoted' = promoted
  BY <1>1, AttemptCases DEF Accepted, IdempotencyKey
<1>2. ASSUME NEW t \in Threads, CommitPromote(t)
      PROVE  \E q \in Prospects : q \in keys /\ keys' = keys /\ promoted' = promoted \cup {q}
  BY <1>2, CallFields DEF CommitPromote, LeadInv, Crm
<1>3. ASSUME NEW t \in Threads, Request(t) \/ CommitUpdate(t) \/ Abandon(t)
      PROVE  UNCHANGED <<keys, promoted>>
  BY <1>3, RequestCases DEF CommitUpdate, Abandon, Crm, Nova
<1> QED
  BY <1>1, <1>2, <1>3 DEF Next, Step, vars

\* Every step creates a lead, records one, or leaves the hand-over alone.
LEMMA HandoffStep ==
  ASSUME TypeOK, LeadInv, LeadInv', [Next]_vars
  PROVE  Abstract!Next \/ Handed' = Handed
<1>a. \A q \in Prospects : HandoffOf(q)' = IF q \in promoted' THEN "recorded"
                                           ELSE IF q \in keys' THEN "lead" ELSE "none"
  BY DEF LeadInv, HandoffOf
<1>b. promoted \subseteq keys /\ promoted' \subseteq keys'
  BY DEF LeadInv
<1>1. CASE UNCHANGED <<keys, promoted>>
  BY <1>1, <1>a, Phase DEF Handed
<1>2. ASSUME NEW q \in Prospects, keys' = keys \cup {q}, promoted' = promoted, q \notin keys
      PROVE  Abstract!Next
  <2>1. Handed[q] = "none" /\ Handed' = [Handed EXCEPT ![q] = "lead"]
    BY <1>2, <1>a, <1>b, Phase DEF Handed
  <2> QED
    BY <2>1 DEF Abstract!Next, Abstract!Create, Handed
<1>3. ASSUME NEW q \in Prospects, q \in keys, keys' = keys, promoted' = promoted \cup {q},
             q \notin promoted
      PROVE  Abstract!Next
  <2>1. Handed[q] = "lead" /\ Handed' = [Handed EXCEPT ![q] = "recorded"]
    BY <1>3, <1>a, Phase DEF Handed
  <2> QED
    BY <2>1 DEF Abstract!Next, Abstract!Record, Handed
<1>4. \/ UNCHANGED <<keys, promoted>>
      \/ \E q \in Prospects : keys' = keys \cup {q} /\ promoted' = promoted /\ q \notin keys
      \/ \E q \in Prospects : /\ q \in keys /\ keys' = keys /\ promoted' = promoted \cup {q}
                              /\ q \notin promoted
  BY OneChange
<1> QED
  BY <1>1, <1>2, <1>3, <1>4

\* Promotions implement one hand-over per prospect: one lead, recorded only
\* once it exists, through retries, lost answers and crashes.
THEOREM HandoffTheorem == Spec => HandoffKept
<1>1. Init => LeadInv
  BY DEF Init, LeadInv, Idle
<1>2. Init => Abstract!Init
  BY DEF Init, Abstract!Init, HandoffOf
<1>3. TypeOK /\ LeadInv /\ LeadInv' /\ [Next]_vars => [Abstract!Next]_Handed
  BY HandoffStep
<1>4. Spec => [](TypeOK /\ LeadInv)
  BY <1>1, TypeInit, TypeStep, LeadStep, PTL DEF Spec
<1> QED
  BY <1>2, <1>3, <1>4, PTL DEF Spec, HandoffKept, Abstract!Spec, Handed
=============================================================================
