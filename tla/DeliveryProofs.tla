--------------------------- MODULE DeliveryProofs ---------------------------
(***************************************************************************)
(* Proofs about Delivery: type correctness, the bound on the overshoot of  *)
(* the daily limit, the evidence behind a row marked delivered, one        *)
(* message per address with Resend, earlier opt-outs honoured, every edit  *)
(* that had an address to suppress answered with it suppressed, a settled  *)
(* proposal that stays settled, and Delivery with Resend as an             *)
(* implementation of Outreach.                                             *)
(***************************************************************************)
EXTENDS Delivery, FiniteSetTheorems, TLAPS

\* A flush of delivery columns yields delivery columns.
LEMMA FlushedRow ==
  ASSUME NEW stored \in Row, NEW loaded \in Row, NEW assigned \in Row
  PROVE  Flushed(stored, loaded, assigned) \in Row
<1> DEFINE f == Flushed(stored, loaded, assigned)
<1>1. DOMAIN stored = {"status", "delivered_at", "processed_at"}
  BY DEF Row
<1>2. f = [status |-> f["status"], delivered_at |-> f["delivered_at"], processed_at |-> f["processed_at"]]
  BY <1>1 DEF Flushed
<1> QED
  BY <1>1, <1>2 DEF Flushed, Row

\* A flush of contact columns yields contact columns.
LEMMA FlushedContact ==
  ASSUME NEW stored \in Contact, NEW loaded \in Contact, NEW assigned \in Contact
  PROVE  Flushed(stored, loaded, assigned) \in Contact
<1> DEFINE f == Flushed(stored, loaded, assigned)
<1>1. DOMAIN stored = {"email", "verified", "do_not_contact"}
  BY DEF Contact
<1>2. f = [email |-> f["email"], verified |-> f["verified"], do_not_contact |-> f["do_not_contact"]]
  BY <1>1 DEF Flushed
<1> QED
  BY <1>1, <1>2 DEF Flushed, Contact

\* A body of update_prospect laid over a contact yields a contact.
LEMMA OverlayContact ==
  ASSUME NEW row \in Contact, NEW u \in Updates
  PROVE  Overlay(row, u) \in Contact
<1> DEFINE f == Overlay(row, u)
<1>1. DOMAIN row = {"email", "verified", "do_not_contact"}
  BY DEF Contact
<1>2. f = [email |-> f["email"], verified |-> f["verified"], do_not_contact |-> f["do_not_contact"]]
  BY <1>1 DEF Overlay
<1> QED
  BY <1>1, <1>2, DeliveryAssumption DEF Overlay, Contact

-----------------------------------------------------------------------------
\* A thread that serves nothing is well-typed.
LEMMA IdleTypes == IdleTask \in Task /\ IdleEdit \in Edit
BY DeliveryAssumption
   DEF IdleTask, IdleEdit, FreshRow, NoContact, Task, Edit, Row, Contact,
       AcceptedStatuses, AnyProvider

\* The fields a sender's steps assign, one at a time.
LEMMA TaskFields ==
  ASSUME NEW t \in Task
  PROVE  /\ \A pc \in {"addressed", "permitted", "sending", "sent", "failed"} :
              [t EXCEPT !.pc = pc] \in Task
         /\ \A n \in 0..1 : [t EXCEPT !.tries = n] \in Task
         /\ \A d \in 0..MaxDay : [t EXCEPT !.stamp = d] \in Task
         /\ \A a \in Addresses : [t EXCEPT !.recipient = a] \in Task
BY DEF Task

\* The initial states have their types.
LEMMA InitType == Init => TypeOK
<1> SUFFICES ASSUME Init PROVE TypeOK
  OBVIOUS
<1> USE DeliveryAssumption DEF Init
<1>1. proposal \in [Proposals -> Row]
  BY DEF FreshRow, Row, AcceptedStatuses
<1>2. contact \in [Prospects -> Contact]
  BY DEF Contact
<1>3. inbox \in [Proposals \X Addresses -> Nat]
  BY DEF Addresses
<1>4. task \in [Senders -> Task] /\ \A s \in Senders : Bound(task[s])
  BY IdleTypes DEF Bound, IdleTask
<1>5. /\ edit \in [Editors -> Edit]
      /\ \A e \in Editors : ~edit[e].vouches /\ ~edit[e].insert
  BY IdleTypes DEF IdleEdit
<1>6. \A q \in Prospects : contact[q].email \in Emails
  OBVIOUS
<1>7. vouched \in SUBSET (Prospects \X (Emails \cup {None}))
  BY <1>6
<1> QED
  BY <1>1, <1>2, <1>3, <1>4, <1>5, <1>7 DEF TypeOK, BoundEdit

\* A step of a sender puts one well-formed task in place of another.
LEMMA TaskStep ==
  ASSUME TypeOK, NEW s \in Senders, NEW t \in Task, Bound(t),
         task' = [task EXCEPT ![s] = t]
  PROVE  task' \in [Senders -> Task] /\ \A r \in Senders : Bound(task'[r])
BY DEF TypeOK

\* Where a task goes when its request is answered or merely moves on.
LEMMA MoveStep ==
  ASSUME TypeOK, NEW s \in Senders,
         \/ Answer(s)
         \/ \E pc \in {"permitted", "sending", "failed"} :
              Goto(s, pc) /\ task[s].pc \notin {"idle", "loaded"}
  PROVE  task' \in [Senders -> Task] /\ \A r \in Senders : Bound(task'[r])
<1>1. CASE Answer(s)
  <2>1. IdleTask \in Task /\ Bound(IdleTask)
    BY IdleTypes DEF Bound, IdleTask
  <2> QED
    BY <1>1, <2>1, TaskStep DEF Answer
<1>2. ASSUME NEW pc \in {"permitted", "sending", "failed"},
             Goto(s, pc), task[s].pc \notin {"idle", "loaded"}
      PROVE  task' \in [Senders -> Task] /\ \A r \in Senders : Bound(task'[r])
  <2> DEFINE t == [task[s] EXCEPT !.pc = pc]
  <2>0. task[s] \in Task /\ Bound(task[s])
    BY DEF TypeOK
  <2>1. t \in Task /\ Bound(t)
    BY <1>2, <2>0 DEF Task, Bound
  <2>2. task' = [task EXCEPT ![s] = t]
    BY <1>2 DEF Goto
  <2> QED
    BY <2>1, <2>2, TaskStep
<1> QED
  BY <1>1, <1>2

\* Reading the contact binds the recipient, or answers.
LEMMA LoadContactStep ==
  ASSUME TypeOK, NEW s \in Senders, LoadContact(s)
  PROVE  task' \in [Senders -> Task] /\ \A r \in Senders : Bound(task'[r])
<1> DEFINE person == contact[ProspectOf[task[s].proposal]]
           t == [task[s] EXCEPT !.recipient = Recipient(s, person),
                                !.pc = IF task[s].test THEN "sending" ELSE "addressed"]
<1>0. task[s] \in Task /\ task[s].proposal \in Proposals
  BY DEF TypeOK, LoadContact, Bound
<1>1. person \in Contact
  BY <1>0, DeliveryAssumption DEF TypeOK
<1>2. CASE Answer(s)
  BY <1>2, MoveStep
<1>3. CASE ~Answer(s)
  <2>1. task' = [task EXCEPT ![s] = t] /\ (task[s].test \/ person.email # None)
    BY <1>3 DEF LoadContact
  <2>2. Recipient(s, person) \in IF task[s].test THEN {Operator} ELSE Emails
    BY <2>1, <1>1 DEF Recipient, Contact
  <2>3. t \in Task
    BY <1>0, <2>2 DEF Task, Addresses
  <2>4. Bound(t)
    BY <1>0, <2>2 DEF Task, Bound
  <2> QED
    BY <2>1, <2>3, <2>4, TaskStep
<1> QED
  BY <1>2, <1>3

\* A receipt is stamped with the day it came.
LEMMA SentStep ==
  ASSUME TypeOK, NEW s \in Senders, task[s].pc = "sending",
         task' = [task EXCEPT ![s].pc = "sent", ![s].stamp = day]
  PROVE  task' \in [Senders -> Task] /\ \A r \in Senders : Bound(task'[r])
<1> DEFINE t == [task[s] EXCEPT !.pc = "sent", !.stamp = day]
<1>0. task[s] \in Task /\ Bound(task[s]) /\ day \in 0..MaxDay
  BY DeliveryAssumption DEF TypeOK
<1>1. t \in Task
  BY <1>0 DEF Task
<1>2. Bound(t)
  BY <1>0 DEF Task, Bound
<1>3. task' = [task EXCEPT ![s] = t]
  OBVIOUS
<1> QED
  BY <1>1, <1>2, <1>3, TaskStep

\* A lost answer is retried once, and only with Resend.
LEMMA RetryStep ==
  ASSUME TypeOK, NEW s \in Senders, task[s].pc = "sending",
         task[s].tries + 1 < Attempts(task[s].provider),
         task' = [task EXCEPT ![s].tries = @ + 1]
  PROVE  task' \in [Senders -> Task] /\ \A r \in Senders : Bound(task'[r])
<1> DEFINE t == [task[s] EXCEPT !.tries = @ + 1]
<1>0. task[s] \in Task /\ Bound(task[s])
  BY DEF TypeOK
<1>1. t \in Task
  BY <1>0 DEF Task, Attempts
<1>2. Bound(t)
  BY <1>0 DEF Task, Bound
<1>3. task' = [task EXCEPT ![s] = t]
  BY <1>0
<1> QED
  BY <1>1, <1>2, <1>3, TaskStep

\* What the provider keeps stays well-typed when it accepts a message.
LEMMA AcceptedType ==
  ASSUME TypeOK, NEW s \in Senders, task[s].pc = "sending", Accepted(s)
  PROVE  inbox' \in [Proposals \X Addresses -> Nat] /\ keys' \in SUBSET (Proposals \X Addresses)
<1>1. task[s] \in Task /\ task[s].proposal \in Proposals /\ task[s].recipient \in Addresses
  BY DEF TypeOK, Bound, Addresses
<1>2. IdempotencyKey(s) \in Proposals \X Addresses
  BY <1>1 DEF IdempotencyKey
<1> QED
  BY <1>1, <1>2 DEF Accepted, TypeOK

\* Both commits of deliver_proposal leave rows of the right type.
LEMMA RecordType ==
  ASSUME TypeOK, NEW s \in Senders, RecordSent(s) \/ RecordFailed(s)
  PROVE  proposal' \in [Proposals -> Row]
<1> DEFINE t == task[s]
           cleared == Flushed(proposal[t.proposal], t.row, [t.row EXCEPT !.delivered_at = 0])
           failed == Flushed(proposal[t.proposal], t.row, [t.row EXCEPT !.status = "failed"])
<1>1. t \in Task /\ t.proposal \in Proposals
  BY DEF TypeOK, Bound, RecordSent, RecordFailed
<1>2. t.row \in Row /\ t.stamp \in 0..MaxDay /\ proposal[t.proposal] \in Row
  BY <1>1 DEF Task, TypeOK
<1>3. [t.row EXCEPT !.delivered_at = 0] \in Row /\ [t.row EXCEPT !.status = "failed"] \in Row
  BY <1>2, DeliveryAssumption DEF Row
<1>4. cleared \in Row /\ failed \in Row
  BY <1>2, <1>3, FlushedRow
<1>5. CASE RecordSent(s)
  <2>1. Resolved(t.provider) \in AcceptedStatuses
    BY <1>1 DEF Resolved, AcceptedStatuses, IsExternal, Task, AnyProvider
  <2>2. cleared.delivered_at \in 0..MaxDay
    BY <1>4 DEF Row
  <2> DEFINE new == [status |-> Resolved(t.provider), processed_at |-> t.stamp,
                     delivered_at |-> IF IsExternal(t.provider) THEN t.stamp
                                      ELSE cleared.delivered_at]
  <2>3. new \in Row
    BY <1>2, <2>1, <2>2 DEF Row
  <2>4. proposal' = IF t.test THEN proposal ELSE [proposal EXCEPT ![t.proposal] = new]
    BY <1>5, <1>1 DEF RecordSent, TypeOK
  <2> QED
    BY <2>3, <2>4, <1>1 DEF TypeOK
<1>6. CASE RecordFailed(s)
  <2>1. proposal' = IF t.test THEN proposal ELSE [proposal EXCEPT ![t.proposal] = failed]
    BY <1>6, <1>1 DEF RecordFailed, TypeOK
  <2> QED
    BY <2>1, <1>4, <1>1 DEF TypeOK
<1> QED
  BY <1>5, <1>6

\* A step of a sender keeps the types.
LEMMA SenderType ==
  ASSUME TypeOK, NEW s \in Senders, SenderStep(s) \/ AbandonTask(s)
  PROVE  TypeOK'
<1> DEFINE TaskFine == task' \in [Senders -> Task] /\ \A r \in Senders : Bound(task'[r])
<1>q. ASSUME UNCHANGED <<Store, World, edit, left>>, TaskFine PROVE TypeOK'
  BY <1>q DEF TypeOK, Store, World
<1>1. CASE LoadContact(s)
  BY <1>1, <1>q, LoadContactStep DEF LoadContact
<1>2. CASE CheckSuppression(s)
  BY <1>2, <1>q, MoveStep DEF CheckSuppression
<1>3. CASE CheckBudget(s)
  BY <1>3, <1>q, MoveStep DEF CheckBudget
<1>4. CASE SendLocally(s)
  BY <1>4, <1>q, SentStep DEF SendLocally
<1>5. CASE SendForbidden(s)
  BY <1>5, <1>q, MoveStep DEF SendForbidden
<1>6. CASE Attempt(s)
  <2>1. \/ task' = [task EXCEPT ![s].pc = "sent", ![s].stamp = day]
        \/ /\ task[s].tries + 1 < Attempts(task[s].provider)
           /\ task' = [task EXCEPT ![s].tries = @ + 1]
        \/ Goto(s, "failed")
    BY <1>6 DEF Attempt
  <2>2. TaskFine
    BY <1>6, <2>1, SentStep, RetryStep, MoveStep DEF Attempt
  <2>3. Accepted(s) \/ UNCHANGED <<inbox, keys>>
    BY <1>6 DEF Attempt
  <2>4. inbox' \in [Proposals \X Addresses -> Nat] /\ keys' \in SUBSET (Proposals \X Addresses)
    BY <1>6, <2>3, AcceptedType DEF Attempt, TypeOK
  <2> QED
    BY <1>6, <2>2, <2>4 DEF Attempt, TypeOK, Store
<1>7. CASE RecordSent(s) \/ RecordFailed(s)
  <2>1. TaskFine
    BY <1>7, MoveStep DEF RecordSent, RecordFailed
  <2>2. proposal' \in [Proposals -> Row]
    BY <1>7, RecordType
  <2> QED
    BY <1>7, <2>1, <2>2 DEF RecordSent, RecordFailed, TypeOK, World
<1>8. CASE AbandonTask(s)
  BY <1>8, <1>q, MoveStep DEF AbandonTask
<1> QED
  BY <1>1, <1>2, <1>3, <1>4, <1>5, <1>6, <1>7, <1>8 DEF SenderStep

\* A well-typed request of an editor keeps the types when it begins.
LEMMA BeginType ==
  ASSUME TypeOK, NEW e \in Editors, NEW r \in Edit, Begin(e, r),
         r.vouches => r.prospect \in Prospects, ~r.insert
  PROVE  TypeOK'
<1>1. left' \in 0..MaxRequests
  BY DeliveryAssumption DEF Begin, TypeOK
<1> QED
  BY <1>1 DEF Begin, TypeOK, BoundEdit, Store, World

\* The arrival of any request keeps the types.
LEMMA RequestType ==
  ASSUME TypeOK, Request
  PROVE  TypeOK'
<1> USE DeliveryAssumption
<1>1. ASSUME NEW s \in Senders, NEW p \in Proposals, NEW body \in Deliveries,
             LoadProposal(s, p, body)
      PROVE  TypeOK'
  <2> DEFINE t == [IdleTask EXCEPT !.pc = "loaded", !.proposal = p,
                     !.provider = body.provider, !.test = body.test,
                     !.row = proposal[p], !.barred = suppressed]
  <2>1. t \in Task /\ Bound(t)
    BY IdleTypes DEF Task, Bound, TypeOK
  <2>2. task' \in [Senders -> Task] /\ \A r \in Senders : Bound(task'[r])
    BY <1>1, <2>1, TaskStep DEF LoadProposal
  <2>3. left' \in 0..MaxRequests
    BY <1>1 DEF LoadProposal, TypeOK
  <2> QED
    BY <1>1, <2>2, <2>3 DEF LoadProposal, TypeOK, Store, World
<1>2. ASSUME NEW e \in Editors, NEW q \in Prospects, NEW changes \in Updates,
             Update(e, q, changes)
      PROVE  TypeOK'
  <2> DEFINE assigned == Overlay(contact[q], changes)
             r == [pc |-> "loaded", prospect |-> q,
                   loaded |-> contact[q], assigned |-> assigned,
                   address |-> IF Sets(changes, "do_not_contact") THEN assigned.email ELSE None,
                   insert |-> FALSE, vouches |-> Sets(changes, "verified")]
  <2>1. contact[q] \in Contact /\ assigned \in Contact
    BY OverlayContact DEF TypeOK
  <2>2. r.address \in Emails \cup {None} /\ r.vouches \in BOOLEAN
    BY <2>1 DEF Contact, Sets
  <2>3. r \in Edit
    BY <2>1, <2>2 DEF Edit
  <2> QED
    BY <1>2, <2>3, BeginType DEF Update
<1>3. ASSUME NEW e \in Editors, NEW address \in Emails, NEW q \in Prospects \cup {None},
             Suppress(e, address, q)
      PROVE  TypeOK'
  <2> DEFINE row == IF q = None THEN NoContact ELSE contact[q]
             new == IF q = None THEN NoContact ELSE Barred(contact[q])
             r == [pc |-> "loaded", prospect |-> q, loaded |-> row, assigned |-> new,
                   address |-> address, insert |-> FALSE, vouches |-> FALSE]
  <2>1. row \in Contact /\ new \in Contact
    <3>1. NoContact \in Contact /\ (q # None => contact[q] \in Contact)
      BY DEF TypeOK, Contact, NoContact
    <3>2. \A stored \in Contact : Barred(stored) \in Contact
      BY DEF Contact, Barred
    <3> QED
      BY <3>1, <3>2
  <2>2. r \in Edit
    BY <2>1 DEF Edit
  <2> QED
    BY <1>3, <2>2, BeginType DEF Suppress
<1>4. ASSUME NEW e \in Editors, NEW p \in Proposals, NEW address \in Addresses,
             OptOut(e, ProspectOf[p], address)
      PROVE  TypeOK'
  <2> DEFINE q == ProspectOf[p]
             r == [pc |-> "loaded", prospect |-> q,
                   loaded |-> contact[q], assigned |-> Barred(contact[q]),
                   address |-> contact[q].email, insert |-> FALSE, vouches |-> FALSE]
  <2>1. q \in Prospects
    OBVIOUS
  <2>2. contact[q] \in Contact
    BY <2>1 DEF TypeOK
  <2>3. Barred(contact[q]) \in Contact /\ contact[q].email \in Emails \cup {None}
    BY <2>2 DEF Contact, Barred
  <2>4. r \in Edit
    BY <2>1, <2>2, <2>3 DEF Edit
  <2> QED
    BY <1>4, <2>4, BeginType DEF OptOut
<1> QED
  BY <1>1, <1>2, <1>3, <1>4 DEF Request

\* A step of an editor keeps the types.
LEMMA EditorType ==
  ASSUME TypeOK, NEW e \in Editors, EditorStep(e) \/ AbandonEdit(e)
  PROVE  TypeOK'
<1>0. edit[e] \in Edit /\ IdleEdit \in Edit
  BY IdleTypes DEF TypeOK
<1>5. ASSUME NEW r \in Edit, edit' = [edit EXCEPT ![e] = r],
             r.insert => r.address \in Emails, r.vouches => r.prospect \in Prospects,
             UNCHANGED <<Store, World, task, left>>
      PROVE  TypeOK'
  BY <1>5 DEF TypeOK, BoundEdit, Store, World
<1>1. CASE Lookup(e)
  <2> DEFINE r == [edit[e] EXCEPT !.pc = "ready",
                     !.insert = edit[e].address \notin suppressed \cup {None}]
  <2>1. r \in Edit
    BY <1>0 DEF Edit
  <2>2. r.insert => r.address \in Emails
    BY <1>0 DEF Edit
  <2>3. r.vouches => r.prospect \in Prospects
    BY <1>0 DEF Edit, TypeOK, BoundEdit
  <2>4. edit' = [edit EXCEPT ![e] = r]
    BY <1>1 DEF Lookup
  <2> QED
    BY <1>1, <1>5, <2>1, <2>2, <2>3, <2>4 DEF Lookup
<1>i. ~IdleEdit.insert /\ ~IdleEdit.vouches
  BY DEF IdleEdit
<1>2. ASSUME edit' = [edit EXCEPT ![e] = IdleEdit]
      PROVE  /\ edit' \in [Editors -> Edit]
             /\ \A d \in Editors : BoundEdit(edit'[d])
  BY <1>0, <1>2, <1>i DEF TypeOK, BoundEdit
<1>3. CASE CommitEdit(e)
  <2> DEFINE r == edit[e]
  <2>1. r.loaded \in Contact /\ r.assigned \in Contact
    BY <1>0 DEF Edit
  <2>2. ASSUME r.prospect # None
        PROVE  /\ r.prospect \in Prospects
               /\ Flushed(contact[r.prospect], r.loaded, r.assigned) \in Contact
    <3>1. r.prospect \in Prospects
      BY <1>0, <2>2 DEF Edit
    <3>2. contact[r.prospect] \in Contact
      BY <3>1 DEF TypeOK
    <3> QED
      BY <3>1, <3>2, <2>1, FlushedContact
  <2>3. contact' \in [Prospects -> Contact]
    BY <1>3, <2>2 DEF CommitEdit, TypeOK, Store
  <2>4. suppressed' \in SUBSET Emails
    <3>1. suppressed' = suppressed \/ (r.insert /\ suppressed' = suppressed \cup {r.address})
      BY <1>3 DEF CommitEdit, Store
    <3> QED
      BY <3>1 DEF TypeOK, BoundEdit
  <2>5. vouched' \in SUBSET (Prospects \X (Emails \cup {None}))
    <3>1. \/ vouched' = vouched
          \/ r.vouches /\ vouched' = vouched \cup {<<r.prospect, r.assigned.email>>}
      BY <1>3 DEF CommitEdit, Store
    <3>2. r.assigned.email \in Emails \cup {None}
      BY <2>1 DEF Contact
    <3> QED
      BY <3>1, <3>2 DEF TypeOK, BoundEdit
  <2>6. proposal' = proposal
    BY <1>3 DEF CommitEdit, Store
  <2> QED
    BY <1>3, <1>2, <2>3, <2>4, <2>5, <2>6 DEF CommitEdit, TypeOK, World
<1>4. CASE AbandonEdit(e)
  BY <1>4, <1>0, <1>i, <1>5 DEF AbandonEdit
<1> QED
  BY <1>1, <1>3, <1>4 DEF EditorStep

\* Every variable keeps its type, for any number of proposals, prospects,
\* threads and days.
THEOREM TypeCorrect == Spec => []TypeOK
<1>1. TypeOK /\ [Next]_vars => TypeOK'
  <2> SUFFICES ASSUME TypeOK, [Next]_vars PROVE TypeOK'
    OBVIOUS
  <2>1. CASE Request
    BY <2>1, RequestType
  <2>2. CASE \E s \in Senders : SenderStep(s) \/ AbandonTask(s)
    BY <2>2, SenderType
  <2>3. CASE \E e \in Editors : EditorStep(e) \/ AbandonEdit(e)
    BY <2>3, EditorType
  <2>4. CASE Midnight
    <3>1. day' \in 1..MaxDay
      BY <2>4, DeliveryAssumption DEF Midnight, TypeOK
    <3> QED
      BY <2>4, <3>1 DEF Midnight, TypeOK, Store
  <2>5. CASE UNCHANGED vars
    BY <2>5 DEF vars, TypeOK
  <2> QED
    BY <2>1, <2>2, <2>3, <2>4, <2>5 DEF Next
<1> QED
  BY InitType, <1>1, PTL DEF Spec
-----------------------------------------------------------------------------
(* The daily limit *)

\* The requests that have passed the limit and not yet committed: each may
\* still add one processed proposal to the day.
PastBudget == {s \in Senders : task[s].pc \in {"sending", "sent", "failed"} /\ ~task[s].test}

\* What overshoots is what is past the check: a request passes it only while
\* fewer than MaxLimit proposals count, and gives up its place when it commits.
BudgetInv ==
  Cardinality(ProcessedToday) + Cardinality(PastBudget) <= MaxLimit - 1 + Cardinality(Senders)

\* The two sets the budget argument counts are finite.
LEMMA BudgetFinite ==
  /\ IsFiniteSet(ProcessedToday) /\ IsFiniteSet(PastBudget)
  /\ Cardinality(ProcessedToday) \in Nat /\ Cardinality(PastBudget) \in Nat
  /\ Cardinality(Senders) \in Nat
  /\ Cardinality(PastBudget) <= Cardinality(Senders)
<1>1. ProcessedToday \in SUBSET Proposals /\ PastBudget \in SUBSET Senders
  BY DEF ProcessedToday, PastBudget
<1>2. IsFiniteSet(Proposals) /\ IsFiniteSet(Senders)
  BY DeliveryAssumption
<1> QED
  BY <1>1, <1>2, FS_Subset, FS_CardinalityType

\* Fewer processed rows and fewer requests past the check keep the budget.
LEMMA BudgetShrinks ==
  ASSUME BudgetInv, ProcessedToday' \subseteq ProcessedToday, PastBudget' \subseteq PastBudget
  PROVE  BudgetInv'
<1>1. /\ Cardinality(ProcessedToday') <= Cardinality(ProcessedToday)
      /\ Cardinality(PastBudget') <= Cardinality(PastBudget)
      /\ Cardinality(ProcessedToday') \in Nat /\ Cardinality(PastBudget') \in Nat
  BY BudgetFinite, FS_Subset, FS_CardinalityType
<1> QED
  BY <1>1, BudgetFinite, DeliveryAssumption DEF BudgetInv

\* The rows counted against the budget depend on the rows and the day alone.
LEMMA SameProcessed ==
  ASSUME UNCHANGED <<proposal, day>>
  PROVE  ProcessedToday' = ProcessedToday
BY DEF ProcessedToday

\* A commit trades a request past the check for a processed row; only the
\* check itself adds to the sum, and only below the limit.
LEMMA BudgetStep == TypeOK /\ BudgetInv /\ [Next]_vars => BudgetInv'
<1> SUFFICES ASSUME TypeOK, BudgetInv, [Next]_vars PROVE BudgetInv'
  OBVIOUS
<1> USE DEF Store, World
<1>a. ASSUME NEW s \in Senders, Answer(s) PROVE PastBudget' = PastBudget \ {s}
  BY <1>a DEF Answer, PastBudget, IdleTask, TypeOK
<1>m. ASSUME NEW s \in Senders, NEW pc, Goto(s, pc), pc \notin {"sending", "sent", "failed"}
      PROVE  PastBudget' \subseteq PastBudget
  BY <1>m DEF Goto, PastBudget, TypeOK, Task
<1>1. CASE Request
  <2>1. PastBudget' \subseteq PastBudget
    <3>1. CASE task' = task
      BY <3>1 DEF PastBudget
    <3>2. ASSUME NEW s \in Senders, NEW t, t.pc = "loaded", task' = [task EXCEPT ![s] = t]
          PROVE  PastBudget' \subseteq PastBudget
      BY <3>2 DEF PastBudget, TypeOK
    <3>3. task' = task \/ \E s \in Senders, p \in Proposals, body \in Deliveries :
                             LoadProposal(s, p, body)
      BY <1>1 DEF Request, Update, Suppress, OptOut, Begin
    <3> QED
      BY <3>1, <3>2, <3>3 DEF LoadProposal, IdleTask
  <2>2. UNCHANGED <<proposal, day>>
    BY <1>1 DEF Request, LoadProposal, Update, Suppress, OptOut, Begin
  <2> QED
    BY <2>1, <2>2, SameProcessed, BudgetShrinks
<1>2. ASSUME NEW s \in Senders, SenderStep(s) \/ AbandonTask(s) PROVE BudgetInv'
  <2>1. CASE LoadContact(s)
    <3>1. task'[s].pc \in {"sending", "sent", "failed"} => task'[s].test
      BY <2>1 DEF LoadContact, Answer, IdleTask, TypeOK, Task
    <3>2. PastBudget' \subseteq PastBudget
      BY <2>1, <3>1 DEF LoadContact, Answer, PastBudget, TypeOK
    <3> QED
      BY <2>1, <3>2, SameProcessed, BudgetShrinks DEF LoadContact
  <2>2. CASE CheckSuppression(s)
    <3>1. PastBudget' \subseteq PastBudget
      BY <2>2, <1>a, <1>m DEF CheckSuppression
    <3> QED
      BY <2>2, <3>1, SameProcessed, BudgetShrinks DEF CheckSuppression
  <2>3. CASE CheckBudget(s)
    <3>1. CASE Answer(s)
      BY <2>3, <3>1, <1>a, SameProcessed, BudgetShrinks DEF CheckBudget
    <3>2. CASE ~Answer(s)
      <4>1. Cardinality(ProcessedToday) < DailyLimit[ProspectOf[task[s].proposal]]
        BY <2>3, <3>2, BudgetFinite, DeliveryAssumption DEF CheckBudget, TypeOK, Bound
      <4>2. Cardinality(ProcessedToday) <= MaxLimit - 1
        BY <2>3, <4>1, BudgetFinite, DeliveryAssumption DEF CheckBudget, TypeOK, Bound
      <4>3. ProcessedToday' = ProcessedToday
        BY <2>3, SameProcessed DEF CheckBudget
      <4>4. PastBudget' \in SUBSET Senders
        BY DEF PastBudget
      <4>5. Cardinality(PastBudget') <= Cardinality(Senders) /\ Cardinality(PastBudget') \in Nat
        BY <4>4, DeliveryAssumption, FS_Subset, FS_CardinalityType
      <4> QED
        BY <4>2, <4>3, <4>5, BudgetFinite, DeliveryAssumption DEF BudgetInv
    <3> QED
      BY <3>1, <3>2
  <2>4. CASE SendLocally(s) \/ SendForbidden(s) \/ Attempt(s)
    <3>1. PastBudget' \subseteq PastBudget
      BY <2>4 DEF SendLocally, SendForbidden, Attempt, Goto, PastBudget, TypeOK, Task
    <3> QED
      BY <2>4, <3>1, SameProcessed, BudgetShrinks DEF SendLocally, SendForbidden, Attempt
  <2>5. CASE RecordSent(s)
    <3>1. PastBudget' = PastBudget \ {s}
      BY <2>5, <1>a DEF RecordSent
    <3>2. CASE task[s].test
      <4>1. UNCHANGED <<proposal, day>>
        BY <2>5, <3>2 DEF RecordSent
      <4> QED
        BY <3>1, <4>1, SameProcessed, BudgetShrinks
    <3>3. CASE ~task[s].test
      <4>1. s \in PastBudget
        BY <2>5, <3>3 DEF RecordSent, PastBudget
      <4>2. ProcessedToday' \subseteq ProcessedToday \cup {task[s].proposal}
        BY <2>5, <3>3 DEF RecordSent, ProcessedToday, TypeOK
      <4>3. Cardinality(PastBudget') = Cardinality(PastBudget) - 1
        BY <3>1, <4>1, BudgetFinite, FS_RemoveElement
      <4>4. /\ Cardinality(ProcessedToday') <= Cardinality(ProcessedToday) + 1
            /\ Cardinality(ProcessedToday') \in Nat
        <5> DEFINE S == ProcessedToday \cup {task[s].proposal}
        <5>1. IsFiniteSet(S) /\ Cardinality(S) <= Cardinality(ProcessedToday) + 1
          BY BudgetFinite, FS_AddElement
        <5>2. /\ Cardinality(ProcessedToday') <= Cardinality(S)
              /\ Cardinality(ProcessedToday') \in Nat /\ Cardinality(S) \in Nat
          BY <5>1, <4>2, FS_Subset, FS_CardinalityType
        <5> QED
          BY <5>1, <5>2, BudgetFinite
      <4> QED
        BY <4>3, <4>4, BudgetFinite, DeliveryAssumption DEF BudgetInv
    <3> QED
      BY <3>2, <3>3
  <2>6. CASE RecordFailed(s)
    <3>1. PastBudget' \subseteq PastBudget
      BY <2>6, <1>a DEF RecordFailed
    <3>2. ProcessedToday' \subseteq ProcessedToday
      <4>1. ASSUME NEW p \in Proposals
            PROVE  /\ proposal'[p].status \in {proposal[p].status, "failed"}
                   /\ proposal'[p].processed_at = proposal[p].processed_at
        <5>1. task[s].row \in Row /\ proposal[p] \in Row
          BY <2>6 DEF RecordFailed, TypeOK, Task
        <5> QED
          BY <2>6, <5>1 DEF RecordFailed, TypeOK, Flushed, Row
      <4> QED
        BY <2>6, <4>1 DEF RecordFailed, ProcessedToday, AcceptedStatuses
    <3> QED
      BY <3>1, <3>2, BudgetShrinks
  <2>7. CASE AbandonTask(s)
    BY <2>7, <1>a, SameProcessed, BudgetShrinks DEF AbandonTask
  <2> QED
    BY <1>2, <2>1, <2>2, <2>3, <2>4, <2>5, <2>6, <2>7 DEF SenderStep
<1>3. CASE \E e \in Editors : EditorStep(e) \/ AbandonEdit(e)
  <2>1. UNCHANGED <<proposal, day, task>>
    BY <1>3 DEF EditorStep, AbandonEdit, Lookup, CommitEdit
  <2> QED
    BY <2>1, SameProcessed, BudgetShrinks DEF PastBudget
<1>4. CASE Midnight
  <2>1. ProcessedToday' \subseteq ProcessedToday
    BY <1>4 DEF Midnight, ProcessedToday, TypeOK, Row
  <2> QED
    BY <1>4, <2>1, BudgetShrinks DEF Midnight, PastBudget
<1>5. CASE UNCHANGED vars
  BY <1>5, SameProcessed, BudgetShrinks DEF vars, PastBudget
<1> QED
  BY <1>1, <1>2, <1>3, <1>4, <1>5 DEF Next

\* Initially nothing is processed and no request is past the check.
LEMMA BudgetInit == Init => BudgetInv
<1> SUFFICES ASSUME Init PROVE BudgetInv
  OBVIOUS
<1>1. ProcessedToday = {} /\ PastBudget = {}
  BY DEF Init, ProcessedToday, PastBudget, FreshRow, IdleTask, AcceptedStatuses
<1> QED
  BY <1>1, FS_EmptySet, BudgetFinite, DeliveryAssumption DEF BudgetInv

\* The daily limit is overshot by at most one proposal for each other request
\* that can be inside deliver_proposal at the same time.
THEOREM OvershootTheorem == Spec => []OvershootBounded
<1>1. TypeOK /\ BudgetInv => OvershootBounded
  BY BudgetFinite, DeliveryAssumption DEF BudgetInv, OvershootBounded
<1> QED
  BY TypeCorrect, BudgetInit, BudgetStep, <1>1, PTL DEF Spec
-----------------------------------------------------------------------------
(* What was sent, and to whom *)

KeyedIsMailed == \A m \in keys : inbox[m] > 0

\* What a request knows between its last check and its commit.
Warranted(t) ==
  /\ t.barred \subseteq suppressed
  /\ t.pc \in {"permitted", "sending", "sent", "failed"} /\ ~t.test => t.recipient \notin t.barred
  /\ t.pc = "sent" => t.stamp \in 1..day
  /\ t.pc = "sent" /\ IsExternal(t.provider) => inbox[<<t.proposal, t.recipient>>] > 0

MailInv ==
  /\ KeyedIsMailed
  /\ \A s \in Senders : Warranted(task[s])
  /\ DeliveredWasSent

\* A thread that serves nothing claims nothing.
LEMMA IdleWarranted == Warranted(IdleTask)
BY DEF Warranted, IdleTask

\* Initially nothing is delivered, and no key is retained.
LEMMA MailInit == Init => MailInv
<1> SUFFICES ASSUME Init PROVE MailInv
  OBVIOUS
<1>1. \A s \in Senders : Warranted(task[s])
  BY IdleWarranted DEF Init
<1> QED
  BY <1>1 DEF Init, MailInv, KeyedIsMailed, DeliveredWasSent, FreshRow

\* A step that touches neither the rows nor the provider.
LEMMA MailFrame ==
  ASSUME TypeOK, MailInv, UNCHANGED <<proposal, inbox, keys, day>>, suppressed \subseteq suppressed',
         \A s \in Senders : Warranted(task'[s])
  PROVE  MailInv'
<1>1. ASSUME NEW s \in Senders PROVE Warranted(task[s])'
  BY <1>1 DEF Warranted
<1>2. KeyedIsMailed' /\ DeliveredWasSent'
  BY DEF MailInv, KeyedIsMailed, DeliveredWasSent, Mailed
<1> QED
  BY <1>1, <1>2 DEF MailInv

\* Answering a request claims no delivery.
LEMMA MailAnswer ==
  ASSUME TypeOK, MailInv, UNCHANGED <<proposal, inbox, keys, day, suppressed>>,
         NEW s \in Senders, Answer(s)
  PROVE  MailInv'
<1>1. \A r \in Senders : task'[r] \in {task[r], IdleTask}
  BY DEF Answer, TypeOK
<1> QED
  BY <1>1, IdleWarranted, MailFrame DEF MailInv

\* Moving a request that claims nothing to a stage that claims nothing is safe.
LEMMA MailMove ==
  ASSUME TypeOK, MailInv, UNCHANGED <<proposal, inbox, keys, day, suppressed>>,
         NEW s \in Senders, NEW t \in Task, Warranted(t), task' = [task EXCEPT ![s] = t]
  PROVE  MailInv'
<1>1. \A r \in Senders : task'[r] \in {task[r], t}
  BY DEF TypeOK
<1> QED
  BY <1>1, MailFrame DEF MailInv

\* An accepted submission leaves a message behind, or had left one before.
LEMMA AcceptedMails ==
  ASSUME TypeOK, MailInv, NEW s \in Senders, task[s].pc = "sending", Accepted(s)
  PROVE  /\ inbox'[<<task[s].proposal, task[s].recipient>>] > 0
         /\ \A m \in Proposals \X Addresses : inbox'[m] >= inbox[m]
         /\ KeyedIsMailed'
<1> DEFINE m == <<task[s].proposal, task[s].recipient>>
<1>1. m \in Proposals \X Addresses
  BY DEF TypeOK, Bound, Addresses
<1>2. CASE task[s].provider = "resend" /\ m \in keys
  <2>1. inbox' = inbox /\ keys' = keys
    BY <1>2 DEF Accepted, IdempotencyKey
  <2> QED
    BY <1>1, <1>2, <2>1 DEF MailInv, KeyedIsMailed, TypeOK
<1>3. CASE ~(task[s].provider = "resend" /\ m \in keys)
  <2>1. inbox' = [inbox EXCEPT ![m] = @ + 1] /\ keys' \subseteq keys \cup {m}
    BY <1>3 DEF Accepted, IdempotencyKey
  <2>2. inbox[m] \in Nat /\ \A n \in Proposals \X Addresses : inbox[n] \in Nat
    BY <1>1 DEF TypeOK
  <2>3. /\ inbox'[m] = inbox[m] + 1
        /\ \A n \in Proposals \X Addresses : n # m => inbox'[n] = inbox[n]
    BY <1>1, <2>1 DEF TypeOK
  <2>4. \A n \in keys : n \in Proposals \X Addresses /\ inbox[n] > 0
    BY DEF MailInv, KeyedIsMailed, TypeOK
  <2> QED
    BY <2>1, <2>2, <2>3, <2>4 DEF KeyedIsMailed
<1> QED
  BY <1>2, <1>3

\* An attempt claims a delivery only when a message was accepted.
LEMMA MailAttempt ==
  ASSUME TypeOK, MailInv, NEW s \in Senders, Attempt(s)
  PROVE  MailInv'
<1> DEFINE m == <<task[s].proposal, task[s].recipient>>
<1>0. /\ task[s].pc = "sending" /\ task[s] \in Task /\ Warranted(task[s])
      /\ UNCHANGED <<proposal, day, suppressed>>
  BY DEF Attempt, TypeOK, MailInv, Store
<1>1. PICK accepted \in BOOLEAN, answer \in {"ok", "lost", "error"} :
        /\ answer = "ok" => accepted
        /\ IF accepted THEN Accepted(s) ELSE UNCHANGED <<inbox, keys>>
        /\ \/ answer = "ok" /\ task' = [task EXCEPT ![s].pc = "sent", ![s].stamp = day]
           \/ task' = [task EXCEPT ![s].tries = @ + 1]
           \/ Goto(s, "failed")
  BY DEF Attempt
<1>2. /\ \A n \in Proposals \X Addresses : inbox'[n] >= inbox[n]
      /\ accepted => inbox'[m] > 0
      /\ KeyedIsMailed'
  BY <1>0, <1>1, AcceptedMails DEF TypeOK, MailInv, KeyedIsMailed
<1>3. DeliveredWasSent'
  <2>1. ASSUME NEW p \in Proposals, NEW a \in Emails, inbox[<<p, a>>] > 0 PROVE inbox'[<<p, a>>] > 0
    <3>1. <<p, a>> \in Proposals \X Addresses
      BY DEF Addresses
    <3>2. inbox[<<p, a>>] \in Nat /\ inbox'[<<p, a>>] >= inbox[<<p, a>>]
      BY <3>1, <1>2 DEF TypeOK
    <3>3. inbox'[<<p, a>>] \in Nat
      BY <3>1, <1>0, <1>1, AcceptedType DEF TypeOK
    <3>4. inbox[<<p, a>>] > 0
      BY <2>1
    <3>5. inbox'[<<p, a>>] > 0
      BY <3>2, <3>3, <3>4
    <3> QED
      BY <3>5
  <2> QED
    BY <2>1, <1>0 DEF MailInv, DeliveredWasSent, Mailed
<1>4. ASSUME NEW r \in Senders PROVE Warranted(task[r])'
  <2>1. CASE r # s
    <3>1. task'[r] = task[r] /\ Warranted(task[r])
      BY <1>1, <2>1 DEF TypeOK, MailInv, Goto
    <3>2. task[r].pc = "sent" => <<task[r].proposal, task[r].recipient>> \in Proposals \X Addresses
      BY DEF TypeOK, Bound, Addresses
    <3>3. inbox \in [Proposals \X Addresses -> Nat] /\ inbox' \in [Proposals \X Addresses -> Nat]
      BY <1>0, <1>1, AcceptedType DEF TypeOK
    <3> QED
      BY <3>1, <3>2, <3>3, <1>0, <1>2 DEF Warranted
  <2>2. CASE r = s
    <3>1. CASE answer = "ok" /\ task' = [task EXCEPT ![s].pc = "sent", ![s].stamp = day]
      <4>1. task'[s] = [task[s] EXCEPT !.pc = "sent", !.stamp = day]
        BY <3>1 DEF TypeOK
      <4>2. /\ task'[s].pc = "sent" /\ task'[s].stamp = day
            /\ task'[s].barred = task[s].barred /\ task'[s].test = task[s].test
            /\ task'[s].proposal = task[s].proposal /\ task'[s].recipient = task[s].recipient
        BY <1>0, <4>1 DEF Task
      <4>3. inbox'[m] > 0 /\ day' = day /\ day \in 1..day /\ suppressed' = suppressed
        BY <1>0, <1>1, <1>2, <3>1, DeliveryAssumption DEF TypeOK
      <4> QED
        BY <1>0, <2>2, <4>2, <4>3 DEF Warranted
    <3>2. CASE task' = [task EXCEPT ![s].tries = @ + 1]
      <4>1. task'[s] = [task[s] EXCEPT !.tries = @ + 1]
        BY <3>2 DEF TypeOK
      <4>2. /\ task'[s].pc = "sending" /\ task'[s].barred = task[s].barred
            /\ task'[s].test = task[s].test /\ task'[s].recipient = task[s].recipient
        BY <1>0, <4>1 DEF Task
      <4> QED
        BY <1>0, <2>2, <4>2 DEF Warranted
    <3>3. CASE Goto(s, "failed")
      <4>1. task'[s] = [task[s] EXCEPT !.pc = "failed"]
        BY <3>3 DEF TypeOK, Goto
      <4>2. /\ task'[s].pc = "failed" /\ task'[s].barred = task[s].barred
            /\ task'[s].test = task[s].test /\ task'[s].recipient = task[s].recipient
        BY <1>0, <4>1 DEF Task
      <4> QED
        BY <1>0, <2>2, <4>2 DEF Warranted
    <3> QED
      BY <1>1, <3>1, <3>2, <3>3
  <2> QED
    BY <2>1, <2>2
<1> QED
  BY <1>2, <1>3, <1>4 DEF MailInv

\* The commits write a delivery only where one is warranted, and a stale
\* failure overwrites the status but not the message.
LEMMA MailRecord ==
  ASSUME TypeOK, MailInv, NEW s \in Senders, RecordSent(s) \/ RecordFailed(s)
  PROVE  MailInv'
<1>0. /\ task[s] \in Task /\ Bound(task[s]) /\ Warranted(task[s])
      /\ Answer(s) /\ UNCHANGED <<suppressed, inbox, keys, day>>
  BY DEF RecordSent, RecordFailed, TypeOK, MailInv, World
<1>1. \A r \in Senders : Warranted(task'[r])
  BY <1>0, IdleWarranted DEF Answer, TypeOK, MailInv
<1>2. \A r \in Senders : Warranted(task[r])'
  BY <1>0, <1>1 DEF Warranted
<1>3. KeyedIsMailed'
  BY <1>0 DEF MailInv, KeyedIsMailed
<1>4. DeliveredWasSent'
  <2>1. CASE RecordSent(s) /\ ~task[s].test
    <3>1. ASSUME NEW p \in Proposals, p # task[s].proposal PROVE proposal'[p] = proposal[p]
      BY <2>1, <3>1 DEF RecordSent, TypeOK
    <3>2. /\ task[s].proposal \in Proposals /\ task[s].recipient \in Emails
          /\ task[s].pc = "sent" /\ task[s].stamp \in 1..day
      BY <2>1, <1>0 DEF RecordSent, Bound, Warranted
    <3>3. proposal'[task[s].proposal].status = "delivered" => IsExternal(task[s].provider)
      BY <2>1, <3>2, <1>0 DEF RecordSent, TypeOK, Resolved, Task, AnyProvider, IsExternal
    <3>4. IsExternal(task[s].provider) =>
            /\ proposal'[task[s].proposal].delivered_at = task[s].stamp
            /\ proposal'[task[s].proposal].processed_at = task[s].stamp
            /\ Mailed(task[s].proposal, task[s].recipient)
      BY <2>1, <3>2, <1>0 DEF RecordSent, TypeOK, Mailed, Warranted
    <3> QED
      BY <3>1, <3>2, <3>3, <3>4, <1>0 DEF MailInv, DeliveredWasSent, Mailed
  <2>2. CASE RecordFailed(s) \/ task[s].test
    <3>1. ASSUME NEW p \in Proposals, proposal'[p].status = "delivered"
          PROVE  /\ proposal[p].status = "delivered"
                 /\ proposal'[p].delivered_at = proposal[p].delivered_at
                 /\ proposal'[p].processed_at = proposal[p].processed_at
      <4>1. CASE task[s].test
        BY <4>1, <3>1 DEF RecordSent, RecordFailed
      <4>2. CASE RecordFailed(s)
        <5>1. task[s].row \in Row /\ proposal[p] \in Row
          BY <1>0 DEF Task, TypeOK
        <5> QED
          BY <3>1, <4>2, <5>1 DEF RecordFailed, TypeOK, Flushed, Row
      <4> QED
        BY <2>2, <4>1, <4>2
    <3> QED
      BY <3>1, <1>0 DEF MailInv, DeliveredWasSent, Mailed
  <2> QED
    BY <2>1, <2>2
<1> QED
  BY <1>2, <1>3, <1>4 DEF MailInv

\* Every step keeps the warrant of every row and of every request.
LEMMA MailStep == TypeOK /\ MailInv /\ [Next]_vars => MailInv'
<1> SUFFICES ASSUME TypeOK, MailInv, [Next]_vars PROVE MailInv'
  OBVIOUS
<1> USE DEF Store, World
<1>1. CASE Request
  <2>1. ASSUME NEW s \in Senders, NEW p \in Proposals, NEW body \in Deliveries,
               LoadProposal(s, p, body)
        PROVE  MailInv'
    <3> DEFINE t == [IdleTask EXCEPT !.pc = "loaded", !.proposal = p,
                       !.provider = body.provider, !.test = body.test,
                       !.row = proposal[p], !.barred = suppressed]
    <3>1. t \in Task
      BY IdleTypes, DeliveryAssumption DEF Task, TypeOK
    <3>2. t.pc = "loaded" /\ t.barred = suppressed
      BY DEF IdleTask
    <3>3. Warranted(t)
      BY <3>2 DEF Warranted
    <3> QED
      BY <2>1, <3>1, <3>3, MailMove DEF LoadProposal
  <2>2. CASE UNCHANGED <<Store, World, task>>
    BY <2>2 DEF MailInv, KeyedIsMailed, Warranted, DeliveredWasSent, Mailed
  <2>3. \/ UNCHANGED <<Store, World, task>>
        \/ \E s \in Senders, p \in Proposals, body \in Deliveries : LoadProposal(s, p, body)
    BY <1>1 DEF Request, Update, Suppress, OptOut, Begin
  <2> QED
    BY <2>1, <2>2, <2>3
<1>2. ASSUME NEW s \in Senders, SenderStep(s) \/ AbandonTask(s) PROVE MailInv'
  <2>0. task[s] \in Task /\ Warranted(task[s])
    BY DEF TypeOK, MailInv
  <2>1. CASE LoadContact(s)
    <3>1. CASE Answer(s)
      BY <2>1, <3>1, MailAnswer DEF LoadContact
    <3>2. CASE ~Answer(s)
      <4> DEFINE person == contact[ProspectOf[task[s].proposal]]
                 t == [task[s] EXCEPT !.recipient = Recipient(s, person),
                                      !.pc = IF task[s].test THEN "sending" ELSE "addressed"]
      <4>1. task' = [task EXCEPT ![s] = t]
        BY <2>1, <3>2 DEF LoadContact
      <4>2. t \in Task
        BY <2>1, <4>1, LoadContactStep DEF TypeOK
      <4>3. /\ t.barred = task[s].barred /\ t.test = task[s].test
            /\ t.pc \in {"sending", "addressed"} /\ (t.pc = "sending" => t.test)
        BY <2>0 DEF Task
      <4>4. Warranted(t)
        BY <2>0, <4>3 DEF Warranted
      <4> QED
        BY <2>1, <4>1, <4>2, <4>4, MailMove DEF LoadContact
    <3> QED
      BY <3>1, <3>2
  <2>2. CASE CheckSuppression(s)
    <3>1. CASE Answer(s)
      BY <2>2, <3>1, MailAnswer DEF CheckSuppression
    <3>2. CASE ~Answer(s)
      <4> DEFINE t == [task[s] EXCEPT !.pc = "permitted"]
      <4>1. task' = [task EXCEPT ![s] = t] /\ task[s].recipient \notin suppressed
        BY <2>2, <3>2 DEF CheckSuppression, Goto
      <4>2. t \in Task /\ t.pc = "permitted" /\ t.barred = task[s].barred
            /\ t.recipient = task[s].recipient
        BY <2>0 DEF Task
      <4>3. Warranted(t)
        BY <2>0, <4>1, <4>2 DEF Warranted
      <4> QED
        BY <2>2, <4>1, <4>2, <4>3, MailMove DEF CheckSuppression
    <3> QED
      BY <3>1, <3>2
  <2>3. CASE CheckBudget(s) \/ SendForbidden(s)
    <3>1. CASE Answer(s)
      BY <2>3, <3>1, MailAnswer DEF CheckBudget, SendForbidden
    <3>2. CASE ~Answer(s)
      <4>1. PICK pc \in {"sending", "failed"} : Goto(s, pc)
        BY <2>3, <3>2 DEF CheckBudget, SendForbidden
      <4> DEFINE t == [task[s] EXCEPT !.pc = pc]
      <4>2. task' = [task EXCEPT ![s] = t] /\ task[s].pc \in {"permitted", "sending"}
        BY <2>3, <4>1 DEF CheckBudget, SendForbidden, Goto
      <4>3. /\ t \in Task /\ t.pc = pc /\ t.barred = task[s].barred
            /\ t.recipient = task[s].recipient /\ t.test = task[s].test
        BY <2>0 DEF Task
      <4>4. Warranted(t)
        BY <2>0, <4>2, <4>3 DEF Warranted
      <4> QED
        BY <2>3, <4>2, <4>3, <4>4, MailMove DEF CheckBudget, SendForbidden
    <3> QED
      BY <3>1, <3>2
  <2>4. CASE SendLocally(s)
    <3> DEFINE t == [task[s] EXCEPT !.pc = "sent", !.stamp = day]
    <3>1. task' = [task EXCEPT ![s] = t] /\ task[s].pc = "sending" /\ ~IsExternal(task[s].provider)
      BY <2>4 DEF SendLocally
    <3>2. day \in 0..MaxDay /\ day \in 1..day
      BY DeliveryAssumption DEF TypeOK
    <3>3. /\ t \in Task /\ t.pc = "sent" /\ t.stamp = day /\ t.barred = task[s].barred
          /\ t.recipient = task[s].recipient /\ t.test = task[s].test
          /\ t.provider = task[s].provider
      BY <2>0, <3>2 DEF Task
    <3>4. Warranted(t)
      BY <2>0, <3>1, <3>2, <3>3 DEF Warranted
    <3> QED
      BY <2>4, <3>1, <3>3, <3>4, MailMove DEF SendLocally
  <2>5. CASE Attempt(s)
    BY <2>5, MailAttempt
  <2>6. CASE RecordSent(s) \/ RecordFailed(s)
    BY <2>6, MailRecord
  <2>7. CASE AbandonTask(s)
    BY <2>7, MailAnswer DEF AbandonTask
  <2> QED
    BY <1>2, <2>1, <2>2, <2>3, <2>4, <2>5, <2>6, <2>7 DEF SenderStep
<1>3. CASE \E e \in Editors : EditorStep(e) \/ AbandonEdit(e)
  <2>1. UNCHANGED <<proposal, day, task, inbox, keys>> /\ suppressed \subseteq suppressed'
    BY <1>3 DEF EditorStep, AbandonEdit, Lookup, CommitEdit
  <2> QED
    BY <2>1, MailFrame DEF MailInv
<1>4. CASE Midnight
  <2>1. /\ UNCHANGED <<proposal, task, inbox, keys, suppressed>>
        /\ day \in Nat /\ day' = day + 1
    BY <1>4, DeliveryAssumption DEF Midnight, TypeOK
  <2>2. \A n \in 1..day : n \in 1..day'
    BY <2>1
  <2>3. \A s \in Senders : Warranted(task[s])'
    BY <2>1, <2>2 DEF MailInv, Warranted
  <2>4. DeliveredWasSent'
    BY <2>1, <2>2 DEF MailInv, DeliveredWasSent, Mailed
  <2> QED
    BY <2>1, <2>3, <2>4 DEF MailInv, KeyedIsMailed
<1>5. CASE UNCHANGED vars
  BY <1>5 DEF vars, MailInv, KeyedIsMailed, Warranted, DeliveredWasSent, Mailed
<1> QED
  BY <1>1, <1>2, <1>3, <1>4, <1>5 DEF Next

\* A row marked delivered has a message and consistent timestamps behind it.
THEOREM DeliveredTheorem == Spec => []DeliveredWasSent
<1>1. MailInv => DeliveredWasSent
  BY DEF MailInv
<1> QED
  BY TypeCorrect, MailInit, MailStep, <1>1, PTL DEF Spec

\* Only an attempt at the external provider touches what was sent.
LEMMA OnlyAttemptsMail ==
  ASSUME [Next]_vars, ~ \E s \in Senders : Attempt(s)
  PROVE  UNCHANGED <<inbox, keys>>
<1> USE DEF Store, World
<1>1. CASE Request
  BY <1>1 DEF Request, LoadProposal, Update, Suppress, OptOut, Begin
<1>2. CASE \E s \in Senders : SenderStep(s) \/ AbandonTask(s)
  BY <1>2 DEF SenderStep, LoadContact, CheckSuppression, CheckBudget, SendLocally,
              SendForbidden, RecordSent, RecordFailed, AbandonTask
<1>3. CASE \E e \in Editors : EditorStep(e) \/ AbandonEdit(e)
  BY <1>3 DEF EditorStep, AbandonEdit, Lookup, CommitEdit
<1>4. CASE Midnight
  BY <1>4 DEF Midnight
<1>5. CASE UNCHANGED vars
  BY <1>5 DEF vars
<1> QED
  BY <1>1, <1>2, <1>3, <1>4, <1>5 DEF Next

\* A message that reached an address left its key with the provider.
OnceInv == \A m \in Proposals \X Addresses : inbox[m] = 0 \/ (inbox[m] = 1 /\ m \in keys)

\* Every step keeps at most one message per key, with Resend.
LEMMA OnceStep ==
  ASSUME ExternalProvider = "resend", TypeOK, OnceInv, [Next]_vars
  PROVE  OnceInv'
<1>1. CASE UNCHANGED <<inbox, keys>>
  BY <1>1 DEF OnceInv
<1>2. ASSUME NEW s \in Senders, Attempt(s), Accepted(s) PROVE OnceInv'
  <2> DEFINE k == <<task[s].proposal, task[s].recipient>>
  <2>1. k \in Proposals \X Addresses /\ task[s].provider = "resend"
    BY <1>2 DEF Attempt, TypeOK, Bound, Addresses
  <2>2. CASE k \in keys
    BY <1>2, <2>1, <2>2, <1>1 DEF Accepted, IdempotencyKey
  <2>3. CASE k \notin keys
    <3>1. inbox' = [inbox EXCEPT ![k] = @ + 1] /\ keys' = keys \cup {k}
      BY <1>2, <2>1, <2>3 DEF Accepted, IdempotencyKey
    <3>2. inbox[k] = 0
      BY <2>1, <2>3 DEF OnceInv
    <3> QED
      BY <2>1, <3>1, <3>2 DEF OnceInv, TypeOK
  <2> QED
    BY <2>2, <2>3
<1>3. ASSUME NEW s \in Senders, Attempt(s) PROVE Accepted(s) \/ UNCHANGED <<inbox, keys>>
  BY <1>3 DEF Attempt
<1> QED
  BY <1>1, <1>2, <1>3, OnlyAttemptsMail

\* With Resend no proposal reaches an address twice.
THEOREM OnceTheorem ==
  ASSUME ExternalProvider = "resend"
  PROVE  Spec => []OncePerAddress
<1>1. Init => OnceInv
  BY DEF Init, OnceInv
<1>2. TypeOK /\ OnceInv /\ [Next]_vars => OnceInv'
  BY OnceStep
<1>3. OnceInv => OncePerAddress
  BY DEF OnceInv, OncePerAddress
<1> QED
  BY TypeCorrect, <1>1, <1>2, <1>3, PTL DEF Spec

\* A message is added only by a request that had not found its address barred.
LEMMA HonouredStep ==
  ASSUME TypeOK, MailInv, [Next]_vars,
         NEW p \in Proposals, NEW address \in Emails, inbox'[<<p, address>>] > inbox[<<p, address>>]
  PROVE  \E s \in Senders : /\ task[s].proposal = p /\ task[s].recipient = address
                            /\ address \notin task[s].barred
<1>a. <<p, address>> \in Proposals \X Addresses /\ inbox[<<p, address>>] \in Nat
  BY DEF TypeOK, Addresses
<1>b. ~(inbox[<<p, address>>] > inbox[<<p, address>>])
  BY <1>a
<1>0. inbox'[<<p, address>>] # inbox[<<p, address>>] /\ <<p, address>> \in Proposals \X Addresses
  BY <1>a, <1>b
<1>1. PICK s \in Senders : Attempt(s)
  BY <1>0, OnlyAttemptsMail
<1>2. Accepted(s)
  BY <1>0, <1>1 DEF Attempt
<1>3. inbox' = [inbox EXCEPT ![<<task[s].proposal, task[s].recipient>>] = @ + 1]
  BY <1>0, <1>2 DEF Accepted
<1>4. <<task[s].proposal, task[s].recipient>> = <<p, address>>
  BY <1>0, <1>3 DEF TypeOK
<1>5. ~task[s].test
  BY <1>1, <1>4, DeliveryAssumption DEF TypeOK, Bound, Attempt
<1>6. address \notin task[s].barred
  BY <1>1, <1>4, <1>5 DEF MailInv, Warranted, Attempt
<1> QED
  BY <1>4, <1>6

\* An opt-out that was committed when a deliver request arrived is honoured.
THEOREM HonouredTheorem == Spec => PriorOptOutHonoured
<1>1. /\ TypeOK /\ MailInv /\ [Next]_vars
      => [\A p \in Proposals, address \in Emails :
            inbox'[<<p, address>>] > inbox[<<p, address>>] =>
              \E s \in Senders : /\ task[s].proposal = p /\ task[s].recipient = address
                                 /\ address \notin task[s].barred]_vars
  BY HonouredStep
<1> QED
  BY TypeCorrect, MailInit, MailStep, <1>1, PTL DEF Spec, PriorOptOutHonoured
-----------------------------------------------------------------------------
\* An edit that is ready to commit without an insert has found its address
\* suppressed, or has none.
LookedUp(r) == r.pc = "ready" /\ ~r.insert => r.address \in suppressed \cup {None}

OptOutInv == \A e \in Editors : LookedUp(edit[e])

\* The list grows by one address at a time, and loses none.
LEMMA SuppressedGrows ==
  ASSUME TypeOK, [Next]_vars
  PROVE  UNCHANGED suppressed \/ \E a \in Emails : suppressed' = suppressed \cup {a}
<1>2. ASSUME NEW e \in Editors, CommitEdit(e)
      PROVE  UNCHANGED suppressed \/ \E a \in Emails : suppressed' = suppressed \cup {a}
  BY <1>2 DEF CommitEdit, Store, TypeOK, BoundEdit
<1>3. ASSUME Request PROVE UNCHANGED suppressed
  <2>1. ASSUME NEW e, NEW r, Begin(e, r) PROVE UNCHANGED suppressed
    BY <2>1 DEF Begin, Store
  <2>2. ASSUME NEW s, NEW p, NEW body, LoadProposal(s, p, body) PROVE UNCHANGED suppressed
    BY <2>2 DEF LoadProposal, Store
  <2>3. ASSUME NEW e, NEW q, NEW changes, Update(e, q, changes) PROVE UNCHANGED suppressed
    BY <2>1, <2>3 DEF Update
  <2>4. ASSUME NEW e, NEW address, NEW q, Suppress(e, address, q) PROVE UNCHANGED suppressed
    BY <2>1, <2>4 DEF Suppress
  <2>5. ASSUME NEW e, NEW q, NEW address, OptOut(e, q, address) PROVE UNCHANGED suppressed
    BY <2>1, <2>5 DEF OptOut
  <2> QED
    BY <1>3, <2>2, <2>3, <2>4, <2>5 DEF Request
<1>4. ASSUME NEW s \in Senders, SenderStep(s) \/ AbandonTask(s) PROVE UNCHANGED suppressed
  BY <1>4 DEF SenderStep, LoadContact, CheckSuppression, CheckBudget, SendLocally, SendForbidden, Attempt,
       RecordSent, RecordFailed, AbandonTask, Store
<1>5. ASSUME NEW e \in Editors, Lookup(e) \/ AbandonEdit(e) PROVE UNCHANGED suppressed
  BY <1>5 DEF Lookup, AbandonEdit, Store
<1>6. ASSUME Midnight PROVE UNCHANGED suppressed
  BY <1>6 DEF Midnight, Store
<1>7. CASE UNCHANGED vars
  BY <1>7 DEF vars
<1> QED
  BY <1>2, <1>3, <1>4, <1>5, <1>6, <1>7 DEF Next, EditorStep

\* Only an editor's own lookup makes its request ready.
LEMMA OptOutStep == ASSUME TypeOK, OptOutInv, [Next]_vars PROVE OptOutInv'
<1>1. suppressed \subseteq suppressed'
  BY SuppressedGrows
<1>2. edit \in [Editors -> Edit]
  BY DEF TypeOK
<1>3. CASE edit' = edit
  BY <1>1, <1>3 DEF OptOutInv, LookedUp
<1>4. ASSUME NEW e \in Editors, NEW r, r.pc # "ready", edit' = [edit EXCEPT ![e] = r]
      PROVE  OptOutInv'
  BY <1>1, <1>2, <1>4 DEF OptOutInv, LookedUp
<1>5. ASSUME NEW e \in Editors, Lookup(e) PROVE OptOutInv'
  <2>1. edit' = [edit EXCEPT ![e].pc = "ready", ![e].insert = edit[e].address \notin suppressed \cup {None}]
    BY <1>5 DEF Lookup
  <2>2. edit'[e].insert = (edit[e].address \notin suppressed \cup {None}) /\ edit'[e].address = edit[e].address
    BY <1>2, <2>1 DEF Edit
  <2>3. \A f \in Editors \ {e} : edit'[f] = edit[f]
    BY <1>2, <2>1
  <2> QED
    BY <1>1, <2>2, <2>3 DEF OptOutInv, LookedUp
<1>6. ASSUME NEW e \in Editors, CommitEdit(e) \/ AbandonEdit(e) PROVE OptOutInv'
  BY <1>4, <1>6 DEF CommitEdit, AbandonEdit, IdleEdit
<1>7. ASSUME Request PROVE OptOutInv'
  <2>1. ASSUME NEW e \in Editors, NEW r, r.pc = "loaded", Begin(e, r) PROVE OptOutInv'
    BY <1>4, <2>1 DEF Begin
  <2>2. CASE \E s \in Senders, p \in Proposals, body \in Deliveries : LoadProposal(s, p, body)
    BY <1>3, <2>2 DEF LoadProposal
  <2>3. ASSUME NEW e \in Editors, NEW q, NEW changes, Update(e, q, changes) PROVE OptOutInv'
    BY <2>1, <2>3 DEF Update
  <2>4. ASSUME NEW e \in Editors, NEW address, NEW q, Suppress(e, address, q) PROVE OptOutInv'
    BY <2>1, <2>4 DEF Suppress
  <2>5. ASSUME NEW e \in Editors, NEW q, NEW address, OptOut(e, q, address) PROVE OptOutInv'
    BY <2>1, <2>5 DEF OptOut
  <2> QED
    BY <1>7, <2>2, <2>3, <2>4, <2>5 DEF Request
<1> QED
  BY <1>3, <1>5, <1>6, <1>7 DEF Next, vars, SenderStep, LoadContact, CheckSuppression, CheckBudget, SendLocally,
       SendForbidden, Attempt, RecordSent, RecordFailed, AbandonTask, EditorStep, Midnight

\* An opt-out takes effect when it is answered, also when its lookup was stale
\* or another request inserted the address first.
THEOREM OptOutTheorem == Spec => OptOutTakesEffect
<1>1. Init => OptOutInv
  BY DEF Init, OptOutInv, LookedUp, IdleEdit
<1>2. ASSUME TypeOK, OptOutInv, NEW e \in Editors, CommitEdit(e)
      PROVE  edit[e].address \in suppressed' \cup {None}
  BY <1>2 DEF OptOutInv, LookedUp, CommitEdit, Store
<1>3. /\ TypeOK /\ OptOutInv /\ [Next]_vars
      => [\A e \in Editors : CommitEdit(e) => edit[e].address \in suppressed' \cup {None}]_vars
  BY <1>2
<1> QED
  BY TypeCorrect, OptOutStep, <1>1, <1>3, PTL DEF Spec, OptOutTakesEffect
-----------------------------------------------------------------------------
(* What a settled proposal and a request that found one undelivered promise *)

Kept(t, u) == /\ u.proposal = t.proposal /\ u.test = t.test
              /\ u.row = t.row /\ u.barred = t.barred

\* The stages of a request between its arrival and its answer.
Advances(t, u) ==
  \/ t.pc = "loaded" /\ (u.pc = "addressed" \/ (u.pc = "sending" /\ u.test))
  \/ /\ t.pc = "addressed" /\ u.pc = "permitted"
     /\ u.recipient = t.recipient /\ t.row.status \notin AcceptedStatuses
  \/ /\ t.pc \in {"permitted", "sending"} /\ u.pc \in {"sending", "sent", "failed"}
     /\ u.recipient = t.recipient

\* A step of a sender answers its request or takes it one stage further; an
\* attempt does the latter.
LEMMA SenderMove ==
  ASSUME TypeOK, NEW s \in Senders, SenderStep(s) \/ AbandonTask(s)
  PROVE  /\ \A r \in Senders : r # s => task'[r] = task[r]
         /\ \/ ~Attempt(s) /\ task'[s] = IdleTask
            \/ Kept(task[s], task'[s]) /\ Advances(task[s], task'[s])
<1> DEFINE Goal == /\ \A r \in Senders : r # s => task'[r] = task[r]
                   /\ \/ ~Attempt(s) /\ task'[s] = IdleTask
                      \/ Kept(task[s], task'[s]) /\ Advances(task[s], task'[s])
<1>0. task[s] \in Task /\ task \in [Senders -> Task]
  BY DEF TypeOK
<1>a. ASSUME Answer(s), ~Attempt(s) PROVE Goal
  BY <1>a, <1>0 DEF Answer
<1>b. ASSUME NEW pc \in {"permitted", "sending", "failed"}, Goto(s, pc)
      PROVE  /\ \A r \in Senders : r # s => task'[r] = task[r]
             /\ Kept(task[s], task'[s]) /\ task'[s].pc = pc
             /\ task'[s].recipient = task[s].recipient
  BY <1>b, <1>0 DEF Goto, Kept, Task
<1>c. ASSUME task' = [task EXCEPT ![s].pc = "sent", ![s].stamp = day]
      PROVE  /\ \A r \in Senders : r # s => task'[r] = task[r]
             /\ Kept(task[s], task'[s]) /\ task'[s].pc = "sent"
             /\ task'[s].recipient = task[s].recipient
  BY <1>c, <1>0 DEF Kept, Task
<1>1. CASE LoadContact(s)
  <2>0. task[s].pc = "loaded" /\ ~Attempt(s)
    BY <1>1 DEF LoadContact, Attempt
  <2>1. CASE Answer(s)
    BY <2>0, <2>1, <1>a
  <2>2. CASE ~Answer(s)
    <3> DEFINE person == contact[ProspectOf[task[s].proposal]]
               t == [task[s] EXCEPT !.recipient = Recipient(s, person),
                                    !.pc = IF task[s].test THEN "sending" ELSE "addressed"]
    <3>1. task' = [task EXCEPT ![s] = t]
      BY <1>1, <2>2 DEF LoadContact
    <3>2. t.pc = IF task[s].test THEN "sending" ELSE "addressed"
      BY <1>0 DEF Task
    <3>3. Kept(task[s], t)
      BY <1>0 DEF Kept, Task
    <3> HIDE DEF t
    <3>4. Advances(task[s], t)
      BY <2>0, <3>2, <3>3 DEF Kept, Advances
    <3> QED
      BY <3>1, <3>3, <3>4, <1>0
  <2> QED
    BY <2>1, <2>2
<1>2. CASE CheckSuppression(s)
  <2>0. task[s].pc = "addressed" /\ ~Attempt(s)
    BY <1>2 DEF CheckSuppression, Attempt
  <2>1. CASE Answer(s)
    BY <2>0, <2>1, <1>a
  <2>2. CASE ~Answer(s)
    <3>1. Goto(s, "permitted") /\ task[s].row.status \notin AcceptedStatuses
      BY <1>2, <2>2 DEF CheckSuppression
    <3> QED
      BY <2>0, <3>1, <1>b DEF Advances
  <2> QED
    BY <2>1, <2>2
<1>3. CASE CheckBudget(s)
  <2>0. task[s].pc = "permitted" /\ ~Attempt(s)
    BY <1>3 DEF CheckBudget, Attempt
  <2>1. CASE Answer(s)
    BY <2>0, <2>1, <1>a
  <2>2. CASE Goto(s, "sending")
    BY <2>0, <2>2, <1>b DEF Advances
  <2> QED
    BY <1>3, <2>1, <2>2 DEF CheckBudget
<1>4. CASE SendLocally(s)
  BY <1>4, <1>c DEF SendLocally, Advances
<1>5. CASE SendForbidden(s)
  BY <1>5, <1>b DEF SendForbidden, Advances
<1>6. CASE Attempt(s)
  <2>0. task[s].pc = "sending"
    BY <1>6 DEF Attempt
  <2>1. CASE task' = [task EXCEPT ![s].tries = @ + 1]
    <3>1. /\ \A r \in Senders : r # s => task'[r] = task[r]
          /\ Kept(task[s], task'[s]) /\ task'[s].pc = "sending"
          /\ task'[s].recipient = task[s].recipient
      BY <2>0, <2>1, <1>0 DEF Kept, Task
    <3> QED
      BY <2>0, <3>1 DEF Advances
  <2>2. CASE Goto(s, "failed")
    BY <2>0, <2>2, <1>b DEF Advances
  <2>3. CASE task' = [task EXCEPT ![s].pc = "sent", ![s].stamp = day]
    BY <2>0, <2>3, <1>c DEF Advances
  <2> QED
    BY <1>6, <2>1, <2>2, <2>3 DEF Attempt
<1>7. CASE RecordSent(s) \/ RecordFailed(s)
  BY <1>7, <1>a DEF RecordSent, RecordFailed, Attempt
<1>8. CASE AbandonTask(s)
  <2>1. CASE Attempt(s)
    BY <2>1, <1>6
  <2>2. CASE ~Attempt(s)
    BY <1>8, <2>2, <1>a DEF AbandonTask
  <2> QED
    BY <2>1, <2>2
<1> QED
  BY <1>1, <1>2, <1>3, <1>4, <1>5, <1>6, <1>7, <1>8 DEF SenderStep

\* Nothing but a sender, or the arrival of its request, moves a task.
LEMMA OthersKeepTasks ==
  ASSUME [Next]_vars,
         ~ \E s \in Senders : SenderStep(s) \/ AbandonTask(s),
         ~ \E s \in Senders, p \in Proposals, body \in Deliveries : LoadProposal(s, p, body)
  PROVE  UNCHANGED <<task, proposal, inbox>>
BY DEF Next, Request, Update, Suppress, OptOut, Begin, EditorStep, AbandonEdit, Lookup,
       CommitEdit, Midnight, Store, World, vars

\* A request past the suppression check has found no delivery on record.
Undelivered(t) ==
  t.pc \in {"permitted", "sending", "sent", "failed"} /\ ~t.test =>
    t.row.status \notin AcceptedStatuses

PendingInv == \A s \in Senders : Undelivered(task[s])

\* A task as LoadProposal leaves it.
LEMMA LoadedTask ==
  ASSUME TypeOK, NEW s \in Senders, NEW p \in Proposals, NEW body \in Deliveries,
         LoadProposal(s, p, body)
  PROVE  /\ \A r \in Senders : r # s => task'[r] = task[r]
         /\ task[s].pc = "idle" /\ task'[s].pc = "loaded"
         /\ task'[s].proposal = p /\ task'[s].test = body.test
         /\ task'[s].row = proposal[p] /\ task'[s].barred = suppressed
BY DEF LoadProposal, IdleTask, TypeOK

\* What a request found does not change under it.
LEMMA PendingStep == ASSUME TypeOK, PendingInv, [Next]_vars PROVE PendingInv'
<1>1. CASE UNCHANGED task
  BY <1>1 DEF PendingInv, Undelivered
<1>2. ASSUME NEW s \in Senders, SenderStep(s) \/ AbandonTask(s) PROVE PendingInv'
  <2>1. Undelivered(task[s]) /\ Undelivered(IdleTask)
    BY DEF PendingInv, Undelivered, IdleTask
  <2>2. Undelivered(task'[s])
    BY <1>2, <2>1, SenderMove DEF Undelivered, Kept, Advances
  <2>3. \A r \in Senders : r # s => task'[r] = task[r]
    BY <1>2, SenderMove
  <2> QED
    BY <2>2, <2>3 DEF PendingInv, Undelivered
<1>3. ASSUME NEW s \in Senders, NEW p \in Proposals, NEW body \in Deliveries,
             LoadProposal(s, p, body)
      PROVE  PendingInv'
  BY <1>3, LoadedTask DEF PendingInv, Undelivered
<1> QED
  BY <1>1, <1>2, <1>3, OthersKeepTasks

LEMMA PendingInit == Init => PendingInv
BY DEF Init, PendingInv, Undelivered, IdleTask

\* Only the recorder of a request that is no test touches a row, and only the
\* row of its own proposal; only an attempt touches an inbox, and only the one
\* it was addressed to.
LEMMA OwnRowOnly ==
  ASSUME TypeOK, [Next]_vars, NEW p \in Proposals, proposal'[p] # proposal[p]
  PROVE  \E s \in Senders : /\ RecordSent(s) \/ RecordFailed(s)
                            /\ task[s].pc \in {"sent", "failed"}
                            /\ task[s].proposal = p /\ ~task[s].test
<1>1. PICK s \in Senders : SenderStep(s) \/ AbandonTask(s)
  <2>1. ~ \E s \in Senders, q \in Proposals, body \in Deliveries : LoadProposal(s, q, body)
    BY DEF LoadProposal, Store
  <2> QED
    BY <2>1, OthersKeepTasks
<1>2. RecordSent(s) \/ RecordFailed(s)
  BY <1>1 DEF SenderStep, AbandonTask, LoadContact, CheckSuppression, CheckBudget,
              SendLocally, SendForbidden, Attempt, Store
<1>3. task[s].pc \in {"sent", "failed"} /\ ~task[s].test
  BY <1>2 DEF RecordSent, RecordFailed
<1>4. task[s].proposal = p
  BY <1>2, <1>3 DEF RecordSent, RecordFailed, TypeOK
<1> QED
  BY <1>2, <1>3, <1>4

LEMMA OwnInboxOnly ==
  ASSUME TypeOK, [Next]_vars, NEW m \in Proposals \X Addresses, inbox'[m] # inbox[m]
  PROVE  \E s \in Senders : /\ Attempt(s) /\ m = <<task[s].proposal, task[s].recipient>>
                            /\ inbox' = [inbox EXCEPT ![m] = @ + 1]
<1>1. PICK s \in Senders : Attempt(s)
  BY OnlyAttemptsMail
<1>2. Accepted(s)
  BY <1>1 DEF Attempt
<1>3. inbox' = [inbox EXCEPT ![<<task[s].proposal, task[s].recipient>>] = @ + 1]
  BY <1>2 DEF Accepted
<1>4. m = <<task[s].proposal, task[s].recipient>>
  BY <1>3 DEF TypeOK
<1> QED
  BY <1>1, <1>3, <1>4

\* A step leaves a settled proposal settled and writes to nobody about it.
LEMMA SettledStep ==
  ASSUME TypeOK, PendingInv, [Next]_vars, NEW p \in Proposals, Settled(p)
  PROVE  Settled(p)' /\ \A a \in Emails : inbox'[<<p, a>>] = inbox[<<p, a>>]
<1>d. "delivered" \in AcceptedStatuses
  BY DEF AcceptedStatuses
<1>1. ASSUME NEW s \in Senders, task[s].proposal = p, ~task[s].test
      PROVE  task[s].pc \notin {"permitted", "sending", "sent", "failed"}
  BY <1>1, <1>d DEF Settled, PendingInv, Undelivered
<1>2. proposal'[p] = proposal[p]
  BY <1>1, OwnRowOnly
<1>3. ASSUME NEW a \in Emails PROVE inbox'[<<p, a>>] = inbox[<<p, a>>]
  <2>1. <<p, a>> \in Proposals \X Addresses /\ a # Operator
    BY DeliveryAssumption DEF Addresses
  <2>2. SUFFICES ASSUME inbox'[<<p, a>>] # inbox[<<p, a>>] PROVE FALSE
    OBVIOUS
  <2>3. PICK s \in Senders : Attempt(s) /\ <<p, a>> = <<task[s].proposal, task[s].recipient>>
    BY <2>1, <2>2, OwnInboxOnly
  <2>4. task[s].proposal = p /\ task[s].recipient = a /\ task[s].pc = "sending"
    BY <2>3 DEF Attempt
  <2>5. ~task[s].test
    BY <2>1, <2>4 DEF TypeOK, Bound
  <2> QED
    BY <1>1, <2>4, <2>5
<1>4. ASSUME NEW s \in Senders, task'[s].proposal = p, ~task'[s].test
      PROVE  task'[s].row.status = "delivered"
  <2>1. CASE task'[s] = task[s]
    BY <1>4, <2>1 DEF Settled
  <2>2. ASSUME NEW r \in Senders, SenderStep(r) \/ AbandonTask(r), task'[s] # task[s]
        PROVE  task'[s].row.status = "delivered"
    <3>1. r = s /\ (task'[s] = IdleTask \/ Kept(task[s], task'[s]))
      BY <2>2, SenderMove
    <3>2. CASE task'[s] = IdleTask
      <4>1. task'[s].proposal = None
        BY <3>2 DEF IdleTask
      <4> QED
        BY <1>4, <4>1, DeliveryAssumption
    <3>3. CASE Kept(task[s], task'[s])
      BY <1>4, <3>3 DEF Kept, Settled
    <3> QED
      BY <3>1, <3>2, <3>3
  <2>3. ASSUME NEW r \in Senders, NEW q \in Proposals, NEW body \in Deliveries,
               LoadProposal(r, q, body), task'[s] # task[s]
        PROVE  task'[s].row.status = "delivered"
    BY <1>4, <2>3, LoadedTask DEF Settled
  <2> QED
    BY <2>1, <2>2, <2>3, OthersKeepTasks
<1> QED
  BY <1>2, <1>3, <1>4 DEF Settled

\* Once the requests that raced for a proposal are over and its row says
\* delivered, nothing sends it again, whatever the provider.
THEOREM SettledTheorem == Spec => SettledForGood
<1>1. TypeOK /\ PendingInv /\ [Next]_vars
      => [\A p \in Proposals : Settled(p) =>
            Settled(p)' /\ \A a \in Emails : inbox'[<<p, a>>] = inbox[<<p, a>>]]_vars
  BY SettledStep
<1> QED
  BY TypeCorrect, PendingInit, PendingStep, <1>1, PTL DEF Spec, SettledForGood
-----------------------------------------------------------------------------
(* The refinement of Outreach *)

Letters  == [m \in Proposals \X Emails |-> inbox[m]]
Claimed  == {p \in Proposals : proposal[p].status = "delivered"}
Underway == UNION {Reachable(task[s]) : s \in Senders}
View     == <<Letters, suppressed, Claimed, Underway>>

\* A request brings only what it may bring: to an address of its proposal.
LEMMA ReachableType ==
  ASSUME TypeOK, NEW s \in Senders
  PROVE  Reachable(task[s]) \subseteq Proposals \X Emails
BY DEF TypeOK, Reachable, Bound

\* A request that moves on, or ends, reaches no further than before.
LEMMA ReachNarrows ==
  ASSUME TypeOK, TypeOK', NEW s \in Senders, SenderStep(s) \/ AbandonTask(s)
  PROVE  Underway' \subseteq Underway /\ (Attempt(s) => Underway' = Underway)
<1>1. ASSUME NEW r \in Senders, r # s PROVE Reachable(task[r])' = Reachable(task[r])
  BY <1>1, SenderMove DEF Reachable
<1>2. CASE ~Attempt(s) /\ task'[s] = IdleTask
  <2>1. Reachable(task[s])' = {}
    BY <1>2 DEF Reachable, IdleTask
  <2> QED
    BY <1>1, <1>2, <2>1 DEF Underway
<1>3. CASE Kept(task[s], task'[s]) /\ Advances(task[s], task'[s])
  <2>1. Bound(task'[s])
    BY DEF TypeOK
  <2>2. CASE task[s].pc = "loaded"
    <3>1. Reachable(task[s])' \subseteq Reachable(task[s])
      BY <1>3, <2>1, <2>2 DEF Reachable, Kept, Advances, Bound
    <3>2. ~Attempt(s)
      BY <2>2 DEF Attempt
    <3> QED
      BY <1>1, <3>1, <3>2 DEF Underway
  <2>3. CASE task[s].pc # "loaded"
    <3>1. Reachable(task[s])' = Reachable(task[s])
      BY <1>3, <2>3 DEF Reachable, Kept, Advances
    <3> QED
      BY <1>1, <3>1 DEF Underway
  <2> QED
    BY <2>2, <2>3
<1> QED
  BY <1>2, <1>3, SenderMove

\* A message in preparation is one the abstract request may send.
LEMMA PreparedIsUnderway ==
  ASSUME TypeOK, MailInv, PendingInv, NEW s \in Senders, ~task[s].test,
         task[s].pc \in {"permitted", "sending", "sent", "failed"}
  PROVE  /\ <<task[s].proposal, task[s].recipient>> \in Underway
         /\ task[s].proposal \in Proposals /\ task[s].recipient \in Emails
<1>1. task[s].recipient \notin task[s].barred /\ task[s].row.status # "delivered"
  BY DEF MailInv, Warranted, PendingInv, Undelivered, AcceptedStatuses
<1>2. <<task[s].proposal, task[s].recipient>> \in Reachable(task[s])
  BY <1>1 DEF Reachable
<1> QED
  BY <1>2 DEF Underway, TypeOK, Bound

\* The arrival of a request is an abstract arrival, or none.
LEMMA ArriveStep ==
  ASSUME TypeOK, NEW s \in Senders, NEW p \in Proposals, NEW body \in Deliveries,
         LoadProposal(s, p, body)
  PROVE  Abstract!Next \/ UNCHANGED View
<1>1. UNCHANGED <<Letters, suppressed, Claimed>>
  BY DEF LoadProposal, Store, World, Letters, Claimed
<1>2. ASSUME NEW r \in Senders, r # s PROVE Reachable(task[r])' = Reachable(task[r])
  BY <1>2, LoadedTask DEF Reachable
<1>3. Reachable(task[s]) = {}
  BY LoadedTask DEF Reachable
<1>4. CASE body.test \/ proposal[p].status = "delivered"
  <2>1. Reachable(task[s])' = {}
    BY <1>4, LoadedTask DEF Reachable
  <2> QED
    BY <1>1, <1>2, <1>3, <2>1 DEF View, Underway
<1>5. CASE ~(body.test \/ proposal[p].status = "delivered")
  <2>1. Reachable(task[s])' = {p} \X (Emails \ suppressed)
    BY <1>5, LoadedTask DEF Reachable
  <2>2. Underway' = Underway \cup ({p} \X (Emails \ suppressed))
    BY <1>2, <1>3, <2>1 DEF Underway
  <2>3. Abstract!Arrive(p)
    BY <1>1, <1>5, <2>2 DEF Abstract!Arrive, Letters, Claimed, Underway
  <2> QED
    BY <2>3 DEF Abstract!Next
<1> QED
  BY <1>4, <1>5

\* An accepted attempt is an abstract sending, of a letter not sent before.
LEMMA SendStep ==
  ASSUME TypeOK, TypeOK', MailInv, PendingInv, OnceInv, OnceInv', [Next]_vars,
         NEW s \in Senders, Attempt(s)
  PROVE  Abstract!Next \/ UNCHANGED View
<1>1. UNCHANGED <<suppressed, Claimed, Underway>>
  BY ReachNarrows DEF Attempt, Store, Claimed, SenderStep
<1>2. CASE UNCHANGED Letters
  BY <1>1, <1>2 DEF View
<1>3. CASE Letters' # Letters
  <2>1. PICK m \in Proposals \X Emails : inbox'[m] # inbox[m]
    BY <1>3 DEF Letters
  <2>2. m \in Proposals \X Addresses
    BY DEF Addresses
  <2>3. PICK r \in Senders : /\ Attempt(r) /\ m = <<task[r].proposal, task[r].recipient>>
                             /\ inbox' = [inbox EXCEPT ![m] = @ + 1]
    BY <2>1, <2>2, OwnInboxOnly
  <2>4. inbox[m] = 0 /\ inbox'[m] = 1
    <3>1. inbox'[m] = inbox[m] + 1
      BY <2>2, <2>3 DEF TypeOK
    <3>2. inbox[m] \in {0, 1} /\ inbox'[m] \in {0, 1}
      BY <2>2 DEF OnceInv
    <3> QED
      BY <3>1, <3>2
  <2>5. ~task[r].test /\ task[r].pc = "sending"
    <3>1. task[r].recipient \in Emails /\ Bound(task[r]) /\ task[r].pc = "sending"
      BY <2>3 DEF TypeOK, Attempt
    <3> QED
      BY <3>1, DeliveryAssumption DEF Bound
  <2>6. m \in Underway
    BY <2>3, <2>5, PreparedIsUnderway
  <2>7. Letters' = [Letters EXCEPT ![m] = 1] /\ Letters[m] = 0
    BY <2>3, <2>4 DEF Letters, TypeOK, Addresses
  <2>8. Abstract!Send(m)
    BY <1>1, <2>6, <2>7 DEF Abstract!Send, Letters, Claimed, Underway
  <2> QED
    BY <2>8 DEF Abstract!Next
<1> QED
  BY <1>2, <1>3

\* Both commits claim, withdraw, or leave the record as it is.
LEMMA RecordStep ==
  ASSUME TypeOK, TypeOK', MailInv, PendingInv, NEW s \in Senders, RecordSent(s) \/ RecordFailed(s)
  PROVE  Abstract!Next
<1> DEFINE m == <<task[s].proposal, task[s].recipient>>
           t == task[s]
<1>1. UNCHANGED <<Letters, suppressed>> /\ Underway' \subseteq Underway
  BY ReachNarrows DEF RecordSent, RecordFailed, World, Letters, SenderStep
<1>2. CASE t.test
  <2>1. UNCHANGED Claimed
    BY <1>2 DEF RecordSent, RecordFailed, Claimed
  <2>2. Abstract!Narrow
    BY <1>1, <2>1 DEF Abstract!Narrow, Letters, Claimed, Underway
  <2> QED
    BY <2>2 DEF Abstract!Next
<1>3. CASE ~t.test
  <2>1. m \in Underway /\ t.proposal \in Proposals /\ t.recipient \in Emails /\ t \in Task
    BY <1>3, PreparedIsUnderway DEF RecordSent, RecordFailed, TypeOK
  <2>2. ASSUME NEW p \in Proposals, p # t.proposal PROVE proposal'[p] = proposal[p]
    BY <2>2 DEF RecordSent, RecordFailed, TypeOK
  <2>3. CASE proposal'[t.proposal].status # "delivered"
    <3>1. Claimed' = Claimed \ {t.proposal}
      BY <2>1, <2>2, <2>3 DEF Claimed
    <3>2. \E n \in Underway : Abstract!Withdraw(n)
      BY <2>1, <3>1 DEF Abstract!Withdraw, Claimed, Underway
    <3>3. Abstract!Narrow
      BY <1>1, <3>2 DEF Abstract!Narrow, Letters, Underway
    <3> QED
      BY <3>3 DEF Abstract!Next
  <2>4. CASE proposal'[t.proposal].status = "delivered" /\ proposal[t.proposal].status = "delivered"
    <3>1. UNCHANGED Claimed
      BY <2>1, <2>2, <2>4 DEF Claimed
    <3>2. Abstract!Narrow
      BY <1>1, <3>1 DEF Abstract!Narrow, Letters, Claimed, Underway
    <3> QED
      BY <3>2 DEF Abstract!Next
  <2>5. CASE proposal'[t.proposal].status = "delivered" /\ proposal[t.proposal].status # "delivered"
    <3>1. RecordSent(s) /\ IsExternal(t.provider)
      <4>1. CASE RecordFailed(s)
        <5>1. proposal[t.proposal] \in Row
          BY <2>1 DEF TypeOK
        <5>2. proposal'[t.proposal].status \in {proposal[t.proposal].status, "failed"}
          BY <1>3, <4>1, <2>1, <5>1 DEF RecordFailed, TypeOK, Flushed, Row, Task
        <5> QED
          BY <2>5, <5>2
      <4>2. CASE RecordSent(s)
        <5>1. proposal'[t.proposal].status = Resolved(t.provider)
          BY <1>3, <4>2, <2>1 DEF RecordSent, TypeOK
        <5> QED
          BY <2>1, <2>5, <4>2, <5>1 DEF Resolved, Task, AnyProvider, IsExternal
      <4> QED
        BY <4>1, <4>2
    <3>2. Letters[m] > 0
      BY <2>1, <3>1 DEF MailInv, Warranted, RecordSent, Letters
    <3>3. Claimed' = Claimed \cup {t.proposal}
      BY <2>1, <2>2, <2>5 DEF Claimed
    <3>4. \E n \in Underway : Abstract!Claim(n)
      BY <2>1, <3>2, <3>3 DEF Abstract!Claim, Letters, Claimed, Underway
    <3>5. Abstract!Narrow
      BY <1>1, <3>4 DEF Abstract!Narrow, Letters, Underway
    <3> QED
      BY <3>5 DEF Abstract!Next
  <2> QED
    BY <2>3, <2>4, <2>5
<1> QED
  BY <1>2, <1>3

\* The other steps of a sender bring nothing to anybody.
LEMMA NarrowStep ==
  ASSUME TypeOK, TypeOK', NEW s \in Senders, SenderStep(s) \/ AbandonTask(s),
         ~Attempt(s), ~RecordSent(s), ~RecordFailed(s)
  PROVE  Abstract!Next
<1>1. UNCHANGED <<proposal, inbox, suppressed>>
  BY DEF SenderStep, AbandonTask, LoadContact, CheckSuppression, CheckBudget,
         SendLocally, SendForbidden, Store, World
<1>2. Underway' \subseteq Underway
  BY ReachNarrows
<1>3. Abstract!Narrow
  BY <1>1, <1>2 DEF Abstract!Narrow, Underway
<1> QED
  BY <1>3 DEF Abstract!Next

\* What editors and the calendar do, Outreach sees as bars, or not at all.
LEMMA BarStep ==
  ASSUME TypeOK, [Next]_vars, UNCHANGED <<task, proposal, inbox>>
  PROVE  Abstract!Next \/ UNCHANGED View
<1>1. UNCHANGED <<Letters, Claimed, Underway>>
  BY DEF Letters, Claimed, Underway
<1>2. CASE UNCHANGED suppressed
  BY <1>1, <1>2 DEF View
<1>3. ASSUME NEW a \in Emails, suppressed' = suppressed \cup {a} PROVE Abstract!Next
  BY <1>1, <1>3 DEF Abstract!Next, Abstract!Bar, Letters, Claimed, Underway
<1>4. \/ UNCHANGED suppressed
      \/ \E a \in Emails : suppressed' = suppressed \cup {a}
  BY SuppressedGrows
<1> QED
  BY <1>2, <1>3, <1>4

\* Every step is a step of Outreach, or changes nothing it speaks of.
LEMMA OutreachStep ==
  ASSUME TypeOK, TypeOK', MailInv, PendingInv, OnceInv, OnceInv', [Next]_vars
  PROVE  Abstract!Next \/ UNCHANGED View
<1>1. CASE \E s \in Senders, p \in Proposals, body \in Deliveries : LoadProposal(s, p, body)
  BY <1>1, ArriveStep
<1>2. CASE \E s \in Senders : SenderStep(s) \/ AbandonTask(s)
  BY <1>2, SendStep, RecordStep, NarrowStep
<1>3. CASE UNCHANGED <<task, proposal, inbox>>
  BY <1>3, BarStep
<1> QED
  BY <1>1, <1>2, <1>3, OthersKeepTasks

\* With Resend, delivery implements Outreach: one letter per address, none to
\* whom the request found suppressed, nothing about what it found delivered,
\* and no claim without a letter.
THEOREM OutreachTheorem ==
  ASSUME ExternalProvider = "resend"
  PROVE  Spec => OutreachKept
<1>1. Init => OnceInv
  BY DEF Init, OnceInv
<1>2. TypeOK /\ OnceInv /\ [Next]_vars => OnceInv'
  BY OnceStep
<1>3. Init => Abstract!Init
  <2> SUFFICES ASSUME Init PROVE Abstract!Init
    OBVIOUS
  <2>1. Letters = [m \in Proposals \X Emails |-> 0]
    BY DEF Init, Letters, Addresses
  <2>2. Claimed = {} /\ suppressed = {}
    BY DEF Init, Claimed, FreshRow
  <2>3. \A s \in Senders : Reachable(task[s]) = {}
    BY DEF Init, Reachable, IdleTask
  <2>4. Underway = {}
    BY <2>3 DEF Underway
  <2> QED
    BY <2>1, <2>2, <2>4 DEF Abstract!Init, Letters, Claimed, Underway
<1>4. /\ TypeOK /\ TypeOK' /\ MailInv /\ PendingInv /\ OnceInv /\ OnceInv' /\ [Next]_vars
      => [Abstract!Next]_View
  BY OutreachStep
<1>5. Spec => [](TypeOK /\ MailInv /\ PendingInv /\ OnceInv)
  BY TypeCorrect, MailInit, MailStep, PendingInit, PendingStep, <1>1, <1>2, PTL DEF Spec
<1> QED
  BY <1>3, <1>4, <1>5, PTL
     DEF Spec, OutreachKept, Abstract!Spec, Abstract!outreach, View, Letters, Claimed, Underway
=============================================================================
