---------------------------- MODULE IntakeProofs ----------------------------
(***************************************************************************)
(* Proofs about Intake: type correctness, and that every answer tells the  *)
(* truth about what is stored.                                             *)
(***************************************************************************)
EXTENDS Intake, TLAPS

\* A thread that serves nothing is well-typed.
LEMMA IdleType == Idle \in Batch /\ Placed(Idle)
BY IntakeAssumption DEF Idle, Batch, Placed, Kinds

\* The fields an insert assigns, one at a time.
LEMMA InsertedFields ==
  ASSUME NEW b \in Batch, NEW n \in Nat \ {0}, NEW c \in SUBSET Domains
  PROVE  [b EXCEPT !.pc = "row", !.next = n, !.created = c] \in Batch
<1>1. [b EXCEPT !.pc = "row"] \in Batch
  BY DEF Batch
<1>2. [b EXCEPT !.pc = "row", !.next = n] \in Batch
  BY <1>1 DEF Batch
<1> QED
  BY <1>2 DEF Batch

\* A step that puts one well-formed batch in place of another, and touches
\* nothing else but a report.
LEMMA BatchStep ==
  ASSUME TypeOK, NEW t \in Threads, NEW b \in Batch, Placed(b),
         batch' = [batch EXCEPT ![t] = b], UNCHANGED <<owner, begun>>,
         report' \in [Requests -> Report \cup {None}]
  PROVE  TypeOK'
BY DEF TypeOK

\* The request a thread serves, field by field.
LEMMA Fields ==
  ASSUME TypeOK, NEW t \in Threads
  PROVE  /\ batch[t] \in Batch /\ Placed(batch[t])
         /\ batch[t].next \in Nat \ {0} /\ batch[t].created \in SUBSET Domains
         /\ batch[t].request \in 0..MaxRequests /\ batch[t].kind \in Kinds
         /\ batch[t].pc # "idle" =>
              /\ batch[t].request \in Requests
              /\ batch[t].rows \in Lists /\ batch[t].rows \in Seq(Domains \cup {Invalid})
              /\ Len(batch[t].rows) \in Nat /\ DOMAIN batch[t].rows = 1..Len(batch[t].rows)
              /\ batch[t].next <= Len(batch[t].rows) + 1
              /\ Left(t) => Row(t) \in Domains \cup {Invalid}
BY IntakeAssumption DEF TypeOK, Batch, Placed, Left, Row

\* Every answer is a report.
LEMMA AnsweredType ==
  ASSUME TypeOK, NEW t \in Threads, batch[t].pc # "idle", UNCHANGED <<owner, begun>>,
         NEW outcome \in {"ok", "duplicate", "unavailable"}, NEW created \in SUBSET Domains,
         Answered(t, outcome, created)
  PROVE  TypeOK'
<1> DEFINE r == [kind |-> batch[t].kind, rows |-> batch[t].rows, created |-> created,
                 outcome |-> outcome]
<1>1. r \in Report
  BY Fields DEF Report
<1>2. report' = [report EXCEPT ![batch[t].request] = r]
  BY DEF Answered
<1>3. report' \in [Requests -> Report \cup {None}]
  BY <1>1, <1>2, Fields DEF TypeOK
<1> QED
  BY <1>3, IdleType, BatchStep DEF Answered

\* Every step of a request keeps the types.
LEMMA StepType ==
  ASSUME TypeOK, NEW t \in Threads, Step(t)
  PROVE  TypeOK'
<1>1. CASE Skip(t)
  <2> DEFINE b == [batch[t] EXCEPT !.next = @ + 1]
  <2>1. b \in Batch /\ Placed(b)
    BY <1>1, Fields DEF Skip, Left, Batch, Placed
  <2> QED
    BY <1>1, <2>1, BatchStep DEF Skip, TypeOK
<1>2. CASE RefuseDuplicate(t)
  BY <1>2, AnsweredType DEF RefuseDuplicate, Refuse
<1>3. CASE Add(t)
  <2> DEFINE b == [batch[t] EXCEPT !.pc = "insert"]
  <2>1. b \in Batch
    BY Fields DEF Batch
  <2>2. Placed(b)
    BY <1>3, Fields DEF Add, Left, Row, Placed
  <2> QED
    BY <1>3, <2>1, <2>2, BatchStep DEF Add, TypeOK
<1>4. CASE Insert(t)
  <2>1. CASE Stored(Row(t))
    BY <1>4, <2>1, AnsweredType DEF Insert, Refuse
  <2>2. CASE ~Stored(Row(t))
    <3> DEFINE b == [batch[t] EXCEPT !.pc = "row", !.next = @ + 1, !.created = @ \cup {Row(t)}]
    <3>1. batch[t].next <= Len(batch[t].rows) /\ Row(t) \in Domains
      BY <1>4, Fields DEF Insert, Placed, Row
    <3>2. b \in Batch
      <4>1. batch[t].next + 1 \in Nat \ {0} /\ batch[t].created \cup {Row(t)} \in SUBSET Domains
        BY <3>1, Fields
      <4>2. batch[t] \in Batch
        BY Fields
      <4> QED
        BY <4>1, <4>2, InsertedFields
    <3>3. Placed(b)
      BY <1>4, <3>1, Fields DEF Insert, Placed
    <3>4. batch' = [batch EXCEPT ![t] = b] /\ UNCHANGED <<owner, report, begun>>
      BY <1>4, <2>2 DEF Insert, TypeOK
    <3>5. report' \in [Requests -> Report \cup {None}]
      BY <3>4 DEF TypeOK
    <3> HIDE DEF b
    <3> QED
      BY <3>2, <3>3, <3>4, <3>5, BatchStep
  <2> QED
    BY <2>1, <2>2
<1>5. CASE Abort(t)
  <2>1. batch[t].pc # "idle"
    BY <1>5 DEF Abort, Deadlocked, WaitsFor
  <2> QED
    BY <1>5, <2>1, AnsweredType DEF Abort, Refuse
<1>6. CASE Commit(t)
  <2> DEFINE r == [kind |-> batch[t].kind, rows |-> batch[t].rows,
                   created |-> batch[t].created, outcome |-> "ok"]
  <2>1. r \in Report
    BY <1>6, Fields DEF Report, Commit
  <2>2. report' \in [Requests -> Report \cup {None}]
    BY <1>6, <2>1, Fields DEF Commit, Answered, TypeOK
  <2>3. owner' \in [Domains -> 0..MaxRequests]
    BY <1>6, Fields DEF Commit, TypeOK
  <2> QED
    BY <1>6, <2>2, <2>3, IdleType DEF Commit, Answered, TypeOK
<1> QED
  BY <1>1, <1>2, <1>3, <1>4, <1>5, <1>6 DEF Step

\* The arrival of a request keeps the types.
LEMMA BeginTypes ==
  ASSUME TypeOK, NEW t \in Threads, NEW kind \in Kinds, NEW rows \in Lists, Begin(t, kind, rows)
  PROVE  TypeOK'
<1> DEFINE b == [pc |-> "row", request |-> begun + 1, kind |-> kind, rows |-> rows,
                 next |-> 1, created |-> {}]
<1>1. begun + 1 \in 1..MaxRequests
  BY IntakeAssumption DEF Begin, TypeOK
<1>3. b \in Batch
  BY <1>1 DEF Batch
<1>4. Len(rows) \in Nat
  BY IntakeAssumption
<1>5. Placed(b)
  <2>1. b.pc = "row" /\ b.request = begun + 1 /\ b.rows = rows /\ b.next = 1
    OBVIOUS
  <2> HIDE DEF b
  <2> QED
    BY <1>1, <1>4, <2>1 DEF Placed, Requests
<1>6. batch' = [batch EXCEPT ![t] = b] /\ begun' \in 0..MaxRequests
  BY <1>1 DEF Begin
<1> HIDE DEF b
<1> QED
  BY <1>3, <1>5, <1>6 DEF Begin, TypeOK

\* Every variable keeps its type, for any domains, lists and threads.
THEOREM TypeCorrect == Spec => []TypeOK
<1>1. Init => TypeOK
  BY IdleType, IntakeAssumption DEF Init, TypeOK
<1>2. TypeOK /\ [Next]_vars => TypeOK'
  <2> SUFFICES ASSUME TypeOK, [Next]_vars PROVE TypeOK'
    OBVIOUS
  <2>1. ASSUME NEW t \in Threads, Abandon(t) PROVE TypeOK'
    BY <2>1, IdleType DEF Abandon, TypeOK
  <2>2. CASE UNCHANGED vars
    BY <2>2 DEF vars, TypeOK
  <2> QED
    BY <2>1, <2>2, StepType, BeginTypes DEF Next
<1> QED
  BY <1>1, <1>2, PTL DEF Spec
-----------------------------------------------------------------------------
Serving(t) == batch[t].pc # "idle"

\* A request that has not been answered owns nothing yet, and is served by one
\* thread only.
PendingInv ==
  /\ \A t \in Threads : Serving(t) => /\ batch[t].request <= begun
                                      /\ report[batch[t].request] = None
                                      /\ StoredBy(batch[t].request) = {}
  /\ \A t, u \in Threads :
       Serving(t) /\ Serving(u) /\ batch[t].request = batch[u].request => t = u
  /\ \A r \in Requests : r > begun => report[r] = None /\ StoredBy(r) = {}

\* What a session has inserted is stored by nobody and inserted by no other
\* session: the unique index makes the others wait.
CreatedInv ==
  /\ \A t \in Threads : ~Serving(t) => batch[t].created = {}
  /\ \A t \in Threads : \A d \in batch[t].created : ~Stored(d)
  /\ \A t, u \in Threads : t # u => batch[t].created \cap batch[u].created = {}

\* A row a request is past was no domain, is stored, or was inserted by it; and
\* nothing is inserted before the first row is past.
PassedInv ==
  \A t \in Threads : Serving(t) =>
    /\ \A i \in DOMAIN batch[t].rows : i < batch[t].next =>
         \/ batch[t].rows[i] = Invalid
         \/ Stored(batch[t].rows[i])
         \/ batch[t].rows[i] \in batch[t].created
    /\ batch[t].kind = "create" => Len(batch[t].rows) = 1
    /\ batch[t].next = 1 => batch[t].created = {}

IntakeInv == TypeOK /\ PendingInv /\ CreatedInv /\ PassedInv /\ ReportHolds

\* The step of a thread that only changes the batch of that thread, and ends
\* up with a batch that has inserted no more than the index allows.
LEMMA BatchInv ==
  ASSUME IntakeInv, NEW t \in Threads, Serving(t), NEW b,
         batch' = [batch EXCEPT ![t] = b], UNCHANGED <<owner, report, begun>>,
         b = Idle \/ (/\ b.pc # "idle" /\ b.request = batch[t].request
                      /\ b.rows = batch[t].rows /\ b.kind = batch[t].kind
                      /\ \A i \in DOMAIN b.rows : i < b.next =>
                           b.rows[i] = Invalid \/ Stored(b.rows[i]) \/ b.rows[i] \in b.created
                      /\ b.next = 1 => b.created = {}),
         \A d \in b.created : ~Stored(d) /\ \A u \in Threads : u # t => d \notin batch[u].created
  PROVE  PendingInv' /\ CreatedInv' /\ PassedInv' /\ ReportHolds'
<1>1. /\ \A d \in Domains : Stored(d)' <=> Stored(d)
      /\ \A r : StoredBy(r)' = StoredBy(r)
  BY DEF Stored, StoredBy
<1>2. /\ batch'[t] = b /\ \A u \in Threads : u # t => batch'[u] = batch[u]
  BY DEF IntakeInv, TypeOK
<1>3. PendingInv'
  BY <1>2 DEF PendingInv, IntakeInv, Serving, Idle, StoredBy
<1>4. CreatedInv'
  BY <1>1, <1>2 DEF CreatedInv, IntakeInv, Serving, Idle, Stored
<1>5. PassedInv'
  BY <1>1, <1>2 DEF PassedInv, IntakeInv, Serving, Idle, Stored
<1>6. ReportHolds'
  BY <1>1 DEF ReportHolds, IntakeInv, Stored, StoredBy
<1> QED
  BY <1>3, <1>4, <1>5, <1>6

\* The domains a request asks for are what its rows hold.
LEMMA AskedPassed ==
  ASSUME IntakeInv, NEW t \in Threads, Serving(t), ~Left(t)
  PROVE  \A d \in Asked(batch[t].rows) : Stored(d) \/ d \in batch[t].created
<1>1. \A i \in DOMAIN batch[t].rows : i < batch[t].next
  BY Fields DEF IntakeInv, Left, Serving
<1> QED
  BY <1>1 DEF Asked, IntakeInv, PassedInv, Serving

\* A refusal stores nothing, and one for a duplicate names what is stored.
LEMMA RefuseInv ==
  ASSUME IntakeInv, NEW t \in Threads, Serving(t),
         NEW outcome \in {"duplicate", "unavailable"}, Refuse(t, outcome),
         outcome = "duplicate" => \A d \in Asked(batch[t].rows) : Stored(d)
  PROVE  PendingInv' /\ CreatedInv' /\ PassedInv' /\ ReportHolds'
<1> DEFINE n == batch[t].request
           a == [kind |-> batch[t].kind, rows |-> batch[t].rows, created |-> {},
                 outcome |-> outcome]
<1>1. n \in Requests /\ n <= begun
  BY Fields DEF Serving, IntakeInv, PendingInv
<1>2. /\ batch'[t] = Idle /\ \A u \in Threads : u # t => batch'[u] = batch[u]
      /\ report'[n] = a /\ \A r \in Requests : r # n => report'[r] = report[r]
  BY <1>1 DEF Refuse, Answered, IntakeInv, TypeOK
<1>3. /\ \A d \in Domains : Stored(d)' <=> Stored(d)
      /\ \A r : StoredBy(r)' = StoredBy(r)
      /\ owner' = owner /\ begun' = begun
  BY DEF Stored, StoredBy, Refuse
<1>4. PendingInv'
  <2>1. \A u \in Threads : Serving(u)' => u # t /\ Serving(u) /\ batch[u].request # n
    BY <1>2 DEF Serving, Idle, IntakeInv, PendingInv
  <2>2. \A u \in Threads : Serving(u) => batch[u].request \in Requests
    BY Fields DEF Serving, IntakeInv
  <2>3. ASSUME NEW u \in Threads, batch'[u].pc # "idle"
        PROVE  /\ batch'[u].request <= begun' /\ report'[batch'[u].request] = None
               /\ {d \in Domains : owner'[d] = batch'[u].request} = {}
    <3>1. u # t /\ batch'[u] = batch[u] /\ Serving(u) /\ batch[u].request # n
      BY <1>2, <2>1, <2>3 DEF Serving
    <3>2. batch[u].request \in Requests
      BY <2>2, <3>1
    <3>3. batch[u].request <= begun /\ report[batch[u].request] = None
          /\ {d \in Domains : owner[d] = batch[u].request} = {}
      BY <3>1 DEF IntakeInv, PendingInv, StoredBy
    <3> QED
      BY <1>1, <1>2, <1>3, <3>1, <3>2, <3>3
  <2>4. ASSUME NEW u \in Threads, NEW w \in Threads, batch'[u].pc # "idle",
               batch'[w].pc # "idle", batch'[u].request = batch'[w].request
        PROVE  u = w
    BY <1>2, <2>1, <2>4 DEF IntakeInv, PendingInv, Serving
  <2>5. ASSUME NEW r \in Requests, r > begun'
        PROVE  report'[r] = None /\ {d \in Domains : owner'[d] = r} = {}
    <3>1. r > begun /\ r # n
      BY <1>1, <1>3, <2>5 DEF IntakeInv, TypeOK, Requests
    <3>2. report[r] = None /\ {d \in Domains : owner[d] = r} = {}
      BY <3>1 DEF IntakeInv, PendingInv, StoredBy
    <3> QED
      BY <1>2, <1>3, <3>1, <3>2
  <2> QED
    BY <2>3, <2>4, <2>5 DEF PendingInv, Serving, StoredBy
<1>5. CreatedInv'
  BY <1>2, <1>3 DEF CreatedInv, IntakeInv, Serving, Idle, Stored
<1>6. PassedInv'
  BY <1>2, <1>3 DEF PassedInv, IntakeInv, Serving, Idle, Stored
<1>7. ReportHolds'
  <2>1. StoredBy(n) = {}
    BY DEF IntakeInv, PendingInv, Serving
  <2>2. a # None /\ a.outcome = outcome /\ a.rows = batch[t].rows
    BY Fields, IntakeAssumption DEF Serving, IntakeInv
  <2>3. \A d \in Asked(batch[t].rows) : Stored(d) => Stored(d)'
    BY <1>3 DEF Stored
  <2> QED
    BY <1>1, <1>2, <1>3, <2>1, <2>2, <2>3 DEF ReportHolds, IntakeInv, Stored
<1> QED
  BY <1>4, <1>5, <1>6, <1>7

\* A commit stores what the session inserted, in the name of its request.
LEMMA CommitInv ==
  ASSUME IntakeInv, NEW t \in Threads, Commit(t)
  PROVE  PendingInv' /\ CreatedInv' /\ PassedInv' /\ ReportHolds'
<1> DEFINE n == batch[t].request
           a == [kind |-> batch[t].kind, rows |-> batch[t].rows,
                 created |-> batch[t].created, outcome |-> "ok"]
<1>1. Serving(t) /\ ~Left(t) /\ n \in Requests /\ n <= begun /\ StoredBy(n) = {}
      /\ batch[t].created \subseteq Domains /\ begun' = begun
  BY Fields DEF Commit, Serving, IntakeInv, PendingInv
<1>2. /\ batch'[t] = Idle /\ \A u \in Threads : u # t => batch'[u] = batch[u]
      /\ report'[n] = a /\ \A r \in Requests : r # n => report'[r] = report[r]
  BY <1>1 DEF Commit, Answered, IntakeInv, TypeOK
<1>3. \A d \in Domains : owner'[d] = IF d \in batch[t].created THEN n ELSE owner[d]
  BY DEF Commit
<1>4. \A d \in batch[t].created : owner[d] = 0
  BY DEF IntakeInv, CreatedInv, Stored
<1>5. {d \in Domains : owner'[d] = n} = batch[t].created
  BY <1>1, <1>3 DEF StoredBy
<1>6. \A r \in Requests : r # n =>
        {d \in Domains : owner'[d] = r} = {d \in Domains : owner[d] = r}
  BY <1>1, <1>3, <1>4 DEF Requests
<1>7. \A d \in Domains : owner'[d] # 0 <=> (owner[d] # 0 \/ d \in batch[t].created)
  BY <1>1, <1>3 DEF Requests
<1>8. PendingInv'
  <2>1. \A u \in Threads : Serving(u)' => u # t /\ Serving(u) /\ batch[u].request # n
    BY <1>1, <1>2 DEF Serving, Idle, IntakeInv, PendingInv
  <2>2. \A u \in Threads : Serving(u) => batch[u].request \in Requests
    BY Fields DEF Serving, IntakeInv
  <2>3. ASSUME NEW u \in Threads, batch'[u].pc # "idle"
        PROVE  /\ batch'[u].request <= begun' /\ report'[batch'[u].request] = None
               /\ {d \in Domains : owner'[d] = batch'[u].request} = {}
    <3>1. u # t /\ batch'[u] = batch[u] /\ Serving(u) /\ batch[u].request # n
      BY <1>2, <2>1, <2>3 DEF Serving
    <3>2. batch[u].request \in Requests
      BY <2>2, <3>1
    <3>3. batch[u].request <= begun /\ report[batch[u].request] = None
          /\ {d \in Domains : owner[d] = batch[u].request} = {}
      BY <3>1 DEF IntakeInv, PendingInv, StoredBy
    <3> QED
      BY <1>1, <1>2, <1>6, <3>1, <3>2, <3>3
  <2>4. ASSUME NEW u \in Threads, NEW w \in Threads, batch'[u].pc # "idle",
               batch'[w].pc # "idle", batch'[u].request = batch'[w].request
        PROVE  u = w
    BY <1>2, <2>1, <2>4 DEF IntakeInv, PendingInv, Serving
  <2>5. ASSUME NEW r \in Requests, r > begun'
        PROVE  report'[r] = None /\ {d \in Domains : owner'[d] = r} = {}
    <3>1. r > begun /\ r # n
      BY <1>1, <1>6, <2>5 DEF IntakeInv, TypeOK, Requests
    <3>2. report[r] = None /\ {d \in Domains : owner[d] = r} = {}
      BY <3>1 DEF IntakeInv, PendingInv, StoredBy
    <3> QED
      BY <1>2, <1>6, <3>1, <3>2
  <2> QED
    BY <2>3, <2>4, <2>5 DEF PendingInv, Serving, StoredBy
<1>9. CreatedInv'
  <2>1. \A u \in Threads : batch[u].created \subseteq Domains
    BY Fields DEF IntakeInv
  <2>2. \A u \in Threads : u # t => \A d \in batch[u].created : d \notin batch[t].created
    BY DEF IntakeInv, CreatedInv
  <2> QED
    BY <1>1, <1>2, <1>7, <2>1, <2>2 DEF CreatedInv, IntakeInv, Serving, Idle, Stored
<1>10. PassedInv'
  <2>1. \A u \in Threads : Serving(u)' => u # t /\ Serving(u) /\ batch'[u] = batch[u]
    BY <1>1, <1>2 DEF Serving, Idle
  <2>2. \A u \in Threads : Serving(u) =>
          \A i \in DOMAIN batch[u].rows : batch[u].rows[i] \in Domains \cup {Invalid}
    BY Fields DEF Serving, IntakeInv
  <2>3. \A u \in Threads : Serving(u) => \A i \in DOMAIN batch[u].rows :
          owner[batch[u].rows[i]] # 0 =>
            owner'[batch[u].rows[i]] # 0 \/ batch[u].rows[i] = Invalid
    BY <1>7, <2>2
  <2> QED
    BY <1>2, <2>1, <2>3 DEF PassedInv, IntakeInv, Stored
<1>11. ReportHolds'
  <2>1. \A d \in Asked(batch[t].rows) : d \in Domains /\ (Stored(d) \/ d \in batch[t].created)
    BY <1>1, AskedPassed, Fields DEF Asked, Serving, IntakeInv
  <2>2. \A d \in Asked(batch[t].rows) : owner'[d] # 0
    BY <1>7, <2>1 DEF Stored
  <2>3. a # None /\ a.outcome = "ok" /\ a.rows = batch[t].rows /\ a.created = batch[t].created
    BY <1>1, Fields, IntakeAssumption DEF Serving, IntakeInv
  <2>4. \A r \in Requests : report[r] # None =>
          \A d \in Asked(report[r].rows) : d \in Domains
    BY IntakeAssumption DEF IntakeInv, TypeOK, Report, Asked
  <2>5. ASSUME NEW r \in Requests, r # n, report[r] # None,
               \A d \in Asked(report[r].rows) : Stored(d)
        PROVE  \A d \in Asked(report[r].rows) : owner'[d] # 0
    BY <1>7, <2>4, <2>5 DEF Stored
  <2> QED
    BY <1>1, <1>2, <1>5, <1>6, <2>2, <2>3, <2>5 DEF ReportHolds, IntakeInv, Stored, StoredBy
<1> QED
  BY <1>8, <1>9, <1>10, <1>11

\* The one row of a create: past it nothing is left, and before it nothing was.
LEMMA CreateRow ==
  ASSUME IntakeInv, NEW t \in Threads, Serving(t), Left(t), batch[t].kind = "create",
         Stored(Row(t))
  PROVE  \A d \in Asked(batch[t].rows) : Stored(d)
<1>0. Len(batch[t].rows) = 1
  BY DEF IntakeInv, PassedInv
<1>1. DOMAIN batch[t].rows = 1..1 /\ batch[t].next = 1
  BY <1>0, Fields DEF IntakeInv, Serving, Left
<1> QED
  BY <1>1 DEF Asked, Stored, Row

\* Every step of a request keeps the invariant.
LEMMA StepInv ==
  ASSUME IntakeInv, NEW t \in Threads, Step(t)
  PROVE  PendingInv' /\ CreatedInv' /\ PassedInv' /\ ReportHolds'
<1> DEFINE c == batch[t]
<1>1. /\ TypeOK /\ c.next \in Nat \ {0} /\ c.created \in SUBSET Domains
      /\ \A d \in c.created : ~Stored(d) /\ \A u \in Threads : u # t => d \notin batch[u].created
  BY Fields DEF IntakeInv, CreatedInv
<1>2. Serving(t) => \A i \in DOMAIN c.rows :
        /\ i \in Nat
        /\ i < c.next => c.rows[i] = Invalid \/ Stored(c.rows[i]) \/ c.rows[i] \in c.created
  BY Fields DEF IntakeInv, PassedInv, Serving
<1>3. CASE Skip(t)
  <2> DEFINE b == [c EXCEPT !.next = c.next + 1]
  <2>1. /\ b.pc # "idle" /\ b.request = c.request /\ b.rows = c.rows /\ b.kind = c.kind
        /\ b.next = c.next + 1 /\ b.created = c.created
    BY <1>1, <1>3 DEF Skip, TypeOK, Batch
  <2>2. batch' = [batch EXCEPT ![t] = b] /\ UNCHANGED <<owner, report, begun>> /\ Serving(t)
    BY <1>3 DEF Skip, Serving
  <2>3. \A i \in DOMAIN c.rows : i < c.next + 1 =>
          c.rows[i] = Invalid \/ Stored(c.rows[i]) \/ c.rows[i] \in c.created
    <3>1. Row(t) = Invalid \/ Stored(Row(t)) \/ Row(t) \in c.created
      BY <1>3 DEF Skip, Known
    <3> QED
      BY <1>1, <1>2, <2>2, <3>1 DEF Row
  <2> HIDE DEF b
  <2>4. \A i \in DOMAIN b.rows : i < b.next =>
          b.rows[i] = Invalid \/ Stored(b.rows[i]) \/ b.rows[i] \in b.created
    BY <2>1, <2>3
  <2>5. b.next = 1 => b.created = {}
    BY <1>1, <2>1
  <2>6. \A d \in b.created :
          ~Stored(d) /\ \A u \in Threads : u # t => d \notin batch[u].created
    BY <1>1, <2>1
  <2> QED
    BY <2>1, <2>2, <2>4, <2>5, <2>6, BatchInv
<1>4. CASE RefuseDuplicate(t)
  <2>1. Serving(t) /\ Left(t) /\ c.kind = "create" /\ Refuse(t, "duplicate")
    BY <1>4 DEF RefuseDuplicate, Serving
  <2>2. Stored(Row(t))
    <3>0. Len(c.rows) = 1
      BY <2>1 DEF IntakeInv, PassedInv
    <3>1. c.next = 1 /\ Known(t)
      BY <1>1, <1>4, <2>1, <3>0 DEF RefuseDuplicate, Left
    <3>2. c.created = {}
      BY <2>1, <3>1 DEF IntakeInv, PassedInv, Serving
    <3> QED
      BY <3>1, <3>2 DEF Known
  <2> QED
    BY <2>1, <2>2, CreateRow, RefuseInv
<1>5. CASE Add(t)
  <2> DEFINE b == [c EXCEPT !.pc = "insert"]
  <2>1. /\ b.pc # "idle" /\ b.request = c.request /\ b.rows = c.rows /\ b.kind = c.kind
        /\ b.next = c.next /\ b.created = c.created
    BY <1>1, <1>5 DEF Add, TypeOK, Batch
  <2>2. batch' = [batch EXCEPT ![t] = b] /\ UNCHANGED <<owner, report, begun>> /\ Serving(t)
    BY <1>5 DEF Add, Serving
  <2> HIDE DEF b
  <2>4. \A i \in DOMAIN b.rows : i < b.next =>
          b.rows[i] = Invalid \/ Stored(b.rows[i]) \/ b.rows[i] \in b.created
    BY <1>2, <2>1, <2>2
  <2>5. b.next = 1 => b.created = {}
    BY <2>1, <2>2 DEF IntakeInv, PassedInv
  <2>6. \A d \in b.created :
          ~Stored(d) /\ \A u \in Threads : u # t => d \notin batch[u].created
    BY <1>1, <2>1
  <2> QED
    BY <2>1, <2>2, <2>4, <2>5, <2>6, BatchInv
<1>6. CASE Insert(t)
  <2>1. Serving(t) /\ Left(t) /\ Row(t) \in Domains
    BY <1>6, Fields DEF Insert, Serving, Left, Placed, Row, IntakeInv
  <2>2. CASE Stored(Row(t))
    <3>1. CASE c.kind = "create"
      BY <1>6, <2>1, <2>2, <3>1, CreateRow, RefuseInv DEF Insert
    <3>2. CASE c.kind # "create"
      BY <1>6, <2>1, <2>2, <3>2, RefuseInv DEF Insert
    <3> QED
      BY <3>1, <3>2
  <2>3. CASE ~Stored(Row(t))
    <3> DEFINE b == [c EXCEPT !.pc = "row", !.next = c.next + 1,
                              !.created = c.created \cup {Row(t)}]
    <3>1. /\ b.pc # "idle" /\ b.request = c.request /\ b.rows = c.rows /\ b.kind = c.kind
          /\ b.next = c.next + 1 /\ b.created = c.created \cup {Row(t)}
      BY <1>1 DEF TypeOK, Batch
    <3>2. batch' = [batch EXCEPT ![t] = b] /\ UNCHANGED <<owner, report, begun>>
      BY <1>6, <2>3 DEF Insert
    <3>3. \A u \in Threads : u # t => Row(t) \notin batch[u].created
      BY <1>6 DEF Insert, WaitsFor
    <3>4. \A i \in DOMAIN c.rows : i < c.next + 1 =>
            \/ c.rows[i] = Invalid \/ Stored(c.rows[i])
            \/ c.rows[i] \in c.created \cup {Row(t)}
      BY <1>1, <1>2, <2>1 DEF Row
    <3> HIDE DEF b
    <3>5. \A i \in DOMAIN b.rows : i < b.next =>
            b.rows[i] = Invalid \/ Stored(b.rows[i]) \/ b.rows[i] \in b.created
      BY <3>1, <3>4
    <3>6. b.next = 1 => b.created = {}
      BY <1>1, <3>1
    <3>7. \A d \in b.created :
            ~Stored(d) /\ \A u \in Threads : u # t => d \notin batch[u].created
      BY <1>1, <2>3, <3>1, <3>3
    <3> QED
      BY <2>1, <3>1, <3>2, <3>5, <3>6, <3>7, BatchInv
  <2> QED
    BY <2>2, <2>3
<1>7. CASE Abort(t)
  <2>1. Serving(t) /\ Refuse(t, "unavailable")
    BY <1>7 DEF Abort, Deadlocked, WaitsFor, Serving
  <2> QED
    BY <2>1, RefuseInv
<1>8. CASE Commit(t)
  BY <1>8, CommitInv
<1> QED
  BY <1>3, <1>4, <1>5, <1>6, <1>7, <1>8 DEF Step

\* A request arrives with a number of its own and nothing inserted.
LEMMA BeginInv ==
  ASSUME IntakeInv, NEW t \in Threads, NEW kind \in Kinds, NEW rows \in Lists,
         Begin(t, kind, rows)
  PROVE  PendingInv' /\ CreatedInv' /\ PassedInv' /\ ReportHolds'
<1> DEFINE b == [pc |-> "row", request |-> begun + 1, kind |-> kind, rows |-> rows,
                 next |-> 1, created |-> {}]
<1>1. /\ b.pc # "idle" /\ b.request = begun + 1 /\ b.rows = rows /\ b.kind = kind
      /\ b.next = 1 /\ b.created = {}
  OBVIOUS
<1>2. /\ batch'[t] = b /\ \A u \in Threads : u # t => batch'[u] = batch[u]
      /\ begun' = begun + 1 /\ begun \in Nat /\ begun + 1 \in Requests
      /\ UNCHANGED <<owner, report>> /\ batch[t].pc = "idle"
  BY IntakeAssumption DEF Begin, IntakeInv, TypeOK, Requests
<1> HIDE DEF b
<1>3. PendingInv'
  <2>1. report[begun + 1] = None /\ {d \in Domains : owner[d] = begun + 1} = {}
    BY <1>2 DEF IntakeInv, PendingInv, StoredBy
  <2>2. \A u \in Threads : u # t /\ Serving(u) =>
          /\ batch[u].request \in Nat /\ batch[u].request <= begun
          /\ report[batch[u].request] = None
          /\ {d \in Domains : owner[d] = batch[u].request} = {}
    BY Fields DEF IntakeInv, PendingInv, StoredBy, Serving, Requests
  <2>3. ASSUME NEW u \in Threads, batch'[u].pc # "idle"
        PROVE  /\ batch'[u].request <= begun' /\ report'[batch'[u].request] = None
               /\ {d \in Domains : owner'[d] = batch'[u].request} = {}
    BY <1>1, <1>2, <2>1, <2>2, <2>3 DEF Serving
  <2>4. ASSUME NEW u \in Threads, NEW w \in Threads, batch'[u].pc # "idle",
               batch'[w].pc # "idle", batch'[u].request = batch'[w].request
        PROVE  u = w
    BY <1>1, <1>2, <2>2, <2>4 DEF Serving, IntakeInv, PendingInv
  <2>5. ASSUME NEW r \in Requests, r > begun'
        PROVE  report'[r] = None /\ {d \in Domains : owner'[d] = r} = {}
    BY <1>2, <2>5 DEF IntakeInv, PendingInv, StoredBy, Requests
  <2> QED
    BY <2>3, <2>4, <2>5 DEF PendingInv, Serving, StoredBy
<1>4. CreatedInv'
  BY <1>1, <1>2 DEF CreatedInv, IntakeInv, Serving, Stored
<1>5. PassedInv'
  <2>1. DOMAIN rows = 1..Len(rows) /\ (kind = "create" => Len(rows) = 1)
    BY IntakeAssumption DEF Begin
  <2>2. \A i \in DOMAIN rows : ~(i < 1)
    BY <2>1
  <2>3. ASSUME NEW u \in Threads, batch'[u].pc # "idle"
        PROVE  /\ \A i \in DOMAIN batch'[u].rows : i < batch'[u].next =>
                    \/ batch'[u].rows[i] = Invalid
                    \/ owner[batch'[u].rows[i]] # 0
                    \/ batch'[u].rows[i] \in batch'[u].created
               /\ batch'[u].kind = "create" => Len(batch'[u].rows) = 1
               /\ batch'[u].next = 1 => batch'[u].created = {}
    <3>1. CASE u = t
      BY <1>1, <1>2, <2>1, <2>2, <3>1
    <3>2. CASE u # t
      BY <1>2, <2>3, <3>2 DEF IntakeInv, PassedInv, Serving, Stored
    <3> QED
      BY <3>1, <3>2
  <2> QED
    BY <1>2, <2>3 DEF PassedInv, Serving, Stored
<1>6. ReportHolds'
  BY <1>2 DEF ReportHolds, IntakeInv, Stored, StoredBy
<1> QED
  BY <1>3, <1>4, <1>5, <1>6

\* An answer tells the truth about what is stored, for any domains and lists,
\* and any number of requests that overlap.
THEOREM ReportTheorem == Spec => []ReportHolds
<1> DEFINE Inv == PendingInv /\ CreatedInv /\ PassedInv /\ ReportHolds
<1>1. Init => Inv
  BY IntakeAssumption
     DEF Init, PendingInv, CreatedInv, PassedInv, ReportHolds, Idle, Serving, Stored, StoredBy,
         Requests
<1>2. TypeOK /\ Inv /\ [Next]_vars => Inv'
  <2> SUFFICES ASSUME IntakeInv, [Next]_vars PROVE Inv'
    BY DEF IntakeInv
  <2>1. ASSUME NEW t \in Threads, Abandon(t) PROVE Inv'
    <3>1. batch' = [batch EXCEPT ![t] = Idle] /\ UNCHANGED <<owner, report, begun>> /\ Serving(t)
      BY <2>1 DEF Abandon, Serving
    <3>2. Idle.created = {}
      BY DEF Idle
    <3> QED
      BY <3>1, <3>2, BatchInv
  <2>2. CASE UNCHANGED vars
    BY <2>2 DEF vars, PendingInv, CreatedInv, PassedInv, ReportHolds, IntakeInv, Serving,
                Stored, StoredBy
  <2> QED
    BY <2>1, <2>2, StepInv, BeginInv DEF Next
<1> QED
  BY TypeCorrect, <1>1, <1>2, PTL DEF Spec
=============================================================================
