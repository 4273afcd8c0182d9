--------------------------- MODULE ProposalsProofs ---------------------------
(***************************************************************************)
(* Proofs about Proposals: type correctness, contiguous versions, a        *)
(* completed analysis under every proposal, audited approvals, share links *)
(* that open, and the implementation of VersionHistory.                    *)
(***************************************************************************)
EXTENDS Proposals, TLAPS

\* What Written leaves in each column of the row.
LEMMA WrittenRow ==
  ASSUME NEW c, NEW stored \in Row, c.loaded \in Row, c.assigned \in Row
  PROVE  LET w == Written(c, stored)
             flushed(old, loaded, new) == IF new = loaded THEN old ELSE new
         IN /\ w \in Row
            /\ w.prospect = flushed(stored.prospect, c.loaded.prospect, c.assigned.prospect)
            /\ w.version = flushed(stored.version, c.loaded.version, c.assigned.version)
            /\ w.analysis = flushed(stored.analysis, c.loaded.analysis, c.assigned.analysis)
            /\ w.status = flushed(stored.status, c.loaded.status, c.assigned.status)
            /\ w.approved_by = flushed(stored.approved_by, c.loaded.approved_by,
                                       c.assigned.approved_by)
            /\ w.reviewed_by = IF c.op = "approve" THEN c.assigned.reviewed_by
                               ELSE flushed(stored.reviewed_by, c.loaded.reviewed_by,
                                            c.assigned.reviewed_by)
            /\ w.link = IF c.op = "share" THEN c.assigned.link
                        ELSE flushed(stored.link, c.loaded.link, c.assigned.link)
<1> DEFINE f == Flushed(stored, c.loaded, c.assigned)
           w == Written(c, stored)
<1>1. DOMAIN stored = {"prospect", "version", "analysis", "status", "content",
                       "approved_by", "reviewed_by", "link"}
  BY DEF Row
<1>2. f = [prospect |-> f["prospect"], version |-> f["version"], analysis |-> f["analysis"],
           status |-> f["status"], content |-> f["content"],
           approved_by |-> f["approved_by"], reviewed_by |-> f["reviewed_by"],
           link |-> f["link"]]
  BY <1>1 DEF Flushed
<1>3. f \in Row
  BY <1>1, <1>2 DEF Flushed, Row
<1>4. w \in Row
  <2>1. c.assigned.reviewed_by \in Subjects \cup {None} /\ c.assigned.link \in Link \cup {None}
    BY DEF Row
  <2>2. \A g \in Row, subject \in Subjects \cup {None} : [g EXCEPT !.reviewed_by = subject] \in Row
    BY DEF Row
  <2>3. \A g \in Row, link \in Link \cup {None} : [g EXCEPT !.link = link] \in Row
    BY DEF Row
  <2> DEFINE g == [f EXCEPT !.reviewed_by = IF c.op = "approve" THEN c.assigned.reviewed_by ELSE @]
  <2>5. f.reviewed_by \in Subjects \cup {None}
    BY <1>3 DEF Row
  <2>6. g \in Row
    <3> HIDE DEF f
    <3> QED
      BY <1>3, <2>1, <2>2, <2>5
  <2>7. g.link \in Link \cup {None} /\ w = [g EXCEPT !.link = IF c.op = "share" THEN c.assigned.link ELSE @]
    BY <2>6 DEF Row, Written
  <2> HIDE DEF f, g, w
  <2> QED
    BY <2>1, <2>3, <2>6, <2>7
<1> HIDE DEF f, w
<1>5. w = [f EXCEPT !.reviewed_by = IF c.op = "approve" THEN c.assigned.reviewed_by ELSE @,
                    !.link        = IF c.op = "share" THEN c.assigned.link ELSE @]
  BY DEF w, f, Written
<1>6. /\ w.prospect = f.prospect /\ w.version = f.version /\ w.analysis = f.analysis
      /\ w.status = f.status /\ w.approved_by = f.approved_by
      /\ w.reviewed_by = IF c.op = "approve" THEN c.assigned.reviewed_by ELSE f.reviewed_by
      /\ w.link = IF c.op = "share" THEN c.assigned.link ELSE f.link
  BY <1>3, <1>5 DEF Row
<1>7. \A x \in DOMAIN stored : f[x] = IF c.assigned[x] = c.loaded[x] THEN stored[x] ELSE c.assigned[x]
  BY DEF f, Flushed
<1> QED
  BY <1>1, <1>4, <1>6, <1>7 DEF w
-----------------------------------------------------------------------------
(* Types *)

\* What the kind of a request says about its fields.
LEMMA CallFields ==
  ASSUME TypeOK, NEW t \in Threads
  PROVE  /\ call[t].op = "analyse" =>
              call[t].prospect \in Prospects /\ call[t].number \in AnalysisNos
         /\ call[t].op = "generate" => call[t].row \in Row
         /\ call[t].op \in {"update", "approve", "share"} =>
              /\ call[t].id \in Ids
              /\ call[t].loaded \in Row /\ call[t].assigned \in Row
  BY DEF TypeOK, Call, Idle

\* A request that begins with a well-typed record leaves the types alone.
LEMMA BeginType ==
  ASSUME TypeOK, NEW t \in Threads, NEW request \in Call, Begin(t, request),
         begun' \in 0..MaxAnalyses
  PROVE  TypeOK'
<1>1. left' \in 0..MaxRequests
  BY ProposalsAssumption DEF TypeOK, Begin
<1>2. call' \in [Threads -> Call]
  BY DEF TypeOK, Begin
<1> QED
  BY <1>1, <1>2 DEF TypeOK, Begin, Database

\* The rows an edit loads and assigns are rows.
LEMMA EditType ==
  ASSUME NEW op \in {"update", "approve", "share"}, NEW p \in Ids, proposal[p] \in Row,
         NEW assigned \in Row
  PROVE  Edit(op, p, assigned) \in Call
  BY DEF Edit, Call

\* The arrival of any request keeps the types.
LEMMA RequestType ==
  ASSUME TypeOK, NEW t \in Threads, Request(t)
  PROVE  TypeOK'
<1>1. ASSUME NEW q \in Prospects, BeginAnalysis(t, q) PROVE TypeOK'
  <2>1. begun' \in 1..MaxAnalyses
    BY <1>1, ProposalsAssumption DEF BeginAnalysis, TypeOK
  <2>2. [op |-> "analyse", prospect |-> q, number |-> begun'] \in Call
    BY <2>1 DEF Call, AnalysisNos
  <2> QED
    BY <1>1, <2>1, <2>2, BeginType, ProposalsAssumption DEF BeginAnalysis
<1>2. ASSUME NEW q \in Prospects, BeginGenerate(t, q) PROVE TypeOK'
  <2>1. PICK n \in AnalysisNos, v \in 0..MaxVersion :
          /\ v < MaxVersion
          /\ Begin(t, [op |-> "generate",
                       row |-> [prospect |-> q, version |-> v + 1, analysis |-> n,
                                status |-> "draft", content |-> Template,
                                approved_by |-> None, reviewed_by |-> None, link |-> None]])
    BY <1>2 DEF BeginGenerate
  <2>2. v + 1 \in 1..MaxVersion
    BY <2>1, ProposalsAssumption
  <2>3. [prospect |-> q, version |-> v + 1, analysis |-> n, status |-> "draft",
         content |-> Template, approved_by |-> None, reviewed_by |-> None,
         link |-> None] \in Row
    BY <2>2, ProposalsAssumption DEF Row
  <2>4. begun' \in 0..MaxAnalyses
    BY <1>2 DEF BeginGenerate, TypeOK
  <2> QED
    BY <2>1, <2>3, <2>4, BeginType DEF Call
<1>3. ASSUME NEW p \in Present, NEW content \in Contents, BeginUpdate(t, p, content)
      PROVE  TypeOK'
  <2>1. p \in Ids /\ proposal[p] \in Row /\ begun' \in 0..MaxAnalyses
    BY <1>3 DEF Present, TypeOK, BeginUpdate
  <2>2. [proposal[p] EXCEPT !.content = content] \in Row
    BY <2>1 DEF Row
  <2> QED
    BY <1>3, <2>1, <2>2, EditType, BeginType DEF BeginUpdate
<1>4. ASSUME NEW p \in Present, NEW subject \in Subjects, BeginApprove(t, p, subject)
      PROVE  TypeOK'
  <2>1. p \in Ids /\ proposal[p] \in Row /\ begun' \in 0..MaxAnalyses
    BY <1>4 DEF Present, TypeOK, BeginApprove
  <2>2. [proposal[p] EXCEPT !.status = "approved", !.approved_by = subject,
                            !.reviewed_by = subject] \in Row
    BY <2>1 DEF Row
  <2> QED
    BY <1>4, <2>1, <2>2, EditType, BeginType DEF BeginApprove
<1>5. ASSUME NEW p \in Present, NEW days \in Lifetimes, BeginShare(t, p, days)
      PROVE  TypeOK'
  <2>1. p \in Ids /\ proposal[p] \in Row /\ begun' \in 0..MaxAnalyses
    BY <1>5 DEF Present, TypeOK, BeginShare
  <2>2. PICK token \in Tokens :
          Begin(t, Edit("share", p, [proposal[p] EXCEPT
                                       !.link = [token |-> token, expires |-> now + days]]))
    BY <1>5 DEF BeginShare
  <2>3. now + days \in Nat
    BY ProposalsAssumption DEF TypeOK
  <2>4. [proposal[p] EXCEPT !.link = [token |-> token, expires |-> now + days]] \in Row
    BY <2>1, <2>3 DEF Row, Link
  <2> QED
    BY <2>1, <2>2, <2>4, EditType, BeginType
<1> QED
  BY <1>1, <1>2, <1>3, <1>4, <1>5 DEF Request

IsEdit(c) == c.op \in {"update", "approve", "share"}

\* What the begin of an edit establishes, and every later step keeps: the row
\* exists, and each handler assigns its own columns only.
EditInv(c) ==
  /\ c.id \in Present
  /\ c.assigned.prospect = c.loaded.prospect
  /\ c.assigned.version = c.loaded.version
  /\ c.assigned.analysis = c.loaded.analysis
  /\ c.loaded.status = "approved" => proposal[c.id].status = "approved"
  /\ c.op = "approve" => /\ c.assigned.status = "approved"
                         /\ c.assigned.approved_by \in Subjects
                         /\ c.assigned.reviewed_by = c.assigned.approved_by
  /\ c.op # "approve" => /\ c.assigned.status = c.loaded.status
                         /\ c.assigned.approved_by = c.loaded.approved_by
                         /\ c.assigned.reviewed_by = c.loaded.reviewed_by
  /\ c.op = "share" => c.assigned.link # None /\ c.loaded.status = "approved"
  /\ c.op # "share" => c.assigned.link = c.loaded.link

EditsInv == \A t \in Threads : IsEdit(call[t]) => EditInv(call[t])

\* The one row a commit of an edit changes, column by column.
LEMMA EditedRow ==
  ASSUME TypeOK, EditsInv, NEW t \in Threads, CommitEdit(t)
  PROVE  LET c   == call[t]
             old == proposal[c.id]
             new == proposal'[c.id]
         IN /\ c.id \in Ids /\ old \in Row /\ new \in Row
            /\ proposal' = [proposal EXCEPT ![c.id] = new]
            /\ new.prospect = old.prospect /\ new.version = old.version
            /\ new.analysis = old.analysis
            /\ new.status = IF c.op = "approve" THEN "approved" ELSE old.status
            /\ new.approved_by = IF c.assigned.approved_by = c.loaded.approved_by
                                 THEN old.approved_by ELSE c.assigned.approved_by
            /\ new.reviewed_by = IF c.op = "approve" THEN c.assigned.reviewed_by
                                 ELSE old.reviewed_by
            /\ new.link = IF c.op = "share" THEN c.assigned.link ELSE old.link
<1> DEFINE c   == call[t]
           old == proposal[c.id]
           new == proposal'[c.id]
           w   == Written(c, old)
<1>1. IsEdit(c) /\ c.id \in Ids /\ c.loaded \in Row /\ c.assigned \in Row
  BY CallFields DEF CommitEdit, IsEdit
<1>2. EditInv(c) /\ old \in Row
  BY <1>1 DEF EditsInv, EditInv, Present, TypeOK
<1>3. new = w /\ proposal' = [proposal EXCEPT ![c.id] = new]
  BY <1>1 DEF CommitEdit, TypeOK
<1>4. c.op = "approve" =>
        (IF c.assigned.status = c.loaded.status THEN old.status ELSE c.assigned.status)
        = "approved"
  BY <1>2 DEF EditInv
<1>5. /\ w \in Row
      /\ w.prospect = old.prospect /\ w.version = old.version /\ w.analysis = old.analysis
      /\ w.status = IF c.assigned.status = c.loaded.status THEN old.status ELSE c.assigned.status
      /\ w.approved_by = IF c.assigned.approved_by = c.loaded.approved_by
                         THEN old.approved_by ELSE c.assigned.approved_by
      /\ w.reviewed_by = IF c.op = "approve" THEN c.assigned.reviewed_by ELSE old.reviewed_by
      /\ w.link = IF c.op = "share" THEN c.assigned.link ELSE old.link
  BY <1>1, <1>2, WrittenRow DEF EditInv
<1>6. w.status = IF c.op = "approve" THEN "approved" ELSE old.status
  BY <1>2, <1>4, <1>5 DEF EditInv
<1> QED
  BY <1>1, <1>2, <1>3, <1>5, <1>6

\* Every commit keeps the types.
LEMMA CommitType ==
  ASSUME TypeOK, EditsInv, NEW t \in Threads, Commit(t)
  PROVE  TypeOK'
<1>1. call' \in [Threads -> Call] /\ begun' = begun /\ now' = now /\ left' = left
  BY DEF TypeOK, Commit, CommitAnalysis, CommitGenerate, CommitEdit, End, Call
<1>2. CASE CommitAnalysis(t)
  <2>1. analyses' \in [AnalysisNos -> Analysis \cup {None}]
    BY <1>2, CallFields DEF TypeOK, CommitAnalysis, Analysis
  <2> QED
    BY <1>1, <1>2, <2>1 DEF TypeOK, CommitAnalysis
<1>3. CASE CommitGenerate(t)
  <2>1. proposal' \in [Ids -> Row \cup {None}]
    BY <1>3, CallFields DEF TypeOK, CommitGenerate
  <2> QED
    BY <1>1, <1>3, <2>1 DEF TypeOK, CommitGenerate
<1>4. CASE CommitEdit(t)
  <2> DEFINE c == call[t]
  <2>1. proposal' \in [Ids -> Row \cup {None}]
    BY <1>4, EditedRow DEF TypeOK
  <2>2. c.id \in Ids /\ c.assigned \in Row /\ (IsEdit(c) => EditInv(c))
    BY <1>4, CallFields DEF CommitEdit, EditsInv
  <2>3. c.op = "approve" => c.assigned.approved_by \in Subjects
    BY <2>2 DEF IsEdit, EditInv
  <2>4. audit' \in SUBSET (Ids \X Subjects)
    BY <1>4, <2>2, <2>3 DEF CommitEdit, Audited, TypeOK
  <2>5. c.op = "share" => c.assigned.link \in Link
    BY <2>2 DEF IsEdit, EditInv, Row
  <2>6. granted' \in [Ids -> Link \cup {None}]
    BY <1>4, <2>2, <2>5 DEF CommitEdit, TypeOK
  <2> QED
    BY <1>1, <1>4, <2>1, <2>4, <2>6 DEF TypeOK, CommitEdit
<1> QED
  BY <1>2, <1>3, <1>4 DEF Commit

\* Every step keeps the types.
LEMMA TypeStep ==
  ASSUME TypeOK, EditsInv, [Next]_vars
  PROVE  TypeOK'
<1>1. ASSUME NEW t \in Threads, Abandon(t) PROVE TypeOK'
  BY <1>1 DEF Abandon, End, Database, TypeOK, Call
<1>2. CASE NextDay
  BY <1>2, ProposalsAssumption DEF NextDay, Database, TypeOK
<1>3. CASE UNCHANGED vars
  BY <1>3 DEF vars, TypeOK
<1> QED
  BY <1>1, <1>2, <1>3, RequestType, CommitType DEF Next

\* Rows stay, keep what names them, and stay approved.
LEMMA RowsStay ==
  ASSUME TypeOK, EditsInv, [Next]_vars, NEW p \in Present
  PROVE  /\ p \in Present'
         /\ proposal'[p].prospect = proposal[p].prospect
         /\ proposal'[p].version = proposal[p].version
         /\ proposal'[p].analysis = proposal[p].analysis
         /\ proposal[p].status = "approved" => proposal'[p].status = "approved"
<1>1. CASE UNCHANGED proposal
  BY <1>1 DEF Present
<1>2. ASSUME NEW t \in Threads, CommitGenerate(t) PROVE proposal'[p] = proposal[p]
  BY <1>2 DEF CommitGenerate, TypeOK, Present
<1>3. ASSUME NEW t \in Threads, CommitEdit(t)
      PROVE  /\ proposal'[p] # None
             /\ proposal'[p].prospect = proposal[p].prospect
             /\ proposal'[p].version = proposal[p].version
             /\ proposal'[p].analysis = proposal[p].analysis
             /\ proposal[p].status = "approved" => proposal'[p].status = "approved"
  <2>1. proposal' = [proposal EXCEPT ![call[t].id] = proposal'[call[t].id]]
    BY <1>3, EditedRow
  <2>2. CASE p = call[t].id
    BY <1>3, <2>2, EditedRow, ProposalsAssumption
  <2>3. CASE p # call[t].id
    BY <2>1, <2>3 DEF TypeOK, Present
  <2> QED
    BY <2>2, <2>3
<1>4. ASSUME NEW t \in Threads, Request(t) \/ CommitAnalysis(t) \/ Abandon(t)
      PROVE  UNCHANGED proposal
  BY <1>4 DEF Request, BeginAnalysis, BeginGenerate, BeginUpdate, BeginApprove, BeginShare,
              Begin, CommitAnalysis, Abandon, Database
<1>5. CASE NextDay \/ UNCHANGED vars
  BY <1>1, <1>5 DEF NextDay, Database, vars
<1> QED
  BY <1>1, <1>2, <1>3, <1>4, <1>5 DEF Next, Commit, Present
\* An edit in flight stays what it was while other threads step.
LEMMA EditStays ==
  ASSUME TypeOK, EditsInv, [Next]_vars, NEW t \in Threads,
         IsEdit(call'[t]), call'[t] = call[t]
  PROVE  EditInv(call[t])'
<1> DEFINE c == call[t]
<1>1. IsEdit(c) /\ EditInv(c) /\ c.id \in Present
  BY DEF EditsInv, EditInv, IsEdit
<1>2. c.id \in Present' /\ (proposal[c.id].status = "approved" => proposal'[c.id].status = "approved")
  BY <1>1, RowsStay
<1> QED
  BY <1>1, <1>2 DEF EditInv

\* The thread that begins is the only one whose request changes.
LEMMA BeginEdits ==
  ASSUME TypeOK, EditsInv, [Next]_vars, NEW t \in Threads, NEW request,
         Begin(t, request), IsEdit(request) => EditInv(request)'
  PROVE  EditsInv'
<1>1. call' = [call EXCEPT ![t] = request]
  BY DEF Begin
<1>2. ASSUME NEW u \in Threads, IsEdit(call'[u]) PROVE EditInv(call[u])'
  <2>1. CASE u = t
    BY <1>1, <1>2, <2>1 DEF TypeOK, EditInv
  <2>2. CASE u # t
    BY <1>1, <1>2, <2>2, EditStays DEF TypeOK
  <2> QED
    BY <2>1, <2>2
<1> QED
  BY <1>2 DEF EditsInv, IsEdit

\* The arrival of a request leaves every edit in flight as it was loaded.
LEMMA RequestEdits ==
  ASSUME TypeOK, EditsInv, [Next]_vars, NEW t \in Threads, Request(t)
  PROVE  EditsInv'
<1>0. /\ Present \subseteq Ids /\ \A p \in Present : proposal[p] \in Row
      /\ UNCHANGED proposal
  BY DEF TypeOK, Present, Request, BeginAnalysis, BeginGenerate, BeginUpdate, BeginApprove,
         BeginShare, Begin, Database
<1>1. ASSUME NEW q \in Prospects, BeginAnalysis(t, q) PROVE EditsInv'
  BY <1>1, BeginEdits DEF BeginAnalysis, IsEdit
<1>2. ASSUME NEW q \in Prospects, BeginGenerate(t, q) PROVE EditsInv'
  BY <1>2, BeginEdits DEF BeginGenerate, IsEdit
<1>3. ASSUME NEW p \in Present, NEW content \in Contents, BeginUpdate(t, p, content)
      PROVE  EditsInv'
  <2>1. PICK c : c = Edit("update", p, [proposal[p] EXCEPT !.content = content])
    OBVIOUS
  <2>2. EditInv(c)'
    BY <1>0, <1>3, <2>1 DEF EditInv, Edit, BeginUpdate, Present, Row
  <2> QED
    BY <1>3, <2>1, <2>2, BeginEdits DEF BeginUpdate
<1>4. ASSUME NEW p \in Present, NEW subject \in Subjects, BeginApprove(t, p, subject)
      PROVE  EditsInv'
  <2>1. PICK c : c = Edit("approve", p, [proposal[p] EXCEPT !.status = "approved",
                            !.approved_by = subject, !.reviewed_by = subject])
    OBVIOUS
  <2>2. EditInv(c)'
    BY <1>0, <1>4, <2>1 DEF EditInv, Edit, BeginApprove, Present, Row
  <2> QED
    BY <1>4, <2>1, <2>2, BeginEdits DEF BeginApprove
<1>5. ASSUME NEW p \in Present, NEW days \in Lifetimes, BeginShare(t, p, days)
      PROVE  EditsInv'
  <2>1. PICK token \in Tokens :
          Begin(t, Edit("share", p, [proposal[p] EXCEPT
                                       !.link = [token |-> token, expires |-> now + days]]))
    BY <1>5 DEF BeginShare
  <2>2. PICK link : link = [token |-> token, expires |-> now + days]
    OBVIOUS
  <2>3. link # None
    BY <2>2, ProposalsAssumption DEF TypeOK, Link
  <2>4. PICK c : c = Edit("share", p, [proposal[p] EXCEPT !.link = link])
    OBVIOUS
  <2>5. EditInv(c)'
    BY <1>0, <1>5, <2>3, <2>4 DEF EditInv, Edit, BeginShare, Present, Row
  <2> QED
    BY <2>1, <2>2, <2>4, <2>5, BeginEdits
<1> QED
  BY <1>1, <1>2, <1>3, <1>4, <1>5 DEF Request

\* Every step keeps what is known of the edits in flight.
LEMMA EditsStep ==
  ASSUME TypeOK, EditsInv, [Next]_vars
  PROVE  EditsInv'
<1>1. ASSUME NEW t \in Threads, End(t) PROVE EditsInv'
  <2>1. ASSUME NEW u \in Threads, IsEdit(call'[u]) PROVE EditInv(call[u])'
    <3>1. u # t /\ call'[u] = call[u]
      BY <1>1, <2>1 DEF End, TypeOK, Idle, IsEdit
    <3> QED
      BY <2>1, <3>1, EditStays
  <2> QED
    BY <2>1 DEF EditsInv, IsEdit
<1>2. CASE UNCHANGED call
  BY <1>2, EditStays DEF EditsInv, IsEdit
<1>3. CASE NextDay \/ UNCHANGED vars
  BY <1>2, <1>3 DEF NextDay, vars
<1>4. ASSUME NEW t \in Threads, Commit(t) \/ Abandon(t) PROVE End(t)
  BY <1>4 DEF Commit, CommitAnalysis, CommitGenerate, CommitEdit, Abandon
<1> QED
  BY <1>1, <1>3, <1>4, RequestEdits DEF Next

\* The initial states have their types, and no edit is in flight.
LEMMA InitInv == Init => TypeOK /\ EditsInv
  BY ProposalsAssumption DEF Init, TypeOK, EditsInv, IsEdit, Idle, Call

\* The variables keep their types: whatever is requested, retried or
\* abandoned, no analysis is committed as "running" and no row loses a column.
THEOREM TypeCorrect == Spec => []TypeOK
<1>1. TypeOK /\ EditsInv /\ [Next]_vars => TypeOK' /\ EditsInv'
  BY TypeStep, EditsStep
<1> QED
  BY InitInv, <1>1, PTL DEF Spec

\* What an edit in flight loaded still names the same prospect and version.
LEMMA EditsCorrect == Spec => []EditsInv
<1>1. TypeOK /\ EditsInv /\ [Next]_vars => TypeOK' /\ EditsInv'
  BY TypeStep, EditsStep
<1> QED
  BY InitInv, <1>1, PTL DEF Spec
-----------------------------------------------------------------------------
(* Versions and analyses *)

\* An analysis being run has a number of its own, and its row is not there yet.
PendingInv ==
  /\ \A t \in Threads : call[t].op = "analyse" =>
       call[t].number <= begun /\ analyses[call[t].number] = None
  /\ \A t, u \in Threads :
       call[t].op = "analyse" /\ call[u].op = "analyse" /\ call[t].number = call[u].number
       => t = u
  /\ \A n \in AnalysisNos : n > begun => analyses[n] = None

\* The row a generate is about to insert is a draft, rests on a completed
\* analysis, and the version before its own exists.
Sound(row) ==
  /\ row.status = "draft" /\ row.approved_by = None /\ row.reviewed_by = None
  /\ row.link = None
  /\ IsComplete(row.prospect, row.analysis)
  /\ row.version = 1 \/ row.version - 1 \in VersionsOf(row.prospect)

GenerateInv == \A t \in Threads : call[t].op = "generate" => Sound(call[t].row)

\* Every step leaves the requests of all threads alone, or those of all but one.
LEMMA PendingStep ==
  ASSUME TypeOK, PendingInv, [Next]_vars
  PROVE  /\ PendingInv'
         /\ \A q \in Prospects, n \in AnalysisNos : IsComplete(q, n) => IsComplete(q, n)'
<1> DEFINE Kept == \A q \in Prospects, n \in AnalysisNos : IsComplete(q, n) => IsComplete(q, n)'
<1>1. ASSUME NEW t \in Threads, CommitAnalysis(t) PROVE PendingInv' /\ Kept
  <2>1. call[t].number \in AnalysisNos /\ call[t].number <= begun /\ begun \in Nat
    BY <1>1, CallFields DEF CommitAnalysis, PendingInv, TypeOK
  <2>2. /\ begun' = begun
        /\ \A u \in Threads : call'[u] = IF u = t THEN Idle ELSE call[u]
        /\ \A n \in AnalysisNos : n # call[t].number => analyses'[n] = analyses[n]
        /\ analyses[call[t].number] = None
    BY <1>1, <2>1 DEF CommitAnalysis, End, TypeOK, PendingInv
  <2>3. \A u \in Threads : call[u].op = "analyse" => call[u].number \in AnalysisNos
    BY CallFields
  <2>4. call[t].op = "analyse"
    BY <1>1 DEF CommitAnalysis
  <2>5. Kept
    BY <2>2 DEF IsComplete
  <2>6. PendingInv'
    BY <2>1, <2>2, <2>3, <2>4 DEF PendingInv, Idle, AnalysisNos
  <2> QED
    BY <2>5, <2>6
<1>2. ASSUME NEW t \in Threads, NEW q \in Prospects, BeginAnalysis(t, q)
      PROVE  PendingInv' /\ Kept
  <2>1. /\ begun \in Nat /\ begun' = begun + 1 /\ analyses' = analyses
        /\ call' = [call EXCEPT ![t] = [op |-> "analyse", prospect |-> q, number |-> begun']]
    BY <1>2 DEF BeginAnalysis, Begin, Database, TypeOK
  <2>2. \A u \in Threads : call'[u] = IF u = t THEN [op |-> "analyse", prospect |-> q, number |-> begun + 1]
                                     ELSE call[u]
    BY <2>1 DEF TypeOK
  <2>3. \A u \in Threads : call[u].op = "analyse" => call[u].number \in Nat
    BY CallFields DEF AnalysisNos
  <2>4. begun + 1 \in AnalysisNos
    BY <1>2, <2>1, ProposalsAssumption DEF BeginAnalysis, AnalysisNos, TypeOK
  <2>5. PendingInv'
    BY <2>1, <2>2, <2>3, <2>4 DEF PendingInv, AnalysisNos
  <2> QED
    BY <2>1, <2>5 DEF IsComplete
<1>3. ASSUME NEW t \in Threads, UNCHANGED <<analyses, begun>>,
             \A u \in Threads : u # t => call'[u] = call[u], call'[t].op # "analyse"
      PROVE  PendingInv' /\ Kept
  <2>1. \A u \in Threads : call'[u].op = "analyse" => u # t /\ call'[u] = call[u]
    BY <1>3
  <2> QED
    BY <1>3, <2>1 DEF PendingInv, IsComplete
<1>4. CASE UNCHANGED <<analyses, begun, call>>
  BY <1>4 DEF PendingInv, IsComplete
<1>5. CASE NextDay \/ UNCHANGED vars
  BY <1>4, <1>5 DEF NextDay, Database, vars
<1>6. ASSUME NEW t \in Threads, CommitGenerate(t) \/ CommitEdit(t) \/ Abandon(t)
      PROVE  PendingInv' /\ Kept
  BY <1>3, <1>6 DEF CommitGenerate, CommitEdit, Abandon, End, Database, TypeOK, Idle
<1>7. ASSUME NEW t \in Threads, NEW q \in Prospects, BeginGenerate(t, q)
      PROVE  PendingInv' /\ Kept
  BY <1>3, <1>7 DEF BeginGenerate, Begin, Database, TypeOK
<1>8. ASSUME NEW t \in Threads, NEW p \in Present,
             \/ \E content \in Contents : BeginUpdate(t, p, content)
             \/ \E subject \in Subjects : BeginApprove(t, p, subject)
             \/ \E days \in Lifetimes : BeginShare(t, p, days)
      PROVE  PendingInv' /\ Kept
  <2>0. PICK op \in {"update", "approve", "share"} :
          \E assigned : Begin(t, Edit(op, p, assigned)) /\ UNCHANGED begun
    BY <1>8 DEF BeginUpdate, BeginApprove, BeginShare
  <2>1. PICK assigned : Begin(t, Edit(op, p, assigned)) /\ UNCHANGED begun
    BY <2>0
  <2>2. Edit(op, p, assigned).op # "analyse"
    BY DEF Edit
  <2> QED
    BY <1>3, <2>1, <2>2 DEF Begin, Database, TypeOK
<1> QED
  BY <1>1, <1>2, <1>5, <1>6, <1>7, <1>8 DEF Next, Request, Commit

\* Versions are never taken back.
LEMMA VersionsGrow ==
  ASSUME TypeOK, EditsInv, [Next]_vars, NEW q
  PROVE  VersionsOf(q) \subseteq VersionsOf(q)'
  BY RowsStay DEF VersionsOf

\* A row about to be inserted stays sound while other rows are committed.
LEMMA SoundStays ==
  ASSUME TypeOK, EditsInv, PendingInv, [Next]_vars, NEW row \in Row, Sound(row)
  PROVE  Sound(row)'
<1>1. row.prospect \in Prospects /\ row.analysis \in AnalysisNos
  BY DEF Row
<1>2. IsComplete(row.prospect, row.analysis)'
  BY <1>1, PendingStep DEF Sound
<1> QED
  BY <1>2, VersionsGrow DEF Sound

\* Every step keeps the rows about to be inserted sound.
LEMMA GenerateStep ==
  ASSUME TypeOK, EditsInv, PendingInv, GenerateInv, [Next]_vars
  PROVE  GenerateInv'
<1>1. ASSUME NEW t \in Threads, call'[t] = call[t], call'[t].op = "generate"
      PROVE  Sound(call[t].row)'
  BY <1>1, CallFields, SoundStays DEF GenerateInv
<1>2. ASSUME NEW t \in Threads, NEW q \in Prospects, BeginGenerate(t, q)
      PROVE  GenerateInv'
  <2>1. PICK n \in AnalysisNos, asked \in BOOLEAN, v \in 0..MaxVersion :
       /\ IsChosen(q, n, asked) /\ IsCurrentMax(q, v) /\ v < MaxVersion
       /\ Begin(t, [op |-> "generate",
                    row |-> [prospect |-> q, version |-> v + 1, analysis |-> n,
                             status |-> "draft", content |-> Template,
                             approved_by |-> None, reviewed_by |-> None, link |-> None]])
    BY <1>2 DEF BeginGenerate
  <2>2. UNCHANGED <<analyses, proposal>>
    BY <2>1 DEF Begin, Database
  <2>3. /\ call'[t].row.prospect = q /\ call'[t].row.version = v + 1
        /\ call'[t].row.analysis = n
        /\ call'[t].row.status = "draft" /\ call'[t].row.approved_by = None
        /\ call'[t].row.reviewed_by = None /\ call'[t].row.link = None
    BY <2>1 DEF Begin, TypeOK
  <2>4. v + 1 = 1 \/ v + 1 - 1 \in VersionsOf(q)
    BY <2>1 DEF IsCurrentMax
  <2>5. IsComplete(q, n) /\ IsComplete(q, n)' /\ VersionsOf(q)' = VersionsOf(q)
    BY <2>1, <2>2 DEF IsChosen, IsComplete, VersionsOf, Present
  <2>6. Sound(call[t].row)'
    BY <2>3, <2>4, <2>5 DEF Sound
  <2>7. \A u \in Threads : u # t => call'[u] = call[u]
    BY <2>1 DEF Begin, TypeOK
  <2> QED
    BY <1>1, <2>6, <2>7 DEF GenerateInv
<1>3. ASSUME NEW t \in Threads, \A u \in Threads : u # t => call'[u] = call[u],
             call'[t].op # "generate"
      PROVE  GenerateInv'
  BY <1>1, <1>3 DEF GenerateInv
<1>4. CASE NextDay \/ UNCHANGED vars
  BY <1>1, <1>4 DEF NextDay, vars, GenerateInv
<1>5. ASSUME NEW t \in Threads, Commit(t) \/ Abandon(t) PROVE GenerateInv'
  BY <1>3, <1>5 DEF Commit, CommitAnalysis, CommitGenerate, CommitEdit, Abandon, End, TypeOK, Idle
<1>6. ASSUME NEW t \in Threads, NEW q \in Prospects, BeginAnalysis(t, q) PROVE GenerateInv'
  BY <1>3, <1>6 DEF BeginAnalysis, Begin, TypeOK
<1>7. ASSUME NEW t \in Threads, NEW p \in Present,
             \/ \E content \in Contents : BeginUpdate(t, p, content)
             \/ \E subject \in Subjects : BeginApprove(t, p, subject)
             \/ \E days \in Lifetimes : BeginShare(t, p, days)
      PROVE  GenerateInv'
  <2>0. PICK op \in {"update", "approve", "share"} : \E assigned : Begin(t, Edit(op, p, assigned))
    BY <1>7 DEF BeginUpdate, BeginApprove, BeginShare
  <2>1. PICK assigned : Begin(t, Edit(op, p, assigned))
    BY <2>0
  <2>2. Edit(op, p, assigned).op # "generate"
    BY DEF Edit
  <2> QED
    BY <1>3, <2>1, <2>2 DEF Begin, TypeOK
<1> QED
  BY <1>2, <1>4, <1>5, <1>6, <1>7 DEF Next, Request
\* Who changes website_proposals, and what comes with it.
LEMMA ProposalChange ==
  ASSUME [Next]_vars
  PROVE  \/ UNCHANGED <<proposal, audit, granted>>
         \/ \E t \in Threads : CommitGenerate(t) /\ UNCHANGED proposal
         \/ \E t \in Threads, p \in Ids \ Present :
              /\ call[t].op = "generate"
              /\ call[t].row.version \notin VersionsOf(call[t].row.prospect)
              /\ proposal' = [proposal EXCEPT ![p] = call[t].row]
              /\ UNCHANGED <<audit, granted>>
         \/ \E t \in Threads : CommitEdit(t)
<1>1. ASSUME NEW t \in Threads, CommitGenerate(t)
      PROVE  \/ UNCHANGED proposal
             \/ \E p \in Ids \ Present :
                  /\ call[t].op = "generate"
                  /\ call[t].row.version \notin VersionsOf(call[t].row.prospect)
                  /\ proposal' = [proposal EXCEPT ![p] = call[t].row]
                  /\ UNCHANGED <<audit, granted>>
  BY <1>1 DEF CommitGenerate
<1>2. ASSUME NEW t \in Threads, Request(t) \/ CommitAnalysis(t) \/ Abandon(t)
      PROVE  UNCHANGED <<proposal, audit, granted>>
  BY <1>2 DEF Request, BeginAnalysis, BeginGenerate, BeginUpdate, BeginApprove, BeginShare,
              Begin, CommitAnalysis, Abandon, Database
<1>3. CASE NextDay \/ UNCHANGED vars
  BY <1>3 DEF NextDay, Database, vars
<1> QED
  BY <1>1, <1>2, <1>3 DEF Next, Commit

RowsInv == TypeOK /\ EditsInv /\ PendingInv /\ GenerateInv

\* The initial states satisfy the invariant about rows and requests.
LEMMA RowsInductive == Init => RowsInv
<1>1. Init => PendingInv /\ GenerateInv
  BY DEF Init, PendingInv, GenerateInv, Idle
<1> QED
  BY <1>1, InitInv DEF RowsInv

\* Every step keeps the invariant about rows and requests.
LEMMA RowsStep == RowsInv /\ [Next]_vars => RowsInv'
  BY TypeStep, EditsStep, PendingStep, GenerateStep DEF RowsInv

\* The commit of an edit moves no row to another prospect or version.
LEMMA EditKeepsVersions ==
  ASSUME TypeOK, EditsInv, NEW t \in Threads, CommitEdit(t)
  PROVE  /\ Present' = Present
         /\ \A p \in Present : /\ proposal'[p].prospect = proposal[p].prospect
                               /\ proposal'[p].version = proposal[p].version
                               /\ proposal'[p].analysis = proposal[p].analysis
         /\ \A q : VersionsOf(q)' = VersionsOf(q)
<1> DEFINE i == call[t].id
<1>1. /\ i \in Ids /\ proposal[i] \in Row /\ proposal'[i] \in Row
      /\ proposal' = [proposal EXCEPT ![i] = proposal'[i]]
      /\ proposal'[i].prospect = proposal[i].prospect
      /\ proposal'[i].version = proposal[i].version
      /\ proposal'[i].analysis = proposal[i].analysis
  BY EditedRow
<1>2. \A p \in Ids : p # i => proposal'[p] = proposal[p]
  BY <1>1 DEF TypeOK
<1>3. proposal[i] # None /\ proposal'[i] # None
  BY <1>1, ProposalsAssumption
<1>4. Present' = Present
  BY <1>2, <1>3 DEF Present
<1>5. \A p \in Present : /\ proposal'[p].prospect = proposal[p].prospect
                        /\ proposal'[p].version = proposal[p].version
                        /\ proposal'[p].analysis = proposal[p].analysis
  BY <1>1, <1>2 DEF Present
<1> QED
  BY <1>4, <1>5 DEF VersionsOf

\* An insert adds one row, and one version to one prospect.
LEMMA InsertAddsVersion ==
  ASSUME TypeOK, NEW t \in Threads, call[t].op = "generate", NEW p \in Ids \ Present,
         proposal' = [proposal EXCEPT ![p] = call[t].row]
  PROVE  /\ Present' = Present \cup {p}
         /\ proposal'[p] = call[t].row /\ call[t].row \in Row
         /\ \A r \in Present : proposal'[r] = proposal[r]
         /\ \A q : VersionsOf(q)' = VersionsOf(q) \cup
                     (IF call[t].row.prospect = q THEN {call[t].row.version} ELSE {})
<1>1. call[t].row \in Row /\ call[t].row # None
  BY CallFields, ProposalsAssumption
<1>2. \A r \in Ids : proposal'[r] = IF r = p THEN call[t].row ELSE proposal[r]
  BY DEF TypeOK
<1>3. Present' = Present \cup {p}
  BY <1>1, <1>2 DEF Present
<1>4. \A r \in Present : r # p /\ proposal'[r] = proposal[r]
  BY <1>2 DEF Present
<1> QED
  BY <1>1, <1>2, <1>3, <1>4 DEF VersionsOf

\* Every step keeps the versions contiguous: an insert adds the successor of a
\* version that is still there.
LEMMA ContiguousStep ==
  ASSUME RowsInv, VersionsContiguous, [Next]_vars
  PROVE  VersionsContiguous'
<1> USE DEF RowsInv
<1>1. CASE UNCHANGED proposal
  BY <1>1 DEF VersionsContiguous, VersionsOf, Present
<1>2. ASSUME NEW t \in Threads, CommitEdit(t) PROVE VersionsContiguous'
  BY <1>2, EditKeepsVersions DEF VersionsContiguous
<1>3. ASSUME NEW t \in Threads, NEW p \in Ids \ Present, call[t].op = "generate",
             call[t].row.version \notin VersionsOf(call[t].row.prospect),
             proposal' = [proposal EXCEPT ![p] = call[t].row]
      PROVE  VersionsContiguous'
  <2> DEFINE row == call[t].row
  <2>1. /\ Present' = Present \cup {p} /\ proposal'[p] = row
        /\ \A r \in Present : proposal'[r] = proposal[r]
        /\ \A q : VersionsOf(q)' = VersionsOf(q) \cup
                    (IF row.prospect = q THEN {row.version} ELSE {})
    BY <1>3, InsertAddsVersion
  <2>2. \A r \in Present : proposal[r].prospect = row.prospect => proposal[r].version # row.version
    BY <1>3 DEF VersionsOf
  <2>3. row.version = 1 \/ row.version - 1 \in VersionsOf(row.prospect)
    BY <1>3 DEF GenerateInv, Sound
  <2>4. \A a, b \in Present' :
          /\ proposal'[a].prospect = proposal'[b].prospect
          /\ proposal'[a].version = proposal'[b].version
          => a = b
    BY <2>1, <2>2 DEF VersionsContiguous
  <2>5. \A q \in Prospects : \A v \in VersionsOf(q)' : v = 1 \/ v - 1 \in VersionsOf(q)'
    BY <2>1, <2>3 DEF VersionsContiguous
  <2> QED
    BY <2>4, <2>5 DEF VersionsContiguous
<1> QED
  BY <1>1, <1>2, <1>3, ProposalChange

\* However many generates race, the versions of a prospect are 1, 2, 3 and so on.
THEOREM VersionsTheorem == Spec => []VersionsContiguous
<1>1. Init => VersionsContiguous
  BY DEF Init, VersionsContiguous, VersionsOf, Present
<1> QED
  BY <1>1, RowsInductive, RowsStep, ContiguousStep, PTL DEF Spec

\* Every step keeps a completed analysis under every proposal.
LEMMA RestsStep ==
  ASSUME RowsInv, RestsOnAnalysis, [Next]_vars
  PROVE  RestsOnAnalysis'
<1> USE DEF RowsInv
<1>0. \A q \in Prospects, n \in AnalysisNos : IsComplete(q, n) => IsComplete(q, n)'
  BY PendingStep
<1>a. \A p \in Present : proposal[p].prospect \in Prospects /\ proposal[p].analysis \in AnalysisNos
  BY DEF Present, TypeOK, Row
<1>1. CASE UNCHANGED proposal
  BY <1>0, <1>1, <1>a DEF RestsOnAnalysis, Present
<1>2. ASSUME NEW t \in Threads, CommitEdit(t) PROVE RestsOnAnalysis'
  BY <1>0, <1>2, <1>a, EditKeepsVersions DEF RestsOnAnalysis
<1>3. ASSUME NEW t \in Threads, NEW p \in Ids \ Present, call[t].op = "generate",
             proposal' = [proposal EXCEPT ![p] = call[t].row]
      PROVE  RestsOnAnalysis'
  <2>1. /\ Present' = Present \cup {p} /\ proposal'[p] = call[t].row /\ call[t].row \in Row
        /\ \A r \in Present : proposal'[r] = proposal[r]
    BY <1>3, InsertAddsVersion
  <2>2. PICK row : row = call[t].row
    OBVIOUS
  <2>3. row \in Row /\ IsComplete(row.prospect, row.analysis)
    BY <1>3, <2>1, <2>2 DEF GenerateInv, Sound
  <2>4. IsComplete(row.prospect, row.analysis)'
    BY <1>0, <2>3 DEF Row
  <2>5. \A r \in Present : IsComplete(proposal[r].prospect, proposal[r].analysis)'
    BY <1>0, <1>a, <2>1 DEF RestsOnAnalysis
  <2> QED
    BY <2>1, <2>2, <2>4, <2>5 DEF RestsOnAnalysis
<1> QED
  BY <1>1, <1>2, <1>3, ProposalChange

\* Every proposal rests on a completed analysis of its own prospect.
THEOREM RestsTheorem == Spec => []RestsOnAnalysis
<1>1. Init => RestsOnAnalysis
  BY DEF Init, RestsOnAnalysis, Present
<1> QED
  BY <1>1, RowsInductive, RowsStep, RestsStep, PTL DEF Spec
-----------------------------------------------------------------------------
(* Approvals *)

\* A reviewer who loaded a draft loaded a row without an approver, so the
\* column differs from the loaded one and is written.
ApproveInv ==
  \A t \in Threads : call[t].op = "approve" /\ call[t].loaded.status = "draft" =>
    call[t].loaded.approved_by = None

\* An approval that loaded a draft had no approver to compare with.
LEMMA ApproveStep ==
  ASSUME TypeOK, ApprovalAudited, ApproveInv, [Next]_vars
  PROVE  ApproveInv'
<1>1. ASSUME NEW t \in Threads, \A u \in Threads : u # t => call'[u] = call[u],
             call'[t].op # "approve"
      PROVE  ApproveInv'
  BY <1>1 DEF ApproveInv
<1>2. CASE NextDay \/ UNCHANGED vars
  BY <1>2 DEF NextDay, vars, ApproveInv
<1>3. ASSUME NEW t \in Threads, Commit(t) \/ Abandon(t) PROVE ApproveInv'
  BY <1>1, <1>3 DEF Commit, CommitAnalysis, CommitGenerate, CommitEdit, Abandon, End, TypeOK, Idle
<1>4. ASSUME NEW t \in Threads, NEW q \in Prospects, BeginAnalysis(t, q) \/ BeginGenerate(t, q)
      PROVE  ApproveInv'
  BY <1>1, <1>4 DEF BeginAnalysis, BeginGenerate, Begin, TypeOK
<1>5. ASSUME NEW t \in Threads, NEW p \in Present, NEW op \in {"update", "share"}, NEW assigned,
             call' = [call EXCEPT ![t] = Edit(op, p, assigned)]
      PROVE  ApproveInv'
  <2>1. call'[t].op # "approve"
    BY <1>5 DEF Edit, TypeOK
  <2> QED
    BY <1>1, <1>5, <2>1 DEF TypeOK
<1>6. ASSUME NEW t \in Threads, NEW p \in Present, NEW subject \in Subjects,
             BeginApprove(t, p, subject)
      PROVE  ApproveInv'
  <2>1. \A u \in Threads : u # t => call'[u] = call[u]
    BY <1>6 DEF BeginApprove, Begin, TypeOK
  <2>2. call'[t].loaded = proposal[p]
    BY <1>6 DEF BeginApprove, Begin, Edit, TypeOK
  <2>3. proposal[p].status = "draft" => proposal[p].approved_by = None
    BY DEF ApprovalAudited
  <2> QED
    BY <2>1, <2>2, <2>3 DEF ApproveInv
<1>7. ASSUME NEW t \in Threads, NEW p \in Present,
             \/ \E content \in Contents : BeginUpdate(t, p, content)
             \/ \E days \in Lifetimes : BeginShare(t, p, days)
      PROVE  ApproveInv'
  BY <1>5, <1>7 DEF BeginUpdate, BeginShare, Begin
<1> QED
  BY <1>2, <1>3, <1>4, <1>6, <1>7 DEF Next, Request

\* What the commit of an edit does to the columns that record an approval.
LEMMA AuditedEdit ==
  ASSUME TypeOK, EditsInv, ApproveInv, ApprovalAudited, NEW t \in Threads, CommitEdit(t)
  PROVE  ApprovalAudited'
<1> DEFINE c   == call[t]
           old == proposal[c.id]
           new == proposal'[c.id]
<1>1. /\ c.id \in Ids /\ old \in Row /\ new \in Row
      /\ proposal' = [proposal EXCEPT ![c.id] = new]
      /\ new.status = IF c.op = "approve" THEN "approved" ELSE old.status
      /\ new.approved_by = IF c.assigned.approved_by = c.loaded.approved_by
                           THEN old.approved_by ELSE c.assigned.approved_by
      /\ new.reviewed_by = IF c.op = "approve" THEN c.assigned.reviewed_by
                           ELSE old.reviewed_by
  BY EditedRow
<1>2. IsEdit(c) /\ EditInv(c) /\ c.loaded \in Row
  BY CallFields DEF CommitEdit, IsEdit, EditsInv
<1>3. audit' = Audited(c, old) /\ audit \subseteq audit'
  BY DEF CommitEdit, Audited
<1>4. Present' = Present
  BY EditKeepsVersions
<1>5. \A p \in Present : \A subject \in {proposal[p].approved_by, proposal[p].reviewed_by} :
        IF proposal[p].status = "approved" THEN <<p, subject>> \in audit' ELSE subject = None
  BY <1>3 DEF ApprovalAudited
<1>6. \A subject \in {new.approved_by, new.reviewed_by} :
        IF new.status = "approved" THEN <<c.id, subject>> \in audit' ELSE subject = None
  <2>1. CASE c.op = "approve"
    <3>1. /\ c.assigned.approved_by \in Subjects
          /\ c.assigned.reviewed_by = c.assigned.approved_by
          /\ <<c.id, c.assigned.approved_by>> \in audit'
      BY <1>2, <1>3, <2>1 DEF EditInv, Audited
    <3>2. CASE c.assigned.approved_by # c.loaded.approved_by
      BY <1>1, <2>1, <3>1, <3>2
    <3>3. CASE c.assigned.approved_by = c.loaded.approved_by
      <4>1. c.loaded.status # "draft"
        BY <2>1, <3>1, <3>3, ProposalsAssumption DEF ApproveInv
      <4>2. c.loaded.status = "approved"
        BY <1>2, <4>1 DEF Row
      <4>3. old.status = "approved"
        BY <1>2, <4>2 DEF EditInv
      <4>4. <<c.id, old.approved_by>> \in audit'
        BY <1>2, <1>5, <4>3 DEF EditInv
      <4> QED
        BY <1>1, <2>1, <3>1, <3>3, <4>4
    <3> QED
      BY <3>2, <3>3
  <2>2. CASE c.op # "approve"
    <3>1. new.status = old.status /\ new.approved_by = old.approved_by
          /\ new.reviewed_by = old.reviewed_by
      BY <1>1, <1>2, <2>2 DEF EditInv
    <3> QED
      BY <1>2, <1>5, <3>1 DEF EditInv
  <2> QED
    BY <2>1, <2>2
<1>7. \A p \in Present : proposal'[p] = IF p = c.id THEN new ELSE proposal[p]
  BY <1>1 DEF TypeOK, Present
<1> HIDE DEF c, old, new
<1>8. ASSUME NEW p \in Present, NEW subject \in {proposal'[p].approved_by, proposal'[p].reviewed_by}
      PROVE  IF proposal'[p].status = "approved" THEN <<p, subject>> \in audit' ELSE subject = None
  <2>1. CASE p = c.id
    BY <1>6, <1>7, <1>8, <2>1
  <2>2. CASE p # c.id
    BY <1>5, <1>7, <1>8, <2>2
  <2> QED
    BY <2>1, <2>2
<1> QED
  BY <1>4, <1>8 DEF ApprovalAudited

\* Every step keeps the reviewer columns and the audit trail in agreement.
LEMMA AuditStep ==
  ASSUME RowsInv, ApproveInv, ApprovalAudited, [Next]_vars
  PROVE  ApprovalAudited'
<1> USE DEF RowsInv
<1>1. CASE UNCHANGED <<proposal, audit>>
  BY <1>1 DEF ApprovalAudited, Present
<1>2. ASSUME NEW t \in Threads, CommitEdit(t) PROVE ApprovalAudited'
  BY <1>2, AuditedEdit
<1>3. ASSUME NEW t \in Threads, NEW p \in Ids \ Present, call[t].op = "generate",
             proposal' = [proposal EXCEPT ![p] = call[t].row], UNCHANGED audit
      PROVE  ApprovalAudited'
  <2>1. /\ Present' = Present \cup {p} /\ proposal'[p] = call[t].row
        /\ \A r \in Present : proposal'[r] = proposal[r]
    BY <1>3, InsertAddsVersion
  <2>2. /\ call[t].row.status = "draft" /\ call[t].row.approved_by = None
        /\ call[t].row.reviewed_by = None
    BY <1>3 DEF GenerateInv, Sound
  <2>3. ASSUME NEW r \in Present, NEW subject \in {proposal[r].approved_by, proposal[r].reviewed_by}
        PROVE  IF proposal[r].status = "approved" THEN <<r, subject>> \in audit ELSE subject = None
    BY <2>3 DEF ApprovalAudited
  <2>4. ASSUME NEW r \in Present \cup {p},
               NEW subject \in {proposal'[r].approved_by, proposal'[r].reviewed_by}
        PROVE  IF proposal'[r].status = "approved" THEN <<r, subject>> \in audit' ELSE subject = None
    <3>1. CASE r = p
      BY <2>1, <2>2, <2>4, <3>1
    <3>2. CASE r # p
      BY <1>3, <2>1, <2>3, <2>4, <3>2
    <3> QED
      BY <3>1, <3>2
  <2> QED
    BY <2>1, <2>4 DEF ApprovalAudited
<1>4. ASSUME NEW t \in Threads, CommitGenerate(t) PROVE UNCHANGED audit
  BY <1>4 DEF CommitGenerate
<1> QED
  BY <1>1, <1>2, <1>3, <1>4, ProposalChange

\* Both reviewer columns of an approved proposal name audited reviewers,
\* however many approvals of it overlap.
THEOREM AuditTheorem == Spec => []ApprovalAudited
<1>1. Init => ApprovalAudited /\ ApproveInv
  BY DEF Init, ApprovalAudited, ApproveInv, Present, Idle
<1>2. RowsInv /\ ApproveInv /\ ApprovalAudited /\ [Next]_vars
      => ApproveInv' /\ ApprovalAudited'
  BY ApproveStep, AuditStep DEF RowsInv
<1> QED
  BY <1>1, <1>2, RowsInductive, RowsStep, PTL DEF Spec
-----------------------------------------------------------------------------
(* Share links *)

TokenOf(t) == call[t].assigned.link.token

\* Every row holds the link answered last for it, and no two links, answered or
\* about to be, have the same token.
LinkInv ==
  /\ \A p \in Ids : granted[p] = IF p \in Present THEN proposal[p].link ELSE None
  /\ \A p \in Present : granted[p] # None => proposal[p].status = "approved"
  /\ \A p, r \in Ids :
       granted[p] # None /\ granted[r] # None /\ granted[p].token = granted[r].token => p = r
  /\ \A t \in Threads : call[t].op = "share" =>
       \A p \in Ids : granted[p] # None => granted[p].token # TokenOf(t)
  /\ \A t, u \in Threads :
       call[t].op = "share" /\ call[u].op = "share" /\ TokenOf(t) = TokenOf(u) => t = u

\* A step that leaves rows and links alone, and begins no share.
LEMMA LinksAlone ==
  ASSUME LinkInv, UNCHANGED <<proposal, granted>>,
         \A u \in Threads : call'[u].op = "share" => call'[u] = call[u]
  PROVE  LinkInv'
  BY DEF LinkInv, TokenOf, Present

\* A share begins with a token no other link and no other share has.
LEMMA LinkShareBegins ==
  ASSUME TypeOK, LinkInv, NEW t \in Threads, NEW p \in Present, NEW days \in Lifetimes,
         BeginShare(t, p, days)
  PROVE  LinkInv'
<1>1. PICK token \in Tokens \ InUse :
        Begin(t, Edit("share", p, [proposal[p] EXCEPT
                                     !.link = [token |-> token, expires |-> now + days]]))
  BY DEF BeginShare
<1>2. UNCHANGED <<proposal, granted>>
  BY <1>1 DEF Begin, Database
<1>3. \A u \in Threads : u # t => call'[u] = call[u]
  BY <1>1 DEF Begin, TypeOK
<1>4. proposal[p] \in Row
  BY DEF Present, TypeOK
<1>5. call'[t].assigned.link.token = token
  BY <1>1, <1>4 DEF Begin, Edit, TypeOK, Row
<1>6. \A r \in Ids : granted[r] # None => granted[r].token # token
  BY <1>1 DEF InUse
<1>7. \A u \in Threads : call[u].op = "share" => TokenOf(u) # token
  BY <1>1 DEF InUse, TokenOf
<1> QED
  BY <1>2, <1>3, <1>5, <1>6, <1>7 DEF LinkInv, TokenOf, Present

\* The commit of an edit leaves the link answered last in its row.
LEMMA LinkEdit ==
  ASSUME TypeOK, EditsInv, LinkInv, NEW t \in Threads, CommitEdit(t)
  PROVE  LinkInv'
<1> DEFINE c == call[t]
           i == c.id
<1>1. /\ IsEdit(c) /\ EditInv(c) /\ i \in Ids /\ c.assigned \in Row /\ i \in Present
  BY CallFields DEF CommitEdit, IsEdit, EditsInv, EditInv
<1>2. /\ proposal' = [proposal EXCEPT ![i] = proposal'[i]]
      /\ proposal'[i].link = IF c.op = "share" THEN c.assigned.link ELSE proposal[i].link
      /\ proposal'[i].status = IF c.op = "approve" THEN "approved" ELSE proposal[i].status
  BY EditedRow
<1>3. Present' = Present
  BY EditKeepsVersions
<1>4. /\ \A p \in Ids : granted'[p] = IF p = i /\ c.op = "share" THEN c.assigned.link
                                      ELSE granted[p]
      /\ \A p \in Ids : p # i => proposal'[p] = proposal[p]
  BY <1>1, <1>2 DEF CommitEdit, TypeOK
<1>5. \A u \in Threads : call'[u].op = "share" => u # t /\ call'[u] = call[u]
  BY DEF CommitEdit, End, TypeOK, Idle
<1>6. c.op = "share" => proposal[i].status = "approved" /\ c.assigned.link # None
  BY <1>1 DEF EditInv
<1>7. \A p \in Ids : granted'[p] = IF p \in Present' THEN proposal'[p].link ELSE None
  BY <1>1, <1>2, <1>3, <1>4 DEF LinkInv
<1>8. \A p \in Present' : granted'[p] # None => proposal'[p].status = "approved"
  BY <1>1, <1>2, <1>3, <1>4, <1>6 DEF LinkInv, Present
<1>9. \A p, r \in Ids :
        granted'[p] # None /\ granted'[r] # None /\ granted'[p].token = granted'[r].token
        => p = r
  BY <1>4 DEF LinkInv, TokenOf
<1>10. /\ \A u \in Threads : call'[u].op = "share" =>
            \A p \in Ids : granted'[p] # None => granted'[p].token # call'[u].assigned.link.token
       /\ \A u, w \in Threads :
            call'[u].op = "share" /\ call'[w].op = "share"
            /\ call'[u].assigned.link.token = call'[w].assigned.link.token => u = w
  BY <1>4, <1>5 DEF LinkInv, TokenOf
<1> QED
  BY <1>7, <1>8, <1>9, <1>10 DEF LinkInv, TokenOf

\* A new proposal has no link.
LEMMA LinkInsert ==
  ASSUME RowsInv, LinkInv, NEW t \in Threads, NEW p \in Ids \ Present,
         CommitGenerate(t), proposal' = [proposal EXCEPT ![p] = call[t].row]
  PROVE  LinkInv'
<1> USE DEF RowsInv
<1>1. call[t].op = "generate" /\ granted' = granted
  BY DEF CommitGenerate
<1>2. /\ Present' = Present \cup {p} /\ proposal'[p] = call[t].row
      /\ \A r \in Present : proposal'[r] = proposal[r]
  BY <1>1, InsertAddsVersion
<1>3. call[t].row.link = None /\ granted[p] = None
  BY <1>1 DEF GenerateInv, Sound, LinkInv
<1>4. \A u \in Threads : call'[u].op = "share" => call'[u] = call[u]
  BY DEF CommitGenerate, End, TypeOK, Idle
<1> QED
  BY <1>1, <1>2, <1>3, <1>4 DEF LinkInv, TokenOf

\* Every step keeps the links apart and in their rows.
LEMMA LinkStep ==
  ASSUME RowsInv, LinkInv, [Next]_vars
  PROVE  LinkInv'
<1> USE DEF RowsInv
<1>1. ASSUME NEW t \in Threads, CommitAnalysis(t) \/ Abandon(t) PROVE LinkInv'
  BY <1>1, LinksAlone DEF CommitAnalysis, Abandon, End, Database, TypeOK, Idle
<1>2. ASSUME NEW t \in Threads, CommitGenerate(t) PROVE LinkInv'
  <2>1. CASE UNCHANGED proposal
    BY <1>2, <2>1, LinksAlone DEF CommitGenerate, End, TypeOK, Idle
  <2>2. CASE \E p \in Ids \ Present : proposal' = [proposal EXCEPT ![p] = call[t].row]
    BY <1>2, <2>2, LinkInsert
  <2> QED
    BY <1>2, <2>1, <2>2 DEF CommitGenerate
<1>3. ASSUME NEW t \in Threads, NEW q \in Prospects, BeginAnalysis(t, q) \/ BeginGenerate(t, q)
      PROVE  LinkInv'
  BY <1>3, LinksAlone DEF BeginAnalysis, BeginGenerate, Begin, Database, TypeOK
<1>4. ASSUME NEW t \in Threads, NEW p \in Present,
             \/ \E content \in Contents : BeginUpdate(t, p, content)
             \/ \E subject \in Subjects : BeginApprove(t, p, subject)
      PROVE  LinkInv'
  <2>0. PICK op \in {"update", "approve"} : \E assigned : Begin(t, Edit(op, p, assigned))
    BY <1>4 DEF BeginUpdate, BeginApprove
  <2>1. PICK assigned : Begin(t, Edit(op, p, assigned))
    BY <2>0
  <2>2. Edit(op, p, assigned).op # "share"
    BY DEF Edit
  <2> QED
    BY <2>1, <2>2, LinksAlone DEF Begin, Database, TypeOK
<1>5. CASE NextDay \/ UNCHANGED vars
  BY <1>5, LinksAlone DEF NextDay, Database, vars
<1> QED
  BY <1>1, <1>2, <1>3, <1>4, <1>5, LinkShareBegins, LinkEdit DEF Next, Request, Commit

\* The link answered last for a proposal opens it, and only it, until it expires.
THEOREM LinkTheorem == Spec => []LinkOpens
<1>1. Init => LinkInv
  BY DEF Init, LinkInv, Present, Idle
<1>2. TypeOK /\ LinkInv => LinkOpens
  <2> SUFFICES ASSUME TypeOK, LinkInv, NEW p \in Ids, granted[p] # None,
                      granted[p].expires >= now
               PROVE  Opened(granted[p].token) = {p}
    BY DEF LinkOpens
  <2>1. p \in Present /\ proposal[p].link = granted[p] /\ proposal[p].status = "approved"
    BY DEF LinkInv
  <2>2. p \in Opened(granted[p].token)
    BY <2>1 DEF Opened
  <2>3. ASSUME NEW r \in Opened(granted[p].token) PROVE r = p
    BY <2>3 DEF Opened, LinkInv, Present
  <2> QED
    BY <2>2, <2>3
<1>3. RowsInv => TypeOK
  BY DEF RowsInv
<1> QED
  BY <1>1, <1>2, <1>3, RowsInductive, RowsStep, LinkStep, PTL DEF Spec
-----------------------------------------------------------------------------
(* The implementation of VersionHistory *)

\* The slot of a present row holds its status; the other slots are absent.
SlotsHoldRows ==
  \A q \in Prospects, v \in 1..MaxVersion :
    /\ \A p \in Present : proposal[p].prospect = q /\ proposal[p].version = v
                          => HistoryOf(q, v) = proposal[p].status
    /\ v \notin VersionsOf(q) => HistoryOf(q, v) = "absent"
    /\ v \in VersionsOf(q) => HistoryOf(q, v) \in {"draft", "approved"}

\* With contiguous versions, every slot of the history is at most one row.
LEMMA HistoryRows == TypeOK /\ VersionsContiguous => SlotsHoldRows
<1> SUFFICES ASSUME TypeOK, VersionsContiguous,
                    NEW q \in Prospects, NEW v \in 1..MaxVersion
             PROVE  /\ \A p \in Present : proposal[p].prospect = q /\ proposal[p].version = v
                                          => HistoryOf(q, v) = proposal[p].status
                    /\ v \notin VersionsOf(q) => HistoryOf(q, v) = "absent"
                    /\ v \in VersionsOf(q) => HistoryOf(q, v) \in {"draft", "approved"}
  BY DEF SlotsHoldRows
<1> DEFINE rows == {p \in Present : proposal[p].prospect = q /\ proposal[p].version = v}
<1>1. ASSUME NEW p \in Present, proposal[p].prospect = q, proposal[p].version = v
      PROVE  HistoryOf(q, v) = proposal[p].status
  <2>1. rows = {p}
    BY <1>1 DEF VersionsContiguous
  <2>2. proposal[p].status \in {"draft", "approved"}
    BY DEF Present, TypeOK, Row
  <2> QED
    BY <2>1, <2>2 DEF HistoryOf
<1>2. ASSUME v \notin VersionsOf(q) PROVE HistoryOf(q, v) = "absent"
  <2>1. rows = {}
    BY <1>2 DEF VersionsOf
  <2> QED
    BY <2>1 DEF HistoryOf
<1>3. ASSUME v \in VersionsOf(q) PROVE HistoryOf(q, v) \in {"draft", "approved"}
  <2>1. rows # {}
    BY <1>3 DEF VersionsOf
  <2> QED
    BY <2>1 DEF HistoryOf
<1> QED
  BY <1>1, <1>2, <1>3

Slot == [s \in Prospects \X (1..MaxVersion) |-> HistoryOf(s[1], s[2])]

\* The initial rows are the empty history.
LEMMA HistoryInit == Init => History!Init
<1>1. Init => \A q \in Prospects, v \in 1..MaxVersion : HistoryOf(q, v) = "absent"
  BY DEF Init, HistoryOf, Present
<1> QED
  BY <1>1 DEF History!Init, History!Slots

\* When rows keep their slots, only a change of status shows.
LEMMA HistoryEdit ==
  ASSUME TypeOK, EditsInv, VersionsContiguous, TypeOK', VersionsContiguous',
         NEW t \in Threads, CommitEdit(t)
  PROVE  History!Next \/ Slot' = Slot
<1> DEFINE c == call[t]
           i == c.id
           q == proposal[i].prospect
           v == proposal[i].version
<1>1. /\ i \in Present /\ q \in Prospects /\ v \in 1..MaxVersion
      /\ proposal' = [proposal EXCEPT ![i] = proposal'[i]]
      /\ proposal'[i].prospect = q /\ proposal'[i].version = v
      /\ proposal'[i].status = IF c.op = "approve" THEN "approved" ELSE proposal[i].status
  BY EditedRow, ProposalsAssumption DEF Present, Row
<1>2. Present' = Present /\ \A r : VersionsOf(r)' = VersionsOf(r)
  BY EditKeepsVersions
<1>3. \A p \in Present : p # i => proposal'[p] = proposal[p]
  BY <1>1 DEF TypeOK, Present
<1>4. ASSUME NEW r \in Prospects, NEW w \in 1..MaxVersion, r # q \/ w # v
      PROVE  HistoryOf(r, w)' = HistoryOf(r, w)
  <2>1. {p \in Present' : proposal'[p].prospect = r /\ proposal'[p].version = w}
        = {p \in Present : proposal[p].prospect = r /\ proposal[p].version = w}
    BY <1>1, <1>2, <1>3, <1>4
  <2>2. \A p \in Present : proposal[p].prospect = r /\ proposal[p].version = w
                          => proposal'[p].status = proposal[p].status
    BY <1>1, <1>3, <1>4
  <2> QED
    BY <2>1, <2>2 DEF HistoryOf
<1>5. HistoryOf(q, v) = proposal[i].status
  BY <1>1, HistoryRows DEF SlotsHoldRows
<1>6. PICK k, n : k = q /\ n = v
  OBVIOUS
<1>a. SlotsHoldRows'
  BY HistoryRows, PTL
<1>7. HistoryOf(k, n)' = proposal'[i].status
  BY <1>1, <1>2, <1>6, <1>a DEF SlotsHoldRows
<1>8. CASE c.op # "approve" \/ proposal[i].status = "approved"
  <2>1. HistoryOf(k, n)' = HistoryOf(k, n)
    BY <1>1, <1>5, <1>6, <1>7, <1>8
  <2>2. \A r \in Prospects, w \in 1..MaxVersion : HistoryOf(r, w)' = HistoryOf(r, w)
    BY <1>4, <1>6, <2>1
  <2> QED
    BY <2>2 DEF Slot
<1>9. CASE c.op = "approve" /\ proposal[i].status # "approved"
  <2>1. proposal[i].status = "draft"
    BY <1>1, <1>9 DEF TypeOK, Present, Row
  <2>2. Slot[<<k, n>>] = "draft" /\ Slot'[<<k, n>>] = "approved"
    BY <1>1, <1>5, <1>6, <1>7, <1>9, <2>1 DEF Slot
  <2>3. \A s \in Prospects \X (1..MaxVersion) : s # <<k, n>> => Slot'[s] = Slot[s]
    BY <1>4, <1>6 DEF Slot
  <2>4. Slot' = [Slot EXCEPT ![<<k, n>>] = "approved"]
    BY <1>1, <1>6, <2>2, <2>3 DEF Slot
  <2>5. History!Approve(k, n)
    BY <2>2, <2>4 DEF History!Approve, Slot
  <2> QED
    BY <1>1, <1>6, <2>5 DEF History!Next
<1> QED
  BY <1>8, <1>9

\* An insert appends to the history, or conflicts and changes nothing.
LEMMA HistoryInsert ==
  ASSUME RowsInv, VersionsContiguous, TypeOK', VersionsContiguous',
         NEW t \in Threads, NEW i \in Ids \ Present, call[t].op = "generate",
         call[t].row.version \notin VersionsOf(call[t].row.prospect),
         proposal' = [proposal EXCEPT ![i] = call[t].row]
  PROVE  History!Next
<1> USE DEF RowsInv
<1>1. /\ Present' = Present \cup {i}
      /\ proposal'[i] = call[t].row /\ call[t].row \in Row
      /\ \A r \in Present : proposal'[r] = proposal[r]
      /\ \A q : VersionsOf(q)' = VersionsOf(q) \cup
                  (IF call[t].row.prospect = q THEN {call[t].row.version} ELSE {})
  BY InsertAddsVersion
<1>2. PICK k, n : k = call[t].row.prospect /\ n = call[t].row.version
  OBVIOUS
<1>3. k \in Prospects /\ n \in 1..MaxVersion
  BY <1>1, <1>2 DEF Row
<1>4. ASSUME NEW r \in Prospects, NEW w \in 1..MaxVersion, r # k \/ w # n
      PROVE  HistoryOf(r, w)' = HistoryOf(r, w)
  <2>1. {p \in Present' : proposal'[p].prospect = r /\ proposal'[p].version = w}
        = {p \in Present : proposal[p].prospect = r /\ proposal[p].version = w}
    BY <1>1, <1>2, <1>4
  <2>2. \A p \in Present : proposal'[p].status = proposal[p].status
    BY <1>1
  <2> QED
    BY <2>1, <2>2 DEF HistoryOf
<1>5. HistoryOf(k, n) = "absent"
  BY <1>2, <1>3, HistoryRows DEF SlotsHoldRows
<1>a. SlotsHoldRows'
  BY HistoryRows, PTL
<1>6. HistoryOf(k, n)' = "draft"
  <2>1. proposal'[i].status = "draft"
    BY <1>1 DEF GenerateInv, Sound
  <2> QED
    BY <1>1, <1>2, <1>3, <1>a, <2>1 DEF SlotsHoldRows
<1>7. n > 1 => HistoryOf(k, n - 1) # "absent" /\ n - 1 \in 1..MaxVersion
  <2>1. n = 1 \/ n - 1 \in VersionsOf(k)
    BY <1>2 DEF GenerateInv, Sound
  <2> QED
    BY <1>3, <2>1, HistoryRows, ProposalsAssumption DEF SlotsHoldRows
<1>8. Slot[<<k, n>>] = "absent" /\ Slot'[<<k, n>>] = "draft"
  BY <1>3, <1>5, <1>6 DEF Slot
<1>9. \A s \in Prospects \X (1..MaxVersion) : s # <<k, n>> => Slot'[s] = Slot[s]
  BY <1>4 DEF Slot
<1>10. Slot' = [Slot EXCEPT ![<<k, n>>] = "draft"]
  BY <1>3, <1>8, <1>9 DEF Slot
<1>11. n > 1 => Slot[<<k, n - 1>>] # "absent"
  BY <1>3, <1>7 DEF Slot
<1>12. History!Append(k, n)
  BY <1>8, <1>10, <1>11 DEF History!Append, Slot
<1> QED
  BY <1>3, <1>12 DEF History!Next

\* Every step appends, approves, or leaves the history alone.
LEMMA HistoryStep ==
  ASSUME RowsInv, RowsInv', VersionsContiguous, VersionsContiguous', [Next]_vars
  PROVE  History!Next \/ Slot' = Slot
<1> USE DEF RowsInv
<1>1. CASE UNCHANGED proposal
  BY <1>1 DEF Slot, HistoryOf, Present
<1> QED
  BY <1>1, HistoryEdit, HistoryInsert, ProposalChange

\* The rows of website_proposals implement an append-only history per prospect
\* in which approval is final.
THEOREM HistoryTheorem == Spec => HistoryKept
<1>1. Spec => [](RowsInv /\ VersionsContiguous)
  <2>1. Init => VersionsContiguous
    BY DEF Init, VersionsContiguous, VersionsOf, Present
  <2> QED
    BY <2>1, RowsInductive, RowsStep, ContiguousStep, PTL DEF Spec
<1>2. /\ RowsInv /\ VersionsContiguous /\ RowsInv' /\ VersionsContiguous' /\ [Next]_vars
      => [History!Next]_Slot
  BY HistoryStep
<1> QED
  BY <1>1, <1>2, HistoryInit, PTL DEF Spec, HistoryKept, History!Spec, Slot
=============================================================================
