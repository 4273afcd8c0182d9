----------------------------- MODULE Proposals -----------------------------
(***************************************************************************)
(* The life of a proposal up to its delivery: run_analysis,                *)
(* generate_proposal, update_proposal, approve_proposal, create_share and  *)
(* the public page behind a share link.  One tenant.                       *)
(*                                                                         *)
(* A handler reads, works, and commits once at its end; between the two    *)
(* every other handler may commit.  Threads are the threads that serve     *)
(* requests, call[t] is the request thread t is serving: the row it loaded *)
(* and the row it leaves in its session, see UnitOfWork.                   *)
(*                                                                         *)
(* The contact checks of approve_proposal depend on rows that belong to    *)
(* Delivery; here they may succeed or refuse at any time.  The pipeline    *)
(* stage and the score of the prospect are written by these handlers and   *)
(* read by none of them; they are left out.                                *)
(*                                                                         *)
(* MaxRequests bounds the requests of a behaviour, MaxAnalyses, MaxVersion *)
(* and Ids the rows it may create, MaxNow the clock.                       *)
(***************************************************************************)
EXTENDS UnitOfWork, Integers

CONSTANTS
  Prospects, Ids,    \* website_proposals.id
  Contents,          \* the text of a proposal: headline to email_body
  Template,          \* the text generate_proposal writes
  Subjects,          \* who may approve
  Tokens,            \* share tokens; 32 random bytes are never drawn twice
  Lifetimes,         \* expires_in_days
  None,              \* SQL NULL
  Threads, MaxAnalyses, MaxVersion, MaxNow, MaxRequests

AnalysisNos == 1..MaxAnalyses

\* The columns of website_analyses and website_proposals.
Analysis == [prospect : Prospects, status : {"complete", "failed"}]
Link     == [token : Tokens, expires : Nat]
Row == [prospect : Prospects, version : 1..MaxVersion, analysis : AnalysisNos,
        status : {"draft", "approved"}, content : Contents,
        approved_by : Subjects \cup {None}, reviewed_by : Subjects \cup {None},
        link : Link \cup {None}]

ASSUME ProposalsAssumption ==
  /\ Template \in Contents
  /\ None \notin Prospects \cup Ids \cup Subjects \cup Tokens
  /\ None \notin Analysis /\ None \notin Link /\ None \notin Row
  /\ Lifetimes \subseteq Nat
  /\ MaxAnalyses \in Nat /\ MaxVersion \in Nat /\ MaxNow \in Nat /\ MaxRequests \in Nat

VARIABLES
  analyses,  \* the committed rows of website_analyses, by order of creation
  begun,     \* analyses created so far, committed or not
  proposal,  \* the committed rows of website_proposals
  audit,     \* who the audit trail says approved what
  now,       \* the clock, in days
  call,      \* the request each thread is serving
  left,      \* requests the behaviour may still start
  granted    \* history: per proposal, the share link answered by the last commit

vars == <<analyses, begun, proposal, audit, now, call, left, granted>>
-----------------------------------------------------------------------------
Present == {p \in Ids : proposal[p] # None}

Idle == [op |-> "idle"]

Init ==
  /\ analyses = [n \in AnalysisNos |-> None] /\ begun = 0
  /\ proposal = [p \in Ids |-> None]
  /\ audit = {} /\ now = 0
  /\ call = [t \in Threads |-> Idle]
  /\ left = MaxRequests
  /\ granted = [p \in Ids |-> None]

Database == <<analyses, proposal, audit, granted>>

Begin(t, request) ==
  /\ call[t].op = "idle" /\ left > 0
  /\ call' = [call EXCEPT ![t] = request]
  /\ left' = left - 1
  /\ UNCHANGED <<Database, now>>

End(t) ==
  /\ call' = [call EXCEPT ![t] = Idle]
  /\ UNCHANGED <<begun, now, left>>
-----------------------------------------------------------------------------
(* run_analysis *)

\* The new row is flushed, so it takes its place in the order of creation, but
\* no other session sees it before the commit.
BeginAnalysis(t, q) ==
  /\ begun < MaxAnalyses
  /\ begun' = begun + 1
  /\ Begin(t, [op |-> "analyse", prospect |-> q, number |-> begun'])

\* Mutant of CommitAnalysis: a failure that has not been typed keeps the row.
CommitAnalysisPinned(t) ==
  /\ call[t].op = "analyse"
  /\ \E status \in {"complete", "failed", "running"} :
       analyses' = [analyses EXCEPT ![call[t].number] =
                      [prospect |-> call[t].prospect, status |-> status]]
  /\ End(t) /\ UNCHANGED <<proposal, audit, granted>>

\* Whatever happens to the fetch and to the analysis, one row is committed: the
\* flushed one, or a failed one in its place after a rollback.
CommitAnalysis(t) ==
  /\ call[t].op = "analyse"
  /\ \E status \in {"complete", "failed"} :
       analyses' = [analyses EXCEPT ![call[t].number] =
                      [prospect |-> call[t].prospect, status |-> status]]
  /\ End(t) /\ UNCHANGED <<proposal, audit, granted>>
-----------------------------------------------------------------------------
(* generate_proposal *)

IsComplete(q, n) ==
  analyses[n] # None /\ analyses[n].prospect = q /\ analyses[n].status = "complete"

\* Mutant of IsChosen: the status of the analysis is not filtered on.
IsChosenAnyStatus(q, n, asked) ==
  /\ analyses[n] # None /\ analyses[n].prospect = q
  /\ asked \/ \A m \in AnalysisNos : analyses[m] # None /\ analyses[m].prospect = q => m <= n

\* _latest_complete_analysis: the one the request names, else the newest.
IsChosen(q, n, asked) ==
  IsComplete(q, n) /\ (asked \/ \A m \in AnalysisNos : IsComplete(q, m) => m <= n)

VersionsOf(q) == {proposal[p].version : p \in {r \in Present : proposal[r].prospect = q}}

\* current_max; 0 when the prospect has no proposal.
IsCurrentMax(q, v) ==
  /\ v \in VersionsOf(q) \cup {0}
  /\ \A w \in VersionsOf(q) : w <= v

BeginGenerate(t, q) ==
  /\ \E n \in AnalysisNos, asked \in BOOLEAN, v \in 0..MaxVersion :
       /\ IsChosen(q, n, asked) /\ IsCurrentMax(q, v) /\ v < MaxVersion
       /\ Begin(t, [op |-> "generate",
                    row |-> [prospect |-> q, version |-> v + 1, analysis |-> n,
                             status |-> "draft", content |-> Template,
                             approved_by |-> None, reviewed_by |-> None, link |-> None]])
  /\ UNCHANGED begun

\* Mutant of CommitGenerate: (prospect_id, version) is not unique.
CommitGenerateTwice(t) ==
  /\ call[t].op = "generate"
  /\ \E p \in Ids \ Present : proposal' = [proposal EXCEPT ![p] = call[t].row]
  /\ End(t) /\ UNCHANGED <<analyses, audit, granted>>

\* (prospect_id, version) is unique: a concurrent generate that committed the
\* same version first turns this one into PROPOSAL_VERSION_CONFLICT.
CommitGenerate(t) ==
  /\ call[t].op = "generate"
  /\ IF call[t].row.version \in VersionsOf(call[t].row.prospect)
     THEN UNCHANGED proposal
     ELSE \E p \in Ids \ Present : proposal' = [proposal EXCEPT ![p] = call[t].row]
  /\ End(t) /\ UNCHANGED <<analyses, audit, granted>>
-----------------------------------------------------------------------------
(* update_proposal, approve_proposal, create_share *)

Edit(op, p, assigned) ==
  [op |-> op, id |-> p, loaded |-> proposal[p], assigned |-> assigned]

BeginUpdate(t, p, content) ==
  /\ proposal[p].status # "approved"
  /\ Begin(t, Edit("update", p, [proposal[p] EXCEPT !.content = content]))
  /\ UNCHANGED begun

\* The status of the row is not consulted: a draft of any version may be
\* approved, and an approved proposal approved again.
BeginApprove(t, p, subject) ==
  /\ IsComplete(proposal[p].prospect, proposal[p].analysis)
  /\ Begin(t, Edit("approve", p, [proposal[p] EXCEPT !.status = "approved",
                                    !.approved_by = subject, !.reviewed_by = subject]))
  /\ UNCHANGED begun

InUse == {granted[p].token : p \in {r \in Ids : granted[r] # None}}
         \cup {call[t].assigned.link.token : t \in {u \in Threads : call[u].op = "share"}}

BeginShare(t, p, days) ==
  /\ proposal[p].status = "approved"
  /\ \E token \in Tokens \ InUse :
       Begin(t, Edit("share", p, [proposal[p] EXCEPT
                                    !.link = [token |-> token, expires |-> now + days]]))
  /\ UNCHANGED begun

\* Mutant of Written: every column of the loaded row is written back.
WrittenWhole(c, stored) == c.assigned

\* review_json holds the time of the review and share_token_hash a new token,
\* so these two are never equal to what was loaded.
Written(c, stored) ==
  [Flushed(stored, c.loaded, c.assigned) EXCEPT
     !.reviewed_by = IF c.op = "approve" THEN c.assigned.reviewed_by ELSE @,
     !.link        = IF c.op = "share" THEN c.assigned.link ELSE @]

\* Mutant of Audited: approving again leaves no trace.
AuditedOnce(c, stored) ==
  IF c.op = "approve" /\ stored.status = "draft"
  THEN audit \cup {<<c.id, c.assigned.approved_by>>} ELSE audit

\* record_audit is part of the transaction of its handler.
Audited(c, stored) ==
  IF c.op = "approve" THEN audit \cup {<<c.id, c.assigned.approved_by>>} ELSE audit

CommitEdit(t) ==
  LET c == call[t]
  IN /\ c.op \in {"update", "approve", "share"}
     /\ proposal' = [proposal EXCEPT ![c.id] = Written(c, proposal[c.id])]
     /\ audit' = Audited(c, proposal[c.id])
     /\ granted' = IF c.op = "share" THEN [granted EXCEPT ![c.id] = c.assigned.link]
                   ELSE granted
     /\ End(t) /\ UNCHANGED analyses
-----------------------------------------------------------------------------
\* The process dies, or an exception that is not typed is rolled back.
Abandon(t) ==
  /\ call[t].op # "idle"
  /\ End(t) /\ UNCHANGED Database

NextDay ==
  /\ now < MaxNow
  /\ now' = now + 1
  /\ UNCHANGED <<Database, begun, call, left>>

Request(t) ==
  \/ \E q \in Prospects : BeginAnalysis(t, q) \/ BeginGenerate(t, q)
  \/ \E p \in Present :
       \/ \E content \in Contents : BeginUpdate(t, p, content)
       \/ \E subject \in Subjects : BeginApprove(t, p, subject)
       \/ \E days \in Lifetimes : BeginShare(t, p, days)

Commit(t) == CommitAnalysis(t) \/ CommitGenerate(t) \/ CommitEdit(t)

Next ==
  \/ \E t \in Threads : Request(t) \/ Commit(t) \/ Abandon(t)
  \/ NextDay

Spec == Init /\ [][Next]_vars
-----------------------------------------------------------------------------
(* Properties *)

Call ==
  {Idle}
  \cup [op : {"analyse"}, prospect : Prospects, number : AnalysisNos]
  \cup [op : {"generate"}, row : Row]
  \cup [op : {"update", "approve", "share"}, id : Ids, loaded : Row, assigned : Row]

\* Every variable keeps the shape its columns and its handlers give it; in
\* particular no committed analysis is "running" (service.py:870).
TypeOK ==
  /\ analyses \in [AnalysisNos -> Analysis \cup {None}]
  /\ begun \in 0..MaxAnalyses
  /\ proposal \in [Ids -> Row \cup {None}]
  /\ audit \in SUBSET (Ids \X Subjects)
  /\ now \in 0..MaxNow /\ left \in 0..MaxRequests
  /\ call \in [Threads -> Call]
  /\ granted \in [Ids -> Link \cup {None}]

\* Whatever generates race, the versions of a prospect are 1, 2, 3... with no
\* gap, and no two proposals share one.
VersionsContiguous ==
  /\ \A p, r \in Present :
       /\ proposal[p].prospect = proposal[r].prospect
       /\ proposal[p].version = proposal[r].version
       => p = r
  /\ \A q \in Prospects : \A v \in VersionsOf(q) : v = 1 \/ v - 1 \in VersionsOf(q)

\* A proposal is generated from one completed analysis of its own prospect
\* (README.md:21), and that stays so while analyses fail and roll back.
RestsOnAnalysis ==
  \A p \in Present : IsComplete(proposal[p].prospect, proposal[p].analysis)

\* Each of the two columns that name a reviewer names one whose approval is in
\* the audit trail, and both do exactly when the proposal is approved: also
\* after approvals of the same proposal that overlap in time.
ApprovalAudited ==
  \A p \in Present : \A subject \in {proposal[p].approved_by, proposal[p].reviewed_by} :
    IF proposal[p].status = "approved" THEN <<p, subject>> \in audit ELSE subject = None

\* public_proposal: the proposals the page behind a token shows.
Opened(token) ==
  {p \in Present : /\ proposal[p].status = "approved"
                   /\ proposal[p].link # None /\ proposal[p].link.token = token
                   /\ proposal[p].link.expires >= now}

\* The link that create_share answered last opens its proposal, and no other,
\* until it expires: no approval or edit in flight takes it back.
LinkOpens ==
  \A p \in Ids : granted[p] # None /\ granted[p].expires >= now =>
    Opened(granted[p].token) = {p}

\* The status of version v of prospect q.
HistoryOf(q, v) ==
  LET rows == {p \in Present : proposal[p].prospect = q /\ proposal[p].version = v}
  IN IF rows = {} THEN "absent"
     ELSE IF \E p \in rows : proposal[p].status = "approved" THEN "approved" ELSE "draft"

History == INSTANCE VersionHistory
  WITH history <- [s \in Prospects \X (1..MaxVersion) |-> HistoryOf(s[1], s[2])]

\* The rows implement an append-only list of versions in which approval is
\* final: a handler that read a draft cannot undo the approval of another.
HistoryKept == History!Spec

\* README.md:22 "Approved proposals are immutable".
ApprovedImmutable ==
  [][\A p \in Present : proposal[p].status = "approved" =>
       proposal'[p].content = proposal[p].content]_vars
=============================================================================
