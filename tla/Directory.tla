------------------------------ MODULE Directory ------------------------------
(***************************************************************************)
(* The ranked list of a tenant's prospects (service.list_prospects), read  *)
(* page by page, with or without a status to filter by, while prospects    *)
(* are created, analysed, edited and taken through the workflow.  A search *)
(* compares the name and the domain, which no handler changes: Prospects   *)
(* are those that it finds.                                                *)
(*                                                                         *)
(* created_at is the start of the transaction that inserts a row: the rows *)
(* of one transaction share it, it may be older than that of a row which   *)
(* was committed before, and the order of equal rows is the database's to  *)
(* choose, at each statement anew.  An analysis is the request that runs   *)
(* it.  MaxWrites bounds the analyses and edits taken together.            *)
(***************************************************************************)
EXTENDS UnitOfWork, Integers, Sequences, FiniteSets, SequencesExt

CONSTANTS
  Prospects, Scores, Statuses,
  Times,        \* values of created_at
  Limit,
  Analysts,     \* requests that analyse
  Nothing, MaxWrites

Ranked   == [score : Scores, created_at : Times, status : Statuses]
Analysed == [prospect : Prospects, loaded : Ranked]

DirectoryAssumption ==
  /\ IsFiniteSet(Prospects) /\ Scores \subseteq Nat /\ 0 \in Scores /\ Times \subseteq Nat
  /\ {"qualified", "analysis_ready"} \subseteq Statuses /\ Limit \in Nat \ {0}
  /\ Nothing \notin Nat /\ Nothing \notin Analysed /\ Nothing \notin Statuses
  /\ MaxWrites \in Nat

VARIABLES
  row,          \* the columns of the prospects that exist
  analysis,     \* per request: the prospect and the row it has loaded, or Nothing
  walk,         \* the reader: total is Nothing until it is counted for a page
  owed,         \* history: prospects that the walk has still to show
  kept,         \* history: the score that analyses may not take from a prospect
  writes        \* analyses and edits so far

directoryVars == <<row, analysis, walk, owed, kept, writes>>
-----------------------------------------------------------------------------
Existing == DOMAIN row

\* The filter of list_prospects: Nothing is no filter.
Matching(status) == {p \in Existing : status \in {Nothing, row[p].status}}
Listed == Matching(walk.status)

\* Mutant of Before: the list begins with the lowest score.
BeforeAscending(p, q) ==
  row[p].score < row[q].score
    \/ (row[p].score = row[q].score /\ row[p].created_at > row[q].created_at)

Before(p, q) ==
  row[p].score > row[q].score
    \/ (row[p].score = row[q].score /\ row[p].created_at > row[q].created_at)

Tied(p, q) == p # q /\ ~Before(p, q) /\ ~Before(q, p)

\* What one SELECT may return without OFFSET and LIMIT.
Orders == {o \in SetToSeqs(Listed) : \A i, j \in DOMAIN o : i < j => ~Before(o[j], o[i])}
-----------------------------------------------------------------------------
NoWalk == [reading |-> FALSE, status |-> Nothing, total |-> Nothing, offset |-> 0]

DirectoryInit ==
  /\ row = [p \in {} |-> 0] /\ analysis = [t \in Analysts |-> Nothing]
  /\ walk = NoWalk /\ owed = {} /\ kept = [p \in Prospects |-> 0]
  /\ writes = 0

Higher(a, b) == IF a > b THEN a ELSE b
Lower(a, b)  == IF a < b THEN a ELSE b

\* The rows that one transaction inserts.
AddRows(new, score, created_at) ==
  /\ new # {} /\ new \cap Existing = {}
  /\ row' = [p \in Existing \cup new |->
               IF p \in new THEN [score |-> score, created_at |-> created_at, status |-> "qualified"]
               ELSE row[p]]
  /\ owed' = IF walk.total # Nothing /\ walk.status \in {Nothing, "qualified"} THEN {} ELSE owed
  /\ kept' = [p \in Prospects |-> IF p \in new THEN score ELSE kept[p]]
  /\ UNCHANGED <<analysis, walk, writes>>

\* create_prospect: the score of the payload.
CreateProspect(p, score, created_at) == AddRows({p}, score, created_at)

\* bulk_create_prospects_from_csv: a paste has no scores.
PasteProspects(new, created_at) == AddRows(new, 0, created_at)

\* discover_for_campaign: whatever was found has the campaign's min_score.  The
\* transaction began before the provider was asked.
DiscoverProspects(new, min_score, created_at) == AddRows(new, min_score, created_at)

\* What a reader may miss when the row of p becomes new: p itself when it leaves
\* the list or moves up; whoever came after p when it leaves, or falls to their
\* score or below; anyone when p enters after the count.
Missed(p, new) ==
  LET stays    == walk.status \in {Nothing, new.status}
      falls(q) == new.score < row[p].score /\ new.score <= row[q].score
  IN CASE p \in Listed -> {q \in owed : \/ q = p /\ (~stays \/ new.score > row[p].score)
                                        \/ Before(p, q) /\ (~stays \/ falls(q))}
       [] p \notin Listed /\ stays /\ walk.total # Nothing -> owed
       [] OTHER -> {}

Store(p, new) ==
  /\ row' = [row EXCEPT ![p] = new]
  /\ owed' = owed \ Missed(p, new)

Runs(t, p) == analysis[t] # Nothing /\ analysis[t].prospect = p

\* run_analysis loads its prospect,
Analyse(t, p) ==
  /\ analysis[t] = Nothing /\ writes < MaxWrites /\ p \in Existing
  /\ analysis' = [analysis EXCEPT ![t] = [prospect |-> p, loaded |-> row[p]]]
  /\ writes' = writes + 1
  /\ UNCHANGED <<row, walk, owed, kept>>

\* Mutant of Raised: the last analysis decides.
RaisedToLast(loaded, s) == s

\* max(prospect.qualification_score, row.improvement_score)
Raised(loaded, s) == Higher(loaded, s)

\* and commits with the improvement s: of score and status it writes what is not
\* as it was loaded.
CommitScore(t, s) ==
  LET a      == analysis[t]
      p      == a.prospect
      stored == Flushed(row[p], a.loaded, [a.loaded EXCEPT !.score = Raised(@, s),
                                                           !.status = "analysis_ready"])
  IN /\ a # Nothing
     /\ Store(p, stored)
     /\ analysis' = [analysis EXCEPT ![t] = Nothing]
     /\ kept' = IF \E u \in Analysts \ {t} : Runs(u, p) THEN kept
                ELSE [kept EXCEPT ![p] = IF a.loaded.score = row[p].score
                                         THEN Higher(row[p].score, s) ELSE stored.score]
     /\ UNCHANGED <<walk, writes>>

\* WebsiteAuditError, or any other failure: the prospect is left alone.
Abandon(t) ==
  /\ analysis[t] # Nothing /\ analysis' = [analysis EXCEPT ![t] = Nothing]
  /\ UNCHANGED <<row, walk, owed, kept, writes>>

\* update_prospect: a column that was not sent, or not changed, is as it was.
Edit(p, score, status) ==
  /\ writes < MaxWrites /\ p \in Existing /\ writes' = writes + 1
  /\ Store(p, [row[p] EXCEPT !.score = score, !.status = status])
  /\ kept' = [kept EXCEPT ![p] = IF \E t \in Analysts : Runs(t, p) THEN Lower(@, score) ELSE score]
  /\ UNCHANGED <<analysis, walk>>

\* generate_proposal, approve_proposal, promote_prospect_to_crm: the status of the next
\* stage, unless the handler has loaded it already.
Advance(p, status) ==
  /\ writes < MaxWrites /\ p \in Existing /\ writes' = writes + 1
  /\ Store(p, [row[p] EXCEPT !.status = status])
  /\ UNCHANGED <<analysis, walk, kept>>
-----------------------------------------------------------------------------
\* The first page of a new walk, which follows the one before it.
Open(status) ==
  /\ ~walk.reading
  /\ walk' = [NoWalk EXCEPT !.reading = TRUE, !.status = status]
  /\ owed' = Matching(status)
  /\ UNCHANGED <<row, analysis, kept, writes>>

\* The first statement of list_prospects counts,
Count ==
  /\ walk.reading /\ walk.total = Nothing
  /\ walk' = [walk EXCEPT !.total = Cardinality(Listed)]
  /\ UNCHANGED <<row, analysis, owed, kept, writes>>

\* the second reads the page.  Page.has_more tells whether the walk goes on, from
\* where the page ended: at its offset when it was empty.
Rows ==
  /\ walk.total # Nothing
  /\ \E o \in Orders :
       LET until == Higher(walk.offset, Lower(walk.offset + Limit, Len(o)))
       IN /\ walk' = IF until < walk.total THEN [walk EXCEPT !.total = Nothing, !.offset = until] ELSE NoWalk
          /\ owed' = {p \in owed \ ToSet(SubSeq(o, walk.offset + 1, Lower(until, Len(o)))) :
                       \A q \in Listed : ~Tied(p, q)}
  /\ UNCHANGED <<row, analysis, kept, writes>>

DirectoryNext ==
  \/ \E c \in Times : \/ \E p \in Prospects, s \in Scores : CreateProspect(p, s, c)
                      \/ \E new \in SUBSET Prospects : \/ PasteProspects(new, c)
                                                      \/ \E s \in Scores : DiscoverProspects(new, s, c)
  \/ \E t \in Analysts : \/ Abandon(t)
                        \/ \E p \in Prospects : Analyse(t, p)
                        \/ \E s \in Scores : CommitScore(t, s)
  \/ \E p \in Prospects, status \in Statuses : \/ \E s \in Scores : Edit(p, s, status)
                                              \/ Advance(p, status)
  \/ (\E status \in Statuses \cup {Nothing} : Open(status)) \/ Count \/ Rows

DirectorySpec == DirectoryInit /\ [][DirectoryNext]_directoryVars
-----------------------------------------------------------------------------
Walks ==
  [reading : BOOLEAN, status : Statuses \cup {Nothing},
   total : 0..Cardinality(Prospects) \cup {Nothing}, offset : 0..Cardinality(Prospects)]

DirectoryTypeOK ==
  /\ Existing \subseteq Prospects /\ \A p \in Existing : row[p] \in Ranked
  /\ analysis \in [Analysts -> Analysed \cup {Nothing}]
  /\ walk \in Walks /\ owed \subseteq Existing /\ kept \in [Prospects -> Scores]
  /\ writes \in 0..MaxWrites

\* A walk that has come to its end has shown every prospect that was in the list
\* when it began, but for three kinds: those that moved up, left the list or were
\* tied with another; those behind one that left the list (its status changed) or
\* was lowered past them; and, when a row came in between the two statements of a
\* page, anyone (count, OFFSET and has_more of list_prospects).
NothingHidden == ~walk.reading => owed = {}

\* However many analyses of a prospect overlap, they leave it no lower than they
\* found it when none was running: as it was created, as an operator set it, or as
\* earlier analyses left it.  One may undo what another of them measured, never
\* more; and one that ends alone and finds the score that it had loaded leaves the
\* better of that and its own (max of a loaded value, run_analysis).
ScoreKept == \A p \in Existing : row[p].score >= kept[p]
=============================================================================
