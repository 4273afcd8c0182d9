------------------------------ MODULE PageAudit ------------------------------
(***************************************************************************)
(* The scoring of an analysis (analyzer.analyze_html) and its enrichment   *)
(* by PageSpeed (service._merge_pagespeed), as a function of the page: a   *)
(* site gets worse, one defect after another, is analysed each time, and   *)
(* then measured by PageSpeed too.                                         *)
(*                                                                         *)
(* A page is, per property, how bad it is: 0 for what costs nothing, then  *)
(* the ranges the code tells apart.  Titles, texts and the evidence are    *)
(* left out.  MaxDefects bounds the defects.                               *)
(***************************************************************************)
EXTENDS MeetingStory, FiniteSetsExt, Functions

CONSTANTS
  Measures,     \* what PageSpeed may answer for a category, Unmeasured for nothing
  Unmeasured, MaxDefects

AuditAssumption == Measures \subseteq Int \cup {Unmeasured} /\ MaxDefects \in Nat

VARIABLES
  page,
  result,       \* metrics, keys of the findings in their order, improvement
  enriched      \* whether PageSpeed has been merged into the result

auditVars == <<page, result, enriched>>
-----------------------------------------------------------------------------
\* title: 1 too short or long, 2 missing; images: how many in Images have no alt text;
\* inputs: without a label; fetch: 1 over 1200 ms, 2 over 2500; bytes and
\* scripts: over the first and the second limit.
Images == 4
Worst ==
  [title |-> 2, description |-> 1, h1 |-> 1, json_ld |-> 1, lang |-> 1, images |-> Images,
   inputs |-> 5, viewport |-> 1, cta |-> 1, form |-> 1, local |-> 1, https |-> 1,
   fetch |-> 2, bytes |-> 2, scripts |-> 2, gallery |-> 1]

Clean == [d \in DOMAIN Worst |-> 0]

\* round(a / b) of Python, for a >= 0: a half goes to the even neighbour.
Rounded(a, b) ==
  LET q == a \div b  r == 2 * (a % b)
  IN IF r > b \/ (r = b /\ q % 2 = 1) THEN q + 1 ELSE q

Larger(a, b) == IF a > b THEN a ELSE b
Percent(n)   == Capped(Larger(0, n), 100)

\* A mild penalty for level 1 and a severe one for level 2.
Graded(level, mild, severe) == CASE level = 0 -> 0 [] level = 1 -> mild [] OTHER -> severe

AltPenalty(n) == IF n = 0 THEN 0 ELSE Capped(Rounded(10 * Images + 25 * n, Images), 35)

\* metrics, before PageSpeed.
Metrics(p) ==
  [performance   |-> Percent(100 - 8 * p.https - Graded(p.fetch, 18, 34) - Graded(p.bytes, 8, 18)
                                 - Graded(p.scripts, 8, 16) - 8 * p.gallery),
   seo           |-> Percent(100 - Graded(p.title, 10, 24) - 18 * p.description - 14 * p.h1
                                 - 10 * p.json_ld - 4 * p.lang - 10 * p.https),
   accessibility |-> Percent(100 - 12 * p.lang - AltPenalty(p.images) - Capped(6 * p.inputs, 25)),
   mobile        |-> Percent(100 - 42 * p.viewport)]

\* The respects that make a finding, in the order of the code; the page's weight
\* makes none.
Telling ==
  <<"title", "description", "h1", "json_ld", "lang", "images", "inputs", "viewport", "cta",
    "form", "local", "https", "fetch">>

KeyOf ==
  [title |-> <<"title_length", "missing_title">>, description |-> <<"missing_description">>,
   h1 |-> <<"h1_structure">>, json_ld |-> <<"structured_data">>, lang |-> <<"missing_lang">>,
   images |-> <<"image_alt">>, inputs |-> <<"form_labels">>, viewport |-> <<"missing_viewport">>,
   cta |-> <<"weak_cta">>, form |-> <<"long_form">>, local |-> <<"local_visibility">>,
   https |-> <<"no_https">>, fetch |-> <<"server_latency", "slow_server">>]

Faults(p) == {i \in DOMAIN Telling : p[Telling[i]] > 0}

\* The key of the i-th respect, by how bad it is.
Finding(p, i) == LET keys == KeyOf[Telling[i]] IN keys[Capped(p[Telling[i]], Len(keys))]

FoundOn(p) ==
  [n \in 1..Cardinality(Faults(p)) |-> Finding(p, Nth(Faults(p), n))]

Deficit(m) == Rounded(400 - m.performance - m.seo - m.accessibility - m.mobile, 4)

\* analyze_html
Audit(p) ==
  [metrics     |-> Metrics(p),
   findings    |-> IF FoundOn(p) = <<>> THEN <<"healthy_baseline">> ELSE FoundOn(p),
   improvement |-> Capped(Larger(Deficit(Metrics(p)), Capped(45 + 6 * Len(FoundOn(p)), 95)), 100)]

\* _merge_pagespeed, of the scores s.
Overwritten(m, s) ==
  LET or(new, old) == IF new = Unmeasured THEN old ELSE Percent(new)
      performance   == or(s.performance, m.performance)
      accessibility == or(s.accessibility, m.accessibility)
  IN [performance |-> performance, seo |-> or(s.seo, m.seo), accessibility |-> accessibility,
      mobile |-> Rounded(performance + accessibility, 2)]

MergedFindings(m, findings) ==
  IF m.performance < 50 THEN <<"pagespeed_performance">> \o findings ELSE findings

\* Mutant of Merged: the improvement is that of the merged metrics.
MergedAnew(r, s) ==
  LET m == Overwritten(r.metrics, s)
  IN [metrics |-> m, findings |-> MergedFindings(m, r.findings), improvement |-> Deficit(m)]

Merged(r, s) ==
  LET m == Overwritten(r.metrics, s)
  IN [metrics |-> m, findings |-> MergedFindings(m, r.findings),
      improvement |-> Larger(r.improvement, Deficit(m))]
-----------------------------------------------------------------------------
AuditInit == page = Clean /\ result = Audit(Clean) /\ enriched = FALSE

Defects(p) == MapThenSumSet(LAMBDA d : p[d], DOMAIN p)

\* The site has one more defect, and is analysed again.
Worsen(d) ==
  /\ ~enriched /\ page[d] < Worst[d] /\ Defects(page) < MaxDefects
  /\ page' = [page EXCEPT ![d] = @ + 1]
  /\ result' = Audit(page')
  /\ UNCHANGED enriched

\* PageSpeed answers.
Merge(s) ==
  /\ ~enriched
  /\ result' = Merged(result, s)
  /\ enriched' = TRUE /\ UNCHANGED page

AuditNext ==
  \/ \E d \in DOMAIN Worst : Worsen(d)
  \/ \E s \in [performance : Measures, seo : Measures, accessibility : Measures] : Merge(s)

AuditSpec == AuditInit /\ [][AuditNext]_auditVars
-----------------------------------------------------------------------------
AuditTypeOK ==
  /\ \A d \in DOMAIN Worst : page[d] \in 0..Worst[d]
  /\ \A m \in DOMAIN result.metrics : result.metrics[m] \in 0..100
  /\ result.improvement \in 0..100 /\ enriched \in BOOLEAN

\* A site that has one defect more, or that PageSpeed has measured too, never
\* ranks lower in the list of opportunities (qualification_score only rises):
\* the cascades, caps, clamps and the rounding of analyze_html and
\* _merge_pagespeed never let a worse page look better.
WorseNeverRanksLower == [][result'.improvement >= result.improvement]_auditVars

\* Whatever was found, the film shows the four different parts its engine scene
\* announces, no more than three observations, and no scene that should show
\* cards is empty, even when the operator has deleted every benefit and step.
StoryComplete ==
  LET parts == FindingActions(result.findings)
  IN /\ Len(parts) = 4 /\ IsInjective(parts)
     /\ \A benefits, steps \in {0, 4}, priced \in BOOLEAN :
          LET cards == Cards(result.findings, benefits, steps, priced)
          IN /\ \A s \in DOMAIN cards \ {"opening", "closing"} : cards[s] > 0
             /\ cards.findings <= 3 /\ cards.engine = 4 /\ cards.roadmap <= 5
=============================================================================
