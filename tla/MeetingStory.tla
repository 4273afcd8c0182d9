---------------------------- MODULE MeetingStory ----------------------------
(***************************************************************************)
(* The story of a meeting film (presentation.build_meeting_story), as      *)
(* operators on what it is told of: the keys of the findings in their      *)
(* order, the number of benefits and of timeline steps the proposal has    *)
(* (an operator may have edited all of them away) and whether a package    *)
(* with a price is recommended.                                            *)
(*                                                                         *)
(* Texts are left out; a card is counted, an engine card is its label.     *)
(***************************************************************************)
EXTENDS Integers, Sequences, FiniteSets

\* action_by_key: the label of every finding the analysis can make.
LabelOf ==
  [pagespeed_performance |-> "Tempo", slow_server |-> "Tempo", server_latency |-> "Tempo",
   missing_title |-> "Synlighet", title_length |-> "Synlighet",
   missing_description |-> "Budskap", h1_structure |-> "Struktur",
   structured_data |-> "Fortroende", missing_lang |-> "Tillganglighet",
   image_alt |-> "Tillganglighet", form_labels |-> "Konvertering",
   missing_viewport |-> "Mobil", weak_cta |-> "Konvertering", long_form |-> "Konvertering",
   local_visibility |-> "Relevans", no_https |-> "Trygghet"]

Fallbacks == <<"Budskap", "Bevis", "Konvertering", "Matning">>

Capped(n, most) == IF n < most THEN n ELSE most

\* The only finding whose severity is "positive" is left out.
NonPositive(findings) == {i \in DOMAIN findings : findings[i] # "healthy_baseline"}

\* The n-th element of a set of numbers.
Nth(S, n) == CHOOSE i \in S : Cardinality({j \in S : j <= i}) = n

\* The label of each finding in turn, Skipped where the finding is left out.
Skipped == "skipped"
Labels(findings) ==
  [i \in DOMAIN findings |-> IF i \in NonPositive(findings) THEN LabelOf[findings[i]] ELSE Skipped]

\* What is not in seen when it is its turn.
NewLabels(labels) ==
  {i \in DOMAIN labels : labels[i] # Skipped /\ \A j \in 1..i - 1 : labels[j] # labels[i]}

\* A loop that appends the labels not seen, until there are four.
UpToFour(labels) ==
  [n \in 1..Capped(Cardinality(NewLabels(labels)), 4) |-> labels[Nth(NewLabels(labels), n)]]

\* Mutant of FindingActions: the fallbacks follow whatever is there already.
FindingActionsRepeated(findings) ==
  LET mapped == UpToFour(Labels(findings))
  IN mapped \o SubSeq(Fallbacks, 1, 4 - Len(mapped))

\* _finding_actions: the second loop goes on with what the first has seen.
FindingActions(findings) == UpToFour(Labels(findings) \o Fallbacks)

\* The cards of the scenes, in the order of the scenes.
Cards(findings, benefits, steps, priced) ==
  LET observed == Capped(Cardinality(NonPositive(findings)), 3)
  IN [opening   |-> 0,
      strength  |-> 3,
      signal    |-> 3,
      findings  |-> IF observed = 0 THEN 1 ELSE observed,
      engine    |-> Len(FindingActions(findings)),
      structure |-> 2,
      impact    |-> IF benefits = 0 THEN 3 ELSE Capped(benefits, 3),
      roadmap   |-> (IF steps = 0 THEN 3 ELSE Capped(steps, 3)) + 1 + (IF priced THEN 1 ELSE 0),
      closing   |-> 0]

\* The seconds the nine scenes last.
Durations == <<14, 15, 14, 18, 18, 17, 16, 18, 15>>
=============================================================================
