------------------------- MODULE PresentationProofs -------------------------
(***************************************************************************)
(* Proofs about what an operator is shown.                                 *)
(*   MeetingFilm  the scene shown and the narration stay in step with the  *)
(*                clock, for films of any scenes                           *)
(*   PageAudit    a site with more defects, or measured by PageSpeed too,  *)
(*                never ranks lower; the story of a meeting is complete    *)
(*                whatever the analysis found                              *)
(***************************************************************************)
EXTENDS MeetingFilm, PageAudit, WellFoundedInduction, FiniteSetTheorems, TLAPS

FilmInv == FilmTypeOK /\ FilmInSync

\* What the assumption says of the scenes and the length of the film.
LEMMA FilmFacts ==
  ASSUME FilmAssumption
  PROVE  /\ Len(Lasting) \in Nat \ {0} /\ Scenes = 1..Len(Lasting) /\ 1 \in Scenes
         /\ Starts \in [Scenes -> Nat] /\ Starts[1] = 0
         /\ \A i \in Scenes : Lasting[i] \in Nat \ {0}
         /\ Total \in Nat \ {0}
<1>1. Len(Lasting) \in Nat \ {0} /\ Starts \in [1..Len(Lasting) -> Nat] /\ Starts[1] = 0
  BY DEF FilmAssumption
<1>2. \A i \in 1..Len(Lasting) : Lasting[i] \in Nat \ {0}
  BY DEF FilmAssumption
<1>3. Total \in Nat \ {0}
  BY <1>1, <1>2 DEF FilmAssumption
<1> QED
  BY <1>1, <1>2, <1>3 DEF Scenes

\* A nonempty set of natural numbers has a least element.
LEMMA LeastNatural ==
  ASSUME NEW S \in SUBSET Nat, S # {}
  PROVE  \E k \in S : \A m \in S : k <= m
<1> DEFINE less == {ss \in Nat \X Nat : ss[1] < ss[2]}
<1>1. IsWellFoundedOn(less, Nat)
  BY NatLessThanWellFounded DEF OpToRel
<1>2. PICK k \in S : \A m \in S : ~(<<m, k>> \in less)
  <2> HIDE DEF less
  <2> QED
    BY <1>1, WFMin
<1>3. k \in Nat /\ \A m \in S : m \in Nat /\ ~(m < k)
  BY <1>2
<1>4. \A m \in S : k <= m
  BY <1>3
<1> QED
  BY <1>4

\* At every time some scene is the last that has started.
LEMMA IndexExists ==
  ASSUME FilmAssumption, NEW t \in Nat
  PROVE  /\ IndexAt(t) \in Scenes /\ Starts[IndexAt(t)] <= t
         /\ \A j \in Scenes : Starts[j] <= t => j <= IndexAt(t)
<1> DEFINE n == Len(Lasting)
           S == {k \in Nat : \E i \in Scenes : Starts[i] <= t /\ k = n - i}
<1>1. n - 1 \in S
  BY FilmFacts
<1>2. PICK k \in S : \A m \in S : k <= m
  <2>1. S \in SUBSET Nat /\ S # {}
    BY <1>1
  <2> QED
    BY <2>1, LeastNatural
<1>3. PICK i \in Scenes : Starts[i] <= t /\ k = n - i
  BY <1>2
<1>4. \A j \in Scenes : Starts[j] <= t => j <= i
  <2> SUFFICES ASSUME NEW j \in Scenes, Starts[j] <= t PROVE j <= i
    OBVIOUS
  <2>1. n \in Nat /\ i \in 1..n /\ j \in 1..n
    BY FilmFacts
  <2>2. n - j \in S
    BY <2>1
  <2>3. k <= n - j /\ k = n - i
    BY <1>2, <1>3, <2>2
  <2> QED
    BY <2>1, <2>3
<1> QED
  BY <1>3, <1>4 DEF IndexAt

\* At the beginning that is the first scene.
LEMMA IndexAtStart ==
  ASSUME FilmAssumption
  PROVE  IndexAt(0) = 1
<1>1. \A j \in Scenes : Starts[j] <= 0 => j = 1
  <2> SUFFICES ASSUME NEW j \in Scenes, Starts[j] <= 0, j # 1 PROVE FALSE
    OBVIOUS
  <2>1. j - 1 \in 1..Len(Lasting) - 1 /\ j - 1 \in Scenes
    BY FilmFacts
  <2>2. Starts[(j - 1) + 1] = Starts[j - 1] + Lasting[j - 1]
    BY <2>1 DEF FilmAssumption
  <2>3. Starts[j - 1] \in Nat /\ Lasting[j - 1] \in Nat \ {0} /\ (j - 1) + 1 = j
    BY <2>1, FilmFacts
  <2> QED
    BY <2>2, <2>3
<1> QED
  BY <1>1, IndexExists

\* seek keeps the clock within the film.
LEMMA ClampRange ==
  ASSUME FilmAssumption, NEW t \in Int
  PROVE  Clamp(t) \in 0..Total - 1 /\ Clamp(t) \in Nat
BY FilmFacts DEF Clamp

-----------------------------------------------------------------------------
\* A jump to any time keeps the invariant.
LEMMA SeekInv ==
  ASSUME FilmAssumption, FilmInv, NEW v \in Int, Seek(v)
  PROVE  FilmInv'
<1> USE DEF FilmInv, FilmTypeOK, FilmInSync, ShownMatchesClock, NarrationInSync
<1>1. current' \in 0..Total - 1 /\ active' = IndexAt(current') /\ active' \in Scenes
  BY ClampRange, IndexExists DEF Seek
<1>2. inputs' \in 0..MaxInputs /\ UNCHANGED <<playing, muted>>
  BY DEF Seek, Presses, FilmAssumption
<1>3. speaking' = Speech(active', playing, muted)
  BY DEF Seek
<1>4. speaking' \in Scenes \cup {0} /\ (speaking' # 0 => playing /\ ~muted /\ speaking' = active')
  BY <1>1, <1>3 DEF Speech
<1> QED
  BY <1>1, <1>2, <1>4

\* The initial state: the first scene, in silence.
LEMMA FilmInitInv ==
  ASSUME FilmAssumption, FilmInit
  PROVE  FilmInv
<1>1. current = 0 /\ active = 1 /\ speaking = 0 /\ inputs = 0 /\ playing = FALSE /\ muted = FALSE
  BY DEF FilmInit
<1>2. FilmTypeOK
  <2>1. current \in 0..Total - 1 /\ active \in Scenes /\ speaking \in Scenes \cup {0}
    BY <1>1, FilmFacts
  <2>2. inputs \in 0..MaxInputs
    BY <1>1 DEF FilmAssumption
  <2>3. playing \in BOOLEAN /\ muted \in BOOLEAN
    BY <1>1
  <2> QED
    BY <2>1, <2>2, <2>3 DEF FilmTypeOK
<1>3. IndexAt(current) = 1
  BY <1>1, IndexAtStart
<1> QED
  BY <1>1, <1>2, <1>3 DEF FilmInv, FilmInSync, ShownMatchesClock, NarrationInSync

\* Every step keeps the invariant.
LEMMA FilmNextInv ==
  ASSUME FilmAssumption, FilmInv, [FilmNext]_filmVars
  PROVE  FilmInv'
<1> USE DEF FilmInv, FilmTypeOK, FilmInSync, ShownMatchesClock, NarrationInSync
<1>1. CASE StartFilm
  <2>1. current' = 0 /\ active' = 1 /\ IndexAt(0) = 1
    BY <1>1, IndexAtStart DEF StartFilm
  <2>2. speaking' \in {0, 1} /\ (speaking' # 0 => ~muted) /\ playing' /\ muted' = muted
    BY <1>1 DEF StartFilm, Speech
  <2>3. inputs' \in 0..MaxInputs
    BY <1>1 DEF StartFilm, Presses, FilmAssumption
  <2> QED
    BY <2>1, <2>2, <2>3, FilmFacts
<1>2. CASE TogglePlay
  <2>1. speaking' \in Scenes \cup {0} /\ (speaking' # 0 => ~playing /\ ~muted /\ speaking' = active)
    BY <1>2 DEF TogglePlay, Speech
  <2>2. inputs' \in 0..MaxInputs
    BY <1>2 DEF TogglePlay, Presses, FilmAssumption
  <2> QED
    BY <1>2, <2>1, <2>2 DEF TogglePlay
<1>3. CASE Progress
  <2>1. PICK v \in 0..Total : Seek(v)
    BY <1>3 DEF Progress
  <2> QED
    BY <2>1, SeekInv, FilmFacts
<1>4. CASE Previous \/ Onward
  <2>1. IndexAt(current) \in Scenes
    BY IndexExists, FilmFacts
  <2>2. /\ Starts[IF IndexAt(current) = 1 THEN 1 ELSE IndexAt(current) - 1] \in Int
        /\ Starts[IF IndexAt(current) = Len(Lasting) THEN Len(Lasting) ELSE IndexAt(current) + 1] \in Int
    BY <2>1, FilmFacts
  <2> QED
    BY <1>4, <2>2, SeekInv DEF Previous, Onward
<1>5. CASE Arrow
  <2>1. current - 5 \in Int /\ current + 5 \in Int
    BY FilmFacts
  <2> QED
    BY <1>5, <2>1, SeekInv DEF Arrow
<1>6. CASE Mute
  <2>1. speaking' \in Scenes \cup {0} /\ (speaking' # 0 => playing /\ ~muted' /\ speaking' = active)
    BY <1>6 DEF Mute, Speech
  <2>2. inputs' \in 0..MaxInputs
    BY <1>6 DEF Mute, Presses, FilmAssumption
  <2> QED
    BY <1>6, <2>1, <2>2 DEF Mute
<1>7. CASE AnyFrame
  <2>1. PICK delta \in Deltas : Frame(delta)
    BY <1>7 DEF AnyFrame
  <2>2. current + delta \in Int
    BY <2>1, FilmFacts DEF FilmAssumption
  <2>3. current' \in 0..Total - 1 /\ active' = IndexAt(current') /\ active' \in Scenes
    BY <2>1, <2>2, ClampRange, IndexExists DEF Frame
  <2>4. playing' \in BOOLEAN /\ speaking' \in Scenes \cup {0}
    BY <2>1, <2>3 DEF Frame, Speech
  <2>5. speaking' # 0 => playing' /\ ~muted /\ speaking' = active'
    BY <2>1 DEF Frame, Speech
  <2> QED
    BY <2>1, <2>3, <2>4, <2>5 DEF Frame
<1>8. CASE NarrationEnds
  BY <1>8 DEF NarrationEnds
<1>9. CASE UNCHANGED filmVars
  BY <1>9 DEF filmVars
<1> QED
  BY <1>1, <1>2, <1>3, <1>4, <1>5, <1>6, <1>7, <1>8, <1>9 DEF FilmNext

-----------------------------------------------------------------------------
\* The player's state has its types: in particular seek, frame and start never
\* leave the clock outside the film.
THEOREM FilmTypeCorrect ==
  ASSUME FilmAssumption
  PROVE  FilmSpec => []FilmTypeOK
<1>1. FilmInit => FilmInv
  BY FilmInitInv
<1>2. FilmInv /\ [FilmNext]_filmVars => FilmInv'
  BY FilmNextInv
<1>3. FilmInv => FilmTypeOK
  BY DEF FilmInv
<1> QED
  BY <1>1, <1>2, <1>3, PTL DEF FilmSpec

\* show, update and speak keep the scene on the screen, the clock and the
\* narration in step after any frames, clicks and keys, in any film.
THEOREM SyncTheorem ==
  ASSUME FilmAssumption
  PROVE  FilmSpec => []FilmInSync
<1>1. FilmInit => FilmInv
  BY FilmInitInv
<1>2. FilmInv /\ [FilmNext]_filmVars => FilmInv'
  BY FilmNextInv
<1>3. FilmInv => FilmInSync
  BY DEF FilmInv
<1> QED
  BY <1>1, <1>2, <1>3, PTL DEF FilmSpec
-----------------------------------------------------------------------------
(***************************************************************************)
(* PageAudit: every part of the score falls, or stays, with every defect.  *)
(***************************************************************************)
\* A quarter, and a half, to the nearest integer.
LEMMA Quarters ==
  ASSUME NEW x \in Nat
  PROVE  Rounded(x, 4) \in Nat /\ 4 * Rounded(x, 4) <= x + 2
<1>1. x \div 4 \in Nat /\ x % 4 \in 0..3 /\ x = 4 * (x \div 4) + (x % 4)
  BY Z3
<1> QED
  BY <1>1 DEF Rounded

LEMMA Halves ==
  ASSUME NEW x \in Nat
  PROVE  Rounded(x, 2) \in Nat /\ 2 * Rounded(x, 2) <= x + 1
<1>1. x \div 2 \in Nat /\ x % 2 \in 0..1 /\ x = 2 * (x \div 2) + (x % 2)
  BY Z3
<1> QED
  BY <1>1 DEF Rounded

\* Rounding to the even neighbour keeps the order.
LEMMA QuartersRise ==
  ASSUME NEW x \in Nat, NEW y \in Nat, x <= y
  PROVE  Rounded(x, 4) <= Rounded(y, 4)
<1>1. /\ x \div 4 \in Nat /\ x % 4 \in 0..3 /\ x = 4 * (x \div 4) + (x % 4)
      /\ y \div 4 \in Nat /\ y % 4 \in 0..3 /\ y = 4 * (y \div 4) + (y % 4)
  BY Z3
<1>2. CASE x \div 4 = y \div 4
  BY <1>1, <1>2 DEF Rounded
<1>3. CASE x \div 4 < y \div 4
  BY <1>1, <1>3 DEF Rounded
<1> QED
  BY <1>1, <1>2, <1>3

\* The clamps and the caps.
LEMMA PercentRises ==
  ASSUME NEW m \in Int, NEW n \in Int, m <= n
  PROVE  Percent(m) \in 0..100 /\ Percent(n) \in 0..100 /\ Percent(m) <= Percent(n)
BY DEF Percent, Capped, Larger

LEMMA AltPenaltyRises ==
  ASSUME NEW a \in Nat, NEW b \in Nat, a <= b
  PROVE  AltPenalty(a) \in Nat /\ AltPenalty(b) \in Nat /\ AltPenalty(a) <= AltPenalty(b)
<1>1. /\ 10 * Images + 25 * a \in Nat /\ 10 * Images + 25 * b \in Nat /\ Images = 4
      /\ 10 * Images + 25 * a <= 10 * Images + 25 * b
  BY DEF Images
<1>2. /\ Rounded(10 * Images + 25 * a, Images) \in Nat /\ Rounded(10 * Images + 25 * b, Images) \in Nat
      /\ Rounded(10 * Images + 25 * a, Images) <= Rounded(10 * Images + 25 * b, Images)
  BY <1>1, Quarters, QuartersRise
<1> QED
  BY <1>2 DEF AltPenalty, Capped

Pages == [DOMAIN Worst -> Nat]
Percents == [performance : 0..100, seo : 0..100, accessibility : 0..100, mobile : 0..100]

\* p is nowhere better than q.
NoBetter(q, p) == \A d \in DOMAIN Worst : q[d] <= p[d]

\* No metric rises with a defect.
LEMMA MetricsFall ==
  ASSUME NEW q \in Pages, NEW p \in Pages, NoBetter(q, p)
  PROVE  /\ Metrics(q) \in Percents /\ Metrics(p) \in Percents
         /\ Metrics(p).performance <= Metrics(q).performance /\ Metrics(p).seo <= Metrics(q).seo
         /\ Metrics(p).accessibility <= Metrics(q).accessibility /\ Metrics(p).mobile <= Metrics(q).mobile
<1>1. ASSUME NEW d \in DOMAIN Worst PROVE q[d] \in Nat /\ p[d] \in Nat /\ q[d] <= p[d]
  BY DEF Pages, NoBetter
<1>2. /\ q.https \in Nat /\ p.https \in Nat /\ q.https <= p.https
      /\ q.fetch \in Nat /\ p.fetch \in Nat /\ q.fetch <= p.fetch
      /\ q.bytes \in Nat /\ p.bytes \in Nat /\ q.bytes <= p.bytes
      /\ q.scripts \in Nat /\ p.scripts \in Nat /\ q.scripts <= p.scripts
      /\ q.gallery \in Nat /\ p.gallery \in Nat /\ q.gallery <= p.gallery
  BY <1>1 DEF Worst
<1>3. /\ q.title \in Nat /\ p.title \in Nat /\ q.title <= p.title
      /\ q.description \in Nat /\ p.description \in Nat /\ q.description <= p.description
      /\ q.h1 \in Nat /\ p.h1 \in Nat /\ q.h1 <= p.h1
      /\ q.json_ld \in Nat /\ p.json_ld \in Nat /\ q.json_ld <= p.json_ld
      /\ q.lang \in Nat /\ p.lang \in Nat /\ q.lang <= p.lang
  BY <1>1 DEF Worst
<1>4. /\ q.images \in Nat /\ p.images \in Nat /\ q.images <= p.images
      /\ q.inputs \in Nat /\ p.inputs \in Nat /\ q.inputs <= p.inputs
      /\ q.viewport \in Nat /\ p.viewport \in Nat /\ q.viewport <= p.viewport
  BY <1>1 DEF Worst
<1> DEFINE perf(r) == 100 - 8 * r.https - Graded(r.fetch, 18, 34) - Graded(r.bytes, 8, 18)
                          - Graded(r.scripts, 8, 16) - 8 * r.gallery
           seo(r)  == 100 - Graded(r.title, 10, 24) - 18 * r.description - 14 * r.h1
                          - 10 * r.json_ld - 4 * r.lang - 10 * r.https
           acc(r)  == 100 - 12 * r.lang - AltPenalty(r.images) - Capped(6 * r.inputs, 25)
           mob(r)  == 100 - 42 * r.viewport
<1>5. perf(q) \in Int /\ perf(p) \in Int /\ perf(p) <= perf(q)
  <2>1. /\ Graded(q.fetch, 18, 34) \in Nat /\ Graded(p.fetch, 18, 34) \in Nat
        /\ Graded(q.fetch, 18, 34) <= Graded(p.fetch, 18, 34)
    BY <1>2 DEF Graded
  <2>2. /\ Graded(q.bytes, 8, 18) \in Nat /\ Graded(p.bytes, 8, 18) \in Nat
        /\ Graded(q.bytes, 8, 18) <= Graded(p.bytes, 8, 18)
    BY <1>2 DEF Graded
  <2>3. /\ Graded(q.scripts, 8, 16) \in Nat /\ Graded(p.scripts, 8, 16) \in Nat
        /\ Graded(q.scripts, 8, 16) <= Graded(p.scripts, 8, 16)
    BY <1>2 DEF Graded
  <2> QED
    BY <1>2, <2>1, <2>2, <2>3
<1>6. seo(q) \in Int /\ seo(p) \in Int /\ seo(p) <= seo(q)
  <2>1. /\ Graded(q.title, 10, 24) \in Nat /\ Graded(p.title, 10, 24) \in Nat
        /\ Graded(q.title, 10, 24) <= Graded(p.title, 10, 24)
    BY <1>3 DEF Graded
  <2> QED
    BY <1>2, <1>3, <2>1
<1>7. acc(q) \in Int /\ acc(p) \in Int /\ acc(p) <= acc(q)
  <2>1. AltPenalty(q.images) \in Nat /\ AltPenalty(p.images) \in Nat
        /\ AltPenalty(q.images) <= AltPenalty(p.images)
    BY <1>4, AltPenaltyRises
  <2>2. /\ Capped(6 * q.inputs, 25) \in Nat /\ Capped(6 * p.inputs, 25) \in Nat
        /\ Capped(6 * q.inputs, 25) <= Capped(6 * p.inputs, 25)
    BY <1>4 DEF Capped
  <2> QED
    BY <1>3, <1>4, <2>1, <2>2
<1>8. mob(q) \in Int /\ mob(p) \in Int /\ mob(p) <= mob(q)
  BY <1>4
<1>9. ASSUME NEW r
      PROVE  Metrics(r) = [performance |-> Percent(perf(r)), seo |-> Percent(seo(r)),
                           accessibility |-> Percent(acc(r)), mobile |-> Percent(mob(r))]
  BY DEF Metrics
<1> HIDE DEF perf, seo, acc, mob
<1>10. /\ Percent(perf(q)) \in 0..100 /\ Percent(perf(p)) \in 0..100 /\ Percent(perf(p)) <= Percent(perf(q))
       /\ Percent(seo(q)) \in 0..100 /\ Percent(seo(p)) \in 0..100 /\ Percent(seo(p)) <= Percent(seo(q))
       /\ Percent(acc(q)) \in 0..100 /\ Percent(acc(p)) \in 0..100 /\ Percent(acc(p)) <= Percent(acc(q))
       /\ Percent(mob(q)) \in 0..100 /\ Percent(mob(p)) \in 0..100 /\ Percent(mob(p)) <= Percent(mob(q))
  BY <1>5, <1>6, <1>7, <1>8, PercentRises
<1> QED
  BY <1>9, <1>10 DEF Percents

\* No finding goes away with a defect.
LEMMA FindingsGrow ==
  ASSUME NEW q \in Pages, NEW p \in Pages, NoBetter(q, p)
  PROVE  /\ Len(FoundOn(q)) \in Nat /\ Len(FoundOn(p)) \in Nat
         /\ Len(FoundOn(q)) <= Len(FoundOn(p))
<1>1. ASSUME NEW r PROVE IsFiniteSet(Faults(r)) /\ Cardinality(Faults(r)) \in Nat
                         /\ Len(FoundOn(r)) = Cardinality(Faults(r))
  <2>1. PICK n \in Nat : DOMAIN Telling = 1..n
    BY DEF Telling
  <2>2. IsFiniteSet(1..n) /\ Faults(r) \subseteq 1..n
    BY <2>1, FS_Interval DEF Faults
  <2>3. IsFiniteSet(Faults(r)) /\ Cardinality(Faults(r)) \in Nat
    BY <2>2, FS_Subset, FS_CardinalityType
  <2>4. Len(FoundOn(r)) = Cardinality(Faults(r))
    BY <2>3 DEF FoundOn
  <2> QED
    BY <2>3, <2>4
<1>2. Faults(q) \subseteq Faults(p)
  <2>1. ASSUME NEW i \in DOMAIN Telling PROVE Telling[i] \in DOMAIN Worst
    BY DEF Telling, Worst
  <2>2. ASSUME NEW d \in DOMAIN Worst PROVE q[d] \in Nat /\ p[d] \in Nat /\ q[d] <= p[d]
    BY DEF Pages, NoBetter
  <2>3. ASSUME NEW i \in DOMAIN Telling, q[Telling[i]] > 0 PROVE p[Telling[i]] > 0
    <3>1. PICK d \in DOMAIN Worst : d = Telling[i]
      BY <2>1
    <3> QED
      BY <2>2, <2>3, <3>1
  <2> QED
    BY <2>3 DEF Faults
<1> QED
  BY <1>1, <1>2, FS_Subset

\* The distance from a site without fault.
LEMMA DeficitRises ==
  ASSUME NEW m \in Percents, NEW n \in Percents,
         n.performance <= m.performance, n.seo <= m.seo, n.accessibility <= m.accessibility, n.mobile <= m.mobile
  PROVE  Deficit(m) \in 0..100 /\ Deficit(n) \in 0..100 /\ Deficit(m) <= Deficit(n)
<1>1. PICK a1 \in 0..100, a2 \in 0..100, a3 \in 0..100, a4 \in 0..100 :
        m = [performance |-> a1, seo |-> a2, accessibility |-> a3, mobile |-> a4]
  BY DEF Percents
<1>2. PICK b1 \in 0..100, b2 \in 0..100, b3 \in 0..100, b4 \in 0..100 :
        n = [performance |-> b1, seo |-> b2, accessibility |-> b3, mobile |-> b4]
  BY DEF Percents
<1>3. b1 <= a1 /\ b2 <= a2 /\ b3 <= a3 /\ b4 <= a4
  BY <1>1, <1>2
<1>4. PICK a, b : a = 400 - a1 - a2 - a3 - a4 /\ b = 400 - b1 - b2 - b3 - b4
  OBVIOUS
<1>5. a \in Nat /\ b \in Nat /\ a <= b /\ b <= 400
  BY <1>3, <1>4
<1>6. Deficit(m) = Rounded(a, 4) /\ Deficit(n) = Rounded(b, 4)
  BY <1>1, <1>2, <1>4 DEF Deficit
<1>7. /\ Rounded(a, 4) \in Nat /\ Rounded(b, 4) \in Nat /\ 4 * Rounded(b, 4) <= b + 2
      /\ Rounded(a, 4) <= Rounded(b, 4)
  BY <1>5, Quarters, QuartersRise
<1> QED
  BY <1>5, <1>6, <1>7

\* The larger of the deficit and the weight of the findings, within bounds.
Opportunity(deficit, found) == Capped(Larger(deficit, Capped(45 + 6 * found, 95)), 100)

LEMMA OpportunityRises ==
  ASSUME NEW d \in 0..100, NEW e \in 0..100, d <= e, NEW i \in Nat, NEW j \in Nat, i <= j
  PROVE  /\ Opportunity(d, i) \in 0..100 /\ Opportunity(e, j) \in 0..100
         /\ Opportunity(d, i) <= Opportunity(e, j)
<1>1. /\ Capped(45 + 6 * i, 95) \in 0..95 /\ Capped(45 + 6 * j, 95) \in 0..95
      /\ Capped(45 + 6 * i, 95) <= Capped(45 + 6 * j, 95)
  BY DEF Capped
<1>2. /\ Larger(d, Capped(45 + 6 * i, 95)) \in 0..100 /\ Larger(e, Capped(45 + 6 * j, 95)) \in 0..100
      /\ Larger(d, Capped(45 + 6 * i, 95)) <= Larger(e, Capped(45 + 6 * j, 95))
  BY <1>1 DEF Larger
<1> QED
  BY <1>2 DEF Opportunity, Capped

\* What an analysis says of a page, and of one that is no better.
LEMMA AuditRises ==
  ASSUME NEW q \in Pages, NEW p \in Pages, NoBetter(q, p)
  PROVE  /\ Audit(p).metrics \in Percents
         /\ Audit(q).improvement \in 0..100 /\ Audit(p).improvement \in 0..100
         /\ Audit(q).improvement <= Audit(p).improvement
<1>1. /\ Metrics(p) \in Percents
      /\ Deficit(Metrics(q)) \in 0..100 /\ Deficit(Metrics(p)) \in 0..100
      /\ Deficit(Metrics(q)) <= Deficit(Metrics(p))
  BY MetricsFall, DeficitRises
<1>2. /\ Len(FoundOn(q)) \in Nat /\ Len(FoundOn(p)) \in Nat /\ Len(FoundOn(q)) <= Len(FoundOn(p))
  BY FindingsGrow
<1>3. /\ Audit(q).improvement = Opportunity(Deficit(Metrics(q)), Len(FoundOn(q)))
      /\ Audit(p).improvement = Opportunity(Deficit(Metrics(p)), Len(FoundOn(p)))
      /\ Audit(p).metrics = Metrics(p)
  BY DEF Audit, Opportunity
<1>4. ASSUME NEW d \in 0..100, NEW e \in 0..100, NEW i \in Nat, NEW j \in Nat, d <= e, i <= j
      PROVE  /\ Opportunity(d, i) \in 0..100 /\ Opportunity(e, j) \in 0..100
             /\ Opportunity(d, i) <= Opportunity(e, j)
  BY <1>4, OpportunityRises
<1>5. /\ Opportunity(Deficit(Metrics(q)), Len(FoundOn(q))) \in 0..100
      /\ Opportunity(Deficit(Metrics(p)), Len(FoundOn(p))) \in 0..100
      /\ Opportunity(Deficit(Metrics(q)), Len(FoundOn(q))) <= Opportunity(Deficit(Metrics(p)), Len(FoundOn(p)))
  BY <1>1, <1>2, <1>4, Zenon
<1> QED
  BY <1>1, <1>3, <1>5

\* What PageSpeed makes of the metrics.
LEMMA OverwrittenFacts ==
  ASSUME AuditAssumption, NEW m \in Percents,
         NEW s \in [performance : Measures, seo : Measures, accessibility : Measures]
  PROVE  Overwritten(m, s) \in Percents
<1> DEFINE or(new, old) == IF new = Unmeasured THEN old ELSE Percent(new)
<1>1. ASSUME NEW new \in Measures, NEW old \in 0..100 PROVE or(new, old) \in 0..100
  <2>1. CASE new = Unmeasured
    BY <2>1
  <2>2. CASE new # Unmeasured
    <3>1. new \in Int
      BY <2>2 DEF AuditAssumption
    <3> QED
      BY <2>2, <3>1, PercentRises
  <2> QED
    BY <2>1, <2>2
<1>2. PICK p, e : p = or(s.performance, m.performance) /\ e = or(s.accessibility, m.accessibility)
  OBVIOUS
<1>3. Overwritten(m, s) = [performance |-> p, seo |-> or(s.seo, m.seo), accessibility |-> e,
                           mobile |-> Rounded(p + e, 2)]
  BY <1>2 DEF Overwritten
<1> HIDE DEF or
<1>4. p \in 0..100 /\ e \in 0..100 /\ or(s.seo, m.seo) \in 0..100
  BY <1>1, <1>2 DEF Percents
<1>5. PICK x \in Nat : x = p + e /\ x <= 200
  BY <1>4
<1>6. Rounded(x, 2) \in 0..100
  <2>1. Rounded(x, 2) \in Nat /\ 2 * Rounded(x, 2) <= x + 1
    BY Halves
  <2> QED
    BY <1>5, <2>1
<1> QED
  BY <1>3, <1>4, <1>5, <1>6 DEF Percents

AuditInv ==
  /\ page \in Pages /\ AuditTypeOK /\ result.metrics \in Percents
  /\ ~enriched => result = Audit(page)

\* The steps of an audit: what they keep, and that the site ranks no lower.
LEMMA AuditSteps ==
  ASSUME AuditAssumption, AuditInv, AuditNext
  PROVE  AuditInv' /\ result'.improvement >= result.improvement
<1>1. ASSUME NEW m \in Percents PROVE \A f \in DOMAIN m : m[f] \in 0..100
  BY DEF Percents
<1>2. ASSUME NEW d \in DOMAIN Worst, Worsen(d)
      PROVE  AuditInv' /\ result'.improvement >= result.improvement
  <2>1. /\ page \in Pages /\ ~enriched /\ page[d] < Worst[d] /\ page' = [page EXCEPT ![d] = @ + 1]
        /\ result' = Audit(page') /\ enriched' = enriched /\ result = Audit(page)
    BY <1>2 DEF Worsen, AuditInv
  <2>2. \A e \in DOMAIN Worst : page[e] \in 0..Worst[e] /\ page[e] \in Nat /\ Worst[e] \in Nat
    BY DEF AuditInv, AuditTypeOK, Pages, Worst, Images
  <2>3. /\ page' \in Pages /\ NoBetter(page, page')
        /\ \A e \in DOMAIN Worst : page'[e] \in 0..Worst[e]
    BY <2>1, <2>2 DEF Pages, NoBetter
  <2>4. /\ Audit(page').metrics \in Percents /\ Audit(page').improvement \in 0..100
        /\ Audit(page).improvement \in 0..100 /\ Audit(page).improvement <= Audit(page').improvement
    BY <2>1, <2>3, AuditRises
  <2>5. result'.improvement >= result.improvement
    BY <2>1, <2>4
  <2> QED
    BY <1>1, <2>1, <2>3, <2>4, <2>5 DEF AuditInv, AuditTypeOK
<1>3. ASSUME NEW s \in [performance : Measures, seo : Measures, accessibility : Measures], Merge(s)
      PROVE  AuditInv' /\ result'.improvement >= result.improvement
  <2>1. enriched' = TRUE /\ page' = page /\ result' = Merged(result, s)
    BY <1>3 DEF Merge
  <2>2. result.metrics \in Percents /\ result.improvement \in 0..100
    BY DEF AuditInv, AuditTypeOK
  <2>3. PICK m \in Percents : m = Overwritten(result.metrics, s)
    BY <2>2, OverwrittenFacts
  <2>4. Deficit(m) \in 0..100
    <3>1. m.performance <= m.performance /\ m.seo <= m.seo /\ m.accessibility <= m.accessibility
          /\ m.mobile <= m.mobile
      BY DEF Percents
    <3> QED
      BY <3>1, DeficitRises
  <2>5. result'.metrics = m /\ result'.improvement = Larger(result.improvement, Deficit(m))
    BY <2>1, <2>3 DEF Merged
  <2>6. result'.improvement \in 0..100 /\ result'.improvement >= result.improvement
    BY <2>2, <2>4, <2>5 DEF Larger
  <2> QED
    BY <1>1, <2>1, <2>3, <2>5, <2>6 DEF AuditInv, AuditTypeOK
<1> QED
  BY <1>2, <1>3 DEF AuditNext

\* The types of the audit and that its result is that of the page.
THEOREM AuditInvariant == ASSUME AuditAssumption PROVE AuditSpec => []AuditInv
<1>1. ASSUME AuditInit PROVE AuditInv
  <2>1. page = Clean /\ result = Audit(page) /\ enriched = FALSE
    BY <1>1 DEF AuditInit
  <2>2. page \in Pages /\ NoBetter(page, page) /\ \A d \in DOMAIN Worst : page[d] \in 0..Worst[d]
    BY <2>1 DEF Pages, NoBetter, Clean, Worst, Images
  <2>3. result.metrics \in Percents /\ result.improvement \in 0..100
    BY <2>1, <2>2, AuditRises
  <2>4. \A f \in DOMAIN result.metrics : result.metrics[f] \in 0..100
    BY <2>3 DEF Percents
  <2> QED
    BY <2>1, <2>2, <2>3, <2>4 DEF AuditInv, AuditTypeOK
<1>2. ASSUME AuditInv, [AuditNext]_auditVars PROVE AuditInv'
  <2>1. CASE UNCHANGED auditVars
    BY <1>2, <2>1 DEF auditVars, AuditInv, AuditTypeOK
  <2> QED
    BY <1>2, <2>1, AuditSteps
<1> QED
  BY <1>1, <1>2, PTL DEF AuditSpec

\* The types of PageAudit: metrics and improvement are percentages.
THEOREM AuditTypeCorrect == ASSUME AuditAssumption PROVE AuditSpec => []AuditTypeOK
<1>1. AuditInv => AuditTypeOK
  BY DEF AuditInv
<1> QED
  BY <1>1, AuditInvariant, PTL

\* However many defects come together, one more, or PageSpeed's word, never
\* makes a site rank lower (analyze_html, _merge_pagespeed), for any answers
\* of PageSpeed.
THEOREM WorseRanksNoLower == ASSUME AuditAssumption PROVE AuditSpec => WorseNeverRanksLower
<1>1. ASSUME AuditInv, [AuditNext]_auditVars PROVE [result'.improvement >= result.improvement]_auditVars
  BY <1>1, AuditSteps
<1> QED
  BY <1>1, AuditInvariant, PTL DEF WorseNeverRanksLower, AuditSpec
-----------------------------------------------------------------------------
\* A finite set of numbers has an n-th element, up to which there are n.
LEMMA NthFacts ==
  ASSUME NEW S \in SUBSET Nat, IsFiniteSet(S), NEW n \in 1..Cardinality(S)
  PROVE  Nth(S, n) \in S /\ Cardinality({j \in S : j <= Nth(S, n)}) = n
<1> DEFINE upTo(i) == {j \in S : j <= i}
           rank == [i \in S |-> Cardinality(upTo(i))]
           c == Cardinality(S)
<1>1. c \in Nat /\ IsFiniteSet(1..c) /\ Cardinality(1..c) = c
  BY FS_CardinalityType, FS_Interval
<1>2. ASSUME NEW i \in S PROVE IsFiniteSet(upTo(i)) /\ Cardinality(upTo(i)) \in 1..c
  <2>1. upTo(i) \in SUBSET S /\ i \in upTo(i)
    OBVIOUS
  <2>2. /\ IsFiniteSet(upTo(i)) /\ Cardinality(upTo(i)) <= c
        /\ Cardinality(upTo(i)) \in Nat
    BY <2>1, FS_Subset, FS_CardinalityType
  <2>3. Cardinality(upTo(i)) # 0
    BY <2>1, <2>2, FS_EmptySet
  <2> QED
    BY <1>1, <2>2, <2>3
<1>3. ASSUME NEW i \in S, NEW k \in S, i < k PROVE rank[i] # rank[k]
  <2>1. upTo(i) \in SUBSET upTo(k) /\ k \in upTo(k) /\ k \notin upTo(i)
    <3>1. i \in Nat /\ k \in Nat /\ k <= k /\ ~(k <= i)
      BY <1>3
    <3>2. \A j \in S : j <= i => j <= k
      BY <1>3
    <3> QED
      BY <3>1, <3>2
  <2> HIDE DEF upTo
  <2> QED
    BY <1>2, <2>1, FS_Subset
<1>4. rank \in Injection(S, 1..c)
  <2>1. rank \in [S -> 1..c]
    BY <1>2
  <2>2. ASSUME NEW i \in S, NEW k \in S, rank[i] = rank[k] PROVE i = k
    <3>1. ~(i < k) /\ ~(k < i)
      BY <1>3, <2>2
    <3>2. i \in Nat /\ k \in Nat
      OBVIOUS
    <3> QED
      BY <3>1, <3>2
  <2> HIDE DEF rank
  <2> QED
    BY <2>1, <2>2 DEF Injection, IsInjective
<1>5. rank \in Surjection(S, 1..c)
  BY <1>1, <1>4, FS_Injection
<1>6. PICK ranked \in S : rank[ranked] = n
  BY <1>5 DEF Surjection
<1>7. \E i \in S : Cardinality({j \in S : j <= i}) = n
  BY <1>6
<1> QED
  BY <1>7 DEF Nth

\* What the analysis can find has a label in the story, or is the baseline.
StoryKeys == DOMAIN LabelOf \cup {"healthy_baseline"}

\* Each respect in which a page is bad has a key with a label.
LEMMA FindingKnown ==
  ASSUME NEW p, \A d \in DOMAIN Worst : p[d] \in 0..Worst[d], NEW i \in Faults(p)
  PROVE  Finding(p, i) \in DOMAIN LabelOf
<1>1. i \in DOMAIN Telling /\ p[Telling[i]] > 0
  BY DEF Faults
<1>2. Telling[i] \in DOMAIN Worst
  BY <1>1 DEF Telling, Worst
<1>3. p[Telling[i]] \in 0..Worst[Telling[i]] /\ Worst[Telling[i]] \in Nat
  BY <1>2 DEF Worst, Images
<1> DEFINE keys == KeyOf[Telling[i]]
<1>4. /\ Len(keys) \in {1, 2} /\ keys[1] \in DOMAIN LabelOf
      /\ Len(keys) = 2 => keys[2] \in DOMAIN LabelOf
  <2> USE DEF Telling, KeyOf, LabelOf
  <2>1. i \in 1..13
    BY <1>1
  <2>2. CASE i \in 1..4
    BY <2>2
  <2>3. CASE i \in 5..9
    BY <2>3
  <2>4. CASE i \in 10..13
    BY <2>4
  <2> QED
    BY <2>1, <2>2, <2>3, <2>4
<1> HIDE DEF keys
<1>5. Capped(p[Telling[i]], Len(keys)) \in 1..Len(keys)
  BY <1>1, <1>3, <1>4 DEF Capped
<1> QED
  BY <1>4, <1>5 DEF Finding, keys

\* An analysis reports findings the story knows.
LEMMA AuditTold ==
  ASSUME NEW p, \A d \in DOMAIN Worst : p[d] \in 0..Worst[d]
  PROVE  Audit(p).findings \in Seq(StoryKeys)
<1> DEFINE n == Cardinality(Faults(p))
<1>1. IsFiniteSet(Faults(p)) /\ Faults(p) \in SUBSET Nat /\ n \in Nat
  <2>1. PICK m \in Nat : DOMAIN Telling = 1..m
    BY DEF Telling
  <2>2. IsFiniteSet(1..m) /\ Faults(p) \in SUBSET (1..m)
    BY <2>1, FS_Interval DEF Faults
  <2> QED
    BY <2>2, FS_Subset, FS_CardinalityType
<1>2. ASSUME NEW k \in 1..n PROVE Finding(p, Nth(Faults(p), k)) \in StoryKeys
  BY <1>1, NthFacts, FindingKnown DEF StoryKeys
<1>3. FoundOn(p) \in [1..n -> StoryKeys]
  BY <1>2 DEF FoundOn
<1>4. FoundOn(p) \in Seq(StoryKeys)
  BY <1>1, <1>3
<1>5. <<"healthy_baseline">> \in Seq(StoryKeys)
  BY DEF StoryKeys
<1> QED
  BY <1>4, <1>5 DEF Audit

\* The findings, of an analysis or merged with PageSpeed's, are known to the story.
LEMMA FindingsTold == ASSUME AuditAssumption PROVE AuditSpec => [](result.findings \in Seq(StoryKeys))
<1> DEFINE Told == result.findings \in Seq(StoryKeys)
<1>1. ASSUME AuditInit PROVE Told
  <2>1. \A d \in DOMAIN Worst : Clean[d] \in 0..Worst[d]
    BY DEF Clean, Worst, Images
  <2> QED
    BY <1>1, <2>1, AuditTold DEF AuditInit
<1>2. ASSUME AuditInv, AuditInv', Told, [AuditNext]_auditVars PROVE Told'
  <2>1. CASE UNCHANGED auditVars
    BY <1>2, <2>1 DEF auditVars
  <2>2. ASSUME NEW d \in DOMAIN Worst, Worsen(d) PROVE Told'
    BY <1>2, <2>2, AuditTold DEF Worsen, AuditInv, AuditTypeOK
  <2>3. ASSUME NEW s, Merge(s) PROVE Told'
    <3>1. PICK m : result'.findings = MergedFindings(m, result.findings)
      BY <2>3 DEF Merge, Merged
    <3>2. <<"pagespeed_performance">> \in Seq(StoryKeys)
      BY DEF StoryKeys, LabelOf
    <3> QED
      BY <1>2, <3>1, <3>2 DEF MergedFindings
  <2> QED
    BY <1>2, <2>1, <2>2, <2>3 DEF AuditNext
<1> QED
  BY <1>1, <1>2, AuditInvariant, PTL DEF AuditSpec

\* The four fallbacks are different, and none is the mark of a finding left out.
LEMMA FallbackFacts ==
  /\ Fallbacks \in [1..4 -> {"Budskap", "Bevis", "Konvertering", "Matning"}]
  /\ \A k \in 1..4 : Fallbacks[k] # Skipped
  /\ \A k, l \in 1..4 : Fallbacks[k] = Fallbacks[l] => k = l
<1>1. /\ Fallbacks[1] = "Budskap" /\ Fallbacks[2] = "Bevis"
      /\ Fallbacks[3] = "Konvertering" /\ Fallbacks[4] = "Matning"
  BY DEF Fallbacks
<1>2. Fallbacks \in [1..4 -> {"Budskap", "Bevis", "Konvertering", "Matning"}]
  BY DEF Fallbacks
<1>3. \A k \in 1..4 : k = 1 \/ k = 2 \/ k = 3 \/ k = 4
  OBVIOUS
<1>4. "Budskap" # Skipped /\ "Bevis" # Skipped /\ "Konvertering" # Skipped /\ "Matning" # Skipped
  BY DEF Skipped
<1>5. \A k \in 1..4 : Fallbacks[k] # Skipped
  BY <1>1, <1>3, <1>4
<1>6. \A k, l \in 1..4 : Fallbacks[k] = Fallbacks[l] => k = l
  BY <1>1, <1>3
<1> QED
  BY <1>2, <1>5, <1>6

\* Whatever precedes the fallbacks, at least four labels are offered that were
\* not offered before.
LEMMA FourNewLabels ==
  ASSUME NEW n \in Nat, NEW labels, DOMAIN labels = 1..n + 4,
         \A k \in 1..4 : labels[n + k] = Fallbacks[k]
  PROVE  /\ NewLabels(labels) \in SUBSET (Nat \ {0}) /\ IsFiniteSet(NewLabels(labels))
         /\ Cardinality(NewLabels(labels)) \in Nat /\ Cardinality(NewLabels(labels)) >= 4
<1> DEFINE new == NewLabels(labels)
           firstOf(k) == CHOOSE i \in new : labels[i] = Fallbacks[k]
           f == [k \in 1..4 |-> firstOf(k)]
<1>1. new \in SUBSET (1..n + 4) /\ IsFiniteSet(1..n + 4)
  BY FS_Interval DEF NewLabels
<1>2. IsFiniteSet(new) /\ Cardinality(new) \in Nat /\ new \in SUBSET (Nat \ {0})
  BY <1>1, FS_Subset, FS_CardinalityType
<1>3. ASSUME NEW k \in 1..4 PROVE \E i \in new : labels[i] = Fallbacks[k]
  <2> DEFINE S == {i \in 1..n + 4 : labels[i] = Fallbacks[k]}
  <2>1. n + k \in S /\ S \in SUBSET Nat
    OBVIOUS
  <2>2. PICK i \in S : \A m \in S : i <= m
    BY <2>1, LeastNatural
  <2>3. ASSUME NEW j \in 1..i - 1 PROVE labels[j] # labels[i]
    <3>1. j \in 1..n + 4 /\ j < i /\ i \in Nat /\ j \in Nat
      BY <2>2
    <3>2. j \notin S
      BY <2>2, <3>1
    <3> QED
      BY <2>2, <3>1, <3>2
  <2>4. i \in DOMAIN labels /\ labels[i] # Skipped
    BY <2>2, FallbackFacts
  <2> QED
    BY <2>2, <2>3, <2>4 DEF NewLabels
<1> HIDE DEF new
<1>4. \A k \in 1..4 : f[k] \in new /\ labels[f[k]] = Fallbacks[k]
  BY <1>3
<1>5. f \in [1..4 -> new]
  BY <1>3
<1> HIDE DEF f
<1>6. f \in Injection(1..4, new)
  <2>1. \A k, l \in 1..4 : f[k] = f[l] => k = l
    <3>1. \A k, l \in 1..4 : Fallbacks[k] = Fallbacks[l] => k = l
      BY FallbackFacts
    <3>2. \A k, l \in 1..4 : f[k] = f[l] => Fallbacks[k] = Fallbacks[l]
      BY <1>4, Zenon
    <3> QED
      BY <3>1, <3>2, Zenon
  <2> QED
    BY <1>5, <2>1 DEF Injection, IsInjective
<1>7. Cardinality(1..4) = 4
  <2>1. \A c \in Nat : Cardinality(1..c) = c
    BY FS_Interval
  <2> QED
    BY <2>1
<1>8. 4 <= Cardinality(new)
  BY <1>2, <1>6, <1>7, FS_Injection
<1> QED
  BY <1>2, <1>8 DEF new

\* A loop with four labels to take takes four different ones.
LEMMA FourDifferent ==
  ASSUME NEW labels, NewLabels(labels) \in SUBSET (Nat \ {0}), IsFiniteSet(NewLabels(labels)),
         Cardinality(NewLabels(labels)) \in Nat, Cardinality(NewLabels(labels)) >= 4
  PROVE  Len(UpToFour(labels)) = 4 /\ IsInjective(UpToFour(labels))
<1> DEFINE new == NewLabels(labels)
           parts == UpToFour(labels)
<1>1. \A i, j \in new : i # j => labels[i] # labels[j]
  <2>1. ASSUME NEW i \in new, NEW j \in new, j < i PROVE labels[j] # labels[i]
    <3>1. j \in 1..i - 1
      <4>1. i \in Nat /\ j \in Nat /\ j # 0
        OBVIOUS
      <4> QED
        BY <2>1, <4>1
    <3> QED
      BY <3>1 DEF NewLabels
  <2>2. \A i, j \in new : i \in Nat /\ j \in Nat
    OBVIOUS
  <2> HIDE DEF new
  <2> QED
    BY <2>1, <2>2
<1>2. parts = [k \in 1..4 |-> labels[Nth(new, k)]]
  BY DEF UpToFour, Capped
<1>3. ASSUME NEW k \in 1..4
      PROVE  Nth(new, k) \in new /\ Cardinality({j \in new : j <= Nth(new, k)}) = k
  <2>1. k \in 1..Cardinality(new) /\ new \in SUBSET Nat
    OBVIOUS
  <2> QED
    BY <2>1, NthFacts
<1> HIDE DEF new, parts
<1>4. ASSUME NEW k \in 1..4, NEW l \in 1..4, parts[k] = parts[l] PROVE k = l
  <2>1. Nth(new, k) = Nth(new, l)
    BY <1>1, <1>2, <1>3, <1>4
  <2> QED
    BY <1>3, <2>1
<1>5. DOMAIN parts = 1..4 /\ Len(parts) = 4
  BY <1>2
<1> QED
  BY <1>4, <1>5 DEF IsInjective, parts

\* What follows a sequence of n keeps its order after the first n.
LEMMA AppendedFacts ==
  ASSUME NEW S, NEW n \in Nat, NEW m \in Nat, NEW s \in [1..n -> S], NEW t \in [1..m -> S]
  PROVE  DOMAIN (s \o t) = 1..n + m /\ \A k \in 1..m : (s \o t)[n + k] = t[k]
<1>1. s \in Seq(S) /\ t \in Seq(S) /\ Len(s) = n /\ Len(t) = m
  OBVIOUS
<1>2. s \o t \in Seq(S) /\ Len(s \o t) = n + m
  BY <1>1
<1>3. ASSUME NEW k \in 1..m PROVE (s \o t)[n + k] = t[k]
  BY <1>1
<1> QED
  BY <1>2, <1>3

\* The scenes have their cards, whatever was found.
LEMMA StoryFacts ==
  ASSUME NEW findings \in Seq(StoryKeys)
  PROVE  /\ Len(FindingActions(findings)) = 4 /\ IsInjective(FindingActions(findings))
         /\ Cardinality(NonPositive(findings)) \in Nat
<1> DEFINE n == Len(findings)
           told == Labels(findings)
           labels == told \o Fallbacks
<1>1. n \in Nat /\ DOMAIN findings = 1..n
  OBVIOUS
<1>2. DOMAIN labels = 1..n + 4 /\ \A k \in 1..4 : labels[n + k] = Fallbacks[k]
  <2> DEFINE S == {told[i] : i \in 1..n} \cup {"Budskap", "Bevis", "Konvertering", "Matning"}
  <2>1. told \in [1..n -> S]
    BY <1>1 DEF Labels
  <2>2. Fallbacks \in [1..4 -> S]
    BY FallbackFacts
  <2> HIDE DEF S, told, n
  <2>3. \A m \in Nat : Fallbacks \in [1..m -> S] =>
          /\ DOMAIN (told \o Fallbacks) = 1..n + m
          /\ \A k \in 1..m : (told \o Fallbacks)[n + k] = Fallbacks[k]
    BY <1>1, <2>1, AppendedFacts
  <2> QED
    BY <2>2, <2>3
<1> HIDE DEF told, n, labels
<1>3. /\ NewLabels(labels) \in SUBSET (Nat \ {0}) /\ IsFiniteSet(NewLabels(labels))
      /\ Cardinality(NewLabels(labels)) \in Nat /\ Cardinality(NewLabels(labels)) >= 4
  BY <1>1, <1>2, FourNewLabels
<1>4. Len(UpToFour(labels)) = 4 /\ IsInjective(UpToFour(labels))
  BY <1>3, FourDifferent
<1>5. Cardinality(NonPositive(findings)) \in Nat
  <2>1. NonPositive(findings) \in SUBSET (1..n) /\ IsFiniteSet(1..n)
    BY <1>1, FS_Interval DEF NonPositive
  <2> QED
    BY <2>1, FS_Subset, FS_CardinalityType
<1> QED
  BY <1>4, <1>5 DEF FindingActions, labels, told

\* Whatever the analysis found and PageSpeed added, of any number of findings,
\* no scene of the film is empty and the engine has four different parts.
THEOREM StoryTheorem == ASSUME AuditAssumption PROVE AuditSpec => []StoryComplete
<1>1. ASSUME result.findings \in Seq(StoryKeys) PROVE StoryComplete
  <2> DEFINE findings == result.findings
  <2>1. /\ Len(FindingActions(findings)) = 4 /\ IsInjective(FindingActions(findings))
        /\ Cardinality(NonPositive(findings)) \in Nat
    BY <1>1, StoryFacts
  <2>2. ASSUME NEW benefits \in {0, 4}, NEW steps \in {0, 4}, NEW priced \in BOOLEAN
        PROVE  LET cards == Cards(findings, benefits, steps, priced)
               IN /\ \A s \in DOMAIN cards \ {"opening", "closing"} : cards[s] > 0
                  /\ cards.findings <= 3 /\ cards.engine = 4 /\ cards.roadmap <= 5
    BY <2>1, <2>2 DEF Cards, Capped
  <2> QED
    BY <2>1, <2>2 DEF StoryComplete
<1> QED
  BY <1>1, FindingsTold, PTL
=============================================================================
