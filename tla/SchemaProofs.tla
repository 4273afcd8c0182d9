---------------------------- MODULE SchemaProofs ----------------------------
(***************************************************************************)
(* Proofs about Schema: the recorded revision is never ahead of the        *)
(* schema, a process that migrates serves only the whole of it, and tables *)
(* without a revision have a cause (an older release or a crash), for any  *)
(* number of processes and crashes.                                        *)
(***************************************************************************)
EXTENDS Schema, SequenceTheorems, TLAPS

Statement == [adds : SUBSET Whole(Latest), stamps : 0..Latest]

\* What the first i statements of work add.
Upto(work, i) == UNION {work[j].adds : j \in 1..i}

\* A revision recorded by work, begun over the pieces base, is there by then.
Covers(work, base) == \A i \in DOMAIN work : Whole(work[i].stamps) \subseteq base \cup Upto(work, i)

-----------------------------------------------------------------------------
Pieces == {"campaigns", "prospects", "analyses", "proposals", "policies", "suppressions",
           "audit", "window", "candidates"}

\* The statements that add a set of pieces.
Additions == {Adds(pieces) : pieces \in SUBSET Pieces}

\* A tuple of six is a sequence.
LEMMA TupleOfSix ==
  ASSUME NEW S, NEW a \in S, NEW b \in S, NEW c \in S, NEW d \in S, NEW e \in S, NEW f \in S
  PROVE  <<a, b, c, d, e, f>> \in Seq(S)
OBVIOUS

\* What a statement that adds a piece is.
LEMMA AdditionFacts ==
  /\ \A p \in Pieces : Adds({p}) \in Additions
  /\ \A s \in Additions : s.stamps = 0 /\ s.adds \in SUBSET Pieces /\ s = Adds(s.adds)
BY DEF Additions, Adds

\* The three revisions are sequences of such statements.
LEMMA RevisionFacts ==
  /\ Latest = 3
  /\ \A n \in 1..3 : Revisions[n] \in Seq(Additions) /\ Len(Revisions[n]) > 0
<1>1. Latest = 3
  BY DEF Latest, Revisions
<1>2. \A p \in Pieces : Adds({p}) \in Additions
  BY AdditionFacts
<1>3. Initial \in Seq(Additions) /\ Len(Initial) = 6
  <2>1. /\ Adds({"campaigns"}) \in Additions /\ Adds({"prospects"}) \in Additions
        /\ Adds({"analyses"}) \in Additions /\ Adds({"proposals"}) \in Additions
        /\ Adds({"policies"}) \in Additions /\ Adds({"suppressions"}) \in Additions
    BY <1>2 DEF Pieces
  <2>2. Initial \in Seq(Additions)
    BY <2>1, TupleOfSix DEF Initial
  <2>3. Len(Initial) = 6
    BY DEF Initial
  <2> QED
    BY <2>2, <2>3
<1>4. AuditAndWindow \in Seq(Additions) /\ Len(AuditAndWindow) = 2
  <2>1. Adds({"audit"}) \in Additions /\ Adds({"window"}) \in Additions
    BY <1>2 DEF Pieces
  <2> QED
    BY <2>1 DEF AuditAndWindow
<1>5. Candidates \in Seq(Additions) /\ Len(Candidates) = 1
  <2>1. Adds({"candidates"}) \in Additions
    BY <1>2 DEF Pieces
  <2> QED
    BY <2>1 DEF Candidates
<1>6. Revisions[1] = Initial /\ Revisions[2] = AuditAndWindow /\ Revisions[3] = Candidates
  BY DEF Revisions
<1>7. \A n \in 1..3 : n = 1 \/ n = 2 \/ n = 3
  OBVIOUS
<1>8. Len(Initial) > 0 /\ Len(AuditAndWindow) > 0 /\ Len(Candidates) > 0
  BY <1>3, <1>4, <1>5
<1>9. \A n \in 1..3 : Revisions[n] \in Seq(Additions) /\ Len(Revisions[n]) > 0
  BY <1>3, <1>4, <1>5, <1>6, <1>7, <1>8, Zenon
<1> QED
  BY <1>1, <1>9

\* A revision's pieces are those of the one before it and its own.
LEMMA WholeSteps ==
  /\ Whole(0) = {}
  /\ \A n \in 1..3 : Whole(n) = Whole(n - 1) \cup PiecesOf(Revisions[n])
  /\ \A n \in 0..3 : Whole(n) \subseteq Whole(Latest)
<1>1. Whole(0) = {}
  BY DEF Whole
<1>2. \A n \in 1..3 : Whole(n) = Whole(n - 1) \cup PiecesOf(Revisions[n])
  BY DEF Whole
<1>3. \A n \in 0..3 : Whole(n) \subseteq Whole(Latest)
  BY RevisionFacts DEF Whole
<1> QED
  BY <1>1, <1>2, <1>3

\* The first release has tables.
LEMMA FirstReleaseNotEmpty == Whole(1) # {} /\ Whole(2) # {} /\ Whole(Latest) # {}
<1>1. "campaigns" \in PiecesOf(Revisions[1])
  <2>1. Revisions[1] = Initial /\ 1 \in DOMAIN Initial /\ Initial[1].adds = {"campaigns"}
    BY DEF Revisions, Initial, Adds
  <2> QED
    BY <2>1 DEF PiecesOf
<1>2. "campaigns" \in Whole(1)
  BY <1>1 DEF Whole
<1> QED
  BY <1>2, WholeSteps, RevisionFacts

-----------------------------------------------------------------------------
\* The pieces of a sequence, of its beginnings and of what is left of it.
LEMMA PiecesUpto ==
  ASSUME NEW s \in Seq(Statement)
  PROVE  PiecesOf(s) = Upto(s, Len(s))
BY DEF PiecesOf, Upto

\* What a beginning of a sequence adds.
LEMMA PiecesOfBeginning ==
  ASSUME NEW s \in Seq(Statement), NEW n \in 0..Len(s)
  PROVE  PiecesOf(SubSeq(s, 1, n)) = Upto(s, n)
<1>1. DOMAIN SubSeq(s, 1, n) = 1..n /\ \A i \in 1..n : SubSeq(s, 1, n)[i] = s[i]
  OBVIOUS
<1> QED
  BY <1>1 DEF PiecesOf, Upto

\* The rest of a work is the work, shifted.
LEMMA RestShifted ==
  ASSUME NEW s \in Seq(Statement), NEW n \in 0..Len(s)
  PROVE  \A i \in DOMAIN SubSeq(s, n + 1, Len(s)) :
           n + i \in DOMAIN s /\ SubSeq(s, n + 1, Len(s))[i] = s[n + i]
<1>1. DOMAIN SubSeq(s, n + 1, Len(s)) = 1..(Len(s) - n) /\ DOMAIN s = 1..Len(s) /\ Len(s) \in Nat
  OBVIOUS
<1>2. \A i \in 1..(Len(s) - n) : n + i \in 1..Len(s)
  BY <1>1
<1>3. \A i \in 1..(Len(s) - n) : SubSeq(s, n + 1, Len(s))[i] = s[n + i]
  OBVIOUS
<1> QED
  BY <1>1, <1>2, <1>3

\* A stretch of numbers, and the stretch after it.
LEMMA TwoStretches ==
  ASSUME NEW n \in Nat, NEW i \in Nat
  PROVE  /\ \A k \in 1..(n + i) : k \in 1..n \/ \E j \in 1..i : k = n + j
         /\ \A k \in 1..n : k \in 1..(n + i)
         /\ \A j \in 1..i : n + j \in 1..(n + i)
<1>1. ASSUME NEW k \in 1..(n + i), k \notin 1..n PROVE \E j \in 1..i : k = n + j
  <2>1. k - n \in 1..i /\ k = n + (k - n)
    BY <1>1
  <2> QED
    BY <2>1
<1>2. \A k \in 1..n : k \in 1..(n + i)
  OBVIOUS
<1>3. \A j \in 1..i : n + j \in 1..(n + i)
  OBVIOUS
<1> QED
  BY <1>1, <1>2, <1>3

\* A longer beginning adds what the rest's own beginning does.
LEMMA UptoRest ==
  ASSUME NEW s \in Seq(Statement), NEW n \in 0..Len(s), NEW i \in 0..Len(s) - n
  PROVE  Upto(s, n + i) = Upto(s, n) \cup Upto(SubSeq(s, n + 1, Len(s)), i)
<1> DEFINE r == SubSeq(s, n + 1, Len(s))
<1>1. \A j \in 1..i : r[j] = s[n + j]
  OBVIOUS
<1> HIDE DEF r
<1>2. n \in Nat /\ i \in Nat
  OBVIOUS
<1>3. {s[k].adds : k \in 1..(n + i)} = {s[k].adds : k \in 1..n} \cup {r[j].adds : j \in 1..i}
  <2>1. \A k \in 1..(n + i) : k \in 1..n \/ \E j \in 1..i : k = n + j
    BY <1>2, TwoStretches
  <2>2. (\A k \in 1..n : k \in 1..(n + i)) /\ \A j \in 1..i : n + j \in 1..(n + i)
    BY <1>2, TwoStretches
  <2>3. ASSUME NEW k \in 1..(n + i)
        PROVE  s[k].adds \in {s[h].adds : h \in 1..n} \cup {r[j].adds : j \in 1..i}
    <3>1. CASE k \in 1..n
      BY <3>1
    <3>2. ASSUME NEW j \in 1..i, k = n + j PROVE s[k].adds = r[j].adds
      BY <1>1, <3>2
    <3> QED
      BY <2>1, <3>1, <3>2
  <2>4. \A k \in 1..n : s[k].adds \in {s[h].adds : h \in 1..(n + i)}
    BY <2>2
  <2>5. ASSUME NEW j \in 1..i PROVE r[j].adds \in {s[h].adds : h \in 1..(n + i)}
    <3>1. r[j].adds = s[n + j].adds
      BY <1>1
    <3> QED
      BY <2>2, <3>1
  <2> QED
    BY <2>3, <2>4, <2>5
<1> QED
  BY <1>3 DEF Upto, r

\* What is left of a work that covers its revisions covers the rest of them.
LEMMA CoversRest ==
  ASSUME NEW s \in Seq(Statement), NEW base, Covers(s, base), NEW n \in 0..Len(s)
  PROVE  Covers(SubSeq(s, n + 1, Len(s)), base \cup Upto(s, n))
<1> DEFINE r == SubSeq(s, n + 1, Len(s))
<1> SUFFICES ASSUME NEW i \in DOMAIN r
             PROVE  Whole(r[i].stamps) \subseteq (base \cup Upto(s, n)) \cup Upto(r, i)
  BY DEF Covers
<1>1. i \in 1..Len(s) - n /\ r[i] = s[n + i] /\ n + i \in DOMAIN s
  OBVIOUS
<1>2. Upto(s, n + i) = Upto(s, n) \cup Upto(SubSeq(s, n + 1, Len(s)), i)
  <2>1. i \in 0..Len(s) - n
    BY <1>1
  <2> HIDE DEF r
  <2> QED
    BY <2>1, UptoRest
<1>3. Whole(s[n + i].stamps) \subseteq base \cup Upto(s, n + i)
  <2> HIDE DEF r
  <2> QED
    BY <1>1 DEF Covers
<1> QED
  BY <1>1, <1>2, <1>3

\* Over more pieces a work covers no fewer revisions.
LEMMA CoversMore ==
  ASSUME NEW s, NEW base, NEW more, Covers(s, base), base \subseteq more
  PROVE  Covers(s, more)
BY DEF Covers

\* Works that cover their revisions one after the other.
LEMMA CoversBoth ==
  ASSUME NEW s \in Seq(Statement), NEW t \in Seq(Statement), NEW base,
         Covers(s, base), Covers(t, base \cup PiecesOf(s))
  PROVE  /\ s \o t \in Seq(Statement) /\ Covers(s \o t, base)
         /\ PiecesOf(s \o t) = PiecesOf(s) \cup PiecesOf(t)
<1> DEFINE c == s \o t
           n == Len(s)
<1>1. /\ c \in Seq(Statement) /\ Len(c) = n + Len(t) /\ n \in 0..Len(c)
      /\ \A i \in 1..n : c[i] = s[i]
      /\ \A i \in 1..Len(t) : c[n + i] = t[i]
      /\ n \in Nat /\ Len(t) \in Nat /\ DOMAIN c = 1..Len(c) /\ DOMAIN s = 1..n /\ DOMAIN t = 1..Len(t)
  OBVIOUS
<1>2. SubSeq(c, n + 1, Len(c)) = t
  OBVIOUS
<1> HIDE DEF c, n
<1>3. \A i \in 0..n : Upto(c, i) = Upto(s, i)
  BY <1>1 DEF Upto
<1>4. \A i \in 0..Len(t) : Upto(c, n + i) = Upto(s, n) \cup Upto(t, i)
  <2> SUFFICES ASSUME NEW i \in 0..Len(t) PROVE Upto(c, n + i) = Upto(s, n) \cup Upto(t, i)
    OBVIOUS
  <2>1. i \in 0..Len(c) - n /\ n \in 0..n
    BY <1>1
  <2>2. Upto(c, n + i) = Upto(c, n) \cup Upto(SubSeq(c, n + 1, Len(c)), i)
    BY <1>1, <2>1, UptoRest
  <2> QED
    BY <1>2, <1>3, <2>1, <2>2
<1>5. PiecesOf(s) = Upto(s, n) /\ PiecesOf(t) = Upto(t, Len(t)) /\ PiecesOf(c) = Upto(c, n + Len(t))
  BY <1>1, PiecesUpto DEF n
<1>6. PiecesOf(c) = PiecesOf(s) \cup PiecesOf(t)
  BY <1>1, <1>4, <1>5
<1>7. Covers(c, base)
  <2> SUFFICES ASSUME NEW i \in 1..Len(c) PROVE Whole(c[i].stamps) \subseteq base \cup Upto(c, i)
    BY <1>1 DEF Covers
  <2>1. CASE i <= n
    <3>1. i \in 1..n /\ i \in 0..n
      BY <1>1, <2>1
    <3> QED
      BY <1>1, <1>3, <3>1 DEF Covers
  <2>2. CASE i > n
    <3>1. i - n \in 1..Len(t) /\ i - n \in 0..Len(t) /\ n + (i - n) = i
      BY <1>1, <2>2
    <3>2. c[i] = t[i - n] /\ Upto(c, i) = Upto(s, n) \cup Upto(t, i - n)
      BY <1>1, <1>4, <3>1
    <3>3. Whole(t[i - n].stamps) \subseteq (base \cup PiecesOf(s)) \cup Upto(t, i - n)
      BY <1>1, <3>1 DEF Covers
    <3> QED
      BY <1>5, <3>2, <3>3
  <2> QED
    BY <1>1, <2>1, <2>2
<1> QED
  BY <1>1, <1>6, <1>7 DEF c

-----------------------------------------------------------------------------
\* Every piece belongs to the whole schema.
LEMMA PiecesInWhole == Pieces \subseteq Whole(Latest)
<1>1. /\ Initial[1].adds = {"campaigns"} /\ Initial[2].adds = {"prospects"} /\ Initial[3].adds = {"analyses"}
      /\ Initial[4].adds = {"proposals"} /\ Initial[5].adds = {"policies"}
      /\ Initial[6].adds = {"suppressions"} /\ DOMAIN Initial = 1..6
  BY DEF Initial, Adds
<1>2. /\ AuditAndWindow[1].adds = {"audit"} /\ AuditAndWindow[2].adds = {"window"}
      /\ DOMAIN AuditAndWindow = 1..2
  BY DEF AuditAndWindow, Adds
<1>3. Candidates[1].adds = {"candidates"} /\ DOMAIN Candidates = 1..1
  BY DEF Candidates, Adds
<1>4. {"campaigns", "prospects", "analyses", "proposals", "policies", "suppressions"} \subseteq PiecesOf(Initial)
  BY <1>1 DEF PiecesOf
<1>5. {"audit", "window"} \subseteq PiecesOf(AuditAndWindow)
  BY <1>2 DEF PiecesOf
<1>6. {"candidates"} \subseteq PiecesOf(Candidates)
  BY <1>3 DEF PiecesOf
<1>7. Revisions[1] = Initial /\ Revisions[2] = AuditAndWindow /\ Revisions[3] = Candidates
  BY DEF Revisions
<1>8. PiecesOf(Initial) \cup PiecesOf(AuditAndWindow) \cup PiecesOf(Candidates) \subseteq Whole(Latest)
  <2>1. \A n \in 1..3 : PiecesOf(Revisions[n]) \subseteq Whole(Latest)
    BY RevisionFacts DEF Whole
  <2> QED
    BY <1>7, <2>1
<1> QED
  BY <1>4, <1>5, <1>6, <1>8 DEF Pieces

\* An addition is a statement.
LEMMA AdditionIsStatement == Additions \subseteq Statement
<1> SUFFICES ASSUME NEW s \in Additions PROVE s \in Statement
  OBVIOUS
<1>1. s = Adds(s.adds) /\ s.adds \in SUBSET Whole(Latest)
  BY AdditionFacts, PiecesInWhole
<1>2. 0 \in 0..Latest
  BY RevisionFacts
<1> QED
  BY <1>1, <1>2 DEF Adds, Statement

\* A revision with its stamp covers itself over the revision before it.
LEMMA RevisionCovers ==
  ASSUME NEW n \in 1..3
  PROVE  /\ Revision(n) \in Seq(Statement) /\ Covers(Revision(n), Whole(n - 1))
         /\ PiecesOf(Revision(n)) = PiecesOf(Revisions[n])
<1>1. Revisions[n] \in Seq(Additions) /\ Revisions[n] \in Seq(Statement)
  BY RevisionFacts, AdditionIsStatement
<1>2. <<Stamps(n)>> \in Seq(Statement) /\ Len(<<Stamps(n)>>) = 1
      /\ <<Stamps(n)>>[1].adds = {} /\ <<Stamps(n)>>[1].stamps = n
  <2>1. Stamps(n) \in Statement
    BY RevisionFacts DEF Stamps, Statement
  <2> QED
    BY <2>1 DEF Stamps
<1>3. Covers(Revisions[n], Whole(n - 1))
  <2>1. \A i \in DOMAIN Revisions[n] : Revisions[n][i].stamps = 0
    BY <1>1, AdditionFacts
  <2> QED
    BY <2>1, WholeSteps DEF Covers
<1>4. Covers(<<Stamps(n)>>, Whole(n - 1) \cup PiecesOf(Revisions[n]))
  <2>1. Whole(n) = Whole(n - 1) \cup PiecesOf(Revisions[n])
    BY WholeSteps
  <2> QED
    BY <1>2, <2>1 DEF Covers
<1>5. PiecesOf(<<Stamps(n)>>) = {}
  BY <1>2 DEF PiecesOf
<1>6. /\ Revisions[n] \o <<Stamps(n)>> \in Seq(Statement)
      /\ Covers(Revisions[n] \o <<Stamps(n)>>, Whole(n - 1))
      /\ PiecesOf(Revisions[n] \o <<Stamps(n)>>) = PiecesOf(Revisions[n]) \cup PiecesOf(<<Stamps(n)>>)
  BY <1>1, <1>2, <1>3, <1>4, CoversBoth
<1> QED
  BY <1>5, <1>6 DEF Revision

\* An upgrade covers its revisions, and adds what the database lacks.
LEMMA UpgradeCovers ==
  ASSUME NEW n \in 0..3
  PROVE  /\ Upgrade(n) \in Seq(Statement) /\ Covers(Upgrade(n), Whole(n))
         /\ Whole(Latest) \subseteq Whole(n) \cup PiecesOf(Upgrade(n))
<1>1. /\ Whole(1) = Whole(0) \cup PiecesOf(Revision(1))
      /\ Whole(2) = Whole(1) \cup PiecesOf(Revision(2))
      /\ Whole(3) = Whole(2) \cup PiecesOf(Revision(3)) /\ Latest = 3
  <2>1. /\ PiecesOf(Revision(1)) = PiecesOf(Revisions[1])
        /\ PiecesOf(Revision(2)) = PiecesOf(Revisions[2])
        /\ PiecesOf(Revision(3)) = PiecesOf(Revisions[3])
    BY RevisionCovers
  <2>2. /\ Whole(1) = Whole(0) \cup PiecesOf(Revisions[1])
        /\ Whole(2) = Whole(1) \cup PiecesOf(Revisions[2])
        /\ Whole(3) = Whole(2) \cup PiecesOf(Revisions[3])
    <3>1. 1 \in 1..3 /\ 2 \in 1..3 /\ 3 \in 1..3 /\ 1 - 1 = 0 /\ 2 - 1 = 1 /\ 3 - 1 = 2
      OBVIOUS
    <3> QED
      BY <3>1, WholeSteps
  <2> QED
    BY <2>1, <2>2, RevisionFacts
<1>2. /\ Revision(1) \in Seq(Statement) /\ Covers(Revision(1), Whole(0))
      /\ Revision(2) \in Seq(Statement) /\ Covers(Revision(2), Whole(1))
      /\ Revision(3) \in Seq(Statement) /\ Covers(Revision(3), Whole(2))
  <2>1. 1 \in 1..3 /\ 2 \in 1..3 /\ 3 \in 1..3 /\ 1 - 1 = 0 /\ 2 - 1 = 1 /\ 3 - 1 = 2
    OBVIOUS
  <2> QED
    BY <2>1, RevisionCovers
<1>3. CASE n = 3
  <2>1. Upgrade(n) = <<>>
    BY <1>3 DEF Upgrade
  <2>2. <<>> \in Seq(Statement) /\ Covers(<<>>, Whole(3))
    BY DEF Covers
  <2> QED
    BY <1>1, <1>3, <2>1, <2>2
<1>4. CASE n = 2
  <2>1. Upgrade(n) = Revision(3)
    BY <1>4 DEF Upgrade
  <2> QED
    BY <1>1, <1>2, <1>4, <2>1
<1>5. /\ Revision(2) \o Revision(3) \in Seq(Statement) /\ Covers(Revision(2) \o Revision(3), Whole(1))
      /\ PiecesOf(Revision(2) \o Revision(3)) = PiecesOf(Revision(2)) \cup PiecesOf(Revision(3))
  BY <1>1, <1>2, CoversBoth
<1>6. CASE n = 1
  <2>1. Upgrade(n) = Revision(2) \o Revision(3)
    BY <1>6 DEF Upgrade
  <2> QED
    BY <1>1, <1>5, <1>6, <2>1
<1>7. CASE n = 0
  <2>1. Upgrade(n) = (Revision(1) \o Revision(2)) \o Revision(3)
    BY <1>7 DEF Upgrade
  <2>2. /\ Revision(1) \o Revision(2) \in Seq(Statement) /\ Covers(Revision(1) \o Revision(2), Whole(0))
        /\ PiecesOf(Revision(1) \o Revision(2)) = PiecesOf(Revision(1)) \cup PiecesOf(Revision(2))
    BY <1>1, <1>2, CoversBoth
  <2>3. Whole(2) = Whole(0) \cup PiecesOf(Revision(1) \o Revision(2))
    BY <1>1, <2>2
  <2> DEFINE r12 == Revision(1) \o Revision(2)
  <2>5. /\ r12 \in Seq(Statement) /\ Covers(r12, Whole(0)) /\ Revision(3) \in Seq(Statement)
        /\ Covers(Revision(3), Whole(0) \cup PiecesOf(r12))
    BY <1>2, <2>2, <2>3
  <2>6. /\ r12 \o Revision(3) \in Seq(Statement) /\ Covers(r12 \o Revision(3), Whole(0))
        /\ PiecesOf(r12 \o Revision(3)) = PiecesOf(r12) \cup PiecesOf(Revision(3))
    <3> HIDE DEF r12
    <3> QED
      BY <2>5, CoversBoth
  <2>7. /\ (Revision(1) \o Revision(2)) \o Revision(3) \in Seq(Statement)
        /\ Covers((Revision(1) \o Revision(2)) \o Revision(3), Whole(0))
        /\ PiecesOf((Revision(1) \o Revision(2)) \o Revision(3))
             = PiecesOf(Revision(1) \o Revision(2)) \cup PiecesOf(Revision(3))
    BY <2>6
  <2> QED
    BY <1>1, <1>7, <2>1, <2>3, <2>7
<1> QED
  BY <1>3, <1>4, <1>6, <1>7
-----------------------------------------------------------------------------
WholeTables == {{"campaigns"}, {"prospects"}, {"analyses", "candidates"}, {"proposals", "window"},
           {"policies"}, {"suppressions"}, {"audit"}}

\* Seven tables are a sequence.
LEMMA TupleOfSeven ==
  ASSUME NEW S, NEW a \in S, NEW b \in S, NEW c \in S, NEW d \in S, NEW e \in S, NEW f \in S, NEW g \in S
  PROVE  <<a, b, c, d, e, f, g>> \in Seq(S)
OBVIOUS

\* No two tables share a piece.
LEMMA TablesApart == \A T, U \in WholeTables : T = U \/ T \cap U = {}
BY DEF WholeTables

\* create_all's statements: the tables, each once, and with them every piece.
LEMMA CreateAllFacts ==
  /\ CreateAll \in Seq(Additions) /\ Len(CreateAll) = 7
  /\ \A i \in 1..7 : CreateAll[i].adds \in WholeTables /\ CreateAll[i] = Adds(CreateAll[i].adds)
  /\ \A p \in Pieces : \E i \in 1..7 : p \in CreateAll[i].adds
  /\ WholeTables \subseteq SUBSET Pieces
<1>1. WholeTables \subseteq SUBSET Pieces
  BY DEF WholeTables, Pieces
<1>2. \A T \in WholeTables : Adds(T) \in Additions
  BY <1>1 DEF Additions
<1>3. CreateAll \in Seq(Additions) /\ Len(CreateAll) = 7
  <2>1. /\ Adds({"campaigns"}) \in Additions /\ Adds({"prospects"}) \in Additions
        /\ Adds({"analyses", "candidates"}) \in Additions /\ Adds({"proposals", "window"}) \in Additions
        /\ Adds({"policies"}) \in Additions /\ Adds({"suppressions"}) \in Additions
        /\ Adds({"audit"}) \in Additions
    BY <1>2 DEF WholeTables
  <2>2. CreateAll \in Seq(Additions)
    BY <2>1, TupleOfSeven DEF CreateAll
  <2>3. Len(CreateAll) = 7
    BY DEF CreateAll
  <2> QED
    BY <2>2, <2>3
<1>4. /\ CreateAll[1].adds = {"campaigns"} /\ CreateAll[2].adds = {"prospects"}
      /\ CreateAll[3].adds = {"analyses", "candidates"} /\ CreateAll[4].adds = {"proposals", "window"}
      /\ CreateAll[5].adds = {"policies"} /\ CreateAll[6].adds = {"suppressions"}
      /\ CreateAll[7].adds = {"audit"}
  BY DEF CreateAll, Adds
<1>5. \A i \in 1..7 : i = 1 \/ i = 2 \/ i = 3 \/ i = 4 \/ i = 5 \/ i = 6 \/ i = 7
  OBVIOUS
<1>6. \A i \in 1..7 : CreateAll[i].adds \in WholeTables
  BY <1>4, <1>5 DEF WholeTables
<1>7. \A p \in Pieces : \E i \in 1..7 : p \in CreateAll[i].adds
  <2>1. 1 \in 1..7 /\ 2 \in 1..7 /\ 3 \in 1..7 /\ 4 \in 1..7 /\ 5 \in 1..7 /\ 6 \in 1..7 /\ 7 \in 1..7
    OBVIOUS
  <2> QED
    BY <1>4, <2>1 DEF Pieces
<1>8. \A i \in 1..7 : CreateAll[i] = Adds(CreateAll[i].adds)
  BY <1>3, AdditionFacts
<1> QED
  BY <1>1, <1>3, <1>6, <1>7, <1>8

\* The whole schema has no other pieces.
LEMMA WholeInPieces == Whole(Latest) = Pieces
<1>1. \A n \in 1..3 : PiecesOf(Revisions[n]) \subseteq Pieces
  <2> TAKE n \in 1..3
  <2>1. Revisions[n] \in Seq(Additions)
    BY RevisionFacts
  <2>2. \A i \in DOMAIN Revisions[n] : Revisions[n][i].adds \subseteq Pieces
    BY <2>1, AdditionFacts
  <2> QED
    BY <2>2 DEF PiecesOf
<1>2. Whole(Latest) \subseteq Pieces
  BY <1>1, RevisionFacts DEF Whole
<1> QED
  BY <1>2, PiecesInWhole

\* Each table is there as a whole, or not at all.
TablesWhole == \A T \in WholeTables : T \cap schema = {} \/ T \subseteq schema

\* A statement of create_all or of stamp.
OfTables(work) == \A i \in DOMAIN work : work[i].adds = {} \/ work[i].adds \in WholeTables

\* Two such works, one after the other, are one.
LEMMA OfTablesBoth ==
  ASSUME NEW s \in Seq(Statement), NEW t \in Seq(Statement), OfTables(s), OfTables(t)
  PROVE  OfTables(s \o t)
<1> DEFINE c == s \o t
           n == Len(s)
<1>1. /\ DOMAIN c = 1..(n + Len(t)) /\ n \in Nat /\ Len(t) \in Nat /\ DOMAIN s = 1..n /\ DOMAIN t = 1..Len(t)
      /\ \A i \in 1..n : c[i] = s[i]
      /\ \A i \in 1..Len(t) : c[n + i] = t[i]
  OBVIOUS
<1> HIDE DEF c, n
<1>2. ASSUME NEW i \in 1..(n + Len(t)) PROVE c[i].adds = {} \/ c[i].adds \in WholeTables
  <2>1. CASE i <= n
    BY <1>1, <2>1 DEF OfTables
  <2>2. CASE i > n
    <3>1. i - n \in 1..Len(t) /\ n + (i - n) = i
      BY <1>1, <2>2
    <3>2. c[i] = t[i - n]
      BY <1>1, <3>1
    <3> QED
      BY <1>1, <3>1, <3>2 DEF OfTables
  <2> QED
    BY <1>1, <2>1, <2>2
<1>3. OfTables(c)
  BY <1>1, <1>2 DEF OfTables
<1> QED
  BY <1>3 DEF c

\* What ensure_schema runs covers the latest revision, and keeps tables whole.
LEMMA BootstrapCovers ==
  ASSUME TablesWhole
  PROVE  Bootstrap \in Seq(Statement) /\ Covers(Bootstrap, schema) /\ OfTables(Bootstrap)
<1> DEFINE stamp == <<Stamps(Latest)>>
<1>1. /\ DOMAIN Missing = 1..7
      /\ \A i \in 1..7 : Missing[i] = IF CreateAll[i].adds \cap schema = {} THEN CreateAll[i] ELSE Adds({})
  <2>1. DOMAIN CreateAll = 1..7
    BY CreateAllFacts
  <2> QED
    BY <2>1 DEF Missing
<1>2. \A i \in 1..7 : Missing[i] \in Additions
  <2>1. Adds({}) \in Additions
    BY DEF Additions
  <2>2. \A i \in 1..7 : CreateAll[i] \in Additions
    <3>1. \A i \in 1..7 : CreateAll[i].adds \in SUBSET Pieces /\ CreateAll[i] = Adds(CreateAll[i].adds)
      BY CreateAllFacts
    <3> QED
      BY <3>1 DEF Additions
  <2> QED
    BY <1>1, <2>1, <2>2
<1>3. \A i \in 1..7 : Missing[i] \in Statement /\ Missing[i].stamps = 0
  BY <1>2, AdditionFacts, AdditionIsStatement
<1>4. Missing \in Seq(Statement) /\ Len(Missing) = 7
  <2>1. Missing = [i \in 1..7 |-> Missing[i]]
    BY <1>1 DEF Missing
  <2> QED
    BY <1>1, <1>3, <2>1
<1>5. \A i \in 1..7 : Missing[i].adds = {} \/ Missing[i].adds \in WholeTables
  BY <1>1, CreateAllFacts DEF Adds
<1>6. Whole(Latest) \subseteq schema \cup PiecesOf(Missing)
  <2> SUFFICES ASSUME NEW p \in Pieces, p \notin schema PROVE p \in PiecesOf(Missing)
    BY WholeInPieces
  <2>1. PICK i \in 1..7 : p \in CreateAll[i].adds
    BY CreateAllFacts
  <2>2. CreateAll[i].adds \cap schema = {}
    BY <2>1, CreateAllFacts DEF TablesWhole
  <2>3. Missing[i].adds = CreateAll[i].adds
    BY <1>1, <2>2
  <2> QED
    BY <1>1, <2>1, <2>3 DEF PiecesOf
<1>7. stamp \in Seq(Statement) /\ Len(stamp) = 1 /\ stamp[1].adds = {} /\ stamp[1].stamps = Latest
  <2>1. Stamps(Latest) \in Statement
    BY RevisionFacts DEF Stamps, Statement
  <2> QED
    BY <2>1 DEF Stamps
<1>8. Covers(Missing, schema)
  <2>1. \A i \in DOMAIN Missing : Whole(Missing[i].stamps) = {}
    BY <1>1, <1>3, WholeSteps
  <2> QED
    BY <2>1 DEF Covers
<1> HIDE DEF stamp
<1>9. Covers(stamp, schema \cup PiecesOf(Missing))
  BY <1>6, <1>7 DEF Covers
<1>10. Missing \o stamp \in Seq(Statement) /\ Covers(Missing \o stamp, schema)
  BY <1>4, <1>7, <1>8, <1>9, CoversBoth
<1>11. OfTables(Missing) /\ OfTables(stamp)
  BY <1>1, <1>5, <1>7 DEF OfTables
<1>12. OfTables(Missing \o stamp)
  BY <1>4, <1>7, <1>11, OfTablesBoth
<1> QED
  BY <1>10, <1>12 DEF Bootstrap, stamp
-----------------------------------------------------------------------------
Types ==
  /\ site \in Sites /\ schema \subseteq Whole(Latest) /\ version \in 0..Latest
  /\ worker \in [Workers -> [at : Places, work : Seq(Statement)]]
  /\ crashes \in 0..MaxCrashes

\* What a process's work may count on, and what the others may count on it for.
Sound(r) ==
  /\ Covers(r.work, schema)
  /\ r.at = "upgrading" => site.migrates /\ Whole(Latest) \subseteq schema \cup PiecesOf(r.work)
  /\ site.migrates /\ r.at \in {"booting", "serving"} => Whole(Latest) \subseteq schema
  /\ r.at \in {"looking", "creating"} => ~site.migrates /\ site.finds = "nothing" /\ OfTables(r.work)

\* Tables stay whole where only create_all makes them.
Database ==
  /\ ~site.migrates /\ site.finds = "nothing" => TablesWhole
  /\ site.finds # "nothing" => schema # {}

IInv == Types /\ StampTruthful /\ Database /\ \A w \in Workers : Sound(worker[w])

\* A start that finds nothing to do counts on the same pieces.
LEMMA EmptyWork == <<>> \in Seq(Statement) /\ PiecesOf(<<>>) = {} /\ \A base : Covers(<<>>, base)
BY DEF PiecesOf, Covers

\* More pieces break no process's work.
LEMMA SoundMore ==
  ASSUME NEW r, Sound(r), schema \subseteq schema', site' = site
  PROVE  Sound(r)'
<1>1. Covers(r.work, schema')
  BY CoversMore DEF Sound
<1> QED
  BY <1>1 DEF Sound

\* What is recorded in a database that is found.
LEMMA FoundVersion ==
  ASSUME Init
  PROVE  /\ version \in 0..3
         /\ site.finds \in {"nothing", "unstamped"} => version = 0
         /\ site.finds \notin {"nothing", "unstamped"} => version \in 1..2
<1>1. site.finds \in {"nothing", "unstamped", "revision 1", "revision 2"} /\ version = Found(site)
  BY DEF Init, Sites
<1>2. /\ site.finds = "revision 1" => version = 1
      /\ site.finds = "revision 2" => version = 2
      /\ site.finds \in {"nothing", "unstamped"} => version = 0
  BY <1>1 DEF Found
<1>3. version = 0 \/ version = 1 \/ version = 2
  BY <1>1, <1>2
<1>4. site.finds \notin {"nothing", "unstamped"} => version = 1 \/ version = 2
  BY <1>1, <1>2
<1>5. site.finds \in {"nothing", "unstamped"} => version = 0
  BY <1>2
<1> QED
  BY <1>3, <1>4, <1>5

\* A database that is found whole is one whose tables are whole.
LEMMA InitSound == ASSUME SchemaAssumption, Init PROVE IInv
<1>1. version \in 0..3 /\ Latest = 3 /\ (site.finds # "nothing" /\ site.finds # "unstamped" => version \in 1..2)
  BY FoundVersion, RevisionFacts
<1>2. Whole(1) \subseteq Whole(Latest) /\ Whole(version) \subseteq Whole(Latest)
  <2>1. 1 \in 0..3
    OBVIOUS
  <2> QED
    BY <1>1, <2>1, WholeSteps
<1>3. "audit" \in Whole(Latest)
  BY WholeInPieces DEF Pieces
<1>4. schema \subseteq Whole(Latest)
  BY <1>2, <1>3 DEF Init
<1>5. StampTruthful
  <2>1. site.finds = "unstamped" => version = 0
    BY DEF Init, Found
  <2> QED
    BY <2>1, WholeSteps DEF Init, StampTruthful
<1>6. Database
  <2>1. site.finds = "nothing" => schema = {}
    BY WholeSteps DEF Init, Found
  <2>2. site.finds # "nothing" => schema # {}
    <3>1. CASE site.finds = "unstamped"
      BY <3>1, FirstReleaseNotEmpty DEF Init
    <3>2. CASE site.finds # "nothing" /\ site.finds # "unstamped"
      <4>1. version = 1 \/ version = 2
        BY <1>1, <3>2
      <4> QED
        BY <3>2, <4>1, FirstReleaseNotEmpty DEF Init
    <3> QED
      BY <3>1, <3>2
  <2> QED
    BY <2>1, <2>2 DEF Database, TablesWhole
<1>7. \A w \in Workers : worker[w] = Down
  BY DEF Init
<1>8. Down \in [at : Places, work : Seq(Statement)] /\ Sound(Down)
  BY EmptyWork DEF Down, Places, Sound
<1>9. Types
  BY <1>1, <1>4, <1>8 DEF Types, Init, SchemaAssumption
<1> QED
  BY <1>5, <1>6, <1>7, <1>8, <1>9 DEF IInv

\* A step that gives one process new work, over the same or more pieces.
LEMMA StepKeeps ==
  ASSUME IInv, NEW w \in Workers, NEW at \in Places, NEW work \in Seq(Statement),
         worker' = [worker EXCEPT ![w] = [at |-> at, work |-> work]], site' = site,
         schema \subseteq schema', Sound([at |-> at, work |-> work])'
  PROVE  /\ worker' \in [Workers -> [at : Places, work : Seq(Statement)]]
         /\ \A v \in Workers : Sound(worker[v])'
<1>1. worker \in [Workers -> [at : Places, work : Seq(Statement)]]
  BY DEF IInv, Types
<1>2. worker' \in [Workers -> [at : Places, work : Seq(Statement)]]
  BY <1>1
<1>3. \A v \in Workers : worker'[v] = IF v = w THEN [at |-> at, work |-> work] ELSE worker[v]
  BY <1>1
<1>4. ASSUME NEW v \in Workers PROVE Sound(worker[v])'
  <2>1. CASE v = w
    <3>1. worker'[v] = [at |-> at, work |-> work]
      BY <1>3, <2>1
    <3> QED
      BY <3>1 DEF Sound
  <2>2. CASE v # w
    <3>1. worker'[v] = worker[v]
      BY <1>3, <2>2
    <3>2. Covers(worker[v].work, schema')
      BY CoversMore DEF IInv, Sound
    <3> QED
      BY <3>1, <3>2 DEF Sound, IInv
  <2> QED
    BY <2>1, <2>2
<1> QED
  BY <1>2, <1>4

\* A step that leaves the database alone keeps what is said of it.
LEMMA QuietStep ==
  ASSUME IInv, NEW w \in Workers, NEW at \in Places, NEW work \in Seq(Statement),
         worker' = [worker EXCEPT ![w] = [at |-> at, work |-> work]],
         UNCHANGED <<site, schema, version>>, crashes' \in 0..MaxCrashes,
         Sound([at |-> at, work |-> work])
  PROVE  IInv'
<1>1. Sound([at |-> at, work |-> work])'
  BY DEF Sound
<1>2. /\ worker' \in [Workers -> [at : Places, work : Seq(Statement)]]
      /\ \A v \in Workers : Sound(worker[v])'
  BY <1>1, StepKeeps
<1>3. Types'
  BY <1>2 DEF IInv, Types
<1>4. StampTruthful' /\ Database'
  BY DEF IInv, StampTruthful, Database, TablesWhole
<1> QED
  BY <1>2, <1>3, <1>4 DEF IInv

\* The statements that take effect together are a beginning of the work.
LEMMA TogetherBegins ==
  ASSUME IInv, NEW w \in Workers
  PROVE  /\ worker[w].work \in Seq(Statement) /\ Together(w) \in 0..Len(worker[w].work)
         /\ Added(w) = Upto(worker[w].work, Together(w))
<1>1. worker[w].work \in Seq(Statement)
  BY DEF IInv, Types
<1>2. Len(worker[w].work) \in Nat
  BY <1>1
<1>3. Together(w) \in 0..Len(worker[w].work)
  BY <1>2 DEF Together
<1> QED
  BY <1>1, <1>3, PiecesOfBeginning DEF Added

\* Statements that take effect: the revision they record is there with them.
LEMMA ApplyKeeps ==
  ASSUME IInv, NEW w \in Workers, Apply(w)
  PROVE  IInv'
<1> DEFINE s    == worker[w].work
           n    == Together(w)
           rest == SubSeq(s, n + 1, Len(s))
<1>1. s \in Seq(Statement) /\ n \in 0..Len(s) /\ Added(w) = Upto(s, n)
  BY TogetherBegins
<1>2. /\ schema' = schema \cup Upto(s, n) /\ version' = Recorded(SubSeq(s, 1, n))
      /\ site' = site /\ crashes' = crashes /\ worker[w].at \in {"upgrading", "creating"}
  BY <1>1 DEF Apply, Goes
<1>3. Sound(worker[w]) /\ Covers(s, schema)
  BY DEF IInv, Sound
<1>4. rest \in Seq(Statement) /\ Covers(rest, schema')
  <2>1. rest \in Seq(Statement)
    BY <1>1
  <2>2. Covers(rest, schema \cup Upto(s, n))
    <3> HIDE DEF n, s
    <3> QED
      BY <1>1, <1>3, CoversRest
  <2> QED
    BY <1>2, <2>1, <2>2
<1>5. PiecesOf(s) = Upto(s, n) \cup PiecesOf(rest)
  <2>1. Len(rest) = Len(s) - n /\ Len(s) - n \in 0..Len(s) - n /\ n + (Len(s) - n) = Len(s)
    <3>1. ASSUME NEW t \in Seq(Statement), NEW k \in 0..Len(t)
          PROVE  Len(SubSeq(t, k + 1, Len(t))) = Len(t) - k /\ Len(t) - k \in 0..Len(t) - k
                 /\ k + (Len(t) - k) = Len(t)
      OBVIOUS
    <3> HIDE DEF n, s
    <3> QED
      BY <1>1, <3>1
  <2>2. Upto(s, n + (Len(s) - n)) = Upto(s, n) \cup Upto(rest, Len(s) - n)
    <3> HIDE DEF n, s
    <3> QED
      BY <1>1, <2>1, UptoRest
  <2> HIDE DEF n, s, rest
  <2> QED
    BY <1>1, <1>4, <2>1, <2>2, PiecesUpto
<1>6. Upto(s, n) \subseteq Whole(Latest)
  <2>1. \A j \in 1..n : s[j] \in Statement
    BY <1>1
  <2>2. \A j \in 1..n : s[j].adds \subseteq Whole(Latest)
    BY <2>1 DEF Statement
  <2> HIDE DEF n, s
  <2> QED
    BY <2>2 DEF Upto
<1>7. version' \in 0..Latest /\ StampTruthful'
  <2>1. Whole(version) \subseteq schema /\ version \in 0..Latest
    BY DEF IInv, StampTruthful, Types
  <2>2. CASE version' = version
    BY <1>2, <2>1, <2>2 DEF StampTruthful
  <2>3. CASE version' # version
    <3> DEFINE begun == SubSeq(s, 1, n)
    <3>1. begun # <<>> /\ version' = begun[Len(begun)].stamps
      <4> HIDE DEF begun
      <4> QED
        BY <1>2, <2>3 DEF Recorded, begun
    <3>2. n \in 1..Len(s) /\ begun[Len(begun)] = s[n]
      <4>1. Len(begun) = n /\ \A i \in 1..n : begun[i] = s[i]
        BY <1>1
      <4>2. n # 0
        BY <1>1, <3>1, <4>1
      <4>3. n \in 1..n /\ n \in 1..Len(s)
        BY <1>1, <4>2
      <4> HIDE DEF begun, n, s
      <4> QED
        BY <4>1, <4>3
    <3>3. s[n] \in Statement /\ Whole(s[n].stamps) \subseteq schema \cup Upto(s, n)
      <4>1. n \in DOMAIN s
        BY <1>1, <3>2
      <4>2. s[n] \in Statement
        BY <1>1, <3>2
      <4> HIDE DEF n, s
      <4> QED
        BY <1>3, <4>1, <4>2 DEF Covers
    <3>4. version' = s[n].stamps
      <4> HIDE DEF begun, n, s
      <4> QED
        BY <3>1, <3>2
    <3> HIDE DEF begun, n, s
    <3> QED
      BY <1>2, <3>3, <3>4 DEF Statement, StampTruthful
  <2> QED
    BY <2>2, <2>3
<1>8. Database'
  <2>1. site.finds # "nothing" => schema' # {}
    BY <1>2 DEF IInv, Database
  <2>2. ASSUME ~site.migrates, site.finds = "nothing" PROVE TablesWhole'
    <3>1. TablesWhole
      BY <2>2 DEF IInv, Database
    <3>2. OfTables(s)
      BY <1>2, <1>3, <2>2 DEF Sound
    <3>3. \A j \in 1..n : s[j].adds = {} \/ s[j].adds \in WholeTables
      <4>1. \A j \in 1..n : j \in DOMAIN s
        BY <1>1
      <4> QED
        BY <3>2, <4>1 DEF OfTables
    <3> HIDE DEF n, s, rest
    <3>4. ASSUME NEW T \in WholeTables PROVE T \cap schema' = {} \/ T \subseteq schema'
      <4>1. T \cap schema = {} \/ T \subseteq schema
        BY <3>1 DEF TablesWhole
      <4>2. T \cap Upto(s, n) = {} \/ T \subseteq Upto(s, n)
        BY <3>3, TablesApart DEF Upto
      <4> QED
        BY <1>2, <4>1, <4>2
    <3> QED
      BY <3>4 DEF TablesWhole
  <2> QED
    BY <1>2, <2>1, <2>2 DEF Database
<1>9. PICK at \in Places, work \in Seq(Statement) :
        worker' = [worker EXCEPT ![w] = [at |-> at, work |-> work]] /\ Sound([at |-> at, work |-> work])'
  <2>1. /\ worker[w].at = "upgrading" => site.migrates /\ Whole(Latest) \subseteq schema \cup PiecesOf(s)
        /\ worker[w].at = "creating" => ~site.migrates /\ site.finds = "nothing" /\ OfTables(s)
    BY <1>3 DEF Sound
  <2>2. CASE rest # <<>>
    <3>1. PICK at \in Places, left \in Seq(Statement) : at = worker[w].at /\ left = rest
      <4>1. worker[w].at \in Places
        BY <1>2 DEF Places
      <4> HIDE DEF n, s, rest
      <4> QED
        BY <1>4, <4>1
    <3>2. worker' = [worker EXCEPT ![w] = [at |-> at, work |-> left]]
      BY <2>2, <3>1 DEF Apply, Goes
    <3>3. at = "creating" => OfTables(left)
      <4>1. \A i \in DOMAIN rest : n + i \in DOMAIN s /\ rest[i] = s[n + i]
        <5> HIDE DEF n, s
        <5> QED
          BY <1>1, RestShifted
      <4> HIDE DEF n, s, rest
      <4>2. ASSUME OfTables(s) PROVE OfTables(rest)
        BY <4>1, <4>2 DEF OfTables
      <4> QED
        BY <2>1, <3>1, <4>2
    <3>4. Covers(left, schema') /\ schema' \cup PiecesOf(left) = schema \cup PiecesOf(s)
      <4> HIDE DEF n, s, rest
      <4> QED
        BY <1>2, <1>4, <1>5, <3>1
    <3>5. Sound([at |-> at, work |-> left])'
      <4> HIDE DEF n, s, rest
      <4>1. at = "upgrading" => site'.migrates /\ Whole(Latest) \subseteq schema' \cup PiecesOf(left)
        BY <1>2, <2>1, <3>1, <3>4
      <4>2. at = "creating" => ~site'.migrates /\ site'.finds = "nothing"
        BY <1>2, <2>1, <3>1
      <4>3. at \in {"upgrading", "creating"}
        BY <1>2, <3>1
      <4> QED
        BY <3>3, <3>4, <4>1, <4>2, <4>3 DEF Sound
    <3> HIDE DEF n, s, rest
    <3> QED
      BY <3>1, <3>2, <3>5
  <2>3. CASE rest = <<>> /\ worker[w].at = "upgrading"
    <3>1. worker' = [worker EXCEPT ![w] = [at |-> "booting", work |-> <<>>]]
      BY <2>3 DEF Apply, Goes
    <3>2. Whole(Latest) \subseteq schema'
      <4> HIDE DEF n, s, rest
      <4> QED
        BY <1>2, <1>5, <2>1, <2>3, EmptyWork
    <3>3. Sound([at |-> "booting", work |-> <<>>])'
      BY <3>2, EmptyWork DEF Sound
    <3>4. "booting" \in Places
      BY DEF Places
    <3> QED
      BY <3>1, <3>3, <3>4, EmptyWork
  <2>4. CASE rest = <<>> /\ worker[w].at = "creating"
    <3>1. worker' = [worker EXCEPT ![w] = [at |-> "serving", work |-> <<>>]]
      BY <2>4 DEF Apply, Goes
    <3>2. Sound([at |-> "serving", work |-> <<>>])'
      BY <1>2, <2>1, <2>4, EmptyWork DEF Sound
    <3>3. "serving" \in Places
      BY DEF Places
    <3> QED
      BY <3>1, <3>2, <3>3, EmptyWork
  <2> QED
    BY <1>2, <2>2, <2>3, <2>4
<1> HIDE DEF n, s, rest
<1>10. schema \subseteq schema'
  BY <1>2
<1>11. /\ worker' \in [Workers -> [at : Places, work : Seq(Statement)]]
       /\ \A v \in Workers : Sound(worker[v])'
  BY <1>2, <1>9, <1>10, StepKeeps
<1>12. Types'
  BY <1>2, <1>6, <1>7, <1>11 DEF IInv, Types
<1> QED
  BY <1>7, <1>8, <1>11, <1>12 DEF IInv

\* Every step keeps the invariant.
LEMMA StepsKeep == ASSUME SchemaAssumption, IInv, [Next]_vars PROVE IInv'
<1>1. CASE UNCHANGED vars
  <2>1. UNCHANGED <<site, schema, version, worker, crashes>>
    BY <1>1 DEF vars
  <2>2. Types' /\ StampTruthful' /\ Database'
    BY <2>1 DEF IInv, Types, StampTruthful, Database, TablesWhole
  <2>3. \A w \in Workers : Sound(worker[w])'
    BY <2>1 DEF IInv, Sound
  <2> QED
    BY <2>2, <2>3 DEF IInv
<1>2. ASSUME NEW w \in Workers, Start(w) PROVE IInv'
  <2>1. UNCHANGED <<site, schema, version>> /\ crashes' \in 0..MaxCrashes
    BY <1>2 DEF Start, Goes, IInv, Types
  <2>2. CASE site.migrates
    <3>1. worker' = [worker EXCEPT ![w] = [at |-> "upgrading", work |-> Upgrade(version)]]
      BY <1>2, <2>2 DEF Start, Goes
    <3>2. version \in 0..3 /\ Whole(version) \subseteq schema
      BY RevisionFacts DEF IInv, Types, StampTruthful
    <3>3. /\ Upgrade(version) \in Seq(Statement) /\ Covers(Upgrade(version), Whole(version))
          /\ Whole(Latest) \subseteq Whole(version) \cup PiecesOf(Upgrade(version))
      BY <3>2, UpgradeCovers
    <3>4. Covers(Upgrade(version), schema)
      BY <3>2, <3>3, CoversMore
    <3>5. Sound([at |-> "upgrading", work |-> Upgrade(version)])
      BY <2>2, <3>2, <3>3, <3>4 DEF Sound
    <3>6. "upgrading" \in Places
      BY DEF Places
    <3> QED
      BY <2>1, <3>1, <3>3, <3>5, <3>6, QuietStep
  <2>3. CASE ~site.migrates
    <3>1. worker' = [worker EXCEPT ![w] = [at |-> "booting", work |-> <<>>]]
      BY <1>2, <2>3 DEF Start, Goes
    <3>2. Sound([at |-> "booting", work |-> <<>>])
      BY <2>3, EmptyWork DEF Sound
    <3>3. "booting" \in Places
      BY DEF Places
    <3> QED
      BY <2>1, <3>1, <3>2, <3>3, EmptyWork, QuietStep
  <2> QED
    BY <2>2, <2>3
<1>3. ASSUME NEW w \in Workers, Boot(w) PROVE IInv'
  <2>1. UNCHANGED <<site, schema, version>> /\ crashes' \in 0..MaxCrashes /\ worker[w].at = "booting"
    BY <1>3 DEF Boot, Goes, IInv, Types
  <2>2. site.migrates => Whole(Latest) \subseteq schema
    BY <2>1 DEF IInv, Sound
  <2>3. CASE site.creates /\ version = 0 /\ schema = {}
    <3>1. worker' = [worker EXCEPT ![w] = [at |-> "looking", work |-> <<>>]]
      BY <1>3, <2>3 DEF Boot, Goes
    <3>2. ~site.migrates /\ site.finds = "nothing"
      BY <2>2, <2>3, FirstReleaseNotEmpty DEF IInv, Database
    <3>3. OfTables(<<>>)
      BY DEF OfTables
    <3>4. Sound([at |-> "looking", work |-> <<>>])
      BY <3>2, <3>3, EmptyWork DEF Sound
    <3>5. "looking" \in Places
      BY DEF Places
    <3> QED
      BY <2>1, <3>1, <3>4, <3>5, EmptyWork, QuietStep
  <2>4. CASE ~(site.creates /\ version = 0 /\ schema = {})
    <3>1. worker' = [worker EXCEPT ![w] = [at |-> "serving", work |-> <<>>]]
      BY <1>3, <2>4 DEF Boot, Goes
    <3>2. Sound([at |-> "serving", work |-> <<>>])
      BY <2>2, EmptyWork DEF Sound
    <3>3. "serving" \in Places
      BY DEF Places
    <3> QED
      BY <2>1, <3>1, <3>2, <3>3, EmptyWork, QuietStep
  <2> QED
    BY <2>3, <2>4
<1>4. ASSUME NEW w \in Workers, Look(w) PROVE IInv'
  <2>1. /\ UNCHANGED <<site, schema, version>> /\ crashes' \in 0..MaxCrashes /\ worker[w].at = "looking"
        /\ worker' = [worker EXCEPT ![w] = [at |-> "creating", work |-> Bootstrap]]
    BY <1>4 DEF Look, Goes, IInv, Types
  <2>2. ~site.migrates /\ site.finds = "nothing"
    BY <2>1 DEF IInv, Sound
  <2>3. TablesWhole
    BY <2>2 DEF IInv, Database
  <2>4. Bootstrap \in Seq(Statement) /\ Covers(Bootstrap, schema) /\ OfTables(Bootstrap)
    BY <2>3, BootstrapCovers
  <2>5. Sound([at |-> "creating", work |-> Bootstrap])
    BY <2>2, <2>4 DEF Sound
  <2>6. "creating" \in Places
    BY DEF Places
  <2> QED
    BY <2>1, <2>4, <2>5, <2>6, QuietStep
<1>5. ASSUME NEW w \in Workers, Fail(w) \/ Crash(w) PROVE IInv'
  <2>1. /\ UNCHANGED <<site, schema, version>>
        /\ worker' = [worker EXCEPT ![w] = [at |-> "down", work |-> <<>>]]
    BY <1>5 DEF Fail, Crash, Goes, Down
  <2>2. crashes' \in 0..MaxCrashes
    BY <1>5 DEF Fail, Crash, Goes, IInv, Types, SchemaAssumption
  <2>3. Sound([at |-> "down", work |-> <<>>])
    BY EmptyWork DEF Sound
  <2>4. "down" \in Places
    BY DEF Places
  <2> QED
    BY <2>1, <2>2, <2>3, <2>4, EmptyWork, QuietStep
<1> QED
  BY <1>1, <1>2, <1>3, <1>4, <1>5, ApplyKeeps DEF Next, Step

\* The invariant holds for any number of processes and of crashes.
THEOREM Invariant == ASSUME SchemaAssumption PROVE Spec => []IInv
<1>1. Init => IInv
  BY InitSound
<1>2. IInv /\ [Next]_vars => IInv'
  BY StepsKeep
<1> QED
  BY <1>1, <1>2, PTL DEF Spec

\* Whatever is recorded in alembic_version is in the database
\* (entrypoint.sh, bootstrap.py and the order of each revision's upgrade).
THEOREM StampIsTruthful == ASSUME SchemaAssumption PROVE Spec => []StampTruthful
<1>1. IInv => StampTruthful
  BY DEF IInv
<1> QED
  BY <1>1, Invariant, PTL

\* No process that migrates serves a schema that its models do not know
\* (entrypoint.sh, set -e before exec).
THEOREM ServesTheWholeSchema == ASSUME SchemaAssumption PROVE Spec => []ServesMigrated
<1>1. IInv => ServesMigrated
  BY DEF IInv, Types, Sound, ServesMigrated
<1> QED
  BY <1>1, Invariant, PTL

\* The invariant says at least what the types say.
LEMMA InvariantTypes == ASSUME IInv PROVE TypeOK
<1>1. ASSUME NEW w \in Workers PROVE worker[w].at \in Places /\ PiecesOf(worker[w].work) \subseteq Whole(Latest)
  <2>1. worker[w].at \in Places /\ worker[w].work \in Seq(Statement)
    BY DEF IInv, Types
  <2>2. \A i \in DOMAIN worker[w].work : worker[w].work[i] \in Statement
    BY <2>1
  <2> QED
    BY <2>1, <2>2 DEF PiecesOf, Statement
<1> QED
  BY <1>1 DEF IInv, Types, TypeOK

\* The types, for any number of processes.
THEOREM TypeCorrect == ASSUME SchemaAssumption PROVE Spec => []TypeOK
<1>1. IInv => TypeOK
  BY InvariantTypes
<1> QED
  BY <1>1, Invariant, PTL
-----------------------------------------------------------------------------
\* What an empty database is made into: all the statements, in their order.
Plan == IF site.migrates THEN Upgrade(0) ELSE CreateAll \o <<Stamps(Latest)>>

\* How many of them come before the first that records a revision.
Prepared == IF site.migrates THEN 6 ELSE 7

\* p creates n things, no two the same, before it records a revision, and ends
\* with recording one.
Prepares(p, n) ==
  /\ p \in Seq(Statement) /\ n \in Nat /\ n < Len(p)
  /\ \A i \in 1..n : p[i].stamps = 0 /\ p[i].adds # {}
  /\ p[n + 1].stamps # 0 /\ p[Len(p)].stamps # 0
  /\ \A i \in 1..n : \A j \in 1..Len(p) : i # j => p[i].adds \cap p[j].adds = {}

\* What is left of the plan p for a process that has come no further than the
\* k statements that have taken effect; it passes over some of these.
Leaves(work, p, k, j) ==
  /\ Len(work) = Len(p) - j
  /\ \A i \in j + 1..Len(p) : work[i - j] = p[i] \/ (i <= k /\ work[i - j] = Adds({}))

Follows(work, p, k) == \E j \in 0..k : Leaves(work, p, k, j)

Working(w) == worker[w].at \in {"upgrading", "creating"}

\* The first k statements of the plan p have taken effect, and if there are any,
\* a process is about to run the next: it cannot find its table there.
AtStep(p, k) ==
  /\ schema = Upto(p, k)
  /\ \A w \in Workers : Working(w) => Follows(worker[w].work, p, k)
  /\ k > 0 => \E w \in Workers : Working(w) /\ Len(worker[w].work) = Len(p) - k

\* As long as nothing is recorded and nobody has died.
Orderly ==
  site.finds = "nothing" /\ version = 0 /\ crashes = 0 => \E k \in 0..Prepared : AtStep(Plan, k)

\* The statements of two works, one after the other.
LEMMA ConcatFacts ==
  ASSUME NEW s \in Seq(Statement), NEW t \in Seq(Statement)
  PROVE  /\ s \o t \in Seq(Statement) /\ Len(s \o t) = Len(s) + Len(t)
         /\ \A i \in 1..Len(s) : (s \o t)[i] = s[i]
         /\ \A i \in 1..Len(t) : (s \o t)[Len(s) + i] = t[i]
OBVIOUS

\* The plan of a deployment that migrates: its statements, one by one.
LEMMA UpgradeFacts ==
  LET p == Upgrade(0)
  IN  /\ p \in Seq(Statement) /\ Len(p) = 12
      /\ p[1] = Adds({"campaigns"}) /\ p[2] = Adds({"prospects"}) /\ p[3] = Adds({"analyses"})
      /\ p[4] = Adds({"proposals"}) /\ p[5] = Adds({"policies"}) /\ p[6] = Adds({"suppressions"})
      /\ p[7] = Stamps(1) /\ p[8] = Adds({"audit"}) /\ p[9] = Adds({"window"}) /\ p[10] = Stamps(2)
      /\ p[11] = Adds({"candidates"}) /\ p[12] = Stamps(3)
<1>1. Upgrade(0) = (Revision(1) \o Revision(2)) \o Revision(3)
  BY DEF Upgrade
<1>2. Revisions[1] = Initial /\ Revisions[2] = AuditAndWindow /\ Revisions[3] = Candidates
  BY DEF Revisions
<1>3. /\ Revision(1) = Initial \o <<Stamps(1)>> /\ Revision(2) = AuditAndWindow \o <<Stamps(2)>>
      /\ Revision(3) = Candidates \o <<Stamps(3)>>
  BY <1>2 DEF Revision
<1>5. Revision(1) = <<Adds({"campaigns"}), Adds({"prospects"}), Adds({"analyses"}), Adds({"proposals"}),
                      Adds({"policies"}), Adds({"suppressions"}), Stamps(1)>>
  BY <1>3 DEF Initial
<1>6. Revision(2) = <<Adds({"audit"}), Adds({"window"}), Stamps(2)>>
  BY <1>3 DEF AuditAndWindow
<1>7. Revision(3) = <<Adds({"candidates"}), Stamps(3)>>
  BY <1>3 DEF Candidates
<1>8. Revision(1) \in Seq(Statement) /\ Revision(2) \in Seq(Statement) /\ Revision(3) \in Seq(Statement)
  <2>1. 1 \in 1..3 /\ 2 \in 1..3 /\ 3 \in 1..3
    OBVIOUS
  <2> QED
    BY <2>1, RevisionCovers
<1> DEFINE a == Revision(1)
           b == Revision(2)
           c == Revision(3)
           ab == a \o b
           p == ab \o c
<1>9. /\ Len(a) = 7 /\ a[1] = Adds({"campaigns"}) /\ a[2] = Adds({"prospects"}) /\ a[3] = Adds({"analyses"})
      /\ a[4] = Adds({"proposals"}) /\ a[5] = Adds({"policies"}) /\ a[6] = Adds({"suppressions"})
      /\ a[7] = Stamps(1)
  BY <1>5
<1>10. Len(b) = 3 /\ b[1] = Adds({"audit"}) /\ b[2] = Adds({"window"}) /\ b[3] = Stamps(2)
  BY <1>6
<1>11. Len(c) = 2 /\ c[1] = Adds({"candidates"}) /\ c[2] = Stamps(3)
  BY <1>7
<1> HIDE DEF a, b, c
<1>12. /\ ab \in Seq(Statement) /\ Len(ab) = 10 /\ \A i \in 1..7 : ab[i] = a[i]
       /\ ab[7 + 1] = b[1] /\ ab[7 + 2] = b[2] /\ ab[7 + 3] = b[3]
  <2>1. /\ ab \in Seq(Statement) /\ Len(ab) = Len(a) + Len(b) /\ \A i \in 1..Len(a) : ab[i] = a[i]
        /\ \A i \in 1..Len(b) : ab[Len(a) + i] = b[i]
    <3>1. a \in Seq(Statement) /\ b \in Seq(Statement)
      BY <1>8 DEF a, b
    <3> QED
      BY <3>1, ConcatFacts
  <2> HIDE DEF ab
  <2>2. 1 \in 1..3 /\ 2 \in 1..3 /\ 3 \in 1..3 /\ 7 + 3 = 10
    OBVIOUS
  <2> QED
    BY <1>9, <1>10, <2>1, <2>2
<1> HIDE DEF ab
<1>13. /\ p \in Seq(Statement) /\ Len(p) = 12 /\ \A i \in 1..10 : p[i] = ab[i]
       /\ p[10 + 1] = c[1] /\ p[10 + 2] = c[2]
  <2>1. /\ p \in Seq(Statement) /\ Len(p) = Len(ab) + Len(c) /\ \A i \in 1..Len(ab) : p[i] = ab[i]
        /\ \A i \in 1..Len(c) : p[Len(ab) + i] = c[i]
    <3>1. ab \in Seq(Statement) /\ c \in Seq(Statement)
      BY <1>8, <1>12 DEF c
    <3> QED
      BY <3>1, ConcatFacts
  <2> HIDE DEF p
  <2>2. 1 \in 1..2 /\ 2 \in 1..2 /\ 10 + 2 = 12
    OBVIOUS
  <2> QED
    BY <1>11, <1>12, <2>1, <2>2
<1>14. Upgrade(0) = p
  BY <1>1 DEF a, b, c, ab
<1> HIDE DEF p
<1> QED
  BY <1>9, <1>10, <1>11, <1>12, <1>13, <1>14

\* Either plan prepares before it records.
LEMMA PlanPrepares == Prepares(Plan, Prepared) /\ (~site.migrates => Len(Plan) = Prepared + 1)
<1>1. CASE site.migrates
  <2> DEFINE p == Upgrade(0)
  <2>1. Plan = p /\ Prepared = 6
    BY <1>1 DEF Plan, Prepared
  <2>2. /\ p \in Seq(Statement) /\ Len(p) = 12
        /\ p[1].adds = {"campaigns"} /\ p[2].adds = {"prospects"} /\ p[3].adds = {"analyses"}
        /\ p[4].adds = {"proposals"} /\ p[5].adds = {"policies"} /\ p[6].adds = {"suppressions"}
        /\ p[7].adds = {} /\ p[8].adds = {"audit"} /\ p[9].adds = {"window"} /\ p[10].adds = {}
        /\ p[11].adds = {"candidates"} /\ p[12].adds = {}
        /\ p[1].stamps = 0 /\ p[2].stamps = 0 /\ p[3].stamps = 0 /\ p[4].stamps = 0 /\ p[5].stamps = 0
        /\ p[6].stamps = 0 /\ p[7].stamps = 1 /\ p[12].stamps = 3
    <3>1. \A pieces : Adds(pieces).adds = pieces /\ Adds(pieces).stamps = 0
      BY DEF Adds
    <3>2. \A n : Stamps(n).adds = {} /\ Stamps(n).stamps = n
      BY DEF Stamps
    <3>3. /\ p[1] = Adds({"campaigns"}) /\ p[2] = Adds({"prospects"}) /\ p[3] = Adds({"analyses"})
          /\ p[4] = Adds({"proposals"}) /\ p[5] = Adds({"policies"}) /\ p[6] = Adds({"suppressions"})
          /\ p[7] = Stamps(1) /\ p[8] = Adds({"audit"}) /\ p[9] = Adds({"window"}) /\ p[10] = Stamps(2)
          /\ p[11] = Adds({"candidates"}) /\ p[12] = Stamps(3)
      BY UpgradeFacts
    <3>4. p \in Seq(Statement) /\ Len(p) = 12
      BY UpgradeFacts
    <3> HIDE DEF p
    <3> QED
      BY <3>1, <3>2, <3>3, <3>4
  <2> HIDE DEF p
  <2>3. \A i \in 1..12 : \/ i = 1 \/ i = 2 \/ i = 3 \/ i = 4 \/ i = 5 \/ i = 6
                         \/ i = 7 \/ i = 8 \/ i = 9 \/ i = 10 \/ i = 11 \/ i = 12
    OBVIOUS
  <2>4. \A i \in 1..6 : i = 1 \/ i = 2 \/ i = 3 \/ i = 4 \/ i = 5 \/ i = 6
    OBVIOUS
  <2>5. \A i \in 1..6 : p[i].stamps = 0 /\ p[i].adds # {}
    <3>1. \A x : {x} # {}
      OBVIOUS
    <3> QED
      BY <2>2, <2>4, <3>1, Zenon
  <2>6. \A i \in 1..6 : \A j \in 1..12 : i # j => p[i].adds \cap p[j].adds = {}
    BY <2>2, <2>3, <2>4
  <2>7. 6 \in Nat /\ 6 < 12 /\ 6 + 1 = 7
    OBVIOUS
  <2>8. p[6 + 1].stamps # 0 /\ p[Len(p)].stamps # 0
    BY <2>2, <2>7
  <2>9. Prepares(p, 6)
    BY <2>2, <2>5, <2>6, <2>7, <2>8, Zenon DEF Prepares
  <2> QED
    BY <1>1, <2>1, <2>9, Zenon
<1>2. CASE ~site.migrates
  <2> DEFINE stamp == <<Stamps(Latest)>>
             p == CreateAll \o stamp
  <2>1. Plan = p /\ Prepared = 7
    BY <1>2 DEF Plan, Prepared
  <2>2. /\ CreateAll \in Seq(Statement) /\ Len(CreateAll) = 7
        /\ stamp \in Seq(Statement) /\ Len(stamp) = 1 /\ stamp[1].adds = {} /\ stamp[1].stamps = 3
    <3>1. Stamps(Latest) \in Statement
      BY RevisionFacts DEF Stamps, Statement
    <3>2. Stamps(Latest).adds = {} /\ Stamps(Latest).stamps = 3
      BY RevisionFacts DEF Stamps
    <3> QED
      BY <3>1, <3>2, CreateAllFacts, AdditionIsStatement
  <2> HIDE DEF stamp
  <2>3. p \in Seq(Statement) /\ Len(p) = 8 /\ p[7 + 1] = stamp[1] /\ \A i \in 1..7 : p[i] = CreateAll[i]
    <3>1. /\ p \in Seq(Statement) /\ Len(p) = Len(CreateAll) + Len(stamp)
          /\ \A i \in 1..Len(CreateAll) : p[i] = CreateAll[i]
          /\ \A i \in 1..Len(stamp) : p[Len(CreateAll) + i] = stamp[i]
      BY <2>2, ConcatFacts
    <3> HIDE DEF p
    <3>2. 1 \in 1..1 /\ 7 + 1 = 8
      OBVIOUS
    <3> QED
      BY <2>2, <3>1, <3>2
  <2>4. \A i \in 1..7 : CreateAll[i].stamps = 0 /\ CreateAll[i].adds # {}
    <3>1. ASSUME NEW T \in WholeTables PROVE T # {}
      <4>1. \E x : x \in T
        BY Zenon DEF WholeTables
      <4> QED
        BY <4>1
    <3>2. \A i \in 1..7 : CreateAll[i].adds \in WholeTables /\ CreateAll[i] = Adds(CreateAll[i].adds)
      BY CreateAllFacts
    <3>3. \A T : Adds(T).stamps = 0
      BY DEF Adds
    <3> QED
      BY <3>1, <3>2, <3>3
  <2>5. \A i, j \in 1..7 : i # j => CreateAll[i].adds \cap CreateAll[j].adds = {}
    <3>1. /\ CreateAll[1].adds = {"campaigns"} /\ CreateAll[2].adds = {"prospects"}
          /\ CreateAll[3].adds = {"analyses", "candidates"} /\ CreateAll[4].adds = {"proposals", "window"}
          /\ CreateAll[5].adds = {"policies"} /\ CreateAll[6].adds = {"suppressions"}
          /\ CreateAll[7].adds = {"audit"}
      BY DEF CreateAll, Adds
    <3>2. \A i \in 1..7 : i = 1 \/ i = 2 \/ i = 3 \/ i = 4 \/ i = 5 \/ i = 6 \/ i = 7
      OBVIOUS
    <3> QED
      BY <3>1, <3>2
  <2> HIDE DEF p
  <2>6. \A i \in 1..7 : \A j \in 1..8 : i # j => p[i].adds \cap p[j].adds = {}
    <3> SUFFICES ASSUME NEW i \in 1..7, NEW j \in 1..8, i # j PROVE p[i].adds \cap p[j].adds = {}
      OBVIOUS
    <3>1. j \in 1..7 \/ j = 8
      OBVIOUS
    <3> QED
      BY <2>2, <2>3, <2>5, <3>1
  <2>7. 7 \in Nat /\ 7 < 8 /\ 7 + 1 = 8
    OBVIOUS
  <2> QED
    BY <1>2, <2>1, <2>2, <2>3, <2>4, <2>6, <2>7 DEF Prepares
<1> QED
  BY <1>1, <1>2

\* What is left of a plan's work has at least the rest of the plan.
LEMMA FollowsMore ==
  ASSUME NEW work, NEW p, NEW k \in Nat, NEW m \in Nat, k <= m, Follows(work, p, k)
  PROVE  Follows(work, p, m)
<1>1. PICK j \in 0..k : /\ Len(work) = Len(p) - j
                        /\ \A i \in j + 1..Len(p) : work[i - j] = p[i] \/ (i <= k /\ work[i - j] = Adds({}))
  BY DEF Follows, Leaves
<1>2. j \in 0..m
  OBVIOUS
<1>3. \A i \in j + 1..Len(p) : work[i - j] = p[i] \/ (i <= m /\ work[i - j] = Adds({}))
  <2> TAKE i \in j + 1..Len(p)
  <2>1. i \in Int /\ j \in Int
    OBVIOUS
  <2> QED
    BY <1>1, <2>1
<1> QED
  BY <1>1, <1>2, <1>3 DEF Follows, Leaves

\* What is still to be prepared is not there yet.
LEMMA StillMissing ==
  ASSUME NEW p, NEW n, Prepares(p, n), NEW k \in 0..n, NEW i \in 1..Len(p), i > k
  PROVE  p[i].adds \cap Upto(p, k) = {}
<1>1. \A h \in 1..k : h \in 1..n /\ h # i
  BY DEF Prepares
<1>2. \A h \in 1..k : p[h].adds \cap p[i].adds = {}
  BY <1>1 DEF Prepares
<1> QED
  BY <1>2 DEF Upto

\* A process that is to run the next statement finds none of its tables.
LEMMA LeaderRuns ==
  ASSUME NEW p, NEW n, Prepares(p, n), NEW k \in 0..n, NEW work \in Seq(Statement),
         Follows(work, p, k), Len(work) = Len(p) - k, NEW q \in 0..Len(work)
  PROVE  Upto(work, q) \cap Upto(p, k) = {}
<1>0. Len(p) \in Nat /\ n \in Nat /\ n < Len(p)
  BY DEF Prepares
<1>1. \A i \in k + 1..Len(p) : work[i - k] = p[i]
  <2>1. PICK j \in 0..k : /\ Len(work) = Len(p) - j
                          /\ \A i \in j + 1..Len(p) : work[i - j] = p[i] \/ (i <= k /\ work[i - j] = Adds({}))
    BY DEF Follows, Leaves
  <2>2. j = k
    BY <1>0, <2>1
  <2> QED
    BY <1>0, <2>1, <2>2
<1>2. ASSUME NEW h \in 1..q PROVE work[h].adds \cap Upto(p, k) = {}
  <2>1. k + h \in k + 1..Len(p) /\ (k + h) - k = h /\ k + h \in 1..Len(p) /\ k + h > k
    BY <1>0
  <2>2. work[h] = p[k + h]
    BY <1>1, <2>1
  <2>3. p[k + h].adds \cap Upto(p, k) = {}
    BY <2>1, StillMissing
  <2> QED
    BY <2>2, <2>3
<1> QED
  BY <1>2 DEF Upto

\* Running q statements more takes the database to where the process has come,
\* or leaves it where another had brought it.
LEMMA RunsOn ==
  ASSUME NEW p, NEW n, Prepares(p, n), NEW k \in 0..n, NEW j \in 0..k, NEW work \in Seq(Statement),
         Leaves(work, p, k, j), NEW q \in 1..Len(work), j + q <= n, Upto(work, q) \cap Upto(p, k) = {},
         NEW top \in Nat, top = k \/ top = j + q, k <= top, j + q <= top
  PROVE  /\ Upto(p, k) \cup Upto(work, q) = Upto(p, top)
         /\ Follows(SubSeq(work, q + 1, Len(work)), p, top)
         /\ Len(SubSeq(work, q + 1, Len(work))) = Len(p) - (j + q)
<1>0. /\ Len(p) \in Nat /\ n \in Nat /\ n < Len(p) /\ top \in 0..n
      /\ Len(work) = Len(p) - j
      /\ \A i \in j + 1..Len(p) : work[i - j] = p[i] \/ (i <= k /\ work[i - j] = Adds({}))
  BY DEF Prepares, Leaves
<1>1. ASSUME NEW i \in j + 1..j + q, i <= k PROVE work[i - j].adds = {}
  <2>1. i \in j + 1..Len(p) /\ i - j \in 1..q /\ i \in 1..k
    BY <1>0, <1>1
  <2>2. CASE work[i - j] = Adds({})
    BY <2>2 DEF Adds
  <2>3. CASE work[i - j] = p[i]
    <3>1. work[i - j].adds \subseteq Upto(work, q) /\ p[i].adds \subseteq Upto(p, k)
      BY <2>1 DEF Upto
    <3> QED
      BY <2>3, <3>1
  <2> QED
    BY <1>0, <2>1, <2>2, <2>3
<1>2. ASSUME NEW i \in j + 1..j + q, i > k PROVE work[i - j] = p[i]
  BY <1>0, <1>2
<1>3. Upto(work, q) \subseteq Upto(p, top)
  <2> SUFFICES ASSUME NEW h \in 1..q PROVE work[h].adds \subseteq Upto(p, top)
    BY DEF Upto
  <2>1. j + h \in j + 1..j + q /\ (j + h) - j = h /\ j + h \in 1..top
    BY <1>0
  <2>2. CASE j + h <= k
    BY <1>1, <2>1, <2>2
  <2>3. CASE j + h > k
    <3>1. work[h] = p[j + h]
      BY <1>2, <2>1, <2>3
    <3> QED
      BY <2>1, <3>1 DEF Upto
  <2> QED
    BY <1>0, <2>2, <2>3
<1>4. Upto(p, k) \subseteq Upto(p, top)
  <2>1. 1..k \subseteq 1..top
    BY <1>0
  <2> QED
    BY <2>1 DEF Upto
<1>5. Upto(p, top) \subseteq Upto(p, k) \cup Upto(work, q)
  <2>1. ASSUME NEW i \in 1..top PROVE p[i].adds \subseteq Upto(p, k) \cup Upto(work, q)
    <3>1. CASE i <= k
      <4>1. i \in 1..k
        BY <1>0, <3>1
      <4> QED
        BY <4>1 DEF Upto
    <3>2. CASE i > k
      <4>1. i \in j + 1..j + q /\ i - j \in 1..q
        BY <1>0, <3>2
      <4>2. work[i - j] = p[i]
        BY <1>2, <3>2, <4>1
      <4> QED
        BY <4>1, <4>2 DEF Upto
    <3> QED
      BY <1>0, <3>1, <3>2
  <2> DEFINE had == Upto(p, k) \cup Upto(work, q)
  <2>2. Upto(p, top) \subseteq had
    <3>1. \A i \in 1..top : p[i].adds \subseteq had
      BY <2>1
    <3> HIDE DEF had
    <3> QED
      BY <3>1 DEF Upto
  <2> QED
    BY <2>2
<1> DEFINE rest == SubSeq(work, q + 1, Len(work))
<1>6. Len(rest) = Len(work) - q /\ \A i \in 1..Len(work) - q : rest[i] = work[q + i]
  <2>1. ASSUME NEW s \in Seq(Statement), NEW h \in 1..Len(s)
        PROVE  /\ Len(SubSeq(s, h + 1, Len(s))) = Len(s) - h
               /\ \A i \in 1..Len(s) - h : SubSeq(s, h + 1, Len(s))[i] = s[h + i]
    OBVIOUS
  <2> QED
    BY <2>1
<1> HIDE DEF rest
<1>7. Len(rest) = Len(p) - (j + q)
  BY <1>0, <1>6
<1>8. ASSUME NEW i \in (j + q) + 1..Len(p)
      PROVE  rest[i - (j + q)] = p[i] \/ (i <= top /\ rest[i - (j + q)] = Adds({}))
  <2>1. /\ i \in j + 1..Len(p) /\ i - (j + q) \in 1..Len(work) - q
        /\ q + (i - (j + q)) = i - j /\ (i <= k => i <= top)
    BY <1>0
  <2>2. rest[i - (j + q)] = work[i - j]
    BY <1>6, <2>1
  <2> QED
    BY <1>0, <2>1, <2>2
<1>9. j + q \in 0..top
  BY <1>0
<1>10. Follows(rest, p, top)
  BY <1>7, <1>8, <1>9 DEF Follows, Leaves
<1> QED
  BY <1>3, <1>4, <1>5, <1>7, <1>10 DEF rest

\* A process runs a plan to the end, or passes over what is there already.
LEMMA NewWorkFollows ==
  ASSUME NEW k \in 0..Prepared, schema = Upto(Plan, k)
  PROVE  /\ site.migrates => Follows(Upgrade(0), Plan, k)
         /\ ~site.migrates => Follows(Bootstrap, Plan, k)
<1>1. Prepares(Plan, Prepared) /\ Plan \in Seq(Statement) /\ 0 \in 0..k
  <2>1. Prepares(Plan, Prepared)
    BY PlanPrepares
  <2>2. Plan \in Seq(Statement)
    BY <2>1 DEF Prepares
  <2>3. k \in Nat
    BY DEF Prepared
  <2> QED
    BY <2>1, <2>2, <2>3
<1>2. ASSUME site.migrates PROVE Follows(Upgrade(0), Plan, k)
  <2>1. Upgrade(0) = Plan
    BY <1>2 DEF Plan
  <2> DEFINE p == Plan
  <2> HIDE DEF p
  <2>2. /\ Len(p) = Len(p) - 0
        /\ \A i \in 0 + 1..Len(p) : p[i - 0] = p[i] \/ (i <= k /\ p[i - 0] = Adds({}))
    <3>1. p \in Seq(Statement)
      BY <1>1 DEF p
    <3> QED
      BY <3>1
  <2>3. Follows(p, p, k)
    BY <1>1, <2>2, Zenon DEF Follows, Leaves
  <2> QED
    BY <2>1, <2>3 DEF p
<1>3. ASSUME ~site.migrates PROVE Follows(Bootstrap, Plan, k)
  <2> DEFINE stamp == <<Stamps(Latest)>>
             c == CreateAll
             m == Missing
             b == m \o stamp
             p == c \o stamp
  <2>1. Plan = p /\ Bootstrap = b /\ Prepared = 7 /\ k \in 0..7
    BY <1>3 DEF Plan, Bootstrap, Prepared
  <2>2. stamp \in Seq(Statement) /\ Len(stamp) = 1
    <3>1. Stamps(Latest) \in Statement
      BY RevisionFacts DEF Stamps, Statement
    <3> QED
      BY <3>1
  <2>3. /\ c \in Seq(Statement) /\ Len(c) = 7 /\ DOMAIN c = 1..7
    BY CreateAllFacts, AdditionIsStatement
  <2>4. /\ DOMAIN m = 1..7
        /\ \A i \in 1..7 : m[i] = IF c[i].adds \cap schema = {} THEN c[i] ELSE Adds({})
    <3> HIDE DEF c
    <3> QED
      BY <2>3 DEF Missing, c
  <2> HIDE DEF stamp, c
  <2>5. m \in Seq(Statement) /\ Len(m) = 7
    <3>1. Adds({}) \in Statement
      BY AdditionIsStatement DEF Additions
    <3>2. \A i \in 1..7 : m[i] \in Statement
      <4> HIDE DEF m
      <4>1. \A i \in 1..7 : c[i] \in Statement
        <5>1. ASSUME NEW S, NEW s \in Seq(S), NEW i \in 1..Len(s) PROVE s[i] \in S
          OBVIOUS
        <5> QED
          BY <2>3, <5>1
      <4> QED
        BY <2>4, <3>1, <4>1
    <3>3. m = [i \in 1..7 |-> m[i]]
      BY <2>3 DEF Missing, c
    <3> HIDE DEF m
    <3> QED
      BY <3>2, <3>3
  <2> HIDE DEF m
  <2>6. /\ Len(p) = 8 /\ p[7 + 1] = stamp[1] /\ \A i \in 1..7 : p[i] = c[i]
        /\ Len(b) = 8 /\ b[7 + 1] = stamp[1] /\ \A i \in 1..7 : b[i] = m[i]
    <3>1. /\ Len(p) = Len(c) + Len(stamp) /\ \A i \in 1..Len(c) : p[i] = c[i]
          /\ \A i \in 1..Len(stamp) : p[Len(c) + i] = stamp[i]
      BY <2>2, <2>3, ConcatFacts
    <3>2. /\ Len(b) = Len(m) + Len(stamp) /\ \A i \in 1..Len(m) : b[i] = m[i]
          /\ \A i \in 1..Len(stamp) : b[Len(m) + i] = stamp[i]
      BY <2>2, <2>5, ConcatFacts
    <3> HIDE DEF p, b
    <3>3. 1 \in 1..1 /\ 7 + 1 = 8
      OBVIOUS
    <3> QED
      BY <2>2, <2>3, <2>5, <3>1, <3>2, <3>3
  <2> HIDE DEF p, b
  <2>7. ASSUME NEW i \in 1..8 PROVE b[i] = p[i] \/ (i <= k /\ b[i] = Adds({}))
    <3>1. CASE i = 8
      BY <2>6, <3>1
    <3>2. CASE i \in 1..7 /\ i <= k
      BY <2>4, <2>6, <3>2
    <3>3. CASE i \in 1..7 /\ i > k
      <4>1. Prepares(p, 7) /\ i \in 1..Len(p) /\ schema = Upto(p, k)
        BY <1>1, <2>1, <2>6
      <4>2. p[i].adds \cap schema = {}
        BY <2>1, <3>3, <4>1, StillMissing
      <4> QED
        BY <2>4, <2>6, <3>3, <4>2
    <3> QED
      BY <2>1, <3>1, <3>2, <3>3
  <2>8. Len(b) = Len(p) - 0 /\ \A i \in 0 + 1..Len(p) : b[i - 0] = p[i] \/ (i <= k /\ b[i - 0] = Adds({}))
    BY <2>6, <2>7
  <2>9. Follows(b, p, k)
    BY <1>1, <2>8, Zenon DEF Follows, Leaves
  <2> QED
    BY <2>1, <2>9
<1> QED
  BY <1>2, <1>3

\* A step of a process that is not the next to run, over the same database.
LEMMA QuietOrderly ==
  ASSUME IInv, Orderly, NEW w \in Workers, NEW at, NEW work,
         worker' = [worker EXCEPT ![w] = [at |-> at, work |-> work]],
         UNCHANGED <<site, schema, version, crashes>>,
         version = 0 => \A k \in 0..Prepared : AtStep(Plan, k) =>
           /\ at \in {"upgrading", "creating"} => Follows(work, Plan, k)
           /\ k > 0 /\ Working(w) => Len(worker[w].work) # Len(Plan) - k
  PROVE  Orderly'
<1> DEFINE p == Plan
<1> SUFFICES ASSUME site.finds = "nothing", version = 0, crashes = 0
             PROVE  \E k \in 0..Prepared : AtStep(p, k)'
  BY DEF Orderly, Plan, Prepared
<1>1. PICK k \in 0..Prepared : AtStep(p, k)
  BY DEF Orderly
<1>2. \A v \in Workers : worker'[v] = IF v = w THEN [at |-> at, work |-> work] ELSE worker[v]
  BY DEF IInv, Types
<1>3. /\ at \in {"upgrading", "creating"} => Follows(work, p, k)
      /\ k > 0 /\ Working(w) => Len(worker[w].work) # Len(p) - k
  BY <1>1
<1> HIDE DEF p
<1>4. \A v \in Workers : Working(v)' => Follows(worker'[v].work, p, k)
  BY <1>1, <1>2, <1>3 DEF AtStep, Working
<1>5. ASSUME k > 0 PROVE \E v \in Workers : Working(v)' /\ Len(worker'[v].work) = Len(p) - k
  <2>1. PICK v \in Workers : Working(v) /\ Len(worker[v].work) = Len(p) - k
    BY <1>1, <1>5 DEF AtStep
  <2>2. v # w
    BY <1>3, <1>5, <2>1
  <2> QED
    BY <1>2, <2>1, <2>2 DEF Working
<1>6. schema' = Upto(p, k)
  BY <1>1 DEF AtStep
<1>7. p' = p
  BY DEF p, Plan
<1>8. AtStep(p, k)'
  BY <1>4, <1>5, <1>6, <1>7 DEF AtStep
<1> QED
  BY <1>8

\* How many statements take effect together, where nothing is recorded by them.
LEMMA BeforeTheStamp ==
  ASSUME IInv, NEW w \in Workers, Apply(w), version = 0, version' = 0,
         NEW k \in 0..Prepared, NEW j \in 0..k, Len(worker[w].work) = Len(Plan) - j,
         \A i \in j + 1..Len(Plan) : \/ worker[w].work[i - j] = Plan[i]
                                     \/ i <= k /\ worker[w].work[i - j] = Adds({})
  PROVE  Together(w) \in 1..Len(worker[w].work) /\ j + Together(w) <= Prepared
<1> DEFINE p    == Plan
           n    == Prepared
           work == worker[w].work
           q    == Together(w)
<1>1. /\ Prepares(p, n) /\ (~site.migrates => Len(p) = n + 1)
      /\ Len(p) \in Nat /\ n \in Nat /\ n < Len(p) /\ p[n + 1].stamps # 0 /\ p[Len(p)].stamps # 0
      /\ p \in Seq(Statement)
  <2>1. Prepares(p, n) /\ (~site.migrates => Len(p) = n + 1)
    BY PlanPrepares
  <2> HIDE DEF p, n
  <2>2. p \in Seq(Statement) /\ Len(p) \in Nat
    BY <2>1 DEF Prepares
  <2> QED
    BY <2>1, <2>2 DEF Prepares
<1>2. /\ work \in Seq(Statement) /\ q \in 0..Len(work) /\ worker[w].at \in {"upgrading", "creating"}
      /\ Recorded(SubSeq(work, 1, q)) = 0
  BY TogetherBegins DEF Apply
<1>3. worker[w].at = "creating" => ~site.migrates
  BY DEF IInv, Sound
<1>4. ASSUME NEW i \in 1..q, i = q PROVE work[i].stamps = 0
  <2> DEFINE begun == SubSeq(work, 1, q)
  <2>1. Len(begun) = q /\ begun[q] = work[q] /\ begun # <<>>
    <3>1. ASSUME NEW s \in Seq(Statement), NEW h \in 1..Len(s)
          PROVE  Len(SubSeq(s, 1, h)) = h /\ SubSeq(s, 1, h)[h] = s[h]
      OBVIOUS
    <3>2. q \in 1..Len(work)
      BY <1>2, <1>4
    <3>3. Len(begun) = q /\ begun[q] = work[q]
      BY <1>2, <3>1, <3>2
    <3>4. q # 0
      BY <3>2
    <3> HIDE DEF begun
    <3> QED
      BY <3>3, <3>4
  <2>2. Recorded(begun) = 0
    BY <1>2
  <2>3. work[q] \in Statement
    BY <1>2, <1>4
  <2>4. work[q].stamps \in 0..3
    BY <2>3, RevisionFacts DEF Statement
  <2> HIDE DEF begun, q, work
  <2> QED
    BY <1>4, <2>1, <2>2, <2>4 DEF Recorded
<1>5. Len(work) = Len(p) - j /\ Len(work) >= 1 /\ j \in Nat /\ k \in Nat /\ j <= k /\ k <= n
  BY <1>1
<1>6. work[Len(work)].stamps # 0
  <2>1. Len(p) \in j + 1..Len(p) /\ ~(Len(p) <= k)
    BY <1>1, <1>5
  <2>2. work[Len(p) - j] = p[Len(p)]
    BY <2>1
  <2> QED
    BY <1>1, <1>5, <2>2
<1>7. /\ Len(work) <= 1 => q = Len(work)
      /\ Len(work) > 1 /\ ~site.transactional => q = 1
      /\ Len(work) > 1 /\ site.transactional /\ worker[w].at = "upgrading" => q = Len(work)
      /\ Len(work) > 1 /\ site.transactional /\ worker[w].at # "upgrading" => q = Len(work) - 1
  <2>1. Len(work) \in Nat
    BY <1>2
  <2> QED
    BY <2>1 DEF Together
<1>8. q # Len(work)
  <2> HIDE DEF p, n, work, q
  <2> QED
    BY <1>2, <1>4, <1>5, <1>6
<1>9. ASSUME q = 1 PROVE j + q <= n
  <2>1. work[1].stamps = 0
    BY <1>4, <1>9
  <2>2. j + 1 # n + 1
    <3> SUFFICES ASSUME j = n PROVE FALSE
      BY <1>1, <1>5
    <3>1. n + 1 \in j + 1..Len(p) /\ ~(n + 1 <= k) /\ (n + 1) - j = 1
      BY <1>1, <1>5
    <3>2. work[(n + 1) - j] = p[n + 1]
      BY <3>1
    <3> QED
      BY <1>1, <2>1, <3>1, <3>2
  <2> HIDE DEF p, n, work, q
  <2> QED
    BY <1>1, <1>5, <1>9, <2>2
<1>10. ASSUME q = Len(work) - 1, q # 1, worker[w].at = "creating" PROVE j + q <= n
  <2> HIDE DEF p, n, work, q
  <2> QED
    BY <1>1, <1>2, <1>3, <1>5, <1>8, <1>7, <1>10
<1> HIDE DEF p, n, work, q
<1>11. q \in 1..Len(work) /\ j + q <= n
  BY <1>2, <1>5, <1>7, <1>8, <1>9, <1>10
<1> QED
  BY <1>11 DEF n, work, q

\* The statements of a step bring the database further along the plan.
LEMMA ApplyOrderly == ASSUME IInv, Orderly, NEW w \in Workers, Apply(w) PROVE Orderly'
<1> DEFINE p    == Plan
           n    == Prepared
           work == worker[w].work
           q    == Together(w)
           rest == SubSeq(work, q + 1, Len(work))
<1> SUFFICES ASSUME site.finds = "nothing", version' = 0, crashes = 0
             PROVE  \E top \in 0..n : AtStep(p, top)'
  <2>1. site' = site /\ crashes' = crashes
    BY DEF Apply, Goes
  <2> QED
    BY <2>1 DEF Orderly, Plan, Prepared
<1>1. /\ work \in Seq(Statement) /\ Added(w) = Upto(work, q)
      /\ worker[w].at \in {"upgrading", "creating"} /\ site' = site
      /\ schema' = schema \cup Upto(work, q) /\ Upto(work, q) \cap schema = {}
      /\ version' = Recorded(SubSeq(work, 1, q))
  BY TogetherBegins DEF Apply, Collides, Goes
<1>2. version = 0
  <2>1. version' = version \/ version' > 0
    <3> DEFINE begun == SubSeq(work, 1, q)
    <3>1. version' = Recorded(begun)
      BY <1>1
    <3> HIDE DEF begun
    <3> QED
      BY <3>1 DEF Recorded
  <2> QED
    BY <2>1
<1>3. PICK k \in 0..n : AtStep(p, k)
  BY <1>2 DEF Orderly
<1>4. Working(w) /\ Follows(work, p, k)
  BY <1>1, <1>3 DEF AtStep, Working
<1>5. PICK j \in 0..k : /\ Len(work) = Len(p) - j
                        /\ \A i \in j + 1..Len(p) : work[i - j] = p[i] \/ (i <= k /\ work[i - j] = Adds({}))
  BY <1>4 DEF Follows, Leaves
<1>6. q \in 1..Len(work) /\ j + q <= n
  BY <1>2, <1>5, BeforeTheStamp
<1>7. Prepares(p, n) /\ n \in Nat /\ Len(p) \in Nat /\ n < Len(p)
  <2>1. Prepares(p, n)
    BY PlanPrepares
  <2> HIDE DEF p, n
  <2> QED
    BY <2>1 DEF Prepares
<1>8. worker \in [Workers -> [at : Places, work : Seq(Statement)]]
  BY DEF IInv, Types
<1>9. p' = p
  BY <1>1 DEF Plan
<1> HIDE DEF p, n, q
<1>10. PICK top \in Nat : (top = k \/ top = j + q) /\ k <= top /\ j + q <= top /\ top \in 0..n
  <2>1. k \in Nat /\ j + q \in Nat /\ k \in 0..n /\ j + q \in 0..n
    BY <1>6, <1>7
  <2>2. CASE k <= j + q
    <3> WITNESS j + q \in Nat
    <3> QED
      BY <2>1, <2>2
  <2>3. CASE j + q <= k
    <3> WITNESS k \in Nat
    <3> QED
      BY <2>1, <2>3
  <2> QED
    BY <2>1, <2>2, <2>3
<1>11. /\ Upto(p, k) \cup Upto(work, q) = Upto(p, top) /\ Follows(rest, p, top)
       /\ Len(rest) = Len(p) - (j + q)
  <2>1. schema = Upto(p, k)
    BY <1>3 DEF AtStep
  <2> HIDE DEF work, rest
  <2>2. Upto(work, q) \cap Upto(p, k) = {}
    BY <1>1, <2>1
  <2>3. work \in Seq(Statement) /\ Prepares(p, n) /\ Leaves(work, p, k, j)
    BY <1>1, <1>5, <1>7 DEF Leaves
  <2>4. q \in 1..Len(work) /\ j + q <= n /\ k <= top /\ j + q <= top /\ (top = k \/ top = j + q)
    BY <1>6, <1>10
  <2>6. /\ Upto(p, k) \cup Upto(work, q) = Upto(p, top)
        /\ Follows(SubSeq(work, q + 1, Len(work)), p, top)
        /\ Len(SubSeq(work, q + 1, Len(work))) = Len(p) - (j + q)
    BY <2>2, <2>3, <2>4, RunsOn
  <2> QED
    BY <2>6 DEF rest
<1>12. rest # <<>> /\ worker' = [worker EXCEPT ![w] = [at |-> worker[w].at, work |-> rest]]
  <2>1. rest # <<>>
    <3> HIDE DEF rest
    <3>1. Len(rest) > 0
      BY <1>6, <1>7, <1>11
    <3> QED
      BY <3>1
  <2> QED
    BY <2>1 DEF Apply, Goes, q
<1> HIDE DEF rest, work
<1>13. \A v \in Workers : worker'[v] = IF v = w THEN [at |-> worker[w].at, work |-> rest] ELSE worker[v]
  BY <1>8, <1>12
<1>14. schema' = Upto(p, top)
  BY <1>1, <1>3, <1>11 DEF AtStep
<1>15. ASSUME NEW v \in Workers, Working(v)' PROVE Follows(worker'[v].work, p, top)
  <2>1. CASE v = w
    BY <1>11, <1>13, <2>1
  <2>2. CASE v # w
    <3>1. worker'[v] = worker[v] /\ Working(v)
      BY <1>13, <1>15, <2>2 DEF Working
    <3>2. Follows(worker[v].work, p, k)
      BY <1>3, <3>1 DEF AtStep
    <3>3. k \in Nat /\ top \in Nat /\ k <= top
      BY <1>7, <1>10
    <3>4. Follows(worker[v].work, p, top)
      BY <3>2, <3>3, FollowsMore
    <3> QED
      BY <3>1, <3>4
  <2> QED
    BY <2>1, <2>2
<1>16. \E v \in Workers : Working(v)' /\ Len(worker'[v].work) = Len(p) - top
  <2>1. CASE top = j + q
    <3>1. Working(w)' /\ worker'[w].work = rest
      BY <1>1, <1>13 DEF Working
    <3> QED
      BY <1>11, <2>1, <3>1
  <2>2. CASE top = k /\ k # j + q
    <3>1. k > 0
      BY <1>6, <1>7, <1>10, <2>2
    <3>2. PICK v \in Workers : Working(v) /\ Len(worker[v].work) = Len(p) - k
      BY <1>3, <3>1 DEF AtStep
    <3>3. v # w
      <4> SUFFICES ASSUME v = w PROVE FALSE
        OBVIOUS
      <4>1. Len(work) = Len(p) - k
        BY <3>2 DEF work
      <4>2. k = j
        BY <1>5, <1>7, <4>1
      <4> QED
        BY <1>6, <1>7, <1>10, <2>2, <4>2
    <3> QED
      BY <1>13, <2>2, <3>2, <3>3 DEF Working
  <2> QED
    BY <1>10, <2>1, <2>2
<1>17. AtStep(p, top)'
  BY <1>9, <1>14, <1>15, <1>16 DEF AtStep
<1> QED
  BY <1>10, <1>17

\* A database found with a recorded revision keeps one.
RevisionStays == site.finds \notin {"nothing", "unstamped"} => version # 0

\* Every step keeps the order of things.
LEMMA StepsOrderly ==
  ASSUME SchemaAssumption, IInv, Orderly, RevisionStays, [Next]_vars
  PROVE  Orderly' /\ RevisionStays'
<1>1. site' = site /\ (version' = version \/ version' > 0)
  <2>1. CASE UNCHANGED vars
    BY <2>1 DEF vars
  <2>2. ASSUME NEW w \in Workers, Apply(w) PROVE site' = site /\ (version' = version \/ version' > 0)
    <3> DEFINE begun == SubSeq(worker[w].work, 1, Together(w))
    <3>1. site' = site /\ version' = Recorded(begun)
      BY <2>2 DEF Apply, Goes
    <3> HIDE DEF begun
    <3> QED
      BY <3>1 DEF Recorded
  <2>3. ASSUME NEW w \in Workers, Start(w) \/ Boot(w) \/ Look(w) \/ Fail(w) \/ Crash(w)
        PROVE  site' = site /\ version' = version
    BY <2>3 DEF Start, Boot, Look, Fail, Crash, Goes
  <2> QED
    BY <2>1, <2>2, <2>3 DEF Next, Step
<1>2. RevisionStays'
  BY <1>1 DEF RevisionStays
<1>3. ASSUME UNCHANGED vars PROVE Orderly'
  <2>1. UNCHANGED <<site, schema, version, worker, crashes>>
    BY <1>3 DEF vars
  <2>2. Plan' = Plan /\ Prepared' = Prepared
    BY <2>1 DEF Plan, Prepared
  <2>3. ASSUME NEW k, AtStep(Plan, k) PROVE AtStep(Plan, k)'
    BY <2>1, <2>2, <2>3 DEF AtStep, Working
  <2> QED
    BY <2>1, <2>2, <2>3 DEF Orderly
<1>4. ASSUME NEW w \in Workers, Start(w) PROVE Orderly'
  <2>1. UNCHANGED <<site, schema, version, crashes>> /\ ~Working(w)
    BY <1>4 DEF Start, Goes, Working
  <2>2. CASE site.migrates
    <3>1. worker' = [worker EXCEPT ![w] = [at |-> "upgrading", work |-> Upgrade(version)]]
      BY <1>4, <2>2 DEF Start, Goes
    <3>2. ASSUME version = 0, NEW k \in 0..Prepared, AtStep(Plan, k) PROVE Follows(Upgrade(version), Plan, k)
      BY <2>2, <3>2, NewWorkFollows DEF AtStep
    <3> QED
      BY <2>1, <3>1, <3>2, QuietOrderly
  <2>3. CASE ~site.migrates
    <3>1. worker' = [worker EXCEPT ![w] = [at |-> "booting", work |-> <<>>]]
      BY <1>4, <2>3 DEF Start, Goes
    <3>2. "booting" \notin {"upgrading", "creating"}
      OBVIOUS
    <3> QED
      BY <2>1, <3>1, <3>2, QuietOrderly
  <2> QED
    BY <2>2, <2>3
<1>5. ASSUME NEW w \in Workers, Boot(w) PROVE Orderly'
  <2>1. UNCHANGED <<site, schema, version, crashes>> /\ ~Working(w)
    BY <1>5 DEF Boot, Goes, Working
  <2>2. PICK at \in {"looking", "serving"} : worker' = [worker EXCEPT ![w] = [at |-> at, work |-> <<>>]]
    BY <1>5 DEF Boot, Goes
  <2>3. at \notin {"upgrading", "creating"}
    OBVIOUS
  <2> QED
    BY <2>1, <2>2, <2>3, QuietOrderly
<1>6. ASSUME NEW w \in Workers, Look(w) PROVE Orderly'
  <2>1. /\ UNCHANGED <<site, schema, version, crashes>> /\ ~Working(w) /\ worker[w].at = "looking"
        /\ worker' = [worker EXCEPT ![w] = [at |-> "creating", work |-> Bootstrap]]
    BY <1>6 DEF Look, Goes, Working
  <2>2. ~site.migrates
    BY <2>1 DEF IInv, Sound
  <2>3. ASSUME NEW k \in 0..Prepared, AtStep(Plan, k) PROVE Follows(Bootstrap, Plan, k)
    BY <2>2, <2>3, NewWorkFollows DEF AtStep
  <2> QED
    BY <2>1, <2>3, QuietOrderly
<1>7. ASSUME NEW w \in Workers, Fail(w) PROVE Orderly'
  <2>1. /\ UNCHANGED <<site, schema, version, crashes>> /\ Added(w) \cap schema # {}
        /\ worker' = [worker EXCEPT ![w] = [at |-> "down", work |-> <<>>]]
    BY <1>7 DEF Fail, Goes, Collides
  <2>2. /\ worker[w].work \in Seq(Statement) /\ Together(w) \in 0..Len(worker[w].work)
        /\ Added(w) = Upto(worker[w].work, Together(w))
    BY TogetherBegins
  <2>3. ASSUME NEW k \in 0..Prepared, AtStep(Plan, k), Working(w)
        PROVE  Len(worker[w].work) # Len(Plan) - k
    <3> SUFFICES ASSUME Len(worker[w].work) = Len(Plan) - k PROVE FALSE
      OBVIOUS
    <3>1. schema = Upto(Plan, k) /\ Follows(worker[w].work, Plan, k)
      BY <2>3 DEF AtStep
    <3>2. Prepares(Plan, Prepared)
      BY PlanPrepares
    <3>3. Upto(worker[w].work, Together(w)) \cap Upto(Plan, k) = {}
      BY <2>2, <3>1, <3>2, LeaderRuns
    <3> QED
      BY <2>1, <2>2, <3>1, <3>3
  <2>4. "down" \notin {"upgrading", "creating"}
    OBVIOUS
  <2> QED
    BY <2>1, <2>3, <2>4, QuietOrderly
<1>8. ASSUME NEW w \in Workers, Crash(w) PROVE Orderly'
  <2>1. crashes' # 0
    BY <1>8 DEF Crash, IInv, Types, SchemaAssumption
  <2> QED
    BY <2>1 DEF Orderly
<1> QED
  BY <1>2, <1>3, <1>4, <1>5, <1>6, <1>7, <1>8, ApplyOrderly DEF Next, Step

\* Tables without a revision come only from an older release or a crash:
\* starting processes that race, or fail, never leave them behind, for any
\* number of processes (bootstrap.py, entrypoint.sh).
THEOREM OrphansHaveACause == ASSUME SchemaAssumption PROVE Spec => []OrphanedByCrash
<1>1. ASSUME Init PROVE Orderly /\ RevisionStays
  <2>1. RevisionStays
    BY <1>1, FoundVersion DEF RevisionStays
  <2>2. ASSUME site.finds = "nothing" PROVE AtStep(Plan, 0)
    <3>1. schema = {}
      BY <1>1, <2>2, FoundVersion, WholeSteps DEF Init
    <3>2. Upto(Plan, 0) = {}
      BY DEF Upto
    <3>3. \A w \in Workers : ~Working(w)
      BY <1>1 DEF Init, Down, Working
    <3> QED
      BY <3>1, <3>2, <3>3 DEF AtStep
  <2>3. 0 \in 0..Prepared
    BY DEF Prepared
  <2> QED
    BY <2>1, <2>2, <2>3 DEF Orderly
<1>2. ASSUME IInv, Orderly, RevisionStays PROVE OrphanedByCrash
  <2> SUFFICES ASSUME schema # {}, version = 0, site.finds # "unstamped", ~(crashes > 0)
               PROVE  \E w \in Workers : worker[w].at \in {"upgrading", "creating"}
    BY DEF OrphanedByCrash, Orphaned
  <2>1. crashes = 0
    BY <1>2 DEF IInv, Types
  <2>2. site.finds = "nothing"
    BY <1>2 DEF RevisionStays
  <2>3. PICK k \in 0..Prepared : AtStep(Plan, k)
    BY <1>2, <2>1, <2>2 DEF Orderly
  <2>4. k > 0
    <3>1. Upto(Plan, 0) = {}
      BY DEF Upto
    <3> QED
      BY <2>3, <3>1 DEF AtStep, Prepared
  <2> QED
    BY <2>3, <2>4 DEF AtStep, Working
<1>3. IInv /\ Orderly /\ RevisionStays /\ [Next]_vars => (Orderly /\ RevisionStays)'
  BY StepsOrderly
<1> QED
  BY <1>1, <1>2, <1>3, Invariant, PTL DEF Spec
=============================================================================
