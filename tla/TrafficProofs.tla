---------------------------- MODULE TrafficProofs ----------------------------
(***************************************************************************)
(* Proofs about what comes in and what goes out, for any number of         *)
(* tenants, requests, threads, keys and hosts.                             *)
(*   Api          requests reach their own tenant's rows only, and what    *)
(*                they change is in the audit trail                        *)
(*   PublicFetch  a page is asked for politely, redirects included         *)
(*   RateLimiter  late threads admit a bounded number of uses too many,    *)
(*                and a refusal is always earned                           *)
(*   MCTraffic    side by side each module is what it is alone, so what is *)
(*                proved of the modules holds in the run                   *)
(***************************************************************************)
EXTENDS MCTraffic, FiniteSetTheorems, SequenceTheorems, TLAPS

Stages == {"arrived", "known", "limited", "committed", "answered", "done", "lost"}

Requested ==
  [at : Stages, route : Routes, tenant : Tenants \cup {Nil}, writer : BOOLEAN, agrees : BOOLEAN,
   row : Tenants \cup {Nil}, changed : Tenants \cup {Nil}, events : {0, 1}, answer : Nat]

\* Numbers and kinds by their names.
Writes(route)      == route.kind \in {"write", "public write"}
Write(route)       == route.kind = "write"
PublicWrite(route) == route.kind = "public write"
Refusal(status) == status \in {401, 403, 404, 409, 429}
Ok(status)      == status = 200
Logged(events)  == events = 1
Silent(events)  == events = 0

\* What the middleware, the limiter and the service have let through.
Before(r) == r.at \in {"arrived", "known", "limited"} => r.changed = Nil /\ r.events = 0 /\ r.answer = 0
Known(r)  == r.at \in {"known", "limited", "committed"} /\ ~IsPublic(r.route) => r.tenant # Nil /\ r.agrees
Named(r)  == r.route.named <=> r.row # Nil
Committed(r) ==
  r.at = "committed" =>
    /\ Writes(r.route) /\ r.changed = Target(r) /\ Visible(r) /\ MayWrite(r)
    /\ IsPublic(r.route) => r.events = 0
    /\ ~IsPublic(r.route) => r.events = 1

\* The two properties, of one request.
Isolated(r) ==
  ~IsPublic(r.route) =>
    /\ r.changed # Nil => r.writer /\ r.changed = r.tenant
    /\ Ok(r.answer) => r.tenant # Nil /\ r.agrees /\ (r.route.named => r.row = r.tenant)
Trailed(r) ==
  /\ Logged(r.events) => r.changed # Nil
  /\ r.changed # Nil /\ Silent(r.events) => PublicWrite(r.route) \/ (r.route.notes /\ ~Ok(r.answer))
  /\ Ok(r.answer) /\ Write(r.route) => Logged(r.events)
  /\ Refusal(r.answer) => r.changed = Nil \/ r.route.notes

Good(r) == r \in Requested /\ Before(r) /\ Known(r) /\ Named(r) /\ Committed(r) /\ Isolated(r) /\ Trailed(r)

AllGood == request \in Seq(Requested) /\ \A n \in DOMAIN request : Good(request[n])

\* The requests that may have counted for a quota.
LimitedUses(a, t) ==
  {n \in DOMAIN request :
     request[n].tenant = t /\ request[n].route.action = a /\ request[n].at \notin {"arrived", "known"}}

Spending ==
  /\ spent \in [Actions -> [Tenants -> 0..Quota]]
  /\ \A a \in Actions, t \in Tenants : spent[a][t] <= Cardinality(LimitedUses(a, t))

ApiInv == AllGood /\ Spending /\ gauge = Cardinality(InFlight)
-----------------------------------------------------------------------------
\* No operator's route is public.
LEMMA OperatorRoutes ==
  \A r \in RoutesOf(CampaignRoutes) \cup RoutesOf(ProspectRoutes) \cup RoutesOf(ProposalRoutes) : ~IsPublic(r)
<1>1. \A r \in RoutesOf(CampaignRoutes) : ~IsPublic(r)
  <2>1. DOMAIN CampaignRoutes =
        {"get_summary", "get_prospecting_policy", "patch_prospecting_policy", "get_campaigns",
        "post_campaign", "post_discover"}
    BY DEF CampaignRoutes
  <2>2. /\ CampaignRoutes["get_summary"].kind = "read"
        /\ CampaignRoutes["get_prospecting_policy"].kind = "read"
        /\ CampaignRoutes["patch_prospecting_policy"].kind = "write"
        /\ CampaignRoutes["get_campaigns"].kind = "read"
        /\ CampaignRoutes["post_campaign"].kind = "write"
        /\ CampaignRoutes["post_discover"].kind = "write"
    BY DEF CampaignRoutes, Route
  <2>3. \A name \in DOMAIN CampaignRoutes : CampaignRoutes[name].kind \in {"read", "write"}
    BY <2>1, <2>2
  <2> QED
    BY <2>3 DEF RoutesOf, IsPublic
<1>2. \A r \in RoutesOf(ProspectRoutes) : ~IsPublic(r)
  <2>1. DOMAIN ProspectRoutes =
        {"get_prospects", "post_prospect", "post_prospects_bulk_csv", "get_prospect",
        "post_promote_prospect", "patch_prospect", "post_analysis", "get_analyses"}
    BY DEF ProspectRoutes
  <2>2. /\ ProspectRoutes["get_prospects"].kind = "read"
        /\ ProspectRoutes["post_prospect"].kind = "write"
        /\ ProspectRoutes["post_prospects_bulk_csv"].kind = "write"
        /\ ProspectRoutes["get_prospect"].kind = "read"
        /\ ProspectRoutes["post_promote_prospect"].kind = "write"
        /\ ProspectRoutes["patch_prospect"].kind = "write"
        /\ ProspectRoutes["post_analysis"].kind = "write"
        /\ ProspectRoutes["get_analyses"].kind = "read"
    BY DEF ProspectRoutes, Route
  <2>3. \A name \in DOMAIN ProspectRoutes : ProspectRoutes[name].kind \in {"read", "write"}
    BY <2>1, <2>2
  <2> QED
    BY <2>3 DEF RoutesOf, IsPublic
<1>3. \A r \in RoutesOf(ProposalRoutes) : ~IsPublic(r)
  <2>1. DOMAIN ProposalRoutes =
        {"post_proposal", "get_proposals", "get_proposal", "get_proposal_presentation",
        "patch_proposal", "post_approve", "post_share", "post_deliver", "post_suppression"}
    BY DEF ProposalRoutes
  <2>2. /\ ProposalRoutes["post_proposal"].kind = "write"
        /\ ProposalRoutes["get_proposals"].kind = "read"
        /\ ProposalRoutes["get_proposal"].kind = "read"
        /\ ProposalRoutes["get_proposal_presentation"].kind = "read"
        /\ ProposalRoutes["patch_proposal"].kind = "write"
        /\ ProposalRoutes["post_approve"].kind = "write"
        /\ ProposalRoutes["post_share"].kind = "write"
        /\ ProposalRoutes["post_deliver"].kind = "write"
        /\ ProposalRoutes["post_suppression"].kind = "write"
    BY DEF ProposalRoutes, Route
  <2>3. \A name \in DOMAIN ProposalRoutes : ProposalRoutes[name].kind \in {"read", "write"}
    BY <2>1, <2>2
  <2> QED
    BY <2>3 DEF RoutesOf, IsPublic
<1> QED
  BY <1>1, <1>2, <1>3

\* A public route names its row and is not limited.
LEMMA RouteFacts == \A r \in Routes : IsPublic(r) => r.named /\ r.action = Nil
<1>1. \A r \in RoutesOf(PublicRoutes) : r.named /\ r.action = Nil
  <2>1. DOMAIN PublicRoutes =
        {"get_public_proposal", "get_public_presentation", "post_public_opt_out"}
    BY DEF PublicRoutes
  <2>2. /\ PublicRoutes["get_public_proposal"].named /\ PublicRoutes["get_public_proposal"].action = Nil
        /\ PublicRoutes["get_public_presentation"].named /\ PublicRoutes["get_public_presentation"].action = Nil
        /\ PublicRoutes["post_public_opt_out"].named /\ PublicRoutes["post_public_opt_out"].action = Nil
    BY DEF PublicRoutes, Route
  <2>3. \A name \in DOMAIN PublicRoutes : PublicRoutes[name].named /\ PublicRoutes[name].action = Nil
    BY <2>1, <2>2
  <2> QED
    BY <2>3 DEF RoutesOf
<1>2. \A r \in Routes : r \in RoutesOf(PublicRoutes) \/
        r \in RoutesOf(CampaignRoutes) \cup RoutesOf(ProspectRoutes) \cup RoutesOf(ProposalRoutes)
  BY DEF Routes
<1> QED
  BY <1>1, <1>2, OperatorRoutes

\* A public write is not an operator's.
LEMMA WriteKinds ==
  ASSUME NEW route, Writes(route)
  PROVE  /\ IsPublic(route) => PublicWrite(route) /\ ~Write(route)
         /\ ~IsPublic(route) => Write(route)
BY DEF IsPublic, Writes, Write, PublicWrite

\* No success and no failure of the database is a refusal.
LEMMA RefusalFacts ==
  /\ ~Refusal(0) /\ ~Ok(0) /\ Ok(200)
  /\ \A status : Ok(status) => ~Refusal(status)
  /\ \A status \in {401, 403, 404, 409, 429, 500, 502, 503} : status \in Nat /\ ~Ok(status)
  /\ \A status \in {200, 503} : status \in Nat /\ ~Refusal(status)
  /\ Logged(1) /\ ~Logged(0) /\ Silent(0) /\ ~Silent(1)
BY DEF Refusal, Ok, Logged, Silent

\* The counted requests are finitely many.
LEMMA FiniteRequests ==
  ASSUME AllGood
  PROVE  /\ IsFiniteSet(DOMAIN request) /\ IsFiniteSet(InFlight)
         /\ \A a \in Actions, t \in Tenants : IsFiniteSet(LimitedUses(a, t))
<1>1. DOMAIN request = 1..Len(request) /\ Len(request) \in Nat
  BY DEF AllGood
<1>2. IsFiniteSet(1..Len(request))
  BY <1>1, FS_Interval
<1>3. InFlight \subseteq DOMAIN request /\ \A a \in Actions, t \in Tenants : LimitedUses(a, t) \subseteq DOMAIN request
  BY DEF InFlight, LimitedUses
<1> QED
  BY <1>1, <1>2, <1>3, FS_Subset

\* A request that moves on.
LEMMA Moves ==
  ASSUME AllGood, NEW n \in DOMAIN request, NEW r, Good(r), request' = [request EXCEPT ![n] = r]
  PROVE  /\ AllGood' /\ DOMAIN request' = DOMAIN request
         /\ \A m \in DOMAIN request : request'[m] = IF m = n THEN r ELSE request[m]
<1>1. r \in Requested
  BY DEF Good
<1>2. request' \in Seq(Requested) /\ DOMAIN request' = DOMAIN request
  BY <1>1 DEF AllGood
<1>3. \A m \in DOMAIN request : request'[m] = IF m = n THEN r ELSE request[m]
  BY DEF AllGood
<1>4. \A m \in DOMAIN request' : Good(request'[m])
  BY <1>2, <1>3 DEF AllGood
<1> QED
  BY <1>2, <1>4, <1>3 DEF AllGood

\* As long as no counted request is forgotten, the quotas are covered.
LEMMA StillSpent ==
  ASSUME ApiInv, AllGood', UNCHANGED spent,
         \A a \in Actions, t \in Tenants : LimitedUses(a, t) \subseteq LimitedUses(a, t)'
  PROVE  Spending'
<1>1. \A a \in Actions, t \in Tenants : IsFiniteSet(LimitedUses(a, t)')
  <2>1. DOMAIN request' = 1..Len(request') /\ Len(request') \in Nat
    BY DEF AllGood
  <2>2. IsFiniteSet(DOMAIN request')
    BY <2>1, FS_Interval
  <2>3. \A a \in Actions, t \in Tenants : LimitedUses(a, t)' \subseteq DOMAIN request'
    BY DEF LimitedUses
  <2> QED
    BY <2>2, <2>3, FS_Subset
<1>2. ASSUME NEW a \in Actions, NEW t \in Tenants PROVE spent'[a][t] <= Cardinality(LimitedUses(a, t)')
  <2>1. Cardinality(LimitedUses(a, t)) <= Cardinality(LimitedUses(a, t)') /\ IsFiniteSet(LimitedUses(a, t))
    BY <1>1, FS_Subset
  <2>2. Cardinality(LimitedUses(a, t)) \in Nat /\ Cardinality(LimitedUses(a, t)') \in Nat
    BY <1>1, <2>1, FS_CardinalityType
  <2>3. spent[a][t] <= Cardinality(LimitedUses(a, t)) /\ spent[a][t] \in 0..Quota
    BY DEF ApiInv, Spending
  <2> QED
    BY <2>1, <2>2, <2>3
<1>3. spent' \in [Actions -> [Tenants -> 0..Quota]]
  BY DEF ApiInv, Spending
<1> QED
  BY <1>2, <1>3 DEF Spending

\* A move that neither ends the request nor takes it back before the limiter.
LEMMA CountsKept ==
  ASSUME ApiInv, NEW n \in DOMAIN request, NEW r, Good(r), UNCHANGED <<gauge, spent>>,
         request' = [request EXCEPT ![n] = r],
         request[n].at \notin {"done", "lost"}, r.at \notin {"done", "lost"},
         r.tenant = request[n].tenant, r.route = request[n].route,
         request[n].at \in {"arrived", "known"} \/ r.at \notin {"arrived", "known"}
  PROVE  ApiInv'
<1>1. /\ AllGood' /\ DOMAIN request' = DOMAIN request
      /\ \A m \in DOMAIN request : request'[m] = IF m = n THEN r ELSE request[m]
  BY Moves DEF ApiInv
<1>2. InFlight' = InFlight
  BY <1>1 DEF InFlight
<1>3. \A a \in Actions, t \in Tenants : LimitedUses(a, t) \subseteq LimitedUses(a, t)'
  BY <1>1 DEF LimitedUses
<1>4. Spending'
  BY <1>1, <1>3, StillSpent
<1> QED
  BY <1>1, <1>2, <1>4 DEF ApiInv

-----------------------------------------------------------------------------
\* What becomes of a request.
Onwards(r, at)      == [r EXCEPT !.at = at]
Responded(r, status) == [r EXCEPT !.at = "answered", !.answer = status]
Changed(r)          == [r EXCEPT !.at = "committed", !.changed = Target(r),
                                 !.events = IF IsPublic(r.route) THEN 0 ELSE 1]
Noted(r, status)    == [r EXCEPT !.at = "answered", !.changed = Target(r), !.answer = status]
Lost(r)             == [r EXCEPT !.at = "lost", !.answer = 0]

\* What the caller sent stays as it is.
Alike(q, r) ==
  /\ q.route = r.route /\ q.row = r.row /\ q.tenant = r.tenant
  /\ q.writer = r.writer /\ q.agrees = r.agrees

\* The fields of what becomes of it.
LEMMA OnwardsFields ==
  ASSUME NEW r \in Requested, NEW at \in Stages
  PROVE  LET q == Onwards(r, at)
         IN /\ q \in Requested /\ Alike(q, r) /\ q.at = at
            /\ q.changed = r.changed /\ q.events = r.events /\ q.answer = r.answer
BY DEF Requested, Onwards, Alike

\* The same of a response.
LEMMA RespondedFields ==
  ASSUME NEW r \in Requested, NEW status \in Nat
  PROVE  LET q == Responded(r, status)
         IN /\ q \in Requested /\ Alike(q, r) /\ q.at = "answered"
            /\ q.changed = r.changed /\ q.events = r.events /\ q.answer = status
BY DEF Requested, Responded, Alike, Stages

\* The same of a change.
LEMMA ChangedFields ==
  ASSUME NEW r \in Requested, Target(r) \in Tenants
  PROVE  LET q == Changed(r)
         IN /\ q \in Requested /\ Alike(q, r) /\ q.at = "committed"
            /\ q.changed = Target(r) /\ q.answer = r.answer
            /\ (IsPublic(r.route) => q.events = 0) /\ (~IsPublic(r.route) => q.events = 1)
<1> DEFINE e == IF IsPublic(r.route) THEN 0 ELSE 1
<1>1. e \in {0, 1} /\ (IsPublic(r.route) => e = 0) /\ (~IsPublic(r.route) => e = 1)
  OBVIOUS
<1> HIDE DEF e
<1>2. Changed(r) = [r EXCEPT !.at = "committed", !.changed = Target(r), !.events = e]
  BY DEF Changed, e
<1> QED
  BY <1>1, <1>2 DEF Requested, Alike, Stages

\* The same of the record of a failure.
LEMMA NotedFields ==
  ASSUME NEW r \in Requested, NEW status \in Nat, Target(r) \in Tenants
  PROVE  LET q == Noted(r, status)
         IN /\ q \in Requested /\ Alike(q, r) /\ q.at = "answered"
            /\ q.changed = Target(r) /\ q.events = r.events /\ q.answer = status
BY DEF Requested, Noted, Alike, Stages

\* The same of a request whose process died.
LEMMA LostFields ==
  ASSUME NEW r \in Requested
  PROVE  LET q == Lost(r)
         IN /\ q \in Requested /\ Alike(q, r) /\ q.at = "lost"
            /\ q.changed = r.changed /\ q.events = r.events /\ q.answer = 0
BY DEF Requested, Lost, Alike, Stages

\* A request that nothing was changed for and that is answered with no row.
LEMMA Unchanged ==
  ASSUME NEW q \in Requested, Named(q), q.changed = Nil, q.events = 0, ~Ok(q.answer),
         q.at \in {"answered", "lost"} \/ (q.answer = 0 /\ q.at \in {"arrived", "known", "limited"} /\ Known(q))
  PROVE  Good(q)
<1>1. Before(q) /\ Known(q) /\ Committed(q)
  BY DEF Before, Known, Committed
<1>2. ~Logged(q.events)
  BY RefusalFacts
<1>3. Isolated(q) /\ Trailed(q)
  BY <1>2 DEF Isolated, Trailed
<1> QED
  BY <1>1, <1>3 DEF Good

\* A response to a request that changed nothing.
LEMMA Refused ==
  ASSUME NEW r, Good(r), r.at \in {"arrived", "known", "limited"}, NEW status \in Nat, ~Ok(status)
  PROVE  Good(Responded(r, status))
<1> DEFINE q == Responded(r, status)
<1>1. r \in Requested /\ r.changed = Nil /\ r.events = 0 /\ Named(r)
  BY DEF Good, Before
<1>2. q \in Requested /\ Alike(q, r) /\ q.at = "answered" /\ q.changed = Nil /\ q.events = 0 /\ q.answer = status
  BY <1>1, RespondedFields
<1> HIDE DEF q
<1>3. Named(q)
  BY <1>1, <1>2 DEF Named, Alike
<1>4. ~Ok(q.answer)
  BY <1>2
<1>5. Good(q)
  BY <1>2, <1>3, <1>4, Unchanged
<1> QED
  BY <1>5 DEF q

\* A request that goes on.
LEMMA Onward ==
  ASSUME NEW r, Good(r), NEW at \in {"known", "limited"},
         \/ r.at = "arrived" /\ (IsPublic(r.route) \/ (r.tenant # Nil /\ r.agrees))
         \/ r.at = "known"
  PROVE  Good(Onwards(r, at))
<1> DEFINE q == Onwards(r, at)
<1>1. /\ r \in Requested /\ r.changed = Nil /\ r.events = 0 /\ r.answer = 0 /\ Named(r)
      /\ IsPublic(r.route) \/ (r.tenant # Nil /\ r.agrees)
  BY DEF Good, Before, Known
<1>2. q \in Requested /\ Alike(q, r) /\ q.at = at /\ q.changed = Nil /\ q.events = 0 /\ q.answer = 0
  <2>1. at \in Stages
    BY DEF Stages
  <2> QED
    BY <1>1, <2>1, OnwardsFields
<1> HIDE DEF q
<1>3. Named(q) /\ Known(q)
  BY <1>1, <1>2 DEF Named, Known, Alike
<1>4. ~Ok(q.answer)
  BY <1>2, RefusalFacts
<1>5. Good(q)
  BY <1>2, <1>3, <1>4, Unchanged
<1> QED
  BY <1>5 DEF q

\* A request that is answered.
LEMMA AnswerKeeps ==
  ASSUME ApiInv, NEW n \in DOMAIN request, NEW status \in Nat, Fails(n, status),
         request[n].at \in {"arrived", "known", "limited", "committed"}, Good(Responded(request[n], status))
  PROVE  ApiInv'
<1> DEFINE r == Responded(request[n], status)
<1>1. request[n] \in Requested
  BY DEF ApiInv, AllGood, Good
<1>2. r.at = "answered" /\ r.tenant = request[n].tenant /\ r.route = request[n].route
  BY <1>1, RespondedFields DEF Alike
<1>3. request' = [request EXCEPT ![n] = r] /\ UNCHANGED <<gauge, spent>>
  BY DEF Fails, Becomes, Responded
<1>4. Good(r)
  OBVIOUS
<1> HIDE DEF r
<1> QED
  BY <1>2, <1>3, <1>4, CountsKept

\* A change's rows are those of a tenant: the writer's, or the token's.
LEMMA ChangesOwn ==
  ASSUME ApiAssumption, NEW r, Good(r), r.at = "limited", MayWrite(r), Visible(r),
         Writes(r.route)
  PROVE  /\ Target(r) \in Tenants
         /\ ~IsPublic(r.route) => Target(r) = r.tenant /\ r.writer
<1>1. r \in Requested /\ r.route \in Routes /\ r.row \in Tenants \cup {Nil} /\ r.tenant \in Tenants \cup {Nil}
  BY DEF Good, Requested
<1>2. CASE IsPublic(r.route)
  <2>1. r.route.named
    BY <1>1, <1>2, RouteFacts
  <2> QED
    BY <1>1, <1>2, <2>1 DEF Good, Named, Target
<1>3. CASE ~IsPublic(r.route)
  <2>1. r.tenant # Nil /\ r.route.kind = "write"
    BY <1>3, WriteKinds DEF Good, Known, Write
  <2>2. r.writer /\ (r.route.named => r.row = r.tenant)
    BY <1>3, <2>1 DEF MayWrite, Visible
  <2> QED
    BY <1>1, <2>1, <2>2 DEF Target
<1> QED
  BY <1>2, <1>3

\* An answer about the caller's own rows.
LEMMA ReadKeeps ==
  ASSUME NEW r, Good(r), r.at = "limited", Visible(r), ~Write(r.route), NEW status \in Nat, Ok(status)
  PROVE  Good(Responded(r, status))
<1> DEFINE q == Responded(r, status)
<1>1. /\ r \in Requested /\ r.changed = Nil /\ r.events = 0 /\ Named(r)
      /\ IsPublic(r.route) \/ (r.tenant # Nil /\ r.agrees)
  BY DEF Good, Before, Known
<1>2. q \in Requested /\ Alike(q, r) /\ q.at = "answered" /\ q.changed = Nil /\ q.events = 0 /\ q.answer = status
  BY <1>1, RespondedFields
<1> HIDE DEF q
<1>3. Before(q) /\ Known(q) /\ Named(q) /\ Committed(q)
  BY <1>1, <1>2 DEF Before, Known, Named, Committed, Alike
<1>4. Isolated(q)
  BY <1>1, <1>2 DEF Isolated, Alike, Visible
<1>5. Trailed(q)
  <2>1. ~Write(q.route) /\ ~Refusal(q.answer) /\ ~Logged(q.events)
    BY <1>2, RefusalFacts DEF Alike
  <2> QED
    BY <1>2, <2>1 DEF Trailed
<1>6. Good(q)
  BY <1>2, <1>3, <1>4, <1>5 DEF Good
<1> QED
  BY <1>6 DEF q

\* The record of a failure is the writer's own.
LEMMA NoteKeeps ==
  ASSUME ApiAssumption, NEW r, Good(r), r.at = "limited", r.route.notes, Writes(r.route),
         MayWrite(r), Visible(r), NEW status \in Nat, ~Ok(status)
  PROVE  Good(Noted(r, status))
<1> DEFINE q == Noted(r, status)
<1>1. r \in Requested /\ r.events = 0 /\ Named(r)
  BY DEF Good, Before
<1>2. Target(r) \in Tenants /\ (~IsPublic(r.route) => Target(r) = r.tenant /\ r.writer)
  BY ChangesOwn
<1>3. q \in Requested /\ Alike(q, r) /\ q.at = "answered" /\ q.changed = Target(r) /\ q.events = 0 /\ q.answer = status
  BY <1>1, <1>2, NotedFields
<1> HIDE DEF q
<1>4. Before(q) /\ Known(q) /\ Named(q) /\ Committed(q)
  BY <1>1, <1>3 DEF Before, Known, Named, Committed, Alike
<1>5. ~Ok(q.answer) /\ ~Logged(q.events) /\ q.route.notes
  <2>1. ~Ok(q.answer) /\ q.route.notes
    BY <1>3 DEF Alike
  <2>2. ~Logged(q.events)
    BY <1>3, RefusalFacts
  <2> QED
    BY <2>1, <2>2
<1>6. Isolated(q)
  BY <1>2, <1>3, <1>5 DEF Isolated, Alike
<1>7. Trailed(q)
  BY <1>5 DEF Trailed
<1>8. Good(q)
  BY <1>3, <1>4, <1>6, <1>7 DEF Good
<1> QED
  BY <1>8 DEF q

\* The change is the writer's own, with its event.
LEMMA ChangeKeeps ==
  ASSUME ApiAssumption, NEW r, Good(r), r.at = "limited", Writes(r.route),
         MayWrite(r), Visible(r)
  PROVE  Good(Changed(r)) /\ Alike(Changed(r), r) /\ Changed(r).at = "committed"
<1> DEFINE q == Changed(r)
<1>1. r \in Requested /\ r.answer = 0 /\ Named(r) /\ Known(r)
  BY DEF Good, Before
<1>2. Target(r) \in Tenants /\ (~IsPublic(r.route) => Target(r) = r.tenant /\ r.writer)
  BY ChangesOwn
<1>3. /\ q \in Requested /\ Alike(q, r) /\ q.at = "committed" /\ q.changed = Target(r)
      /\ (IsPublic(r.route) => q.events = 0) /\ (~IsPublic(r.route) => q.events = 1) /\ q.answer = 0
  BY <1>1, <1>2, ChangedFields
<1> HIDE DEF q
<1>4. Before(q) /\ Known(q) /\ Named(q)
  BY <1>1, <1>3 DEF Before, Known, Named, Alike
<1>5. Target(q) = Target(r) /\ Visible(q) /\ MayWrite(q)
  BY <1>3 DEF Target, Visible, MayWrite, Alike
<1>6. Committed(q)
  BY <1>3, <1>5 DEF Committed, Alike
<1>7. ~Ok(q.answer) /\ ~Refusal(q.answer)
  BY <1>3, RefusalFacts
<1>8. Isolated(q)
  BY <1>2, <1>3, <1>7 DEF Isolated, Alike
<1>9. Trailed(q)
  <2>1. q.changed # Nil /\ q.route = r.route
    BY <1>2, <1>3 DEF ApiAssumption, Alike
  <2>2. Silent(q.events) => IsPublic(r.route)
    BY <1>3, RefusalFacts
  <2>3. IsPublic(r.route) => PublicWrite(r.route)
    BY WriteKinds
  <2> QED
    BY <1>7, <2>1, <2>2, <2>3 DEF Trailed
<1>10. Good(q)
  BY <1>3, <1>4, <1>6, <1>8, <1>9 DEF Good
<1> QED
  BY <1>3, <1>10 DEF q

\* A change that is kept is answered, or fails after it.
LEMMA RefreshKeeps ==
  ASSUME ApiAssumption, NEW r, Good(r), r.at = "committed", NEW status \in Nat, ~Refusal(status)
  PROVE  Good(Responded(r, status))
<1> DEFINE q == Responded(r, status)
<1>1. r \in Requested /\ Known(r) /\ Named(r) /\ Committed(r) /\ Isolated(r) /\ Trailed(r)
  BY DEF Good
<1>2. q \in Requested /\ Alike(q, r) /\ q.at = "answered" /\ q.changed = r.changed /\ q.events = r.events /\ q.answer = status
  BY <1>1, RespondedFields
<1>3. /\ r.changed = Target(r) /\ Visible(r)
      /\ (IsPublic(r.route) => r.events = 0) /\ (~IsPublic(r.route) => r.events = 1)
      /\ Writes(r.route) /\ (IsPublic(r.route) \/ (r.tenant # Nil /\ r.agrees))
  BY <1>1 DEF Committed, Known
<1> HIDE DEF q
<1>4. Before(q) /\ Known(q) /\ Named(q) /\ Committed(q)
  BY <1>1, <1>2 DEF Before, Known, Named, Committed, Alike
<1>5. Isolated(q)
  BY <1>1, <1>2, <1>3 DEF Isolated, Alike, Visible
<1>6. Trailed(q)
  <2>1. Silent(r.events) => IsPublic(r.route)
    BY <1>3, RefusalFacts
  <2>2. ~IsPublic(r.route) => Logged(r.events)
    BY <1>3, RefusalFacts
  <2>3. Writes(r.route)
    BY <1>3
  <2>4. IsPublic(r.route) => PublicWrite(r.route) /\ ~Write(r.route)
    BY <2>3, WriteKinds
  <2>5. Logged(r.events) => r.changed # Nil
    BY <1>1 DEF Trailed
  <2>6. q.route = r.route /\ q.events = r.events /\ q.changed = r.changed /\ ~Refusal(q.answer)
    BY <1>2 DEF Alike
  <2> QED
    BY <2>1, <2>2, <2>4, <2>5, <2>6 DEF Trailed
<1>7. Good(q)
  BY <1>2, <1>4, <1>5, <1>6 DEF Good
<1> QED
  BY <1>7 DEF q

\* A request that is over keeps what was changed for it.
LEMMA OverKeeps ==
  ASSUME NEW r, Good(r), NEW q \in Requested, Alike(q, r), q.at \in {"done", "lost"},
         q.changed = r.changed, q.events = r.events, q.answer = r.answer \/ q.answer = 0
  PROVE  Good(q)
<1>1. Named(r) /\ Isolated(r) /\ Trailed(r) /\ r.route = q.route
  BY DEF Good, Alike
<1>2. Before(q) /\ Known(q) /\ Named(q) /\ Committed(q)
  BY <1>1 DEF Before, Known, Named, Committed, Alike
<1>3. q.answer = r.answer \/ (~Ok(q.answer) /\ ~Refusal(q.answer))
  BY RefusalFacts
<1>4. Isolated(q)
  BY <1>1, <1>3 DEF Isolated, Alike
<1>5. Trailed(q)
  BY <1>1, <1>3 DEF Trailed
<1> QED
  BY <1>2, <1>4, <1>5 DEF Good

-----------------------------------------------------------------------------
\* A request that arrives is one more in flight, and counts for no quota yet.
LEMMA ArriveStep == ASSUME ApiAssumption, ApiInv, NEW r \in Requests, Arrive(r) PROVE ApiInv'
<1> DEFINE q == Arrived(r)
           n == Len(request) + 1
<1>1. request' = Append(request, q) /\ gauge' = gauge + 1 /\ UNCHANGED spent /\ request \in Seq(Requested)
  BY DEF Arrive, ApiInv, AllGood
<1>2. /\ q \in Requested /\ q.at = "arrived" /\ q.changed = Nil /\ q.events = 0 /\ q.answer = 0
      /\ q.route.named <=> q.row # Nil
  BY DEF Requests, Arrived, Requested, Stages
<1> HIDE DEF q
<1>3. Good(q)
  <2>1. Named(q) /\ Known(q)
    BY <1>2 DEF Named, Known
  <2>2. ~Ok(q.answer)
    BY <1>2, RefusalFacts
  <2> QED
    BY <1>2, <2>1, <2>2, Unchanged
<1>4. /\ request' \in Seq(Requested) /\ DOMAIN request' = DOMAIN request \cup {n} /\ n \notin DOMAIN request
      /\ request'[n] = q /\ \A m \in DOMAIN request : request'[m] = request[m]
  BY <1>1, <1>2
<1> HIDE DEF n
<1>5. AllGood'
  BY <1>3, <1>4 DEF ApiInv, AllGood
<1>6. InFlight' = InFlight \cup {n} /\ n \notin InFlight
  BY <1>2, <1>4 DEF InFlight
<1>7. gauge' = Cardinality(InFlight')
  <2>1. IsFiniteSet(InFlight)
    BY FiniteRequests DEF ApiInv
  <2>2. Cardinality(InFlight \cup {n}) = Cardinality(InFlight) + 1
    BY <1>6, <2>1, FS_AddElement
  <2> QED
    BY <1>1, <1>6, <2>2 DEF ApiInv
<1>8. \A a \in Actions, t \in Tenants : LimitedUses(a, t) \subseteq LimitedUses(a, t)'
  BY <1>4 DEF LimitedUses
<1> QED
  BY <1>1, <1>5, <1>7, <1>8, StillSpent DEF ApiInv

\* The token is there, and names the tenant asked for.
LEMMA AuthenticateStep == ASSUME ApiInv, NEW n, Authenticate(n) PROVE ApiInv'
<1>1. n \in DOMAIN request /\ request[n].at = "arrived" /\ Good(request[n]) /\ request[n] \in Requested
  BY DEF Authenticate, Is, ApiInv, AllGood, Good
<1>2. Good(Responded(request[n], 401)) /\ Good(Responded(request[n], 403))
  BY <1>1, Refused, RefusalFacts
<1>3. CASE Fails(n, 401)
  BY <1>1, <1>2, <1>3, AnswerKeeps
<1>4. CASE Fails(n, 403)
  BY <1>1, <1>2, <1>4, AnswerKeeps
<1>5. CASE Goes(n, "known") /\ (IsPublic(request[n].route) \/ (request[n].tenant # Nil /\ request[n].agrees))
  <2> DEFINE r == Onwards(request[n], "known")
  <2>1. Good(r)
    BY <1>1, <1>5, Onward
  <2>2. request' = [request EXCEPT ![n] = r] /\ UNCHANGED <<gauge, spent>>
    BY <1>5 DEF Goes, Becomes, Onwards
  <2>3. r.at = "known" /\ r.tenant = request[n].tenant /\ r.route = request[n].route
    BY <1>1, OnwardsFields DEF Alike, Stages
  <2> HIDE DEF r
  <2> QED
    BY <1>1, <2>1, <2>2, <2>3, CountsKept
<1>6. request[n].tenant \in Tenants \cup {Nil} /\ request[n].agrees \in BOOLEAN
  BY <1>1 DEF Requested
<1> QED
  BY <1>3, <1>4, <1>5, <1>6 DEF Authenticate

\* A use that is counted is counted for the tenant of the request's token.
LEMMA LimitStep == ASSUME ApiAssumption, ApiInv, NEW n, CheckLimit(n) PROVE ApiInv'
<1> DEFINE a == request[n].route.action
           t == request[n].tenant
           r == Onwards(request[n], "limited")
<1>1. n \in DOMAIN request /\ request[n].at = "known" /\ Good(request[n]) /\ request[n] \in Requested
  BY DEF CheckLimit, Is, ApiInv, AllGood, Good
<1>2. Good(r)
  BY <1>1, Onward
<1>3. r.at = "limited" /\ r.tenant = t /\ r.route = request[n].route
  BY <1>1, OnwardsFields DEF Alike, Stages
<1>4. CASE Goes(n, "limited")
  <2>1. request' = [request EXCEPT ![n] = r] /\ UNCHANGED <<gauge, spent>>
    BY <1>4 DEF Goes, Becomes, Onwards
  <2> HIDE DEF r
  <2> QED
    BY <1>1, <1>2, <1>3, <2>1, CountsKept
<1>5. CASE Fails(n, 429)
  <2>1. Good(Responded(request[n], 429))
    BY <1>1, Refused, RefusalFacts
  <2> QED
    BY <1>1, <1>5, <2>1, AnswerKeeps
<1>6. CASE /\ a # Nil /\ ~(spent[a][t] >= Quota)
           /\ spent' = [spent EXCEPT ![a][t] = @ + 1]
           /\ request' = [request EXCEPT ![n].at = "limited"] /\ UNCHANGED gauge
  <2>1. request' = [request EXCEPT ![n] = r]
    BY <1>1, <1>6 DEF Onwards, ApiInv, AllGood
  <2>2. a \in Actions /\ t \in Tenants
    <3>1. request[n].route \in Routes /\ t \in Tenants \cup {Nil}
      BY <1>1 DEF Requested
    <3>2. ~IsPublic(request[n].route)
      BY <1>6, <3>1, RouteFacts
    <3>3. t # Nil
      BY <1>1, <3>2 DEF Good, Known
    <3> QED
      BY <1>6, <3>1, <3>3 DEF Actions
  <2> HIDE DEF r
  <2>3. /\ AllGood' /\ DOMAIN request' = DOMAIN request
        /\ \A m \in DOMAIN request : request'[m] = IF m = n THEN r ELSE request[m]
    BY <1>1, <1>2, <2>1, Moves DEF ApiInv
  <2>4. InFlight' = InFlight
    BY <1>1, <1>3, <2>3 DEF InFlight
  <2>5. n \notin LimitedUses(a, t)
    BY <1>1 DEF LimitedUses
  <2>6. \A b \in Actions, u \in Tenants :
          LimitedUses(b, u)' = IF b = a /\ u = t THEN LimitedUses(b, u) \cup {n} ELSE LimitedUses(b, u)
    <3> HIDE DEF a, t
    <3>1. request[n].route.action = a /\ request[n].tenant = t
      BY DEF a, t
    <3> QED
      BY <1>1, <1>3, <2>3, <3>1 DEF LimitedUses
  <2> HIDE DEF a, t
  <2>7. /\ spent \in [Actions -> [Tenants -> 0..Quota]] /\ Quota \in Nat
        /\ \A b \in Actions, u \in Tenants : spent[b][u] <= Cardinality(LimitedUses(b, u))
    BY DEF ApiInv, Spending, ApiAssumption
  <2>8. spent[a][t] + 1 \in 0..Quota
    BY <1>6, <2>2, <2>7
  <2>9. \A b \in Actions, u \in Tenants :
          spent'[b][u] = IF b = a /\ u = t THEN spent[b][u] + 1 ELSE spent[b][u]
    BY <1>6, <2>2, <2>7
  <2>10. spent' \in [Actions -> [Tenants -> 0..Quota]]
    BY <1>6, <2>2, <2>7, <2>8
  <2>11. ASSUME NEW b \in Actions, NEW u \in Tenants PROVE spent'[b][u] <= Cardinality(LimitedUses(b, u)')
    <3>1. CASE b = a /\ u = t
      <4>1. IsFiniteSet(LimitedUses(b, u))
        BY FiniteRequests DEF ApiInv
      <4>2. Cardinality(LimitedUses(b, u) \cup {n}) = Cardinality(LimitedUses(b, u)) + 1 /\ Cardinality(LimitedUses(b, u)) \in Nat
        BY <2>5, <3>1, <4>1, FS_AddElement, FS_CardinalityType
      <4>3. spent[b][u] \in 0..Quota /\ spent[b][u] <= Cardinality(LimitedUses(b, u))
        BY <2>7
      <4>4. spent'[b][u] = spent[b][u] + 1
        BY <2>9, <3>1
      <4>5. Cardinality(LimitedUses(b, u)') = Cardinality(LimitedUses(b, u)) + 1
        BY <2>6, <3>1, <4>2
      <4> QED
        BY <4>2, <4>3, <4>4, <4>5
    <3>2. CASE ~(b = a /\ u = t)
      BY <2>6, <2>7, <2>9, <3>2
    <3> QED
      BY <3>1, <3>2
  <2>12. Spending'
    BY <2>10, <2>11 DEF Spending
  <2> QED
    BY <1>6, <2>3, <2>4, <2>12 DEF ApiInv
<1> QED
  BY <1>4, <1>5, <1>6 DEF CheckLimit

\* A refusal, a read and the record of a failure.
LEMMA HandlerStep ==
  ASSUME ApiAssumption, ApiInv, NEW n, Refuse(n) \/ Read(n) \/ Note(n)
  PROVE  ApiInv'
<1>1. n \in DOMAIN request /\ request[n].at = "limited" /\ Good(request[n]) /\ request[n] \in Requested
  <2>1. Is(n, "limited")
    BY DEF Refuse, Read, Note, Allowed
  <2> QED
    BY <2>1 DEF Is, ApiInv, AllGood, Good
<1>2. CASE Refuse(n)
  <2>1. PICK status \in {403, 404, 409, 500} : Fails(n, status)
    BY <1>2 DEF Refuse
  <2>2. status \in Nat /\ ~Ok(status)
    BY RefusalFacts
  <2>3. Good(Responded(request[n], status))
    BY <1>1, <2>2, Refused
  <2> QED
    BY <1>1, <2>1, <2>2, <2>3, AnswerKeeps
<1>3. CASE Read(n)
  <2>1. Fails(n, 200) /\ Visible(request[n]) /\ request[n].route.kind \in {"read", "public read"}
    BY <1>3 DEF Read, Allowed
  <2>2. PICK status \in Nat : status = 200 /\ Ok(status)
    BY RefusalFacts
  <2>3. ~Write(request[n].route)
    BY <2>1 DEF Write
  <2>4. Good(Responded(request[n], status))
    BY <1>1, <2>1, <2>2, <2>3, ReadKeeps
  <2> QED
    BY <1>1, <2>1, <2>2, <2>4, AnswerKeeps
<1>4. CASE Note(n)
  <2>1. PICK status \in {403, 502} :
          Becomes(n, [request[n] EXCEPT !.at = "answered", !.changed = Target(request[n]), !.answer = status])
    BY <1>4 DEF Note
  <2>2. /\ request[n].route.notes /\ request[n].route.kind = "write"
        /\ MayWrite(request[n]) /\ Visible(request[n])
    BY <1>4 DEF Note, Allowed
  <2> DEFINE r == Noted(request[n], status)
  <2>3. Good(r) /\ r.at = "answered" /\ Alike(r, request[n])
    <3>1. Writes(request[n].route)
      BY <2>2 DEF Writes
    <3>2. status \in Nat /\ ~Ok(status)
      BY RefusalFacts
    <3>3. Target(request[n]) \in Tenants
      BY <1>1, <2>2, <3>1, ChangesOwn
    <3> QED
      BY <1>1, <2>2, <3>1, <3>2, <3>3, NoteKeeps, NotedFields
  <2>4. request' = [request EXCEPT ![n] = r] /\ UNCHANGED <<gauge, spent>>
    BY <2>1 DEF Becomes, Noted
  <2> HIDE DEF r
  <2> QED
    BY <1>1, <2>3, <2>4, CountsKept DEF Alike
<1> QED
  BY <1>2, <1>3, <1>4

\* The change and its event.
LEMMA CommitStep == ASSUME ApiAssumption, ApiInv, NEW n, Commit(n) PROVE ApiInv'
<1> DEFINE r == Changed(request[n])
<1>1. n \in DOMAIN request /\ request[n].at = "limited" /\ Good(request[n])
  BY DEF Commit, Allowed, Is, ApiInv, AllGood
<1>2. /\ Writes(request[n].route) /\ MayWrite(request[n]) /\ Visible(request[n])
      /\ request' = [request EXCEPT ![n] = r] /\ UNCHANGED <<gauge, spent>>
  BY DEF Commit, Allowed, Becomes, Changed, Writes
<1>3. Good(r) /\ Alike(r, request[n]) /\ r.at = "committed"
  BY <1>1, <1>2, ChangeKeeps
<1> HIDE DEF r
<1> QED
  BY <1>1, <1>2, <1>3, CountsKept DEF Alike

\* The answer to a change that is kept, or the failure after it.
LEMMA RefreshStep == ASSUME ApiAssumption, ApiInv, NEW n, Refresh(n) PROVE ApiInv'
<1>1. n \in DOMAIN request /\ request[n].at = "committed" /\ Good(request[n])
  BY DEF Refresh, Is, ApiInv, AllGood
<1>2. PICK status \in {200, 503} : Fails(n, status)
  BY DEF Refresh
<1>3. status \in Nat /\ ~Refusal(status)
  BY RefusalFacts
<1>4. Good(Responded(request[n], status))
  BY <1>1, <1>3, RefreshKeeps
<1> QED
  BY <1>1, <1>2, <1>3, <1>4, AnswerKeeps

\* A response that is sent is observed: one request less in flight.
LEMMA AnswerStep == ASSUME ApiInv, NEW n, Answer(n) PROVE ApiInv'
<1> DEFINE r == Onwards(request[n], "done")
<1>1. n \in DOMAIN request /\ request[n].at = "answered" /\ Good(request[n]) /\ request[n] \in Requested
  BY DEF Answer, Is, ApiInv, AllGood, Good
<1>2. /\ request' = [request EXCEPT ![n] = r] /\ gauge' = (IF gauge = 0 THEN 0 ELSE gauge - 1) /\ UNCHANGED spent
  BY <1>1 DEF Answer, Onwards, ApiInv, AllGood
<1>3. /\ r \in Requested /\ Alike(r, request[n]) /\ r.at = "done" /\ r.answer = request[n].answer
      /\ r.changed = request[n].changed /\ r.events = request[n].events
  BY <1>1, OnwardsFields DEF Stages
<1> HIDE DEF r
<1>4. Good(r)
  BY <1>1, <1>3, OverKeeps
<1>5. /\ AllGood' /\ DOMAIN request' = DOMAIN request
      /\ \A m \in DOMAIN request : request'[m] = IF m = n THEN r ELSE request[m]
  BY <1>1, <1>2, <1>4, Moves DEF ApiInv
<1>6. InFlight' = InFlight \ {n} /\ n \in InFlight
  BY <1>1, <1>3, <1>5 DEF InFlight
<1>7. gauge' = Cardinality(InFlight')
  <2>1. IsFiniteSet(InFlight)
    BY FiniteRequests DEF ApiInv
  <2>2. Cardinality(InFlight \ {n}) = Cardinality(InFlight) - 1 /\ Cardinality(InFlight \ {n}) \in Nat
    BY <1>6, <2>1, FS_RemoveElement, FS_CardinalityType
  <2>3. Cardinality(InFlight) \in Nat
    BY <2>1, FS_CardinalityType
  <2> QED
    BY <1>2, <1>6, <2>2, <2>3 DEF ApiInv
<1>8. \A a \in Actions, t \in Tenants : LimitedUses(a, t) \subseteq LimitedUses(a, t)'
  BY <1>1, <1>3, <1>5 DEF LimitedUses, Alike
<1> QED
  BY <1>2, <1>5, <1>7, <1>8, StillSpent DEF ApiInv

\* The process dies: the memory is gone, and what was committed is not.
LEMMA CrashStep == ASSUME ApiAssumption, ApiInv, Crash PROVE ApiInv'
<1>1. /\ gauge' = 0 /\ spent' = [a \in Actions |-> [t \in Tenants |-> 0]]
      /\ request' = [n \in DOMAIN request |->
           IF n \in InFlight THEN [request[n] EXCEPT !.at = "lost", !.answer = 0] ELSE request[n]]
  BY DEF Crash
<1>2. request \in Seq(Requested) /\ DOMAIN request = 1..Len(request) /\ Len(request) \in Nat
  BY DEF ApiInv, AllGood
<1>3. ASSUME NEW r, Good(r) PROVE Good(Lost(r)) /\ Lost(r).at = "lost"
  <2>1. r \in Requested
    BY <1>3 DEF Good
  <2> QED
    BY <1>3, <2>1, LostFields, OverKeeps
<1>4. ASSUME NEW n \in DOMAIN request PROVE Good(request'[n]) /\ request'[n].at \in {"done", "lost"}
  <2>1. Good(request[n])
    BY DEF ApiInv, AllGood
  <2>2. CASE n \in InFlight
    <3>1. request'[n] = Lost(request[n])
      BY <1>1, <2>2 DEF Lost
    <3> QED
      BY <1>3, <2>1, <3>1
  <2>3. CASE n \notin InFlight
    BY <1>1, <2>1, <2>3 DEF InFlight
  <2> QED
    BY <2>2, <2>3
<1>5. request' \in Seq(Requested) /\ DOMAIN request' = DOMAIN request
  <2>1. \A n \in 1..Len(request) : request'[n] \in Requested
    BY <1>2, <1>4 DEF Good
  <2>2. DOMAIN request' = DOMAIN request /\ request' = [n \in 1..Len(request) |-> request'[n]]
    BY <1>1, <1>2
  <2> QED
    BY <1>2, <2>1, <2>2
<1>6. AllGood'
  BY <1>4, <1>5 DEF AllGood
<1>7. InFlight' = {}
  BY <1>4, <1>5 DEF InFlight
<1>8. Cardinality(InFlight') = 0
  BY <1>7, FS_EmptySet
<1>9. Spending'
  <2>1. \A a \in Actions, t \in Tenants : LimitedUses(a, t)' \subseteq DOMAIN request'
    BY DEF LimitedUses
  <2>2. IsFiniteSet(DOMAIN request')
    BY <1>2, <1>5, FS_Interval
  <2>3. \A a \in Actions, t \in Tenants : IsFiniteSet(LimitedUses(a, t)')
    BY <2>1, <2>2, FS_Subset
  <2>4. \A a \in Actions, t \in Tenants : Cardinality(LimitedUses(a, t)') \in Nat
    BY <2>3, FS_CardinalityType
  <2>5. spent' \in [Actions -> [Tenants -> 0..Quota]] /\ \A a \in Actions, t \in Tenants : spent'[a][t] = 0
    <3>1. 0 \in 0..Quota
      BY DEF ApiAssumption
    <3> QED
      BY <1>1, <3>1
  <2>6. \A a \in Actions, t \in Tenants : spent'[a][t] <= Cardinality(LimitedUses(a, t)')
    BY <2>4, <2>5
  <2> QED
    BY <2>5, <2>6 DEF Spending
<1> QED
  BY <1>1, <1>6, <1>8, <1>9 DEF ApiInv
-----------------------------------------------------------------------------
\* Nothing has been asked at the start.
LEMMA ApiInitHolds == ASSUME ApiAssumption, Init PROVE ApiInv
<1>1. request = <<>> /\ gauge = 0 /\ spent = [a \in Actions |-> [t \in Tenants |-> 0]]
  BY DEF Init
<1>2. AllGood /\ InFlight = {} /\ \A a \in Actions, t \in Tenants : LimitedUses(a, t) = {}
  BY <1>1 DEF AllGood, InFlight, LimitedUses
<1>3. Cardinality({}) = 0
  BY FS_EmptySet
<1>4. Spending
  <2>1. 0 \in 0..Quota
    BY DEF ApiAssumption
  <2>2. \A a \in Actions, t \in Tenants : Cardinality(LimitedUses(a, t)) = 0
    BY <1>2, <1>3
  <2> QED
    BY <1>1, <1>2, <1>3, <2>1, <2>2 DEF Spending
<1> QED
  BY <1>1, <1>2, <1>3, <1>4 DEF ApiInv

\* The invariant, for any tenants, quota and number of requests.
THEOREM ApiInvariant == ASSUME ApiAssumption PROVE Spec => []ApiInv
<1>1. Init => ApiInv
  BY ApiInitHolds
<1>2. ASSUME ApiInv, [Next]_vars PROVE ApiInv'
  <2>1. CASE UNCHANGED vars
    BY <1>2, <2>1 DEF vars, ApiInv, AllGood, Spending, LimitedUses, InFlight
  <2>2. CASE Next
    BY <1>2, <2>2, ArriveStep, AuthenticateStep, LimitStep, HandlerStep, CommitStep, RefreshStep, AnswerStep,
       CrashStep DEF Next
  <2> QED
    BY <1>2, <2>1, <2>2
<1> QED
  BY <1>1, <1>2, PTL DEF Spec

\* No request reaches what is another tenant's (get_prospecting_context,
\* require_prospect, require_proposal, _require_campaign, limiter.check).
THEOREM TenantsAreIsolated == ASSUME ApiAssumption PROVE Spec => []TenantIsolated
<1>1. ASSUME ApiInv PROVE TenantIsolated
  <2>1. \A n \in DOMAIN request : Isolated(request[n])
    BY <1>1 DEF ApiInv, AllGood, Good
  <2>2. ASSUME NEW a \in Actions, NEW t \in Tenants
        PROVE  spent[a][t] <= Cardinality({n \in DOMAIN request : request[n].tenant = t /\ request[n].route.action = a})
    <3> DEFINE asked == {n \in DOMAIN request : request[n].tenant = t /\ request[n].route.action = a}
    <3>1. IsFiniteSet(DOMAIN request) /\ IsFiniteSet(LimitedUses(a, t))
      BY <1>1, FiniteRequests DEF ApiInv
    <3>2. asked \subseteq DOMAIN request /\ LimitedUses(a, t) \subseteq asked
      BY DEF LimitedUses
    <3>3. IsFiniteSet(asked) /\ Cardinality(LimitedUses(a, t)) <= Cardinality(asked)
      BY <3>1, <3>2, FS_Subset
    <3>4. Cardinality(LimitedUses(a, t)) \in Nat /\ Cardinality(asked) \in Nat
      BY <3>1, <3>3, FS_CardinalityType
    <3>5. spent[a][t] \in 0..Quota /\ spent[a][t] <= Cardinality(LimitedUses(a, t))
      BY <1>1 DEF ApiInv, Spending
    <3> HIDE DEF asked
    <3>6. spent[a][t] <= Cardinality(asked)
      BY <3>3, <3>4, <3>5
    <3> QED
      BY <3>6 DEF asked
  <2> QED
    BY <2>1, <2>2 DEF TenantIsolated, Isolated, Ok
<1> QED
  BY <1>1, ApiInvariant, PTL

\* Each change an operator made is in the trail once (_audit, record_audit
\* and the one db.commit of each operation of service.py).
THEOREM ChangesAreRecorded == ASSUME ApiAssumption PROVE Spec => []Recorded
<1>1. ASSUME ApiInv PROVE Recorded
  <2>1. \A n \in DOMAIN request : Trailed(request[n])
    BY <1>1 DEF ApiInv, AllGood, Good
  <2> QED
    BY <2>1 DEF Recorded, Trailed, Refusal, Ok, Logged, Silent, Write, PublicWrite
<1> QED
  BY <1>1, ApiInvariant, PTL

\* The gauge is the number of requests in flight, and the other types.
THEOREM TypeCorrect == ASSUME ApiAssumption PROVE Spec => []TypeOK
<1>1. ASSUME ApiInv PROVE TypeOK
  BY <1>1 DEF ApiInv, Spending, AllGood, Good, Requested, TypeOK
<1> QED
  BY <1>1, ApiInvariant, PTL
-----------------------------------------------------------------------------
(***************************************************************************)
(* PublicFetch: what a call knows at each of its steps.                    *)
(***************************************************************************)
\* The host it is about; the mark it waits for; the permission it relies on.
Courteous(r) ==
  /\ r.does # "nothing" => r.host \in Hosts
  /\ r.does \in {"sleep", "permission", "page"} /\ r.seen # Unseen => r.wake >= r.seen + MinInterval
  /\ r.does = "permission" => r.wake <= time
  /\ r.does = "page" => /\ r.at \in Hosts \cap Public
                        /\ r.wake <= r.permission /\ r.permission <= time

FetchInv == FetchTypeOK /\ \A t \in Fetchers : Courteous(run[t])

\* A call that has not begun, or has ended.
LEMMA NoCallFacts ==
  ASSUME FetchAssumption
  PROVE  NoCall \in Calls /\ Courteous(NoCall)
BY DEF FetchAssumption, NoCall, Calls, Courteous

\* A step of one thread that leaves the clock alone.
LEMMA SetsKeeps ==
  ASSUME FetchAssumption, FetchInv, NEW t \in Fetchers, NEW r \in Calls, Courteous(r), Sets(t, r)
  PROVE  FetchInv'
<1>1. run' \in [Fetchers -> Calls] /\ \A u \in Fetchers : run'[u] = IF u = t THEN r ELSE run[u]
  BY DEF FetchInv, FetchTypeOK, Sets
<1>2. time' = time /\ runs' = runs /\ lastSeen' = lastSeen
  BY DEF Sets
<1>3. \A u \in Fetchers : Courteous(run[u])'
  BY <1>1, <1>2 DEF FetchInv, Courteous
<1> QED
  BY <1>1, <1>2, <1>3 DEF FetchInv, FetchTypeOK

\* A call that ends.
LEMMA EndsKeeps ==
  ASSUME FetchAssumption, FetchInv, NEW t \in Fetchers, Ends(t) PROVE FetchInv'
BY NoCallFacts, SetsKeeps DEF Ends

\* The wait ends MinInterval after the mark at the earliest.
LEMMA DelayReaches ==
  ASSUME FetchAssumption, FetchInv, NEW h \in Hosts, NEW r \in Robots
  PROVE  /\ Delay(h, r) \in Nat
         /\ lastSeen[h] # Unseen => time + Delay(h, r) >= lastSeen[h] + MinInterval
<1>1. time \in Nat /\ MinInterval \in Nat /\ MaxCrawlDelay \in Nat
  BY DEF FetchAssumption, FetchInv, FetchTypeOK
<1>a. r.delay \in Nat
  BY DEF FetchAssumption, Robots
<1>b. lastSeen[h] = Unseen \/ lastSeen[h] \in Nat
  BY DEF FetchAssumption, FetchInv, FetchTypeOK
<1>2. /\ SecondsToWait(h) \in Nat
      /\ lastSeen[h] # Unseen => time + SecondsToWait(h) >= lastSeen[h] + MinInterval
  BY <1>1, <1>b DEF SecondsToWait, Larger
<1>3. Smaller(r.delay, MaxCrawlDelay) \in Nat
  BY <1>1, <1>a DEF Smaller
<1>4. Delay(h, r) \in Nat /\ Delay(h, r) >= SecondsToWait(h)
  BY <1>2, <1>3 DEF Delay, Larger
<1> QED
  BY <1>1, <1>b, <1>2, <1>4

\* Every step of a fetch keeps what its calls know.
LEMMA FetchStepsKeep == ASSUME FetchAssumption, FetchInv, [FetchNext]_fetchVars PROVE FetchInv'
<1> USE DEF FetchInv
<1>1. CASE UNCHANGED fetchVars
  BY <1>1 DEF fetchVars, FetchTypeOK, Courteous
<1>2. CASE Elapse
  <2>1. time' = time + 1 /\ time' \in 0..MaxInstant /\ UNCHANGED <<runs, lastSeen, run>> /\ time \in Nat
    BY <1>2 DEF Elapse, FetchTypeOK, FetchAssumption
  <2>2. \A t \in Fetchers : Courteous(run[t])'
    <3> TAKE t \in Fetchers
    <3>1. run[t] \in Calls /\ Courteous(run[t])
      BY DEF FetchTypeOK
    <3>2. run[t].wake \in Nat /\ run[t].permission \in Nat
      BY <3>1 DEF Calls, FetchAssumption
    <3> QED
      BY <2>1, <3>1, <3>2 DEF Courteous
  <2> QED
    BY <2>1, <2>2 DEF FetchTypeOK
<1>3. ASSUME NEW t \in Fetchers, NEW h \in Hosts, NEW kind \in {"audit", "extract"}, Begin(t, kind, h)
      PROVE  FetchInv'
  <2> DEFINE r == [NoCall EXCEPT !.does = IF kind = "audit" THEN "permission" ELSE "verdict",
                                 !.kind = kind, !.host = h]
  <2>1. r \in Calls /\ Courteous(r)
    <3>1. NoCall \in Calls /\ NoCall.seen = Unseen /\ NoCall.wake = 0 /\ time \in Nat
      BY NoCallFacts DEF NoCall, FetchTypeOK, FetchAssumption
    <3>2. /\ r.does \in {"permission", "verdict"} /\ r.host = h
          /\ r.seen = Unseen /\ r.wake = 0
      BY DEF NoCall
    <3>3. r \in Calls
      BY <3>1 DEF Calls
    <3> QED
      BY <3>1, <3>2, <3>3 DEF Courteous
  <2>2. /\ run' = [run EXCEPT ![t] = r] /\ runs' = runs + 1 /\ runs < MaxRuns
        /\ time' = time /\ lastSeen' = lastSeen
    BY <1>3 DEF Begin
  <2> HIDE DEF r
  <2>3. run' \in [Fetchers -> Calls] /\ \A u \in Fetchers : run'[u] = IF u = t THEN r ELSE run[u]
    BY <2>1, <2>2 DEF FetchTypeOK
  <2>4. \A u \in Fetchers : Courteous(run[u])'
    BY <2>1, <2>2, <2>3 DEF Courteous
  <2> QED
    BY <2>2, <2>3, <2>4 DEF FetchTypeOK, FetchAssumption
<1>4. ASSUME NEW t \in Fetchers, NEW q \in Robots, Verdict(t, q) PROVE FetchInv'
  <2> DEFINE h == run[t].host
             r == [run[t] EXCEPT !.does = "sleep", !.wake = time + Delay(h, q), !.seen = lastSeen[h]]
  <2>1. run[t] \in Calls /\ h \in Hosts
    BY <1>4 DEF Verdict, Courteous, FetchTypeOK
  <2>2. /\ Delay(h, q) \in Nat
        /\ lastSeen[h] # Unseen => time + Delay(h, q) >= lastSeen[h] + MinInterval
    BY <2>1, DelayReaches
  <2>3. r \in Calls /\ Courteous(r)
    <3>1. time \in Nat /\ lastSeen[h] \in Nat \cup {Unseen}
      BY <2>1 DEF FetchTypeOK, FetchAssumption
    <3>2. time + Delay(h, q) \in Nat
      BY <2>2, <3>1
    <3>3. /\ r.does = "sleep" /\ r.wake = time + Delay(h, q) /\ r.seen = lastSeen[h]
          /\ r.host = h
      BY <2>1 DEF Calls
    <3>4. r \in Calls
      BY <2>1, <3>1, <3>2 DEF Calls
    <3> HIDE DEF h, r
    <3> QED
      BY <2>1, <2>2, <3>3, <3>4 DEF Courteous
  <2>4. Sets(t, r) \/ Ends(t)
    BY <1>4 DEF Verdict
  <2> HIDE DEF r
  <2> QED
    BY <2>3, <2>4, SetsKeeps, EndsKeeps
<1>5. ASSUME NEW t \in Fetchers, Wake(t) PROVE FetchInv'
  <2> DEFINE r == [run[t] EXCEPT !.does = "permission"]
  <2>1. r \in Calls /\ Courteous(r) /\ Sets(t, r)
    BY <1>5 DEF Wake, Calls, Courteous, FetchTypeOK
  <2> HIDE DEF r
  <2> QED
    BY <2>1, SetsKeeps
<1>6. ASSUME NEW t \in Fetchers, NEW q \in Robots, Permission(t, q) PROVE FetchInv'
  <2> DEFINE h == run[t].host
             r == [run[t] EXCEPT !.does = "page", !.at = h, !.permission = time]
  <2>1. CASE h \in Public /\ Allows(q)
    <3>1. run[t] \in Calls /\ Courteous(run[t]) /\ run[t].does = "permission" /\ time \in 0..MaxInstant
      BY <1>6 DEF Permission, FetchTypeOK
    <3>a. h \in Hosts /\ run[t].wake <= time /\ time \in Nat
      BY <3>1 DEF Courteous, FetchAssumption
    <3>b. /\ r.does = "page" /\ r.at = h /\ r.permission = time
          /\ r.host = h /\ r.wake = run[t].wake /\ r.seen = run[t].seen
      BY <3>1 DEF Calls
    <3>c. r \in Calls
      BY <3>1, <3>a DEF Calls
    <3>2. Courteous(r)
      BY <2>1, <3>1, <3>a, <3>b DEF Courteous
    <3>3. Sets(t, r)
      BY <1>6, <2>1 DEF Permission
    <3> HIDE DEF r
    <3> QED
      BY <3>2, <3>3, <3>c, SetsKeeps
  <2>2. CASE ~(h \in Public /\ Allows(q))
    BY <1>6, <2>2, EndsKeeps DEF Permission
  <2> QED
    BY <2>1, <2>2
<1>7. ASSUME NEW t \in Fetchers, NEW h \in Hosts, Redirect(t, h) PROVE FetchInv'
  <2> DEFINE r == [run[t] EXCEPT !.at = h, !.hops = @ + 1]
  <2>1. CASE run[t].hops < MAX_REDIRECTS /\ h \in Public
    <3>1. run[t] \in Calls /\ Courteous(run[t]) /\ run[t].does = "page"
      BY <1>7 DEF Redirect, FetchTypeOK
    <3>a. run[t].hops + 1 \in 0..MAX_REDIRECTS
      BY <2>1, <3>1 DEF Calls, FetchAssumption
    <3>b. /\ r.does = "page" /\ r.at = h /\ r.permission = run[t].permission
          /\ r.host = run[t].host /\ r.wake = run[t].wake /\ r.seen = run[t].seen
      BY <3>1 DEF Calls
    <3>c. r \in Calls
      BY <3>1, <3>a DEF Calls
    <3>2. Courteous(r)
      BY <2>1, <3>1, <3>b DEF Courteous
    <3>3. Sets(t, r)
      BY <1>7, <2>1 DEF Redirect
    <3> HIDE DEF r
    <3> QED
      BY <3>2, <3>3, <3>c, SetsKeeps
  <2>2. CASE ~(run[t].hops < MAX_REDIRECTS /\ h \in Public)
    BY <1>7, <2>2, EndsKeeps DEF Redirect
  <2> QED
    BY <2>1, <2>2
<1>8. ASSUME NEW t \in Fetchers, BreaksOff(t) PROVE FetchInv'
  BY <1>8, EndsKeeps DEF BreaksOff
<1>9. ASSUME NEW t \in Fetchers, Arrives(t) PROVE FetchInv'
  <2>1. run' = [run EXCEPT ![t] = NoCall] /\ time' = time /\ runs' = runs
    BY <1>9 DEF Arrives
  <2>2. lastSeen' \in [Hosts -> 0..MaxInstant \cup {Unseen}]
    BY <1>9 DEF Arrives, FetchTypeOK
  <2>3. run' \in [Fetchers -> Calls] /\ \A u \in Fetchers : run'[u] = IF u = t THEN NoCall ELSE run[u]
    BY <2>1, NoCallFacts DEF FetchTypeOK
  <2>4. \A u \in Fetchers : Courteous(run[u])'
    BY <2>1, <2>3, NoCallFacts DEF Courteous
  <2> QED
    BY <2>1, <2>2, <2>3, <2>4 DEF FetchTypeOK
<1> QED
  BY <1>1, <1>2, <1>3, <1>4, <1>5, <1>6, <1>7, <1>8, <1>9 DEF FetchNext

\* The types and the knowledge of the calls, for any hosts, threads and limits.
THEOREM FetchInvariant == ASSUME FetchAssumption PROVE FetchSpec => []FetchInv
<1>1. ASSUME FetchInit PROVE FetchInv
  BY <1>1, NoCallFacts DEF FetchInit, FetchInv, FetchTypeOK, FetchAssumption
<1>2. FetchInv /\ [FetchNext]_fetchVars => FetchInv'
  BY FetchStepsKeep
<1> QED
  BY <1>1, <1>2, PTL DEF FetchSpec

\* The types of PublicFetch.
THEOREM FetchTypeCorrect == ASSUME FetchAssumption PROVE FetchSpec => []FetchTypeOK
<1>1. FetchInv => FetchTypeOK
  BY DEF FetchInv
<1> QED
  BY <1>1, FetchInvariant, PTL

\* Whenever a page is asked for: only public hosts, a permission read after the
\* wait, and MinInterval after the mark that was found (fetch_public_html,
\* robots_verdict and HostRateLimiter), for any number of threads and hosts.
THEOREM FetchIsPolite == ASSUME FetchAssumption PROVE FetchSpec => []Polite
<1>1. ASSUME FetchInv PROVE Polite
  <2>1. ASSUME NEW t \in Asking
        PROVE  /\ run[t].at \in Public /\ run[t].hops <= MAX_REDIRECTS
               /\ run[t].permission >= run[t].wake
               /\ run[t].seen # Unseen => time - run[t].seen >= MinInterval
    <3>1. t \in Fetchers /\ run[t] \in Calls /\ Courteous(run[t]) /\ run[t].does = "page"
      BY <1>1 DEF Asking, FetchInv, FetchTypeOK
    <3>2. /\ run[t].wake \in Nat /\ run[t].permission \in Nat /\ run[t].hops \in 0..MAX_REDIRECTS
          /\ run[t].seen \in Nat \cup {Unseen} /\ time \in Nat /\ MinInterval \in Nat
          /\ MAX_REDIRECTS \in Nat
      BY <1>1, <3>1 DEF Calls, FetchInv, FetchTypeOK, FetchAssumption
    <3> QED
      BY <3>1, <3>2 DEF Courteous
  <2> QED
    BY <2>1 DEF Polite, OnlyPublicHosts, FreshPermission, Spaced
<1> QED
  BY <1>1, FetchInvariant, PTL
-----------------------------------------------------------------------------
(***************************************************************************)
(* RateLimiter: how many uses a key can have been admitted since an        *)
(* instant x of the last window.  The entry of the key still has room for  *)
(* Limit - count; each thread that has yet to count a use read before x    *)
(* may open one more window of the past, and then is late no longer.       *)
(***************************************************************************)
Picked(s, I) == {n \in DOMAIN s : s[n] \in I}
Since(x)     == {i \in Nat : i >= x}
Taken(k, x)  == AdmittedIn(k, Since(x))
Late(k, x)   == {t \in Threads : thread[t].key = k /\ thread[t].read < x}
InTime(k, x) == Cardinality(Threads \ Late(k, x))
Room(k)      == Limit[k] - hits[k].count

Shared(k, x) ==
  /\ k \notin DOMAIN hits => Taken(k, x) <= InTime(k, x) * Limit[k]
  /\ k \in DOMAIN hits /\ hits[k].start < x =>
       Taken(k, x) = 0 \/ Taken(k, x) + Room(k) <= InTime(k, x) * Limit[k]
  /\ k \in DOMAIN hits /\ hits[k].start >= x =>
       Taken(k, x) + Room(k) <= (InTime(k, x) + 1) * Limit[k]

Earned(k) ==
  /\ hits[k].start <= clock /\ hits[k].count <= Limit[k]
  /\ hits[k].count <= Taken(k, hits[k].start)

LimiterInv ==
  /\ LimiterTypeOK
  /\ \A t \in Threads : thread[t].read <= clock
  /\ \A k \in Keys : admitted[k] \in Seq(0..clock)
  /\ \A k \in DOMAIN hits : Earned(k)
  /\ \A k \in Keys, x \in 0..clock : x > clock - Window => Shared(k, x)

\* The limits of the threads scale.
LEMMA Products ==
  ASSUME NEW a \in Nat, NEW b \in Nat, NEW c \in Nat, a <= b
  PROVE  a * c \in Nat /\ b * c \in Nat /\ a * c <= b * c /\ (b + 1) * c = b * c + c
OBVIOUS

\* A sequence is finite, and so is what is picked from it.
LEMMA PickedIsFinite ==
  ASSUME NEW s \in Seq(Nat), NEW I
  PROVE  IsFiniteSet(Picked(s, I)) /\ Cardinality(Picked(s, I)) \in Nat
<1>1. DOMAIN s = 1..Len(s) /\ Len(s) \in Nat
  OBVIOUS
<1>2. IsFiniteSet(DOMAIN s) /\ Picked(s, I) \subseteq DOMAIN s
  BY <1>1, FS_Interval DEF Picked
<1> QED
  BY <1>2, FS_Subset, FS_CardinalityType

LEMMA Elements == ASSUME NEW S, NEW s \in Seq(S) PROVE \A n \in DOMAIN s : s[n] \in S
OBVIOUS

\* One more in the sequence is one more that is picked, if it is in I.
LEMMA PickedOneMore ==
  ASSUME NEW s \in Seq(Nat), NEW v \in Nat, NEW I
  PROVE  Cardinality(Picked(Append(s, v), I)) = Cardinality(Picked(s, I)) + IF v \in I THEN 1 ELSE 0
<1>a. Len(s) \in Nat /\ Len(s) + 1 \notin Picked(s, I)
  BY DEF Picked
<1>1. Len(s) \in Nat /\ Len(s) + 1 \notin Picked(s, I) /\ IsFiniteSet(Picked(s, I))
  BY <1>a, PickedIsFinite
<1>2. /\ DOMAIN Append(s, v) = 1..Len(s) + 1 /\ DOMAIN s = 1..Len(s)
      /\ \A n \in 1..Len(s) : Append(s, v)[n] = s[n]
      /\ Append(s, v)[Len(s) + 1] = v
  OBVIOUS
<1>3. CASE v \in I
  <2>1. Picked(Append(s, v), I) = Picked(s, I) \cup {Len(s) + 1}
    BY <1>1, <1>2, <1>3 DEF Picked
  <2> QED
    BY <1>1, <1>3, <2>1, FS_AddElement
<1>4. CASE v \notin I
  <2>1. Picked(Append(s, v), I) = Picked(s, I)
    BY <1>1, <1>2, <1>4 DEF Picked
  <2>2. Cardinality(Picked(s, I)) \in Nat
    BY PickedIsFinite
  <2> QED
    BY <1>4, <2>1, <2>2
<1> QED
  BY <1>3, <1>4

\* The counts are numbers.
LEMMA CountsAreNumbers ==
  ASSUME LimiterAssumption, LimiterTypeOK, NEW k \in Keys, NEW x
  PROVE  /\ admitted[k] \in Seq(Nat) /\ Taken(k, x) \in Nat
         /\ IsFiniteSet(Threads \ Late(k, x)) /\ InTime(k, x) \in Nat
         /\ InTime(k, x) <= Cardinality(Threads) /\ Cardinality(Threads) \in Nat
<1>1. admitted[k] \in Seq(0..MaxTime) /\ 0..MaxTime \subseteq Nat
  BY DEF LimiterTypeOK, LimiterAssumption
<1>2. admitted[k] \in Seq(Nat)
  BY <1>1, SeqMonotonic
<1>3. Taken(k, x) \in Nat
  BY <1>2, PickedIsFinite DEF Taken, AdmittedIn, Picked
<1>4. IsFiniteSet(Threads) /\ Threads \ Late(k, x) \in SUBSET Threads
  BY DEF LimiterAssumption
<1> QED
  BY <1>2, <1>3, <1>4, FS_Subset, FS_CardinalityType DEF InTime

\* A thread that has counted its use is late for nothing.
LEMMA ThreadFreed ==
  ASSUME LimiterAssumption, LimiterTypeOK, NEW k \in Keys, NEW x, NEW t \in Threads,
         thread' = [thread EXCEPT ![t] = Free]
  PROVE  /\ InTime(k, x)' \in Nat /\ InTime(k, x)' >= 1 /\ InTime(k, x)' >= InTime(k, x)
         /\ t \in Late(k, x) => InTime(k, x)' = InTime(k, x) + 1
<1>1. Late(k, x)' = Late(k, x) \ {t}
  BY DEF Late, Free, LimiterTypeOK, LimiterAssumption
<1>2. IsFiniteSet(Threads \ Late(k, x)) /\ InTime(k, x) \in Nat
  BY CountsAreNumbers
<1>3. Threads \ Late(k, x)' = (Threads \ Late(k, x)) \cup {t}
  BY <1>1
<1>4. InTime(k, x)' = IF t \in Threads \ Late(k, x) THEN InTime(k, x) ELSE InTime(k, x) + 1
  BY <1>2, <1>3, FS_AddElement DEF InTime
<1>5. IsFiniteSet(Threads \ Late(k, x)') /\ Threads \ Late(k, x)' # {}
  BY <1>2, <1>3, FS_AddElement
<1>6. InTime(k, x)' \in Nat /\ InTime(k, x)' # 0
  BY <1>5, FS_EmptySet, FS_CardinalityType DEF InTime
<1> QED
  BY <1>2, <1>4, <1>6

\* A thread that reads the clock is late for no instant that has been.
LEMMA ThreadStarts ==
  ASSUME LimiterAssumption, LimiterInv, NEW k \in Keys, NEW x \in 0..clock,
         NEW t \in Threads, NEW j \in Keys, ReadClock(t, j)
  PROVE  Late(k, x)' = Late(k, x)
<1>1. thread' = [thread EXCEPT ![t] = [key |-> j, read |-> clock]] /\ thread[t].key = NoKey
  BY DEF ReadClock, Free
<1>2. clock \in Nat /\ x <= clock /\ x \in Nat
  BY DEF LimiterInv, LimiterTypeOK, LimiterAssumption
<1>3. t \notin Late(k, x) /\ t \notin Late(k, x)'
  BY <1>1, <1>2 DEF Late, LimiterInv, LimiterTypeOK, LimiterAssumption
<1>4. \A u \in Threads \ {t} : thread'[u] = thread[u]
  BY <1>1 DEF LimiterInv, LimiterTypeOK
<1> QED
  BY <1>3, <1>4 DEF Late

\* The window a use falls into.
LEMMA CurrentWindow ==
  ASSUME LimiterAssumption, LimiterTypeOK, NEW k \in Keys, NEW now \in 0..MaxTime
  PROVE  /\ Current(k, now) \in Entry
         /\ \/ k \in DOMAIN hits /\ Current(k, now) = hits[k] /\ ~Expired(hits[k].start, now)
            \/ /\ Current(k, now).start = now /\ Current(k, now).count = 0
               /\ k \in DOMAIN hits => hits[k].start + Window <= now
<1>1. CASE k \in DOMAIN hits /\ ~Expired(hits[k].start, now)
  BY <1>1 DEF Current, LimiterTypeOK
<1>2. CASE ~(k \in DOMAIN hits /\ ~Expired(hits[k].start, now))
  <2>1. Current(k, now) = [start |-> now, count |-> 0]
    BY <1>2 DEF Current
  <2>2. k \in DOMAIN hits => hits[k].start + Window <= now
    <3>1. SUFFICES ASSUME k \in DOMAIN hits PROVE hits[k].start + Window <= now
      OBVIOUS
    <3>2. hits[k] \in Entry /\ now - hits[k].start >= Window
      BY <1>2, <3>1 DEF Expired, LimiterTypeOK
    <3>3. hits[k].start \in Int /\ now \in Int /\ Window \in Int
      BY <3>2 DEF Entry, LimiterAssumption
    <3> QED
      BY <3>2, <3>3
  <2> QED
    BY <2>1, <2>2 DEF Entry
<1> QED
  BY <1>1, <1>2

\* The entries of the other keys are as they were, or were expired and are gone.
OthersStay(k)      == \A j \in DOMAIN hits' : j # k => j \in DOMAIN hits /\ hits'[j] = hits[j]
OnlyExpiredGo(now) == \A j \in DOMAIN hits : j \notin DOMAIN hits' => hits[j].start + Window <= now

\* What a use that is admitted leaves in the table.
LEMMA AdmittedHits ==
  ASSUME LimiterAssumption, LimiterTypeOK, NEW t \in Threads, Admit(t),
         NEW k, k = thread[t].key, NEW now, now = thread[t].read
  PROVE  /\ k \in Keys /\ now \in 0..MaxTime /\ DOMAIN hits' \subseteq Keys
         /\ Current(k, now).count < Limit[k]
         /\ k \in DOMAIN hits' /\ hits'[k] = [Current(k, now) EXCEPT !.count = @ + 1]
         /\ OthersStay(k) /\ OnlyExpiredGo(now)
<1>1. k \in Keys /\ now \in 0..MaxTime /\ Current(k, now).count < Limit[k]
  BY DEF Admit, LimiterTypeOK
<1>2. /\ hits' = Counted(k, now) \/ hits' = Evicted(Counted(k, now), now)
      /\ DOMAIN hits \subseteq Keys
  BY DEF Admit, LimiterTypeOK
<1>3. /\ DOMAIN Counted(k, now) = DOMAIN hits \cup {k}
      /\ Counted(k, now)[k] = [Current(k, now) EXCEPT !.count = @ + 1]
      /\ \A j \in DOMAIN hits : j # k => Counted(k, now)[j] = hits[j]
  BY DEF Counted
<1>4. Counted(k, now)[k].start = Current(k, now).start /\ ~Expired(Current(k, now).start, now)
  <2>1. Current(k, now) \in Entry
    BY <1>1, CurrentWindow
  <2>2. ~Expired(Current(k, now).start, now)
    BY <1>1, CurrentWindow DEF Expired, LimiterAssumption
  <2> QED
    BY <1>3, <2>1, <2>2 DEF Entry
<1>5. CASE hits' = Counted(k, now)
  BY <1>1, <1>2, <1>3, <1>5 DEF OthersStay, OnlyExpiredGo
<1>6. CASE hits' = Evicted(Counted(k, now), now)
  <2> DEFINE h == Counted(k, now)
  <2>1. /\ DOMAIN hits' = {j \in DOMAIN h : ~Expired(h[j].start, now)}
        /\ \A j \in DOMAIN hits' : hits'[j] = h[j]
    BY <1>6 DEF Evicted
  <2>2. k \in DOMAIN hits'
    BY <1>3, <1>4, <2>1
  <2>3. ASSUME NEW j \in DOMAIN hits, j \notin DOMAIN hits' PROVE hits[j].start + Window <= now
    <3>1. j # k /\ Expired(hits[j].start, now) /\ hits[j] \in Entry
      BY <1>3, <2>1, <2>2, <2>3 DEF LimiterTypeOK
    <3>2. hits[j].start \in Int /\ now \in Int /\ Window \in Int
      BY <1>1, <3>1 DEF Entry, LimiterAssumption
    <3> QED
      BY <3>1, <3>2 DEF Expired
  <2> HIDE DEF h
  <2> QED
    BY <1>1, <1>2, <1>3, <2>1, <2>2, <2>3 DEF h, OthersStay, OnlyExpiredGo
<1> QED
  BY <1>2, <1>5, <1>6

\* One use more is taken since x, for the key it was admitted to.
LEMMA TakenOneMore ==
  ASSUME LimiterAssumption, LimiterInv, NEW t \in Threads, Admit(t), NEW k \in Keys, NEW x
  PROVE  /\ k # thread[t].key => Taken(k, x)' = Taken(k, x)
         /\ k = thread[t].key => Taken(k, x)' = Taken(k, x) + IF clock \in Since(x) THEN 1 ELSE 0
         /\ admitted'[k] \in Seq(0..clock)
<1>1. admitted' = [admitted EXCEPT ![thread[t].key] = Append(@, clock)]
  BY DEF Admit
<1>2. /\ admitted[k] \in Seq(Nat) /\ admitted[k] \in Seq(0..clock) /\ clock \in 0..clock /\ clock \in Nat
      /\ k \in DOMAIN admitted
  BY CountsAreNumbers DEF LimiterInv, LimiterTypeOK, LimiterAssumption
<1>3. CASE k # thread[t].key
  <2>1. admitted'[k] = admitted[k]
    BY <1>1, <1>2, <1>3
  <2> QED
    BY <1>2, <1>3, <2>1 DEF Taken, AdmittedIn
<1>4. CASE k = thread[t].key
  <2>1. admitted'[k] = Append(admitted[k], clock)
    BY <1>1, <1>2, <1>4
  <2>2. Cardinality(Picked(Append(admitted[k], clock), Since(x)))
          = Cardinality(Picked(admitted[k], Since(x))) + IF clock \in Since(x) THEN 1 ELSE 0
    BY <1>2, PickedOneMore
  <2>3. /\ Taken(k, x) = Cardinality(Picked(admitted[k], Since(x)))
        /\ Taken(k, x)' = Cardinality(Picked(Append(admitted[k], clock), Since(x)))
    BY <2>1 DEF Taken, AdmittedIn, Picked
  <2>4. Append(admitted[k], clock) \in Seq(0..clock)
    BY <1>2
  <2> QED
    BY <1>4, <2>1, <2>2, <2>3, <2>4
<1> QED
  BY <1>3, <1>4

\* The types after a use is admitted.
LEMMA AdmitTypes ==
  ASSUME LimiterAssumption, LimiterInv, NEW t \in Threads, Admit(t),
         NEW k, k = thread[t].key, NEW now, now = thread[t].read
  PROVE  LimiterTypeOK'
<1>0. LimiterTypeOK
  BY DEF LimiterInv
<1>1. LimiterTypeOK /\ k \in Keys /\ now \in 0..MaxTime
  BY <1>0, AdmittedHits
<1>2. clock' = clock /\ thread' = [thread EXCEPT ![t] = Free]
  BY DEF Admit
<1>3. thread' \in [Threads -> [key : Keys \cup {NoKey}, read : 0..MaxTime]]
  BY <1>1, <1>2 DEF LimiterTypeOK, Free, LimiterAssumption
<1>4. admitted' \in [Keys -> Seq(0..MaxTime)]
  <2>1. clock \in 0..MaxTime /\ admitted \in [Keys -> Seq(0..MaxTime)]
    BY <1>1 DEF LimiterTypeOK
  <2>2. Append(admitted[k], clock) \in Seq(0..MaxTime)
    BY <1>1, <2>1
  <2> QED
    BY <2>1, <2>2 DEF Admit
<1>5. \A j \in DOMAIN hits' : hits'[j] \in Entry
  <2>1. hits'[k] \in Entry
    <3>1. Current(k, now) \in Entry
      BY <1>1, CurrentWindow
    <3>2. hits'[k] = [Current(k, now) EXCEPT !.count = @ + 1]
      BY <1>1, AdmittedHits
    <3> QED
      BY <3>1, <3>2 DEF Entry
  <2>2. ASSUME NEW j \in DOMAIN hits', j # k PROVE hits'[j] \in Entry
    <3>1. OthersStay(k)
      BY <1>1, AdmittedHits
    <3> QED
      BY <1>1, <2>2, <3>1 DEF LimiterTypeOK, OthersStay
  <2> QED
    BY <2>1, <2>2
<1>6. DOMAIN hits' \subseteq Keys
  BY <1>1, AdmittedHits
<1> QED
  BY <1>1, <1>2, <1>3, <1>4, <1>5, <1>6 DEF LimiterTypeOK

\* What an entry counts has been admitted since its window began.
LEMMA AdmitEarns ==
  ASSUME LimiterAssumption, LimiterInv, NEW t \in Threads, Admit(t),
         NEW k, k = thread[t].key, NEW now, now = thread[t].read, NEW j, j \in DOMAIN hits'
  PROVE  Earned(j)'
<1> DEFINE w == Current(k, now)
<1>0. LimiterTypeOK /\ clock' = clock /\ clock \in Nat /\ now <= clock
  BY DEF LimiterInv, LimiterTypeOK, Admit, LimiterAssumption
<1>1. /\ LimiterTypeOK /\ k \in Keys /\ now \in 0..MaxTime /\ j \in Keys
      /\ clock' = clock /\ clock \in Nat /\ now <= clock
  BY <1>0, AdmittedHits
<1>2. CASE j # k
  <2>a. OthersStay(k)
    BY <1>1, AdmittedHits
  <2>1. j \in DOMAIN hits /\ hits'[j] = hits[j]
    BY <1>2, <2>a DEF OthersStay
  <2>2. PICK s : s = hits[j].start
    OBVIOUS
  <2>3. Taken(j, s)' = Taken(j, s)
    BY <1>1, <1>2, TakenOneMore
  <2> QED
    BY <1>1, <2>1, <2>2, <2>3 DEF LimiterInv, Earned
<1>3. CASE j = k
  <2>1. /\ w \in Entry /\ w.start \in Nat /\ w.count \in Nat /\ w.count + 1 <= Limit[k]
        /\ hits'[k].start = w.start /\ hits'[k].count = w.count + 1
    <3>1. w \in Entry /\ w.count < Limit[k] /\ hits'[k] = [w EXCEPT !.count = @ + 1]
      BY <1>1, CurrentWindow, AdmittedHits
    <3>2. Limit[k] \in Nat
      BY <1>1 DEF LimiterAssumption
    <3> QED
      BY <3>1, <3>2 DEF Entry
  <2>2. w.start <= clock /\ w.count <= Taken(k, w.start)
    <3>1. CASE k \in DOMAIN hits /\ w = hits[k]
      BY <3>1 DEF LimiterInv, Earned
    <3>2. CASE w.start = now /\ w.count = 0
      <4>1. Taken(k, w.start) \in Nat
        BY <1>1, CountsAreNumbers
      <4> QED
        BY <1>1, <3>2, <4>1
    <3> QED
      BY <1>1, <3>1, <3>2, CurrentWindow
  <2>3. PICK s : s = w.start
    OBVIOUS
  <2>4. clock \in Since(s)
    BY <1>1, <2>1, <2>2, <2>3 DEF Since
  <2>5. Taken(k, s) \in Nat /\ Taken(k, s)' = Taken(k, s) + 1
    BY <1>1, <2>4, TakenOneMore, CountsAreNumbers
  <2> HIDE DEF w
  <2> QED
    BY <1>1, <1>3, <2>1, <2>2, <2>3, <2>5 DEF Earned
<1> QED
  BY <1>2, <1>3

\* Another key's use takes nothing of what a key may still have.
LEMMA AdmitSharesOthers ==
  ASSUME LimiterAssumption, LimiterInv, NEW t \in Threads, Admit(t),
         NEW k, k = thread[t].key, NEW now, now = thread[t].read,
         NEW j \in Keys, j # k, NEW x \in 0..clock, x > clock - Window
  PROVE  Shared(j, x)'
<1>0. /\ LimiterTypeOK /\ clock \in Nat /\ now <= clock /\ Shared(j, x)
      /\ thread' = [thread EXCEPT ![t] = Free] /\ x \in Nat /\ Window \in Nat
  BY DEF LimiterInv, LimiterTypeOK, Admit, LimiterAssumption
<1>1. OthersStay(k) /\ OnlyExpiredGo(now) /\ now \in 0..MaxTime
  BY <1>0, AdmittedHits
<1>2. Taken(j, x)' = Taken(j, x) /\ Taken(j, x) \in Nat
  BY <1>0, TakenOneMore, CountsAreNumbers
<1>3. /\ InTime(j, x)' \in Nat /\ InTime(j, x) \in Nat /\ InTime(j, x)' >= InTime(j, x)
      /\ Limit[j] \in Nat
  BY <1>0, ThreadFreed, CountsAreNumbers DEF LimiterAssumption
<1>4. /\ InTime(j, x)' * Limit[j] \in Nat /\ InTime(j, x) * Limit[j] \in Nat
      /\ InTime(j, x)' * Limit[j] >= InTime(j, x) * Limit[j]
      /\ (InTime(j, x)' + 1) * Limit[j] = InTime(j, x)' * Limit[j] + Limit[j]
      /\ (InTime(j, x) + 1) * Limit[j] = InTime(j, x) * Limit[j] + Limit[j]
  BY <1>3, Products
<1>5. CASE j \in DOMAIN hits'
  <2>1. j \in DOMAIN hits /\ hits'[j] = hits[j]
    BY <1>1, <1>5 DEF OthersStay
  <2>2. hits[j].start \in Nat /\ Room(j)' = Room(j) /\ Room(j) \in Int
    BY <1>0, <1>3, <2>1 DEF LimiterTypeOK, Entry, Room
  <2> QED
    BY <1>0, <1>2, <1>3, <1>4, <1>5, <2>1, <2>2 DEF Shared
<1>6. CASE j \notin DOMAIN hits'
  <2>1. Taken(j, x) <= InTime(j, x) * Limit[j]
    <3>1. CASE j \notin DOMAIN hits
      BY <1>0, <3>1 DEF Shared
    <3>2. CASE j \in DOMAIN hits
      <4>1. hits[j].start + Window <= now /\ hits[j].start \in Nat /\ hits[j].start < x
        BY <1>0, <1>1, <1>6, <3>2 DEF OnlyExpiredGo, LimiterTypeOK, Entry
      <4>2. Room(j) \in Nat
        BY <1>3, <3>2 DEF LimiterInv, Earned, LimiterTypeOK, Entry, Room
      <4> QED
        BY <1>0, <1>2, <1>4, <3>2, <4>1, <4>2 DEF Shared
    <3> QED
      BY <3>1, <3>2
  <2> QED
    BY <1>2, <1>4, <1>6, <2>1 DEF Shared
<1> QED
  BY <1>5, <1>6

\* A use falls into the window of the entry, or opens one: after x, or before
\* it, and then its thread was late and is late no longer.
LEMMA AdmitSharesItsOwn ==
  ASSUME LimiterAssumption, LimiterInv, NEW t \in Threads, Admit(t),
         NEW k, k = thread[t].key, NEW now, now = thread[t].read,
         NEW x \in 0..clock, x > clock - Window
  PROVE  Shared(k, x)'
<1> DEFINE w == Current(k, now)
<1>0. /\ LimiterTypeOK /\ clock \in Nat /\ now <= clock
      /\ thread' = [thread EXCEPT ![t] = Free] /\ x \in Nat /\ x <= clock /\ Window \in Nat
  BY DEF LimiterInv, LimiterTypeOK, Admit, LimiterAssumption
<1>1. /\ k \in Keys /\ now \in 0..MaxTime /\ k \in DOMAIN hits' /\ w.count < Limit[k]
      /\ hits'[k] = [w EXCEPT !.count = @ + 1]
  BY <1>0, AdmittedHits
<1>2. Shared(k, x) /\ clock \in Since(x)
  BY <1>0, <1>1 DEF LimiterInv, Since
<1>3. Taken(k, x)' = Taken(k, x) + 1 /\ Taken(k, x) \in Nat
  BY <1>0, <1>1, <1>2, TakenOneMore, CountsAreNumbers
<1>4. /\ InTime(k, x)' \in Nat /\ InTime(k, x) \in Nat /\ InTime(k, x)' >= InTime(k, x)
      /\ InTime(k, x)' >= 1
      /\ t \in Late(k, x) => InTime(k, x)' = InTime(k, x) + 1
      /\ Limit[k] \in Nat
  BY <1>0, <1>1, ThreadFreed, CountsAreNumbers DEF LimiterAssumption
<1>5. /\ InTime(k, x)' * Limit[k] \in Nat /\ InTime(k, x) * Limit[k] \in Nat
      /\ InTime(k, x)' * Limit[k] >= InTime(k, x) * Limit[k]
      /\ InTime(k, x)' * Limit[k] >= 1 * Limit[k]
      /\ (InTime(k, x)' + 1) * Limit[k] = InTime(k, x)' * Limit[k] + Limit[k]
      /\ (InTime(k, x) + 1) * Limit[k] = InTime(k, x) * Limit[k] + Limit[k]
  BY <1>4, Products
<1>6. /\ w.start \in Nat /\ w.count \in Nat
      /\ hits'[k].start = w.start /\ hits'[k].count = w.count + 1
  <2>1. w \in Entry
    BY <1>0, <1>1, CurrentWindow
  <2> QED
    BY <1>1, <2>1 DEF Entry
<1>7. Room(k)' = Limit[k] - w.count - 1
  BY <1>4, <1>6 DEF Room
<1>8. CASE k \in DOMAIN hits /\ w = hits[k]
  <2>1. Room(k) = Limit[k] - w.count /\ hits[k].start = w.start
    BY <1>8 DEF Room
  <2> HIDE DEF w
  <2>2. CASE w.start < x
    BY <1>1, <1>2, <1>3, <1>4, <1>5, <1>6, <1>7, <1>8, <2>1, <2>2 DEF Shared
  <2>3. CASE w.start >= x
    BY <1>0, <1>1, <1>2, <1>3, <1>4, <1>5, <1>6, <1>7, <1>8, <2>1, <2>3 DEF Shared
  <2> QED
    BY <1>0, <1>6, <2>2, <2>3
<1>9. CASE w.start = now /\ w.count = 0 /\ (k \in DOMAIN hits => hits[k].start + Window <= now)
  <2>1. Taken(k, x) <= InTime(k, x) * Limit[k]
    <3>1. CASE k \notin DOMAIN hits
      BY <1>2, <3>1 DEF Shared
    <3>2. CASE k \in DOMAIN hits
      <4>1. hits[k].start \in Nat /\ hits[k].start < x
        BY <1>0, <1>1, <1>9, <3>2 DEF LimiterTypeOK, Entry
      <4>2. Room(k) \in Nat
        BY <1>4, <3>2 DEF LimiterInv, Earned, LimiterTypeOK, Entry, Room
      <4> QED
        BY <1>2, <1>3, <1>5, <3>2, <4>1, <4>2 DEF Shared
    <3> QED
      BY <3>1, <3>2
  <2> HIDE DEF w
  <2>2. CASE now < x
    <3>1. t \in Late(k, x)
      BY <2>2 DEF Late
    <3>2. InTime(k, x)' * Limit[k] = InTime(k, x) * Limit[k] + Limit[k]
      BY <1>4, <1>5, <3>1
    <3> QED
      BY <1>0, <1>1, <1>3, <1>4, <1>5, <1>6, <1>7, <1>9, <2>1, <2>2, <3>2 DEF Shared
  <2>3. CASE now >= x
    BY <1>0, <1>1, <1>3, <1>4, <1>5, <1>6, <1>7, <1>9, <2>1, <2>3 DEF Shared
  <2> QED
    BY <1>0, <1>1, <2>2, <2>3
<1> QED
  BY <1>0, <1>1, <1>8, <1>9, CurrentWindow

\* A tick: nothing has been admitted at the new instant.
LEMMA TickKeeps == ASSUME LimiterAssumption, LimiterInv, Tick PROVE LimiterInv'
<1>1. /\ clock' = clock + 1 /\ clock' \in 0..MaxTime /\ clock \in Nat /\ LimiterTypeOK
      /\ hits' = hits /\ thread' = thread /\ admitted' = admitted /\ Window \in Nat
  BY DEF Tick, LimiterInv, LimiterTypeOK, LimiterAssumption
<1>2. LimiterTypeOK'
  BY <1>1 DEF LimiterTypeOK
<1>3. \A t \in Threads : thread[t].read <= clock'
  BY <1>1 DEF LimiterInv, LimiterTypeOK
<1>4. \A k \in Keys : admitted[k] \in Seq(0..clock')
  BY <1>1, SeqMonotonic DEF LimiterInv
<1>5. ASSUME NEW k \in DOMAIN hits PROVE Earned(k)'
  <2>1. Earned(k) /\ hits[k].start \in Nat /\ hits[k].start <= clock'
    BY <1>1 DEF LimiterInv, Earned, LimiterTypeOK, Entry
  <2> QED
    BY <1>1, <2>1 DEF Earned, Taken, AdmittedIn
<1>6. ASSUME NEW k \in Keys, NEW x \in 0..clock', x > clock' - Window PROVE Shared(k, x)'
  <2>1. /\ Taken(k, x)' = Taken(k, x) /\ InTime(k, x)' = InTime(k, x)
        /\ Room(k)' = Room(k)
    BY <1>1 DEF Taken, AdmittedIn, InTime, Late, Room
  <2>2. CASE x <= clock
    <3>1. Shared(k, x)
      BY <1>1, <1>6, <2>2 DEF LimiterInv
    <3> QED
      BY <1>1, <2>1, <3>1 DEF Shared
  <2>3. CASE x > clock
    <3>1. Picked(admitted[k], Since(x)) = {}
      <4>0. admitted[k] \in Seq(0..clock)
        BY DEF LimiterInv
      <4>1. ASSUME NEW n \in DOMAIN admitted[k] PROVE admitted[k][n] \in 0..clock
        BY <4>0, Elements
      <4> QED
        BY <1>1, <2>3, <4>1 DEF Picked, Since
    <3>2. Taken(k, x) = 0
      BY <3>1, FS_EmptySet DEF Taken, AdmittedIn, Picked
    <3>3. k \in DOMAIN hits => hits[k].start < x
      BY <1>1, <2>3 DEF LimiterInv, Earned, LimiterTypeOK, Entry
    <3>4. InTime(k, x) * Limit[k] >= 0
      <4>1. InTime(k, x) \in Nat /\ Limit[k] \in Nat
        BY <1>1, CountsAreNumbers DEF LimiterAssumption
      <4> QED
        BY <4>1, Products
    <3>5. k \in DOMAIN hits => hits[k].start \in Nat
      BY <1>1 DEF LimiterTypeOK, Entry
    <3> QED
      BY <1>1, <2>1, <3>2, <3>3, <3>4, <3>5 DEF Shared
  <2> QED
    BY <1>1, <2>2, <2>3
<1> QED
  BY <1>1, <1>2, <1>3, <1>4, <1>5, <1>6 DEF LimiterInv

\* A thread that reads the clock, or is refused.
LEMMA ReadClockKeeps ==
  ASSUME LimiterAssumption, LimiterInv, NEW t \in Threads, NEW j \in Keys, ReadClock(t, j)
  PROVE  LimiterInv'
<1>1. /\ thread' = [thread EXCEPT ![t] = [key |-> j, read |-> clock]] /\ LimiterTypeOK
      /\ clock' = clock /\ hits' = hits /\ admitted' = admitted /\ clock \in 0..MaxTime
  BY DEF ReadClock, LimiterInv, LimiterTypeOK
<1>2. LimiterTypeOK'
  BY <1>1 DEF LimiterTypeOK
<1>3. \A u \in Threads : thread'[u].read <= clock'
  BY <1>1 DEF LimiterInv, LimiterTypeOK, LimiterAssumption
<1>4. ASSUME NEW k \in DOMAIN hits PROVE Earned(k)'
  BY <1>1 DEF LimiterInv, Earned, Taken, AdmittedIn
<1>5. ASSUME NEW k \in Keys, NEW x \in 0..clock', x > clock' - Window PROVE Shared(k, x)'
  <2>1. Shared(k, x) /\ Late(k, x)' = Late(k, x)
    BY <1>1, <1>5, ThreadStarts DEF LimiterInv
  <2>2. Taken(k, x)' = Taken(k, x) /\ InTime(k, x)' = InTime(k, x) /\ Room(k)' = Room(k)
    BY <1>1, <2>1 DEF Taken, AdmittedIn, InTime, Room
  <2> QED
    BY <1>1, <2>1, <2>2 DEF Shared
<1> QED
  BY <1>1, <1>2, <1>3, <1>4, <1>5 DEF LimiterInv

LEMMA RejectKeeps ==
  ASSUME LimiterAssumption, LimiterInv, NEW t \in Threads, Reject(t)
  PROVE  LimiterInv'
<1>1. /\ thread' = [thread EXCEPT ![t] = Free] /\ LimiterTypeOK
      /\ clock' = clock /\ hits' = hits /\ admitted' = admitted /\ clock \in Nat
  BY DEF Reject, LimiterInv, LimiterTypeOK, LimiterAssumption
<1>2. LimiterTypeOK'
  BY <1>1 DEF LimiterTypeOK, Free, LimiterAssumption
<1>3. \A u \in Threads : thread'[u].read <= clock'
  BY <1>1 DEF LimiterInv, LimiterTypeOK, Free
<1>4. ASSUME NEW k \in DOMAIN hits PROVE Earned(k)'
  BY <1>1 DEF LimiterInv, Earned, Taken, AdmittedIn
<1>5. ASSUME NEW k \in Keys, NEW x \in 0..clock', x > clock' - Window PROVE Shared(k, x)'
  <2>1. Shared(k, x)
    BY <1>1, <1>5 DEF LimiterInv
  <2>2. Taken(k, x)' = Taken(k, x) /\ Room(k)' = Room(k)
    BY <1>1 DEF Taken, AdmittedIn, Room
  <2>3. /\ InTime(k, x)' \in Nat /\ InTime(k, x) \in Nat /\ InTime(k, x) <= InTime(k, x)'
        /\ Limit[k] \in Nat /\ Taken(k, x) \in Nat
    BY <1>1, ThreadFreed, CountsAreNumbers DEF LimiterAssumption
  <2>4. /\ InTime(k, x)' * Limit[k] \in Nat /\ InTime(k, x) * Limit[k] \in Nat
        /\ InTime(k, x) * Limit[k] <= InTime(k, x)' * Limit[k]
        /\ (InTime(k, x)' + 1) * Limit[k] = InTime(k, x)' * Limit[k] + Limit[k]
        /\ (InTime(k, x) + 1) * Limit[k] = InTime(k, x) * Limit[k] + Limit[k]
    BY <2>3, Products
  <2>5. k \in DOMAIN hits => Room(k) \in Nat
    BY <1>1, <2>3 DEF LimiterInv, Earned, LimiterTypeOK, Entry, Room
  <2> QED
    BY <1>1, <2>1, <2>2, <2>3, <2>4, <2>5 DEF Shared
<1> QED
  BY <1>1, <1>2, <1>3, <1>4, <1>5 DEF LimiterInv

LEMMA AdmitKeeps ==
  ASSUME LimiterAssumption, LimiterInv, NEW t \in Threads, Admit(t)
  PROVE  LimiterInv'
<1>1. PICK k, now : k = thread[t].key /\ now = thread[t].read
  OBVIOUS
<1>a. LimiterTypeOK'
  BY <1>1, AdmitTypes
<1>b. clock' = clock /\ thread' = [thread EXCEPT ![t] = Free] /\ clock \in Nat
  BY DEF Admit, LimiterInv, LimiterTypeOK, LimiterAssumption
<1>2. LimiterTypeOK' /\ clock' = clock /\ thread' = [thread EXCEPT ![t] = Free] /\ clock \in Nat
  BY <1>a, <1>b
<1>3. \A u \in Threads : thread'[u].read <= clock'
  BY <1>2 DEF LimiterInv, LimiterTypeOK, Free
<1>4. \A j \in Keys : admitted'[j] \in Seq(0..clock')
  BY <1>2, TakenOneMore
<1>5. ASSUME NEW j, j \in DOMAIN hits' PROVE Earned(j)'
  BY <1>1, <1>5, AdmitEarns
<1>6. ASSUME NEW j \in Keys, NEW x \in 0..clock', x > clock' - Window PROVE Shared(j, x)'
  <2>1. x \in 0..clock /\ x > clock - Window
    BY <1>2, <1>6
  <2>2. CASE j = k
    BY <1>1, <2>1, <2>2, AdmitSharesItsOwn
  <2>3. CASE j # k
    BY <1>1, <2>1, <2>3, AdmitSharesOthers
  <2> QED
    BY <2>2, <2>3
<1> QED
  BY <1>2, <1>3, <1>4, <1>5, <1>6 DEF LimiterInv

\* The invariant of the limiter, for any keys, limits and threads.
THEOREM LimiterInvariant == ASSUME LimiterAssumption PROVE LimiterSpec => []LimiterInv
<1>1. ASSUME LimiterInit PROVE LimiterInv
  <2>1. /\ clock = 0 /\ DOMAIN hits = {} /\ thread \in [Threads -> {Free}]
        /\ admitted = [k \in Keys |-> <<>>] /\ LimiterTypeOK /\ Window \in Nat
    BY <1>1 DEF LimiterInit, LimiterTypeOK, Free, LimiterAssumption
  <2>2. ASSUME NEW k \in Keys, NEW x \in 0..clock PROVE Shared(k, x)
    <3>1. Picked(admitted[k], Since(x)) = {}
      BY <2>1 DEF Picked
    <3>2. Taken(k, x) = 0
      BY <3>1, FS_EmptySet DEF Taken, AdmittedIn, Picked
    <3>3. InTime(k, x) \in Nat /\ Limit[k] \in Nat
      BY <2>1, CountsAreNumbers DEF LimiterAssumption
    <3>4. InTime(k, x) * Limit[k] \in Nat
      BY <3>3, Products
    <3> QED
      BY <2>1, <3>2, <3>4 DEF Shared
  <2> QED
    BY <2>1, <2>2 DEF LimiterInv, Free
<1>2. ASSUME LimiterInv, [LimiterNext]_limiterVars PROVE LimiterInv'
  <2>1. CASE UNCHANGED limiterVars
    <3>1. \A k, x : Earned(k)' = Earned(k) /\ Shared(k, x)' = Shared(k, x)
      BY <2>1 DEF limiterVars, Earned, Shared, Taken, AdmittedIn, InTime, Late, Room
    <3>2. LimiterTypeOK'
      BY <1>2, <2>1 DEF limiterVars, LimiterInv, LimiterTypeOK
    <3> QED
      BY <1>2, <2>1, <3>1, <3>2 DEF limiterVars, LimiterInv
  <2>2. CASE LimiterNext
    BY <1>2, <2>2, TickKeeps, ReadClockKeeps, RejectKeeps, AdmitKeeps DEF LimiterNext
  <2> QED
    BY <1>2, <2>1, <2>2
<1> QED
  BY <1>1, <1>2, PTL DEF LimiterSpec

\* The types of RateLimiter.
THEOREM LimiterTypeCorrect == ASSUME LimiterAssumption PROVE LimiterSpec => []LimiterTypeOK
<1>1. LimiterInv => LimiterTypeOK
  BY DEF LimiterInv
<1> QED
  BY <1>1, LimiterInvariant, PTL

\* However many threads there are and however late: within one window a key is
\* admitted at most its limit once for each thread and once more
\* (FixedWindowRateLimiter.check).
THEOREM OvershootIsBounded == ASSUME LimiterAssumption PROVE LimiterSpec => []OvershootBounded
<1>1. ASSUME LimiterInv PROVE OvershootBounded
  <2>1. SUFFICES ASSUME NEW k \in Keys, Limit[k] > 0
                 PROVE  AdmittedIn(k, {i \in 0..clock : clock - i < Window}) <= (Cardinality(Threads) + 1) * Limit[k]
    BY DEF OvershootBounded
  <2> DEFINE last == {i \in 0..clock : clock - i < Window}
             x == IF clock < Window THEN 0 ELSE clock - Window + 1
  <2>2. clock \in Nat /\ Window \in Nat \ {0} /\ LimiterTypeOK
    BY <1>1 DEF LimiterInv, LimiterTypeOK, LimiterAssumption
  <2>3. x \in 0..clock /\ x > clock - Window
    BY <2>2
  <2>4. \A i \in 0..clock : i \in last <=> i \in Since(x)
    BY <2>2 DEF Since
  <2> HIDE DEF x, last
  <2>a. admitted[k] \in Seq(0..clock)
    BY <1>1 DEF LimiterInv
  <2>5. ASSUME NEW n \in DOMAIN admitted[k] PROVE admitted[k][n] \in 0..clock
    BY <2>a, Elements
  <2>6. AdmittedIn(k, last) = Taken(k, x)
    <3>1. Picked(admitted[k], last) = Picked(admitted[k], Since(x))
      BY <2>4, <2>5 DEF Picked
    <3> QED
      BY <3>1 DEF Picked, Taken, AdmittedIn
  <2>7. /\ InTime(k, x) \in Nat /\ Cardinality(Threads) \in Nat /\ InTime(k, x) <= Cardinality(Threads)
        /\ Taken(k, x) \in Nat /\ Limit[k] \in Nat
    BY <2>2, CountsAreNumbers DEF LimiterAssumption
  <2>8. /\ InTime(k, x) * Limit[k] \in Nat /\ Cardinality(Threads) * Limit[k] \in Nat
        /\ InTime(k, x) * Limit[k] <= Cardinality(Threads) * Limit[k]
        /\ (InTime(k, x) + 1) * Limit[k] = InTime(k, x) * Limit[k] + Limit[k]
        /\ (Cardinality(Threads) + 1) * Limit[k] = Cardinality(Threads) * Limit[k] + Limit[k]
    BY <2>7, Products
  <2>9. Shared(k, x)
    BY <1>1, <2>3 DEF LimiterInv
  <2>10. k \in DOMAIN hits => hits[k].start \in Nat /\ Room(k) \in Nat
    BY <1>1, <2>2, <2>7 DEF LimiterInv, Earned, LimiterTypeOK, Entry, Room
  <2>11. Taken(k, x) <= (Cardinality(Threads) + 1) * Limit[k]
    BY <2>2, <2>3, <2>7, <2>8, <2>9, <2>10 DEF Shared
  <2> QED
    BY <2>6, <2>11 DEF last
<1> QED
  BY <1>1, LimiterInvariant, PTL

\* A refusal is earned: the key has been admitted its whole limit since a
\* window before the instant the thread had read (check, _evict_expired).
THEOREM RefusalsAreEarned == ASSUME LimiterAssumption PROVE LimiterSpec => RefusalEarned
<1>1. ASSUME LimiterInv, NEW t \in Threads, Reject(t)
      PROVE  AdmittedIn(thread[t].key, {i \in 0..clock : i > thread[t].read - Window}) >= Limit[thread[t].key]
  <2>1. PICK k, now : k = thread[t].key /\ now = thread[t].read
    OBVIOUS
  <2> DEFINE recent == {i \in 0..clock : i > now - Window}
             w == Current(k, now)
  <2>2. /\ LimiterTypeOK /\ k \in Keys /\ now \in 0..MaxTime /\ w.count >= Limit[k]
        /\ Limit[k] \in Nat /\ Window \in Nat \ {0}
    BY <1>1, <2>1 DEF Reject, LimiterInv, LimiterTypeOK, LimiterAssumption
  <2>3. admitted[k] \in Seq(Nat) /\ admitted[k] \in Seq(0..clock)
    BY <1>1, <2>2, CountsAreNumbers DEF LimiterInv
  <2>4. Cardinality(Picked(admitted[k], recent)) \in Nat /\ IsFiniteSet(Picked(admitted[k], recent))
    BY <2>3, PickedIsFinite
  <2>5. Cardinality(Picked(admitted[k], recent)) >= Limit[k]
    <3>1. CASE w.count = 0
      BY <2>2, <2>4, <3>1
    <3>2. CASE k \in DOMAIN hits /\ w = hits[k] /\ ~Expired(hits[k].start, now)
      <4>1. PICK s : s = hits[k].start
        OBVIOUS
      <4>2. hits[k] \in Entry /\ Earned(k)
        BY <1>1, <2>2, <3>2 DEF LimiterInv, LimiterTypeOK
      <4>3. s \in Nat /\ s > now - Window /\ hits[k].count \in Nat /\ hits[k].count <= Taken(k, s)
        BY <2>2, <3>2, <4>1, <4>2 DEF Earned, Expired, Entry
      <4>4. Picked(admitted[k], Since(s)) \subseteq Picked(admitted[k], recent)
        <5>1. ASSUME NEW n \in DOMAIN admitted[k] PROVE admitted[k][n] \in 0..clock
          BY <2>3, Elements
        <5>2. ASSUME NEW i \in 0..clock, i \in Since(s) PROVE i \in recent
          BY <2>2, <4>3, <5>2 DEF Since
        <5> HIDE DEF recent
        <5> QED
          BY <5>1, <5>2 DEF Picked
      <4>5. Cardinality(Picked(admitted[k], Since(s))) <= Cardinality(Picked(admitted[k], recent))
        BY <2>4, <4>4, FS_Subset
      <4>6. Taken(k, s) = Cardinality(Picked(admitted[k], Since(s))) /\ Taken(k, s) \in Nat
        BY <2>2, CountsAreNumbers DEF Taken, AdmittedIn, Picked
      <4> HIDE DEF recent, w
      <4> QED
        BY <2>2, <2>4, <3>2, <4>3, <4>5, <4>6
    <3> QED
      BY <2>2, <3>1, <3>2, CurrentWindow
  <2> QED
    BY <2>1, <2>5 DEF AdmittedIn, Picked
<1>2. LimiterInv => [\A t \in Threads : Reject(t) =>
       AdmittedIn(thread[t].key, {i \in 0..clock : i > thread[t].read - Window})
         >= Limit[thread[t].key]]_limiterVars
  BY <1>1
<1> QED
  BY <1>2, LimiterInvariant, PTL DEF RefusalEarned, LimiterSpec
-----------------------------------------------------------------------------
(* Side by side. *)

\* A step of one module leaves the variables of the others alone.
LEMMA TrafficStep ==
  ASSUME [TrafficNext]_trafficVars
  PROVE  [Next]_vars /\ [LimiterNext]_limiterVars /\ [FetchNext]_fetchVars
<1>1. CASE RunApi
  BY <1>1 DEF RunApi
<1>2. CASE RunLimiter
  BY <1>2 DEF RunLimiter
<1>3. CASE RunFetch
  BY <1>3 DEF RunFetch
<1>4. CASE UNCHANGED trafficVars
  BY <1>4 DEF trafficVars
<1> QED
  BY <1>1, <1>2, <1>3, <1>4 DEF TrafficNext

\* Every behaviour of the run is one of the requests, of the rate limiter and
\* of the fetcher, so the theorems about them hold for it.
THEOREM SideBySide == TrafficSpec => Spec /\ LimiterSpec /\ FetchSpec
<1>1. TrafficInit => Init /\ LimiterInit /\ FetchInit
  BY DEF TrafficInit
<1>2. [TrafficNext]_trafficVars => [Next]_vars /\ [LimiterNext]_limiterVars /\ [FetchNext]_fetchVars
  BY TrafficStep
<1> QED
  BY <1>1, <1>2, PTL DEF TrafficSpec, Spec, LimiterSpec, FetchSpec

\* The types of the three modules, side by side: the gauge of main.py is the
\* number of requests in flight.
THEOREM TrafficTypes ==
  ASSUME ApiAssumption, LimiterAssumption, FetchAssumption
  PROVE  TrafficSpec => []TypesOK
<1>1. TypeOK /\ LimiterTypeOK /\ FetchTypeOK => TypesOK
  BY DEF TypesOK
<1> QED
  BY <1>1, SideBySide, TypeCorrect, LimiterTypeCorrect, FetchTypeCorrect, PTL
=============================================================================
