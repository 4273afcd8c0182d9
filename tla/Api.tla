--------------------------------- MODULE Api ---------------------------------
(***************************************************************************)
(* What every request goes through: the middleware's gauge, the bearer     *)
(* token and the tenant it names (auth.py, tenancy/service.py), the rate   *)
(* limit, the write scope and the tenant's own rows (routes, service.py),  *)
(* the one transaction of a change and its audit event, the error contract *)
(* (core/errors.py), and the answer - while other requests are in the same *)
(* place and the process may die.                                          *)
(*                                                                         *)
(* What a handler does to its rows is the other modules' matter: here a    *)
(* write is the tenant whose rows it changed.  Quotas are counted without  *)
(* their windows (RateLimiter).  MaxRequests bounds the requests.          *)
(***************************************************************************)
EXTENDS Integers, Sequences, FiniteSets

CONSTANTS
  Tenants,
  Quota,        \* uses per limited action and tenant
  Nil, MaxRequests

ApiAssumption == Nil \notin Tenants /\ Quota \in Nat /\ MaxRequests \in Nat

VARIABLES
  gauge,        \* metrics._in_flight
  spent,        \* uses counted per limited action and tenant
  request       \* the requests in the order they arrived, and what became of them

vars == <<gauge, spent, request>>
-----------------------------------------------------------------------------
\* kind, the limited action, whether the path names a row, and whether a
\* failure of the work itself is recorded in a commit of its own.
Route(kind, action, named, notes) == [kind |-> kind, action |-> action, named |-> named, notes |-> notes]

CampaignRoutes ==
  [get_summary |-> Route("read", Nil, FALSE, FALSE), get_prospecting_policy |-> Route("read", Nil, FALSE, FALSE),
   patch_prospecting_policy |-> Route("write", Nil, FALSE, FALSE),
   get_campaigns |-> Route("read", Nil, FALSE, FALSE), post_campaign |-> Route("write", Nil, FALSE, FALSE),
   post_discover |-> Route("write", "discovery", TRUE, FALSE)]

ProspectRoutes ==
  [get_prospects |-> Route("read", Nil, FALSE, FALSE), post_prospect |-> Route("write", Nil, FALSE, FALSE),
   post_prospects_bulk_csv |-> Route("write", Nil, FALSE, FALSE), get_prospect |-> Route("read", Nil, TRUE, FALSE),
   post_promote_prospect |-> Route("write", Nil, TRUE, FALSE), patch_prospect |-> Route("write", Nil, TRUE, FALSE),
   post_analysis |-> Route("write", "analysis", TRUE, TRUE), get_analyses |-> Route("read", Nil, TRUE, FALSE)]

ProposalRoutes ==
  [post_proposal |-> Route("write", Nil, TRUE, FALSE), get_proposals |-> Route("read", Nil, TRUE, FALSE),
   get_proposal |-> Route("read", Nil, TRUE, FALSE), get_proposal_presentation |-> Route("read", Nil, TRUE, FALSE),
   patch_proposal |-> Route("write", Nil, TRUE, FALSE), post_approve |-> Route("write", Nil, TRUE, FALSE),
   post_share |-> Route("write", Nil, TRUE, FALSE), post_deliver |-> Route("write", "delivery", TRUE, TRUE),
   post_suppression |-> Route("write", Nil, FALSE, FALSE)]

\* The token in the path takes the place of the bearer token.
PublicRoutes ==
  [get_public_proposal |-> Route("public read", Nil, TRUE, FALSE),
   get_public_presentation |-> Route("public read", Nil, TRUE, FALSE),
   post_public_opt_out |-> Route("public write", Nil, TRUE, FALSE)]

RoutesOf(table) == {table[name] : name \in DOMAIN table}
Routes  == UNION {RoutesOf(CampaignRoutes), RoutesOf(ProspectRoutes), RoutesOf(ProposalRoutes), RoutesOf(PublicRoutes)}
Actions == {r.action : r \in Routes} \ {Nil}
IsPublic(r) == r.kind \in {"public read", "public write"}

\* A request: its route, the tenant of its token (Nil when there is no valid
\* one) and whether that may write, whether ?tenant_id agrees, and the tenant
\* whose row the path names (for a public route, whose token the path holds).
Requests ==
  {r \in [route : Routes, tenant : Tenants \cup {Nil}, writer : BOOLEAN, agrees : BOOLEAN,
          row : Tenants \cup {Nil}] :
     /\ IsPublic(r.route) => r.tenant = Nil
     /\ r.tenant = Nil => ~r.writer /\ r.agrees
     /\ r.route.named <=> r.row # Nil}

Arrived(r) ==
  [at |-> "arrived", route |-> r.route, tenant |-> r.tenant, writer |-> r.writer,
   agrees |-> r.agrees, row |-> r.row, changed |-> Nil, events |-> 0, answer |-> 0]

Init == gauge = 0 /\ spent = [a \in Actions |-> [t \in Tenants |-> 0]] /\ request = <<>>

\* RequestContextMiddleware and metrics.start.
Arrive(r) ==
  /\ Len(request) < MaxRequests
  /\ request' = Append(request, Arrived(r))
  /\ gauge' = gauge + 1 /\ UNCHANGED spent

Is(n, at)     == n \in DOMAIN request /\ request[n].at = at
Becomes(n, r) == request' = [request EXCEPT ![n] = r] /\ UNCHANGED <<gauge, spent>>
Goes(n, at)   == Becomes(n, [request[n] EXCEPT !.at = at])

\* A response of that status is made; the transaction is rolled back, if any.
Fails(n, status) == Becomes(n, [request[n] EXCEPT !.at = "answered", !.answer = status])

\* get_platform_principal, get_tenant_context and get_prospecting_context.
Authenticate(n) ==
  /\ Is(n, "arrived")
  /\ CASE ~IsPublic(request[n].route) /\ request[n].tenant = Nil -> Fails(n, 401)
       [] ~IsPublic(request[n].route) /\ ~request[n].agrees      -> Fails(n, 403)
       [] OTHER -> Goes(n, "known")

\* limiter.check, before the service looks at the scope.
CheckLimit(n) ==
  LET a == request[n].route.action  t == request[n].tenant
  IN /\ Is(n, "known")
     /\ CASE a = Nil -> Goes(n, "limited")
          [] a # Nil /\ spent[a][t] >= Quota -> Fails(n, 429)
          [] OTHER -> /\ spent' = [spent EXCEPT ![a][t] = @ + 1]
                      /\ request' = [request EXCEPT ![n].at = "limited"]
                      /\ UNCHANGED gauge

\* Mutant of Visible: the row is looked up by its id alone.
VisibleToAll(r) == TRUE

\* require_prospect, require_proposal and _require_campaign filter by tenant;
\* a public route finds its row by the token in the path.
Visible(r) == IsPublic(r.route) \/ ~r.route.named \/ r.row = r.tenant

\* _require_write
MayWrite(r) == r.route.kind = "write" => r.writer

\* The tenant whose rows a write changes.
Target(r) == IF r.route.named THEN r.row ELSE r.tenant

\* _require_write, then the lookup; or any later refusal by the domain (409,
\* 422), or a failure of the database or the code (503, 500): nothing is kept.
Refuse(n) ==
  /\ Is(n, "limited")
  /\ \/ ~MayWrite(request[n]) /\ Fails(n, 403)
     \/ MayWrite(request[n]) /\ ~Visible(request[n]) /\ Fails(n, 404)
     \/ \E status \in {409, 500} : Fails(n, status)

Allowed(n, kinds) ==
  /\ Is(n, "limited") /\ request[n].route.kind \in kinds
  /\ MayWrite(request[n]) /\ Visible(request[n])

Read(n) == Allowed(n, {"read", "public read"}) /\ Fails(n, 200)

\* Mutant of Commit: the audit event is left to a transaction of its own.
CommitUnaudited(n) ==
  /\ Allowed(n, {"write", "public write"})
  /\ Becomes(n, [request[n] EXCEPT !.at = "committed", !.changed = Target(request[n])])

\* The change and its event, in one transaction; an opt-out has no event.
Commit(n) ==
  /\ Allowed(n, {"write", "public write"})
  /\ Becomes(n, [request[n] EXCEPT !.at = "committed", !.changed = Target(request[n]),
                                   !.events = IF IsPublic(request[n].route) THEN 0 ELSE 1])

\* An analysis or a delivery that failed is recorded, without an event, and the
\* error is raised (run_analysis, deliver_proposal): a 403 may be the site's.
Note(n) ==
  /\ Allowed(n, {"write"}) /\ request[n].route.notes
  /\ \E status \in {403, 502} :
       Becomes(n, [request[n] EXCEPT !.at = "answered", !.changed = Target(request[n]), !.answer = status])

\* db.refresh and the response model; the database may fail after the commit.
Refresh(n) == Is(n, "committed") /\ \E status \in {200, 503} : Fails(n, status)

\* Mutant of Answer: a response that failed is not observed.
AnswerUnobserved(n) ==
  /\ Is(n, "answered")
  /\ gauge' = IF request[n].answer >= 500 THEN gauge ELSE gauge - 1
  /\ request' = [request EXCEPT ![n].at = "done"]
  /\ UNCHANGED spent

\* metrics.observe, in the middleware's finally.
Answer(n) ==
  /\ Is(n, "answered")
  /\ gauge' = IF gauge = 0 THEN 0 ELSE gauge - 1
  /\ request' = [request EXCEPT ![n].at = "done"]
  /\ UNCHANGED spent

InFlight == {n \in DOMAIN request : request[n].at \notin {"done", "lost"}}

\* The process dies, and starts again with nothing in memory.
Crash ==
  /\ InFlight # {}
  /\ gauge' = 0 /\ spent' = [a \in Actions |-> [t \in Tenants |-> 0]]
  /\ request' = [n \in DOMAIN request |->
       IF n \in InFlight THEN [request[n] EXCEPT !.at = "lost", !.answer = 0] ELSE request[n]]

Next ==
  \/ Crash
  \/ \E r \in Requests : Arrive(r)
  \/ \E n \in 1..MaxRequests :
       \/ Authenticate(n) \/ CheckLimit(n) \/ Refuse(n) \/ Read(n)
       \/ Commit(n) \/ Note(n) \/ Refresh(n) \/ Answer(n)

Spec == Init /\ [][Next]_vars
-----------------------------------------------------------------------------
TypeOK ==
  /\ gauge = Cardinality(InFlight)
  /\ \A a \in Actions, t \in Tenants : spent[a][t] \in 0..Quota
  /\ \A n \in DOMAIN request : request[n].route \in Routes /\ request[n].changed \in Tenants \cup {Nil}

\* No request reaches what is another tenant's: rows are changed only by a
\* writer of their own tenant or under a token of one of them, an answer is
\* given only about rows of the caller's own, and a tenant's quota is spent by
\* nobody's requests but its own (get_prospecting_context, require_*, limiter).
TenantIsolated ==
  /\ \A n \in DOMAIN request :
       LET r == request[n]
       IN ~IsPublic(r.route) =>
            /\ r.changed # Nil => r.writer /\ r.changed = r.tenant
            /\ r.answer = 200 => r.tenant # Nil /\ r.agrees /\ (r.route.named => r.row = r.tenant)
  /\ \A a \in Actions, t \in Tenants :
       spent[a][t] <= Cardinality({n \in DOMAIN request : request[n].tenant = t /\ request[n].route.action = a})

\* Whatever fails after it, each change an operator made is in the trail once
\* and each event of the trail is a change that was kept; a write is answered
\* 200 only if it is there, and refused only if it is not; what leaves no event
\* is an opt-out, or the record of an analysis or a delivery that failed.
Recorded ==
  \A n \in DOMAIN request :
    LET r == request[n]
    IN /\ r.events = 1 => r.changed # Nil
       /\ r.changed # Nil /\ r.events = 0 =>
            r.route.kind = "public write" \/ (r.route.notes /\ r.answer # 200)
       /\ r.answer = 200 /\ r.route.kind = "write" => r.events = 1
       /\ r.answer \in {401, 403, 404, 409, 429} => r.changed = Nil \/ r.route.notes
=============================================================================
