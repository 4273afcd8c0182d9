---------------------------- MODULE PublicFetch ----------------------------
(***************************************************************************)
(* How Nova asks a website for a page: the audit (analyzer.py) and the     *)
(* fact extraction (agentic_extract.py), as threads that may share one     *)
(* HostRateLimiter, against sites that change their robots.txt, redirect   *)
(* to one another, or fail.                                                *)
(*                                                                         *)
(* A URL is its host.  An extraction has its own limiter unless one is     *)
(* passed in: the threads here share one.  MaxInstant bounds the clock,    *)
(* MaxRuns the requests.                                                   *)
(***************************************************************************)
EXTENDS Integers

CONSTANTS
  Fetchers, Hosts,
  Public,          \* hosts that resolve to public addresses only
  Restricted,      \* TOS_RESTRICTED_HOSTS
  MinInterval, MaxCrawlDelay, MAX_REDIRECTS,
  CrawlDelays,     \* what a robots.txt may ask for, 0 for nothing
  Unseen, MaxInstant, MaxRuns

FetchAssumption ==
  /\ MinInterval \in Nat /\ MaxCrawlDelay \in Nat /\ MAX_REDIRECTS \in Nat
  /\ CrawlDelays \subseteq Nat /\ Unseen \notin Nat /\ MaxInstant \in Nat /\ MaxRuns \in Nat

VARIABLES
  time, runs,
  lastSeen,  \* HostRateLimiter._last_seen; Unseen for a host not seen
  run        \* per thread: the call it executes

fetchVars == <<time, runs, lastSeen, run>>
-----------------------------------------------------------------------------
\* What asking a host for /robots.txt yields, any answer at any time; "absent"
\* is an HTTP error.
Rules  == {"allows", "disallows", "absent", "unreachable"}
Robots == [rule : Rules, delay : CrawlDelays]

\* verdict and permission are the instants robots.txt was read; seen is the
\* mark the wait was computed from, at the host now asked, hops so far.
NoCall == [does |-> "nothing", kind |-> "audit", host |-> Unseen, at |-> Unseen, hops |-> 0,
         wake |-> 0, seen |-> Unseen, permission |-> 0]

FetchInit ==
  /\ time = 0 /\ runs = 0
  /\ lastSeen = [h \in Hosts |-> Unseen]
  /\ run = [t \in Fetchers |-> NoCall]

Elapse == time < MaxInstant /\ time' = time + 1 /\ UNCHANGED <<runs, lastSeen, run>>

Sets(t, r) == run' = [run EXCEPT ![t] = r] /\ UNCHANGED <<time, runs, lastSeen>>
Ends(t)    == Sets(t, NoCall)

\* fetch_public_html, or extract_public_page, whose denylist refuses first.
Begin(t, kind, h) ==
  /\ run[t] = NoCall /\ runs < MaxRuns /\ h \notin (IF kind = "extract" THEN Restricted ELSE {})
  /\ run' = [run EXCEPT ![t] = [NoCall EXCEPT !.does = IF kind = "audit" THEN "permission" ELSE "verdict",
                                            !.kind = kind, !.host = h]]
  /\ runs' = runs + 1 /\ UNCHANGED <<time, lastSeen>>

Larger(a, b)  == IF a > b THEN a ELSE b
Smaller(a, b) == IF a < b THEN a ELSE b

\* HostRateLimiter.seconds_to_wait.
SecondsToWait(h) == IF lastSeen[h] = Unseen THEN 0 ELSE Larger(0, MinInterval - (time - lastSeen[h]))

\* Mutant of Delay: the shorter of the two delays.
DelayShorter(h, r) == Smaller(SecondsToWait(h), Smaller(r.delay, MaxCrawlDelay))

Delay(h, r) == Larger(SecondsToWait(h), Smaller(r.delay, MaxCrawlDelay))

Allows(r) == r.rule \in {"allows", "absent"}

\* robots_verdict, the wait it and the limiter ask for, and the sleep's begin.
Verdict(t, r) ==
  LET h == run[t].host
  IN /\ run[t].does = "verdict"
     /\ IF h \in Public /\ Allows(r)
        THEN Sets(t, [run[t] EXCEPT !.does = "sleep", !.wake = time + Delay(h, r), !.seen = lastSeen[h]])
        ELSE Ends(t)

\* Mutant of Wake: the page is asked for on the strength of the verdict.
WakeAndFetch(t) ==
  /\ run[t].does = "sleep" /\ time >= run[t].wake
  /\ Sets(t, [run[t] EXCEPT !.does = "page", !.at = run[t].host])

Wake(t) ==
  /\ run[t].does = "sleep" /\ time >= run[t].wake
  /\ Sets(t, [run[t] EXCEPT !.does = "permission"])

\* _robots_allowed, of fetch_public_html.
Permission(t, r) ==
  LET h == run[t].host
  IN /\ run[t].does = "permission"
     /\ IF h \in Public /\ Allows(r)
        THEN Sets(t, [run[t] EXCEPT !.does = "page", !.at = h, !.permission = time])
        ELSE Ends(t)

\* Mutant of Redirect: the host a redirect names is asked as it is.
RedirectAnywhere(t, h) ==
  /\ run[t].does = "page" /\ run[t].hops < MAX_REDIRECTS
  /\ Sets(t, [run[t] EXCEPT !.at = h, !.hops = @ + 1])

\* _SafeRedirectHandler: a redirect too many, or to a host that is not public,
\* ends the call.
Redirect(t, h) ==
  /\ run[t].does = "page"
  /\ IF run[t].hops < MAX_REDIRECTS /\ h \in Public
     THEN Sets(t, [run[t] EXCEPT !.at = h, !.hops = @ + 1])
     ELSE Ends(t)

BreaksOff(t) == run[t].does \in {"verdict", "permission", "page"} /\ Ends(t)

\* The page arrives; an extraction marks the host that answered.
Arrives(t) ==
  /\ run[t].does = "page"
  /\ lastSeen' = IF run[t].kind = "extract" THEN [lastSeen EXCEPT ![run[t].at] = time] ELSE lastSeen
  /\ run' = [run EXCEPT ![t] = NoCall]
  /\ UNCHANGED <<time, runs>>

FetchNext ==
  \/ Elapse
  \/ \E t \in Fetchers :
       \/ \E h \in Hosts, kind \in {"audit", "extract"} : Begin(t, kind, h)
       \/ \E r \in Robots : Verdict(t, r) \/ Permission(t, r)
       \/ Wake(t) \/ BreaksOff(t) \/ Arrives(t)
       \/ \E h \in Hosts : Redirect(t, h)

FetchSpec == FetchInit /\ [][FetchNext]_fetchVars
-----------------------------------------------------------------------------
Calls ==
  [does : {"nothing", "verdict", "sleep", "permission", "page"}, kind : {"audit", "extract"},
   host : Hosts \cup {Unseen}, at : Hosts \cup {Unseen}, hops : 0..MAX_REDIRECTS,
   wake : Nat, seen : Nat \cup {Unseen}, permission : 0..MaxInstant]

FetchTypeOK ==
  /\ time \in 0..MaxInstant /\ runs \in 0..MaxRuns
  /\ lastSeen \in [Hosts -> 0..MaxInstant \cup {Unseen}]
  /\ run \in [Fetchers -> Calls]

Asking == {t \in Fetchers : run[t].does = "page"}

OnlyPublicHosts == \A t \in Asking : run[t].at \in Public /\ run[t].hops <= MAX_REDIRECTS
FreshPermission == \A t \in Asking : run[t].permission >= run[t].wake
Spaced == \A t \in Asking : run[t].seen # Unseen => time - run[t].seen >= MinInterval

\* Whenever a page is asked for, redirects included: the host is public; the
\* permission was read after the wait, however long that was, and not relied on
\* from before it (fetch_public_html asks again); and an extraction that found
\* its host marked, by any thread, asks MinInterval after that mark at the
\* earliest (HostRateLimiter, robots_verdict, _SafeRedirectHandler).
Polite == OnlyPublicHosts /\ FreshPermission /\ Spaced
=============================================================================
