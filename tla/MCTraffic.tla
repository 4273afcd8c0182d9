------------------------------ MODULE MCTraffic ------------------------------
(***************************************************************************)
(* The requests that come in, the windows that limit them and the pages    *)
(* Nova asks for, side by side: each behaviour is one of a single module,  *)
(* chosen in the initial state, with the variables of the others at rest.  *)
(* The states are the sum of those of the modules, and every property is   *)
(* that of its own module.                                                 *)
(***************************************************************************)
EXTENDS Api, RateLimiter, PublicFetch, TLC

CONSTANTS k1, k2

VARIABLE part

trafficVars == <<part, vars, limiterVars, fetchVars>>
-----------------------------------------------------------------------------
\* Two tenants, each allowed a single use, two threads; the table of windows
\* is over its capacity as soon as both have an entry.
OneEach == k1 :> 1 @@ k2 :> 1

ASSUME RequestsInstance == ApiAssumption
ASSUME LimiterInstance  == LimiterAssumption
ASSUME FetchInstance    == FetchAssumption
-----------------------------------------------------------------------------
TrafficInit == part \in {"api", "limiter", "fetch"} /\ Init /\ LimiterInit /\ FetchInit

RunApi     == part = "api" /\ Next /\ UNCHANGED <<part, limiterVars, fetchVars>>
RunLimiter == part = "limiter" /\ LimiterNext /\ UNCHANGED <<part, vars, fetchVars>>
RunFetch   == part = "fetch" /\ FetchNext /\ UNCHANGED <<part, vars, limiterVars>>

TrafficNext == RunApi \/ RunLimiter \/ RunFetch
TrafficSpec == TrafficInit /\ [][TrafficNext]_trafficVars
-----------------------------------------------------------------------------
\* The type invariants of the three modules.
TypesOK == TypeOK /\ LimiterTypeOK /\ FetchTypeOK
=============================================================================
