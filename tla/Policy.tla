------------------------------- MODULE Policy -------------------------------
(***************************************************************************)
(* The automation policy of one tenant (service.update_policy), updated by *)
(* several requests at a time.  A request sends the whole payload, loads   *)
(* the row, and at its commit writes the columns it has changed.           *)
(***************************************************************************)
EXTENDS Integers

CONSTANTS
  Updaters,
  Fields, Values,
  Defaults,     \* ProspectingPolicyUpdate's
  Unset, MaxUpdates

Payloads == [Fields -> Values]
Pending  == [loaded : Payloads \cup {Unset}, sent : SUBSET Fields, payload : Payloads, changed : SUBSET Fields]

PolicyAssumption ==
  Defaults \in Payloads /\ Unset \notin Payloads \cup Pending /\ MaxUpdates \in Nat

VARIABLES
  policy,       \* the row, Unset until the first update
  request,      \* per thread: loaded row, payload, fields changed by others since
  event,        \* the payload of the last policy_updated event
  blended,      \* history: fields that others changed while that update ran
  updates

policyVars == <<policy, request, event, blended, updates>>
-----------------------------------------------------------------------------
PolicyInit ==
  /\ policy = Unset /\ request = [t \in Updaters |-> Unset]
  /\ event = Unset /\ blended = {} /\ updates = 0

\* model_dump: a field that was not sent has its default.
Dumped(sent, payload) == [f \in Fields |-> IF f \in sent THEN payload[f] ELSE Defaults[f]]

\* update_policy reads the tenant's row.
Load(t, sent, payload) ==
  /\ request[t] = Unset /\ updates < MaxUpdates
  /\ request' = [request EXCEPT ![t] =
       [loaded |-> policy, sent |-> sent, payload |-> Dumped(sent, payload), changed |-> {}]]
  /\ updates' = updates + 1 /\ UNCHANGED <<policy, event, blended>>

\* Mutant of Written: only what the request sent is taken over.
WrittenAsSent(r) ==
  IF r.loaded = Unset THEN r.payload
  ELSE [f \in Fields |-> IF f \in r.sent /\ r.payload[f] # r.loaded[f] THEN r.payload[f] ELSE policy[f]]

\* INSERT, or UPDATE of the columns whose value is not the loaded one.
Written(r) ==
  IF r.loaded = Unset THEN r.payload
  ELSE [f \in Fields |-> IF r.payload[f] # r.loaded[f] THEN r.payload[f] ELSE policy[f]]

Altered(new) == {f \in Fields : policy = Unset \/ new[f] # policy[f]}

\* The row and its audit event, in one transaction.
CommitUpdate(t) ==
  LET r == request[t]
  IN /\ r # Unset /\ (r.loaded = Unset => policy = Unset)
     /\ policy' = Written(r) /\ event' = r.payload /\ blended' = r.changed
     /\ request' = [u \in Updaters |->
          IF u = t \/ request[u] = Unset THEN Unset
          ELSE [request[u] EXCEPT !.changed = @ \cup Altered(Written(r))]]
     /\ UNCHANGED updates

\* IntegrityError: another first update was faster; the caller gets a 503.
Conflict(t) ==
  /\ request[t] # Unset /\ request[t].loaded = Unset /\ policy # Unset
  /\ request' = [request EXCEPT ![t] = Unset]
  /\ UNCHANGED <<policy, event, blended, updates>>

PolicyNext ==
  \E t \in Updaters :
    \/ \E sent \in SUBSET Fields, payload \in Payloads : Load(t, sent, payload)
    \/ CommitUpdate(t) \/ Conflict(t)

PolicySpec == PolicyInit /\ [][PolicyNext]_policyVars
-----------------------------------------------------------------------------
PolicyTypeOK ==
  /\ policy \in Payloads \cup {Unset} /\ event \in Payloads \cup {Unset}
  /\ request \in [Updaters -> Pending \cup {Unset}]
  /\ blended \subseteq Fields /\ updates \in 0..MaxUpdates

\* The policy in force is the one the last audit event shows, field by field,
\* but for the fields another update changed between this one's SELECT and its
\* commit (setattr of the whole model_dump, one transaction with the event).
PolicyMatchesTrail ==
  /\ policy = Unset <=> event = Unset
  /\ policy # Unset => \A f \in Fields \ blended : policy[f] = event[f]
=============================================================================
