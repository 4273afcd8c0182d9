---------------------------- MODULE RateLimiter ----------------------------
(***************************************************************************)
(* The fixed-window counter in front of discovery, analysis and delivery   *)
(* (core/ratelimit.py), as the threads of one process use it.              *)
(*                                                                         *)
(* check() reads the clock, and only then waits for the lock: by the time  *)
(* a thread counts its use, the instant it compares may be long past.  A   *)
(* key is a pair (action, tenant).  MaxTime bounds the clock.              *)
(***************************************************************************)
EXTENDS Integers, Sequences, FiniteSets

CONSTANTS
  Keys, Threads,
  Limit,        \* per key; 0 disables the limit
  Window,       \* window_seconds
  Capacity,     \* the number of entries above which expired ones are evicted
  NoKey, MaxTime

LimiterAssumption ==
  /\ Limit \in [Keys -> Nat] /\ Window \in Nat \ {0}
  /\ Capacity \in Nat /\ MaxTime \in Nat /\ NoKey \notin Keys /\ IsFiniteSet(Threads)

VARIABLES
  clock,      \* time.monotonic()
  hits,       \* (window_start, count) of the keys that have an entry
  thread,     \* the key a thread asks for and the instant it has read
  admitted    \* history: per key, the instants of the uses admitted

limiterVars == <<clock, hits, thread, admitted>>
-----------------------------------------------------------------------------
Entry == [start : 0..MaxTime, count : Nat]
Free  == [key |-> NoKey, read |-> 0]

LimiterInit ==
  /\ clock = 0 /\ hits = [k \in {} |-> 0]
  /\ thread = [t \in Threads |-> Free]
  /\ admitted = [k \in Keys |-> <<>>]

Tick == clock < MaxTime /\ clock' = clock + 1 /\ UNCHANGED <<hits, thread, admitted>>

\* The clock is read before the lock is taken.
ReadClock(t, k) ==
  /\ thread[t] = Free /\ Limit[k] > 0
  /\ thread' = [thread EXCEPT ![t] = [key |-> k, read |-> clock]]
  /\ UNCHANGED <<clock, hits, admitted>>

Expired(start, now) == now - start >= Window

\* Mutant of Current: a window that is over is not reset.
CurrentKept(k, now) == IF k \in DOMAIN hits THEN hits[k] ELSE [start |-> now, count |-> 0]

\* The window the use falls into: the entry's, or a new one.
Current(k, now) ==
  IF k \in DOMAIN hits /\ ~Expired(hits[k].start, now) THEN hits[k]
  ELSE [start |-> now, count |-> 0]

\* _evict_expired, of the entries h.
Evicted(h, now) == [k \in {j \in DOMAIN h : ~Expired(h[j].start, now)} |-> h[k]]

Counted(k, now) ==
  [j \in DOMAIN hits \cup {k} |->
     IF j = k THEN [Current(k, now) EXCEPT !.count = @ + 1] ELSE hits[j]]

\* Mutant of Admit: the count is compared after it was raised past the limit.
AdmitOneMore(t) ==
  LET k == thread[t].key  now == thread[t].read
  IN /\ k # NoKey /\ Current(k, now).count <= Limit[k]
     /\ hits' = Counted(k, now)
     /\ admitted' = [admitted EXCEPT ![k] = Append(@, clock)]
     /\ thread' = [thread EXCEPT ![t] = Free] /\ UNCHANGED clock

\* The lock is held from the lookup to the eviction.
Admit(t) ==
  LET k == thread[t].key  now == thread[t].read
  IN /\ k # NoKey /\ Current(k, now).count < Limit[k]
     /\ hits' = IF Cardinality(DOMAIN hits \cup {k}) > Capacity
                THEN Evicted(Counted(k, now), now) ELSE Counted(k, now)
     /\ admitted' = [admitted EXCEPT ![k] = Append(@, clock)]
     /\ thread' = [thread EXCEPT ![t] = Free] /\ UNCHANGED clock

\* RateLimitExceeded; a window that has expired is not written back.
Reject(t) ==
  LET k == thread[t].key  now == thread[t].read
  IN /\ k # NoKey /\ Current(k, now).count >= Limit[k]
     /\ thread' = [thread EXCEPT ![t] = Free]
     /\ UNCHANGED <<clock, hits, admitted>>

LimiterNext ==
  \/ Tick
  \/ \E t \in Threads : Admit(t) \/ Reject(t) \/ \E k \in Keys : ReadClock(t, k)

LimiterSpec == LimiterInit /\ [][LimiterNext]_limiterVars
-----------------------------------------------------------------------------
LimiterTypeOK ==
  /\ clock \in 0..MaxTime
  /\ DOMAIN hits \subseteq Keys /\ \A k \in DOMAIN hits : hits[k] \in Entry
  /\ thread \in [Threads -> [key : Keys \cup {NoKey}, read : 0..MaxTime]]
  /\ admitted \in [Keys -> Seq(0..MaxTime)]

\* Uses of k admitted in the instants I.
AdmittedIn(k, I) == Cardinality({n \in DOMAIN admitted[k] : admitted[k][n] \in I})

\* However late the threads are, a key is admitted within one window at most
\* its limit for the window that ends in it, for the one that begins in it,
\* and for each thread but one (FixedWindowRateLimiter.check reads the clock
\* before the lock, so that a late thread can open a window of the past).
OvershootBounded ==
  \A k \in Keys : Limit[k] > 0 =>
    AdmittedIn(k, {i \in 0..clock : clock - i < Window}) <= (Cardinality(Threads) + 1) * Limit[k]

\* A request is refused only to a key that has spent its whole limit since a
\* window before the instant its thread had read: a quota always comes back,
\* and no other key, eviction or late thread can take it.
RefusalEarned ==
  [][\A t \in Threads : Reject(t) =>
       AdmittedIn(thread[t].key, {i \in 0..clock : i > thread[t].read - Window})
         >= Limit[thread[t].key]]_limiterVars
=============================================================================
