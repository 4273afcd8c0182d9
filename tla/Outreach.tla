------------------------------ MODULE Outreach ------------------------------
(***************************************************************************)
(* What sending approved proposals promises (README.md:24): a proposal     *)
(* reaches an address once; a request writes to nobody who was suppressed  *)
(* when it arrived, and does nothing about a proposal it found delivered;  *)
(* and a delivery is claimed only of what was sent.                        *)
(***************************************************************************)
EXTENDS Integers

CONSTANTS Proposals, Emails

VARIABLES
  letters,    \* how often a proposal has reached an address
  barred,     \* the suppressed addresses
  claimed,    \* the proposals whose record says delivered
  underway    \* what requests may bring to whom, or record of it

outreach == <<letters, barred, claimed, underway>>

Init ==
  /\ letters = [m \in Proposals \X Emails |-> 0]
  /\ barred = {} /\ claimed = {} /\ underway = {}

\* A request arrives that has something to do.
Arrive(p) ==
  /\ p \notin claimed
  /\ underway' = underway \cup ({p} \X (Emails \ barred))
  /\ UNCHANGED <<letters, barred, claimed>>

Send(m) ==
  /\ m \in underway /\ letters[m] = 0
  /\ letters' = [letters EXCEPT ![m] = 1]
  /\ UNCHANGED <<barred, claimed, underway>>

Claim(m) ==
  /\ m \in underway /\ letters[m] > 0
  /\ claimed' = claimed \cup {m[1]}

\* A later failure, or a delivery to a queue, is recorded over the claim.
Withdraw(m) ==
  /\ m \in underway
  /\ claimed' = claimed \ {m[1]}

\* A request knows its recipient, or ends.
Narrow ==
  /\ underway' \subseteq underway
  /\ UNCHANGED claimed \/ \E m \in underway : Claim(m) \/ Withdraw(m)
  /\ UNCHANGED <<letters, barred>>

Bar(a) ==
  /\ barred' = barred \cup {a}
  /\ UNCHANGED <<letters, claimed, underway>>

Next ==
  \/ \E p \in Proposals : Arrive(p)
  \/ \E m \in Proposals \X Emails : Send(m)
  \/ Narrow
  \/ \E a \in Emails : Bar(a)

Spec == Init /\ [][Next]_outreach
=============================================================================
