------------------------------ MODULE Handoff ------------------------------
(***************************************************************************)
(* What handing a prospect to the CRM promises (README.md:162, the comment *)
(* at services/api/app/crm/client.py:56): the CRM gets one lead per        *)
(* prospect, and Nova records a promotion only of a lead that exists.      *)
(***************************************************************************)
CONSTANT Prospects

VARIABLE handoff   \* how far the handing over of each prospect has come

Init == handoff = [q \in Prospects |-> "none"]

Create(q) ==
  /\ handoff[q] = "none"
  /\ handoff' = [handoff EXCEPT ![q] = "lead"]

Record(q) ==
  /\ handoff[q] = "lead"
  /\ handoff' = [handoff EXCEPT ![q] = "recorded"]

Next == \E q \in Prospects : Create(q) \/ Record(q)

Spec == Init /\ [][Next]_handoff
=============================================================================
