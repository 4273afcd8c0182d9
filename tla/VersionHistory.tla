--------------------------- MODULE VersionHistory ---------------------------
(***************************************************************************)
(* What the proposals of a tenant promise (README.md:21-22, "versioned per *)
(* prospect", "Approved proposals are immutable"): per prospect a list of  *)
(* numbered versions that only grows at its end, and whose entries go from *)
(* draft to approved and nowhere else.                                     *)
(***************************************************************************)
EXTENDS Integers

CONSTANTS Prospects, MaxVersion

VARIABLE history   \* the status of every version of every prospect

Slots == Prospects \X (1..MaxVersion)

Init == history = [s \in Slots |-> "absent"]

Append(q, v) ==
  /\ history[<<q, v>>] = "absent"
  /\ v > 1 => history[<<q, v - 1>>] # "absent"
  /\ history' = [history EXCEPT ![<<q, v>>] = "draft"]

Approve(q, v) ==
  /\ history[<<q, v>>] = "draft"
  /\ history' = [history EXCEPT ![<<q, v>>] = "approved"]

Next == \E q \in Prospects, v \in 1..MaxVersion : Append(q, v) \/ Approve(q, v)

Spec == Init /\ [][Next]_history
=============================================================================
