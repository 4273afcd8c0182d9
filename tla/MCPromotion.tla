---------------------------- MODULE MCPromotion ----------------------------
(* A small instance of Promotion for TLC. *)
EXTENDS Promotion, TLC

CONSTANTS q1, q2, t1, t2

\* A stage before the promotion, the promotion's, and one after it.
ThreeStages == {"qualified", "contacted", "won"}
=============================================================================
