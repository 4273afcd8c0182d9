------------------------------ MODULE MCIntake ------------------------------
(* Small instances of Intake for TLC. *)
EXTENDS Intake, TLC

CONSTANTS a, b, t1, t2

\* Both orders of two domains, a domain twice, an invalid row in between.
BothOrders == { <<a>>, <<a, b>>, <<b, a>>, <<a, Invalid, a>> }
=============================================================================
