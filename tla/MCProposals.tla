---------------------------- MODULE MCProposals ----------------------------
(* Small instances of Proposals for TLC. *)
EXTENDS Proposals, TLC

CONSTANTS p1, p2, p3, q1, q2, ann, bo, k1, k2, k3, t1, t2, t3

Symmetric == Permutations(Ids) \cup Permutations(Subjects) \cup Permutations(Tokens)
             \cup Permutations(Threads) \cup Permutations(Prospects)
=============================================================================
