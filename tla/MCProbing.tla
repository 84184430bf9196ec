----------------------------- MODULE MCProbing -----------------------------
(* Instances of Probing for TLC.                                            *)
EXTENDS Probing, TLC

CONSTANTS p1, p2, e1, e2, a1, a2, a3

Addresses == Permutations(Addr)

=============================================================================
