---------------------------- MODULE MCLimitedJev ----------------------------
(* A small instance of LimitedJev for TLC.                                 *)
EXTENDS LimitedJev, TLC

Symmetry == Permutations(Callers)
=============================================================================
