-------------------------- MODULE MCInterestStore --------------------------
(* A small instance of InterestStore for TLC.                              *)
EXTENDS InterestStore, TLC

Symmetry == Permutations(Topics) \cup Permutations(Conns) \cup Permutations(Workers)
=============================================================================
