----------------------------- MODULE MCSeeding -----------------------------
(* A small instance of Seeding for TLC: every id is a seed of every topic. *)
EXTENDS Seeding, TLC

CONSTANTS t1, c1, c2
SeedsOfAll == (t1 :> {c1, c2})
Symmetry == Permutations(Seeders) \cup Permutations(Conns)
=============================================================================
