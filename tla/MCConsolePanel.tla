--------------------------- MODULE MCConsolePanel ---------------------------
(* A small instance of ConsolePanel for TLC.                               *)
EXTENDS ConsolePanel, TLC

Symmetry == Permutations(Slots)
=============================================================================
