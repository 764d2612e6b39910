--------------------------- MODULE MCMeasurement ---------------------------
(* A small instance of Measurement for TLC: flags for -sizes that are out  *)
(* of order, over the ceiling, too small for the anchors, or not enough.   *)
EXTENDS Measurement

CONSTANTS m1
OneMessage == <<m1>>
Flags == {<<3, 2>>, <<4, 5>>, <<1, 2>>, <<2>>}
Symmetry == Permutations(Interests)
=============================================================================
