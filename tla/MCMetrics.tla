------------------------------ MODULE MCMetrics ------------------------------
(* Dumper for TLC: two bounds, samples on the second and above it.         *)
EXTENDS Dumper

MCBounds == <<1, 3>>

MCSample == {3, 5}

Symmetric == Permutations(Worker)
=============================================================================
