------------------------ MODULE MCEnvironmentWorker ------------------------
(* Instances of EnvironmentWorker for TLC: two workers and two items.      *)
EXTENDS EnvironmentWorker, TLC

CONSTANTS k1, k2, w1, w2

MCSymmetry == Permutations(Workers)
=============================================================================
