----------------------- MODULE MCFileToolResultStore -----------------------
(* Two calls and one tool result: enough for a directory sync of one call  *)
(* to make another call's entry durable.                                   *)
EXTENDS FileToolResultStore, TLC

MCSymmetry == Permutations(Calls)
=============================================================================
