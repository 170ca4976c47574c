---------------------------- MODULE MCBashSession ----------------------------
(* Instances of BashSession for TLC. *)
EXTENDS BashSession
CONSTANTS c1, c2, c3
=============================================================================
