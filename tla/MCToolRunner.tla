---------------------------- MODULE MCToolRunner ----------------------------
(* Instances of ToolRunner for TLC: two calls, of which the runs choose    *)
(* who owns them, what they are permitted and which faults may happen.     *)
EXTENDS ToolRunner, TLC

CONSTANTS c1, c2, t1, t2

AllAllowed == [c \in Calls |-> "allow"]
SecondAsks == (c1 :> "allow") @@ (c2 :> "ask")
FirstAsks == (c1 :> "ask") @@ (c2 :> "allow")
OneThread == [c \in Calls |-> t1]
TwoThreads == (c1 :> t1) @@ (c2 :> t2)
=============================================================================
