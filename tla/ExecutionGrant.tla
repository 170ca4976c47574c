--------------------------- MODULE ExecutionGrant ---------------------------
(***************************************************************************)
(* What a ToolResultStore promises the tool runner: a tool call is granted *)
(* for execution at most once, so that a restart does not repeat a tool    *)
(* with side effects, unless its record is discarded in between.           *)
(* "granted" counts the grants of each call since it was released last.   *)
(***************************************************************************)
EXTENDS Naturals

CONSTANT Calls
VARIABLE granted

Init == granted = [c \in Calls |-> 0]

Grant(c) == granted[c] = 0 /\ granted' = [granted EXCEPT ![c] = 1]

Release(c) == granted' = [granted EXCEPT ![c] = 0]

Next == \E c \in Calls : Grant(c) \/ Release(c)

Spec == Init /\ [][Next]_granted
=============================================================================
