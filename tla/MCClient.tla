------------------------------ MODULE MCClient ------------------------------
(* Instances of Client for TLC. *)
EXTENDS Client, TLC
CONSTANTS r1, r2, r3, x1, x2

TwoResources == (r1 :> x1) @@ (r2 :> x1) @@ (r3 :> x2)
AllUses == {<<"do", "sts">>, <<"do", "apikey">>, <<"batch", "apikey">>}
=============================================================================
