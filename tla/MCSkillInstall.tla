--------------------------- MODULE MCSkillInstall ---------------------------
(* Instances of SkillInstall for TLC. *)
EXTENDS SkillInstall
CONSTANTS n1, n2

\* No skill, one, two, the same name twice, three.
Lists == {<<>>, <<n1>>, <<n1, n2>>, <<n1, n1>>, <<n1, n2, n1>>}

\* Two calls that fail in one installation, and each other fault once.
FaultBounds == [k \in Kinds |-> IF k = "io" THEN 2 ELSE 1]
=============================================================================
