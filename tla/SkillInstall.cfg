CONSTANTS
  n1 = n1
  n2 = n2
  NoSkill = NoSkill
  Torn = Torn
  Names = {n1, n2}
  SkillLists <- Lists
  MaxSessions = 3
  MaxFaults <- FaultBounds
SPECIFICATION Spec
INVARIANTS NoStaleSkill NothingLeftBehind
PROPERTY InstallsAtomically
CHECK_DEADLOCK FALSE
