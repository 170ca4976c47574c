SPECIFICATION Spec
CONSTANTS
  Calls = {c1, c2}
  Results = {r1}
  Unknown = Unknown
  NoResult = NoResult
  NoCall = NoCall
INVARIANTS
  TypeOK
  NoTornRecord
  AckedSurvives
  GrantedIsRecorded
SYMMETRY MCSymmetry
PROPERTIES
  GrantsOnce
