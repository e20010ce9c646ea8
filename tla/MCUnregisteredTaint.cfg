SPECIFICATION FairSpec
CONSTANTS
  Absent = Absent
  Key <- MCKey
  Value = {"none", "v1", "v2", "x"}
  MaxUid = 2
  Claims <- MCClaims
  Others <- MCOthers
INVARIANTS
  TypeOK
  ProtectedUntilRegistered
  RequestIsAcceptable
PROPERTIES
  OtherTaintsSurvive
  StaleTaintGoes
