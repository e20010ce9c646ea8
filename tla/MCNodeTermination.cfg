SPECIFICATION FairSpec
CONSTANTS
  None = None
  Claim = {c1, c2}
  NodeId = {n1, n2}
  Foreign = {f}
INVARIANTS
  TypeOK
  NoNodeLeftBehind
  CollectedForCause
PROPERTIES
  DeletionCompletes
