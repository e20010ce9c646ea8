SPECIFICATION FairSpec
CONSTANTS
  c1 = c1
  c2 = c2
  Claim = {c1, c2}
  Deployments <- MCDeployments
  StartSpecs = {1, 2}
  MaxSpec = 2
INVARIANTS
  DriftTypeOK
PROPERTIES
  DriftFoundIsReal
  UpgradeCompletes
  DriftConverges
