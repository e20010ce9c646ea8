SPECIFICATION DriftSpec
CONSTANTS
  c1 = c1
  c2 = c2
  Claim = {c1}
  Deployments <- MCUpgrade
  StartSpecs = {2}
  MaxSpec = 2
INVARIANTS
  DriftedKeepsHash
