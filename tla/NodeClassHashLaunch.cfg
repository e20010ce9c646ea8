SPECIFICATION DriftSpec
CONSTANTS
  c1 = c1
  c2 = c2
  Claim = {c1}
  Deployments <- MCLaunch
  StartSpecs = {1}
  MaxSpec = 2
PROPERTIES
  EveryDriftFoundIsReal
