SPECIFICATION Spec
CONSTANTS
  Unset = Unset
  ubuntu = ubuntu
  euler = euler
  group = group
  key = key
  secret = secret
  SSD = SSD
  SAS = SAS
  Family = {ubuntu, euler}
  Group = {group}
  SSHKey = {key}
  Password = {secret}
  VolumeType = {SSD, SAS}
  Specs <- MCSpecs
  Flavor <- MCFlavor
  CPU <- MCCPU
  Memory <- MCMemory
  NICs <- MCNICs
  Fraction = 2
  Base <- MCBase
  MaxCreateNodeInt = 9
INVARIANTS
  TypeOK
  PromiseKept
  DriftIsComplete
