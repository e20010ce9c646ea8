SPECIFICATION FairSpec
CONSTANTS
  s1 = s1
  s2 = s2
  Claim = {c1, c2}
  NoSubnet = NoSubnet
  Subnet <- MCSubnet
  Selected <- MCSelected
  MaxGen = 3
  MaxUid = 2
INVARIANTS
  TypeOK
  NodeClassOutlivesNodes
PROPERTIES
  StatusPatchIsCurrent
  SelectionTakesEffect
  DeletionCompletes
