SPECIFICATION HSpec
CONSTANTS
  s1 = s1
  s2 = s2
  n1 = n1
  n2 = n2
  k1 = k1
  k2 = k2
  z1 = z1
  z2 = z2
  Absent = Absent
  Subnet <- MCSubnet
  SubnetName <- MCSubnetName
  Key <- MCKey
  Zone <- MCZone
  Terms <- MCTerms
  Call = {a1, a2}
  Requests <- MCRequests
  MaxIPs = 2
  MaxPods = 2
PROPERTIES
  ReleaseGivesBackItsOwn
