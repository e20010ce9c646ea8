SPECIFICATION FairSpec
CONSTANTS
  Absent = Absent
  NoOffering = NoOffering
  Call = {a1, a2}
  Subnet = {s1}
  MaxPods = 1
  Type = {1, 2}
  Zone = {1, 2}
  Price <- MCPrice
  Claims <- MCClaims
INVARIANTS
  TypeOK
  OnlyRefusalsMark
  NoSecondRefusal
PROPERTIES
  ImplementsContract
  EventuallyLaunched
