SPECIFICATION FairSpec
CONSTANTS
  z1 = z1
  z2 = z2
  Absent = Absent
  Flavor = {1, 2}
  Zone = {z1, z2}
  Entries <- MCEntries
  ZoneLists <- MCZoneLists
  Tried <- MCTried
  Config = {k1}
  PageSize = 1
INVARIANTS
  TypeOK
  CacheIsTransparent
  SoldOutIsNotOffered
  FetchIsComplete
PROPERTIES
  CatalogReachesList
