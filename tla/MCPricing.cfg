SPECIFICATION FairSpec
CONSTANTS
  a = a
  b = b
  c = c
  Missing = Missing
  Unrated = Unrated
  Type = {1, 2, 3}
  Price = {1, 2}
  Product = {a, b, c}
  SpecOf <- MCSpecOf
  Rates <- MCRates
  Errors <- MCErrors
  BatchSize = 2
INVARIANTS
  TypeOK
  RejectionCostsNoOther
PROPERTIES
  PricesAreCurrent
  PricesConverge
