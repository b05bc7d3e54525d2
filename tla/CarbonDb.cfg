SPECIFICATION Spec
CONSTANTS
  m1 = m1
  m2 = m2
  p1 = p1
  p2 = p2
  Measurements = {m1, m2}
  Loads <- MCLoads
  Forms <- MCForms
  Group <- MCGroup
  Places = {p1, p2}
  Place <- MCPlace
  SlotsPerDay = 2
  BackfillWindow = 1
  LateDays = 1
  MergeDays = 2
  MaxTime = 4
  MaxDelay = 1
  MaxArrival = 0
  MaxLateness = 3
  MaxBatches = 2
  MaxRebuilds = 1
INVARIANTS
  TypeOK
  CarbonIsOfItsTime
PROPERTIES
  CountedOnce
  SumsAreWhole
