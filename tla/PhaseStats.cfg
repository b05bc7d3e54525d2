SPECIFICATION Spec
CONSTANTS
  Worlds <- MCWorlds
  Lead <- MCLead
  ContainersFrom = 1
  Intensities <- MCIntensities
  Containers <- MCContainers
  Padding = 2
  Gaps = {2, 4}
  Losses <- MCLosses
  Scale = 10
  CarbonScale = 4
  MaxStay = 4
  MaxPause = 0
  MaxTime = 15
CHECK_DEADLOCK FALSE
INVARIANTS
  TypeOK
  NothingIsCountedTwice
  EnergyAddsUp
  RuntimeIsVisibleFlows
  MeansAreMeans
  CarbonAddsUp
  StatsAreWhole
  SilenceIsWarned
