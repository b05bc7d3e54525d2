SPECIFICATION Spec
CONSTANTS
  a = a
  b = b
  c = c
  Services = {a, b, c}
  x = x
  y = y
  z = z
  Images = {x, y, z}
  Tag <- MCTag
  Memory = 4
  Strangers <- MCStrangers
  Unknown = unknown
  Host = host
  Branches = {main}
  Default = main
  Asked <- MCAsked
  Scenarios <- MCScenarios
  Lookalikes <- MCLookalikes
  MaxWaiting = 2
  MaxFiles = 2
INVARIANT
  LaterFilesAreCloned
