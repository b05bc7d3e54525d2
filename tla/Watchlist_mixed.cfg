SPECIFICATION LiveSpec
CONSTANTS
  nightly = nightly
  weekly = weekly
  series = series
  gone = gone
  branch = branch
  cron = cron
  Items <- MixedItems
  ModeOf <- MixedModes
  OffDefault = {}
  Seeded = {nightly, gone}
  Gone = {gone}
  Unchecked = {}
  Passes = {cron}
  MaxDay = 2
  MaxRevision = 2
  MaxCrashes = 1
INVARIANTS
  MarkedIsAsked
  SeriesAreWhole
  PassServes
PROPERTY
  EveryRevisionIsRun
