SPECIFICATION LiveSpec
CONSTANTS
  TempLimit <- MCTempLimit
  MaxEvents <- MCMaxEvents
INVARIANT
  JobOnSoundMachine
PROPERTY
  RevalidationComes
