SPECIFICATION FairSpec
CONSTANTS
  insert = insert
  update = update
  copy = copy
  transaction = transaction
  Callers = {copy, insert}
  Kind <- MCKind
  MaxBreaks = 1
INVARIANTS
  CopiesAreStored
