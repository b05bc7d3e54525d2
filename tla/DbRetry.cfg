SPECIFICATION FairSpec
CONSTANTS
  insert = insert
  update = update
  copy = copy
  transaction = transaction
  Callers = {insert, copy, transaction}
  Kind <- MCKind
  MaxBreaks = 1
INVARIANT
  RowsAreTrue
PROPERTY
  EveryCallEnds
