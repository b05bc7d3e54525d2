SPECIFICATION AccountSpec
SYMMETRY MCSymmetry
CONSTANTS
  m1 = m1
  Requests = {r1, r2}
  Jobs = {j1, j2}
  Machines = {m1}
  MachineOf <- MCMachineOf
  Values = {a, b}
  Invalid = bad
  ApiQuota = 1
  MachineQuota = 1
  MaxDuration = 2
  MaxBreaks = 1
INVARIANTS
  OverdraftIsBounded
  BooksBalance
