SPECIFICATION Spec
CONSTANTS
  energy = energy
  cgroup = cgroup
  web = web
  db = db
  login = login
  checkout = checkout
  Services = {web, db}
  Scenarios <- MCScenarios
  Providers = {energy, cgroup}
  ContainerProviders = {cgroup}
  Selections <- MCSelections
  Flows = {login, checkout}
  MaxFaults = 3
INVARIANTS
  HostIsClean
  OutcomeIsTrue
  ImportedOnce
