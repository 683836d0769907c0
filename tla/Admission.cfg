SPECIFICATION AdmissionSpec
CONSTANTS
  Visitors = {v1, v2}
  Ports = {n1, n2}
  Processes = {i1, i2}
  Configs <- MCConfigs
  i1 = i1
  i2 = i2
  Table = Table
  Missing = Missing
  Ttl = 2
  Limit = 2
  BlockDuration = 2
  MaxTime = 3
INVARIANTS
  BudgetPerInterval
  RefusalsAreEarned
SYMMETRY Symmetry
