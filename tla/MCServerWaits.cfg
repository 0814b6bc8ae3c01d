SPECIFICATION FairServerSpec
CONSTANTS
  Managers = {m1}
  Packages = {p}
  NoResult = NoResult
  MaxRuns = 2
  Budget = 3
  Ahead = 2
  Clients = {{"dynamic"}}
PROPERTY CompilesEndWhileUp
CHECK_DEADLOCK FALSE
