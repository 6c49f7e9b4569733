CONSTANTS
  A = A
  B = B
  i1 = i1
  i2 = i2
  Base = {i1, i2, sy}
  sy = sy
  OC = {A, B}
  Prod = Prod
  Sync = sy
  SrcOf <- MCSrcOf
  Cut <- MCCut
  Held0 <- MCHeld0
  MaxVersion = 1
  MaxRuns = 2
  MaxFaults = 2
  Host = {A}
  Excludes <- MCExcludes
  Files0 <- MCFiles0
  MaxTools = 2
  Mode = {"xmlrpc", "http"}
SPECIFICATION ToolsSpec
PROPERTIES NoneAhead StartedNeutral
CHECK_DEADLOCK FALSE
