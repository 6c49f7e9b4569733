CONSTANTS
  MaxWal = 1
  MayFail = TRUE
  CutPart = {"update"}
  MayLose = FALSE
  Restorer = {r1, r2}
  MaxDumps = 2
SPECIFICATION LightSpec
INVARIANTS ExportsAsLabelled ExportsMatch
SYMMETRY Symmetry
CHECK_DEADLOCK FALSE
