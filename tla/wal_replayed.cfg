CONSTANTS
  MaxWal = 1
  MayFail = FALSE
  CutPart = {}
  MayLose = FALSE
SPECIFICATION Spec
INVARIANTS WalReplayed
CHECK_DEADLOCK FALSE
