CONSTANTS
  MaxWal = 1
  MayFail = TRUE
  CutPart = {"update"}
  MayLose = TRUE
SPECIFICATION CronSpec
INVARIANTS ExportsInOrder
PROPERTIES DumpsKeepComing
CHECK_DEADLOCK FALSE
