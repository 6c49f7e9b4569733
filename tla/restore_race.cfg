CONSTANTS
  SYNC = SYNC
  DEFAULT = DEFAULT
  HQ = HQ
  PROD = PROD
  fSync = fSync
  fHq = fHq
  fHq1 = fHq1
  fHqBis = fHqBis
  fLight = fLight
  Stem = {SYNC, DEFAULT, HQ, PROD}
  SyncStem = {SYNC, DEFAULT}
  File = {fSync, fHq, fHq1, fHqBis, fLight}
  NewDbName <- MCNewDbName
  Alpha <- MCAlpha
  LightFile = fLight
  DefaultServer = DEFAULT
  NoDb = NoDb
  App = App
  Copier = Copier
  Production = Production
  Run = {r1, r2}
  Job <- RaceJobs
  PreExisting <- HqExists
  AppName <- OnlyHq
  CopiedName <- NoDatabase
  CopyName <- NoCopyName
  LocalServer <- SyncName
  MaxWait = 1
  MaxInterrupts = 1
SPECIFICATION Spec
INVARIANTS ExistingUntouched
PROPERTIES OnlyTargetDropped
CHECK_DEADLOCK FALSE
