SPECIFICATION Spec
CONSTANTS
  a = a
  b = b
  Slugs = {a, b}
  Providers <- MCProviders
  RealtimeSlugs = {a}
  MachineSlugs = {a}
  CatalogSlugs = {b}
  StaticWorkerCount = 2
  MaxVersion = 1
  WorkersMayDie = TRUE
  StorageMayFail = FALSE
  MayRestart = FALSE
  NoOverlay = NoOverlay
INVARIANT RefreshKeepsRunning
CHECK_DEADLOCK FALSE
