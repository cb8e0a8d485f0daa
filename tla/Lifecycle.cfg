SPECIFICATION FairLifeSpec
CONSTANTS
  a = a
  b = b
  Slugs = {a, b}
  Providers <- MCProviders
  RealtimeSlugs = {a}
  MachineSlugs = {a}
  CatalogSlugs = {b}
  StaticWorkerCount = 2
  MaxVersion = 2
  WorkersMayDie = TRUE
  StorageMayFail = TRUE
  MayRestart = TRUE
  NoOverlay = NoOverlay
INVARIANT LifeTypeOK
INVARIANT BuildsHaveDirectory
INVARIANT NothingHeldAtExit
INVARIANT InstallHasSource
PROPERTY ImplementsStore
PROPERTY ShutdownCompletes
CHECK_DEADLOCK TRUE
