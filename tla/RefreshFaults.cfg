SPECIFICATION Spec
CONSTANTS
  a = a
  b = b
  Slugs = {a, b}
  Providers <- MCProviders
  RealtimeSlugs = {a}
  MachineSlugs = {a}
  CatalogSlugs = {b}
  StaticWorkerCount = 2
  MaxVersion = 2
  WorkersMayDie = TRUE
  StorageMayFail = TRUE
  MayRestart = TRUE
  NoOverlay = NoOverlay
INVARIANT IInv
INVARIANT OverlayMatchesSchedule
PROPERTY ImplementsStore
PROPERTY NoRegression
CHECK_DEADLOCK TRUE
