SPECIFICATION Spec
CONSTANTS
  a = a
  b = b
  Slugs = {a, b}
  Providers <- MCProviders
  RealtimeSlugs = {a}
  MachineSlugs = {a}
  CatalogSlugs = {b}
  StaticWorkerCount = 2
  MaxVersion = 1
  WorkersMayDie = FALSE
  StorageMayFail = FALSE
  MayRestart = TRUE
  NoOverlay = NoOverlay
PROPERTY FetchedAtStartup
CHECK_DEADLOCK TRUE
