SPECIFICATION FairSpec
CONSTANTS
  a = a
  b = b
  Slugs = {a, b}
  Providers <- MCProviders
  RealtimeSlugs = {a}
  MachineSlugs = {a}
  CatalogSlugs = {b}
  StaticWorkerCount = 1
  MaxVersion = 2
  WorkersMayDie = FALSE
  StorageMayFail = FALSE
  MayRestart = FALSE
  NoOverlay = NoOverlay
INVARIANT TypeOK
INVARIANT ValidHasSchedule
INVARIANT RestingStatusIsFinal
INVARIANT EventLoopNeverBlocks
INVARIANT WritersExcludeEachOther
INVARIANT AuxiliaryStatusIsLive
PROPERTY ScheduleAndStampTogether
PROPERTY EveryCycleEnds
PROPERTY DueIsRefreshed
PROPERTY RealtimeGapCloses
CHECK_DEADLOCK TRUE
