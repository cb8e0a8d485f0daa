SPECIFICATION Spec
CONSTANTS
  DayLength = 3
  PartOf <- MCPartOf
  EndOf <- MCEndOf
  StopLimit = 2
  FoundLimit = 2
  Databases <- MCDatabases
  Requests <- MCRequests
INVARIANT TypeOK
INVARIANT UpcomingByClock
INVARIANT SoonestAreKept
INVARIANT ListingGroupsStops
INVARIANT ListedNamesAreSearched
