SPECIFICATION Spec
CONSTANTS
  Registry <- MCRegistry
  Slug <- MCSlug
  Orders <- MCOrders
  Batch = 2
  Missing = Missing
INVARIANT TypeOK
INVARIANT ImportIsFaithful
INVARIANT DatesAreFaithful
INVARIANT ArchivesKeepTheirTrips
INVARIANT SelectionIsNewestValid
CHECK_DEADLOCK FALSE
