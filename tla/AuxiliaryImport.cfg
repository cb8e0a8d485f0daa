SPECIFICATION Spec
CONSTANTS
  Inputs <- MCInputs
  DayLength = 4
  Missing = Missing
INVARIANT TypeOK
INVARIANT ReportsAreKept
INVARIANT PredictionsFindTheirOccurrence
INVARIANT FailureKeepsTheRest
INVARIANT NoMachineIsLost
CHECK_DEADLOCK FALSE
