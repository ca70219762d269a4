SPECIFICATION Spec
CONSTANTS
  MINUTES = 11
  SECONDS = 11
  StartTimes <- MCStartTimes
  MaxTicks = 3
INVARIANTS
  TypeOK
PROPERTIES
  ShownTimeWasReal
  ReadReturns
