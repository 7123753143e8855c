SPECIFICATION FairSpec
CONSTANTS
  Modulo = 8
  ErrorCode = 4
INVARIANTS
  DeafOnlyWhenOvertaken
PROPERTIES
  RefinesLedService
  EveryRequestAnswered
CHECK_DEADLOCK FALSE
