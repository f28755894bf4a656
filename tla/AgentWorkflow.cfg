SPECIFICATION Spec
CONSTANTS
  MaxRepairs = 2
  MaxProtocol = 1
  MaxContract = 1
  MaxCritic = 4
  Reserve <- Reserves
  Cap <- Caps
  StartTimes = {1, 13, 20}
  MaxSteers = 1
CHECK_DEADLOCK FALSE
INVARIANTS
  ReviewsAreOfTheResult
  BudgetsHold
PROPERTIES
  RunEnds
