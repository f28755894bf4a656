SPECIFICATION Spec
CONSTANTS
    Threads = {a, b}
    Home = a
    NoThread = none
    MaxTurns = 2
    MaxSockets = 3
    MaxVersion = 2
    MaxExtras = 1
CHECK_DEADLOCK FALSE
PROPERTIES
  ShownIsTheUsers
  SteersReachTheirTurn
  TurnEnds
