SPECIFICATION Spec
CONSTANTS
  Requests = {1, 2, 3, 4}
  Ids = {"a", "b", "c"}
  IdOf <- MCIdOf
  Sources <- MCSources
  NoId = "none"
  Updates <- MCUpdates
  TextOf <- MCTextOf
  GraphOf <- MCGraphOf
  Starts <- MCStarts
  Known = "known"
  NoGraph = "no graph"
  QueueSize = 1
  AgentTime = 1
  Slack = 6
  MaxPreviews = 1
  MaxTroubles = 1
CHECK_DEADLOCK FALSE
INVARIANTS
  StreamsEndClean
PROPERTIES
  OneAnswerPerId
  StreamsRunTheirCourse
