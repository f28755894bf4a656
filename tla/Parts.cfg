\* Two evaluations, of one candidate or of two, of pictures in two chunks; a case that draws
\* and one that does not, with one repetition; four events and a queue of two; three
\* stored turns, and two changes of the diagram between them; the verdicts have the values
\* of their instance.
CONSTANTS
  Evaluations = {e1, e2}
  Versions = {v1, v2}
  Chunks = 2
  None = None
  Cases = {"graph", "plain"}
  GraphCases = {"graph"}
  MaxConcurrency = 2
  GraphConcurrency = 1
  RetryCount = 1
  Events <- Reports
  QueueSize = 2
  Messages <- Sayings
  MaxTurns = 3
  MaxVersion = 2
SPECIFICATION PartsSpec
\* Each part may come to its end.
CHECK_DEADLOCK FALSE
INVARIANTS
  MeasurementsAreSound
  ReuseIsSound
  AcceptedIsKept
  RequestsStayTheUsers
  DrawsOnlyWhenAllowed
  AttemptsAreFair
PROPERTIES
  CaptureAnswers
  AttemptsAreReported
  SuiteComesToAnEnd
