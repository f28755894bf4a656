\* Two commands, a queue that one of them fills, a budget of one steer; a deadline
\* that may never pass.
CONSTANTS
  ComponentCalls = 1
  ConnectionCalls = 1
  Kinds = {"create", "edit"}
  MaxSteers = 1
  QueueSize = 1
  MaxCommands = 2
SPECIFICATION Spec
\* A turn stops when it has ended.
CHECK_DEADLOCK FALSE
INVARIANTS
  CommandsAreHonoured
  ClientSeesTheStore
  AgentCovered
PROPERTY
  TurnComesToAnEnd
