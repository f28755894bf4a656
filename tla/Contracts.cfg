\* Three requests on diagrams of up to four components; stages of up to four records with
\* one record added and one cited at a time.
SPECIFICATION PartsSpec
CONSTANTS
  x1 = x1   x2 = x2   t1 = t1   t2 = t2   Nobody = nobody
  ComponentCalls = 2   ConnectionCalls = 3
  Kinds = {"create", "rebuild", "edit", "extend"}
  Creations <- MCCreations
  NewComponents <- MCNewComponents
  Labels = {1, 2}
  Types = {"service", "component"}
  EdgeLabels = {"x"}
  MaxNodes = 4
  MaxEdges = 3
  MaxAdded = 1
  MaxNewEdges = 2
  MaxRequests = 3
  ComponentRules <- MCComponentRules
  ConnectionRules <- MCConnectionRules
  MaxIndexes = 2
  Requests <- MCRequests
  CallLimit <- MCCalls
  Accepted <- MCAccepted
  Written <- MCWritten
  Rewrites <- MCRewrites
  Added <- MCAdded
  ComponentLimit = 5
  EdgeLimit = 4
  MaxAdditions = 1
  MaxCited = 1
\* A request, or a correction, may be the last one.
CHECK_DEADLOCK FALSE
INVARIANTS
  PublicationIsEarned
  SavedIsSound
  ReviewsAreWhole
PROPERTIES
  WorkComesToAnEnd
  EditsAreConfined
  CorrectionsAreConfined
  PatchesKeepTheDiagram
