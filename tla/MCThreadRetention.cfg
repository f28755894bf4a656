\* Three threads, two turns; room for two conversations and two drafts.
CONSTANTS
  x1 = x1
  x2 = x2
  x3 = x3
  t1 = t1
  t2 = t2
  Nobody = nobody
  Threads <- MCThreads
  Turns <- MCTurns
  MaxThreads = 2
  MaxClock = 5
SPECIFICATION Spec
SYMMETRY Symmetry
\* Everything may have ended.
CHECK_DEADLOCK FALSE
INVARIANT
  ActiveThreadsAreKept
PROPERTY
  EvictionIsFair
