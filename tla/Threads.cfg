\* Four chat requests, a tab and an earlier release, in three scenes.
CONSTANTS
  a1 = a1   a2 = a2   a3 = a3   a4 = a4
  q1 = q1   q2 = q2   q3 = q3
  t1 = t1   t2 = t2
  c1 = c1   c2 = c2   l1 = l1
  Contents = {c1, c2}
  NoContent = NoContent
  LegacyContent = c1
  Layouts = {l1}
  NoLayout = NoLayout
  Oversized <- LargeWithLayout
  Related <- MCRelated
  Attempts = {a1, a2, a3, a4}
  NoAttempt = NoAttempt
  Requests = {q1, q2, q3}
  RequestOf <- OneSentTwice
  Tabs = {t1}
  MaxMessages = 5
  MaxVersions = 4
  MaxRevisions = 5
  Rollout = TRUE
SPECIFICATION SceneSpec
\* The bounds on versions and revisions let a run stop.
CHECK_DEADLOCK FALSE
INVARIANTS
  TurnsAreStoredOnce
  VersionsAreReliable
  ReviewsStayWithTheirContent
PROPERTIES
  HistoryIsKept
  ReplacementsAreCurrent
