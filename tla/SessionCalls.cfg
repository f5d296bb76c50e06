SPECIFICATION FairSpec
CONSTANTS
  t1 = t1
  t2 = t2
  s1 = s1
  s2 = s2
  x1 = x1
  x2 = x2
  x3 = x3
  NoThread = NoThread
  NoSession = NoSession
  NoSid = NoSid
  Thread <- TwoThreads
  Session <- TwoSessions
  Sid <- ThreeSids
  Calls <- AllCalls
INVARIANTS
  TypeOK
  ReferencedSessionsAreLive
  SessionsInUseAreOwned
  SidsAreUnique
  UsesRequestedSession
  ClosedFileHasNoSessions
PROPERTIES
  UnlinkedSessionsAreOnlyDestroyed
  EveryCallReturns
CHECK_DEADLOCK FALSE
