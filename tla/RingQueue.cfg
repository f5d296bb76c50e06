SPECIFICATION FairSpec
CONSTANTS
  t1 = t1
  t2 = t2
  i1 = i1
  i2 = i2
  j1 = j1
  j2 = j2
  NoJob = NoJob
  NoItem = NoItem
  NoAnswer = NoAnswer
  Thread <- TwoThreads
  Item <- TwoItems
  Job <- TwoJobs
  Result <- Results
  Outcome <- Outcomes
  DefRing = 1
  MaxRing = 2
INVARIANTS
  ReleaseFreesAllItems
PROPERTIES
  ImplementsJobQueue
  JobsComplete
  PollersWake
