SPECIFICATION DeviceSpec
CONSTANTS
  t1 = t1
  t2 = t2
  t3 = t3
  i1 = i1
  i2 = i2
  j1 = j1
  f1 = f1
  f2 = f2
  NoJob = NoJob
  NoItem = NoItem
  NoAnswer = NoAnswer
  NoFd = NoFd
  Thread <- Threads
  Item <- Items
  Job <- Jobs1
  Result <- Results
  Outcome <- Outcomes
  DefRing = 1
  MaxRing = 2
  Fd <- Fds
INVARIANTS
  TypeOK
  ItemsAreConserved
  RingIsBounded
  NoLostWakeUp
  WorkHasAQueue
  WorkerStopsBeforeFree
  FileOutlivesItsUsers
  NothingIsLeftBehind
SYMMETRY DeviceSymmetry
