SPECIFICATION Spec
CONSTANTS
  t1 = t1
  t2 = t2
  Thread <- Threads
  Kind <- Kinds
  Caop <- Caops
  NoIv = "none"
  PageSize = 1
  MaxDiff = 1
  MaxResult = 3
  IntMod = 32
INVARIANTS
  RecordsFitTheirBuffer
  AcceptedRecordsAreAuthentic
  IntactRecordsAreAccepted
  SrtpVerifiesFirst
CHECK_DEADLOCK FALSE
