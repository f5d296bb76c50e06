SPECIFICATION LifeFairSpec
CONSTANTS
  Unit <- Units
  Hash <- Hashes
  Error <- Errors
  MaxSubmits = 3
  Sop <- Sops
  MaxKey = 2
  MaxMacKey = 3
  Header = 1
INVARIANTS
  EverythingIsFreedOnce
  DriversUseLiveRequests
  KeysAreConfined
  WaiterGetsItsResult
  NothingInFlightAfterReturn
PROPERTIES
  WaitEnds
CHECK_DEADLOCK FALSE
