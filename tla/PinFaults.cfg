SPECIFICATION Spec
CONSTANTS
  PageSize = 4
  Prealloc = 1
  MaxPages = 8
  MaxDiff = 3
  IntMod = 16
  Request <- Buffers
  Faults <- AllFaults
INVARIANTS
  TypeOK
  EntriesArePinned
  
  ScatterCoversBuffers
  PayloadFollowsHeader
  PinsBalanced
