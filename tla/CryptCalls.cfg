SPECIFICATION Spec
CONSTANTS
  Session <- MCSession
  Ciphers <- MCCiphers
  Hashes <- MCHashes
  Data <- LongData
  Flags <- SomeFlags
  Ops <- MixedOps
  MaxCalls = 3
  Faults <- AllFaults
INVARIANTS
  ResultIsPathIndependent
  DigestsCoverTheStream
CHECK_DEADLOCK FALSE
