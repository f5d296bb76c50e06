SPECIFICATION Spec
CONSTANTS
  Session <- MCSession
  Ciphers <- MCCiphers
  Hashes <- MCHashes
  Data <- MCData
  Flags <- WithNoZc
  Ops <- HashOps
  MaxCalls = 2
  Faults <- NoFaults
INVARIANTS
  OneShotDigestIsFresh
CHECK_DEADLOCK FALSE
