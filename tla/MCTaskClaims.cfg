CONSTANTS
  Key = {k1}
  Hash = {h1}
  TTL <- MCTTL
  MaxAttempts = 2
  MaxTime = 3
  MaxToken = 3
  MaxRevision = 3
SPECIFICATION Spec
INVARIANTS
  ClaimInv
  ExclusiveReader
  SettlerIsReader
  RetryBudget
PROPERTIES
  VerifyingStaysQuiet
  LeaseSpec
