CONSTANTS
  Key = {k1}
  Hash = {h1, h2}
  h1 = h1
  h2 = h2
  NoHash = NoHash
  MaxVersion = 3
  Resolve <- MCResolve
  MaxAttempts = 1
  MaxRevision = 9
  MaxOperations = 2
  MaxFaults = 1
SPECIFICATION Spec
PROPERTIES
  OldResultsNotWrittenBack
