CONSTANTS
  Key = {k1}
  Hash = {h1, h2}
  h1 = h1
  h2 = h2
  NoHash = NoHash
  MaxVersion = 3
  Resolve <- MCResolve
  MaxAttempts = 2
  MaxRevision = 8
  MaxOperations = 1
  MaxFaults = 1
SPECIFICATION FairSpec
INVARIANTS
  TypeOK
  NoReleaseForgotten
  PreparedFromLatestSource
  ResourceNamesContent
  SubmissionsBounded
PROPERTIES
  NoBlindResubmission
  EveryReleaseSettles
