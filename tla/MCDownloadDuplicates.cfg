CONSTANTS
  Key = {k1, k2}
  Hash = {h1}
  h1 = h1
  h2 = h1
  NoHash = NoHash
  MaxVersion = 1
  Resolve <- MCResolve
  MaxAttempts = 2
  MaxRevision = 4
  MaxOperations = 1
  MaxFaults = 1
SPECIFICATION Spec
PROPERTIES
  OnePursuerPerTorrent
  NoRepeatedContent
