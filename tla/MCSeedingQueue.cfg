CONSTANTS
  t1 = t1
  t2 = t2
  t3 = t3
  Torrent = {t1, t2, t3}
  Target = 2
  Batch = 1
  RotationBatch = 1
  Exposure = 1
  MaxChanges = 1
  MaxFaults = 1
SPECIFICATION FairSpec
INVARIANTS
  TypeOK
  FullExposure
PROPERTIES
  PoolReturnsToTarget
  EveryoneRuns
