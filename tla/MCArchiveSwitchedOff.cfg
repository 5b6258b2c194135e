CONSTANTS
  Hash = {t1}
  Loc = {p1, p2}
  First = p1
  NoLoc = NoLoc
  Samples = 2
  MaxAttempts = 2
  SlowRemoval = FALSE
  MaxOperations = 1
  MaxFaults = 1
  MaxChanges = 1
SPECIFICATION Spec
PROPERTIES
  ManifestKeptForOperator
