CONSTANTS
  old = old
  new = new
  newer = newer
  Revision = {old, new, newer}
  None = None
  Installed = old
  Schema <- MCSchema
  AnyBackup = FALSE
  CutRestore = FALSE
  MaxEffects = 2
  MaxRollbacks = 2
  MaxFaults = 1
CHECK_DEADLOCK FALSE
SPECIFICATION FairSpec
INVARIANTS
  TypeOK
  EffectsRemembered
  CurrentCanOpenState
PROPERTIES
  StateReplacedWhenStopped
  ServiceReturns
