CONSTANTS
  old = old
  new = new
  newer = newer
  Revision = {old, new, newer}
  None = None
  Installed = old
  Schema <- MCSchema
  AnyBackup = TRUE
  CutRestore = FALSE
  MaxEffects = 2
  MaxRollbacks = 1
  MaxFaults = 0
CHECK_DEADLOCK FALSE
SPECIFICATION Spec
INVARIANTS
  EffectsRemembered
