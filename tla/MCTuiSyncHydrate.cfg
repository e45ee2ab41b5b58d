\* An edited and recalled message hydrated twice.
CONSTANTS
  Tui = {t1}
  Web = {w1}
  RecoverLimit = 1
  MaxTime = 1
  MaxWeb = 1
  MaxAmends = 2
  MaxLost = 1
SPECIFICATION Spec
INVARIANT
  HydrateSucceeds
