\* A frame that is relayed but not stored, refuting the README.
CONSTANTS
  Tui = {t1}
  Web = {}
  RecoverLimit = 1
  MaxTime = 1
  MaxWeb = 0
  MaxAmends = 0
  MaxLost = 1
SPECIFICATION Spec
INVARIANT
  NothingLost
