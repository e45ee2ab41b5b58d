\* An edit overwritten by the relay's frame.
CONSTANTS
  Tui = {t1}
  Web = {w1}
  RecoverLimit = 1
  MaxTime = 1
  MaxWeb = 1
  MaxAmends = 1
  MaxLost = 1
SPECIFICATION Spec
INVARIANT
  EditedTextShown
