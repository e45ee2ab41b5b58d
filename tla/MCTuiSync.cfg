\* A terminal and a browser; one or two things go wrong at every possible point.
CONSTANTS
  Tui = {t1}
  Web = {w1}
  RecoverLimit = 1
  MaxTime = 2
  MaxWeb = 1
  MaxAmends = 1
  MaxLost = 2
SPECIFICATION FairSpec
INVARIANTS
  TypeOK
  OneCopyInStore
PROPERTIES
  RecallSticks
  ImplementsOutbox
  OutboxDelivered
