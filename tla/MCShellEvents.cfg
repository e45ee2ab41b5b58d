\* Two event requests against two announcing handlers and quiet ones.
CONSTANTS
  Reader = {r1, r2}
  Writer = {w1, w2}
  Version = {v1, v2}
  NoVersion = NoVersion
  MaxWrites = 2
SPECIFICATION FairSpec
INVARIANTS
  TypeOK
  NoLostWakeup
PROPERTIES
  AnnouncedChangeAnswered
  EveryRequestAnswered
