\* What the documentation says of every change, refuted by a quiet one.
CONSTANTS
  Reader = {r1}
  Writer = {w1}
  Version = {v1, v2}
  NoVersion = NoVersion
  MaxWrites = 1
SPECIFICATION Spec
INVARIANT
  ChangeEndsWait
