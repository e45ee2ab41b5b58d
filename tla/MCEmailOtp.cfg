\* Two requests for codes, for one email or for two, and two
\* residents.  A window is one tick, a code lives for two.
CONSTANTS
  Request = {r1, r2}
  Email = {e1, e2}
  Resident = {a, b}
  Nobody = nobody
  Window = 0
  Lifetime = 1
  MaxTime = 2
  MaxAdmin = 1
  MaxFaults = 2
SPECIFICATION Spec
SYMMETRY Symmetry
INVARIANTS
  TypeOK
  OneOwner
  OneOpenCode
  OneLoginPerCode
  LoginDurable
  SameResident
  LogoutFinal
  OneCodePerWindow
  FailuresNotCounted
  SentCodeWorks
