CONSTANTS
  Resident = {1, 2}
  Guide = 3
  Rsaga = 4
  MaxMessages = 1
  MaxRooms = 1
  MaxFaults = 2
  Person = {"ann", "bob"}
  NoOne = "nobody"
  Bearers <- MCBearers
  Sidecars = {"agent"}
  NoBearer = "none"
  Catalogue <- MCCatalogue
  Granted <- MCGranted
  Ungrouped = "nogroup"
  SuperAdmins = {}
  CodeSpace = 2
  Privilege = {"ban:resident"}
  Setting = {"k"}
  Value = {1, 2}
  Moderated = {"m"}
  LogEntry = {"l"}
  Device = {"d"}
  Channel = {"dm", "room"}
  Private = {"dm"}
  Keyed = {"ann"}
  Place = {"a"}
  Said = {"hi", "gone"}
  Withdrawn = "gone"
  Window = 2
  History = 2
  MaxAge = 0
  Published = {"m1"}
  Foreign = {"f1"}
  End = 3
  Stamp <- MCStamp
  Limit = 2
  Launch = {"lobby", "world"}
  Listed <- MCListed
  World = "world"
  Governance = "governance"
  Operator = {"ann"}
  Process = {"p", "q"}
  TailWindow = 1
  MaxTime = 2
  MaxChanges = 3
  MaxEpoch = 2
  MaxSealed = 2
  LastId = 2
  MaxShown = 3
  MaxAmended = 2
  MaxFrames = 3
  MaxWritten = 2
  MaxSessions = 2
  MaxPosts = 1
  MaxFailures = 1
SPECIFICATION GatewaySpec
CHECK_DEADLOCK FALSE
INVARIANTS
  TypesOK
  OnlyTheEntitledAct
  AuditNamesTheBearer
  RecordsAgree
  OnlyItsEpochOpens
  VisitorsWereLetIn
  OnlyMembersRead
  NoPhantomUnread
  VersionTellsChanges
  AckedReachesBoth
  NoticesStayLocal
  CacheIsWhole
