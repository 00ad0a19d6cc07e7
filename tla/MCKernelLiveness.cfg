\* Untargeted supervision to the marked mode.
CONSTANTS
  NoTransition = NoTransition
  NoObjective = NoObjective
  NoClient = NoClient
  Clients = {c1, c2}
  Outdated = {}
  Persistent = {c1}
  MaxValue = 3
  Transitions <- IntegerTransitions
  Modes <- IntegerModes
  InitialMode = "unbound"
  MarkedModes = {"two"}
  SourceModes <- IntegerSources
  TargetMode <- IntegerTarget
  Recovers <- IntegerRecovers
  Scope <- IntegerScope
  Mutation <- IntegerMutation
  Capabilities <- IntegerCapability
  Required <- IntegerRequired
  Priority <- IntegerPriority
  Objectives = {"first", "other"}
  Requests <- MCSoleRequest
  Receipts <- MCReceipts
  Grants <- MCGrants
  IssuedAt <- MCIssuedAt
  ExpiresAt <- MCExpiresAt
  Worlds <- Values
  InitialWorld = 0
  Admits <- IntegerAdmits
  EffectOf <- IntegerEffect
  Verified <- IntegerVerified
  MaxRevision = 11
  MaxNow = 0
  MaxFaults = 1
  MaxDrifts = 0
SPECIFICATION FairSpec
PROPERTIES
  ReachesMarked
