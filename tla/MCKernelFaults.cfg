\* Two clients, crashes, failing and lying operators, outside changes,
\* competing objectives and receipts that expire or grant too little.
CONSTANTS
  NoTransition = NoTransition
  NoObjective = NoObjective
  NoClient = NoClient
  Clients = {c1, c2}
  Outdated = {}
  Persistent = {}
  MaxValue = 3
  Transitions <- IntegerTransitions
  Modes <- IntegerModes
  InitialMode = "unbound"
  MarkedModes = {"two"}
  SourceModes <- IntegerSources
  TargetMode <- IntegerTarget
  Recovers <- IntegerRecovers
  Scope <- IntegerScope
  Mutation <- IntegerMutation
  Capabilities <- IntegerCapability
  Required <- IntegerRequired
  Priority <- IntegerPriority
  Objectives = {"first", "other"}
  Requests <- MCMixed
  Receipts <- MCReceipts
  Grants <- MCGrants
  IssuedAt <- MCIssuedAt
  ExpiresAt <- MCExpiresAt
  Worlds <- Values
  InitialWorld = 0
  Admits <- IntegerAdmits
  EffectOf <- IntegerEffect
  Verified <- IntegerVerified
  MaxRevision = 4
  MaxNow = 1
  MaxFaults = 2
  MaxDrifts = 1
SPECIFICATION Spec
SYMMETRY MCSymmetry
CONSTRAINT WithinBounds
INVARIANTS
  AttemptsAreAuthorized
  EffectIsUnderDurableAttempt
  NoStrandedRecovery
  PrescriptionsAreSpent
PROPERTIES
  ImplementsSupervised
