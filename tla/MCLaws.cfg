\* The laws of the selection, of declared effects, of composition and of flows.
CONSTANTS
  NoTransition = NoTransition
  Capabilities = {"write", "human"}
  NoCandidateKinds = {"", "BLOCKED"}
  Pool <- MCPool
  Needs <- MCNeeds
  Owner <- MCOwner
  NativeOnly = {}
  Companion = {"recovery"}
  MaxAssignments = 4
  Extensions <- MCExtensions
  Escalation <- MCEscalation
  Core <- MCCore
  Runtime <- MCRuntime
  Offers <- MCOffers
  Claims <- MCClaims
  Obligations <- MCObligations
  Snapshots <- MCSnapshots
  MaxEntries = 7
  DocumentFacets = {"owner", "grade", "step"}
  Texts = {"a", "b"}
  Goal <- MCGoal
  Drafted <- MCDrafted
  Offered <- MCOffered
  Parts = {"relation", "effects", "composition", "declarative"}
SPECIFICATION LawsSpec
VIEW LawsView
INVARIANTS
  
  ExtensionsAreAdditive
  SelectedStepsSucceed
PROPERTIES
  AuthorityNeverSelects
CONSTRAINTS
  MCSmallDeclaration
  MCSmallManifests
CHECK_DEADLOCK FALSE
