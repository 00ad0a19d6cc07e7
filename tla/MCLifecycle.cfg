SPECIFICATION Spec
CONSTANTS
  NoTransition = NoTransition
  None = None
  d1 = d1
  d2 = d2
  t1 = t1
  t2 = t2
  Deliveries = {d1, d2}
  Texts = {t1, t2}
  Policies <- MCPolicies
  InitialPolicy <- MCOptional
  Authorities <- MCAuthorities
  Asked <- MCAsked
  Disturbances <- MCDisturbances
  MaxRevision = 2
  MaxDeviations = 3
SYMMETRY MCSymmetry
CHECK_DEADLOCK FALSE
INVARIANTS
  ApprovedPlanIsWhatWasApproved
  EvidenceIsForOneRevision
  SelectionsPassPreflight
PROPERTIES
  ContinuationsPublishProvenWork
  AbandonedWorkIsProvenAgain
