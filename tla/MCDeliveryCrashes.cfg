\* Two processes of one worktree, stops and failing steps anywhere.
CONSTANTS
  Worktrees = {w1}
  Processes = {p1, p2}
  WorktreeOf <- Shared
  NoProcess = NoProcess
  Local <- MCLocal
  External <- MCExternal
  Commanded <- MCCommanded
  Uncertain <- MCUncertain
  Idle <- MCIdle
  ClosesFirst = TRUE
  Budget = 1
  MaxEffects = 2
  MaxFaults = 2
CHECK_DEADLOCK FALSE
SPECIFICATION Spec
CONSTRAINT WithinBounds
SYMMETRY MCSymmetry
INVARIANTS
  RequestsTakeEffectOnce
  AllOrNothing
  ReceiptsAccountForRevisions
  ReceiptsCertifySettledEffects
  ExternalEffectsAreNotRetried
