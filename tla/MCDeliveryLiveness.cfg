\* Interrupted transactions end, in two worktrees; deliveries complete.
CONSTANTS
  Worktrees = {w1, w2}
  Processes = {w1, w2}
  WorktreeOf <- Apart
  NoProcess = NoProcess
  Local <- MCLocal
  External <- MCExternal
  Commanded <- MCCommanded
  Uncertain <- MCUncertain
  Idle <- MCIdle
  ClosesFirst = FALSE
  Budget = 1
  MaxEffects = 1
  MaxFaults = 1
  NoTransition = NoTransition
  None = None
  Deliveries = {d1, d2}
  Texts = {t1, t2}
  MaxRevision = 3
  MaxDeviations = 2
CHECK_DEADLOCK FALSE
SPECIFICATION LivenessSpec
PROPERTIES
  InterruptionsEnd
  DeliveriesComplete
