SPECIFICATION Spec
CONSTANTS
  Nothing = Nothing
  p1 = p1
  p2 = p2
  t1 = t1
  t2 = t2
  Trees = {t1, t2}
  InitialTree = t1
  Diff <- MCDiff
  Weight <- MCWeight
  Blocking = {0, 1}
  MaxRounds = 2
  StallWindow = 2
  Invocations = {p1}
  Candidates <- MCCandidates
  Policies = {1}
  InitialPolicy = 1
  MaxCommands = 4
  MaxCommits = 1
  MaxMerges = 0
  MaxCrashes = 1
  MaxResets = 0
CHECK_DEADLOCK FALSE
INVARIANT
  ConvergedReviewsCanBeSealed
