SPECIFICATION FairSpec
CONSTANTS
  None = None
  NoWork = NoWork
  NoRecord = NoRecord
  p1 = p1
  p2 = p2
  i1 = i1
  i2 = i2
  Processes = {p1}
  Parameters = {i1, i2}
  Prompts = {1}
  Bundles = {1, 2}
  InitialBundle = 1
  Trees = {1, 2}
  InitialTree = 1
  Commands <- MCAsking
  MaxGenerations = 2
  MaxAuthorizations = 2
  MaxDisturbances = 0
  MaxCrashes = 0
CHECK_DEADLOCK FALSE
PROPERTIES
  NextReturnsItsPrescription
