SPECIFICATION Spec
CONSTANTS
  main = main
  second = second
  linked = linked
  f = f
  g = g
  topic = topic
  Trees = {main, second, linked}
  FirstTrees = {main, second}
  Branches = {topic}
  Elsewhere = Elsewhere
  Runs = {f, g}
  Operator = Operator
  Nothing = Nothing
  OneAtATime = TRUE
  MaxReceipts = 5
  MaxRevision = 6
  MaxDisturbances = 1
  Ref <- RefOf
  Delivery <- SameDelivery
INVARIANTS
  
  RunsStayAuthorized
  ResultsAreAncestral
  
SYMMETRY Renamings
CHECK_DEADLOCK FALSE
