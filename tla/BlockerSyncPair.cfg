CONSTANTS
  o1 = o1
  o2 = o2
  google = google
  graph = graph
  Origin = {o1}
  Target = {google, graph}
  GraphTarget = {graph}
  OriginOnGraph = TRUE
  LastSlot = 2
  Horizon = 1
  Dedupe = TRUE
  MaxNow = 1
  MaxEdits = 2
  MaxFaults = 1
SPECIFICATION FairSpec
INVARIANT
  ReconcileSettles
PROPERTIES
  KeepsThePast
  Converges
