CONSTANTS
  o1 = o1
  o2 = o2
  google = google
  graph = graph
  Origin = {o1}
  Target = {google}
  GraphTarget = {}
  OriginOnGraph = FALSE
  LastSlot = 2
  Horizon = 2
  Dedupe = FALSE
  MaxNow = 1
  MaxEdits = 2
  MaxFaults = 1
SPECIFICATION Spec
INVARIANT
  MoveToPastHeals
