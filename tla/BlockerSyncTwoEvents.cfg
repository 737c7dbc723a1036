CONSTANTS
  o1 = o1
  o2 = o2
  google = google
  graph = graph
  Origin = {o1, o2}
  Target = {graph}
  GraphTarget = {graph}
  OriginOnGraph = FALSE
  LastSlot = 2
  Horizon = 1
  Dedupe = TRUE
  MaxNow = 1
  MaxEdits = 2
  MaxFaults = 1
SPECIFICATION Spec
INVARIANTS
  CursorTellsTruth
  RowTellsTruth
