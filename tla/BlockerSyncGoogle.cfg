CONSTANTS
  o1 = o1
  o2 = o2
  google = google
  graph = graph
  Origin = {o1}
  Target = {google}
  GraphTarget = {}
  OriginOnGraph = FALSE
  LastSlot = 3
  Horizon = 2
  Dedupe = TRUE
  MaxNow = 1
  MaxEdits = 3
  MaxFaults = 2
SPECIFICATION Spec
INVARIANTS
  TypeOK
  AtMostOneBlocker
  RowTellsTruth
  Bookkeeping
  ReconcileSettles
PROPERTIES
  NoBlockerForgotten
  KeepsThePast
  MirrorsByCopying
