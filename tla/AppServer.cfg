CONSTANTS
  c1 = c1
  c2 = c2
  day = day
  week = week
  Client = {c1, c2}
  Editor = {c1, c2}
  Window = {day}
  TTL = 1
  StaleMax = 1
  Timeout = 1
  MaxTime = 4
  MaxLoad = 4
  MaxEdits = 1
  MaxFaults = 1
SPECIFICATION FairSpec
INVARIANTS
  TypeOK
  UnloadedHasReason
  PhaseTellsFile
  WholeUnlessClash
PROPERTIES
  RefreshNeverAgesEntry
  AnswersAreRecent
  NoBlindOverwrite
  RefreshEnds
  AuthEnds
  DaemonComesBack
CHECK_DEADLOCK FALSE
