CONSTANTS
  a = a
  b = b
  Event = {a, b}
  SameMeeting = {a, b}
  Dedupe = TRUE
  LastStart = 3
  DayLength = 2
  DigestAt = 1
  ReconcileAt = 0
  Lead = 1
  Horizon = 3
  Retention = 1
  MaxNow = 4
  MaxEdits = 2
  MaxFaults = 2
SPECIFICATION Spec
SYMMETRY Copies
INVARIANTS
  TypeOK
  RemindedOnce
  NoReminderMissed
  PhantomsHaveCause
  DigestOnce
  DigestKept
