CONSTANTS
  a = a
  b = b
  Account = {a, b}
  Rotating = {b}
  MaxTokens = 3
  Owner <- Calendars
  Threshold = 2
  MaxEdits = 2
  MaxFaults = 0
SPECIFICATION FairSpec
PROPERTY ReauthorisedIsSynced
