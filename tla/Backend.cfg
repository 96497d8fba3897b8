\* The routes of the backend on its store, three requests at a time.
SPECIFICATION Spec
CONSTANTS
  r1 = r1
  r2 = r2
  r3 = r3
  r4 = r4
  r5 = r5
  a1 = a1
  a2 = a2
  Requests <- MCRequests
  Free = free
  LockKeys <- MCKeys
  Credits <- MCCredits
  Resolutions <- MCResolutions
  Admins <- MCAdmins
  MAX_DAILY_CREDIT = 2
  MaxCommands = 1
  Rows <- MCRows
  BatchedRows <- MCBatched
  DuelRows <- MCDuels
  Absent = absent
  OpenStatus = "OPEN"
  Scenarios <- MCScenarios
  Opening = 2
INVARIANTS
  AppliedOnce
  DailyLimitHeld
  PaidIsDurable
  NothingForgotten
  TwoAdminsAgreed
PROPERTIES
  Answered
CHECK_DEADLOCK FALSE
