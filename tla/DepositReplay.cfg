\* Can a deposit that was credited be credited again after a restart?
SPECIFICATION Spec
CONSTANTS
  r1 = r1
  r2 = r2
  r3 = r3
  r4 = r4
  r5 = r5
  a1 = a1
  a2 = a2
  Requests <- ReplayRequests
  Free = free
  LockKeys <- ReplayKeys
  Credits <- MCCredits
  Resolutions <- MCResolutions
  Admins <- MCAdmins
  MAX_DAILY_CREDIT = 2
  MaxCommands = 1
  Rows <- MCRows
  BatchedRows <- MCBatched
  DuelRows <- MCDuels
  Absent = absent
  OpenStatus = "OPEN"
  Scenarios <- ReplayScenarios
  Opening = 2
INVARIANT DepositsNotReplayed
CHECK_DEADLOCK FALSE
