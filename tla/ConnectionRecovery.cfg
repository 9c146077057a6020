SPECIFICATION Spec
CONSTANTS
  hmip = hmip
  url = url
  t1 = t1
  t2 = t2
  JsonUrl = url
  Interface <- OneInterface
  Trippable <- WithUrl
  Task <- TwoTasks
  MaxAttempts = 2
  MaxConcurrent = 2
  MaxBeats = 2
SYMMETRY Symm
INVARIANTS ActiveIsRecovering HeartbeatWhileFailed NeverAbandoned
PROPERTIES ShutdownStartsNothing UsesClients
CHECK_DEADLOCK FALSE
