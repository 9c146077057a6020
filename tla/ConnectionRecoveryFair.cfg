SPECIFICATION FairSpec
CONSTANTS
  hmip = hmip
  url = url
  t1 = t1
  t2 = t2
  JsonUrl = url
  Interface <- OneInterface
  Trippable <- OneInterface
  Task <- OneTask
  MaxAttempts = 2
  MaxConcurrent = 2
  MaxBeats = 2
PROPERTIES ClientsReconnect RecoveriesEnd
CHECK_DEADLOCK FALSE
