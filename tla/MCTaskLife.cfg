CONSTANTS
  MaxTasks = 4
  Priorities <- NormalOnly
  MaxWaiters = 3
  MaxSleepers = 3
  MaxSleep = 2
  ExitCodes <- OneCode
SPECIFICATION LifeSpec
INVARIANTS LifeTypeOK StatusRetained NobodyForgotten
PROPERTIES WaitTruth 
