CONSTANTS
  MaxTasks = 4
  Priorities <- AllPriorities
SPECIFICATION FairSpec
INVARIANTS TypeOK OneRunning CpuNeverHalts
PROPERTIES DeadIsFinal NoStarvation
