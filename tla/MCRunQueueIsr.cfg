CONSTANTS
  MaxTasks = 4
  Priorities <- NormalOnly
SPECIFICATION InterruptedSpec
INVARIANT ContextsIntact
