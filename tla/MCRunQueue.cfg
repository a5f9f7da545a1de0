CONSTANTS
  MaxTasks = 4
  Priorities <- NormalAndHigh
SPECIFICATION QSpec
INVARIANT ContextsIntact
PROPERTY ImplementsCore
