CONSTANTS
  s1 = s1
  r1 = r1
  Senders <- OneSender
  Receivers <- OneReceiver
  Capacity = 2
  Wrap = 16
  MaxSends = 6
  Kinds <- PlainKinds
SPECIFICATION IpcSpec
CHECK_DEADLOCK FALSE
INVARIANT NobodyStuck
