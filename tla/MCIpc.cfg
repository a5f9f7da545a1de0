CONSTANTS
  s1 = s1
  r1 = r1
  Senders <- OneSender
  Receivers <- OneReceiver
  Capacity = 2
  Wrap = 16
  MaxSends = 4
  Kinds <- AllKinds
SPECIFICATION IpcFair
CHECK_DEADLOCK FALSE
INVARIANTS Fifo CapNotDuplicated
 
