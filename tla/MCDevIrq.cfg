SPECIFICATION DevFair
CONSTANTS
  nic = nic
  disk = disk
  Devices <- TwoDevices
  Line <- OwnLines
  MaxDevIrqs = 2
  MaxFrames = 3
INVARIANTS DevTypeOK SleeperReachable MaskedIsOwed
PROPERTIES IrqServed
CHECK_DEADLOCK FALSE
