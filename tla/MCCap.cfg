CONSTANTS
  Tasks <- TwoTasks
  MaxCaps = 3
  MaxSlots = 2
  MaxEndpoints = 2
  MaxGen = 2
  Masks <- TwoMasks
SPECIFICATION CapSpec
CHECK_DEADLOCK FALSE
INVARIANTS CapTypeOK OnePlace RightsAttenuate  GrantsRecorded
 
