SPECIFICATION MemSpec
SYMMETRY TaskSymmetry
CONSTANTS
  t1 = t1
  t2 = t2
  Tasks <- TwoTasks
  RamFrames = 10
  BarFrames = 1
  ElfPages <- Image
  StackPages <- Stack
  HeapBase = 3
  PagesPerTable = 3
  MaxHeap = 2
  MmapPages <- FreeAndHeap
  DevPages <- Device
  MmapPresent = {TRUE}
  Images = {TRUE, FALSE}
  StorePages <- Image
  MaxStackSlots = 2
INVARIANTS MemTypeOK   HeapMatchesBreak
 
CHECK_DEADLOCK FALSE
