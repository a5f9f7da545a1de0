SPECIFICATION Spec
CONSTANTS
    Names = {a, b}
    MaxIno = 4
    MaxPins = 1
    PinDirs = FALSE
SYMMETRY NameSymmetry
INVARIANT NamesTypeOK
 
INVARIANT DirectoriesFormTree
INVARIANT PinnedStaysUsed
 
