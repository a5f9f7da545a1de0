-------------------------------- MODULE MCMem --------------------------------
(* An instance of Mem for TLC.  Page 0 is the image, 1 the stack, 3 and 4 the
   heap, 6 and 7 the device pages; SYS_MMAP is asked for page 2 and for a page of
   the heap. *)
EXTENDS Mem, TLC

CONSTANTS t1, t2

TwoTasks == {t1, t2}
TaskSymmetry == Permutations(TwoTasks)
Image == {0}
Stack == {1}
Device == {6, 7}
FreeAndHeap == {2, 4}
=============================================================================
