--------------------------------- MODULE Mem ---------------------------------
(***************************************************************************)
(* Physical frames and user address spaces: the frame bitmap of            *)
(* kernel/src/pmm.rs, the page tables of kernel/src/vmm.rs, and the calls  *)
(* that move frames between them (SYS_MMAP, SYS_MUNMAP, SYS_BRK,           *)
(* SYS_DEV_MMIO_MAP, SYS_DEV_DMA_ALLOC, exec and the reaping of a task).   *)
(*                                                                         *)
(* A page is a number; TableOf(p) names the lowest-level table that holds  *)
(* its entry.  The PD and PT of an address are allocated together here,    *)
(* and so are the PML4 and PDPT of a task (the frames of top).  All of     *)
(* these calls run with interrupts off, so each is one step.  A panic      *)
(* stops the kernel.                                                       *)
(***************************************************************************)
EXTENDS Integers, FiniteSets, Sequences, SequencesExt

CONSTANTS Tasks,         \* address spaces that may exist at once
          RamFrames,     \* frames the memory map lists as usable: 0..RamFrames-1
          BarFrames,     \* size in frames of the one device's memory BAR
          PagesPerTable, \* 512 in the code
          ElfPages,      \* pages of the PT_LOAD segments of an image
          StackPages,    \* the guard page and the usable pages of a stack
          HeapBase,      \* first page of the heap (HEAP_BASE)
          MaxHeap,       \* bound: pages of heap (STACK_GUARD in the code)
          MmapPages,     \* pages callers pass to SYS_MMAP
          DevPages,      \* pages callers pass to the device calls
          MmapPresent,   \* values callers give bit 0 of the SYS_MMAP flags
          Images,        \* whether the images given to exec are well formed: values it may take
          StorePages,    \* pages the tasks write to
          MaxStackSlots  \* MAX_STACK_SLOTS (15887 in the code)

Pages == ElfPages \cup StackPages \cup MmapPages \cup DevPages
         \cup HeapBase..(HeapBase + MaxHeap - 1)
TableOf(p) == p \div PagesPerTable
Ram == 0..(RamFrames - 1)
Bar == RamFrames..(RamFrames + BarFrames - 1)
NoFrame == -1

ASSUME MemAssumption ==
  /\ RamFrames \in Nat \ {0} /\ BarFrames \in Nat \ {0} /\ PagesPerTable \in Nat \ {0} /\ MaxStackSlots \in Nat
  /\ HeapBase \in Nat /\ MaxHeap \in Nat \ {0} /\ Pages \subseteq Nat
  /\ MmapPages \cap DevPages = {}     \* programs keep them apart: no call checks it
  /\ MmapPresent \subseteq BOOLEAN /\ Images \subseteq BOOLEAN /\ StorePages \subseteq Pages

VARIABLES free,      \* the clear bits of the frame bitmap
          space,     \* task -> its page table, vma_list and brk
          dirty,     \* frames holding what some task wrote
          nextSlot,  \* NEXT_STACK_SLOT
          lost,      \* history: frames taken by an exec that then failed
          orderly,   \* history: every mapping was PRESENT, outside the heap, where nothing was
          panicked   \* "no", or the panic that stopped the kernel

memVars == <<free, space, dirty, nextSlot, lost, orderly, panicked>>

Pte == [frame : {NoFrame} \cup Ram \cup Bar, present : BOOLEAN, nofree : BOOLEAN]
NoPte == [frame |-> NoFrame, present |-> FALSE, nofree |-> FALSE]
TableIds == {TableOf(p) : p \in Pages}

\* The break is counted in half pages above HEAP_BASE, so that it may fall inside a page.
HalfPages == 0..(2 * MaxHeap)
PageTop(brk) == HeapBase + ((brk + 1) \div 2)

NoSpace == [life |-> "none", top |-> {}, tables |-> [i \in TableIds |-> NoFrame],
            pt |-> [p \in Pages |-> NoPte], vmas |-> {}, brk |-> 0]

-----------------------------------------------------------------------------
(* What a call has done so far: the bitmap, the space it works on, and     *)
(* whether it is still going ("ok"), has failed or panicked.               *)

Begin(t) == [free |-> free, sp |-> space[t], dirty |-> dirty, slot |-> nextSlot, out |-> "ok"]

Lowest(S) == CHOOSE f \in S : \A g \in S : f <= g

(* map_page_in over walk_or_create: a missing table is allocated (alloc_table
   panics when it cannot be); the entry is overwritten whatever it held. *)
MapPageIn(m, p, pte) ==
  LET i == TableOf(p) IN
  IF m.sp.tables[i] # NoFrame THEN [m EXCEPT !.sp.pt[p] = pte]
  ELSE IF m.free = {} THEN [m EXCEPT !.out = "out of memory for page table"]
  ELSE [m EXCEPT !.free = @ \ {Lowest(@)},
                 !.sp.tables[i] = Lowest(m.free),
                 !.sp.pt[p] = pte]

(* alloc_frame, then map_page_in; zero says whether the caller clears the frame. *)
AllocAndMap(m, p, present, zero) ==
  IF m.out # "ok" THEN m
  ELSE IF m.free = {} THEN [m EXCEPT !.out = "failed"]
  ELSE LET f == Lowest(m.free) IN
       MapPageIn([m EXCEPT !.free = @ \ {f}, !.dirty = IF zero THEN @ \ {f} ELSE @],
                 p, [frame |-> f, present |-> present, nofree |-> FALSE])

(* free_frame asserts that the frame is in use. *)
FreeFrame(m, f) ==
  IF f \in m.free THEN [m EXCEPT !.out = "double free"]
  ELSE [m EXCEPT !.free = @ \cup {f}]

(* Mutant: the entry is not cleared. *)
UnmapLeavesEntry(m, p) ==
  IF m.out # "ok" \/ ~m.sp.pt[p].present THEN m
  ELSE FreeFrame(m, m.sp.pt[p].frame)

(* unmap_page_in, and free_frame on the frame it returns. *)
UnmapAndFree(m, p) ==
  IF m.out # "ok" \/ ~m.sp.pt[p].present THEN m
  ELSE FreeFrame([m EXCEPT !.sp.pt[p] = NoPte], m.sp.pt[p].frame)

(* The frames an address space holds: its tables, and the present leaves that
   free_user_page_table returns to the allocator. *)
Leaves(sp) == {p \in Pages : sp.pt[p].present /\ ~sp.pt[p].nofree}
UsedTables(sp) == {i \in TableIds : sp.tables[i] # NoFrame}
Held(sp) == {sp.pt[p].frame : p \in Leaves(sp)} \cup {sp.tables[i] : i \in UsedTables(sp)}
            \cup sp.top
Holdings(sp) == Cardinality(Leaves(sp)) + Cardinality(UsedTables(sp)) + Cardinality(sp.top)

(* What becomes of the kernel when the call by or for task t ends as m. *)
Panics(m) == m.out \notin {"ok", "failed"}
Finish(t, m, sp) ==
  IF Panics(m)
  THEN panicked' = m.out /\ UNCHANGED <<free, space, dirty, nextSlot, lost>>
  ELSE /\ free' = m.free /\ dirty' = m.dirty /\ nextSlot' = m.slot
       /\ space' = [space EXCEPT ![t] = sp]
       /\ UNCHANGED <<lost, panicked>>

Running(t) == panicked = "no" /\ space[t].life = "live"
HeapPages == HeapBase..(HeapBase + MaxHeap - 1)
Note(t, pages, present) ==
  orderly' = (/\ orderly /\ present
              /\ \A p \in pages : p \notin HeapPages /\ ~space[t].pt[p].present)

-----------------------------------------------------------------------------
(* exec: create_user_page_table, the segments, the stack, the task.        *)

CreateUserPageTable(m) ==
  IF Cardinality(m.free) < 2 THEN [m EXCEPT !.out = "out of memory for page table"]
  ELSE LET f == Lowest(m.free)
           g == Lowest(m.free \ {f})
       IN  [m EXCEPT !.free = @ \ {f, g}, !.sp.top = {f, g}]

Ascending(S) == SetToSortSeq(S, <)

(* Mutant: the frames are not cleared. *)
LoadStale(m, pages) ==
  FoldLeft(LAMBDA n, p : AllocAndMap(n, p, TRUE, FALSE), m, Ascending(pages))

LoadZeroed(m, pages) ==
  FoldLeft(LAMBDA n, p : AllocAndMap(n, p, TRUE, TRUE), m, Ascending(pages))

(* Mutant: the limit is tested with the wrong comparison. *)
AllocUserStackOneMore(m) ==
  IF m.slot > MaxStackSlots THEN [m EXCEPT !.out = "failed"]
  ELSE LoadZeroed([m EXCEPT !.slot = @ + 1], StackPages)

(* alloc_user_stack_into takes the next stack slot, which is never given back;
   past the last slot it fails.  (The counter is not followed beyond it.) *)
AllocUserStack(m) ==
  IF m.slot = MaxStackSlots THEN [m EXCEPT !.out = "failed"]
  ELSE LoadZeroed([m EXCEPT !.slot = @ + 1], StackPages)

(* A program header that is rejected ends the loading after the pages of the
   segments before it were mapped. *)
LoadImage(m, wellFormed) ==
  LET created == CreateUserPageTable(m)
      loaded == IF Panics(created) THEN created ELSE LoadZeroed(created, ElfPages)
  IN  IF loaded.out # "ok" THEN loaded
      ELSE IF wellFormed THEN AllocUserStack(loaded)
      ELSE [loaded EXCEPT !.out = "failed"]

(* A failed exec returns without freeing the page table it was building. *)
Exec(t, wellFormed) ==
  /\ panicked = "no" /\ space[t].life = "none"
  /\ LET m == LoadImage(Begin(t), wellFormed) IN
     IF m.out = "failed"
     THEN /\ free' = m.free /\ dirty' = m.dirty /\ nextSlot' = m.slot
          /\ lost' = lost \cup Held(m.sp)
          /\ UNCHANGED <<space, panicked>>
     ELSE Finish(t, m, [m.sp EXCEPT !.life = "live"])
  /\ UNCHANGED orderly

-----------------------------------------------------------------------------
(* The memory calls of a running task.                                     *)

(* The page must not be in the task's vma_list; nothing else is consulted. *)
SysMmap(t, p, present) ==
  /\ Running(t) /\ Note(t, {p}, present) /\ p \notin space[t].vmas
  /\ LET m == AllocAndMap(Begin(t), p, present, FALSE) IN
     Finish(t, m, IF m.out = "failed" THEN m.sp ELSE [m.sp EXCEPT !.vmas = @ \cup {p}])

SysMunmap(t, p) ==
  /\ Running(t) /\ p \in space[t].vmas
  /\ LET m == UnmapAndFree(Begin(t), p) IN Finish(t, m, [m.sp EXCEPT !.vmas = @ \ {p}])
  /\ UNCHANGED orderly

(* Mutant: the requested break is recorded though memory ran out. *)
SysBrkAsAsked(t, brk) ==
  /\ Running(t) /\ UNCHANGED orderly
  /\ LET old == PageTop(space[t].brk)
         new == PageTop(brk)
         shrunk == FoldLeft(UnmapAndFree, Begin(t), Ascending(new..(old - 1)))
         grown == FoldLeft(LAMBDA n, p : AllocAndMap(n, p, TRUE, FALSE),
                           Begin(t), Ascending(old..(new - 1)))
         m == IF brk <= space[t].brk THEN shrunk ELSE grown
     IN  Finish(t, m, [m.sp EXCEPT !.brk = brk])

(* Shrinking unmaps the whole pages above the new break, growing maps the pages
   it reaches; when memory runs out the break is the first page not mapped. *)
SysBrk(t, brk) ==
  /\ Running(t) /\ UNCHANGED orderly
  /\ LET old == PageTop(space[t].brk)
         new == PageTop(brk)
         shrunk == FoldLeft(UnmapAndFree, Begin(t), Ascending(new..(old - 1)))
         grown == FoldLeft(LAMBDA n, p : AllocAndMap(n, p, TRUE, FALSE),
                           Begin(t), Ascending(old..(new - 1)))
         m == IF brk <= space[t].brk THEN shrunk ELSE grown
         mapped == Cardinality({p \in old..(new - 1) : m.sp.pt[p] # space[t].pt[p]})
     IN  Finish(t, m, [m.sp EXCEPT !.brk = IF m.out = "failed" THEN 2 * (old - HeapBase + mapped)
                                           ELSE brk])

(* alloc_frames_contiguous takes the lowest run; the buffer is cleared. *)
Runs(n) == {s \in free : s..(s + n - 1) \subseteq free}
SysDevDmaAlloc(t, p, n) ==
  /\ Running(t) /\ p..(p + n - 1) \subseteq DevPages
  /\ Note(t, p..(p + n - 1), TRUE)
  /\ Runs(n) # {}
  /\ LET s == Lowest(Runs(n))
         buf == s..(s + n - 1)
         begun == [Begin(t) EXCEPT !.free = @ \ buf, !.dirty = @ \ buf]
         Put(m, i) == IF m.out # "ok" THEN m
                      ELSE MapPageIn(m, p + i, [frame |-> s + i, present |-> TRUE, nofree |-> FALSE])
         m == FoldLeft(Put, begun, Ascending(0..(n - 1)))
     IN  Finish(t, m, m.sp)

(* The frames of the BAR are marked MMIO_NOFREE. *)
SysDevMmioMap(t, p) ==
  /\ Running(t) /\ p..(p + BarFrames - 1) \subseteq DevPages
  /\ Note(t, p..(p + BarFrames - 1), TRUE)
  /\ LET Put(m, i) == IF m.out # "ok" THEN m
                      ELSE MapPageIn(m, p + i, [frame |-> RamFrames + i, present |-> TRUE,
                                                nofree |-> TRUE])
         m == FoldLeft(Put, Begin(t), Ascending(0..(BarFrames - 1)))
     IN  Finish(t, m, m.sp)

(* The task writes to a page it has mapped. *)
Store(t, p) ==
  /\ Running(t) /\ space[t].pt[p].present
  /\ dirty' = dirty \cup ({space[t].pt[p].frame} \cap Ram)
  /\ UNCHANGED <<free, space, nextSlot, lost, orderly, panicked>>

-----------------------------------------------------------------------------
(* The end of a task.                                                      *)

Dies(t) ==
  /\ Running(t)
  /\ space' = [space EXCEPT ![t].life = "dead"]
  /\ UNCHANGED <<free, dirty, nextSlot, lost, orderly, panicked>>

(* Mutant: the frames of the tables are forgotten. *)
FreeLeavesOnly(m) ==
  [m EXCEPT !.free = @ \cup {m.sp.pt[p].frame : p \in Leaves(m.sp)}]

(* sweep_dead, through free_user_page_table. *)
FreeUserPageTable(m) ==
  IF Held(m.sp) \cap m.free # {} \/ Cardinality(Held(m.sp)) # Holdings(m.sp)
  THEN [m EXCEPT !.out = "double free"]
  ELSE [m EXCEPT !.free = @ \cup Held(m.sp)]

Sweep(t) ==
  /\ panicked = "no" /\ space[t].life = "dead"
  /\ Finish(t, FreeUserPageTable(Begin(t)), NoSpace)
  /\ UNCHANGED orderly

MemInit ==
  /\ free = Ram
  /\ space = [t \in Tasks |-> NoSpace]
  /\ dirty = {} /\ nextSlot = 0 /\ lost = {} /\ orderly = TRUE /\ panicked = "no"

MemNext ==
  \E t \in Tasks :
    \/ \E wellFormed \in Images : Exec(t, wellFormed)
    \/ \E p \in MmapPages, present \in MmapPresent : SysMmap(t, p, present)
    \/ \E p \in MmapPages : SysMunmap(t, p)
    \/ \E brk \in HalfPages : SysBrk(t, brk)
    \/ \E p \in DevPages, n \in 1..2 : SysDevDmaAlloc(t, p, n)
    \/ \E p \in DevPages : SysDevMmioMap(t, p)
    \/ \E p \in StorePages : Store(t, p)
    \/ Dies(t)
    \/ Sweep(t)

MemSpec == MemInit /\ [][MemNext]_memVars

-----------------------------------------------------------------------------
(* Properties.                                                             *)

(* The types of the bitmap, the address spaces and the kernel's state. *)
MemTypeOK ==
  /\ free \subseteq Ram \cup Bar /\ dirty \subseteq Ram /\ lost \subseteq Ram \cup Bar
  /\ nextSlot \in 0..MaxStackSlots /\ orderly \in BOOLEAN
  /\ panicked \in {"no", "double free", "out of memory for page table"}
  /\ space \in [Tasks -> [life : {"none", "live", "dead"}, top : SUBSET (Ram \cup Bar),
                          tables : [TableIds -> {NoFrame} \cup Ram \cup Bar],
                          pt : [Pages -> Pte], vmas : SUBSET MmapPages, brk : HalfPages]]

(* A frame has one holder: the free ones are mapped nowhere, no two address
   spaces share one, none serves twice in one of them, and none that a failed
   exec dropped is in use.  Whatever the callers pass: SYS_MMAP over a heap
   page, SYS_BRK over a mapped one, a mapping without PRESENT.  So free_frame's
   assertion against double frees never fires. *)
OneHolder ==
  /\ \A t \in Tasks :
       /\ Held(space[t]) \cap (free \cup lost) = {}
       /\ Cardinality(Held(space[t])) = Holdings(space[t])
       /\ \A u \in Tasks \ {t} : Held(space[t]) \cap Held(space[u]) = {}
  /\ free \cap lost = {}
  /\ panicked # "double free"

(* No frame of a device is handed out as memory: "free_user_page_table must NOT
   return these frames to the PMM".  And when the calls keep to separate regions
   no frame goes missing: each is free, held by a task, or was dropped by an exec
   that failed.  (A mapping laid over another loses the frame below it, and of a
   page mapped by SYS_MMAP and again by SYS_DEV_MMIO_MAP, which the assumption on
   the pages excludes, SYS_MUNMAP would free the device's frame.) *)
FramesAccounted ==
  /\ free \cap Bar = {}
  /\ orderly => Ram = free \cup lost \cup UNION {Held(space[t]) : t \in Tasks}

(* The break and the page table agree: exactly the heap pages below the rounded
   break are mapped, also after a shrink inside a page and after a growth that
   ran out of memory. *)
HeapMatchesBreak ==
  orderly => \A t \in Tasks : \A p \in HeapPages :
               space[t].pt[p].present <=> p < PageTop(space[t].brk)

(* What a task is given by exec or by SYS_DEV_DMA_ALLOC was cleared: "no stale
   RAM contents leak to the device or a later owner". *)
FreshZeroed ==
  [][\A t \in Tasks : \A p \in ElfPages \cup StackPages \cup DevPages :
       space'[t].pt[p] # space[t].pt[p] => space'[t].pt[p].frame \notin dirty']_memVars
=============================================================================
