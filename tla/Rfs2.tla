-------------------------------- MODULE Rfs2 --------------------------------
(***************************************************************************)
(* The copy-on-write transaction of rfs2: allocation, per-operation        *)
(* rollback, the two-slot superblock commit, crashes and the mount that    *)
(* recovers (fs/rfs2/src/fs.rs, space.rs, superblock.rs).                  *)
(*                                                                         *)
(* The tree is kept at two levels: one inode-map leaf whose slots point to *)
(* one data block per file.  Taller maps repeat the same step -- retire    *)
(* the old node, write a fresh one -- once more per level.                 *)
(*                                                                         *)
(* A block pointer carries the block, the generation and the tag; the tag  *)
(* stands for the contents, so that a read through a pointer succeeds      *)
(* exactly when the block still holds what the pointer was made for.       *)
(* That is what the authenticating transform guarantees; the identity      *)
(* transform detects nothing and would return the wrong bytes instead.     *)
(***************************************************************************)
EXTENDS Integers, FiniteSets, FiniteSetsExt

CONSTANTS Files,      \* inodes, each with one logical block
          Values,     \* contents of a data block, positive integers
          NBlocks,    \* blocks of the dynamic region
          GenLimit,   \* GEN_LIMIT
          OpFaults,   \* which block writes of an operation may fail
          LateFaults, \* may they also fail when others are staged already
          IoFaults,   \* may the block device refuse a write or a flush
          MaxCrashes, \* bound on power failures
          Batch       \* a transaction with this many blocks takes no more operations

ASSUME Rfs2Assumption == /\ Values \subseteq Nat \ {0}
                         /\ NBlocks \in Nat \ {0}
                         /\ GenLimit \in Nat \ {0}
                         /\ OpFaults \subseteq {"data", "leaf"}
                         /\ LateFaults \in BOOLEAN /\ IoFaults \in BOOLEAN
                         /\ {Batch, MaxCrashes} \subseteq Nat

VARIABLES disk,     \* durable blocks
          slots,    \* durable superblock slots
          pend,     \* block writes in the device cache
          slotPend, \* superblock writes in the device cache
          m,        \* the mounted volume's memory
          pc,       \* where commit() is, or "down"
          allowed,  \* history: the contents a crash may bring back
          crashes   \* power failures so far

vars == <<disk, slots, pend, slotPend, m, pc, allowed, crashes>>

Blocks == 1..NBlocks
Slots == {"A", "B"}

NullPtr == [block |-> 0, gen |-> 0, tag |-> [val |-> 0]]
Empty == [map |-> [f \in Files |-> NullPtr]]
Blank == [gen |-> 0, body |-> [val |-> 0]]
Invalid == [gen |-> 0, root |-> [block |-> 0, gen |-> 0, tag |-> Empty], count |-> 0]

Over(f, g) == [x \in DOMAIN f |-> IF x \in DOMAIN g THEN g[x] ELSE f[x]]
With(g, x, v) == [y \in DOMAIN g \cup {x} |-> IF y = x THEN v ELSE g[y]]
Nothing == [x \in {} |-> Blank]

-----------------------------------------------------------------------------
(* What a pointer leads to.                                                *)

(* A read through ptr finds what the pointer was made for.                 *)
Reads(d, ptr) == d[ptr.block] = [gen |-> ptr.gen, body |-> ptr.tag]

Children(root) == {root.tag.map[f] : f \in {g \in Files : root.tag.map[g].block # 0}}

(* mark_tree: the blocks of a tree, and whether all of it can be read.     *)
Marked(root) == {root.block} \cup {p.block : p \in Children(root)}
TreeReads(d, root) == Reads(d, root) /\ \A p \in Children(root) : Reads(d, p)

(* The files' contents, as a reader of that tree sees them; 0 is a hole.   *)
View(root) == [f \in Files |-> root.tag.map[f].tag.val]

-----------------------------------------------------------------------------
(* mkfs: an empty leaf, generation 1 in slot A, slot B blank; then mount.  *)
FirstRoot == [block |-> 1, gen |-> 1, tag |-> Empty]
FirstSb == [gen |-> 1, root |-> FirstRoot, count |-> 1]

(* The memory of a volume whose current superblock is sb, in slot s.       *)
Mounted(sb, s, live, prev) ==
    [sb |-> sb, slot |-> s, cur |-> live, prev |-> prev, staged |-> sb.root,
     dirty |-> FALSE, fresh |-> {}, dropped |-> {}, retired |-> {}, cursor |-> 0]

Init == /\ disk = [[b \in Blocks |-> Blank] EXCEPT ![1] = [gen |-> 1, body |-> Empty]]
        /\ slots = [A |-> FirstSb, B |-> Invalid]
        /\ pend = Nothing
        /\ slotPend = Nothing
        /\ m = Mounted(FirstSb, "A", {1}, {})
        /\ pc = "idle"
        /\ allowed = {View(FirstRoot)}
        /\ crashes = 0

-----------------------------------------------------------------------------
(* The steps an operation is made of, on [m, pend, ptr, err].              *)

Free(mem) == Blocks \ (mem.cur \cup mem.prev \cup mem.fresh)

(* alloc_block: next fit from the cursor, and the cursor behind it.        *)
NthFrom(cursor, i) == ((cursor + i) % NBlocks) + 1
NextFit(mem) == Min({i \in 0..NBlocks - 1 : NthFrom(mem.cursor, i) \in Free(mem)})

AllocBlock(mem) ==
    LET i == NextFit(mem)
    IN  [mem EXCEPT !.cursor = (mem.cursor + i + 1) % NBlocks,
                    !.fresh = @ \cup {NthFrom(mem.cursor, i)}]

TxnGen(mem) == mem.sb.gen + 1

(* write_fresh: a refused write keeps the block allocated.                 *)
WriteFresh(t, body, refused) ==
    IF t.err \/ Free(t.m) = {} THEN [t EXCEPT !.err = TRUE]
    ELSE LET mem == AllocBlock(t.m)
             b == NthFrom(t.m.cursor, NextFit(t.m))
             g == TxnGen(t.m)
         IN  IF refused THEN [t EXCEPT !.m = mem, !.err = TRUE]
             ELSE [m |-> [mem EXCEPT !.dirty = TRUE],
                   pend |-> With(t.pend, b, [gen |-> g, body |-> body]),
                   ptr |-> [block |-> b, gen |-> g, tag |-> body],
                   err |-> FALSE]

RetireIgnoresFresh(t, ptr) ==
    IF t.err \/ ptr.block = 0 THEN t
    ELSE [t EXCEPT !.m.retired = @ \cup {ptr.block}]

Retire(t, ptr) ==
    IF t.err \/ ptr.block = 0 THEN t
    ELSE IF ptr.block \in t.m.fresh THEN [t EXCEPT !.m.dropped = @ \cup {ptr.block}]
    ELSE [t EXCEPT !.m.retired = @ \cup {ptr.block}]

(* read_ptr of what the staged tree points to.                             *)
ReadPtr(t, ptr) == [t EXCEPT !.err = @ \/ ~Reads(Over(disk, t.pend), ptr)]

(* imap_set: retire the leaf, write its copy with file f's slot replaced.  *)
ImapSet(t, f, ptr, refused) ==
    LET old == t.m.staged
        t1 == Retire(ReadPtr(t, old), old)
        t2 == WriteFresh(t1, [map |-> [old.tag.map EXCEPT ![f] = ptr]], refused)
    IN  IF t2.err THEN t2 ELSE [t2 EXCEPT !.m.staged = t2.ptr]

BeginOp == [m |-> m, pend |-> pend, ptr |-> NullPtr, err |-> FALSE]

(* fail_op: the snapshot of begin_op comes back, the operation's own       *)
(* blocks stay allocated and count as dropped.                             *)
FailOp(mem) ==
    [mem EXCEPT !.staged = m.staged, !.dirty = m.dirty, !.retired = m.retired,
                !.dropped = @ \cup (mem.fresh \ m.fresh)]

EndOp(t) == /\ m' = (IF t.err THEN FailOp(t.m) ELSE t.m)
            /\ pend' = t.pend
            /\ UNCHANGED <<disk, slots, slotPend, pc, allowed, crashes>>

(* check_rw, and what the caller's habits allow: the kernel commits after  *)
(* every operation, other users of the library batch them.                 *)
MayStart(fault) ==
    /\ pc = "idle"
    /\ m.sb.gen < GenLimit
    /\ m.dirty \/ fault # "none" => Cardinality(m.fresh) < Batch
    /\ m.dirty /\ fault # "none" => LateFaults

-----------------------------------------------------------------------------
(* Operations.                                                             *)

(* write_at of the file's block: data first, then the leaf that points to  *)
(* it.                                                                     *)
WriteAt(f, v, fault) ==
    /\ MayStart(fault)
    /\ LET old == m.staged.tag.map[f]
           t1 == WriteFresh(ReadPtr(BeginOp, m.staged), [val |-> v], fault = "data")
       IN  EndOp(ImapSet(Retire(t1, old), f, t1.ptr, fault = "leaf"))

(* truncate to nothing; freeing an inode does the same to the tree.        *)
Truncate(f, fault) ==
    /\ MayStart(fault)
    /\ fault # "data"
    /\ LET old == m.staged.tag.map[f]
           t1 == Retire(ReadPtr(BeginOp, m.staged), old)
       IN  EndOp(ImapSet(t1, f, NullPtr, fault = "leaf"))

-----------------------------------------------------------------------------
(* commit(): a barrier, the superblock, a barrier, then the rotation.      *)

CommitFlushSkipsBarrier ==
    /\ pc = "idle"
    /\ m.dirty
    /\ m.sb.gen < GenLimit
    /\ pc' = "flushed"
    /\ UNCHANGED <<disk, slots, pend, slotPend, m, allowed, crashes>>

CommitFlush ==
    /\ pc = "idle"
    /\ m.dirty
    /\ m.sb.gen < GenLimit
    /\ disk' = Over(disk, pend)
    /\ slots' = Over(slots, slotPend)
    /\ pend' = Nothing
    /\ slotPend' = Nothing
    /\ pc' = "flushed"
    /\ UNCHANGED <<m, allowed, crashes>>

LiveNewKeepsDropped(mem) == (mem.cur \ mem.retired) \cup mem.fresh

LiveNew(mem) == (mem.cur \ mem.retired) \cup (mem.fresh \ mem.dropped)

NewSb(mem) == [gen |-> TxnGen(mem), root |-> mem.staged,
               count |-> Cardinality(LiveNew(mem))]

(* The slot that is not current.                                           *)
Target(mem) == IF mem.slot = "A" THEN "B" ELSE "A"

CommitSlot ==
    /\ pc = "flushed"
    /\ slotPend' = With(slotPend, Target(m), NewSb(m))
    /\ pc' = "written"
    /\ allowed' = allowed \cup {View(m.staged)}
    /\ UNCHANGED <<disk, slots, pend, m, crashes>>

(* write_slot fails, with or without having torn the slot.                 *)
CommitSlotFails ==
    /\ pc = "flushed"
    /\ IoFaults
    /\ slots' \in {slots, [slots EXCEPT ![Target(m)] = Invalid]}
    /\ pc' = "idle"
    /\ UNCHANGED <<disk, pend, slotPend, m, allowed, crashes>>

RotateDropsFallback(mem) ==
    [Mounted(NewSb(mem), Target(mem), LiveNew(mem), {})
        EXCEPT !.staged = mem.staged, !.cursor = mem.cursor]

(* The older of the two trees is abandoned.                                *)
Rotate(mem) ==
    [Mounted(NewSb(mem), Target(mem), LiveNew(mem), mem.cur)
        EXCEPT !.staged = mem.staged, !.cursor = mem.cursor]

CommitFlip ==
    /\ pc = "written"
    /\ disk' = Over(disk, pend)
    /\ slots' = Over(slots, slotPend)
    /\ pend' = Nothing
    /\ slotPend' = Nothing
    /\ m' = Rotate(m)
    /\ pc' = "idle"
    /\ allowed' = {View(m.staged)}
    /\ UNCHANGED crashes

(* The second barrier fails: the superblock stays in the cache and the     *)
(* memory stays at the old generation.                                     *)
CommitFlipFails ==
    /\ pc = "written"
    /\ IoFaults
    /\ pc' = "idle"
    /\ UNCHANGED <<disk, slots, pend, slotPend, m, allowed, crashes>>

-----------------------------------------------------------------------------
(* The device loses power: each cached write is on the medium, lost, or    *)
(* torn, whatever the order it was issued in.                              *)
Crash ==
    /\ pc \in {"idle", "flushed", "written"}
    /\ crashes < MaxCrashes
    /\ \E kept \in SUBSET DOMAIN pend : disk' = Over(disk, [b \in kept |-> pend[b]])
    /\ \E fate \in [DOMAIN slotPend -> {"kept", "lost", "torn"}] :
         slots' = [s \in Slots |->
                     IF s \notin DOMAIN slotPend \/ fate[s] = "lost" THEN slots[s]
                     ELSE IF fate[s] = "kept" THEN slotPend[s] ELSE Invalid]
    /\ pend' = Nothing
    /\ slotPend' = Nothing
    /\ pc' = "down"
    /\ crashes' = crashes + 1
    /\ UNCHANGED <<m, allowed>>

(* mount: the valid slot with the higher generation is current, both trees *)
(* are marked, and a block that does not authenticate aborts the mount.    *)
Valid(s) == slots[s].gen > 0
Other(s) == IF s = "A" THEN "B" ELSE "A"
NewestIsFirst == {s \in {"A"} : Valid(s)}

Newest == {s \in Slots : Valid(s) /\ (Valid(Other(s)) => slots[s].gen > slots[Other(s)].gen)}

PrevRoots(s) == {slots[o].root : o \in {p \in {Other(s)} : Valid(p)}}

MountOk(s) == /\ TreeReads(disk, slots[s].root)
              /\ \A r \in PrevRoots(s) : TreeReads(disk, r)

Mount ==
    /\ pc = "down"
    /\ \E s \in Newest :
         /\ MountOk(s)
         /\ m' = Mounted(slots[s], s, Marked(slots[s].root),
                         UNION {Marked(r) : r \in PrevRoots(s)})
         /\ allowed' = {View(slots[s].root)}
    /\ pc' = "idle"
    /\ UNCHANGED <<disk, slots, pend, slotPend, crashes>>

Faults == {"none"} \cup OpFaults

Next == \/ \E f \in Files, v \in Values, fault \in Faults : WriteAt(f, v, fault)
        \/ \E f \in Files, fault \in Faults : Truncate(f, fault)
        \/ CommitFlush \/ CommitSlot \/ CommitSlotFails \/ CommitFlip \/ CommitFlipFails
        \/ Crash \/ Mount

Spec == Init /\ [][Next]_vars

-----------------------------------------------------------------------------
(* Properties.                                                             *)

(* Types of the device and of the transaction's bookkeeping, and that a    *)
(* superseded block belongs to the set it was superseded from.             *)
Rfs2TypeOK ==
    /\ DOMAIN disk = Blocks /\ DOMAIN slots = Slots
    /\ DOMAIN pend \subseteq Blocks /\ DOMAIN slotPend \subseteq Slots
    /\ m.slot \in Slots /\ m.dirty \in BOOLEAN /\ m.sb.gen \in 1..GenLimit
    /\ m.cur \cup m.prev \cup m.fresh \subseteq Blocks
    /\ m.dropped \subseteq m.fresh /\ m.retired \subseteq m.cur
    /\ pc \in {"idle", "flushed", "written", "down"} /\ crashes \in 0..MaxCrashes

(* The trees a crash can still fall back on: those of the valid slots on   *)
(* the medium and of a superblock on its way there.                        *)
Roots == {slots[s].root : s \in {t \in Slots : Valid(t)}}
            \cup {slotPend[s].root : s \in DOMAIN slotPend}

(* COW-1 and SPACE-3: whatever the order of operations, failed commits and *)
(* recoveries, no block of a tree that a valid superblock leads to is ever *)
(* written again (write_fresh, alloc_block).                               *)
LiveNeverOverwritten ==
    [][\A b \in DOMAIN pend' : (b \notin DOMAIN pend \/ pend'[b] # pend[b])
                                  => \A r \in Roots : b \notin Marked(r)]_vars

(* CONSIST-1, the half about mounting: after a crash at any point there is *)
(* a current superblock and both trees authenticate, so mount succeeds.    *)
AlwaysMountable == pc = "down" => \E s \in Newest : MountOk(s)

(* CONSIST-1, the other half: operations are all-or-nothing, and a crash   *)
(* brings back the last acknowledged commit or one that was in flight,     *)
(* never a blend of the two.                                               *)
Promised == INSTANCE Volume WITH Contents <- [Files -> Values \cup {0}],
                                 now <- View(m.staged), may <- allowed,
                                 up <- (pc # "down")
ImplementsVolume == Promised!VolSpec

(* SPACE-4 and SPACE-5 between mounts: the live sets that commit keeps up  *)
(* to date are what mark_tree would find, and the recorded block count     *)
(* agrees with it.                                                         *)
LiveSetsExact ==
    pc = "idle" => /\ m.cur = Marked(m.sb.root)
                   /\ m.sb.count = Cardinality(m.cur)
                   /\ Valid(Other(m.slot)) /\ slots[Other(m.slot)].gen < m.sb.gen
                         => m.prev = Marked(slots[Other(m.slot)].root)

=============================================================================
