------------------------------ MODULE Rfs2Names -----------------------------
(***************************************************************************)
(* The name space of rfs2: directory entries, `..`, link counts, open-     *)
(* handle pins, orphans and their reclamation at mount, and rename         *)
(* (fs/rfs2/src/fs.rs).  An operation is one step: Rfs2 shows what the     *)
(* transaction underneath makes of a failed one.  A path is the directory  *)
(* it resolves to and a last name.  Symbolic links are not followed here,  *)
(* so they are files.                                                      *)
(***************************************************************************)
EXTENDS Integers, FiniteSets

CONSTANTS Names,    \* entry names other than `.` and `..`
          MaxIno,   \* inode numbers 1..MaxIno; 1 is the root
          MaxPins,  \* bound on the open handles of one inode
          PinDirs   \* do callers pin directories (the kernel does not)

ASSUME NamesAssumption == MaxIno \in Nat \ {0} /\ MaxPins \in Nat /\ PinDirs \in BOOLEAN

VARIABLES tree,   \* the staged inode map and its counters
          saved,  \* the committed one
          pins    \* open handles per inode, in memory only

vars == <<tree, saved, pins>>

Inos == 1..MaxIno
Root == 1
NoEntry == 0

FreeSlot == [kind |-> "free", nlink |-> 0, ents |-> [n \in Names |-> NoEntry], up |-> 0]
NewDir(parent) == [FreeSlot EXCEPT !.kind = "dir", !.nlink = 2, !.up = parent]
NewFile == [FreeSlot EXCEPT !.kind = "file", !.nlink = 1]

Init == /\ tree = [node |-> [i \in Inos |-> IF i = Root THEN NewDir(Root) ELSE FreeSlot],
                   count |-> 1, next |-> 2]
        /\ saved = tree
        /\ pins = [i \in Inos |-> 0]

Used(t) == {i \in Inos : t.node[i].kind # "free"}
IsDir(t, i) == t.node[i].kind = "dir"
Dirs(t) == {i \in Inos : IsDir(t, i)}
Entry(t, p, n) == t.node[p].ents[n]
EmptyDir(t, i) == \A n \in Names : Entry(t, i, n) = NoEntry

-----------------------------------------------------------------------------
(* Steps the operations share.                                             *)

SetEntry(t, p, n, i) == [t EXCEPT !.node[p].ents[n] = i]
AddLinks(t, p, k) == [t EXCEPT !.node[p].nlink = @ + k]

FreeInode(t, i) == [t EXCEPT !.node[i] = FreeSlot, !.count = @ - 1]

DropLinkIgnoresPins(t, i) ==
    IF t.node[i].nlink = 1 THEN FreeInode(t, i) ELSE AddLinks(t, i, -1)

(* drop_link: free at the last link unless an open handle pins the inode,  *)
(* which then stays as an orphan.                                          *)
DropLink(t, i) ==
    IF t.node[i].nlink = 1 /\ pins[i] = 0 THEN FreeInode(t, i) ELSE AddLinks(t, i, -1)

Stage(t) == tree' = t /\ UNCHANGED <<saved, pins>>

-----------------------------------------------------------------------------
(* Operations, on the directory p the path resolved to.                    *)

(* create, symlink and mkdir: inode numbers are never handed out again.    *)
Create(p, n, dir) ==
    /\ Entry(tree, p, n) = NoEntry
    /\ tree.next <= MaxIno
    /\ LET i == tree.next
           t1 == [tree EXCEPT !.node[i] = (IF dir THEN NewDir(p) ELSE NewFile),
                              !.next = i + 1, !.count = @ + 1]
           t2 == SetEntry(t1, p, n, i)
       IN  Stage(IF dir THEN AddLinks(t2, p, 1) ELSE t2)

Link(q, o, p, n) ==
    /\ Entry(tree, q, o) # NoEntry
    /\ ~IsDir(tree, Entry(tree, q, o))
    /\ Entry(tree, p, n) = NoEntry
    /\ Stage(AddLinks(SetEntry(tree, p, n, Entry(tree, q, o)), Entry(tree, q, o), 1))

Unlink(p, n) ==
    LET i == Entry(tree, p, n) IN
    /\ i # NoEntry
    /\ ~IsDir(tree, i)
    /\ Stage(DropLink(SetEntry(tree, p, n, NoEntry), i))

(* A directory's pins are not consulted.                                   *)
Rmdir(p, n) ==
    LET i == Entry(tree, p, n) IN
    /\ i # NoEntry
    /\ IsDir(tree, i)
    /\ EmptyDir(tree, i)
    /\ Stage(FreeInode(AddLinks(SetEntry(tree, p, n, NoEntry), p, -1), i))

(* The loop check walks `..` from the new parent to the root.              *)
Ancestors(t, i) ==
    LET climb[k \in 0..MaxIno] == IF k = 0 THEN i ELSE t.node[climb[k - 1]].up
    IN  {climb[k] : k \in 0..MaxIno}

MayRenameIntoItself(src, np, tgt) ==
    tgt # NoEntry => /\ IsDir(tree, src) = IsDir(tree, tgt)
                     /\ IsDir(tree, tgt) => EmptyDir(tree, tgt)

(* rename's checks, in the code's order, once source and target differ.    *)
MayRename(src, np, tgt) ==
    /\ tgt # NoEntry => /\ IsDir(tree, src) = IsDir(tree, tgt)
                        /\ IsDir(tree, tgt) => EmptyDir(tree, tgt)
    /\ IsDir(tree, src) => src \notin Ancestors(tree, np)

(* A directory that changes parents has its `..` retargeted.               *)
Retarget(t, src, op, np) ==
    IF op # np /\ IsDir(t, src)
    THEN AddLinks(AddLinks([t EXCEPT !.node[src].up = np], op, -1), np, 1)
    ELSE t

ReplacedKeepsParentLink(t, np, tgt) ==
    IF tgt = NoEntry THEN t
    ELSE IF IsDir(t, tgt) THEN FreeInode(t, tgt)
    ELSE DropLink(t, tgt)

(* The replaced target: an empty directory goes at once, a file loses one  *)
(* link.                                                                   *)
Replaced(t, np, tgt) ==
    IF tgt = NoEntry THEN t
    ELSE IF IsDir(t, tgt) THEN FreeInode(AddLinks(t, np, -1), tgt)
    ELSE DropLink(t, tgt)

Rename(op, on, np, nn) ==
    LET src == Entry(tree, op, on)
        tgt == Entry(tree, np, nn)
        t1 == SetEntry(SetEntry(tree, op, on, NoEntry), np, nn, src)
    IN  /\ src # NoEntry
        /\ tgt # src
        /\ MayRename(src, np, tgt)
        /\ Stage(Replaced(Retarget(t1, src, op, np), np, tgt))

-----------------------------------------------------------------------------
(* Open handles, commits, and the next session.                            *)

Pin(i) == /\ i \in Used(tree)
          /\ PinDirs \/ ~IsDir(tree, i)
          /\ pins[i] < MaxPins
          /\ pins' = [pins EXCEPT ![i] = @ + 1]
          /\ UNCHANGED <<tree, saved>>

UnpinUnregistered(i) ==
    /\ pins' = [pins EXCEPT ![i] = @ - 1]
    /\ tree' \in IF pins[i] = 1 /\ i \in Used(tree) /\ tree.node[i].nlink = 0
                 THEN {FreeInode(tree, i), tree} ELSE {tree}
    /\ UNCHANGED saved

(* The last pin of an orphan frees it; when that fails the orphan stays    *)
(* for the next mount.                                                     *)
Unpin(i) ==
    /\ pins[i] > 0
    /\ pins' = [pins EXCEPT ![i] = @ - 1]
    /\ tree' \in IF pins[i] = 1 /\ i \in Used(tree) /\ tree.node[i].nlink = 0
                 THEN {FreeInode(tree, i), tree} ELSE {tree}
    /\ UNCHANGED saved

Commit == saved' = tree /\ UNCHANGED <<tree, pins>>

Orphans(t) == {i \in Used(t) : t.node[i].nlink = 0}

ReclaimedNothing(t) == t

(* mount's reclaim_orphans: every orphan in one transaction.               *)
Reclaimed(t) == [t EXCEPT !.node = [i \in Inos |-> IF i \in Orphans(t) THEN FreeSlot ELSE t.node[i]],
                          !.count = @ - Cardinality(Orphans(t))]

(* The session ends, by a crash or with handles open, and the volume is    *)
(* mounted again.                                                          *)
Remount == /\ tree' = Reclaimed(saved)
           /\ saved' = tree'
           /\ pins' = [i \in Inos |-> 0]

Next == \/ \E p \in Dirs(tree), n \in Names : \/ \E dir \in BOOLEAN : Create(p, n, dir)
                                              \/ Unlink(p, n)
                                              \/ Rmdir(p, n)
        \/ \E p, q \in Dirs(tree), n, o \in Names : Link(q, o, p, n) \/ Rename(q, o, p, n)
        \/ \E i \in Inos : Pin(i) \/ Unpin(i)
        \/ Commit \/ Remount

Spec == Init /\ [][Next]_vars

-----------------------------------------------------------------------------
(* Properties.                                                             *)

(* Types of the inode map and of the pin table.                            *)
NamesTypeOK ==
    /\ \A i \in Inos : /\ tree.node[i].kind \in {"free", "dir", "file"}
                       /\ tree.node[i].nlink \in Nat
                       /\ tree.node[i].ents \in [Names -> 0..MaxIno]
    /\ tree.next \in 2..MaxIno + 1
    /\ pins \in [Inos -> 0..MaxPins]

EntriesOf(t, i) == {e \in Dirs(t) \X Names : Entry(t, e[1], e[2]) = i}

(* DIR-2 and the link counts of doc 06: an entry names a live inode, a     *)
(* file's nlink is the number of its entries, a directory's is two plus    *)
(* its subdirectories, after any sequence of renames, replacements, links  *)
(* and unlinks; and the superblock's inode count is the number of used     *)
(* slots, orphans included.  It holds of the committed map too.            *)
LinkCountsExact ==
    \A t \in {tree, saved} :
        /\ t.count = Cardinality(Used(t))
        /\ \A p \in Dirs(t), n \in Names : Entry(t, p, n) \in Used(t) \cup {NoEntry}
        /\ \A i \in Used(t) :
             t.node[i].nlink =
                IF IsDir(t, i) THEN 2 + Cardinality({d \in Dirs(t) \ {Root} : t.node[d].up = i})
                ELSE Cardinality(EntriesOf(t, i))

(* The directories form one tree: each but the root has one entry, `..`    *)
(* names the directory that holds it, and climbing `..` ends at the root.  *)
(* rename's loop check relies on it to terminate.                          *)
DirectoriesFormTree ==
    \A d \in Dirs(tree) \ {Root} :
        /\ \E n \in Names : EntriesOf(tree, d) = {<<tree.node[d].up, n>>}
        /\ Root \in Ancestors(tree, d)

(* docs/rfs-v2/06 section 5: an inode is freed only when no link is left   *)
(* and no open handle pins it, so an open file stays readable whatever     *)
(* happens to its names.                                                   *)
PinnedStaysUsed == \A i \in Inos : pins[i] > 0 => i \in Used(tree)

(* A new session starts without orphans: what a crash or a failed unpin    *)
(* left behind is gone once the volume is mounted.                         *)
NoOrphanAfterMount == [][Remount => Orphans(tree') = {}]_vars
=============================================================================
