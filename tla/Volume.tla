------------------------------- MODULE Volume -------------------------------
(***************************************************************************)
(* What the copy-on-write volume promises its users, with no blocks and no *)
(* superblocks: the contents seen through the mounted volume, and the set  *)
(* of contents a crash at this moment may bring back.  That set is a       *)
(* singleton except while a commit has been sent to the device and has not *)
(* been acknowledged.                                                      *)
(***************************************************************************)
CONSTANT Contents
VARIABLES now,    \* the staged contents, or the last ones when down
          may,    \* the contents the next mount may find
          up      \* is the volume mounted

volVars == <<now, may, up>>

VolInit == \E c \in Contents : now = c /\ may = {c} /\ up = TRUE

(* An operation changes the staged contents and nothing durable.           *)
Change == up /\ now' \in Contents /\ UNCHANGED <<may, up>>

(* The commit is on its way: from here a crash may keep it or lose it.     *)
TryCommit == up /\ may' = may \cup {now} /\ UNCHANGED <<now, up>>

(* The commit is acknowledged: nothing older can come back.                *)
Committed == up /\ now \in may /\ may' = {now} /\ UNCHANGED <<now, up>>

Fail == up /\ up' = FALSE /\ UNCHANGED <<now, may>>

(* A mount finds one of the contents that may be there, and only that one  *)
(* from then on.                                                           *)
Recover == ~up /\ \E c \in may : now' = c /\ may' = {c} /\ up' = TRUE

VolNext == Change \/ TryCommit \/ Committed \/ Fail \/ Recover

VolSpec == VolInit /\ [][VolNext]_volVars
=============================================================================
