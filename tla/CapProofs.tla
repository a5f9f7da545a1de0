------------------------------ MODULE CapProofs ------------------------------
(***************************************************************************)
(* Proofs about Cap, for any number of tasks, slots, capabilities and      *)
(* reuses of a slot.                                                       *)
(*                                                                         *)
(* Whatever a call does to the tables comes down to two effects.  Either   *)
(* no slot gains a capability (StepKeeps), or exactly one vacant slot does *)
(* and takes its next generation (StepPuts).  The invariant is shown to    *)
(* survive each effect once, and each call to have one of them.            *)
(***************************************************************************)
EXTENDS Cap, TLAPS

Slot == [gen : -1..(MaxGen - 1), cap : Capability]
Table == [Slots -> Slot]
Lineage == [from : 0..MaxCaps, how : {"none", "root", "grant", "inherit"}, rights : SUBSET Rights]

Types ==
  /\ tables \in [Tasks -> Table]
  /\ life \in [Tasks -> {"unborn", "live", "dead", "gone"}]
  /\ nextCap \in 1..(MaxCaps + 1)
  /\ endpoints \in 1..MaxEndpoints /\ name \in 0..MaxEndpoints
  /\ pending \in Capability
  /\ lineage \in [CapIds -> Lineage]

(* Every identity in use has been allocated.                               *)
IdsAllocated ==
  /\ \A v \in Tasks, i \in Slots :
       tables[v][i].cap # NoCap => tables[v][i].cap.id \in 1..(nextCap - 1)
  /\ pending # NoCap => pending.id \in 1..(nextCap - 1)

(* A handle that was given out is not ahead of its slot; at the slot's     *)
(* generation it names what the slot holds.  A task that is gone does not  *)
(* come back.                                                              *)
IssuedOK ==
  \A e \in issued :
    /\ e[1] \in Tasks /\ e[2] \in Handles
    /\ life[e[1]] # "gone" =>
         LET s == tables[e[1]][e[2][1]] IN
         /\ e[2][2] <= s.gen
         /\ e[2][2] = s.gen /\ s.cap # NoCap => s.cap.id = e[3]

UniqueIds ==
  /\ \A v, w \in Tasks, i, j \in Slots :
       /\ tables[v][i].cap # NoCap /\ tables[w][j].cap # NoCap
       /\ tables[v][i].cap.id = tables[w][j].cap.id
       => v = w /\ i = j
  /\ pending # NoCap =>
       \A v \in Tasks, i \in Slots :
         tables[v][i].cap # NoCap => tables[v][i].cap.id # pending.id

(* A capability has the rights it was created with, and they are among     *)
(* those of the one it was derived from, which is older.                   *)
RightsRecorded ==
  /\ \A v \in Tasks, i \in Slots :
       tables[v][i].cap # NoCap => tables[v][i].cap.rights = lineage[tables[v][i].cap.id].rights
  /\ pending # NoCap => pending.rights = lineage[pending.id].rights
  /\ \A c \in 1..(nextCap - 1) :
       lineage[c].how \in {"grant", "inherit"} =>
         /\ lineage[c].from \in 1..(nextCap - 1)
         /\ lineage[c].rights \subseteq lineage[lineage[c].from].rights

CapInv == Types /\ IdsAllocated /\ IssuedOK /\ UniqueIds /\ RightsRecorded

-----------------------------------------------------------------------------
(* The two effects.                                                        *)

Kept(v, i) ==
  /\ tables'[v][i].gen = tables[v][i].gen
  /\ \/ tables'[v][i].cap = NoCap
     \/ /\ tables[v][i].cap # NoCap
        /\ tables'[v][i].cap.id = tables[v][i].cap.id
        /\ tables'[v][i].cap.rights = tables[v][i].cap.rights

Swept(v) == life'[v] = "gone" /\ \A i \in Slots : tables'[v][i].cap = NoCap

StepKeeps == \A v \in Tasks : Swept(v) \/ \A i \in Slots : Kept(v, i)

StepPuts(u, c) ==
  LET h == FreshHandle(tables[u]) IN
  /\ h \in Handles
  /\ tables[u][h[1]].cap = NoCap
  /\ h[2] = tables[u][h[1]].gen + 1
  /\ tables'[u][h[1]] = [gen |-> h[2], cap |-> c]
  /\ \A v \in Tasks, i \in Slots : v # u \/ i # h[1] => Kept(v, i)

StayGone == \A v \in Tasks : life[v] = "gone" => life'[v] = "gone"

LEMMA NoCapFacts == /\ NoCap \in Capability /\ NoCap.id = 0
                    /\ \A c \in Capability : c.id # 0 => c # NoCap
BY CapAssumption DEF NoCap, Capability, NoId, NoEndpoint

(* Another capability, or none, in a slot.                                 *)
LEMMA SlotFacts ==
  ASSUME NEW s \in Slot, NEW c \in Capability
  PROVE  LET new == [s EXCEPT !.cap = c] IN new \in Slot /\ new.gen = s.gen /\ new.cap = c
BY DEF Slot

WithCap(tab, i, c) == [tab EXCEPT ![i] = [tab[i] EXCEPT !.cap = c]]

LEMMA TableFacts ==
  ASSUME NEW tab \in Table, NEW i \in Slots, NEW c \in Capability
  PROVE  /\ WithCap(tab, i, c) \in Table
         /\ WithCap(tab, i, c)[i].gen = tab[i].gen /\ WithCap(tab, i, c)[i].cap = c
         /\ \A j \in Slots : j # i => WithCap(tab, i, c)[j] = tab[j]
<1>1. tab[i] \in Slot
  BY DEF Table
<1>2. LET new == [tab[i] EXCEPT !.cap = c] IN new \in Slot /\ new.gen = tab[i].gen /\ new.cap = c
  BY <1>1, SlotFacts
<1> QED BY <1>2 DEF Table, WithCap

(* What insert does, given a vacant slot.                                  *)
LEMMA InsertFacts ==
  ASSUME NEW tab \in Table, NEW c \in Capability, HasRoom(tab)
  PROVE  /\ FreshHandle(tab) \in Handles
         /\ FreshHandle(tab)[1] \in Slots
         /\ tab[FreshHandle(tab)[1]].cap = NoCap
         /\ FreshHandle(tab)[2] = tab[FreshHandle(tab)[1]].gen + 1
         /\ Insert(tab, c) \in Table
         /\ Insert(tab, c)[FreshHandle(tab)[1]] = [gen |-> FreshHandle(tab)[2], cap |-> c]
         /\ \A i \in Slots : i # FreshHandle(tab)[1] => Insert(tab, c)[i] = tab[i]
<1> DEFINE i == CHOOSE i \in FirstVacant(tab) : TRUE
<1>1. i \in Slots /\ tab[i].cap = NoCap
  <2>1. i \in FirstVacant(tab)
    BY DEF HasRoom
  <2> QED BY <2>1 DEF FirstVacant
<1>2. FreshHandle(tab) = <<i, tab[i].gen + 1>>
  BY DEF FreshHandle
<1>3. FreshHandle(tab) \in Handles
  BY DEF HasRoom
<1> HIDE DEF i
<1>4. tab[i].gen + 1 \in 0..(MaxGen - 1)
  BY <1>2, <1>3 DEF Handles
<1>5. Insert(tab, c) = [tab EXCEPT ![i] = [gen |-> tab[i].gen + 1, cap |-> c]]
  BY <1>2 DEF Insert
<1>6. [gen |-> tab[i].gen + 1, cap |-> c] \in [gen : -1..(MaxGen - 1), cap : Capability]
  BY <1>4, CapAssumption
<1> QED BY <1>1, <1>2, <1>3, <1>5, <1>6 DEF Table, Slot

-----------------------------------------------------------------------------
(* No slot gains a capability; what is in transit stays, is dropped, or was *)
(* taken out of a slot.                                                     *)

PendingKept ==
  \/ pending' = pending
  \/ pending' = NoCap
  \/ \E v \in Tasks, i \in Slots :
       /\ tables[v][i].cap # NoCap /\ pending' = tables[v][i].cap
       /\ tables'[v][i].cap = NoCap

LEMMA KeepsInv ==
  ASSUME CapInv, Types', StepKeeps, StayGone, PendingKept,
         nextCap' = nextCap, lineage' = lineage, issued' = issued
  PROVE  CapInv'
<1> USE DEF CapInv
<1>1. \A v \in Tasks, i \in Slots : tables'[v][i].cap # NoCap =>
        /\ tables[v][i].cap # NoCap
        /\ tables'[v][i].cap.id = tables[v][i].cap.id
        /\ tables'[v][i].cap.rights = tables[v][i].cap.rights
  BY DEF StepKeeps, Swept, Kept
<1>2. IdsAllocated'
  <2>1. pending' # NoCap => pending'.id \in 1..(nextCap - 1)
    BY SMTT(40) DEF IdsAllocated, PendingKept
  <2> QED BY <1>1, <2>1 DEF IdsAllocated
<1>3. IssuedOK'
  <2> SUFFICES ASSUME NEW e \in issued, life'[e[1]] # "gone"
               PROVE  /\ e[1] \in Tasks /\ e[2] \in Handles
                      /\ e[2][2] <= tables'[e[1]][e[2][1]].gen
                      /\ /\ e[2][2] = tables'[e[1]][e[2][1]].gen
                         /\ tables'[e[1]][e[2][1]].cap # NoCap
                         => tables'[e[1]][e[2][1]].cap.id = e[3]
    BY DEF IssuedOK
  <2>1. e[1] \in Tasks /\ e[2] \in Handles /\ e[2][1] \in Slots
    BY DEF IssuedOK, Handles
  <2>2. life[e[1]] # "gone"
    BY <2>1 DEF StayGone
  <2>3. Kept(e[1], e[2][1])
    BY <2>1 DEF StepKeeps, Swept
  <2> QED BY ZenonT(40), <2>1, <2>2, <2>3, <1>1 DEF IssuedOK, Kept
<1>4. UniqueIds'
  <2>1. ASSUME NEW v \in Tasks, NEW w \in Tasks, NEW i \in Slots, NEW j \in Slots,
               tables'[v][i].cap # NoCap, tables'[w][j].cap # NoCap,
               tables'[v][i].cap.id = tables'[w][j].cap.id
        PROVE  v = w /\ i = j
    BY <1>1, <2>1 DEF UniqueIds
  <2>2. ASSUME pending' # NoCap, NEW v \in Tasks, NEW i \in Slots, tables'[v][i].cap # NoCap
        PROVE  tables'[v][i].cap.id # pending'.id
    BY <1>1, <2>2 DEF UniqueIds, PendingKept
  <2> QED BY <2>1, <2>2 DEF UniqueIds
<1>5. RightsRecorded'
  BY <1>1 DEF RightsRecorded, PendingKept
<1> QED BY <1>2, <1>3, <1>4, <1>5

-----------------------------------------------------------------------------
(* One vacant slot gains a capability, under its next generation.          *)

(* The capability is new, and its rights are among those of its origin.    *)
PutNew(c) ==
  /\ c.id = nextCap /\ nextCap \in CapIds /\ nextCap' = nextCap + 1
  /\ pending' = pending
  /\ \A d \in 1..(nextCap - 1) : lineage'[d] = lineage[d]
  /\ lineage'[nextCap].rights = c.rights
  /\ lineage'[nextCap].how \in {"grant", "inherit"} =>
       /\ lineage'[nextCap].from \in 1..(nextCap - 1)
       /\ c.rights \subseteq lineage[lineage'[nextCap].from].rights

(* The capability was in transit.                                          *)
PutPending(c) ==
  /\ c = pending /\ pending' = NoCap /\ nextCap' = nextCap /\ lineage' = lineage

LEMMA PutsInv ==
  ASSUME CapInv, Types', NEW u \in Tasks, NEW c \in Capability, c # NoCap,
         StepPuts(u, c), life[u] # "gone", StayGone,
         issued' = issued \cup {<<u, FreshHandle(tables[u]), c.id>>},
         PutNew(c) \/ PutPending(c)
  PROVE  CapInv'
<1> USE DEF CapInv
<1> DEFINE h == FreshHandle(tables[u])
<1>0. /\ h \in Handles /\ h[1] \in Slots /\ h[2] = tables[u][h[1]].gen + 1
      /\ tables[u][h[1]].cap = NoCap
      /\ tables'[u][h[1]] = [gen |-> h[2], cap |-> c]
      /\ \A v \in Tasks, i \in Slots : v # u \/ i # h[1] => Kept(v, i)
  BY DEF StepPuts, Handles
<1> HIDE DEF h
<1>1. \A v \in Tasks, i \in Slots : (v # u \/ i # h[1]) /\ tables'[v][i].cap # NoCap =>
        /\ tables[v][i].cap # NoCap
        /\ tables'[v][i].cap.id = tables[v][i].cap.id
        /\ tables'[v][i].cap.rights = tables[v][i].cap.rights
  BY <1>0 DEF Kept
<1>2. tables'[u][h[1]].cap = c /\ tables'[u][h[1]].gen = h[2]
  BY <1>0
<1>3. nextCap \in Nat /\ nextCap' \in Nat /\ nextCap <= nextCap' /\ c.id \in 1..(nextCap' - 1)
  BY CapAssumption DEF Types, PutNew, PutPending, IdsAllocated, CapIds
<1>4. IdsAllocated'
  <2>1. ASSUME NEW v \in Tasks, NEW i \in Slots, tables'[v][i].cap # NoCap
        PROVE  tables'[v][i].cap.id \in 1..(nextCap' - 1)
    <3>1. CASE v = u /\ i = h[1]
      BY <3>1, <1>2, <1>3
    <3>2. CASE v # u \/ i # h[1]
      <4>1. tables[v][i].cap.id \in 1..(nextCap - 1)
        BY <3>2, <2>1, <1>1 DEF IdsAllocated
      <4> QED BY <4>1, <3>2, <2>1, <1>1, <1>3
    <3> QED BY <3>1, <3>2
  <2>2. pending' # NoCap => pending'.id \in 1..(nextCap' - 1)
    BY SMTT(40), <1>3 DEF IdsAllocated, PutNew, PutPending
  <2> QED BY <2>1, <2>2 DEF IdsAllocated
<1>5. IssuedOK'
  <2> SUFFICES ASSUME NEW e \in issued'
               PROVE  /\ e[1] \in Tasks /\ e[2] \in Handles
                      /\ life'[e[1]] # "gone" =>
                           /\ e[2][2] <= tables'[e[1]][e[2][1]].gen
                           /\ /\ e[2][2] = tables'[e[1]][e[2][1]].gen
                              /\ tables'[e[1]][e[2][1]].cap # NoCap
                              => tables'[e[1]][e[2][1]].cap.id = e[3]
    BY DEF IssuedOK
  <2>1. CASE e = <<u, h, c.id>>
    <3>1. h[2] \in Int
      BY SMTT(40), <1>0 DEF Handles
    <3> QED BY <2>1, <3>1, <1>0, <1>2
  <2>2. CASE e \in issued
    <3>1. e[1] \in Tasks /\ e[2] \in Handles /\ e[2][1] \in Slots /\ e[2][2] \in Int
      BY SMTT(40), <2>2 DEF IssuedOK, Handles
    <3>2. SUFFICES ASSUME life'[e[1]] # "gone"
                   PROVE  /\ e[2][2] <= tables'[e[1]][e[2][1]].gen
                          /\ /\ e[2][2] = tables'[e[1]][e[2][1]].gen
                             /\ tables'[e[1]][e[2][1]].cap # NoCap
                             => tables'[e[1]][e[2][1]].cap.id = e[3]
      BY <3>1
    <3>3. life[e[1]] # "gone"
      BY SMTT(40), <3>1, <3>2 DEF StayGone
    <3>4. /\ e[2][2] <= tables[e[1]][e[2][1]].gen
          /\ /\ e[2][2] = tables[e[1]][e[2][1]].gen
             /\ tables[e[1]][e[2][1]].cap # NoCap
             => tables[e[1]][e[2][1]].cap.id = e[3]
      BY <2>2, <3>3 DEF IssuedOK
    <3>5. CASE e[1] = u /\ e[2][1] = h[1]
      <4>1. tables[u][h[1]].gen \in Int
        BY <1>0 DEF Types, Table, Slot
      <4>2. e[2][2] < h[2]
        BY SMTT(40), <4>1, <3>4, <3>5, <3>1, <1>0
      <4> QED BY <4>1, <4>2, <3>5, <3>1, <1>0, <1>2
    <3>6. CASE e[1] # u \/ e[2][1] # h[1]
      <4>1. Kept(e[1], e[2][1])
        BY <3>6, <3>1, <1>0
      <4> QED BY <4>1, <3>4 DEF Kept
    <3> QED BY <3>5, <3>6
  <2> QED BY SMTT(40), <2>1, <2>2 DEF h
<1>6. \A v \in Tasks, i \in Slots : (v # u \/ i # h[1]) /\ tables'[v][i].cap # NoCap =>
        tables'[v][i].cap.id # c.id
  <2> SUFFICES ASSUME NEW v \in Tasks, NEW i \in Slots, v # u \/ i # h[1], tables'[v][i].cap # NoCap
               PROVE  tables'[v][i].cap.id # c.id
    OBVIOUS
  <2>1. tables[v][i].cap # NoCap /\ tables'[v][i].cap.id = tables[v][i].cap.id
    BY <1>1
  <2>2. tables[v][i].cap.id \in 1..(nextCap - 1)
    BY <2>1 DEF IdsAllocated
  <2> QED BY <2>1, <2>2, <1>3 DEF PutNew, PutPending, UniqueIds
<1>7. UniqueIds'
  <2>1. ASSUME NEW v \in Tasks, NEW w \in Tasks, NEW i \in Slots, NEW j \in Slots,
               tables'[v][i].cap # NoCap, tables'[w][j].cap # NoCap,
               tables'[v][i].cap.id = tables'[w][j].cap.id
        PROVE  v = w /\ i = j
    <3>1. CASE v = u /\ i = h[1]
      BY <3>1, <2>1, <1>6, <1>2
    <3>2. CASE w = u /\ j = h[1]
      BY <3>2, <2>1, <1>6, <1>2
    <3>3. CASE (v # u \/ i # h[1]) /\ (w # u \/ j # h[1])
      BY <3>3, <2>1, <1>1 DEF UniqueIds
    <3> QED BY <3>1, <3>2, <3>3
  <2>2. ASSUME pending' # NoCap, NEW v \in Tasks, NEW i \in Slots, tables'[v][i].cap # NoCap
        PROVE  tables'[v][i].cap.id # pending'.id
    <3>1. PutNew(c) /\ pending' = pending
      BY <2>2 DEF PutNew, PutPending
    <3>2. pending.id \in 1..(nextCap - 1)
      BY <3>1, <2>2 DEF IdsAllocated
    <3>3. CASE v = u /\ i = h[1]
      BY <3>1, <3>2, <3>3, <1>2, <1>3 DEF PutNew
    <3>4. CASE v # u \/ i # h[1]
      BY <3>1, <3>4, <2>2, <1>1 DEF UniqueIds
    <3> QED BY <3>3, <3>4
  <2> QED BY <2>1, <2>2 DEF UniqueIds
<1>8. RightsRecorded'
  <2>1. \A d \in 1..(nextCap - 1) : lineage'[d] = lineage[d]
    BY DEF PutNew, PutPending
  <2>2. ASSUME NEW v \in Tasks, NEW i \in Slots, tables'[v][i].cap # NoCap
        PROVE  tables'[v][i].cap.rights = lineage'[tables'[v][i].cap.id].rights
    <3>1. CASE v = u /\ i = h[1]
      BY SMTT(40), <3>1, <1>2 DEF PutNew, PutPending, RightsRecorded
    <3>2. CASE v # u \/ i # h[1]
      <4>1. tables[v][i].cap.id \in 1..(nextCap - 1)
        BY <3>2, <2>2, <1>1 DEF IdsAllocated
      <4> QED BY SMTT(40), <4>1, <2>1, <3>2, <2>2, <1>1 DEF RightsRecorded
    <3> QED BY <3>1, <3>2
  <2>3. pending' # NoCap => pending'.rights = lineage'[pending'.id].rights
    BY <2>1 DEF PutNew, PutPending, RightsRecorded, IdsAllocated
  <2>4. ASSUME NEW d \in 1..(nextCap' - 1), lineage'[d].how \in {"grant", "inherit"}
        PROVE  /\ lineage'[d].from \in 1..(nextCap' - 1)
               /\ lineage'[d].rights \subseteq lineage'[lineage'[d].from].rights
    <3>1. CASE d \in 1..(nextCap - 1)
      <4>1. lineage'[d] = lineage[d]
        BY <3>1, <2>1
      <4>2. /\ lineage[d].from \in 1..(nextCap - 1)
            /\ lineage[d].rights \subseteq lineage[lineage[d].from].rights
        BY <3>1, <4>1, <2>4 DEF RightsRecorded
      <4> QED BY <4>1, <4>2, <2>1, <1>3
    <3>2. CASE d = nextCap /\ PutNew(c)
      BY <3>2, <2>4, <2>1, <1>3 DEF PutNew
    <3> QED BY <3>1, <3>2, <1>3 DEF PutNew, PutPending
  <2> QED BY <2>2, <2>3, <2>4 DEF RightsRecorded
<1> QED BY <1>4, <1>5, <1>7, <1>8

-----------------------------------------------------------------------------
(* The effect of an insertion into one table.                              *)
LEMMA InsertPuts ==
  ASSUME CapInv, NEW u \in Tasks, NEW c \in Capability, HasRoom(tables[u]),
         tables' = [tables EXCEPT ![u] = Insert(@, c)]
  PROVE  tables' \in [Tasks -> Table] /\ StepPuts(u, c)
<1>1. tables \in [Tasks -> Table] /\ tables[u] \in Table
  BY DEF CapInv, Types
<1>2. Insert(tables[u], c) \in Table
  BY <1>1, InsertFacts
<1>3. tables' \in [Tasks -> Table] /\ tables'[u] = Insert(tables[u], c)
      /\ \A v \in Tasks : v # u => tables'[v] = tables[v]
  BY <1>1, <1>2
<1>4. StepPuts(u, c)
  BY <1>1, <1>3, InsertFacts DEF StepPuts, Kept
<1> QED BY <1>3, <1>4

(* What Created says, and the identity of a capability it is said of.      *)
LEMMA CreatedFacts ==
  ASSUME CapInv, nextCap <= MaxCaps, NEW u, NEW from \in 0..MaxCaps,
         NEW how \in {"root", "grant", "inherit"}, NEW rights \in SUBSET Rights,
         Created(u, from, how, rights), pending' = pending,
         how # "root" => from \in 1..(nextCap - 1) /\ rights \subseteq lineage[from].rights,
         NEW c, c.id = nextCap, c.rights = rights
  PROVE  /\ nextCap' \in 1..(MaxCaps + 1)
         /\ lineage' \in [CapIds -> Lineage]
         /\ PutNew(c)
<1>1. nextCap \in CapIds /\ nextCap \in Nat
  BY CapAssumption DEF CapInv, Types, CapIds
<1>2. lineage' = [lineage EXCEPT ![nextCap] = [from |-> from, how |-> how, rights |-> rights]]
      /\ nextCap' = nextCap + 1
  BY DEF Created
<1>3. [from |-> from, how |-> how, rights |-> rights] \in Lineage
  BY DEF Lineage
<1>4. lineage \in [CapIds -> Lineage]
  BY DEF CapInv, Types
<1>5. lineage' \in [CapIds -> Lineage]
      /\ lineage'[nextCap] = [from |-> from, how |-> how, rights |-> rights]
  BY <1>1, <1>2, <1>3, <1>4
<1>6. \A d \in 1..(nextCap - 1) : lineage'[d] = lineage[d]
  BY <1>1, <1>2, <1>4 DEF CapIds
<1>7. nextCap' \in 1..(MaxCaps + 1)
  BY <1>1, <1>2, CapAssumption DEF CapIds
<1> QED BY <1>1, <1>2, <1>5, <1>6, <1>7 DEF PutNew

LEMMA NewCapFacts ==
  ASSUME CapInv, nextCap <= MaxCaps, NEW rights \in SUBSET Rights,
         NEW object \in 0..MaxEndpoints, NEW parent \in 0..MaxCaps
  PROVE  LET c == NewCap(rights, object, parent) IN
         c \in Capability /\ c # NoCap /\ c.id = nextCap /\ c.rights = rights
<1>1. nextCap \in 0..MaxCaps /\ nextCap # 0
  BY CapAssumption DEF CapInv, Types
<1> QED BY <1>1 DEF NewCap, Capability, NoCap, NoId

(* A capability found under a handle that resolves.                        *)
LEMMA HeldFacts ==
  ASSUME CapInv, NEW t \in Tasks, NEW h \in HandlesOf(t)
  PROVE  /\ h[1] \in Slots /\ h[2] = tables[t][h[1]].gen
         /\ tables[t][h[1]].cap # NoCap
         /\ Get(tables[t], h) = tables[t][h[1]].cap
         /\ Get(tables[t], h) \in Capability
         /\ Get(tables[t], h).id \in 1..(nextCap - 1)
         /\ Get(tables[t], h).rights = lineage[Get(tables[t], h).id].rights
<1>1. PICK j \in Slots : tables[t][j].cap # NoCap /\ h = <<j, tables[t][j].gen>>
  BY DEF HandlesOf
<1>2. tables[t][j].cap \in Capability
  BY DEF CapInv, Types, Table, Slot
<1> QED BY <1>1, <1>2 DEF Get, CapInv, IdsAllocated, RightsRecorded

-----------------------------------------------------------------------------
(* Each call.                                                              *)

LEMMA InitInv == CapInit => CapInv
<1> SUFFICES ASSUME CapInit PROVE CapInv
  OBVIOUS
<1> DEFINE root == [id |-> 1, rights |-> Rights, object |-> 1, parent |-> NoId, children |-> {}]
<1>0. 0 \in Slots /\ 1 \in CapIds
  BY CapAssumption DEF Slots, CapIds
<1>1. NoCap \in Capability /\ root \in Capability /\ root # NoCap
  BY CapAssumption DEF Capability, NoCap, NoId, NoEndpoint
<1>2. EmptyTable \in Table
  BY <1>1, CapAssumption DEF EmptyTable, Table, Slot
<1>3. tables = [t \in Tasks |-> IF t = 1 THEN [EmptyTable EXCEPT ![0] = [gen |-> 0, cap |-> root]]
                                         ELSE EmptyTable]
  BY DEF CapInit
<1> HIDE DEF root
<1>4. [gen |-> 0, cap |-> root] \in [gen : -1..(MaxGen - 1), cap : Capability]
  BY <1>1, CapAssumption
<1>5. [EmptyTable EXCEPT ![0] = [gen |-> 0, cap |-> root]] \in Table
  BY <1>2, <1>4 DEF Table, Slot
<1>6. tables \in [Tasks -> Table]
  BY <1>2, <1>3, <1>5
<1>7. \A v \in Tasks, i \in Slots :
        tables[v][i].cap # NoCap => v = 1 /\ i = 0
  BY <1>3, <1>2 DEF EmptyTable, Table, Slot
<1>8. tables[1][0] = [gen |-> 0, cap |-> root]
  BY <1>0, <1>3, <1>2, CapAssumption DEF Table, Slot
<1>9. lineage \in [CapIds -> Lineage] /\ lineage[1] = [from |-> NoId, how |-> "root", rights |-> Rights]
  BY <1>0, CapAssumption DEF CapInit, Lineage, NoId
<1>10. Types
  <2>1. life \in [Tasks -> {"unborn", "live", "dead", "gone"}]
    BY DEF CapInit
  <2>2. /\ nextCap \in 1..(MaxCaps + 1) /\ endpoints \in 1..MaxEndpoints
        /\ name \in 0..MaxEndpoints /\ pending = NoCap
    BY CapAssumption DEF CapInit, NoEndpoint
  <2> QED BY <1>1, <1>6, <1>9, <2>1, <2>2 DEF Types
<1>11. root.id = 1 /\ root.rights = Rights
  BY DEF root
<1>12. IdsAllocated
  BY SMTT(40), <1>7, <1>8, <1>11 DEF IdsAllocated, CapInit
<1>13. IssuedOK
  <2>1. <<0, 0>> \in Handles
    BY <1>0, CapAssumption DEF Handles
  <2> QED BY <2>1, <1>8, <1>11, CapAssumption DEF IssuedOK, CapInit
<1>14. UniqueIds
  BY SMTT(40), <1>7 DEF UniqueIds, CapInit
<1>15. RightsRecorded
  <2>1. nextCap = 2 /\ pending = NoCap
    BY DEF CapInit
  <2> QED BY <2>1, <1>7, <1>8, <1>9, <1>11 DEF RightsRecorded
<1> QED BY <1>10, <1>12, <1>13, <1>14, <1>15 DEF CapInv

LEMMA SysCapGrantInv ==
  ASSUME CapInv, NEW t \in Tasks, NEW u \in Tasks, NEW h \in HandlesOf(t), NEW mask \in Masks,
         SysCapGrant(t, h, u, mask)
  PROVE  CapInv'
<1> DEFINE cap == Get(tables[t], h)
           rights == cap.rights \cap mask
           c == NewCap(rights, cap.object, cap.id)
           tabs == [tables EXCEPT ![u] = Insert(@, c)]
<1>1. u # t /\ life[u] \in {"live", "dead"} /\ nextCap <= MaxCaps /\ HasRoom(tables[u])
  BY SMTT(40) DEF SysCapGrant, InVec, CanInsert
<1>t. tables' = [tabs EXCEPT ![t][h[1]].cap.children = @ \cup {<<u, FreshHandle(tables[u])>>}]
  BY ZenonT(40) DEF SysCapGrant
<1>c. Created(u, cap.id, "grant", rights)
  BY SMTT(40) DEF SysCapGrant
<1>u. UNCHANGED <<life, endpoints, name, pending>>
  BY DEF SysCapGrant
<1>2. /\ h[1] \in Slots /\ tables[t][h[1]].cap # NoCap /\ cap = tables[t][h[1]].cap
      /\ cap \in Capability /\ cap.id \in 1..(nextCap - 1) /\ cap.rights = lineage[cap.id].rights
  BY SMTT(40), HeldFacts
<1> HIDE DEF cap
<1>3. rights \in SUBSET Rights /\ cap.object \in 0..MaxEndpoints /\ cap.id \in 0..MaxCaps
  BY <1>2 DEF Capability
<1> HIDE DEF rights
<1>4. c \in Capability /\ c # NoCap /\ c.id = nextCap /\ c.rights = rights
  BY SMTT(40), <1>1, <1>3, NewCapFacts
<1> HIDE DEF c
<1>5. rights \subseteq lineage[cap.id].rights
  BY <1>2 DEF rights
<1>6. /\ nextCap' \in 1..(MaxCaps + 1) /\ lineage' \in [CapIds -> Lineage] /\ PutNew(c)
  <2>1. "grant" \in {"root", "grant", "inherit"} /\ pending' = pending
    BY SMTT(40), <1>u
  <2>2. cap.id \in 1..(nextCap - 1)
    BY <1>2
  <2> QED BY <1>1, <1>3, <1>4, <1>5, <1>c, <2>1, <2>2, CreatedFacts
<1>7. tables \in [Tasks -> Table] /\ tables[u] \in Table
  BY SMTT(40) DEF CapInv, Types
<1>8. LET f == FreshHandle(tables[u]) new == Insert(tables[u], c) IN
      /\ f \in Handles /\ f[1] \in Slots /\ tables[u][f[1]].cap = NoCap
      /\ f[2] = tables[u][f[1]].gen + 1
      /\ new \in Table /\ new[f[1]] = [gen |-> f[2], cap |-> c]
      /\ \A i \in Slots : i # f[1] => new[i] = tables[u][i]
  BY SMTT(40), <1>1, <1>4, <1>7, InsertFacts
<1>9. tabs \in [Tasks -> Table] /\ tabs[u] = Insert(tables[u], c) /\ \A v \in Tasks : v # u => tabs[v] = tables[v]
  BY SMTT(40), <1>7, <1>8
<1> HIDE DEF tabs
<1> DEFINE grown == [cap EXCEPT !.children = @ \cup {<<u, FreshHandle(tables[u])>>}]
<1>10. grown \in Capability /\ grown.id = cap.id /\ grown.rights = cap.rights
  <2>1. <<u, FreshHandle(tables[u])>> \in Tasks \X Handles
    BY SMTT(40), <1>8
  <2>2. cap.children \cup {<<u, FreshHandle(tables[u])>>} \in SUBSET (Tasks \X Handles)
    BY <1>2, <2>1 DEF Capability
  <2> QED BY <1>2, <2>2 DEF Capability
<1>11. tabs[t] = tables[t] /\ tables[t] \in Table
  BY SMTT(40), <1>1, <1>7, <1>9
<1>12. tables' = [tabs EXCEPT ![t] = [tabs[t] EXCEPT ![h[1]] = [tabs[t][h[1]] EXCEPT !.cap = grown]]]
  BY <1>t, <1>2, <1>11
<1> HIDE DEF grown
<1>13. /\ tables' \in [Tasks -> Table]
       /\ tables'[t][h[1]].gen = tables[t][h[1]].gen /\ tables'[t][h[1]].cap = grown
       /\ \A i \in Slots : i # h[1] => tables'[t][i] = tables[t][i]
       /\ \A v \in Tasks : v # t => tables'[v] = tabs[v]
  <2> DEFINE new == WithCap(tables[t], h[1], grown)
  <2>1. /\ new \in Table /\ new[h[1]].gen = tables[t][h[1]].gen /\ new[h[1]].cap = grown
        /\ \A i \in Slots : i # h[1] => new[i] = tables[t][i]
    <3>1. tables[t] \in Table /\ h[1] \in Slots /\ grown \in Capability
      BY <1>2, <1>10, <1>11
    <3> QED BY SMTT(40), <3>1, TableFacts
  <2>2. tables' = [tabs EXCEPT ![t] = new]
    BY SMTT(40), <1>11, <1>12 DEF WithCap
  <2> HIDE DEF new
  <2> QED BY <1>9, <2>1, <2>2
<1>14. StepPuts(u, c)
  <2>1. \A i \in Slots : Kept(t, i)
    BY <1>2, <1>10, <1>13 DEF Kept
  <2>2. \A v \in Tasks, i \in Slots : v # t /\ v # u => Kept(v, i)
    BY <1>9, <1>13 DEF Kept
  <2>3. tables'[u] = Insert(tables[u], c)
    BY SMTT(40), <1>1, <1>9, <1>13
  <2>4. \A i \in Slots : i # FreshHandle(tables[u])[1] => Kept(u, i)
    BY SMTT(40), <1>8, <2>3 DEF Kept
  <2> QED BY SMTT(40), <1>8, <2>1, <2>2, <2>3, <2>4 DEF StepPuts
<1>15. Types'
  BY <1>u, <1>6, <1>13 DEF CapInv, Types
<1>16. StayGone /\ life[u] # "gone" /\ issued' = issued \cup {<<u, FreshHandle(tables[u]), c.id>>}
  BY <1>1, <1>c, <1>u, <1>4 DEF StayGone, Created
<1> QED BY SMTT(40), <1>4, <1>6, <1>14, <1>15, <1>16, PutsInv

LEMMA SysCapRevokeInv ==
  ASSUME CapInv, NEW t \in Tasks, NEW h \in HandlesOf(t), SysCapRevoke(t, h)
  PROVE  CapInv'
<1> DEFINE gone == Cascade(t, h)
<1>1. /\ tables' = [u \in Tasks |-> [i \in Slots |->
                     IF <<u, <<i, tables[u][i].gen>>>> \in gone
                       THEN [tables[u][i] EXCEPT !.cap = NoCap] ELSE tables[u][i]]]
      /\ UNCHANGED <<life, nextCap, endpoints, name, pending, lineage, issued>>
  BY DEF SysCapRevoke
<1> HIDE DEF gone
<1>2. tables \in [Tasks -> Table]
  BY DEF CapInv, Types
<1>3. \A u \in Tasks, i \in Slots :
        LET s == [tables[u][i] EXCEPT !.cap = NoCap] IN
        s \in Slot /\ s.gen = tables[u][i].gen /\ s.cap = NoCap
  BY <1>2, NoCapFacts, SlotFacts DEF Table
<1>4. tables' \in [Tasks -> Table]
  BY <1>1, <1>2, <1>3 DEF Table
<1>5. StepKeeps
  BY <1>1, <1>3 DEF StepKeeps, Kept
<1>6. Types' /\ StayGone /\ PendingKept
  BY <1>1, <1>4 DEF CapInv, Types, StayGone, PendingKept
<1> QED BY <1>1, <1>5, <1>6, KeepsInv

LEMMA SysExecInv ==
  ASSUME CapInv, NEW t \in Tasks, NEW h \in HandlesOf(t), SysExec(t, h)
  PROVE  CapInv'
<1> DEFINE cap == Get(tables[t], h)
           c == NewCap(cap.rights, cap.object, cap.parent)
<1>1. PICK u \in NextTask :
        /\ nextCap <= MaxCaps /\ HasRoom(tables[u])
        /\ life' = [life EXCEPT ![u] = "live"]
        /\ tables' = [tables EXCEPT ![u] = Insert(@, c)]
        /\ Created(u, cap.id, "inherit", cap.rights)
  BY DEF SysExec, CanInsert
<1>2. u \in Tasks /\ life[u] = "unborn" /\ UNCHANGED <<endpoints, name, pending>>
  BY DEF SysExec, NextTask
<1>3. cap \in Capability /\ cap.id \in 1..(nextCap - 1) /\ cap.rights = lineage[cap.id].rights
  BY HeldFacts
<1> HIDE DEF cap
<1>4. /\ cap.rights \in SUBSET Rights /\ cap.object \in 0..MaxEndpoints
      /\ cap.parent \in 0..MaxCaps /\ cap.id \in 0..MaxCaps
  BY <1>3 DEF Capability
<1>5. c \in Capability /\ c # NoCap /\ c.id = nextCap /\ c.rights = cap.rights
  BY <1>1, <1>4, NewCapFacts
<1> HIDE DEF c
<1>6. nextCap' \in 1..(MaxCaps + 1) /\ lineage' \in [CapIds -> Lineage] /\ PutNew(c)
  BY <1>1, <1>2, <1>3, <1>4, <1>5, CreatedFacts
<1>7. tables' \in [Tasks -> Table] /\ StepPuts(u, c)
  BY <1>1, <1>2, <1>5, InsertPuts
<1>8. Types' /\ StayGone
  BY <1>1, <1>2, <1>6, <1>7 DEF CapInv, Types, StayGone
<1>9. issued' = issued \cup {<<u, FreshHandle(tables[u]), c.id>>}
  BY <1>1, <1>5 DEF Created
<1> QED BY <1>2, <1>5, <1>6, <1>7, <1>8, <1>9, PutsInv

LEMMA SysExecBareInv ==
  ASSUME CapInv, NEW t \in Tasks, SysExecBare(t)
  PROVE  CapInv'
<1>1. PICK u \in NextTask : life' = [life EXCEPT ![u] = "live"]
  BY DEF SysExecBare
<1>2. u \in Tasks /\ life[u] = "unborn"
      /\ UNCHANGED <<tables, nextCap, endpoints, name, pending, lineage, issued>>
  BY DEF SysExecBare, NextTask
<1>3. Types' /\ StayGone /\ PendingKept /\ StepKeeps
  BY <1>1, <1>2 DEF CapInv, Types, StayGone, PendingKept, StepKeeps, Kept
<1> QED BY <1>2, <1>3, KeepsInv

LEMMA SysIpcSendCapInv ==
  ASSUME CapInv, NEW t \in Tasks, NEW e \in HandlesOf(t), NEW h \in HandlesOf(t),
         SysIpcSendCap(t, e, h)
  PROVE  CapInv'
<1>1. /\ pending' = tables[t][h[1]].cap
      /\ tables' = [tables EXCEPT ![t] = [@ EXCEPT ![h[1]].cap = NoCap]]
      /\ UNCHANGED <<life, nextCap, endpoints, name, lineage, issued>>
  BY DEF SysIpcSendCap, Take, Get
<1>2. h[1] \in Slots /\ tables[t][h[1]].cap # NoCap /\ tables[t][h[1]].cap \in Capability
  BY HeldFacts DEF Get
<1>3. tables \in [Tasks -> Table]
  BY DEF CapInv, Types
<1>4. /\ tables' \in [Tasks -> Table]
      /\ tables'[t][h[1]].gen = tables[t][h[1]].gen /\ tables'[t][h[1]].cap = NoCap
      /\ \A v \in Tasks, i \in Slots : v # t \/ i # h[1] => tables'[v][i] = tables[v][i]
  <2> DEFINE new == WithCap(tables[t], h[1], NoCap)
  <2>1. /\ new \in Table /\ new[h[1]].gen = tables[t][h[1]].gen /\ new[h[1]].cap = NoCap
        /\ \A i \in Slots : i # h[1] => new[i] = tables[t][i]
    <3>1. tables[t] \in Table /\ h[1] \in Slots /\ NoCap \in Capability
      BY <1>2, <1>3, NoCapFacts
    <3> QED BY <3>1, TableFacts
  <2>2. tables' = [tables EXCEPT ![t] = new]
    BY <1>1 DEF WithCap
  <2> HIDE DEF new
  <2> QED BY <1>3, <2>1, <2>2
<1>5. StepKeeps
  BY <1>4 DEF StepKeeps, Kept
<1>7. PendingKept
  BY <1>1, <1>2, <1>4 DEF PendingKept
<1>8. Types' /\ StayGone
  BY SMTT(40), <1>1, <1>2, <1>4 DEF CapInv, Types, StayGone
<1> QED BY <1>1, <1>5, <1>7, <1>8, KeepsInv

LEMMA SysIpcRecvCapInv ==
  ASSUME CapInv, NEW t \in Tasks, NEW e \in HandlesOf(t), NEW out \in BOOLEAN,
         SysIpcRecvCap(t, e, out)
  PROVE  CapInv'
<1>1. /\ life[t] = "live" /\ pending # NoCap /\ pending' = NoCap
      /\ UNCHANGED <<life, nextCap, endpoints, name, lineage>>
  BY DEF SysIpcRecvCap, Calling
<1>2. StayGone /\ pending \in Capability
  BY <1>1 DEF StayGone, CapInv, Types
<1>3. CASE /\ HasRoom(tables[t])
           /\ tables' = [tables EXCEPT ![t] = Insert(@, pending)]
           /\ issued' = issued \cup {<<t, FreshHandle(tables[t]), pending.id>>}
  <2>1. tables' \in [Tasks -> Table] /\ StepPuts(t, pending)
    BY <1>2, <1>3, InsertPuts
  <2>2. Types' /\ PutPending(pending)
    BY <1>1, <2>1, NoCapFacts DEF CapInv, Types, PutPending
  <2> QED BY <1>1, <1>2, <1>3, <2>1, <2>2, PutsInv
<1>4. CASE UNCHANGED <<tables, issued>>
  <2>1. Types' /\ PendingKept /\ StepKeeps
    BY <1>1, <1>4, NoCapFacts DEF CapInv, Types, PendingKept, StepKeeps, Kept
  <2> QED BY <1>1, <1>2, <1>4, <2>1, KeepsInv
<1> QED BY SMTT(40), <1>3, <1>4 DEF SysIpcRecvCap

(* A root capability, of SYS_IPC_CREATE or SYS_IPC_LOOKUP.                 *)
LEMMA RootInv ==
  ASSUME CapInv, NEW t \in Tasks, life[t] = "live", nextCap <= MaxCaps, HasRoom(tables[t]),
         NEW rights \in SUBSET Rights, NEW object \in 1..MaxEndpoints,
         tables' = [tables EXCEPT ![t] = Insert(@, NewCap(rights, object, NoId))],
         Created(t, NoId, "root", rights),
         UNCHANGED <<life, name, pending>>, endpoints' \in 1..MaxEndpoints
  PROVE  CapInv'
<1> DEFINE c == NewCap(rights, object, NoId)
<1>1. NoId \in 0..MaxCaps /\ object \in 0..MaxEndpoints
  BY CapAssumption DEF NoId
<1>2. c \in Capability /\ c # NoCap /\ c.id = nextCap /\ c.rights = rights
  BY SMTT(40), <1>1, NewCapFacts
<1> HIDE DEF c
<1>3. nextCap' \in 1..(MaxCaps + 1) /\ lineage' \in [CapIds -> Lineage] /\ PutNew(c)
  BY <1>1, <1>2, CreatedFacts
<1>4. tables' \in [Tasks -> Table] /\ StepPuts(t, c)
  BY ZenonT(40), <1>2, InsertPuts DEF c
<1>5. Types' /\ StayGone
  BY <1>3, <1>4 DEF CapInv, Types, StayGone
<1>6. issued' = issued \cup {<<t, FreshHandle(tables[t]), c.id>>}
  BY <1>2 DEF Created
<1> QED BY <1>2, <1>3, <1>4, <1>5, <1>6, PutsInv

LEMMA SysIpcCreateInv ==
  ASSUME CapInv, NEW t \in Tasks, SysIpcCreate(t)
  PROVE  CapInv'
<1>1. endpoints' \in 1..MaxEndpoints
  BY CapAssumption DEF SysIpcCreate, CapInv, Types
<1>2. Rights \in SUBSET Rights
  OBVIOUS
<1> QED BY <1>1, <1>2, RootInv DEF SysIpcCreate, Calling, CanInsert

LEMMA SysIpcLookupInv ==
  ASSUME CapInv, NEW t \in Tasks, NEW mask \in Masks, SysIpcLookup(t, mask)
  PROVE  CapInv'
<1> DEFINE asked == mask \cap {"READ", "WRITE"}
           rights == IF asked = {} THEN {"READ", "WRITE"} ELSE asked
<1>1. /\ life[t] = "live" /\ nextCap <= MaxCaps /\ HasRoom(tables[t])
      /\ tables' = [tables EXCEPT ![t] = Insert(@, NewCap(rights, name, NoId))]
      /\ Created(t, NoId, "root", rights)
      /\ UNCHANGED <<life, name, pending, endpoints>>
  BY DEF SysIpcLookup, Calling, CanInsert
<1>2. rights \in SUBSET Rights
  BY DEF Rights
<1>3. name \in 1..MaxEndpoints /\ endpoints' \in 1..MaxEndpoints
  BY <1>1, CapAssumption DEF SysIpcLookup, CapInv, Types, NoEndpoint
<1> HIDE DEF rights
<1> QED BY <1>1, <1>2, <1>3, RootInv

LEMMA SysIpcBindInv ==
  ASSUME CapInv, NEW t \in Tasks, NEW h \in HandlesOf(t), SysIpcBind(t, h)
  PROVE  CapInv'
<1>1. /\ name' = Get(tables[t], h).object
      /\ UNCHANGED <<tables, life, nextCap, endpoints, pending, lineage, issued>>
  BY DEF SysIpcBind
<1>2. name' \in 0..MaxEndpoints
  BY <1>1, HeldFacts DEF Capability
<1>3. Types' /\ StayGone /\ PendingKept /\ StepKeeps
  BY <1>1, <1>2 DEF CapInv, Types, StayGone, PendingKept, StepKeeps, Kept
<1> QED BY <1>1, <1>3, KeepsInv

LEMMA TaskDiesInv ==
  ASSUME CapInv, NEW t \in Tasks, TaskDies(t)
  PROVE  CapInv'
<1>1. /\ life[t] = "live" /\ life' = [life EXCEPT ![t] = "dead"]
      /\ UNCHANGED <<tables, nextCap, endpoints, name, pending, lineage, issued>>
  BY DEF TaskDies, Calling
<1>2. Types' /\ StayGone /\ PendingKept /\ StepKeeps
  BY <1>1 DEF CapInv, Types, StayGone, PendingKept, StepKeeps, Kept
<1> QED BY <1>1, <1>2, KeepsInv

LEMMA SweepDeadInv ==
  ASSUME CapInv, SweepDead
  PROVE  CapInv'
<1>1. /\ life' = [t \in Tasks |-> IF life[t] = "dead" THEN "gone" ELSE life[t]]
      /\ tables' = [t \in Tasks |-> IF life[t] = "dead" THEN EmptyTable ELSE tables[t]]
      /\ UNCHANGED <<nextCap, endpoints, name, pending, lineage, issued>>
  BY DEF SweepDead
<1>2. EmptyTable \in Table /\ \A i \in Slots : EmptyTable[i].cap = NoCap
  BY NoCapFacts, CapAssumption DEF EmptyTable, Table, Slot
<1>3. Types'
  BY <1>1, <1>2 DEF CapInv, Types
<1>4. StepKeeps
  BY <1>1, <1>2 DEF StepKeeps, Swept, Kept
<1>5. StayGone /\ PendingKept
  BY <1>1 DEF StayGone, PendingKept
<1> QED BY <1>1, <1>3, <1>4, <1>5, KeepsInv

LEMMA StepInv == CapInv /\ [CapNext]_capVars => CapInv'
<1> SUFFICES ASSUME CapInv, [CapNext]_capVars PROVE CapInv'
  OBVIOUS
<1>1. CASE UNCHANGED capVars
  <2>1. Types' /\ StayGone /\ PendingKept /\ StepKeeps
    BY <1>1 DEF capVars, CapInv, Types, StayGone, PendingKept, StepKeeps, Kept
  <2> QED BY <1>1, <2>1, KeepsInv DEF capVars
<1>2. CASE CapNext
  BY <1>2, SysCapGrantInv, SysCapRevokeInv, SysExecInv, SysExecBareInv, SysIpcSendCapInv,
     SysIpcRecvCapInv, SysIpcCreateInv, SysIpcLookupInv, SysIpcBindInv, TaskDiesInv, SweepDeadInv
     DEF CapNext
<1> QED BY <1>1, <1>2

-----------------------------------------------------------------------------
(* What the invariant says of the capabilities there are.                  *)

LEMMA PlaceFacts ==
  ASSUME CapInv, NEW p \in HeldPlaces
  PROVE  /\ p[1] \in Tasks /\ p[2][1] \in Slots
         /\ p = <<p[1], <<p[2][1], tables[p[1]][p[2][1]].gen>>>>
         /\ tables[p[1]][p[2][1]].cap # NoCap
         /\ CapAt(p) = tables[p[1]][p[2][1]].cap
<1>1. PICK t \in Tasks : p \in {t} \X HandlesOf(t)
  BY DEF HeldPlaces
<1>2. PICK i \in Slots : tables[t][i].cap # NoCap /\ p = <<t, <<i, tables[t][i].gen>>>>
  BY <1>1 DEF HandlesOf
<1> QED BY <1>2 DEF CapAt, Get

LEMMA InvImplies ==
  CapInv => CapTypeOK /\ OnePlace /\ RightsAttenuate /\ NoStaleAlias
<1> SUFFICES ASSUME CapInv PROVE CapTypeOK /\ OnePlace /\ RightsAttenuate /\ NoStaleAlias
  OBVIOUS
<1>1. ASSUME NEW cap \in Existing
      PROVE  cap.id \in 1..(nextCap - 1) /\ cap.rights = lineage[cap.id].rights
  <2>1. CASE cap \in Held
    <3>1. PICK p \in HeldPlaces : cap = CapAt(p)
      BY <2>1 DEF Held
    <3> QED BY SMTT(40), <3>1, PlaceFacts DEF CapInv, IdsAllocated, RightsRecorded
  <2>2. CASE cap = pending /\ pending # NoCap
    BY <2>2 DEF CapInv, IdsAllocated, RightsRecorded
  <2> QED BY SMTT(40), <1>1, <2>1, <2>2 DEF Existing
<1>2. CapTypeOK
  BY <1>1 DEF CapTypeOK, CapInv, Types, Table, Slot, Lineage
<1>3. OnePlace
  <2>1. ASSUME NEW p \in HeldPlaces, NEW q \in HeldPlaces, CapAt(p).id = CapAt(q).id
        PROVE  p = q
    <3>1. p[1] = q[1] /\ p[2][1] = q[2][1]
      BY SMTT(40), <2>1, PlaceFacts DEF CapInv, UniqueIds
    <3> QED BY SMTT(40), <3>1, PlaceFacts
  <2>2. ASSUME pending # NoCap, NEW p \in HeldPlaces
        PROVE  CapAt(p).id # pending.id
    BY SMTT(40), <2>2, PlaceFacts DEF CapInv, UniqueIds
  <2> QED BY <2>1, <2>2 DEF OnePlace
<1>4. RightsAttenuate
  BY SMTT(40), <1>1 DEF RightsAttenuate, CapInv, RightsRecorded
<1>5. NoStaleAlias
  <2> SUFFICES ASSUME NEW e \in issued, HeldAt(e[1], e[2])
               PROVE  CapAt(<<e[1], e[2]>>).id = e[3]
    BY DEF NoStaleAlias
  <2>1. life[e[1]] # "gone" /\ tables[e[1]][e[2][1]].gen = e[2][2] /\ tables[e[1]][e[2][1]].cap # NoCap
    BY DEF HeldAt, InVec, Resolves
  <2> QED BY <2>1 DEF CapInv, IssuedOK, CapAt, Get
<1> QED BY <1>2, <1>3, <1>4, <1>5

(* For any number of tasks, slots and capabilities the invariant holds.    *)
THEOREM CapInvariant == CapSpec => []CapInv
BY InitInv, StepInv, PTL DEF CapSpec

(* Every table, the capability in transit and the counters are of their    *)
(* types, and no identity is in use that create_root_cap, cap_grant and    *)
(* cap_inherit have not allocated.                                         *)
THEOREM CapTypeOKHolds == CapSpec => []CapTypeOK
BY CapInvariant, InvImplies, PTL

(* A capability is in one place, whatever is granted, inherited, moved     *)
(* through the endpoint, revoked and swept.                                *)
THEOREM OnePlaceHolds == CapSpec => []OnePlace
BY CapInvariant, InvImplies, PTL

(* Rights are only reduced along grant, exec and move.                     *)
THEOREM RightsAttenuateHolds == CapSpec => []RightsAttenuate
BY CapInvariant, InvImplies, PTL

(* A handle a task was given never resolves to another capability than the *)
(* one it was given for, as long as generations do not wrap.               *)
THEOREM NoStaleAliasHolds == CapSpec => []NoStaleAlias
BY CapInvariant, InvImplies, PTL
=============================================================================
