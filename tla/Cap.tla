--------------------------------- MODULE Cap ---------------------------------
(***************************************************************************)
(* The capability system of kernel/src/cap.rs behind its system calls:     *)
(* per-task tables of generation-tagged slots, grant, cascading            *)
(* revocation, inheritance at exec, the move of a capability through an    *)
(* endpoint, and the creation and lookup of endpoints.                     *)
(*                                                                         *)
(* Every call here runs with interrupts off from its entry, so each is one *)
(* step (a recv_cap that blocks inserts what it receives in one step when  *)
(* it is resumed).  A task that has died keeps its table until sweep_dead  *)
(* removes it, and cap_table_ptr finds it until then.                      *)
(*                                                                         *)
(* Kernel objects are never destroyed after boot, so a capability names    *)
(* its endpoint directly.                                                  *)
(***************************************************************************)
EXTENDS Integers, FiniteSets

CONSTANTS Tasks,        \* task ids, in the order of their creation: 1..n
          MaxCaps,      \* bound: capabilities ever created
          MaxSlots,     \* bound: slots of one table
          MaxEndpoints, \* MAX_ENDPOINTS (1024 in the code)
          MaxGen,       \* bound: uses of one slot (the code wraps after 2^32)
          Masks         \* the rights masks used by callers

Rights == {"READ", "WRITE", "GRANT", "REVOKE"}

ASSUME CapAssumption ==
  /\ Tasks \subseteq Nat \ {0} /\ 1 \in Tasks
  /\ MaxCaps \in Nat \ {0} /\ MaxSlots \in Nat \ {0}
  /\ MaxEndpoints \in Nat \ {0} /\ MaxGen \in Nat \ {0}
  /\ Masks \subseteq SUBSET Rights

VARIABLES tables,    \* task -> slot -> [gen, cap]; gen is -1 where there is no slot yet
          life,      \* task -> "unborn", "live", "dead" (not yet swept) or "gone"
          nextCap,   \* NEXT_CAP_ID
          endpoints, \* number of endpoints created
          name,      \* the endpoint bound to the one name, or NoEndpoint
          pending,   \* pending_cap of the one endpoint capabilities are sent through
          lineage,   \* history: id -> [from, how, rights], how it came to be
          issued     \* history: <<task, handle, id>> for each insertion

capVars == <<tables, life, nextCap, endpoints, name, pending, lineage, issued>>

CapIds == 1..MaxCaps
Slots == 0..(MaxSlots - 1)
Handles == Slots \X (0..(MaxGen - 1))
NoEndpoint == 0
NoId == 0
Capability == [id : 0..MaxCaps, rights : SUBSET Rights, object : 0..MaxEndpoints,
               parent : 0..MaxCaps, children : SUBSET (Tasks \X Handles)]
NoCap == [id |-> NoId, rights |-> {}, object |-> NoEndpoint, parent |-> NoId, children |-> {}]
NewCap(rights, object, parent) ==
  [id |-> nextCap, rights |-> rights, object |-> object, parent |-> parent, children |-> {}]

-----------------------------------------------------------------------------
(* CapabilityTable.                                                        *)

\* get: the slot is there, has the generation of the handle, and is not empty.
Resolves(tab, h) == tab[h[1]].gen = h[2] /\ tab[h[1]].cap # NoCap
Get(tab, h) == tab[h[1]].cap

\* The first vacant slot, if there is one.
FirstVacant(tab) == {i \in Slots : tab[i].cap = NoCap /\ \A j \in Slots : j < i => tab[j].cap # NoCap}

\* Mutant: a slot is reused under its old generation.
FreshHandleSameGen(tab) ==
  LET i == CHOOSE i \in FirstVacant(tab) : TRUE IN <<i, IF tab[i].gen = -1 THEN 0 ELSE tab[i].gen>>

\* The handle insert returns: the first vacant slot under its next generation,
\* which is 0 for a slot that is pushed.
FreshHandle(tab) == LET i == CHOOSE i \in FirstVacant(tab) : TRUE IN <<i, tab[i].gen + 1>>

Insert(tab, cap) ==
  LET h == FreshHandle(tab) IN [tab EXCEPT ![h[1]] = [gen |-> h[2], cap |-> cap]]

\* Mutant: the capability stays in the table.
TakeCopies(tab, h) == tab

Take(tab, h) == [tab EXCEPT ![h[1]].cap = NoCap]

EmptyTable == [i \in Slots |-> [gen |-> -1, cap |-> NoCap]]

\* cap_table_ptr: null for a task that is not in the Vec.
InVec(t) == life[t] \in {"live", "dead"}

HeldAt(t, h) == InVec(t) /\ Resolves(tables[t], h)

-----------------------------------------------------------------------------
\* lythd starts with a root capability that has all rights.
CapInit ==
  /\ tables = [t \in Tasks |-> IF t = 1 THEN [EmptyTable EXCEPT ![0] =
                  [gen |-> 0, cap |-> [id |-> 1, rights |-> Rights, object |-> 1, parent |-> NoId, children |-> {}]]]
                ELSE EmptyTable]
  /\ life = [t \in Tasks |-> IF t = 1 THEN "live" ELSE "unborn"]
  /\ nextCap = 2
  /\ endpoints = 1
  /\ name = NoEndpoint
  /\ pending = NoCap
  /\ lineage = [c \in CapIds |-> IF c = 1 THEN [from |-> NoId, how |-> "root", rights |-> Rights]
                                          ELSE [from |-> NoId, how |-> "none", rights |-> {}]]
  /\ issued = {<<1, <<0, 0>>, 1>>}

Calling(t) == life[t] = "live"
HasRoom(tab) == FirstVacant(tab) # {} /\ FreshHandle(tab) \in Handles
CanInsert(t) == nextCap <= MaxCaps /\ HasRoom(tables[t])

\* Mutant: the identity is not advanced.
CreatedSameId(u, from, how, rights) ==
  /\ nextCap' = nextCap
  /\ lineage' = [lineage EXCEPT ![nextCap] = [from |-> from, how |-> how, rights |-> rights]]
  /\ issued' = issued \cup {<<u, FreshHandle(tables[u]), nextCap>>}

\* The history of an insertion of the capability nextCap into u's table.
Created(u, from, how, rights) ==
  /\ nextCap' = nextCap + 1
  /\ lineage' = [lineage EXCEPT ![nextCap] = [from |-> from, how |-> how, rights |-> rights]]
  /\ issued' = issued \cup {<<u, FreshHandle(tables[u]), nextCap>>}

\* Mutant: the new capability has the rights of the mask.
SysCapGrantMask(t, h, u, mask) ==
  LET cap == Get(tables[t], h) IN
  /\ Calling(t) /\ HeldAt(t, h)
  /\ InVec(u) /\ u # t
  /\ "GRANT" \in cap.rights
  /\ CanInsert(u)
  /\ tables' = [tables EXCEPT ![u] = Insert(@, NewCap(mask, cap.object, cap.id)),
                              ![t][h[1]].cap.children = @ \cup {<<u, FreshHandle(tables[u])>>}]
  /\ Created(u, cap.id, "grant", mask)
  /\ UNCHANGED <<life, endpoints, name, pending>>

\* Mutant: the child is recorded under the generation its slot had before.
SysCapGrantOldGen(t, h, u, mask) ==
  LET cap == Get(tables[t], h)
      rights == cap.rights \cap mask
      fresh == FreshHandle(tables[u])
  IN
  /\ Calling(t) /\ HeldAt(t, h)
  /\ InVec(u) /\ u # t
  /\ "GRANT" \in cap.rights
  /\ CanInsert(u)
  /\ tables' = [tables EXCEPT ![u] = Insert(@, NewCap(rights, cap.object, cap.id)),
                              ![t][h[1]].cap.children =
                                 @ \cup {<<u, <<fresh[1], IF fresh[2] = 0 THEN 0 ELSE fresh[2] - 1>>>>}]
  /\ Created(u, cap.id, "grant", rights)
  /\ UNCHANGED <<life, endpoints, name, pending>>

\* SYS_CAP_GRANT: attenuate, insert into the target's table, record the child.
SysCapGrant(t, h, u, mask) ==
  LET cap == Get(tables[t], h)
      rights == cap.rights \cap mask
  IN
  /\ Calling(t) /\ HeldAt(t, h)
  /\ InVec(u) /\ u # t
  /\ "GRANT" \in cap.rights
  /\ CanInsert(u)
  /\ tables' = [tables EXCEPT ![u] = Insert(@, NewCap(rights, cap.object, cap.id)),
                              ![t][h[1]].cap.children = @ \cup {<<u, FreshHandle(tables[u])>>}]
  /\ Created(u, cap.id, "grant", rights)
  /\ UNCHANGED <<life, endpoints, name, pending>>

\* Mutant: the generation of a child handle is not compared.
ChildrenOfAnyGen(p) ==
  {<<q[1], <<q[2][1], tables[q[1]][q[2][1]].gen>>>> : q \in
     {q \in Get(tables[p[1]], p[2]).children : InVec(q[1]) /\ tables[q[1]][q[2][1]].cap # NoCap}}

\* cascade_force: the places reached from one place through children whose
\* handles still resolve, each visited once since its capability is then gone.
ChildrenOf(p) == {q \in Get(tables[p[1]], p[2]).children : HeldAt(q[1], q[2])}
Cascade(t, h) ==
  LET reach[n \in 0..MaxCaps] ==
        IF n = 0 THEN {<<t, h>>}
        ELSE LET above == reach[n - 1] IN above \cup UNION {ChildrenOf(p) : p \in above}
  IN reach[MaxCaps]

\* SYS_CAP_REVOKE.
SysCapRevoke(t, h) ==
  /\ Calling(t) /\ HeldAt(t, h)
  /\ "REVOKE" \in Get(tables[t], h).rights
  /\ LET gone == Cascade(t, h) IN
     tables' = [u \in Tasks |-> [i \in Slots |->
                  IF <<u, <<i, tables[u][i].gen>>>> \in gone
                    THEN [tables[u][i] EXCEPT !.cap = NoCap] ELSE tables[u][i]]]
  /\ UNCHANGED <<life, nextCap, endpoints, name, pending, lineage, issued>>

\* The next task id.
NextTask == {u \in Tasks : life[u] = "unborn" /\ \A v \in Tasks : v < u => life[v] # "unborn"}

\* SYS_EXEC with one handle: cap_inherit copies the capability without asking for
\* the Grant right and records no child.
SysExec(t, h) ==
  LET cap == Get(tables[t], h) IN
  /\ Calling(t) /\ HeldAt(t, h)
  /\ \E u \in NextTask :
     /\ CanInsert(u)
     /\ life' = [life EXCEPT ![u] = "live"]
     /\ tables' = [tables EXCEPT ![u] = Insert(@, NewCap(cap.rights, cap.object, cap.parent))]
     /\ Created(u, cap.id, "inherit", cap.rights)
  /\ UNCHANGED <<endpoints, name, pending>>

\* SYS_EXEC with no handle, or with one that does not resolve and is ignored.
SysExecBare(t) ==
  /\ Calling(t)
  /\ \E u \in NextTask : life' = [life EXCEPT ![u] = "live"]
  /\ UNCHANGED <<tables, nextCap, endpoints, name, pending, lineage, issued>>

\* SYS_IPC_SEND_CAP over a handle e with the WRITE right: the capability h is
\* taken out of the table and replaces whatever was in transit.
SysIpcSendCap(t, e, h) ==
  /\ Calling(t) /\ HeldAt(t, e) /\ "WRITE" \in Get(tables[t], e).rights
  /\ HeldAt(t, h)
  /\ pending' = Get(tables[t], h)
  /\ tables' = [tables EXCEPT ![t] = Take(@, h)]
  /\ UNCHANGED <<life, nextCap, endpoints, name, lineage, issued>>

\* SYS_IPC_RECV_CAP over a handle e with the READ right: with an out pointer
\* what was in transit goes into the table, without one it is dropped.
SysIpcRecvCap(t, e, out) ==
  /\ Calling(t) /\ HeldAt(t, e) /\ "READ" \in Get(tables[t], e).rights
  /\ pending # NoCap
  /\ pending' = NoCap
  /\ \/ /\ out /\ HasRoom(tables[t])
        /\ tables' = [tables EXCEPT ![t] = Insert(@, pending)]
        /\ issued' = issued \cup {<<t, FreshHandle(tables[t]), pending.id>>}
     \/ /\ ~out
        /\ UNCHANGED <<tables, issued>>
  /\ UNCHANGED <<life, nextCap, endpoints, name, lineage>>

\* SYS_IPC_CREATE: a new endpoint and a root capability with all rights.
SysIpcCreate(t) ==
  /\ Calling(t) /\ endpoints < MaxEndpoints /\ CanInsert(t)
  /\ endpoints' = endpoints + 1
  /\ tables' = [tables EXCEPT ![t] = Insert(@, NewCap(Rights, endpoints', NoId))]
  /\ Created(t, NoId, "root", Rights)
  /\ UNCHANGED <<life, name, pending>>

\* SYS_IPC_BIND of the name, with the GRANT right.
SysIpcBind(t, h) ==
  /\ Calling(t) /\ HeldAt(t, h) /\ "GRANT" \in Get(tables[t], h).rights
  /\ name = NoEndpoint
  /\ name' = Get(tables[t], h).object
  /\ UNCHANGED <<tables, life, nextCap, endpoints, pending, lineage, issued>>

\* SYS_IPC_LOOKUP: a root capability with what the mask has of READ and WRITE,
\* both if it has neither.
SysIpcLookup(t, mask) ==
  LET asked == mask \cap {"READ", "WRITE"}
      rights == IF asked = {} THEN {"READ", "WRITE"} ELSE asked
  IN
  /\ Calling(t) /\ name # NoEndpoint /\ CanInsert(t)
  /\ tables' = [tables EXCEPT ![t] = Insert(@, NewCap(rights, name, NoId))]
  /\ Created(t, NoId, "root", rights)
  /\ UNCHANGED <<life, endpoints, name, pending>>

\* task_exit or kill_task; lythd does not exit.
TaskDies(t) ==
  /\ t # 1 /\ Calling(t)
  /\ life' = [life EXCEPT ![t] = "dead"]
  /\ UNCHANGED <<tables, nextCap, endpoints, name, pending, lineage, issued>>

\* sweep_dead drops every dead task with its table.
SweepDead ==
  /\ \E t \in Tasks : life[t] = "dead"
  /\ life' = [t \in Tasks |-> IF life[t] = "dead" THEN "gone" ELSE life[t]]
  /\ tables' = [t \in Tasks |-> IF life[t] = "dead" THEN EmptyTable ELSE tables[t]]
  /\ UNCHANGED <<nextCap, endpoints, name, pending, lineage, issued>>

\* The handles of t that resolve; a call with any other returns an error.
HandlesOf(t) == {<<i, tables[t][i].gen>> : i \in {j \in Slots : tables[t][j].cap # NoCap}}

CapNext ==
  \/ \E t, u \in Tasks : \E h \in HandlesOf(t), mask \in Masks : SysCapGrant(t, h, u, mask)
  \/ \E t \in Tasks : \E h \in HandlesOf(t) : SysCapRevoke(t, h)
  \/ \E t \in Tasks : \E h \in HandlesOf(t) : SysExec(t, h)
  \/ \E t \in Tasks : SysExecBare(t)
  \/ \E t \in Tasks : \E e, h \in HandlesOf(t) : SysIpcSendCap(t, e, h)
  \/ \E t \in Tasks : \E e \in HandlesOf(t), out \in BOOLEAN : SysIpcRecvCap(t, e, out)
  \/ \E t \in Tasks : SysIpcCreate(t)
  \/ \E t \in Tasks : \E h \in HandlesOf(t) : SysIpcBind(t, h)
  \/ \E t \in Tasks, mask \in Masks : SysIpcLookup(t, mask)
  \/ \E t \in Tasks : TaskDies(t)
  \/ SweepDead

CapSpec == CapInit /\ [][CapNext]_capVars

-----------------------------------------------------------------------------
\* Every capability there is: in a table of a task of the Vec, or in transit.
HeldPlaces == UNION {{t} \X HandlesOf(t) : t \in {u \in Tasks : InVec(u)}}
CapAt(p) == Get(tables[p[1]], p[2])
Held == {CapAt(p) : p \in HeldPlaces}
Existing == Held \cup ({pending} \ {NoCap})

\* The grants below an id: derived from it directly or through others.
GrantedBy(c) == {d \in CapIds : lineage[d].how = "grant" /\ lineage[d].from = c}
Descendants(c) ==
  LET below[n \in 0..MaxCaps] ==
        IF n = 0 THEN GrantedBy(c)
        ELSE LET above == below[n - 1] IN above \cup UNION {GrantedBy(d) : d \in above}
  IN below[MaxCaps]

\* The types, and every identity in use has been allocated.
CapTypeOK ==
  /\ tables \in [Tasks -> [Slots -> [gen : -1..(MaxGen - 1), cap : Capability]]]
  /\ life \in [Tasks -> {"unborn", "live", "dead", "gone"}]
  /\ nextCap \in 1..(MaxCaps + 1)
  /\ endpoints \in 1..MaxEndpoints /\ name \in 0..MaxEndpoints
  /\ pending \in Capability
  /\ lineage \in [CapIds -> [from : 0..MaxCaps, how : {"none", "root", "grant", "inherit"}, rights : SUBSET Rights]]
  /\ \A cap \in Existing : cap.id \in 1..(nextCap - 1)

\* A capability is in one place: the move through an endpoint and the copy at
\* grant and exec never leave two capabilities with one identity.
OnePlace ==
  /\ \A p, q \in HeldPlaces : CapAt(p).id = CapAt(q).id => p = q
  /\ pending # NoCap => \A p \in HeldPlaces : CapAt(p).id # pending.id

\* "Rights can only be reduced in transit" (docs/spec/capabilities.md): along
\* grant, exec and move a capability never has a right that the one it came from
\* was created without.
RightsAttenuate ==
  \A cap \in Existing :
    /\ cap.rights = lineage[cap.id].rights
    /\ lineage[cap.id].how \in {"grant", "inherit"} =>
         cap.rights \subseteq lineage[lineage[cap.id].from].rights

\* "Stale handles never alias live capabilities" (docs/spec/capabilities.md):
\* a handle a task was ever given resolves, in its table, to the capability it
\* was given for or to nothing, whatever was revoked, moved and inserted since.
NoStaleAlias ==
  \A e \in issued : HeldAt(e[1], e[2]) => CapAt(<<e[1], e[2]>>).id = e[3]

\* What cascade_force relies on: while a capability is where a grant put it, the
\* capability it was granted from lists it, wherever that one has been moved.
GrantsRecorded ==
  \A p \in HeldPlaces, cap \in Existing :
    LET child == CapAt(p) IN
    /\ lineage[child.id].how = "grant" /\ lineage[child.id].from = cap.id
    /\ {e \in issued : e[3] = child.id} = {<<p[1], p[2], child.id>>}
    => p \in cap.children

\* A revocation takes nothing but the capability and grants below it: a
\* capability leaves a table only so, by a move, or with its task.
RevokesOnlyDescendants ==
  [][\A p \in HeldPlaces :
       LET c == CapAt(p).id IN
       \/ \E q \in HeldPlaces' : CapAt(q)'.id = c
       \/ pending'.id = c
       \/ life[p[1]] = "dead"
       \/ \E q \in HeldPlaces : /\ c = CapAt(q).id \/ c \in Descendants(CapAt(q).id)
                              /\ SysCapRevoke(q[1], q[2])]_capVars
=============================================================================
