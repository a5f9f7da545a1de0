---------------------------- MODULE DevIrqProofs ----------------------------
(***************************************************************************)
(* Proofs about DevIrq, for any number of devices and slots: when no two   *)
(* devices share a line, no wake-up is lost between the dispatcher and     *)
(* SYS_DEV_IRQ_WAIT, and a masked line is owed an acknowledgement.         *)
(*                                                                         *)
(* Neither property is inductive alone.  A driver may go to sleep only     *)
(* because a line is not masked without an interrupt latched, which is     *)
(* MaskedIsOwed; and both need that a device has one slot and that its     *)
(* line is routed to it (Routed).                                          *)
(***************************************************************************)
EXTENDS DevIrq, WellFoundedInduction, TLAPS

(* No two devices share a line.                                            *)
OwnLine == \A d, e \in Devices : Line[d] = Line[e] => d = e

(* The slots and the redirection entries point to each other, and a driver *)
(* marked as waiting sleeps.                                               *)
Routed ==
  /\ \A s \in Slots : slots[s].dev # NoDevice =>
       /\ route[Line[slots[s].dev]] = s
       /\ at[slots[s].dev] # "unclaimed"
       /\ slots[s].waiting => at[slots[s].dev] = "blocked"
  /\ \A l \in Lines : route[l] # NoSlot =>
       slots[route[l]].dev \in Devices /\ Line[slots[route[l]].dev] = l

DevInv == DevTypeOK /\ Routed /\ SleeperReachable /\ MaskedIsOwed

Slot == [dev : Devices \cup {NoDevice}, pending : BOOLEAN, waiting : BOOLEAN]

LEMMA FirstFreeIsFree == ASSUME FreeSlots # {} PROVE FirstFree \in FreeSlots
<1>1. FreeSlots \subseteq Nat
  BY DevIrqAssumption DEF FreeSlots, SlotsOf, Slots
<1>2. PICK s \in FreeSlots : \A r \in FreeSlots : ~(<<r, s>> \in OpToRel(<, Nat))
  BY <1>1, NatLessThanWellFounded, WFMin
<1>3. \A r \in FreeSlots : ~(r < s)
  BY <1>1, <1>2 DEF OpToRel
<1>4. \A r \in FreeSlots : s <= r
  BY <1>1, <1>3
<1> QED BY <1>4 DEF FirstFree

LEMMA LineFacts == \A d \in Devices : Line[d] \in Lines
BY DEF Lines

LEMMA SlotNotNone == NoSlot \notin Slots
BY DevIrqAssumption DEF NoSlot, Slots

(* A device has one slot, the one its line is routed to.                   *)
LEMMA SlotFacts ==
  ASSUME DevInv, NEW d \in Devices, NEW s \in SlotsOf(d)
  PROVE  s \in Slots /\ slots[s].dev = d /\ route[Line[d]] = s /\ at[d] # "unclaimed"
BY DevIrqAssumption DEF DevInv, Routed, SlotsOf

LEMMA InitDevInv == DevInit => DevInv
<1> SUFFICES ASSUME DevInit PROVE DevInv
  OBVIOUS
<1>1. DevTypeOK
  BY DevIrqAssumption DEF DevInit, DevTypeOK, Inactive, NoSlot
<1>2. \A s \in Slots : slots[s].dev = NoDevice
  BY DEF DevInit, Inactive
<1>3. Routed
  BY <1>2 DEF DevInit, Routed
<1>4. SleeperReachable
  BY DEF DevInit, SleeperReachable
<1>5. MaskedIsOwed
  BY <1>2, DevIrqAssumption DEF MaskedIsOwed, SlotsOf
<1> QED BY <1>1, <1>3, <1>4, <1>5 DEF DevInv

LEMMA ClaimInv ==
  ASSUME OwnLine, DevInv, NEW d \in Devices, SysDevClaim(d)
  PROVE  DevInv'
<1>t. DevTypeOK /\ Routed /\ SleeperReachable /\ MaskedIsOwed
  BY DEF DevInv
<1>n. SlotsOf(d) = {}
  BY <1>t, DevIrqAssumption DEF SysDevClaim, Routed, SlotsOf
<1>a. /\ at' \in [Devices -> {"unclaimed", "wait", "blocked", "drain", "clear", "ack"}]
      /\ at'[d] = "wait" /\ \A e \in Devices : e # d => at'[e] = at[e]
      /\ UNCHANGED <<isr, rx>> /\ at[d] = "unclaimed"
  BY <1>t DEF SysDevClaim, DevTypeOK
<1>1. CASE FreeSlots = {}
  <2>1. UNCHANGED <<slots, route, masked>>
    BY <1>1 DEF SysDevClaim
  <2>2. DevTypeOK'
    BY <1>a, <1>t, <2>1 DEF DevTypeOK
  <2>3. Routed'
    BY <1>a, <1>n, <1>t, <2>1 DEF Routed, SlotsOf, DevTypeOK
  <2>4. SleeperReachable'
    BY <1>a, <1>t, <2>1 DEF SleeperReachable, SlotsOf
  <2>5. MaskedIsOwed'
    BY <1>a, <1>n, <1>t, <2>1 DEF MaskedIsOwed, SlotsOf
  <2> QED BY <2>2, <2>3, <2>4, <2>5 DEF DevInv
<1>2. CASE FreeSlots # {}
  <2> DEFINE f == FirstFree
             new == [Inactive EXCEPT !.dev = d]
  <2>1. /\ slots' = [slots EXCEPT ![f] = new]
        /\ route' = [route EXCEPT ![Line[d]] = f]
        /\ masked' = [masked EXCEPT ![Line[d]] = FALSE]
    BY <1>2 DEF SysDevClaim
  <2>2. f \in Slots /\ slots[f].dev = NoDevice
    BY <1>2, FirstFreeIsFree DEF FreeSlots, SlotsOf
  <2>3. new \in Slot /\ new.dev = d /\ new.waiting = FALSE /\ new.pending = FALSE
    BY DEF Slot, Inactive
  <2>4. Line[d] \in Lines
    BY LineFacts
  <2> HIDE DEF f, new
  <2>5. /\ slots' \in [Slots -> Slot] /\ slots'[f] = new /\ \A s \in Slots : s # f => slots'[s] = slots[s]
        /\ route' \in [Lines -> Slots \cup {NoSlot}] /\ route'[Line[d]] = f
        /\ \A l \in Lines : l # Line[d] => route'[l] = route[l] /\ masked'[l] = masked[l]
        /\ masked' \in [Lines -> BOOLEAN] /\ masked'[Line[d]] = FALSE
    BY <2>1, <2>2, <2>3, <2>4, <1>t DEF DevTypeOK, Slot
  <2>6. DevTypeOK'
    BY <1>a, <1>t, <2>5 DEF DevTypeOK, Slot
  <2>7. Routed'
    <3>1. ASSUME NEW s \in Slots, slots'[s].dev # NoDevice
          PROVE  /\ route'[Line[slots'[s].dev]] = s
                 /\ at'[slots'[s].dev] # "unclaimed"
                 /\ slots'[s].waiting => at'[slots'[s].dev] = "blocked"
      <4>1. CASE s = f
        BY <4>1, <2>5, <2>3, <1>a
      <4>2. CASE s # f
        <5>1. slots'[s] = slots[s] /\ slots[s].dev \in Devices /\ slots[s].dev # d
          BY <4>2, <2>5, <3>1, <1>t, <1>n DEF DevTypeOK, SlotsOf
        <5>2. Line[slots[s].dev] # Line[d] /\ Line[slots[s].dev] \in Lines
          BY <5>1, LineFacts DEF OwnLine
        <5> QED BY <5>1, <5>2, <2>5, <1>a, <1>t, <3>1 DEF Routed
      <4> QED BY <4>1, <4>2
    <3>2. ASSUME NEW l \in Lines, route'[l] # NoSlot
          PROVE  slots'[route'[l]].dev \in Devices /\ Line[slots'[route'[l]].dev] = l
      <4>1. CASE l = Line[d]
        BY <4>1, <2>5, <2>3
      <4>2. CASE l # Line[d]
        <5>1. route'[l] = route[l] /\ route[l] \in Slots /\ slots[route[l]].dev \in Devices
              /\ Line[slots[route[l]].dev] = l
          BY <4>2, <3>2, <2>5, <1>t DEF Routed, DevTypeOK
        <5>2. route[l] # f
          BY <5>1, <2>2, DevIrqAssumption
        <5> QED BY <5>1, <5>2, <2>5
      <4> QED BY <4>1, <4>2
    <3> QED BY <3>1, <3>2 DEF Routed
  <2>8. SleeperReachable'
    <3> SUFFICES ASSUME NEW e \in Devices, at'[e] = "blocked"
                 PROVE  \E s \in Slots : slots'[s].dev = e /\ slots'[s].waiting /\ ~slots'[s].pending
                                         /\ ~masked'[Line[e]]
      BY DEF SleeperReachable, SlotsOf
    <3>1. e # d /\ at[e] = "blocked"
      BY <1>a
    <3>2. PICK s \in Slots : slots[s].dev = e /\ slots[s].waiting /\ ~slots[s].pending /\ ~masked[Line[e]]
      BY <3>1, <1>t DEF SleeperReachable, SlotsOf
    <3>3. s # f
      BY <3>2, <2>2, DevIrqAssumption
    <3>4. Line[e] # Line[d] /\ Line[e] \in Lines
      BY <3>1, LineFacts DEF OwnLine
    <3> QED BY <3>2, <3>3, <3>4, <2>5
  <2>9. MaskedIsOwed'
    <3> SUFFICES ASSUME NEW e \in Devices, masked'[Line[e]], NEW s \in Slots, slots'[s].dev = e
                 PROVE  \/ \E r \in Slots : slots'[r].dev = e /\ slots'[r].pending
                        \/ at'[e] \in {"drain", "clear", "ack"}
      BY DEF MaskedIsOwed, SlotsOf
    <3>1. Line[e] # Line[d] /\ e # d /\ Line[e] \in Lines
      BY <2>5, LineFacts
    <3>2. s # f
      BY <3>1, <2>5, <2>3
    <3>3. masked[Line[e]] /\ slots[s].dev = e
      BY <3>1, <3>2, <2>5
    <3>4. (\E r \in Slots : slots[r].dev = e /\ slots[r].pending) \/ at[e] \in {"drain", "clear", "ack"}
      BY <3>3, <1>t DEF MaskedIsOwed, SlotsOf
    <3>5. \A r \in Slots : slots[r].dev = e => r # f
      BY <2>2, DevIrqAssumption
    <3> QED BY <3>1, <3>4, <3>5, <2>5, <1>a
  <2> QED BY <2>6, <2>7, <2>8, <2>9 DEF DevInv
<1> QED BY <1>1, <1>2

(* A step that leaves the lines alone and moves one driver, which neither  *)
(* sleeps before nor after it.                                             *)
LEMMA DriverMoves ==
  ASSUME DevInv, NEW d \in Devices, NEW to \in {"wait", "drain", "clear", "ack"},
         at' = [at EXCEPT ![d] = to], at[d] \in {"drain", "clear", "ack"},
         to = "wait" => ~masked'[Line[d]],
         UNCHANGED <<slots, route>>,
         \A l \in Lines : masked'[l] => masked[l],
         masked' \in [Lines -> BOOLEAN], isr' \in [Devices -> BOOLEAN], rx' \in [Devices -> 0..MaxFrames]
  PROVE  DevInv'
<1>t. DevTypeOK /\ Routed /\ SleeperReachable /\ MaskedIsOwed
  BY DEF DevInv
<1>a. /\ at' \in [Devices -> {"unclaimed", "wait", "blocked", "drain", "clear", "ack"}]
      /\ at'[d] = to /\ \A e \in Devices : e # d => at'[e] = at[e]
  BY <1>t DEF DevTypeOK
<1>1. DevTypeOK'
  BY <1>a, <1>t DEF DevTypeOK
<1>2. Routed'
  <2>1. \A s \in Slots : slots[s].dev = d => ~slots[s].waiting
    BY <1>t, DevIrqAssumption DEF Routed
  <2> QED BY <1>a, <1>t, <2>1 DEF Routed, DevTypeOK
<1>3. SleeperReachable'
  <2> SUFFICES ASSUME NEW e \in Devices, at'[e] = "blocked"
               PROVE  \E s \in SlotsOf(e)' : slots'[s].waiting /\ ~slots'[s].pending /\ ~masked'[Line[e]]
    BY DEF SleeperReachable
  <2>1. at[e] = "blocked" /\ Line[e] \in Lines
    BY <1>a, LineFacts
  <2> QED BY <2>1, <1>t DEF SleeperReachable, SlotsOf
<1>4. MaskedIsOwed'
  <2> SUFFICES ASSUME NEW e \in Devices, masked'[Line[e]], SlotsOf(e)' # {}
               PROVE  (\E s \in SlotsOf(e)' : slots'[s].pending) \/ at'[e] \in {"drain", "clear", "ack"}
    BY DEF MaskedIsOwed
  <2>1. masked[Line[e]] /\ SlotsOf(e) # {}
    BY LineFacts DEF SlotsOf
  <2>2. (\E s \in SlotsOf(e) : slots[s].pending) \/ at[e] \in {"drain", "clear", "ack"}
    BY <2>1, <1>t DEF MaskedIsOwed
  <2>3. e = d => at'[e] \in {"drain", "clear", "ack"}
    BY <1>a
  <2> QED BY <2>2, <2>3, <1>a DEF SlotsOf
<1> QED BY <1>1, <1>2, <1>3, <1>4 DEF DevInv

LEMMA RecvIntoInv ==
  ASSUME DevInv, NEW d \in Devices, RecvInto(d)
  PROVE  DevInv'
<1>t. DevTypeOK
  BY DEF DevInv
<1>1. at[d] = "drain" /\ UNCHANGED <<slots, route, masked, isr>>
  BY DEF RecvInto
<1>2. rx' \in [Devices -> 0..MaxFrames]
  BY <1>t, DevIrqAssumption DEF RecvInto, DevTypeOK
<1>3. at' = [at EXCEPT ![d] = "drain"] \/ at' = [at EXCEPT ![d] = "clear"]
  BY <1>t, <1>1 DEF RecvInto, DevTypeOK
<1> QED BY <1>t, <1>1, <1>2, <1>3, DriverMoves DEF DevTypeOK

LEMMA ReadIsrInv ==
  ASSUME DevInv, NEW d \in Devices, ReadIsr(d)
  PROVE  DevInv'
<1>1. isr' \in [Devices -> BOOLEAN] /\ masked \in [Lines -> BOOLEAN] /\ rx \in [Devices -> 0..MaxFrames]
  BY DEF DevInv, ReadIsr, DevTypeOK
<1>2. at[d] = "clear" /\ at' = [at EXCEPT ![d] = "ack"] /\ UNCHANGED <<slots, route, masked, rx>>
  BY DEF ReadIsr
<1> QED BY <1>1, <1>2, DriverMoves

LEMMA AckInv ==
  ASSUME DevInv, NEW d \in Devices, SysDevIrqAck(d)
  PROVE  DevInv'
<1>1. masked \in [Lines -> BOOLEAN] /\ isr \in [Devices -> BOOLEAN] /\ rx \in [Devices -> 0..MaxFrames]
  BY DEF DevInv, DevTypeOK
<1>2. /\ at[d] = "ack" /\ at' = [at EXCEPT ![d] = "wait"] /\ UNCHANGED <<slots, route, isr, rx>>
      /\ masked' = [masked EXCEPT ![Line[d]] = FALSE]
  BY DEF SysDevIrqAck
<1>3. masked' \in [Lines -> BOOLEAN] /\ ~masked'[Line[d]] /\ \A l \in Lines : masked'[l] => masked[l]
  BY <1>1, <1>2, LineFacts
<1> QED BY <1>1, <1>2, <1>3, DriverMoves

LEMMA FrameInv ==
  ASSUME DevInv, NEW d \in Devices, FrameArrives(d)
  PROVE  DevInv'
<1>1. DevTypeOK'
  BY DevIrqAssumption DEF DevInv, FrameArrives, DevTypeOK
<1> QED BY <1>1 DEF DevInv, FrameArrives, Routed, SleeperReachable, MaskedIsOwed, SlotsOf

LEMMA WaitInv ==
  ASSUME DevInv, NEW d \in Devices, SysDevIrqWait(d)
  PROVE  DevInv'
<1>t. DevTypeOK /\ Routed /\ SleeperReachable /\ MaskedIsOwed
  BY DEF DevInv
<1>s. PICK s \in SlotsOf(d) :
        IF slots[s].pending
        THEN slots' = [slots EXCEPT ![s].pending = FALSE] /\ at' = [at EXCEPT ![d] = "drain"]
        ELSE slots' = [slots EXCEPT ![s].waiting = TRUE] /\ at' = [at EXCEPT ![d] = "blocked"]
  BY DEF SysDevIrqWait
<1>u. at[d] = "wait" /\ UNCHANGED <<route, masked, isr, rx>>
  BY DEF SysDevIrqWait
<1>f. s \in Slots /\ slots[s].dev = d /\ route[Line[d]] = s /\ slots[s] \in Slot
  BY <1>t, SlotFacts DEF DevTypeOK, Slot
<1>o. \A r \in Slots : slots[r].dev = d => r = s
  BY <1>f, <1>t, DevIrqAssumption DEF Routed
<1>w. ~slots[s].waiting
  BY <1>f, <1>u, <1>t, DevIrqAssumption DEF Routed
<1> DEFINE took == slots[s].pending
           to == IF took THEN "drain" ELSE "blocked"
<1>1. /\ slots' \in [Slots -> Slot]
      /\ \A r \in Slots : r # s => slots'[r] = slots[r]
      /\ slots'[s].dev = d /\ slots'[s].pending = FALSE
      /\ slots'[s].waiting = IF took THEN FALSE ELSE TRUE
  <2> DEFINE new == IF took THEN [slots[s] EXCEPT !.pending = FALSE] ELSE [slots[s] EXCEPT !.waiting = TRUE]
  <2>1. slots' = [slots EXCEPT ![s] = new]
    BY <1>s
  <2>2. new \in Slot /\ new.dev = d /\ new.pending = FALSE /\ new.waiting = IF took THEN FALSE ELSE TRUE
    <3>1. slots[s].pending \in BOOLEAN /\ slots[s].waiting = FALSE
      BY <1>f, <1>w DEF Slot
    <3> QED BY <3>1, <1>f DEF Slot
  <2> HIDE DEF new
  <2> QED BY <2>1, <2>2, <1>f, <1>t DEF DevTypeOK, Slot
<1>a. /\ at' \in [Devices -> {"unclaimed", "wait", "blocked", "drain", "clear", "ack"}]
      /\ at'[d] = to /\ \A e \in Devices : e # d => at'[e] = at[e]
  BY <1>s, <1>t DEF DevTypeOK
<1>2. DevTypeOK'
  BY <1>1, <1>a, <1>t, <1>u DEF DevTypeOK, Slot
<1>d. \A r \in Slots : slots'[r].dev = slots[r].dev
  BY <1>1, <1>f
<1>3. Routed'
  <2>1. ASSUME NEW r \in Slots, slots'[r].dev # NoDevice
        PROVE  /\ route'[Line[slots'[r].dev]] = r
               /\ at'[slots'[r].dev] # "unclaimed"
               /\ slots'[r].waiting => at'[slots'[r].dev] = "blocked"
    <3>1. CASE r = s
      BY <3>1, <1>1, <1>a, <1>f, <1>u
    <3>2. CASE r # s
      <4>1. slots'[r] = slots[r] /\ slots[r].dev # d /\ slots[r].dev \in Devices
        BY <3>2, <2>1, <1>1, <1>o, <1>t DEF DevTypeOK
      <4> QED BY <4>1, <2>1, <1>a, <1>u, <1>t DEF Routed
    <3> QED BY <3>1, <3>2
  <2>2. ASSUME NEW l \in Lines, route'[l] # NoSlot
        PROVE  slots'[route'[l]].dev \in Devices /\ Line[slots'[route'[l]].dev] = l
    <3>1. route[l] \in Slots
      BY <2>2, <1>u, <1>t DEF DevTypeOK
    <3> QED BY <3>1, <2>2, <1>d, <1>u, <1>t DEF Routed
  <2> QED BY <2>1, <2>2 DEF Routed
<1>4. SleeperReachable'
  <2> SUFFICES ASSUME NEW e \in Devices, at'[e] = "blocked"
               PROVE  \E r \in Slots : slots'[r].dev = e /\ slots'[r].waiting /\ ~slots'[r].pending
                                       /\ ~masked'[Line[e]]
    BY DEF SleeperReachable, SlotsOf
  <2>1. CASE e = d
    <3>1. ~took
      BY <2>1, <1>a
    <3>2. ~masked[Line[d]]
      <4>1. SlotsOf(d) # {} /\ \A r \in SlotsOf(d) : ~slots[r].pending
        BY <1>s, <1>o, <3>1 DEF SlotsOf
      <4> QED BY <4>1, <1>u, <1>t DEF MaskedIsOwed
    <3> QED BY <2>1, <3>1, <3>2, <1>1, <1>f, <1>u
  <2>2. CASE e # d
    <3>1. PICK r \in Slots : slots[r].dev = e /\ slots[r].waiting /\ ~slots[r].pending /\ ~masked[Line[e]]
      BY <2>2, <1>a, <1>t DEF SleeperReachable, SlotsOf
    <3> QED BY <2>2, <3>1, <1>1, <1>f, <1>u
  <2> QED BY <2>1, <2>2
<1>5. MaskedIsOwed'
  <2> SUFFICES ASSUME NEW e \in Devices, masked'[Line[e]], NEW r \in Slots, slots'[r].dev = e
               PROVE  \/ \E q \in Slots : slots'[q].dev = e /\ slots'[q].pending
                      \/ at'[e] \in {"drain", "clear", "ack"}
    BY DEF MaskedIsOwed, SlotsOf
  <2>1. (\E q \in Slots : slots[q].dev = e /\ slots[q].pending) \/ at[e] \in {"drain", "clear", "ack"}
    BY <1>d, <1>u, <1>t DEF MaskedIsOwed, SlotsOf
  <2>2. CASE e = d
    <3>1. took
      BY <2>1, <2>2, <1>o, <1>u
    <3> QED BY <2>2, <3>1, <1>a
  <2>3. CASE e # d
    BY <2>1, <2>3, <1>1, <1>a, <1>f
  <2> QED BY <2>2, <2>3
<1> QED BY <1>2, <1>3, <1>4, <1>5 DEF DevInv

LEMMA DispatchInv ==
  ASSUME OwnLine, DevInv, NEW l \in Lines, DeviceIrqDispatch(l)
  PROVE  DevInv'
<1>t. DevTypeOK /\ Routed /\ SleeperReachable /\ MaskedIsOwed
  BY DEF DevInv
<1> DEFINE s == route[l]
           d == slots[s].dev
           new == [slots[s] EXCEPT !.pending = TRUE, !.waiting = FALSE]
<1>1. /\ s # NoSlot /\ masked' = [masked EXCEPT ![l] = TRUE]
      /\ slots' = [slots EXCEPT ![s] = new]
      /\ at' = IF slots[s].waiting THEN [at EXCEPT ![d] = "wait"] ELSE at
      /\ UNCHANGED <<route, isr, rx>>
  BY DEF DeviceIrqDispatch
<1>2. s \in Slots /\ slots[s] \in Slot /\ d \in Devices /\ Line[d] = l /\ route[Line[d]] = s
  BY <1>1, <1>t DEF DevTypeOK, Routed, Slot
<1>3. new \in Slot /\ new.dev = d /\ new.pending = TRUE /\ new.waiting = FALSE
  BY <1>2 DEF Slot
<1> HIDE DEF new, d
<1>4. /\ slots' \in [Slots -> Slot] /\ slots'[s] = new /\ \A r \in Slots : r # s => slots'[r] = slots[r]
      /\ masked' \in [Lines -> BOOLEAN] /\ masked'[l] /\ \A m \in Lines : m # l => masked'[m] = masked[m]
  BY <1>1, <1>2, <1>3, <1>t DEF DevTypeOK, Slot
<1>a. /\ at' \in [Devices -> {"unclaimed", "wait", "blocked", "drain", "clear", "ack"}]
      /\ \A e \in Devices : e # d => at'[e] = at[e]
      /\ at'[d] = at[d] \/ at'[d] = "wait"
      /\ slots[s].waiting => at'[d] = "wait"
  BY <1>1, <1>2, <1>t DEF DevTypeOK
<1>o. \A r \in Slots : slots[r].dev = d => r = s
  BY <1>2, <1>t, DevIrqAssumption DEF Routed
<1>b. at[d] = "blocked" => slots[s].waiting
  BY <1>2, <1>o, <1>t DEF SleeperReachable, SlotsOf
<1>d. \A r \in Slots : slots'[r].dev = slots[r].dev
  BY <1>3, <1>4 DEF d
<1>5. DevTypeOK'
  BY <1>1, <1>4, <1>a, <1>t DEF DevTypeOK, Slot
<1>6. Routed'
  <2>1. ASSUME NEW r \in Slots, slots'[r].dev # NoDevice
        PROVE  /\ route'[Line[slots'[r].dev]] = r
               /\ at'[slots'[r].dev] # "unclaimed"
               /\ slots'[r].waiting => at'[slots'[r].dev] = "blocked"
    <3>1. CASE r = s
      <4>1. at[d] # "unclaimed"
        BY <1>2, <1>t, DevIrqAssumption DEF Routed, d
      <4> QED BY <3>1, <4>1, <1>1, <1>2, <1>3, <1>4, <1>a
    <3>2. CASE r # s
      <4>1. slots'[r] = slots[r] /\ slots[r].dev # d /\ slots[r].dev \in Devices
        BY <3>2, <2>1, <1>4, <1>o, <1>t DEF DevTypeOK
      <4> QED BY <4>1, <2>1, <1>a, <1>1, <1>t DEF Routed
    <3> QED BY <3>1, <3>2
  <2>2. ASSUME NEW m \in Lines, route'[m] # NoSlot
        PROVE  slots'[route'[m]].dev \in Devices /\ Line[slots'[route'[m]].dev] = m
    <3>1. route[m] \in Slots
      BY <2>2, <1>1, <1>t DEF DevTypeOK
    <3> QED BY <3>1, <2>2, <1>d, <1>1, <1>t DEF Routed
  <2> QED BY <2>1, <2>2 DEF Routed
<1>7. SleeperReachable'
  <2> SUFFICES ASSUME NEW e \in Devices, at'[e] = "blocked"
               PROVE  \E r \in Slots : slots'[r].dev = e /\ slots'[r].waiting /\ ~slots'[r].pending
                                       /\ ~masked'[Line[e]]
    BY DEF SleeperReachable, SlotsOf
  <2>1. e # d /\ at[e] = "blocked"
    BY <1>a, <1>b
  <2>2. Line[e] # l /\ Line[e] \in Lines
    BY <2>1, <1>2, LineFacts DEF OwnLine
  <2>3. PICK r \in Slots : slots[r].dev = e /\ slots[r].waiting /\ ~slots[r].pending /\ ~masked[Line[e]]
    BY <2>1, <1>t DEF SleeperReachable, SlotsOf
  <2>4. r # s
    BY <2>1, <2>3 DEF d
  <2> QED BY <2>2, <2>3, <2>4, <1>4
<1>8. MaskedIsOwed'
  <2> SUFFICES ASSUME NEW e \in Devices, masked'[Line[e]], NEW r \in Slots, slots'[r].dev = e
               PROVE  \/ \E q \in Slots : slots'[q].dev = e /\ slots'[q].pending
                      \/ at'[e] \in {"drain", "clear", "ack"}
    BY DEF MaskedIsOwed, SlotsOf
  <2>1. CASE e = d
    BY <2>1, <1>2, <1>3, <1>4
  <2>2. CASE e # d
    <3>1. Line[e] # l /\ Line[e] \in Lines
      BY <2>2, <1>2, LineFacts DEF OwnLine
    <3>2. masked[Line[e]] /\ slots[r].dev = e
      BY <3>1, <1>4, <1>d
    <3>3. (\E q \in Slots : slots[q].dev = e /\ slots[q].pending) \/ at[e] \in {"drain", "clear", "ack"}
      BY <3>2, <1>t DEF MaskedIsOwed, SlotsOf
    <3> QED BY <2>2, <3>3, <1>4, <1>a DEF d
  <2> QED BY <2>1, <2>2
<1> QED BY <1>5, <1>6, <1>7, <1>8 DEF DevInv

LEMMA NextDevInv == OwnLine /\ DevInv /\ [DevNext]_devVars => DevInv'
<1> SUFFICES ASSUME OwnLine, DevInv, [DevNext]_devVars PROVE DevInv'
  OBVIOUS
<1>1. CASE UNCHANGED devVars
  BY <1>1 DEF devVars, DevInv, DevTypeOK, Routed, SleeperReachable, MaskedIsOwed, SlotsOf
<1>2. CASE DevNext
  BY <1>2, ClaimInv, FrameInv, WaitInv, RecvIntoInv, ReadIsrInv, AckInv, DispatchInv
     DEF DevNext, DriverStep
<1> QED BY <1>1, <1>2

(* The invariant, for any number of devices on lines of their own.         *)
THEOREM DevInvariant == ASSUME OwnLine PROVE DevSpec => []DevInv
BY OwnLine, InitDevInv, NextDevInv, PTL DEF DevSpec

(* No wake-up is lost: a driver blocked in SYS_DEV_IRQ_WAIT is known to    *)
(* its slot, nothing is latched behind its back and its line is open.      *)
THEOREM SleeperReachableHolds == ASSUME OwnLine PROVE DevSpec => []SleeperReachable
<1>1. DevInv => SleeperReachable
  BY DEF DevInv
<1> QED BY OwnLine, <1>1, DevInvariant, PTL

(* No line stays masked with nobody left to unmask it: device_irq_dispatch *)
(* masks it only for a driver that is yet to acknowledge.                  *)
THEOREM MaskedIsOwedHolds == ASSUME OwnLine PROVE DevSpec => []MaskedIsOwed
<1>1. DevInv => MaskedIsOwed
  BY DEF DevInv
<1> QED BY OwnLine, <1>1, DevInvariant, PTL
=============================================================================
