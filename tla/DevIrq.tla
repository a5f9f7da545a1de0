------------------------------- MODULE DevIrq -------------------------------
(***************************************************************************)
(* Interrupts of devices driven from user space: the slots and the         *)
(* dispatcher of kernel/src/device.rs, the I/O APIC lines they use, and    *)
(* the service loop of the network daemon (userspace/daemons/netd) as the  *)
(* driver of each device.                                                  *)
(*                                                                         *)
(* A PCI interrupt is level-triggered: the line is up as long as some      *)
(* device on it has its ISR bit set.  The dispatcher runs when interrupts  *)
(* are enabled, so between any two steps of a driver; irq_wait tests and   *)
(* blocks with interrupts off, in one step.                                *)
(***************************************************************************)
EXTENDS Integers, FiniteSets

CONSTANTS Devices,    \* devices in the registry
          Line,       \* device -> its GSI
          MaxDevIrqs, \* MAX_DEV_IRQS (4 in the code)
          MaxFrames   \* bound: frames in a device's receive ring

Slots == 0..(MaxDevIrqs - 1)
Lines == {Line[d] : d \in Devices}
NoSlot == -1
NoDevice == "no device"

ASSUME DevIrqAssumption ==
  MaxDevIrqs \in Nat \ {0} /\ MaxFrames \in Nat \ {0} /\ NoDevice \notin Devices

VARIABLES slots,  \* slot -> [dev, pending, waiting]: dev is NoDevice while inactive
          route,  \* line -> the slot its redirection entry points to, or NoSlot
          masked, \* line -> mask bit of the redirection entry
          isr,    \* device -> its ISR status bit
          rx,     \* device -> frames it has put in the receive ring
          at      \* device -> where its driver is

devVars == <<slots, route, masked, isr, rx, at>>

Inactive == [dev |-> NoDevice, pending |-> FALSE, waiting |-> FALSE]
SlotsOf(d) == {s \in Slots : slots[s].dev = d}

-----------------------------------------------------------------------------
(* SYS_DEV_CLAIM: a device is claimed once; its line is routed to the first
   slot that is not active, if there is one, and unmasked. *)
FreeSlots == SlotsOf(NoDevice)
FirstFree == CHOOSE s \in FreeSlots : \A r \in FreeSlots : s <= r

(* Mutant: the entry is routed to the slot after the one filled. *)
SysDevClaimNext(d) ==
  /\ at[d] = "unclaimed"
  /\ at' = [at EXCEPT ![d] = "wait"]
  /\ IF FreeSlots = {} THEN UNCHANGED <<slots, route, masked>>
     ELSE /\ slots' = [slots EXCEPT ![FirstFree] = [Inactive EXCEPT !.dev = d]]
          /\ route' = [route EXCEPT ![Line[d]] = FirstFree + 1]
          /\ masked' = [masked EXCEPT ![Line[d]] = FALSE]
  /\ UNCHANGED <<isr, rx>>

SysDevClaim(d) ==
  /\ at[d] = "unclaimed"
  /\ at' = [at EXCEPT ![d] = "wait"]
  /\ IF FreeSlots = {} THEN UNCHANGED <<slots, route, masked>>
     ELSE /\ slots' = [slots EXCEPT ![FirstFree] = [Inactive EXCEPT !.dev = d]]
          /\ route' = [route EXCEPT ![Line[d]] = FirstFree]
          /\ masked' = [masked EXCEPT ![Line[d]] = FALSE]
  /\ UNCHANGED <<isr, rx>>

(* Mutant: the waiter is not woken. *)
DispatchWithoutWake(l) ==
  /\ route[l] # NoSlot /\ ~masked[l]
  /\ \E d \in Devices : Line[d] = l /\ isr[d]
  /\ masked' = [masked EXCEPT ![l] = TRUE]
  /\ slots' = [slots EXCEPT ![route[l]].pending = TRUE]
  /\ UNCHANGED <<route, isr, rx, at>>

(* device_irq_dispatch: mask the line, latch the interrupt, wake the waiter. *)
DeviceIrqDispatch(l) ==
  /\ route[l] # NoSlot /\ ~masked[l]
  /\ \E d \in Devices : Line[d] = l /\ isr[d]
  /\ masked' = [masked EXCEPT ![l] = TRUE]
  /\ slots' = [slots EXCEPT ![route[l]].pending = TRUE, ![route[l]].waiting = FALSE]
  /\ at' = IF slots[route[l]].waiting THEN [at EXCEPT ![slots[route[l]].dev] = "wait"] ELSE at
  /\ UNCHANGED <<route, isr, rx>>

(* Mutant: the latch is tested only once, on entry; a wake-up is taken for the
   interrupt and a latched one is slept over. *)
WaitWithoutTest(d) ==
  /\ at[d] = "wait"
  /\ \E s \in SlotsOf(d) : slots' = [slots EXCEPT ![s].waiting = TRUE]
  /\ at' = [at EXCEPT ![d] = "blocked"]
  /\ UNCHANGED <<route, masked, isr, rx>>

(* SYS_DEV_IRQ_WAIT: take the latched interrupt or block; without a slot the call
   fails and the daemon yields and tries again. *)
SysDevIrqWait(d) ==
  /\ at[d] = "wait"
  /\ \E s \in SlotsOf(d) :
       IF slots[s].pending
       THEN /\ slots' = [slots EXCEPT ![s].pending = FALSE]
            /\ at' = [at EXCEPT ![d] = "drain"]
       ELSE /\ slots' = [slots EXCEPT ![s].waiting = TRUE]
            /\ at' = [at EXCEPT ![d] = "blocked"]
  /\ UNCHANGED <<route, masked, isr, rx>>

(* Mutant: the line stays masked. *)
AckLeavesMask(d) ==
  /\ at[d] = "ack"
  /\ at' = [at EXCEPT ![d] = "wait"]
  /\ UNCHANGED <<slots, route, masked, isr, rx>>

(* SYS_DEV_IRQ_ACK: unmask the line. *)
SysDevIrqAck(d) ==
  /\ at[d] = "ack"
  /\ masked' = [masked EXCEPT ![Line[d]] = FALSE]
  /\ at' = [at EXCEPT ![d] = "wait"]
  /\ UNCHANGED <<slots, route, isr, rx>>

-----------------------------------------------------------------------------
(* The daemon and its device.                                              *)

(* The device stores a frame in the ring and sets its ISR bit; when the ring has
   no room the frame is dropped and nothing happens. *)
FrameArrives(d) ==
  /\ at[d] # "unclaimed" /\ rx[d] < MaxFrames
  /\ rx' = [rx EXCEPT ![d] = @ + 1]
  /\ isr' = [isr EXCEPT ![d] = TRUE]
  /\ UNCHANGED <<slots, route, masked, at>>

(* service_loop handles frames until the ring is empty. *)
RecvInto(d) ==
  /\ at[d] = "drain"
  /\ IF rx[d] > 0 THEN rx' = [rx EXCEPT ![d] = @ - 1] /\ at' = at
     ELSE at' = [at EXCEPT ![d] = "clear"] /\ rx' = rx
  /\ UNCHANGED <<slots, route, masked, isr>>

(* ack_irq reads the ISR status, which clears it, and then acknowledges. *)
ReadIsr(d) ==
  /\ at[d] = "clear"
  /\ isr' = [isr EXCEPT ![d] = FALSE]
  /\ at' = [at EXCEPT ![d] = "ack"]
  /\ UNCHANGED <<slots, route, masked, rx>>

DriverStep(d) == SysDevIrqWait(d) \/ RecvInto(d) \/ ReadIsr(d) \/ SysDevIrqAck(d)

DevInit ==
  /\ slots = [s \in Slots |-> Inactive]
  /\ route = [l \in Lines |-> NoSlot]
  /\ masked = [l \in Lines |-> TRUE]
  /\ isr = [d \in Devices |-> FALSE]
  /\ rx = [d \in Devices |-> 0]
  /\ at = [d \in Devices |-> "unclaimed"]

DevNext ==
  \/ \E d \in Devices : SysDevClaim(d) \/ FrameArrives(d) \/ DriverStep(d)
  \/ \E l \in Lines : DeviceIrqDispatch(l)

DevSpec == DevInit /\ [][DevNext]_devVars

(* The scheduler runs a ready driver again and again, and the I/O APIC delivers
   an interrupt whose line stays up and unmasked. *)
DevFair ==
  /\ DevSpec
  /\ \A d \in Devices : WF_devVars(DriverStep(d))
  /\ \A l \in Lines : WF_devVars(DeviceIrqDispatch(l))

-----------------------------------------------------------------------------
(* Properties.                                                             *)

(* The types of the slots, the lines and the drivers. *)
DevTypeOK ==
  /\ slots \in [Slots -> [dev : Devices \cup {NoDevice}, pending : BOOLEAN, waiting : BOOLEAN]]
  /\ route \in [Lines -> Slots \cup {NoSlot}]
  /\ masked \in [Lines -> BOOLEAN] /\ isr \in [Devices -> BOOLEAN]
  /\ rx \in [Devices -> 0..MaxFrames]
  /\ at \in [Devices -> {"unclaimed", "wait", "blocked", "drain", "clear", "ack"}]

(* No lost wake-up between the dispatcher and SYS_DEV_IRQ_WAIT: while a driver
   sleeps its slot knows it, no interrupt is latched, and its line is open. *)
SleeperReachable ==
  \A d \in Devices : at[d] = "blocked" =>
    \E s \in SlotsOf(d) : slots[s].waiting /\ ~slots[s].pending /\ ~masked[Line[d]]

(* A masked line belongs to a driver that will unmask it: the interrupt is latched
   for it or it is between its wait and its acknowledgement. *)
MaskedIsOwed ==
  \A d \in Devices : masked[Line[d]] /\ SlotsOf(d) # {} =>
    \/ \E s \in SlotsOf(d) : slots[s].pending
    \/ at[d] \in {"drain", "clear", "ack"}

(* An interrupt a device raises is eventually taken by its driver:
   docs/spec/syscalls.md, "on the device IRQ the kernel masks the IOAPIC line,
   wakes the waiter". *)
IrqServed == \A d \in Devices : isr[d] ~> (at[d] = "drain" \/ ~isr[d])
=============================================================================
