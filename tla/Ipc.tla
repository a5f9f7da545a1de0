--------------------------------- MODULE Ipc ---------------------------------
(***************************************************************************)
(* One endpoint of kernel/src/ipc.rs: the ring with its free-running       *)
(* counters, the two waiting-task fields, the capability in transit, and   *)
(* every send and receive call.                                            *)
(*                                                                         *)
(* A call enters the kernel with interrupts off: its first turn of the     *)
(* loop is one step.  When it has blocked and is resumed, interrupts are   *)
(* on (the sti at the end of block_and_yield) and the timer may switch to  *)
(* another task between any two statements: the later turns are taken      *)
(* statement by statement.  Which ready task runs is left open.            *)
(*                                                                         *)
(* A timed call leaves its entry in the sleep queue when a peer wakes it   *)
(* first; the entry fires later, in whatever call the task is then.        *)
(***************************************************************************)
EXTENDS Integers, Sequences, SequencesExt, FiniteSets

CONSTANTS Senders, Receivers,  \* the tasks that hold the endpoint
          Capacity,            \* RING_CAPACITY (63 in the code)
          Wrap,                \* the counters are modulo Wrap (2^32 in the code)
          MaxSends,            \* bound: messages sent in all
          Kinds                \* the calls in use

ASSUME IpcAssumption ==
  /\ Senders \cap Receivers = {}
  /\ Capacity \in Nat \ {0} /\ Wrap \in Nat /\ Wrap > Capacity /\ MaxSends \in Nat
  /\ Kinds \subseteq {"send", "send_cap", "send_timeout", "recv", "recv_cap", "recv_timeout", "try_recv"}

VARIABLES head, tail, slots,                   \* the ring
          sender_waiting, receiver_waiting,    \* task or None
          pending_cap,                         \* capability in transit (named by its message) or NoMsg
          th,          \* each task: [pc, kind, msg, h, t], its place and its locals
          blocked,     \* the tasks in state Blocked
          timers,      \* sleep-queue entries of each task: "cur" call or an "old" one
          expired,     \* the tasks whose current call is past its deadline
          posted, received,   \* history: messages in the order of the stores to tail and head
          delivered           \* history: <<message, capability>> pairs recv_cap returned

ring == <<head, tail, slots>>
waiting == <<sender_waiting, receiver_waiting>>
sleeping == <<timers, expired>>
history == <<posted, received, delivered>>
ipcVars == <<ring, waiting, pending_cap, th, blocked, sleeping, history>>

None == "none"
NoMsg == 0
Tasks == Senders \cup Receivers
InUser == [pc |-> "user", kind |-> None, msg |-> NoMsg, h |-> 0, t |-> 0]

SendKinds == {"send", "send_cap", "send_timeout"} \cap Kinds
RecvKinds == {"recv", "recv_cap", "recv_timeout"} \cap Kinds
Timed(kind) == kind \in {"send_timeout", "recv_timeout"}

Slot(counter) == counter % Capacity
Used(h, t) == (t - h) % Wrap

IpcInit ==
  /\ head = 0 /\ tail = 0 /\ slots = [s \in 0..(Capacity - 1) |-> NoMsg]
  /\ sender_waiting = None /\ receiver_waiting = None
  /\ pending_cap = NoMsg
  /\ th = [x \in Tasks |-> InUser]
  /\ blocked = {}
  /\ timers = [x \in Tasks |-> {}] /\ expired = {}
  /\ posted = <<>> /\ received = <<>> /\ delivered = {}

-----------------------------------------------------------------------------
(* Pieces of the calls.                                                    *)

\* A call that returns: the entry a timed call still has in the sleep queue
\* stays there.
Finish(x) ==
  /\ th' = [th EXCEPT ![x] = InUser]
  /\ timers' = [timers EXCEPT ![x] = IF "cur" \in @ THEN {"old"} ELSE @]
  /\ expired' = expired \ {x}

\* take() of a waiting-task field and wake_task.
WakeReceiver == blocked' = blocked \ {receiver_waiting} /\ receiver_waiting' = None
WakeSender == blocked' = blocked \ {sender_waiting} /\ sender_waiting' = None

\* Mutant: a timed call that was woken early blocks again without an entry.
BlockTaskOnce(x, rec) ==
  /\ th' = [th EXCEPT ![x] = [rec EXCEPT !.pc = "head"]]
  /\ blocked' = blocked \cup {x}
  /\ timers' = [timers EXCEPT ![x] = IF Timed(rec.kind) /\ rec.pc = "user" THEN @ \cup {"cur"} ELSE @]
  /\ UNCHANGED expired

\* block_and_yield, through sleep_until in a timed call: the task will be
\* resumed at the top of its loop.
BlockTask(x, rec) ==
  /\ th' = [th EXCEPT ![x] = [rec EXCEPT !.pc = "head"]]
  /\ blocked' = blocked \cup {x}
  /\ timers' = [timers EXCEPT ![x] = IF Timed(rec.kind) THEN @ \cup {"cur"} ELSE @]
  /\ UNCHANGED expired

Call(kind, msg) == [pc |-> "user", kind |-> kind, msg |-> msg, h |-> 0, t |-> 0]

-----------------------------------------------------------------------------
(* The first turn, with interrupts off.                                    *)

InUserMode(x) == th[x].pc = "user"

NextMsg == Len(posted) + Cardinality({x \in Senders : th[x].pc # "user"}) + 1

SendFirst(x, kind) ==
  LET m == CHOOSE m \in 1..MaxSends :
             m \notin Range(posted) /\ \A y \in Senders : th[y].msg # m
  IN
  /\ InUserMode(x)
  /\ NextMsg <= MaxSends
  /\ \/ /\ Used(head, tail) < Capacity
        /\ slots' = [slots EXCEPT ![Slot(tail)] = m]
        /\ tail' = (tail + 1) % Wrap
        /\ posted' = Append(posted, m)
        /\ pending_cap' = IF kind = "send_cap" THEN m ELSE pending_cap
        /\ WakeReceiver
        /\ Finish(x)
        /\ UNCHANGED <<head, sender_waiting, received, delivered>>
     \/ /\ Used(head, tail) >= Capacity
        /\ sender_waiting' = x
        /\ BlockTask(x, Call(kind, m))
        /\ UNCHANGED <<ring, receiver_waiting, pending_cap, history>>

RecvFirst(x, kind) ==
  /\ InUserMode(x)
  /\ \/ /\ head # tail
        /\ received' = Append(received, slots[Slot(head)])
        /\ head' = (head + 1) % Wrap
        /\ pending_cap' = IF kind = "recv_cap" THEN NoMsg ELSE pending_cap
        /\ delivered' = IF kind = "recv_cap"
                          THEN delivered \cup {<<slots[Slot(head)], pending_cap>>} ELSE delivered
        /\ WakeSender
        /\ Finish(x)
        /\ UNCHANGED <<tail, slots, receiver_waiting, posted>>
     \/ /\ head = tail
        /\ receiver_waiting' = x
        /\ BlockTask(x, Call(kind, NoMsg))
        /\ UNCHANGED <<ring, sender_waiting, pending_cap, history>>

\* try_recv of a message, and a timed call with timeout 0; with nothing there
\* they return at once.
TryRecv(x) ==
  /\ InUserMode(x) /\ head # tail
  /\ received' = Append(received, slots[Slot(head)])
  /\ head' = (head + 1) % Wrap
  /\ WakeSender
  /\ UNCHANGED <<tail, slots, receiver_waiting, pending_cap, th, sleeping, posted, delivered>>

-----------------------------------------------------------------------------
(* The later turns, statement by statement.                                *)

At(x, pc) == x \notin blocked /\ th[x].pc = pc
GoTo(x, pc) == th' = [th EXCEPT ![x].pc = pc]

LoadHead(x) ==
  /\ At(x, "head")
  /\ th' = [th EXCEPT ![x].h = head, ![x].pc = "tail"]
  /\ UNCHANGED <<ring, waiting, pending_cap, blocked, sleeping, history>>

\* Mutant: room is tested with <= instead of <.
LoadTailOverfull(x) ==
  LET go == IF x \in Senders THEN Used(th[x].h, tail) <= Capacity ELSE th[x].h # tail
  IN
  /\ At(x, "tail")
  /\ th' = [th EXCEPT ![x].t = tail,
                      ![x].pc = IF go THEN "copy" ELSE IF x \in expired THEN "giveup" ELSE "register"]
  /\ UNCHANGED <<ring, waiting, pending_cap, blocked, sleeping, history>>

\* Load tail, and decide: copy, give up at the deadline, or block again.
LoadTail(x) ==
  LET go == IF x \in Senders THEN Used(th[x].h, tail) < Capacity ELSE th[x].h # tail
  IN
  /\ At(x, "tail")
  /\ th' = [th EXCEPT ![x].t = tail,
                      ![x].pc = IF go THEN "copy" ELSE IF x \in expired THEN "giveup" ELSE "register"]
  /\ UNCHANGED <<ring, waiting, pending_cap, blocked, sleeping, history>>

Copy(x) ==
  /\ At(x, "copy")
  /\ \/ /\ x \in Senders
        /\ slots' = [slots EXCEPT ![Slot(th[x].t)] = th[x].msg]
        /\ GoTo(x, "store")
     \/ /\ x \in Receivers
        /\ th' = [th EXCEPT ![x].msg = slots[Slot(th[x].h)], ![x].pc = "store"]
        /\ UNCHANGED slots
  /\ UNCHANGED <<head, tail, waiting, pending_cap, blocked, sleeping, history>>

Store(x) ==
  /\ At(x, "store")
  /\ \/ /\ x \in Senders
        /\ tail' = (th[x].t + 1) % Wrap
        /\ posted' = Append(posted, th[x].msg)
        /\ UNCHANGED <<head, received>>
     \/ /\ x \in Receivers
        /\ head' = (th[x].h + 1) % Wrap
        /\ received' = Append(received, th[x].msg)
        /\ UNCHANGED <<tail, posted>>
  /\ GoTo(x, "cap")
  /\ UNCHANGED <<slots, waiting, pending_cap, blocked, sleeping, delivered>>

\* Mutant: recv_cap copies the capability instead of taking it.
CapCopied(x) ==
  LET kind == th[x].kind IN
  /\ At(x, "cap")
  /\ pending_cap' = IF kind = "send_cap" THEN th[x].msg ELSE pending_cap
  /\ delivered' = IF kind = "recv_cap" THEN delivered \cup {<<th[x].msg, pending_cap>>} ELSE delivered
  /\ GoTo(x, "wake")
  /\ UNCHANGED <<ring, waiting, blocked, sleeping, posted, received>>

\* send_cap sets pending_cap, recv_cap takes it.
Cap(x) ==
  LET kind == th[x].kind IN
  /\ At(x, "cap")
  /\ pending_cap' = IF kind = "send_cap" THEN th[x].msg
                    ELSE IF kind = "recv_cap" THEN NoMsg ELSE pending_cap
  /\ delivered' = IF kind = "recv_cap" THEN delivered \cup {<<th[x].msg, pending_cap>>} ELSE delivered
  /\ GoTo(x, "wake")
  /\ UNCHANGED <<ring, waiting, blocked, sleeping, posted, received>>

WakePeer(x) ==
  /\ At(x, "wake")
  /\ \/ x \in Senders /\ WakeReceiver /\ UNCHANGED sender_waiting
     \/ x \in Receivers /\ WakeSender /\ UNCHANGED receiver_waiting
  /\ Finish(x)
  /\ UNCHANGED <<ring, pending_cap, history>>

Register(x) ==
  /\ At(x, "register")
  /\ \/ x \in Senders /\ sender_waiting' = x /\ UNCHANGED receiver_waiting
     \/ x \in Receivers /\ receiver_waiting' = x /\ UNCHANGED sender_waiting
  /\ GoTo(x, "block")
  /\ UNCHANGED <<ring, pending_cap, blocked, sleeping, history>>

BlockAgain(x) ==
  /\ At(x, "block")
  /\ BlockTask(x, th[x])
  /\ UNCHANGED <<ring, waiting, pending_cap, history>>

\* The deadline has passed: clear the field if it is ours, and return Err.
GiveUp(x) ==
  /\ At(x, "giveup")
  /\ sender_waiting' = IF sender_waiting = x THEN None ELSE sender_waiting
  /\ receiver_waiting' = IF receiver_waiting = x THEN None ELSE receiver_waiting
  /\ Finish(x)
  /\ UNCHANGED <<ring, pending_cap, blocked, history>>

\* wake_sleepers fires an entry of x.
TimerFires(x) ==
  \E e \in timers[x] :
    /\ timers' = [timers EXCEPT ![x] = @ \ {e}]
    /\ expired' = IF e = "cur" THEN expired \cup {x} ELSE expired
    /\ blocked' = blocked \ {x}
    /\ UNCHANGED <<ring, waiting, pending_cap, th, history>>

LaterTurn(x) ==
  \/ LoadHead(x) \/ LoadTail(x) \/ Copy(x) \/ Store(x) \/ Cap(x)
  \/ WakePeer(x) \/ Register(x) \/ BlockAgain(x) \/ GiveUp(x)

IpcNext ==
  \/ \E x \in Senders, k \in SendKinds : SendFirst(x, k)
  \/ \E x \in Receivers, k \in RecvKinds : RecvFirst(x, k)
  \/ \E x \in Receivers : "try_recv" \in Kinds /\ TryRecv(x)
  \/ \E x \in Tasks : LaterTurn(x)
  \/ \E x \in Tasks : TimerFires(x)

IpcSpec == IpcInit /\ [][IpcNext]_ipcVars

\* A task that is not blocked is scheduled again and again and gets on with its
\* call, and the tick fires every entry of the sleep queue.
IpcFair ==
  /\ IpcSpec
  /\ \A x \in Tasks : WF_ipcVars(LaterTurn(x)) /\ WF_ipcVars(TimerFires(x))

-----------------------------------------------------------------------------
\* "Ring is strictly FIFO" (docs/spec/ipc.md): what has been received is what
\* was posted, in that order, with nothing missing, doubled or overwritten; an
\* empty ring has handed over everything and no more than it can hold is in it.
Fifo ==
  /\ IsPrefix(received, posted)
  /\ head = tail => received = posted
  /\ Len(posted) - Len(received) = Used(head, tail) /\ Used(head, tail) <= Capacity

\* "Wakes any task blocked in recv on this endpoint" (ipc.rs, send) and the
\* mirror image for recv: a receiver is not left blocked while a message is
\* there, nor a sender while there is room, unless the call that made the
\* message or the room is still on its way to the wake-up or a timer will fire.
WakeUnderWay(peers) == \E y \in peers : y \notin blocked /\ th[y].pc \in {"cap", "wake"}
NobodyStuck ==
  /\ \A x \in blocked \cap Receivers : head # tail => timers[x] # {} \/ WakeUnderWay(Senders)
  /\ \A x \in blocked \cap Senders : Used(head, tail) < Capacity => timers[x] # {} \/ WakeUnderWay(Receivers)

\* A capability in transit is handed out at most once.
CapNotDuplicated ==
  \A p, q \in delivered : p[2] = q[2] /\ p[2] # NoMsg => p = q

\* A call with a timeout returns, with a message or with Err(TimedOut), whatever
\* wake-up is lost or stolen and however often it finds the ring as it was.
TimedCallsEnd ==
  \A x \in Tasks : (th[x].pc # "user" /\ Timed(th[x].kind)) ~> (th[x].pc = "user")
=============================================================================
