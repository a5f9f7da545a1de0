------------------------------- MODULE RunQueue -------------------------------
(***************************************************************************)
(* The scheduler of kernel/src/task.rs with its Vec, its indices and its   *)
(* saved contexts.  With interrupts off it implements SchedCore (Core!Spec *)
(* below).                                                                 *)
(*                                                                         *)
(* A system call starts with interrupts off, but the sti at the end of     *)
(* block_and_yield leaves them on when the task is resumed inside the      *)
(* call.  A loop of ipc.rs that finds the ring still empty (or full) then  *)
(* calls block_and_yield again with interrupts on, and up to its cli the   *)
(* timer may come between any two of its statements.  QNext has the calls  *)
(* no interrupt falls into, InterruptedNext the others as well.            *)
(*                                                                         *)
(* Indices are those of the code, from 0.                                  *)
(***************************************************************************)
EXTENDS Integers, Sequences, SequencesExt, FiniteSets, FiniteSetsExt

CONSTANTS MaxTasks,      \* bound: tasks ever created
          Priorities     \* priorities set_task_priority is called with

ASSUME RunQueueAssumption == MaxTasks \in Nat \ {0} /\ Priorities \subseteq 0..2

VARIABLES vec,      \* Scheduler.tasks
          cur,      \* Scheduler.current, an index
          nid,      \* Scheduler.next_id
          onCpu,    \* the thread whose instructions run (the id of its task)
          ctx,      \* the thread whose registers each Task.context holds
          inCall,   \* threads resumed inside a blocking call, hence with IF = 1
          window    \* block_and_yield in progress with IF = 1: thread -> its locals

qVars == <<vec, cur, nid, onCpu, ctx, inCall, window>>

Ids == 0..(MaxTasks - 1)
NoIdx == -1
Closed == [ph |-> "closed"]

At(v, i) == v[i + 1]
SetState(v, i, st) == [v EXCEPT ![i + 1].state = st]
IndexOf(v, id) == CHOOSE i \in 0..(Len(v) - 1) : At(v, i).id = id
IdsOf(v) == {v[k].id : k \in 1..Len(v)}
NewTask(id, parent) == [id |-> id, parent |-> parent, state |-> "Ready", priority |-> 1]

-----------------------------------------------------------------------------
\* The loop of sweep_dead: remove a dead task at i, and shift current when it
\* lies behind i.
RECURSIVE SweepFrom(_, _, _)
SweepFrom(v, c, i) ==
  IF i >= Len(v) THEN [vec |-> v, cur |-> c]
  ELSE IF At(v, i).state = "Dead"
         THEN SweepFrom(RemoveAt(v, i + 1), IF i < c THEN c - 1 ELSE c, i)
         ELSE SweepFrom(v, c, i + 1)

Sweep(v, c) == SweepFrom(v, c, 0)

\* Mutant: the first ready task in Vec order, whatever its tier.
FindNextFlat(v, start) ==
  LET n == Len(v)
      hits == {k \in 0..(n - 1) : At(v, (start + k) % n).state = "Ready"}
  IN IF hits = {} THEN NoIdx ELSE (start + Min(hits)) % n

\* find_next_ready: the tiers from high to low, each from start around the Vec.
FindNext(v, start) ==
  LET n == Len(v)
      hits(p) == {k \in 0..(n - 1) : LET t == At(v, (start + k) % n) IN t.state = "Ready" /\ t.priority = p}
      tiers == {p \in 0..2 : hits(p) # {}}
  IN IF tiers = {} THEN NoIdx ELSE (start + Min(hits(Max(tiers)))) % n

\* Mutant: the registers are saved in the context of the next task.
SwitchSavesNext(from, to) ==
  /\ ctx' = [ctx EXCEPT ![to] = onCpu]
  /\ onCpu' = IF to = from THEN onCpu ELSE ctx[to]

\* switch_context(from, to): save what is on the CPU, load what `to` holds.
SwitchContext(from, to) ==
  /\ ctx' = [ctx EXCEPT ![from] = onCpu]
  /\ onCpu' = IF to = from THEN onCpu ELSE ctx[to]

\* yield_task on the queue v with index c.
Yield(v, c) ==
  LET s == Sweep(v, c)
      next == FindNext(s.vec, (s.cur + 1) % Len(s.vec))
  IN IF next = NoIdx \/ next = s.cur
       THEN vec' = s.vec /\ cur' = s.cur /\ UNCHANGED <<onCpu, ctx>>
       ELSE /\ vec' = SetState(SetState(s.vec, s.cur, "Ready"), next, "Running")
            /\ cur' = next
            /\ SwitchContext(At(s.vec, s.cur).id, At(s.vec, next).id)

\* Leave the CPU for good (Dead) or until a wake-up (Blocked), without interrupts.
Leave(v, c, st) ==
  LET u == SetState(v, c, st)
      next == FindNext(u, (c + 1) % Len(u))
  IN /\ next # NoIdx
     /\ vec' = SetState(u, next, "Running")
     /\ cur' = next
     /\ SwitchContext(At(v, c).id, At(v, next).id)

WakeIds(v, ids) ==
  [k \in 1..Len(v) |-> IF v[k].id \in ids /\ v[k].state = "Blocked" THEN [v[k] EXCEPT !.state = "Ready"] ELSE v[k]]

-----------------------------------------------------------------------------
QInit ==
  /\ vec = <<[id |-> 0, parent |-> 0, state |-> "Running", priority |-> 1]>>
  /\ cur = 0 /\ nid = 1
  /\ onCpu = 0
  /\ ctx = [i \in Ids |-> i]
  /\ inCall = {}
  /\ window = [i \in Ids |-> Closed]

\* The thread on the CPU is not inside an open block_and_yield.
Calm == window[onCpu] = Closed
Me == At(vec, cur).id

QSpawn ==
  /\ Calm /\ nid < MaxTasks
  /\ vec' = Append(vec, NewTask(nid, Me))
  /\ nid' = nid + 1
  /\ UNCHANGED <<cur, onCpu, ctx, inCall, window>>

QWake(id) ==
  /\ Calm
  /\ vec' = WakeIds(vec, {id})
  /\ UNCHANGED <<cur, nid, onCpu, ctx, inCall, window>>

QKill(id) ==
  /\ Calm /\ id # 0 /\ id # Me /\ id \in IdsOf(vec) /\ At(vec, IndexOf(vec, id)).state # "Dead"
  /\ vec' = SetState(vec, IndexOf(vec, id), "Dead")
  /\ UNCHANGED <<cur, nid, onCpu, ctx, inCall, window>>

QSetPriority(id, p) ==
  /\ Calm /\ id \in IdsOf(vec) /\ At(vec, IndexOf(vec, id)).state # "Dead"
  /\ vec' = [vec EXCEPT ![IndexOf(vec, id) + 1].priority = p]
  /\ UNCHANGED <<cur, nid, onCpu, ctx, inCall, window>>

QExit ==
  /\ Calm /\ Me # 0 /\ onCpu \notin inCall
  /\ Leave(vec, cur, "Dead")
  /\ UNCHANGED <<nid, inCall, window>>

\* The timer interrupt, wherever interrupts are on; SYS_YIELD is the same step.
QTimer ==
  /\ Calm
  /\ Yield(vec, cur)
  /\ UNCHANGED <<nid, inCall, window>>

\* block_and_yield entered from a system call, with interrupts off.
QBlock ==
  /\ Calm /\ Me # 0 /\ onCpu \notin inCall
  /\ LET s == Sweep(vec, cur) IN Leave(s.vec, s.cur, "Blocked")
  /\ inCall' = inCall \cup {onCpu}
  /\ UNCHANGED <<nid, window>>

\* The resumed call returns to user mode.
QReturn ==
  /\ Calm /\ onCpu \in inCall
  /\ inCall' = inCall \ {onCpu}
  /\ UNCHANGED <<vec, cur, nid, onCpu, ctx, window>>

\* The resumed call blocks again, and no interrupt comes in between.
QBlockAgain ==
  /\ Calm /\ onCpu \in inCall
  /\ LET s == Sweep(vec, cur) IN Leave(s.vec, s.cur, "Blocked")
  /\ UNCHANGED <<nid, inCall, window>>

QNext ==
  \/ QSpawn
  \/ \E id \in Ids : QWake(id)
  \/ \E id \in Ids : QKill(id)
  \/ \E id \in Ids, p \in Priorities : QSetPriority(id, p)
  \/ QExit
  \/ QTimer
  \/ QBlock
  \/ QReturn
  \/ QBlockAgain

QSpec == QInit /\ [][QNext]_qVars

-----------------------------------------------------------------------------
(* QBlockAgain statement by statement, when interrupts may come.  An index *)
(* beyond the Vec panics: no step.                                         *)

OpenBlock ==
  /\ Calm /\ onCpu \in inCall
  /\ LET s == Sweep(vec, cur) IN
     /\ vec' = SetState(s.vec, s.cur, "Blocked") /\ cur' = s.cur
     /\ window' = [window EXCEPT ![onCpu] = [ph |-> "scan", current |-> s.cur, n |-> Len(s.vec)]]
  /\ UNCHANGED <<nid, onCpu, ctx, inCall>>

OpenScan ==
  /\ window[onCpu].ph = "scan"
  /\ LET w == window[onCpu]
         next == FindNext(vec, (w.current + 1) % w.n)
     IN /\ next # NoIdx /\ w.current < Len(vec)
        /\ vec' = SetState(vec, next, "Running")
        /\ cur' = next
        /\ window' = [window EXCEPT ![onCpu] =
                        [ph |-> "switch", from |-> At(vec, w.current).id, to |-> At(vec, next).id]]
  /\ UNCHANGED <<nid, onCpu, ctx, inCall>>

OpenSwitch ==
  /\ window[onCpu].ph = "switch"
  /\ SwitchContext(window[onCpu].from, window[onCpu].to)
  /\ window' = [window EXCEPT ![onCpu] = Closed]
  /\ UNCHANGED <<vec, cur, nid, inCall>>

\* A timer interrupt between two of these statements.
IsrInWindow ==
  /\ ~Calm
  /\ Yield(vec, cur)
  /\ UNCHANGED <<nid, inCall, window>>

InterruptedNext == QNext \/ OpenBlock \/ OpenScan \/ OpenSwitch \/ IsrInWindow

InterruptedSpec == QInit /\ [][InterruptedNext]_qVars

-----------------------------------------------------------------------------
\* "Any code that scans or mutates sched.tasks outside a syscall entry (where
\* FMASK guarantees IF=0) must hold interrupts off for the duration" (task.rs,
\* irq_save_disable).  What it is for: between scheduler operations the thread
\* on the CPU is the current task, and every other task that is not dead has
\* its own registers in its context, so that a switch resumes the right thread.
ContextsIntact ==
  Calm =>
    /\ onCpu = Me
    /\ \A i \in 0..(Len(vec) - 1) :
         i # cur /\ At(vec, i).state # "Dead" => ctx[At(vec, i).id] = At(vec, i).id

\* The Vec and its index implement the scheduler of SchedCore: sweep_dead keeps
\* current on the same task, and the index scan picks the task the id scan does.
AbsTasks ==
  [i \in IdsOf(vec) |-> LET t == At(vec, IndexOf(vec, i))
                        IN [parent |-> t.parent, state |-> t.state, priority |-> t.priority]]
Core == INSTANCE SchedCore WITH tasks <- AbsTasks, current <- Me, nextId <- nid
ImplementsCore == Core!Spec
=============================================================================
