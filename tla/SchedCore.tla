------------------------------ MODULE SchedCore ------------------------------
(***************************************************************************)
(* The scheduler of the Lythos kernel (kernel/src/task.rs), at the level   *)
(* of task identifiers.  Every operation runs with interrupts off, so each *)
(* is one step; what a timer interrupt inside block_and_yield would do is  *)
(* the subject of RunQueue.                                                *)
(*                                                                         *)
(* The code keeps the tasks in a Vec to which it only appends, with        *)
(* increasing ids, and from which sweep_dead removes: the order of the Vec *)
(* is the order of the ids.  So the queue is a function from the ids in it *)
(* and the index `current` is the id found there; RunQueue has the indices *)
(* and is shown to implement this module.                                  *)
(*                                                                         *)
(* Task 0 is kmain.  Once it has started lythd it only idles (main.rs,     *)
(* kernel_main): it is never blocked and never exits.                      *)
(***************************************************************************)
EXTENDS Integers, FiniteSets

CONSTANTS MaxTasks,    \* bound: ids are 0 .. MaxTasks - 1
          Priorities   \* priorities the system call may set, within 0..2

ASSUME MaxTasksAssumption == MaxTasks \in Nat \ {0}
ASSUME PrioritiesAssumption == Priorities \subseteq 0..2

VARIABLES tasks,     \* the task queue: [parent, state, priority] of each id in it
          current,   \* the running task, or Halted
          nextId     \* Scheduler.next_id

schedVars == <<tasks, current, nextId>>

TaskId == 0..(MaxTasks - 1)
Idle == 0
Halted == -1       \* no task was ready and the CPU stays in the hlt loop

Task == [parent : TaskId, state : {"Running", "Ready", "Blocked", "Dead"}, priority : 0..2]

-----------------------------------------------------------------------------
(* Helpers on a task queue ts.                                             *)

Ready(ts) == {i \in DOMAIN ts : ts[i].state = "Ready"}

\* Mutant: the scan always starts at the front of the queue.
ScanFromFront(cur, i, j) == i <= j

\* The scan starts behind cur and wraps: it meets i before it meets j.
ScanOrder(cur, i, j) == IF (i > cur) = (j > cur) THEN i <= j ELSE i > cur

\* The task find_next_ready(sched, (current + 1) % n) returns, as a set: the
\* first of the highest priority that is ready, or nothing.
FindNextReady(ts, cur) ==
  {i \in Ready(ts) : \A j \in Ready(ts) :
      \/ ts[i].priority > ts[j].priority
      \/ ts[i].priority = ts[j].priority /\ ScanOrder(cur, i, j)}

SweepDead(ts) == [i \in {j \in DOMAIN ts : ts[j].state # "Dead"} |-> ts[i]]

\* Mutant: wake_task without its check for Blocked.
WakeAnyState(ts, id) ==
  IF id \in DOMAIN ts /\ id # current THEN [ts EXCEPT ![id].state = "Ready"] ELSE ts

WakeTask(ts, id) ==
  IF id \in DOMAIN ts /\ ts[id].state = "Blocked"
    THEN [ts EXCEPT ![id].state = "Ready"] ELSE ts

\* The same for a set of ids: what a loop of wake_task calls amounts to.
WakeAll(ts, ids) ==
  [i \in DOMAIN ts |-> IF i \in ids /\ ts[i].state = "Blocked"
                         THEN [ts[i] EXCEPT !.state = "Ready"] ELSE ts[i]]

MarkDead(ts, id) == [ts EXCEPT ![id].state = "Dead"]

\* A task that can still run.
Alive(ts, id) == id \in DOMAIN ts /\ ts[id].state # "Dead"

\* Leave the CPU to the next ready task of ts, or halt when there is none.
SwitchOrHalt(ts) ==
  \E next \in IF Ready(ts) = {} THEN {Halted} ELSE FindNextReady(ts, current) :
    /\ tasks' = IF next = Halted THEN ts ELSE [ts EXCEPT ![next].state = "Running"]
    /\ current' = next

\* Mutant: yield_task leaves the old task Running.
YieldKeepsRunning(ts) ==
  LET s == SweepDead(ts) IN
  \/ /\ Ready(s) = {}
     /\ tasks' = s /\ current' = current
  \/ \E next \in FindNextReady(s, current) :
        tasks' = [s EXCEPT ![next].state = "Running"] /\ current' = next

\* yield_task on the queue ts: with no other task ready it returns at once.
YieldFrom(ts) ==
  LET s == SweepDead(ts) IN
  \/ /\ Ready(s) = {}
     /\ tasks' = s /\ current' = current
  \/ \E next \in FindNextReady(s, current) :
        /\ tasks' = [s EXCEPT ![current].state = "Ready", ![next].state = "Running"]
        /\ current' = next

\* block_and_yield on the queue ts.
BlockFrom(ts) ==
  LET s == SweepDead(ts) IN SwitchOrHalt([s EXCEPT ![current].state = "Blocked"])

\* The part of task_exit that follows the bookkeeping of TaskLife: the dead
\* task leaves the CPU without a sweep.
ExitFrom(ts) == SwitchOrHalt(ts)

SpawnIn(ts, parent) ==
  [i \in DOMAIN ts \cup {nextId} |->
     IF i = nextId THEN [parent |-> parent, state |-> "Ready", priority |-> 1] ELSE ts[i]]

-----------------------------------------------------------------------------
Init ==
  /\ tasks = [i \in {Idle} |-> [parent |-> Idle, state |-> "Running", priority |-> 1]]
  /\ current = Idle
  /\ nextId = 1

\* Mutant: next_id is not advanced.
SpawnSameId ==
  /\ current # Halted /\ nextId < MaxTasks
  /\ tasks' = SpawnIn(tasks, current)
  /\ UNCHANGED <<current, nextId>>

\* spawn_kernel_task and the scheduler's part of spawn_userspace_task.
Spawn ==
  /\ current # Halted /\ nextId < MaxTasks
  /\ tasks' = SpawnIn(tasks, current)
  /\ nextId' = nextId + 1
  /\ UNCHANGED current

\* yield_task, called by the task itself or by the timer interrupt.
YieldTask ==
  /\ current # Halted
  /\ YieldFrom(tasks)
  /\ UNCHANGED nextId

BlockAndYield ==
  /\ current \notin {Halted, Idle}
  /\ BlockFrom(tasks)
  /\ UNCHANGED nextId

\* wake_task, called by the running task or by an interrupt handler.
Wake(id) ==
  /\ current # Halted
  /\ tasks' = WakeTask(tasks, id)
  /\ UNCHANGED <<current, nextId>>

TaskExit ==
  /\ current \notin {Halted, Idle}
  /\ ExitFrom(MarkDead(tasks, current))
  /\ UNCHANGED nextId

\* Mutant: kill_task without the check for task 0.
MayKillIdle(id) == id # current /\ Alive(tasks, id)

\* kill_task: the victim is neither task 0, nor the caller, nor dead already.
MayKill(id) == id # Idle /\ id # current /\ Alive(tasks, id)

KillTask(id) ==
  /\ current # Halted
  /\ MayKill(id)
  /\ tasks' = MarkDead(tasks, id)
  /\ UNCHANGED <<current, nextId>>

\* set_task_priority: any task that is not dead.
SetTaskPriority(id, p) ==
  /\ current # Halted
  /\ Alive(tasks, id)
  /\ tasks' = [tasks EXCEPT ![id].priority = p]
  /\ UNCHANGED <<current, nextId>>

Next ==
  \/ Spawn
  \/ YieldTask
  \/ BlockAndYield
  \/ \E id \in TaskId : Wake(id)
  \/ TaskExit
  \/ \E id \in TaskId : KillTask(id)
  \/ \E id \in TaskId, p \in Priorities : SetTaskPriority(id, p)

Spec == Init /\ [][Next]_schedVars

\* The APIC timer is periodic and its handler ends in yield_task.
FairSpec == Spec /\ WF_schedVars(YieldTask)

-----------------------------------------------------------------------------
TypeOK ==
  /\ DOMAIN tasks \subseteq TaskId
  /\ tasks \in [DOMAIN tasks -> Task]
  /\ current \in TaskId \cup {Halted}
  /\ nextId \in 1..MaxTasks
  /\ \A i \in DOMAIN tasks : i < nextId

\* One CPU, one running task: whatever is spawned, blocked, woken or killed,
\* the running task is in the queue, it is the only one whose state is Running,
\* and so no switch ever resumes a context that is already on the CPU.
OneRunning ==
  current # Halted =>
    /\ current \in DOMAIN tasks
    /\ \A i \in DOMAIN tasks : tasks[i].state = "Running" <=> i = current

\* The hlt loops of block_and_yield and task_exit are never entered: "shouldn't
\* happen in a well-formed system" (task.rs, block_and_yield).  It rests on
\* kill_task refusing task 0, which alone is always there to run.
CpuNeverHalts == current # Halted

\* What CpuNeverHalts needs: the idle task is in the queue, running or ready.
IdleRunnable == Idle \in DOMAIN tasks /\ tasks[Idle].state \in {"Running", "Ready"}

\* A dead task stays dead until sweep_dead removes it, and an id that has left
\* the queue never comes back: wake_task, the waiters and the sleep queue may
\* hold ids of tasks that are long gone.
DeadIsFinal ==
  [][/\ \A i \in DOMAIN tasks : tasks[i].state = "Dead" => ~Alive(tasks', i)
     /\ \A i \in DOMAIN tasks' \ DOMAIN tasks : i = nextId /\ nextId' = nextId + 1]_schedVars

\* No task of the highest priority in the queue stays ready for ever: the timer
\* takes the CPU from whoever has it, and the round robin of find_next_ready
\* comes to each.  (Nothing of the kind holds below the top: a task that runs
\* again and again above them moves the start of the scan, and two ready tasks
\* of one lower priority need not take turns.)
NoStarvation ==
  \A i \in TaskId :
    ~<>[](/\ i \in DOMAIN tasks /\ tasks[i].state = "Ready"
          /\ \A j \in DOMAIN tasks : tasks[j].priority <= tasks[i].priority)
=============================================================================
