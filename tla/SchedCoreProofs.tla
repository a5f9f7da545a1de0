--------------------------- MODULE SchedCoreProofs ---------------------------
(* Proofs about SchedCore, for any number of tasks and any priorities. *)
EXTENDS SchedCore, TLAPS

\* The inductive invariant: OneRunning alone is not inductive, since a halted
\* CPU satisfies it and then runs nothing; that the idle task is always there to
\* run is what keeps every switch inside the queue.
SchedInv == TypeOK /\ OneRunning /\ IdleRunnable /\ CpuNeverHalts

\* find_next_ready returns a ready task of the queue it scans.
LEMMA FindNextReadyIsReady ==
  ASSUME NEW ts, NEW cur, NEW next \in FindNextReady(ts, cur)
  PROVE  next \in DOMAIN ts /\ ts[next].state = "Ready"
BY DEF FindNextReady, Ready

\* sweep_dead keeps every task that is not dead, unchanged.
LEMMA SweepDeadKeeps ==
  ASSUME NEW ts
  PROVE  /\ DOMAIN SweepDead(ts) = {j \in DOMAIN ts : ts[j].state # "Dead"}
         /\ \A i \in DOMAIN SweepDead(ts) : SweepDead(ts)[i] = ts[i]
BY DEF SweepDead

\* The first step of the scheduler satisfies the invariant.
LEMMA InitSchedInv == Init => SchedInv
<1> SUFFICES ASSUME Init PROVE SchedInv
    OBVIOUS
<1> USE MaxTasksAssumption
<1>1. /\ DOMAIN tasks = {0} /\ current = 0 /\ nextId = 1
      /\ tasks[0] = [parent |-> 0, state |-> "Running", priority |-> 1]
      /\ tasks \in [{0} -> Task]
      BY DEF Init, Idle, Task, TaskId
<1> QED
    BY <1>1 DEF SchedInv, TypeOK, OneRunning, IdleRunnable, CpuNeverHalts, TaskId, Idle, Halted

\* Handing the CPU from a queue without a running task, in which the idle task
\* is ready, to the task find_next_ready picks keeps the invariant: the switch
\* at the end of block_and_yield and of task_exit.
LEMMA SwitchKeepsInv ==
  ASSUME TypeOK, NEW ts,
         DOMAIN ts \subseteq DOMAIN tasks,
         ts \in [DOMAIN ts -> Task],
         \A i \in DOMAIN ts : ts[i].state # "Running",
         Idle \in DOMAIN ts, ts[Idle].state = "Ready",
         SwitchOrHalt(ts), UNCHANGED nextId
  PROVE  SchedInv'
<1>1. Ready(ts) # {}
      BY DEF Ready
<1>2. PICK next \in FindNextReady(ts, current) :
        tasks' = (IF next = Halted THEN ts ELSE [ts EXCEPT ![next].state = "Running"]) /\ current' = next
      BY <1>1 DEF SwitchOrHalt
<1>3. next \in DOMAIN ts /\ ts[next].state = "Ready"
      BY <1>2, FindNextReadyIsReady
<1>4. next \in TaskId /\ next # Halted
      BY <1>3, MaxTasksAssumption DEF TypeOK, TaskId, Halted
<1>5. tasks' = [ts EXCEPT ![next].state = "Running"]
      BY <1>2, <1>4
<1>6. DOMAIN tasks' = DOMAIN ts /\ tasks' \in [DOMAIN ts -> Task]
      BY <1>3, <1>5 DEF Task
<1>7. \A i \in DOMAIN ts : tasks'[i].state = (IF i = next THEN "Running" ELSE ts[i].state)
      BY <1>3, <1>5 DEF Task
<1>8. TypeOK'
      BY <1>2, <1>4, <1>6 DEF TypeOK
<1>9. OneRunning' /\ CpuNeverHalts'
      BY <1>2, <1>3, <1>4, <1>6, <1>7 DEF OneRunning, CpuNeverHalts
<1>10. IdleRunnable'
      BY <1>6, <1>7 DEF IdleRunnable
<1> QED
    BY <1>8, <1>9, <1>10 DEF SchedInv

\* Every step of the scheduler keeps the invariant.
LEMMA NextSchedInv == SchedInv /\ [Next]_schedVars => SchedInv'
<1> SUFFICES ASSUME SchedInv, [Next]_schedVars PROVE SchedInv'
    OBVIOUS
<1> USE MaxTasksAssumption
<1>t. /\ TypeOK /\ current \in DOMAIN tasks /\ current # Halted /\ Idle \in DOMAIN tasks
      /\ tasks[Idle].state \in {"Running", "Ready"}
      /\ \A i \in DOMAIN tasks : tasks[i].state = "Running" <=> i = current
      BY DEF SchedInv, OneRunning, IdleRunnable, CpuNeverHalts
<1>1. CASE Spawn
  <2>1. /\ nextId \in TaskId /\ nextId \notin DOMAIN tasks /\ nextId # current /\ nextId # Idle
        /\ nextId' \in 1..MaxTasks /\ nextId' = nextId + 1 /\ current' = current
        BY <1>t, <1>1 DEF Spawn, TypeOK, TaskId, Idle
  <2>2. /\ DOMAIN tasks' = DOMAIN tasks \cup {nextId}
        /\ tasks'[nextId] = [parent |-> current, state |-> "Ready", priority |-> 1]
        /\ \A i \in DOMAIN tasks : tasks'[i] = tasks[i]
        BY <1>1, <2>1 DEF Spawn, SpawnIn
  <2>3. current \in TaskId
        BY <1>t DEF TypeOK
  <2>4. tasks'[nextId] \in Task /\ tasks'[nextId].state = "Ready"
        BY <2>2, <2>3 DEF Task
  <2>5. \A i \in DOMAIN tasks : tasks[i] \in Task
        BY <1>t DEF TypeOK
  <2>6. tasks' \in [DOMAIN tasks' -> Task]
        BY <1>1, <2>2, <2>4, <2>5 DEF Spawn, SpawnIn
  <2>7. TypeOK'
        BY <1>t, <2>1, <2>2, <2>6 DEF TypeOK, TaskId
  <2>8. OneRunning' /\ CpuNeverHalts'
        BY <1>t, <2>1, <2>2, <2>4 DEF OneRunning, CpuNeverHalts
  <2>9. IdleRunnable'
        BY <1>t, <2>2 DEF IdleRunnable
  <2> QED
      BY <2>7, <2>8, <2>9 DEF SchedInv
<1>2. CASE YieldTask
  <2> DEFINE s == SweepDead(tasks)
  <2>1. /\ DOMAIN s \subseteq DOMAIN tasks /\ \A i \in DOMAIN s : s[i] = tasks[i]
        /\ current \in DOMAIN s /\ Idle \in DOMAIN s
        BY <1>t, SweepDeadKeeps
  <2>2. s \in [DOMAIN s -> Task]
        BY <1>t, <2>1 DEF TypeOK, SweepDead
  <2>3. nextId' = nextId
        BY <1>2 DEF YieldTask
  <2>4. CASE tasks' = s /\ current' = current
    <3>1. TypeOK'
          BY <1>t, <2>1, <2>2, <2>3, <2>4 DEF TypeOK
    <3>2. OneRunning' /\ CpuNeverHalts' /\ IdleRunnable'
          BY <1>t, <2>1, <2>4 DEF OneRunning, CpuNeverHalts, IdleRunnable
    <3> QED
        BY <3>1, <3>2 DEF SchedInv
  <2>5. CASE \E next \in FindNextReady(s, current) :
               /\ tasks' = [s EXCEPT ![current].state = "Ready", ![next].state = "Running"]
               /\ current' = next
    <3>1. PICK next \in FindNextReady(s, current) :
               /\ tasks' = [s EXCEPT ![current].state = "Ready", ![next].state = "Running"]
               /\ current' = next
          BY <2>5
    <3>2. next \in DOMAIN s /\ s[next].state = "Ready"
          BY FindNextReadyIsReady
    <3>3. next # current /\ next \in TaskId /\ next # Halted
          BY <1>t, <2>1, <3>2 DEF TypeOK, TaskId, Halted
    <3>4. DOMAIN tasks' = DOMAIN s /\ tasks' \in [DOMAIN s -> Task]
          BY <2>1, <2>2, <3>1, <3>2 DEF Task
    <3>5. \A i \in DOMAIN s : tasks'[i].state =
             (IF i = next THEN "Running" ELSE IF i = current THEN "Ready" ELSE s[i].state)
          BY <2>1, <2>2, <3>1, <3>2, <3>3 DEF Task
    <3>6. TypeOK'
          BY <1>t, <2>1, <2>3, <3>1, <3>3, <3>4 DEF TypeOK
    <3>7. OneRunning' /\ CpuNeverHalts'
          BY <1>t, <2>1, <3>1, <3>2, <3>3, <3>4, <3>5 DEF OneRunning, CpuNeverHalts
    <3>8. IdleRunnable'
          BY <1>t, <2>1, <3>4, <3>5 DEF IdleRunnable
    <3> QED
        BY <3>6, <3>7, <3>8 DEF SchedInv
  <2> QED
      BY <1>2, <2>4, <2>5 DEF YieldTask, YieldFrom
<1>3. CASE BlockAndYield
  <2> DEFINE s == SweepDead(tasks)
             ts == [s EXCEPT ![current].state = "Blocked"]
  <2>1. /\ DOMAIN s \subseteq DOMAIN tasks /\ \A i \in DOMAIN s : s[i] = tasks[i]
        /\ current \in DOMAIN s /\ Idle \in DOMAIN s
        BY <1>t, SweepDeadKeeps
  <2>2. s \in [DOMAIN s -> Task] /\ current # Idle
        BY <1>t, <1>3, <2>1 DEF TypeOK, SweepDead, BlockAndYield
  <2>3. DOMAIN ts = DOMAIN s /\ ts \in [DOMAIN s -> Task]
        BY <2>1, <2>2 DEF Task
  <2>4. \A i \in DOMAIN s : ts[i].state = (IF i = current THEN "Blocked" ELSE s[i].state)
        BY <2>1, <2>2 DEF Task
  <2>5. (\A i \in DOMAIN ts : ts[i].state # "Running") /\ ts[Idle].state = "Ready"
        BY <1>t, <2>1, <2>2, <2>3, <2>4
  <2>6. SwitchOrHalt(ts) /\ UNCHANGED nextId
        BY <1>3 DEF BlockAndYield, BlockFrom
  <2> HIDE DEF ts
  <2> QED
      BY <1>t, <2>1, <2>3, <2>5, <2>6, SwitchKeepsInv
<1>4. CASE \E id \in TaskId : Wake(id)
  <2>1. PICK id \in TaskId : Wake(id)
        BY <1>4
  <2>2. CASE id \in DOMAIN tasks /\ tasks[id].state = "Blocked"
    <3>1. tasks' = [tasks EXCEPT ![id].state = "Ready"] /\ current' = current /\ nextId' = nextId
          BY <2>1, <2>2 DEF Wake, WakeTask
    <3>2. DOMAIN tasks' = DOMAIN tasks /\ tasks' \in [DOMAIN tasks -> Task]
          BY <1>t, <2>2, <3>1 DEF TypeOK, Task
    <3>3. \A i \in DOMAIN tasks : tasks'[i].state = (IF i = id THEN "Ready" ELSE tasks[i].state)
          BY <1>t, <2>2, <3>1 DEF TypeOK, Task
    <3>4. TypeOK'
          BY <1>t, <3>1, <3>2 DEF TypeOK
    <3>5. OneRunning' /\ CpuNeverHalts' /\ IdleRunnable'
          BY <1>t, <2>2, <3>1, <3>2, <3>3 DEF OneRunning, CpuNeverHalts, IdleRunnable
    <3> QED
        BY <3>4, <3>5 DEF SchedInv
  <2>3. CASE ~(id \in DOMAIN tasks /\ tasks[id].state = "Blocked")
    <3>1. UNCHANGED schedVars
          BY <2>1, <2>3 DEF Wake, WakeTask, schedVars
    <3> QED
        BY <3>1 DEF SchedInv, TypeOK, OneRunning, CpuNeverHalts, IdleRunnable, schedVars
  <2> QED
      BY <2>2, <2>3
<1>5. CASE TaskExit
  <2> DEFINE ts == MarkDead(tasks, current)
  <2>1. DOMAIN ts = DOMAIN tasks /\ ts \in [DOMAIN tasks -> Task] /\ current # Idle
        BY <1>t, <1>5 DEF TypeOK, Task, TaskExit, MarkDead
  <2>2. \A i \in DOMAIN tasks : ts[i].state = (IF i = current THEN "Dead" ELSE tasks[i].state)
        BY <1>t DEF TypeOK, Task, MarkDead
  <2>3. (\A i \in DOMAIN ts : ts[i].state # "Running") /\ ts[Idle].state = "Ready"
        BY <1>t, <2>1, <2>2
  <2>4. SwitchOrHalt(ts) /\ UNCHANGED nextId
        BY <1>5 DEF TaskExit, ExitFrom
  <2> HIDE DEF ts
  <2> QED
      BY <1>t, <2>1, <2>3, <2>4, SwitchKeepsInv
<1>6. CASE \E id \in TaskId : KillTask(id)
  <2>1. PICK id \in TaskId : KillTask(id)
        BY <1>6
  <2>2. /\ tasks' = [tasks EXCEPT ![id].state = "Dead"] /\ current' = current /\ nextId' = nextId
        /\ id \in DOMAIN tasks /\ id # Idle /\ id # current
        BY <2>1 DEF KillTask, MayKill, MarkDead, Alive
  <2>3. DOMAIN tasks' = DOMAIN tasks /\ tasks' \in [DOMAIN tasks -> Task]
        BY <1>t, <2>2 DEF TypeOK, Task
  <2>4. \A i \in DOMAIN tasks : tasks'[i].state = (IF i = id THEN "Dead" ELSE tasks[i].state)
        BY <1>t, <2>2 DEF TypeOK, Task
  <2>5. TypeOK'
        BY <1>t, <2>2, <2>3 DEF TypeOK
  <2>6. OneRunning' /\ CpuNeverHalts' /\ IdleRunnable'
        BY <1>t, <2>2, <2>3, <2>4 DEF OneRunning, CpuNeverHalts, IdleRunnable
  <2> QED
      BY <2>5, <2>6 DEF SchedInv
<1>7. CASE \E id \in TaskId, p \in Priorities : SetTaskPriority(id, p)
  <2>1. PICK id \in TaskId, p \in Priorities : SetTaskPriority(id, p)
        BY <1>7
  <2>2. /\ tasks' = [tasks EXCEPT ![id].priority = p] /\ current' = current /\ nextId' = nextId
        /\ id \in DOMAIN tasks /\ p \in 0..2
        BY <2>1, PrioritiesAssumption DEF SetTaskPriority, Alive
  <2>3. DOMAIN tasks' = DOMAIN tasks /\ tasks' \in [DOMAIN tasks -> Task]
        BY <1>t, <2>2 DEF TypeOK, Task
  <2>4. \A i \in DOMAIN tasks : tasks'[i].state = tasks[i].state
        BY <1>t, <2>2 DEF TypeOK, Task
  <2>5. TypeOK'
        BY <1>t, <2>2, <2>3 DEF TypeOK
  <2>6. OneRunning' /\ CpuNeverHalts' /\ IdleRunnable'
        BY <1>t, <2>2, <2>3, <2>4 DEF OneRunning, CpuNeverHalts, IdleRunnable
  <2> QED
      BY <2>5, <2>6 DEF SchedInv
<1>8. CASE UNCHANGED schedVars
      BY <1>8 DEF SchedInv, TypeOK, OneRunning, CpuNeverHalts, IdleRunnable, schedVars
<1> QED
    BY <1>1, <1>2, <1>3, <1>4, <1>5, <1>6, <1>7, <1>8 DEF Next

\* The inductive invariant holds in every reachable state.
THEOREM SchedInvariant == Spec => []SchedInv
BY InitSchedInv, NextSchedInv, PTL DEF Spec

\* In every reachable state of the scheduler exactly one task, the current one,
\* is Running: yield_task, block_and_yield, task_exit and kill_task never leave
\* two tasks on the CPU nor a dead task as the current one.
THEOREM OneRunningHolds == Spec => []OneRunning
<1>1. SchedInv => OneRunning
      BY DEF SchedInv
<1> QED
    BY <1>1, SchedInvariant, PTL

\* The hlt loops of block_and_yield and task_exit are unreachable.
THEOREM CpuNeverHaltsHolds == Spec => []CpuNeverHalts
<1>1. SchedInv => CpuNeverHalts
      BY DEF SchedInv
<1> QED
    BY <1>1, SchedInvariant, PTL

\* A step brings no dead task back and adds no id but the next one.
DeadStep ==
  /\ \A i \in DOMAIN tasks : tasks[i].state = "Dead" => ~Alive(tasks', i)
  /\ \A i \in DOMAIN tasks' \ DOMAIN tasks : i = nextId /\ nextId' = nextId + 1

\* A step that changes a queue whose dead tasks are those of tasks, or fewer of
\* its members, by setting the state of tasks that are not dead.
LEMMA DeadStepFrom ==
  ASSUME NEW ts, DOMAIN ts \subseteq DOMAIN tasks, DOMAIN tasks' = DOMAIN ts,
         \A i \in DOMAIN ts : tasks[i].state = "Dead" => tasks'[i].state = "Dead"
  PROVE  DeadStep
BY DEF DeadStep, Alive

LEMMA NextDeadStep == SchedInv /\ [Next]_schedVars => [DeadStep]_schedVars
<1> SUFFICES ASSUME SchedInv, Next PROVE DeadStep
    OBVIOUS
<1>t. TypeOK /\ OneRunning
      BY DEF SchedInv
<1>c. current # Halted => current \in DOMAIN tasks /\ tasks[current].state = "Running"
      BY <1>t DEF OneRunning
<1> DEFINE s == SweepDead(tasks)
<1>s. /\ DOMAIN s \subseteq DOMAIN tasks
      /\ \A i \in DOMAIN s : s[i] = tasks[i] /\ tasks[i].state # "Dead"
      BY SweepDeadKeeps
<1> HIDE DEF s
<1>1. CASE Spawn
  <2>1. /\ DOMAIN tasks' = DOMAIN tasks \cup {nextId} /\ nextId' = nextId + 1
        /\ nextId \notin DOMAIN tasks
        /\ \A i \in DOMAIN tasks : i # nextId => tasks'[i] = tasks[i]
        BY <1>1, <1>t, MaxTasksAssumption DEF Spawn, SpawnIn, TypeOK, TaskId
  <2> QED
      BY <2>1 DEF DeadStep, Alive
<1>2. CASE YieldTask
  <2>1. DOMAIN tasks' = DOMAIN s
        BY <1>2 DEF YieldTask, YieldFrom, s
  <2> QED
      BY <2>1, <1>s, DeadStepFrom
<1>3. CASE BlockAndYield
  <2>1. DOMAIN tasks' = DOMAIN s
        BY <1>3 DEF BlockAndYield, BlockFrom, SwitchOrHalt, s
  <2> QED
      BY <2>1, <1>s, DeadStepFrom
<1>4. CASE \E id \in TaskId : Wake(id)
  <2>1. DOMAIN tasks' = DOMAIN tasks
        BY <1>4 DEF Wake, WakeTask
  <2>2. \A i \in DOMAIN tasks : tasks[i].state = "Dead" => tasks'[i] = tasks[i]
        BY <1>4 DEF Wake, WakeTask
  <2> QED
      BY <2>1, <2>2, DeadStepFrom
<1>5. CASE TaskExit
  <2> DEFINE m == MarkDead(tasks, current)
  <2>1. current # Halted /\ SwitchOrHalt(m)
        BY <1>5 DEF TaskExit, ExitFrom
  <2>2. DOMAIN m = DOMAIN tasks /\ \A i \in DOMAIN tasks : tasks[i].state = "Dead" => m[i].state = "Dead"
        BY <2>1, <1>c, <1>t DEF MarkDead, TypeOK, Task
  <2> HIDE DEF m
  <2>3. DOMAIN tasks' = DOMAIN m
        BY <2>1 DEF SwitchOrHalt
  <2>4. ASSUME NEW i \in DOMAIN m, tasks[i].state = "Dead" PROVE tasks'[i].state = "Dead"
    <3>1. m[i].state = "Dead"
          BY <2>2, <2>4
    <3>2. PICK next \in IF Ready(m) = {} THEN {Halted} ELSE FindNextReady(m, current) :
            tasks' = IF next = Halted THEN m ELSE [m EXCEPT ![next].state = "Running"]
          BY <2>1 DEF SwitchOrHalt
    <3>3. next # Halted => next # i
          BY <3>1, <3>2, FindNextReadyIsReady
    <3> QED
        BY <3>1, <3>2, <3>3
  <2> QED
      BY <2>2, <2>3, <2>4, DeadStepFrom
<1>6. CASE \E id \in TaskId : KillTask(id)
  <2>1. PICK id \in TaskId : tasks' = [tasks EXCEPT ![id].state = "Dead"] /\ id \in DOMAIN tasks
        BY <1>6 DEF KillTask, MarkDead, MayKill, Alive
  <2>2. DOMAIN tasks' = DOMAIN tasks /\ \A i \in DOMAIN tasks : tasks[i].state = "Dead" => tasks'[i].state = "Dead"
        BY <2>1, <1>t DEF TypeOK, Task
  <2> QED
      BY <2>2, DeadStepFrom
<1>7. CASE \E id \in TaskId, p \in Priorities : SetTaskPriority(id, p)
  <2>1. PICK id \in TaskId, p \in Priorities : tasks' = [tasks EXCEPT ![id].priority = p] /\ id \in DOMAIN tasks
        BY <1>7 DEF SetTaskPriority, Alive
  <2>2. DOMAIN tasks' = DOMAIN tasks /\ \A i \in DOMAIN tasks : tasks'[i].state = tasks[i].state
        BY <2>1, <1>t DEF TypeOK, Task
  <2> QED
      BY <2>2, DeadStepFrom
<1> QED
    BY <1>1, <1>2, <1>3, <1>4, <1>5, <1>6, <1>7 DEF Next

\* A task that is dead stays dead until it is swept, and no id is used twice: a
\* late wake_task, an expired sleep or a kill finds the task it was meant for or
\* none.
THEOREM DeadIsFinalHolds == Spec => DeadIsFinal
<1>1. SchedInv /\ [Next]_schedVars => [DeadStep]_schedVars
      BY NextDeadStep
<1> QED
    BY <1>1, SchedInvariant, PTL DEF Spec, DeadIsFinal, DeadStep
=============================================================================
