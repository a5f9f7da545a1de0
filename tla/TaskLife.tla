------------------------------- MODULE TaskLife -------------------------------
(***************************************************************************)
(* The life of a task in the Lythos kernel (kernel/src/task.rs and the     *)
(* task system calls of syscall.rs): spawn, exit, kill, waiting for        *)
(* another task, sleeping, and the timer tick, on top of SchedCore.        *)
(*                                                                         *)
(* A system call runs with interrupts off until it blocks, so it is one    *)
(* step up to block_and_yield and one step when the task is resumed.       *)
(* `at` says where each task is: in user code, or inside a blocking call   *)
(* whose second half runs when the task is next the current one.           *)
(*                                                                         *)
(* Time.  The code stores absolute tick numbers; only the ticks left until *)
(* a deadline matter, so an entry holds those and a tick takes one away.   *)
(*                                                                         *)
(* SYS_TASK_KILL asks for uid 0; uids are left out, every task may kill.   *)
(***************************************************************************)
EXTENDS SchedCore

CONSTANTS MaxWaiters,   \* slots of TASK_WAITERS (32 in the code)
          MaxSleepers,  \* slots of SLEEP_QUEUE (64 in the code)
          MaxSleep,     \* bound: the longest sleep asked for, in ticks
          ExitCodes     \* exit codes a program may pass to SYS_TASK_EXIT

ASSUME SlotsAssumption == MaxWaiters \in Nat /\ MaxSleepers \in Nat
ASSUME SleepAssumption == MaxSleep \in Nat \ {0}
ASSUME CodesAssumption == ExitCodes \subseteq 0..255

VARIABLES waiters,    \* TASK_WAITERS: slots with [waiter, target] or Free
          sleepQ,     \* SLEEP_QUEUE: slots with [id, left] or Free
          exitRecs,   \* EXIT_RECORDS: child -> [spawner, status]
          at,         \* where each task's own code stands
          fate,       \* history: how each dead task ended, [spawner, status]
          reaped,     \* history: the children whose record a wait has consumed
          reply       \* history: the answer of the wait that returned in this step

lifeVars == <<tasks, current, nextId, waiters, sleepQ, exitRecs, at, fate, reaped, reply>>

Free == [slot |-> "free"]
NoReply == [of |-> "nothing"]
NotFound == -1                      \* ENOENT

EXIT_ABNORMAL == 256
EXIT_REASON_KILLED == 0
EXIT_REASON_FAULT == 1
exit_status_normal(code) == code % 256
exit_status_abnormal(reason) == EXIT_ABNORMAL + (reason % 256)

InUser == [op |-> "user"]
InWait(target) == [op |-> "wait", target |-> target]
InSleep(left) == [op |-> "sleep", left |-> left]

-----------------------------------------------------------------------------
(* Slot tables and exit records.                                           *)

FreeSlots(table) == {k \in DOMAIN table : table[k] = Free}

\* The first free slot takes the entry; a full table drops it silently.
InsertSlot(table, entry) ==
  [k \in DOMAIN table |->
     IF k \in FreeSlots(table) /\ \A m \in FreeSlots(table) : k <= m THEN entry ELSE table[k]]

\* Mutant: the records of the siblings are reaped, not those of the children.
RecordExitReapsSiblings(recs, id, spawner, status) ==
  LET all == [x \in DOMAIN recs \cup {id} |->
                IF x = id THEN [spawner |-> spawner, status |-> status] ELSE recs[x]]
  IN [x \in {y \in DOMAIN all : y = id \/ all[y].spawner # spawner} |-> all[x]]

\* record_exit of id, then reap_children_of(id).
RecordExit(recs, id, spawner, status) ==
  LET all == [x \in DOMAIN recs \cup {id} |->
                IF x = id THEN [spawner |-> spawner, status |-> status] ELSE recs[x]]
  IN [x \in {y \in DOMAIN all : all[y].spawner # id} |-> all[x]]

Without(recs, id) == [x \in DOMAIN recs \ {id} |-> recs[x]]

WaitersOn(id) ==
  {waiters[k].waiter : k \in {m \in DOMAIN waiters : waiters[m] # Free /\ waiters[m].target = id}}

ClearWaitersOn(id) ==
  [k \in DOMAIN waiters |->
     IF waiters[k] # Free /\ waiters[k].target = id THEN Free ELSE waiters[k]]

\* What task_exit and kill_task do to everything but the CPU: the status is
\* recorded before the waiters are woken.
EndTask(id, status) ==
  /\ exitRecs' = RecordExit(exitRecs, id, tasks[id].parent, status)
  /\ waiters' = ClearWaitersOn(id)
  /\ fate' = [x \in DOMAIN fate \cup {id} |->
                IF x = id THEN [spawner |-> tasks[id].parent, status |-> status] ELSE fate[x]]

QueueAfterEnd(id) == WakeAll(MarkDead(tasks, id), WaitersOn(id))

-----------------------------------------------------------------------------
LifeInit ==
  /\ Init
  /\ waiters = [k \in 1..MaxWaiters |-> Free]
  /\ sleepQ = [k \in 1..MaxSleepers |-> Free]
  /\ exitRecs = [x \in {} |-> Free]
  /\ at = [i \in TaskId |-> InUser]
  /\ fate = [x \in {} |-> Free]
  /\ reaped = {}
  /\ reply = NoReply

\* The current task is in user code and may enter the kernel.  kmain idles: of
\* the calls below it only spawns.
InUserCode == current # Halted /\ at[current] = InUser
Calls == InUserCode /\ current # Idle

SysSpawn ==
  /\ InUserCode
  /\ Spawn
  /\ reply' = NoReply
  /\ UNCHANGED <<waiters, sleepQ, exitRecs, at, fate, reaped>>

\* SYS_YIELD, and SYS_NANOSLEEP of less than a tick.
SysYield ==
  /\ InUserCode
  /\ YieldTask
  /\ reply' = NoReply
  /\ UNCHANGED <<waiters, sleepQ, exitRecs, at, fate, reaped>>

\* SYS_TASK_EXIT, and the exception handlers' task_exit of a faulting program.
SysExit(status) ==
  /\ Calls
  /\ EndTask(current, status)
  /\ ExitFrom(QueueAfterEnd(current))
  /\ reply' = NoReply
  /\ UNCHANGED <<nextId, sleepQ, at, reaped>>

SysKill(id) ==
  /\ Calls
  /\ MayKill(id)
  /\ EndTask(id, exit_status_abnormal(EXIT_REASON_KILLED))
  /\ tasks' = QueueAfterEnd(id)
  /\ reply' = NoReply
  /\ UNCHANGED <<current, nextId, sleepQ, at, reaped>>

\* Mutant: the record is read and not removed.
AnswerWaitKeeps(target) ==
  LET found == target \in DOMAIN exitRecs IN
  /\ reply' = [to |-> current, of |-> target,
               status |-> IF found THEN exitRecs[target].status ELSE NotFound]
  /\ reaped' = IF found THEN reaped \cup {target} ELSE reaped
  /\ UNCHANGED exitRecs

\* consume_exit: the answer of wait_for_task(target) to the current task.
AnswerWait(target) ==
  LET found == target \in DOMAIN exitRecs IN
  /\ reply' = [to |-> current, of |-> target,
               status |-> IF found THEN exitRecs[target].status ELSE NotFound]
  /\ exitRecs' = Without(exitRecs, target)
  /\ reaped' = IF found THEN reaped \cup {target} ELSE reaped

\* wait_for_task of a task that is gone already: it does not block.
SysWaitGone(target) ==
  /\ Calls
  /\ ~Alive(tasks, target)
  /\ AnswerWait(target)
  /\ UNCHANGED <<tasks, current, nextId, waiters, sleepQ, at, fate>>

\* wait_for_task of a live task: register and block.
SysWaitBlock(target) ==
  /\ Calls
  /\ Alive(tasks, target)
  /\ waiters' = InsertSlot(waiters, [waiter |-> current, target |-> target])
  /\ at' = [at EXCEPT ![current] = InWait(target)]
  /\ BlockFrom(tasks)
  /\ reply' = NoReply
  /\ UNCHANGED <<nextId, sleepQ, exitRecs, fate, reaped>>

\* The rest of wait_for_task, once the task has been resumed.
WaitReturn ==
  /\ current # Halted /\ at[current].op = "wait"
  /\ AnswerWait(at[current].target)
  /\ at' = [at EXCEPT ![current] = InUser]
  /\ UNCHANGED <<tasks, current, nextId, waiters, sleepQ, fate>>

\* SYS_NANOSLEEP of n ticks: sleep_until.
SysNanosleep(n) ==
  /\ Calls
  /\ sleepQ' = InsertSlot(sleepQ, [id |-> current, left |-> n])
  /\ at' = [at EXCEPT ![current] = InSleep(n)]
  /\ BlockFrom(tasks)
  /\ reply' = NoReply
  /\ UNCHANGED <<nextId, waiters, exitRecs, fate, reaped>>

SleepReturn ==
  /\ current # Halted /\ at[current].op = "sleep"
  /\ at' = [at EXCEPT ![current] = InUser]
  /\ reply' = NoReply
  /\ UNCHANGED <<tasks, current, nextId, waiters, sleepQ, exitRecs, fate, reaped>>

-----------------------------------------------------------------------------
(* The timer interrupt: a tick, wake_sleepers, yield_task.                 *)

OneLess(n) == IF n > 0 THEN n - 1 ELSE 0

\* Mutant: > for >= in the comparison with the current tick.
ExpiredLate(k) == sleepQ[k] # Free /\ sleepQ[k].left = 0

Expired(k) == sleepQ[k] # Free /\ OneLess(sleepQ[k].left) = 0

\* Mutant: an expired entry stays in the queue.
QueueAfterTickKeeps ==
  [k \in DOMAIN sleepQ |->
     IF sleepQ[k] = Free THEN Free ELSE [sleepQ[k] EXCEPT !.left = OneLess(sleepQ[k].left)]]

QueueAfterTick ==
  [k \in DOMAIN sleepQ |->
     IF sleepQ[k] = Free \/ Expired(k) THEN Free
     ELSE [sleepQ[k] EXCEPT !.left = OneLess(sleepQ[k].left)]]

\* Mutant: every sleeper is woken.
WokenByTickAll == {sleepQ[k].id : k \in DOMAIN sleepQ \ FreeSlots(sleepQ)}

WokenByTick == {sleepQ[k].id : k \in {m \in DOMAIN sleepQ : Expired(m)}}

\* Time passes for a task with a deadline, whatever the queue does.
AtAfterTick(a) == IF "left" \in DOMAIN a THEN [a EXCEPT !.left = OneLess(a.left)] ELSE a

TimerTick ==
  /\ current # Halted
  /\ sleepQ' = QueueAfterTick
  /\ at' = [i \in TaskId |-> AtAfterTick(at[i])]
  /\ YieldFrom(WakeAll(tasks, WokenByTick))
  /\ reply' = NoReply
  /\ UNCHANGED <<nextId, waiters, exitRecs, fate, reaped>>

-----------------------------------------------------------------------------
ExitStatuses ==
  {exit_status_normal(c) : c \in ExitCodes} \cup {exit_status_abnormal(EXIT_REASON_FAULT)}

LifeNext ==
  \/ SysSpawn
  \/ SysYield
  \/ \E s \in ExitStatuses : SysExit(s)
  \/ \E id \in TaskId : SysKill(id)
  \/ \E id \in TaskId : SysWaitGone(id)
  \/ \E id \in TaskId : SysWaitBlock(id)
  \/ WaitReturn
  \/ \E n \in 1..MaxSleep : SysNanosleep(n)
  \/ SleepReturn
  \/ TimerTick

LifeSpec == LifeInit /\ [][LifeNext]_lifeVars

-----------------------------------------------------------------------------
Statuses == ExitStatuses \cup {exit_status_abnormal(EXIT_REASON_KILLED)}

AtOK == \A i \in TaskId :
  \/ at[i] = InUser
  \/ \E x \in TaskId : at[i] = InWait(x)
  \/ \E n \in 0..MaxSleep : at[i] = InSleep(n)

LifeTypeOK ==
  /\ TypeOK
  /\ waiters \in [1..MaxWaiters -> {Free} \cup [waiter : TaskId, target : TaskId]]
  /\ sleepQ \in [1..MaxSleepers -> {Free} \cup [id : TaskId, left : 1..MaxSleep]]
  /\ exitRecs \in [DOMAIN exitRecs -> [spawner : TaskId, status : Statuses]]
  /\ AtOK
  /\ fate \in [DOMAIN fate -> [spawner : TaskId, status : Statuses]]
  /\ DOMAIN exitRecs \subseteq DOMAIN fate /\ DOMAIN fate \subseteq TaskId /\ reaped \subseteq DOMAIN fate
  /\ reply = NoReply \/ reply \in [to : TaskId, of : TaskId, status : Statuses \cup {NotFound}]

\* A spawner never loses a child's exit status: as long as the spawner lives
\* and nobody has consumed it, the record of a dead child is there and holds
\* the status the child really ended with, whatever else exits, is killed or is
\* waited for in between.
StatusRetained ==
  \A x \in DOMAIN fate :
    x \notin reaped /\ Alive(tasks, fate[x].spawner) =>
      x \in DOMAIN exitRecs /\ exitRecs[x] = fate[x]

\* "wait_for_task still returns ENOENT only for a child that never existed, was
\* already reaped, or whose spawner has since died" (task.rs, exit-status
\* retention); and any other answer is the child's real status, given out once.
WaitTruth ==
  [][reply' # NoReply =>
       LET x == reply'.of IN
       IF reply'.status = NotFound
         THEN x >= nextId \/ x \in reaped \/ (x \in DOMAIN fate /\ ~Alive(tasks, fate[x].spawner))
         ELSE x \in DOMAIN fate /\ reply'.status = fate[x].status /\ x \notin reaped]_lifeVars

\* "Block the current task until task target_id exits" (task.rs, wait_for_task)
\* and "returns 0 when the deadline has passed" (syscall.rs, SYS_NANOSLEEP):
\* nobody stays blocked in a wait whose target has ended or in a sleep whose
\* deadline is reached.  It holds as long as TASK_WAITERS and SLEEP_QUEUE have a
\* slot for everyone.
NobodyForgotten ==
  \A i \in DOMAIN tasks : tasks[i].state = "Blocked" =>
    /\ at[i].op = "wait" => Alive(tasks, at[i].target)
    /\ at[i].op = "sleep" => at[i].left > 0

\* "Sleep for at least a1 nanoseconds" (syscall.rs, SYS_NANOSLEEP): a sleep
\* returns only when its ticks have gone by.
SleepsFully ==
  [][\A i \in TaskId : at[i].op = "sleep" /\ at'[i].op = "user" => at[i].left = 0]_lifeVars
=============================================================================
