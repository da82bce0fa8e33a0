------------------------------ MODULE Scheduler ------------------------------
(***************************************************************************)
(* The task scheduler of internal/service/scheduler_service.               *)
(*                                                                         *)
(* Actors: the callers of ScheduleTask and KillTask, the single launch     *)
(* goroutine, one execute goroutine per launched task (followed, for a     *)
(* long-running task, by its waitForTaskComplete goroutine), the killTask  *)
(* goroutines, and the operating-system processes of the commands.         *)
(*                                                                         *)
(* Two kinds of lock are represented by the program points at which they   *)
(* are held.  taskMapAndResourceLock is held by the ScheduleTask call in   *)
(* `sending' and by the launcher from "clean" on.  A task's own mutex is   *)
(* held as TaskLockFree says.                                              *)
(*                                                                         *)
(* plan reads other tasks' State and Priority without their locks.  Each   *)
(* is one machine word, and no step of one task's goroutine depends on     *)
(* another task's, so what the loop reads is always what one instant of    *)
(* some interleaving shows: PlanKill reads it in one step.                 *)
(***************************************************************************)
EXTENDS Integers, Sequences, FiniteSets, Functions

CONSTANTS Tasks,          \* task ids
          Requests,       \* the task requests callers may pass
          TotalCPU,       \* Resources.CPU at start
          TotalMemory,    \* Resources.Memory at start
          QueueBuffer,    \* capacity of taskQueue
          ReleaseBuffer,  \* capacity of resourceRelease
          None

(* long is CmdLongRunning, starts is FALSE for a command that exec cannot  *)
(* start.                                                                  *)
TaskRequest == [cpu: Int, memory: Int, priority: Int, retries: Int,
                long: BOOLEAN, starts: BOOLEAN]

ASSUME SchedulerAssumption ==
  /\ IsFiniteSet(Tasks)
  /\ Requests \subseteq TaskRequest
  /\ TotalCPU \in Int /\ TotalCPU > 0
  /\ TotalMemory \in Int /\ TotalMemory > 0
  /\ QueueBuffer \in Nat \ {0}
  /\ ReleaseBuffer \in Nat \ {0}
  /\ None \notin Tasks
  /\ None \notin Requests

VARIABLES request,         \* Scheduler.tasks: the request of each task, or None
          priority,        \* Task.Priority, raised after every failed plan
          state,           \* Task.State
          tries,           \* Task.SchedulingTries
          launchTime,      \* Task.LaunchTime, as the rank of the launch
          taskQueue,       \* channel of ids
          sending,         \* the ScheduleTask call at `s.taskQueue <- taskID'
          waitQueue,       \* ids asleep, or awake and waiting to send
          resourceRelease, \* channel of released resources, by the task they are of
          free,            \* Scheduler.Resources
          lpc, cur,        \* launch goroutine: program point and task in hand
          gor,             \* execute and waitForTaskComplete goroutines of a task
          signal,          \* the strongest signal a task's process was sent
          kill,            \* killTask goroutines, of plan and of KillTask
          launchAnswers,   \* OnLaunchComplete calls made or spawned
          completeAnswers  \* OnTaskComplete calls spawned

taskVars == <<request, priority, state, tries, launchTime>>
vars == <<request, priority, state, tries, launchTime, taskQueue, sending,
          waitQueue, resourceRelease, free, lpc, cur, gor, signal, kill,
          launchAnswers, completeAnswers>>

Terminal == {"Completed", "Failed", "Killed"}
TaskState == {"Queued", "Running"} \cup Terminal
Callers == {"plan", "api"}

Greater(r, other) == r.cpu > other.cpu /\ r.memory > other.memory

ValidTaskRequest(r) ==
  /\ ~ (0 > r.cpu /\ 0 > r.memory)
  /\ r.priority >= 0

Accepted == {t \in Tasks : request[t] # None}
SumCPU(S) == SumFunctionOnSet([t \in Accepted |-> request[t].cpu], S)
SumMemory(S) == SumFunctionOnSet([t \in Accepted |-> request[t].memory], S)
LauncherHoldsMapLock == lpc \notin {"recv", "lock"}
MapLockFree == sending = None /\ ~ LauncherHoldsMapLock

(* A short-running task's mutex is held while its command runs, any task's *)
(* mutex by the launcher that plans for it and by a killTask that waits    *)
(* for the process to die.                                                 *)
TaskLockFree(t) ==
  /\ ~ (cur = t /\ LauncherHoldsMapLock)
  /\ ~ (~ request[t].long /\ gor[t] \in {"run", "exited", "released"})
  /\ \A c \in Callers : kill[c][t] # "term"

IsAlive(t) == state[t] = "Running" /\ gor[t] = "run"

-----------------------------------------------------------------------------
Init ==
  /\ request = [t \in Tasks |-> None]
  /\ priority = [t \in Tasks |-> 0]
  /\ state = [t \in Tasks |-> "Queued"]
  /\ tries = [t \in Tasks |-> 0]
  /\ launchTime = [t \in Tasks |-> 0]
  /\ taskQueue = <<>>
  /\ sending = None
  /\ waitQueue = {}
  /\ resourceRelease = <<>>
  /\ free = [cpu |-> TotalCPU, memory |-> TotalMemory]
  /\ lpc = "recv"
  /\ cur = None
  /\ gor = [t \in Tasks |-> "none"]
  /\ signal = [t \in Tasks |-> "none"]
  /\ kill = [c \in Callers |-> [t \in Tasks |-> "idle"]]
  /\ launchAnswers = [t \in Tasks |-> 0]
  /\ completeAnswers = [t \in Tasks |-> 0]

-----------------------------------------------------------------------------
(* ScheduleTask stores the task under the map lock and keeps the lock      *)
(* while the send on the bounded taskQueue blocks.                         *)
ScheduleTask(t, r) ==
  /\ request[t] = None
  /\ ValidTaskRequest(r)
  /\ MapLockFree
  /\ request' = [request EXCEPT ![t] = r]
  /\ priority' = [priority EXCEPT ![t] = r.priority]
  /\ sending' = t
  /\ UNCHANGED <<state, tries, launchTime, taskQueue, waitQueue,
                 resourceRelease, free, lpc, cur, gor, signal, kill,
                 launchAnswers, completeAnswers>>

ScheduleSend(t) ==
  /\ sending = t
  /\ Len(taskQueue) < QueueBuffer
  /\ taskQueue' = Append(taskQueue, t)
  /\ sending' = None
  /\ UNCHANGED <<taskVars, waitQueue, resourceRelease, free, lpc, cur, gor,
                 signal, kill, launchAnswers, completeAnswers>>

(* Mutant of QueueWaitingTask: a ticker instead of a timer sends again. *)
QueueWaitingTaskAgain(t) ==
  /\ t \in waitQueue
  /\ Len(taskQueue) < QueueBuffer
  /\ taskQueue' = Append(taskQueue, t)
  /\ UNCHANGED <<taskVars, sending, waitQueue, resourceRelease, free, lpc, cur,
                 gor, signal, kill, launchAnswers, completeAnswers>>

(* The wait queue's timer has expired; its goroutine sends the id without  *)
(* any lock.  One that is blocked on a full queue is still in waitQueue.   *)
QueueWaitingTask(t) ==
  /\ t \in waitQueue
  /\ Len(taskQueue) < QueueBuffer
  /\ taskQueue' = Append(taskQueue, t)
  /\ waitQueue' = waitQueue \ {t}
  /\ UNCHANGED <<taskVars, sending, resourceRelease, free, lpc, cur, gor,
                 signal, kill, launchAnswers, completeAnswers>>

-----------------------------------------------------------------------------
(* The launch goroutine.                                                   *)

(* Mutant of LaunchReceive: a receive that does not wait for an id. *)
LaunchReceiveNothing ==
  /\ lpc = "recv"
  /\ cur' = IF taskQueue = <<>> THEN None ELSE Head(taskQueue)
  /\ taskQueue' = IF taskQueue = <<>> THEN <<>> ELSE Tail(taskQueue)
  /\ lpc' = "lock"
  /\ UNCHANGED <<taskVars, sending, waitQueue, resourceRelease, free, gor,
                 signal, kill, launchAnswers, completeAnswers>>

LaunchReceive ==
  /\ lpc = "recv"
  /\ taskQueue # <<>>
  /\ cur' = Head(taskQueue)
  /\ taskQueue' = Tail(taskQueue)
  /\ lpc' = "lock"
  /\ UNCHANGED <<taskVars, sending, waitQueue, resourceRelease, free, gor,
                 signal, kill, launchAnswers, completeAnswers>>

LaunchLock ==
  /\ lpc = "lock"
  /\ MapLockFree
  /\ TaskLockFree(cur)
  /\ tries' = [tries EXCEPT ![cur] = @ + 1]
  /\ lpc' = "clean"
  /\ UNCHANGED <<request, priority, state, launchTime, taskQueue, sending,
                 waitQueue, resourceRelease, free, cur, gor, signal, kill,
                 launchAnswers, completeAnswers>>

(* cleanTaskReleasedResources takes whatever is in the channel and stops   *)
(* only when the channel has been empty for a while.                       *)
Clean ==
  /\ lpc \in {"clean", "reclean"}
  /\ resourceRelease # <<>>
  /\ LET r == request[Head(resourceRelease)]
     IN  free' = [cpu |-> free.cpu + r.cpu, memory |-> free.memory + r.memory]
  /\ resourceRelease' = Tail(resourceRelease)
  /\ UNCHANGED <<taskVars, taskQueue, sending, waitQueue, lpc, cur, gor,
                 signal, kill, launchAnswers, completeAnswers>>

CleanTimeout ==
  /\ lpc \in {"clean", "reclean"}
  /\ resourceRelease = <<>>
  /\ lpc' = IF lpc = "clean" THEN "plan" ELSE "check"
  /\ UNCHANGED <<taskVars, taskQueue, sending, waitQueue, resourceRelease,
                 free, cur, gor, signal, kill, launchAnswers, completeAnswers>>

(* Mutant of Launch: Resources.use is forgotten. *)
LaunchUncharged ==
  /\ launchTime' = [launchTime EXCEPT ![cur] = 1]
  /\ gor' = [gor EXCEPT ![cur] = "exec"]
  /\ lpc' = "recv"
  /\ cur' = None
  /\ UNCHANGED <<request, priority, state, tries, taskQueue, sending, free,
                 waitQueue, resourceRelease, signal, kill, launchAnswers,
                 completeAnswers>>

(* Resources.use, the launch time and `go s.execute(task)'.                *)
Launch ==
  /\ free' = [cpu |-> free.cpu - request[cur].cpu,
              memory |-> free.memory - request[cur].memory]
  /\ launchTime' = [launchTime EXCEPT
                      ![cur] = 1 + Cardinality({t \in Tasks : gor[t] # "none"})]
  /\ gor' = [gor EXCEPT ![cur] = "exec"]
  /\ lpc' = "recv"
  /\ cur' = None
  /\ UNCHANGED <<request, priority, state, tries, taskQueue, sending,
                 waitQueue, resourceRelease, signal, kill, launchAnswers,
                 completeAnswers>>

(* Mutants of Reject: no `return' after the task has failed; an answer      *)
(* after every failed plan; the id never handed to the wait queue.         *)
RejectFallsThrough ==
  /\ LET fails == tries[cur] >= request[cur].retries
     IN  /\ state' = [state EXCEPT ![cur] = IF fails THEN "Failed" ELSE @]
         /\ launchAnswers' = [launchAnswers EXCEPT ![cur] = IF fails THEN @ + 1 ELSE @]
  /\ priority' = [priority EXCEPT ![cur] = @ + 10]
  /\ waitQueue' = waitQueue \cup {cur}
  /\ lpc' = "recv"
  /\ cur' = None
  /\ UNCHANGED <<request, tries, launchTime, taskQueue, sending,
                 resourceRelease, free, gor, signal, kill, completeAnswers>>

RejectAnswersAlways ==
  /\ IF tries[cur] >= request[cur].retries
       THEN /\ state' = [state EXCEPT ![cur] = "Failed"]
            /\ UNCHANGED <<priority, waitQueue>>
       ELSE /\ priority' = [priority EXCEPT ![cur] = @ + 10]
            /\ waitQueue' = waitQueue \cup {cur}
            /\ UNCHANGED state
  /\ launchAnswers' = [launchAnswers EXCEPT ![cur] = @ + 1]
  /\ lpc' = "recv"
  /\ cur' = None
  /\ UNCHANGED <<request, tries, launchTime, taskQueue, sending,
                 resourceRelease, free, gor, signal, kill, completeAnswers>>

RejectForgets ==
  /\ IF tries[cur] >= request[cur].retries
       THEN /\ state' = [state EXCEPT ![cur] = "Failed"]
            /\ launchAnswers' = [launchAnswers EXCEPT ![cur] = @ + 1]
            /\ UNCHANGED priority
       ELSE /\ priority' = [priority EXCEPT ![cur] = @ + 10]
            /\ UNCHANGED <<state, launchAnswers>>
  /\ lpc' = "recv"
  /\ cur' = None
  /\ UNCHANGED <<request, tries, launchTime, taskQueue, sending, waitQueue,
                 resourceRelease, free, gor, signal, kill, completeAnswers>>

(* plan returned false: the task fails, or sleeps with a raised priority.  *)
Reject ==
  /\ IF tries[cur] >= request[cur].retries
       THEN /\ state' = [state EXCEPT ![cur] = "Failed"]
            /\ launchAnswers' = [launchAnswers EXCEPT ![cur] = @ + 1]
            /\ UNCHANGED <<priority, waitQueue>>
       ELSE /\ priority' = [priority EXCEPT ![cur] = @ + 10]
            /\ waitQueue' = waitQueue \cup {cur}
            /\ UNCHANGED <<state, launchAnswers>>
  /\ lpc' = "recv"
  /\ cur' = None
  /\ UNCHANGED <<request, tries, launchTime, taskQueue, sending,
                 resourceRelease, free, gor, signal, kill, completeAnswers>>

(* The running tasks a plan for t may kill, in the order it takes them:    *)
(* lowest priority first, youngest first among equals.                     *)
LowPriority(t) ==
  {u \in Accepted : /\ priority[u] < priority[t]
                    /\ request[u].long
                    /\ state[u] = "Running"}
(* Mutant of DiesBefore: the oldest first among equals. *)
OldestDiesBefore(u, v) ==
  \/ priority[u] < priority[v]
  \/ priority[u] = priority[v] /\ launchTime[u] <= launchTime[v]
DiesBefore(u, v) ==
  \/ priority[u] < priority[v]
  \/ priority[u] = priority[v] /\ launchTime[u] >= launchTime[v]
UpTo(t, v) == {u \in LowPriority(t) : DiesBefore(u, v)}

Enough(t, S) ==
  Greater([cpu |-> free.cpu + SumCPU(S), memory |-> free.memory + SumMemory(S)],
          request[t])

TasksToKill(t) ==
  {u \in LowPriority(t) :
     \A v \in LowPriority(t) : Enough(t, UpTo(t, v)) => DiesBefore(u, v)}
CanPreempt(t) == \E v \in LowPriority(t) : Enough(t, UpTo(t, v))

PlanReserve ==
  /\ lpc = "plan"
  /\ Greater(free, request[cur])
  /\ Launch

PlanKill ==
  /\ lpc = "plan"
  /\ ~ Greater(free, request[cur])
  /\ CanPreempt(cur)
  /\ kill' = [kill EXCEPT !["plan"] =
                [t \in Tasks |-> IF t \in TasksToKill(cur) THEN "start" ELSE "idle"]]
  /\ lpc' = "kill"
  /\ UNCHANGED <<taskVars, taskQueue, sending, waitQueue, resourceRelease,
                 free, cur, gor, signal, launchAnswers, completeAnswers>>

PlanReject ==
  /\ lpc = "plan"
  /\ ~ Greater(free, request[cur])
  /\ ~ CanPreempt(cur)
  /\ Reject

(* wg.Wait() in killTasks.                                                 *)
KillsDone ==
  /\ lpc = "kill"
  /\ \A t \in Tasks : kill["plan"][t] = "idle"
  /\ lpc' = "reclean"
  /\ UNCHANGED <<taskVars, taskQueue, sending, waitQueue, resourceRelease,
                 free, cur, gor, signal, kill, launchAnswers, completeAnswers>>

(* Mutant of CheckReserve: no safety check after the kills. *)
CheckNothing ==
  /\ lpc = "check"
  /\ Launch

CheckReserve ==
  /\ lpc = "check"
  /\ Greater(free, request[cur])
  /\ Launch

CheckReject ==
  /\ lpc = "check"
  /\ ~ Greater(free, request[cur])
  /\ Reject

-----------------------------------------------------------------------------
(* The execute goroutine of a task, its process, and waitForTaskComplete.  *)

ExecuteShort(t) ==
  /\ gor[t] = "exec"
  /\ ~ request[t].long
  /\ TaskLockFree(t)
  /\ gor' = [gor EXCEPT ![t] = "run"]
  /\ UNCHANGED <<taskVars, taskQueue, sending, waitQueue, resourceRelease,
                 free, lpc, cur, signal, kill, launchAnswers, completeAnswers>>

ExecuteLong(t) ==
  /\ gor[t] = "exec"
  /\ request[t].long
  /\ TaskLockFree(t)
  /\ IF request[t].starts
       THEN /\ gor' = [gor EXCEPT ![t] = "run"]
            /\ state' = [state EXCEPT ![t] = "Running"]
       ELSE /\ gor' = [gor EXCEPT ![t] = "stillborn"]
            /\ UNCHANGED state
  /\ launchAnswers' = [launchAnswers EXCEPT ![t] = @ + 1]
  /\ UNCHANGED <<request, priority, tries, launchTime, taskQueue, sending,
                 waitQueue, resourceRelease, free, lpc, cur, signal, kill,
                 completeAnswers>>

(* The command ends, by itself or by a signal: Run or Wait returns.        *)
Exit(t) ==
  /\ gor[t] = "run"
  /\ gor' = [gor EXCEPT ![t] = "exited"]
  /\ UNCHANGED <<taskVars, taskQueue, sending, waitQueue, resourceRelease,
                 free, lpc, cur, signal, kill, launchAnswers, completeAnswers>>

(* Mutant of SendRelease: two releases, one of them deferred. *)
SendReleaseTwice(t) ==
  /\ gor[t] = "exited"
  /\ Len(resourceRelease) < ReleaseBuffer
  /\ resourceRelease' = resourceRelease \o <<t, t>>
  /\ gor' = [gor EXCEPT ![t] = "released"]
  /\ UNCHANGED <<taskVars, taskQueue, sending, waitQueue, free, lpc, cur,
                 signal, kill, launchAnswers, completeAnswers>>

SendRelease(t) ==
  /\ gor[t] = "exited"
  /\ Len(resourceRelease) < ReleaseBuffer
  /\ resourceRelease' = Append(resourceRelease, t)
  /\ gor' = [gor EXCEPT ![t] = "released"]
  /\ UNCHANGED <<taskVars, taskQueue, sending, waitQueue, free, lpc, cur,
                 signal, kill, launchAnswers, completeAnswers>>

(* getTaskStateFromError: a command that never started is Failed, a        *)
(* signalled one Killed, any other Completed or Failed by its exit status. *)
Outcomes(t) == IF request[t].starts THEN Terminal ELSE {"Failed"}

UpdateShort(t) ==
  /\ gor[t] = "released"
  /\ ~ request[t].long
  /\ \E s \in Outcomes(t) : state' = [state EXCEPT ![t] = s]
  /\ gor' = [gor EXCEPT ![t] = "done"]
  /\ launchAnswers' = [launchAnswers EXCEPT ![t] = @ + 1]
  /\ UNCHANGED <<request, priority, tries, launchTime, taskQueue, sending,
                 waitQueue, resourceRelease, free, lpc, cur, signal, kill,
                 completeAnswers>>

UpdateLong(t) ==
  /\ gor[t] = "released"
  /\ request[t].long
  /\ TaskLockFree(t)
  /\ \E s \in Outcomes(t) : state' = [state EXCEPT ![t] = s]
  /\ gor' = [gor EXCEPT ![t] = "done"]
  /\ completeAnswers' = [completeAnswers EXCEPT ![t] = @ + 1]
  /\ UNCHANGED <<request, priority, tries, launchTime, taskQueue, sending,
                 waitQueue, resourceRelease, free, lpc, cur, signal, kill,
                 launchAnswers>>

-----------------------------------------------------------------------------
(* KillTask looks the task up under the read lock, asks for its state      *)
(* under the task's lock and, if it runs, starts killTask.  One call per   *)
(* task is in flight at a time: further ones would queue on its mutex.     *)
KillTask(t) ==
  /\ request[t] # None
  /\ kill["api"][t] = "idle"
  /\ MapLockFree
  /\ TaskLockFree(t)
  /\ IsAlive(t)
  /\ kill' = [kill EXCEPT !["api"][t] = "start"]
  /\ UNCHANGED <<taskVars, taskQueue, sending, waitQueue, resourceRelease,
                 free, lpc, cur, gor, signal, launchAnswers, completeAnswers>>

(* killTask under the task's lock: nothing for a dead task, else SIGTERM.  *)
KillTerm(c, t) ==
  /\ kill[c][t] = "start"
  /\ TaskLockFree(t)
  /\ IF IsAlive(t)
       THEN /\ kill' = [kill EXCEPT ![c][t] = "term"]
            /\ signal' = [signal EXCEPT ![t] = IF @ = "none" THEN "term" ELSE @]
       ELSE /\ kill' = [kill EXCEPT ![c][t] = "idle"]
            /\ UNCHANGED signal
  /\ UNCHANGED <<taskVars, taskQueue, sending, waitQueue, resourceRelease,
                 free, lpc, cur, gor, launchAnswers, completeAnswers>>

(* Mutants of KillEnd: no SIGKILL after the two seconds; killTask sets the  *)
(* state that waitForTaskComplete sets from the exit status.               *)
KillEndGentle(c, t) ==
  /\ kill[c][t] = "term"
  /\ kill' = [kill EXCEPT ![c][t] = "idle"]
  /\ UNCHANGED <<taskVars, taskQueue, sending, waitQueue, resourceRelease,
                 free, lpc, cur, gor, signal, launchAnswers, completeAnswers>>

KillEndJudges(c, t) ==
  /\ kill[c][t] = "term"
  /\ kill' = [kill EXCEPT ![c][t] = "idle"]
  /\ signal' = [signal EXCEPT ![t] = IF IsAlive(t) THEN "kill" ELSE @]
  /\ state' = [state EXCEPT ![t] = "Killed"]
  /\ UNCHANGED <<request, priority, tries, launchTime, taskQueue, sending,
                 waitQueue, resourceRelease, free, lpc, cur, gor,
                 launchAnswers, completeAnswers>>

(* The process died, or the two seconds are over and it gets SIGKILL;      *)
(* killTask does not wait for that to take effect.                         *)
KillEnd(c, t) ==
  /\ kill[c][t] = "term"
  /\ kill' = [kill EXCEPT ![c][t] = "idle"]
  /\ signal' = [signal EXCEPT ![t] = IF IsAlive(t) THEN "kill" ELSE @]
  /\ UNCHANGED <<taskVars, taskQueue, sending, waitQueue, resourceRelease,
                 free, lpc, cur, gor, launchAnswers, completeAnswers>>

-----------------------------------------------------------------------------
Launcher ==
  \/ LaunchReceive \/ LaunchLock
  \/ Clean \/ CleanTimeout
  \/ PlanReserve \/ PlanKill \/ PlanReject
  \/ KillsDone \/ CheckReserve \/ CheckReject

TaskStep(t) ==
  \/ ExecuteShort(t) \/ ExecuteLong(t)
  \/ SendRelease(t) \/ UpdateShort(t) \/ UpdateLong(t)

Killer(t) == \E c \in Callers : KillTerm(c, t) \/ KillEnd(c, t)

Next ==
  \/ Launcher
  \/ \E t \in Tasks :
       \/ \E r \in Requests : ScheduleTask(t, r)
       \/ ScheduleSend(t)
       \/ QueueWaitingTask(t)
       \/ TaskStep(t)
       \/ Exit(t)
       \/ KillTask(t)
       \/ Killer(t)

Spec == Init /\ [][Next]_vars

(* Goroutines that can run do run.  A short-running command ends, and so   *)
(* does a process that got SIGKILL; any other long-running process may     *)
(* live for ever, and nobody has to call the API.                          *)
Fairness ==
  /\ WF_vars(Launcher)
  /\ \A t \in Tasks :
       /\ WF_vars(ScheduleSend(t))
       /\ WF_vars(QueueWaitingTask(t))
       /\ WF_vars(TaskStep(t))
       /\ WF_vars(Exit(t) /\ (~ request[t].long \/ signal[t] = "kill"))
       /\ \A c \in Callers : WF_vars(KillTerm(c, t)) /\ WF_vars(KillEnd(c, t))

FairSpec == Spec /\ Fairness
=============================================================================
