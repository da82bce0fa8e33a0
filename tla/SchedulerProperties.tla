------------------------- MODULE SchedulerProperties -------------------------
(* Correctness properties of the scheduler.                                *)
EXTENDS Scheduler

(* Every variable has the type of the Go field it stands for, and the task *)
(* in the launcher's hand is one whose id was sent to it.                  *)
TypeOK ==
  /\ request \in [Tasks -> Requests \cup {None}]
  /\ priority \in [Tasks -> Int]
  /\ state \in [Tasks -> TaskState]
  /\ tries \in [Tasks -> Nat]
  /\ launchTime \in [Tasks -> Nat]
  /\ taskQueue \in Seq(Tasks)
  /\ sending \in Tasks \cup {None}
  /\ waitQueue \in SUBSET Tasks
  /\ resourceRelease \in Seq(Tasks)
  /\ free \in [cpu : Int, memory : Int]
  /\ lpc \in {"recv", "lock", "clean", "plan", "kill", "reclean", "check"}
  /\ cur \in Tasks \cup {None}
  /\ lpc # "recv" => cur \in Tasks
  /\ gor \in [Tasks -> {"none", "exec", "stillborn", "run", "exited",
                        "released", "done"}]
  /\ signal \in [Tasks -> {"none", "term", "kill"}]
  /\ kill \in [Callers -> [Tasks -> {"idle", "start", "term"}]]
  /\ launchAnswers \in [Tasks -> Nat]
  /\ completeAnswers \in [Tasks -> Nat]

-----------------------------------------------------------------------------
(* The tasks whose resources are not in `free'.                            *)
Holding(t) ==
  \/ gor[t] \in {"exec", "stillborn", "run", "exited"}
  \/ \E i \in DOMAIN resourceRelease : resourceRelease[i] = t
Holders == {t \in Tasks : Holding(t)}

(* plan.go, execute.go: what is not free is exactly what the launched      *)
(* tasks hold or have put in the release channel.  A release lost, sent    *)
(* twice or added for a task that never reserved breaks it.                *)
LedgerBalances ==
  /\ free.cpu + SumCPU(Holders) = TotalCPU
  /\ free.memory + SumMemory(Holders) = TotalMemory

(* plan.go:22 and the safety check at 87: the scheduler never gives away   *)
(* the last unit of CPU or memory, whatever it killed and however many of  *)
(* the killed tasks turned out to have been released already.              *)
FreePositive == free.cpu > 0 /\ free.memory > 0

(* Where the launcher, the queues and the goroutines know a task's id.     *)
InQueue(t) == \E i \in DOMAIN taskQueue : taskQueue[i] = t
Started(t) == gor[t] # "none"
GaveUp(t) == gor[t] = "none" /\ state[t] = "Failed"

Places(t) == {p \in {"sending", "queued", "asleep", "inHand", "started", "gaveUp"} :
                \/ p = "sending" /\ sending = t
                \/ p = "queued" /\ InQueue(t)
                \/ p = "asleep" /\ t \in waitQueue
                \/ p = "inHand" /\ cur = t
                \/ p = "started" /\ Started(t)
                \/ p = "gaveUp" /\ GaveUp(t)}

(* schedule.go, launch.go, service.go:99: an accepted task is in exactly   *)
(* one place, once: its id is never lost between the channel, the launcher *)
(* and the wait queue, never in two of them, and a task that was launched  *)
(* or given up is in none, so it is not launched a second time.            *)
InOnePlace ==
  /\ \A t \in Accepted : Cardinality(Places(t)) = 1
  /\ \A t \in Tasks \ Accepted : Places(t) = {}
  /\ \A i, j \in DOMAIN taskQueue : taskQueue[i] = taskQueue[j] => i = j

(* launch.go:63, execute.go:70, 96, 116, 144: OnLaunchComplete is called   *)
(* once, after the task failed to be planned, failed to start, started, or *)
(* (a short command) ended; OnTaskComplete once, only for a long-running   *)
(* task that did start and only after its state became final.              *)
AnsweredOnce ==
  \A t \in Tasks :
    /\ launchAnswers[t] =
         IF \/ GaveUp(t)
            \/ gor[t] = "stillborn"
            \/ Started(t) /\ request[t].long /\ gor[t] # "exec"
            \/ gor[t] = "done"
         THEN 1 ELSE 0
    /\ completeAnswers[t] =
         IF gor[t] = "done" /\ request[t].long THEN 1 ELSE 0

(* The two together: a task is handled once.                               *)
HandledOnce == InOnePlace /\ AnsweredOnce

(* scheduler_utils.go:193, launch.go:62: the state of a task that          *)
(* completed, failed or was killed never changes again, although plan,     *)
(* execute and killTask goroutines may still hold the task.                *)
TerminalIsFinal ==
  [][\A t \in Tasks : state[t] \in Terminal => state'[t] = state[t]]_state

(* plan.go:8-12 and sortWithPriorityAndLaunchTime: when a plan starts to   *)
(* kill, every victim is a running long-running task of lower priority, no *)
(* spared candidate should have gone before a victim, the victims are      *)
(* enough, and they are not without the last of them.                      *)
PreemptionIsMinimal ==
  [][lpc = "plan" /\ lpc' = "kill" =>
       LET V == {t \in Tasks : kill'["plan"][t] = "start"}
           Candidates == {u \in Accepted : /\ request[u].long
                                           /\ state[u] = "Running"
                                           /\ priority[u] < priority[cur]}
           Key(u) == <<priority[u], 0 - launchTime[u]>>
           Earlier(u, v) == \/ Key(u)[1] < Key(v)[1]
                            \/ Key(u)[1] = Key(v)[1] /\ Key(u)[2] < Key(v)[2]
       IN  /\ V \subseteq Candidates
           /\ Enough(cur, V)
           /\ \A v \in V, u \in Candidates \ V : Earlier(v, u)
           /\ \E last \in V : /\ \A v \in V \ {last} : Earlier(v, last)
                              /\ ~ Enough(cur, V \ {last})]_vars

(* A task that was accepted and neither launched nor given up.             *)
Waiting(t) == request[t] # None /\ gor[t] = "none" /\ state[t] = "Queued"

(* schedule.go:42 sends on the bounded channel with the map lock held, and *)
(* the launcher that would make room waits for that lock: from then on     *)
(* neither can move.                                                       *)
Wedged ==
  /\ lpc = "lock"
  /\ sending # None
  /\ Len(taskQueue) = QueueBuffer

(* schedule.go:42, scheduler_service.go:17: it takes a backlog of a full   *)
(* queue and two tasks more.  Fewer tasks never wedge the scheduler,       *)
(* however often their plans fail and their ids are sent again.            *)
WedgedOnlyByBacklog ==
  Wedged => Cardinality({t \in Tasks : Waiting(t)}) > QueueBuffer + 1

(* scheduler_service.go:21: "sending should be non-blocking in any case".  *)
(* A goroutine that is about to send a release finds room for it, since    *)
(* only tasks that hold a share of the pool have a release to send.        *)
ReleaseNeverBlocks ==
  \A t \in Tasks : gor[t] = "exited" => Len(resourceRelease) < ReleaseBuffer

(* Of the two bounded channels only the first can stop the scheduler, and  *)
(* only under that backlog.                                                *)
ChannelsSuffice == WedgedOnlyByBacklog /\ ReleaseNeverBlocks

-----------------------------------------------------------------------------
(* The inductive form of InOnePlace, AnsweredOnce, TerminalIsFinal and     *)
(* WedgedOnlyByBacklog.                                                    *)

(* A task waits to be launched exactly while one of four places has its id.*)
Homes ==
  /\ cur = None <=> lpc = "recv"
  /\ sending # None => Waiting(sending) /\ sending # cur /\ sending \notin waitQueue
  /\ cur # None => Waiting(cur) /\ cur \notin waitQueue
  /\ \A t \in waitQueue : Waiting(t)
  /\ \A i \in DOMAIN taskQueue :
       /\ Waiting(taskQueue[i])
       /\ taskQueue[i] \notin waitQueue /\ taskQueue[i] # cur /\ taskQueue[i] # sending
  /\ \A i, j \in DOMAIN taskQueue : taskQueue[i] = taskQueue[j] => i = j
  /\ \A t \in Tasks :
       Waiting(t) => sending = t \/ cur = t \/ t \in waitQueue \/ InQueue(t)

(* A task's state follows its goroutine, which sends one release.          *)
StatesAgree ==
  /\ \A t \in Tasks :
       /\ request[t] = None => gor[t] = "none" /\ state[t] = "Queued"
       /\ gor[t] = "none" => state[t] \in {"Queued", "Failed"}
       /\ gor[t] \in {"exec", "stillborn"} => state[t] = "Queued"
       /\ gor[t] \in {"run", "exited", "released"} =>
            state[t] = IF request[t].long THEN "Running" ELSE "Queued"
       /\ gor[t] = "done" => state[t] \in Terminal
       /\ gor[t] = "stillborn" => request[t].long
  /\ \A i \in DOMAIN resourceRelease : gor[resourceRelease[i]] \in {"released", "done"}
  /\ \A i, j \in DOMAIN resourceRelease :
       resourceRelease[i] = resourceRelease[j] => i = j

IInv == Homes /\ StatesAgree

-----------------------------------------------------------------------------
(* The scheduler implements the resource pool: a share is held from the    *)
(* reservation in plan until the release has been drained from the channel.*)
Pool == INSTANCE ResourcePool WITH
          demand <- request,
          share <- [t \in Tasks |-> IF ~ Started(t) THEN "none"
                                    ELSE IF Holding(t) THEN "held"
                                    ELSE "returned"]
PoolSpec == Pool!Spec

(* launch.go:50-64, execute.go:73-150: what the callbacks tell a caller is *)
(* the life of a task: a task reported as refused never ends, one that     *)
(* ends was reported as launched before, and nothing is taken back.        *)
Life == INSTANCE TaskLife WITH
          life <- [t \in Tasks |->
                     IF request[t] = None THEN "unknown"
                     ELSE IF launchAnswers[t] = 0 THEN "scheduled"
                     ELSE IF GaveUp(t) \/ gor[t] = "stillborn" THEN "refused"
                     ELSE IF completeAnswers[t] = 0 THEN "launched"
                     ELSE "ended"]
LifeSpec == Life!LifeSpec

-----------------------------------------------------------------------------
(* schedule.go, launch.go: the caller of ScheduleTask is told, once, how   *)
(* the launch went: launched, or given up after SchedulingRetries plans.   *)
EventuallyAnswered ==
  \A t \in Tasks : request[t] # None ~> launchAnswers[t] = 1

(* external_task_manipulation.go:16: a task that KillTask found alive      *)
(* reaches a final state and its resources reach the release channel.      *)
KillIsEffective ==
  \A t \in Tasks : kill["api"][t] = "start" ~> state[t] \in Terminal
=============================================================================
