# Verification of the Flux backend

Flux is a competitive-programming backend written in Go. It keeps problems,
contests and tournaments in PostgreSQL and has submissions judged on external
platforms (Codeforces): a pool of *bots* (accounts on the platform) is
distributed over *slaves* (Python processes started and killed by a task
scheduler), a *master* dispatches submissions to the slaves, and one *monitor*
per bot polls the platform for verdicts. This directory holds TLA+ modules of
the parts whose correctness depends on concurrency, ordering and failure, TLC
configurations that check them on small instances, and proofs that TLAPS checks
for every value of the constants.

## The system

| Part | State | Operations | Talks to |
|---|---|---|---|
| **Task scheduler** `internal/service/scheduler_service` | map of tasks, free CPU and memory, channel of ids, channel of released resources | `ScheduleTask`, `KillTask`, `GetTaskState`; launch goroutine (`plan`, preemption); one `execute` and one `waitForTaskComplete` goroutine per task | operating-system processes; wait queue; callbacks `OnLaunchComplete`, `OnTaskComplete` |
| **Wait queue** `internal/service/service.go` | priority queue of wake-up times | `AddToWaitQueue`, `processWaitQueue` | any goroutine that goes to sleep |
| **Postman** `submission_service/postman.go` | registered clients, mailbox of 50 | `RegisterMailClient`, `postMail`, `deliverMails` | master, slaves, manager, watchers, monitors |
| **Nyx master** `nyx_master.go` | slaves, pending slaves, per-submission routing, bots | mail handlers for submissions, results, failures, corrupted bots, load reports | bot manager, slaves, scheduler, manager |
| **Nyx slave** `nyx_slave.go` and the `nyx` script | socket to its process, its bots, stop signal | `submit`, `handleStopSignal`, `refreshBots` | master, Python process |
| **Bot manager** `bot_manager.go` | all bots, distribution over slaves, monitors | `refreshBots`, `handleCorruptedBot`, `getBot`, `deleteBotFromDist` | master, monitors, database |
| **Bot monitor** `cf_bot_monitor.go` | last submission and stop timestamps | `monitor`, `updateEntriesIntoDB`, `querySubmissions` | Codeforces, database, watchers |
| **Submission manager** `nyx_manager.go` | watcher per submission | `handleSubmission`, `pollPendingSubmissionsFromDb` | database, watchers |
| **Submission watcher** `nyx_watcher.go` | stage of its submission | `cfSubmit`, `handleSubResult`, `updateCfSubmissionState` | master, database |
| **Load monitor** `nyx_load_monitor.go` | moving averages | a report every 30 s | master |
| **Submission service** `submission_service.go`, `submit.go` | the above | `Start`, `AddBot`, `UpdateBot`, `DeleteBot`, `RefreshBots`, `Submit` | manager, master, database |
| **Contests** `contest_service` | contest, its problems and users | create, update, register, leaderboard | locks, problems, database |
| **Locks** `lock_service` | timer and manual locks | create, update, authorise | database |
| **Tournaments** `tournament_service` | rounds and their contests | create round, change contests | contests, locks, database |
| **Problems** `problem_service`, **users** `user_service` | rows | CRUD with role checks | database |
| **Auth** `auth_service` | one-time tokens, JWT | sign-up, login, reset password | email, database |
| **Email** `internal/email` | channel of 100 jobs | `MailManagers`, worker | SMTP |
| **API, middleware, database, cmd** | none | HTTP handlers, JWT check, generated queries, wiring | services |

### How they interact

`cmd/main.go` starts the scheduler (600 CPU, 10000 MB, queue of 30), the
submission service and the email worker. A user's `Submit` writes a row and
mails the manager; the manager creates a watcher; the watcher mails the master;
the master chooses a slave and a bot and calls the slave; the result goes back
by mail to the watcher, which stores the next stage; the bot's monitor finds
the verdict on the platform and moves the row to its final stage. The master
adds and removes slaves by load: each is a long-running task of the scheduler,
reported by `OnLaunchComplete`, by `OnTaskComplete`, and in between by a
goroutine of the master that reads the address the process writes to a file.

### What is hard

- **Scheduler.** Two locks, two bounded channels, three kinds of goroutine per
  task, processes that ignore SIGTERM, releases that arrive late, priorities
  that grow while a task sleeps. It is correct if resources balance whatever
  the interleaving, no id is lost or launched twice, every caller is answered
  once, a plan kills only what it must, and its two bounded channels stop it
  only under a backlog the program does not build.
- **Postman.** Bounded mailbox drained by a goroutine that posts to it; a
  goroutine per delivery, hence no order; clients that register and go while
  mails for them are under way.
- **Changes of bots.** The master is asked to read the table before the
  transaction that changes it commits, and a refresh may fail.
- **Master and slaves.** A slave's launch, readiness, failure and death are
  four mails that may arrive in any order; a submission routed to a slave that
  dies must get an answer; load reports
  must not start more slaves than the bots can serve.
- **Bots.** A bot must be in exactly one slave's share or with nobody; a
  refresh must keep the bot a slave used last; a corrupted bot must leave every
  share.
- **Watchers and monitors.** A row's stage moves only forward although two
  goroutines write it; a crash between submitting and storing the result must
  not submit twice.
- **Contests, locks, tournaments, tokens, email.** Check and act are separate
  statements: authorisation may be checked against the request, a token is
  validated, used and invalidated in three steps, a queue of jobs is bounded.

## Plan

Ordered by how much of the system's correctness hangs on the part.

| # | Modules | Part | State |
|---|---|---|---|
| 1 | `Scheduler`, `ResourcePool` | task scheduler and wait queue; the pool it implements | done, proved |
| 2 | `BotManager` | distribution of bots, life of the monitors | done, proved |
| 3 | `TaskLife`, `NyxMaster` | master, mail loops of the slaves, over what the scheduler promises | done, proved |
| 4 | `Submission`; `NyxManager`, `CfMonitor` | what the database promises of a submission; manager and watchers; slaves' results and monitors, each over what the other may do to the rows | done, proved |
| 5 | `Contests` | check and act on rows by concurrent requests: contests, their problems and users, rounds, locks of problems, submissions to a contest | done, proved |
| 6 | `MailService`; `Postman`, `SubmissionService` | what the postman promises; bounded mailbox, registration, undeliverable mail; the start of the submission service and its requests about bots, over the postman | done, proved |
| 7 | `Mailer`, `Auth` | the queue of mail jobs; one-time tokens, sign-up and reset over it | done, proved |
| 8 | load monitor | moving averages and recommended slaves | left out, see below |

Compositions. Components meet at an abstract specification, which one side is
shown to implement and the other builds on:

- `SchedulerProperties` instantiates `ResourcePool` and `TaskLife`; `NyxMaster`
  extends `TaskLife`, so the master is checked over what the scheduler promises.
- `NyxManager` and `CfMonitor` extend `Submission`. Each has the other's writes to
  the rows as the actions `Submission` allows (`FollowVerdicts`; `CreateOrFail`,
  `RecordResult`) and is checked to implement `Submission` itself.
- `SubmissionService` extends `Postman` and has its actions post through it;
  `ServiceProperties` instantiates `MailService`, which the two implement
  together. It is what the bags and sets of mails in the modules 2 to 4 stand
  for: what is posted to a registered client is handed over once, in any order.
- `Auth` extends `Mailer`: requests and the master's alerts share its channel.

Every safety property, action property and refinement that a run checks is also
a theorem. What is left to prove is out of the provers' reach, see below.

## The modules

Every module with properties is `<X>Properties`, its TLC instance `MC_<X>`, its
proofs `<X>Proofs`. A definition called *mutant* in a comment is a plausible bug
next to the definition it spoils; `PROJECT.json` pairs each property with one.

### Scheduler, ResourcePool

One action per stretch of code between two points at which another goroutine
can be seen to run: a channel operation, a lock, the start or the end of a
process. `lpc` and `cur` are the launch goroutine (`launch.go`, `plan.go`),
`gor[t]` the `execute` and `waitForTaskComplete` goroutines of a task, `kill`
the `killTask` goroutines started by a plan or by `KillTask`, `signal` what a
process was sent. `taskQueue` and `resourceRelease` are the channels, `sending`
the `ScheduleTask` call that holds the map lock while it sends, `waitQueue` the
ids asleep. Locks are the program points at which they are held; a step that
needs a lock has its absence as a guard. A plan is two actions, since
`killTask` takes up to two seconds in between (`PlanKill`, then `KillsDone`,
the second cleaning, `CheckReserve` or `CheckReject`).

Left out: `StateDead`, which nothing sets; the error path of `use`, reached only
if a check just made under the same lock had failed; the width of `int32`
resources, whose sums stay near the pool (600 and 10000). `OnLaunchComplete`
and `OnTaskComplete` are calls that return: the callbacks of this repository
post a mail. When sleepers wake up is left open.

`ResourcePool` is what the scheduler promises about resources: each task holds
its share at most once, and all shares together stay below the pool. Sums over
tasks are `SumFunctionOnSet` of the community modules, in both.

### TaskLife

What a caller of `ScheduleTask` is told about a task: launched or refused, and
ended only after launched.

### BotManager

Each handler of `bot_manager.go`, and `getBot`, holds the manager's lock: one
action each. `distribution`, `monitors` are the maps; `signals[b]` the stop and
keepAlive mails under way to the monitor of `b`, taken in any order, with the
time stamps by which the monitor tells old ones; `wanted` is history.
A refresh carries any set of bots and slaves the master may have had.

A monitor goes through `running`, `ending` when it is told to stop, `expired`
when five minutes have gone by (`FiveMinutes`), and `dead`. Each later stop, and
each alert or update of a row (`PutOff`), lets the five minutes begin again. A
dead monitor stays in the map (`HandleStopped` looks it up by the wrong name), so
a bot that comes back is signalled through it and has nobody who runs.
`handleInvalidMailClient` is left out: no monitor is ever unregistered.
`updateBotCookies` is one UPDATE.

### NyxMaster

The master's goroutine takes a mail at a time: each handler of `nyx_master.go`
is one action. `slaves` and `numActSubs` are the inventory, `pendingSlaves`,
`killedSlaves`, `activeSubmissions` the maps of that name, `bots` the number of
bots. `wait[t]` is the `waitForNyxScrReady` goroutine of a slave, `gor[t]` and
`job[t]` its mail loop (`nyx_slave.go`) and the submission it has in hand,
`life[t]` the task. `mails`, `jobs` and `stops` are in transit, to the master
and to the slaves.

The mails have priorities in the master's queue, but only among those already
delivered; a delivery is a goroutine (`postman.go:53`), so a mail of any
priority may come too late to matter. The bag admits every order, which
includes every order the priorities allow.

A slave that is killed is told to stop and moves from the inventory to the killed
ones (`KillSlaves`), one whose process has ended and whose death is not handled
included: `KillTask` returns no error for a task that does not run any more, and
one for an id it does not know, which no slave has.
Which slaves go when several have the same load is left open, as is whether
`startSlave` fails. A panic of the slave posts the value recovered:
`slaveFailed`, or, for a Go runtime error, a value the master's type switch
takes for a `slaveBotError` because that is an interface (`nyx_models.go:320`).
`HandleBots` removes a corrupted bot if it is still known.

Left out: mails to the load monitor, watchers and bot manager, which change
none of the master's state; `handleInvalidClient`, which finds nothing, because
only slaves that left the inventory are unregistered; the five characters of a
task id that name a slave, taken to be distinct; sleep signals, which nobody
sends; what `submitCfSolution` does with its script, except for its outcome.

### Submission

The row of a submission, whoever writes it: `state` and, from the table
`cf_submissions`, the id on the platform, 0 while there is no row. It is
created, may fail and wait again, is recorded once under an id no other
submission has, and then follows the verdict, which is final when `Sink`. Of the
verdicts there are `TESTING` and `OK`, one that is final and one that is not:
the code makes no other difference.

### NyxManager

`submit.go`, the manager and the watchers. `mailClients` is the postman's entry
for a watcher's mail id, `watchers` the manager's map. The two are distinct
because the mail id is made of the submission: an entry outlives its watcher and
then belongs to the next. Of a watcher, `pc` is its place between two statements
of the database, `val` what it has read or was told, `ends` whether its handler
is going to return true and the manager was told so. The transaction of
`handleSubResult` is `InsertCfSubmission`, `CheckState`, `Commit` or `Rollback`;
its insert waits for another open transaction with an equal key. `CheckState`
and `CheckFailure` read outside of a transaction, as the code does. The deferred
`updateSubStateToFailure` is read and write, `CheckFailure` and
`UpdateToFailure`, either of which may fail.

The bot is chosen and the solution submitted by the master and a slave
(`NyxMaster`); here a request is dropped (`DropRequest`) or answered with any id
(`Answer`), twice the same one included. Mails are a set: the same mail may be
posted again once it is handled, so nothing is lost by it except that a mail is
handled twice in a row without being posted in between, which two posts would
give, too.

A submission in `Malformed` has a solution the watcher cannot use: `start`
returns an error after the watcher was registered and put in the map. The next
poll mails it, and its mailbox is nil: `down`.

Left out: a watcher's panic, which tells the master (a no-op there);
`handleFailedWatcher`, for the mail it handles is sent to nobody but the master.

### CfMonitor

The platform (`cf`: who submitted what with which bot, and its verdict), the
slaves that submit (`nyx_slave.go`: the latest submission before, the script,
the latest submission after) and the monitors that ask for verdicts. `scripts`
are the requests a script may still carry out, after its slave has given up,
too. `subStatMap` is what a monitor knows. A cycle of the monitor is `Query`,
`GetBulkEntries`, `BulkUpdate`, each a request or a transaction; alerts are
handled before and after it, not in between, for one goroutine does both. A
monitor is started when its bot is new (`Start`), told to stop and to live on
(`HandleSignal`) and ends while it is told to stop (`End`), at any time between
cycles, which includes every time `BotManager` allows; one that ended is not
started again before a restart of the program. `endLife` is what the last signal
said. Slaves go on to use a bot whose monitor has ended, as the code does. Id 0 stands for all submissions a bot had before, judged long ago: the
slave needs one to compare with. `Window` is the 50 submissions a query returns.

Left out: a bot's cookies, the file of the solution, and the columns beside the
verdict (time, memory, tests): a row that differs in these alone is written
again with the verdict it has.

### Contests

`contest_service`, `tournament_service`, `lock_service`, the lock of a problem in
`problem_service`, and `Submit` as far as it asks these. `contests`, `problems`,
`locks`, `rounds` and `submissions` are the tables; `members` holds the rows of
`contest_problems`, `contest_registered_users` and `tournament_contests` by their
parent. `req[r]` is a request that is being served: `Ask` stands for its
reads and early returns, taken together (each handler reads rows that do not
change, or the one it is about); what it writes comes later, in an action of its
own, after others may have written and time may have passed. Replacing the rows of
a parent is three actions, `StartDelete`, `InsertRows`, `Commit`, since at read
committed two such transactions overlap: `gone` are the rows that the snapshot of
the DELETE found. `InsertRows` waits for an equal key under way and fails on one
that is there. Keys and references of the schema are `Taken`, `HasParent`,
`Referenced` and `Replacing`; a statement that fails, for these or any other
reason, is `Abort`.

A tick of the clock is a day or more, so that the day and the five minutes the
validation asks for are one tick or none. `Asked` is the set of requests that
are made. `UpdateContest` is left out because it changes nothing: the parameters
of its UPDATE name no contest. `UpdateLock` changes a name and a description.
Left out, too: roles, the lock of a round (both decide who may ask), scores, and
submissions in practice.

### MailService, Postman, SubmissionService

`MailService` is what those who post rely on. A mail is posted, accepted, and
then handed to its receiver, or returned because the receiver is unknown, and
then its sender is told or, if unknown too, it is lost; each once. It is *safe*
if it was accepted while its receiver was registered and no request to
unregister it was ahead; a safe mail is handed over.

In `Postman`, `posting` are the senders in `postMail`, `mailBox` is the channel,
`inHand` what `deliverMails` itself waits to put there (`SendBack`, then
`EnterBounce`), `carrying` the goroutines that call `recieveMail`, `received` and
`closed` history. A mail is identified by sender, receiver and what it is about,
and each is posted once. `Wedged` is the point from which `deliverMails` cannot
go on: it waits for room in the mailbox that only it empties.

`SubmissionService` has `Start` as far as the master (`boot` is how far), the
first slave's launch and its death as the scheduler's callbacks post them, in
any order and from the moment the slave is asked for (`SchedulerCalls`), the requests `AddBot`,
`UpdateBot`, `DeleteBot` and `RefreshBots` statement by statement (`pc`, `tx`),
and of the master the reading of the bots and the report of a corrupted one.
`table` is the table of bots with the cookies of each row, named after the
request that wrote them, `Old`, or `Renewed` when the bot manager wrote them;
`bots` is what the master knows. A row written by an open transaction is locked
(`RowFree`), others read the committed one. `stale`, `overtaken`, `corrupted` are
history.

Left out: the registration and start of the manager, after that of the master;
the load monitor; claims and roles, which decide who may ask; what a client's
own mailbox does (in the client's module).

### Mailer, Auth

`Mailer` is the email package and its client in the master. `env` says which
environment variables are set, `started` that `main` has made `emailChan`;
before that a send waits on the nil channel and stays there (`onNil`). The one
worker (`main.go:200`) takes a job, dials if it has no connection, sends, and
closes an idle connection; a job is lost when dialing or sending fails. An
alert to the managers (`alerts[b]`) asks for their addresses, tries again every
30 seconds if that fails, and ends after ten minutes.

`Auth` has a request that sends a token and one that uses it, to sign up or to
reset a password, as separate statements: `CreateToken` and `NewMail`;
`Validate`, `Write`, `VerifyAgain`, `Invalidate`, with what the code does of an
expired token (`VerifyExpired`, `DeleteExpired`). A token is named by the request
that made it. `Fail` is an error of a statement or a context that is over. A user
knows a token once its mail was sent, and may use it with any address, purpose,
and as often as there are requests.

Left out: login, which reads one row and signs; the format of tokens, names,
passwords and JWTs; hashing; the texts of mails.

## What is checked

| Run | Instance | Question |
|---|---|---|
| `Scheduler_core` | 3 tasks, 3 kinds, pool 6 and 6, queue 1, room for 2 releases | Whatever the interleaving: do resources balance and never run out, is a task in one place and answered once (`HandledOnce`), finally in one state, preempted only if it must be, and do the channels stop it only under a backlog (`ChannelsSuffice`)? Does the scheduler implement `ResourcePool`? |
| `Scheduler_live` | 2 tasks, queue 1 | Is every caller answered, and a kill effective? Are the callbacks a `TaskLife`? |
| `bots` | 2 bots, 2 slaves, 3 stamps | Is no bot shared (`SharesDisjoint`), does the latest signal win, and does the monitor of a bot that is gone end unless its end is put off again and again? |
| `nyx_fleet` | 3 tasks, bots up to 3 | Is a slave in one list and gone when dead (`ListsKept`), and are there never more slaves than half the bots? |
| `nyx_routing` | 2 tasks, 1 submission | Do loads count entries, and does an entry of a slave that is there always stand for work under way? |
| `submissions` | a submission and a malformed one, 2 watchers, 1 id, 1 restart | Do the two tables agree, is there one watcher, is nothing recorded requested again, is what is pending recorded in the end? Do manager and watchers implement `Submission`? |
| `verdicts` | 1 submission, slave and bot, 2 ids, window 1, 1 restart | Is a final state the verdict on the row's own id, does every row get one in a run of the program while the monitor runs and asks for it (`JudgedInOneRun`)? Do monitors implement `Submission`? |
| `contests` | 2 requests at a time; a public contest (published or not) and a private one, 2 problems, 1 timer and 1 manual lock, 1 user, 2 rounds, days 0 to 2 | Do rows refer to rows that are there, have rounds consecutive numbers, was what was submitted to a contest submitted after its start and is it kept, and has no published contest registered users, whatever two requests at a time do? |
| `accounts` | 3 requests, 2 addresses, 1 alert, channel of 1 | Does a used or superseded token stay dead, and does nobody make an account or set its password but with a token mailed to its address for that purpose, while two requests use one token and mails are lost? |
| `bot_changes` | 2 requests, 1 bot, 1 watcher, mailbox of 2 | Does the postman implement `MailService`, do mails get through unless it waits for itself, does the master know the bots, and are the launch and the death of the first slave the only mails to master or bot manager that can miss (`OnlyFirstSlaveMissed`)? |
| `nyx_crash`, `verdict_lost` | 1 or 2 of each | Two statements of comments and logs that the code does not keep: TLC shows how. |

**Bounds.** The requests of `CoreRequests` are chosen for a pool of 6 and 6 so
that two background tasks fit, an urgent one displaces one of them and a job
both; `MixedRequests` adds a service that fails to start; three tasks make one victim in a plan, two in
another and a third queueing while a plan is under way. A queue of 1 with 3
tasks is full while the launcher has one in hand and a third is being sent, so
the run reaches the wedge; no two tasks do. Every request asks for 2 units at
least, so that no more than two tasks hold a share at a time: room for two
releases is exactly enough, though there are three tasks. Two bots
and two slaves are enough to deal a bot to another slave, to leave one without
any and to take a bot away, with `MaxTime` three signals under way to a monitor;
that no bot is shared is proved for any number. Three slaves are pending, ready
and killed at once. `MaxMails`
bounds only the mails added at will (refreshes, reports, requests), never the
answers to them; `MaxTime` the refreshes, and so the stops that may put the end
of a monitor off; alerts and updates put it off without a bound. `MaxBots` is 3 because half of it,
rounded up, is 2, the least fleet from which one can be killed. A submission
that is requested again and again, with two slaves, is enough for stale, late
and doubled results; more submissions only add to loads, for which there is a
proof. One submission with two watchers has a watcher that ended and its
successor; what more submissions add is a conflict over an id, which the proofs
cover for any number. One restart
falls between any two steps. Two ids on the platform make a solution submitted
twice, of which either may be the one recorded. In `verdicts` `Window` is 1, so that
the first of two submissions falls out of the query, as the code's 51st does; in
`verdict_lost` it is 2, so that what is lost is lost by the restart alone. Two requests at a time are the least that race, and the races
found are between two; a lock expires on day 1, so that a contest is not begun,
under way and over within the bound; the user, the second problem and the second
round are what the requests of `AskedDef` need to differ. In `accounts` three
requests are one that sends a token and two that use it, or two that send and one
that uses; two addresses tell them apart; a channel of 1 is full after one mail. In
`bot_changes`, `MaxActors` = 2 lets any two of the requests, the watcher, the
corrupted bot and the death of the first slave meet: two changes of the same row, a deletion between the refresh
and the commit of an addition, a watcher that ends while its result is under way.
With `Capacity` 2 the mailbox is full, and the postman wedged, within these.
That two tokens are never created at the same instant is an assumption of `Auth`
(`created_at` is a clock with microseconds).

**Deadlock** is not checked: each system may stop, the scheduler when all tasks
ended, the others when nobody adds a mail or a request, the master after a panic, the
postman when it waits for itself. The scheduler also stops under the backlog of `Wedged`. That it does not stop for
less is `ChannelsSuffice` and `EventuallyAnswered`; of the postman it is `MailsMove`.

**Fairness.** Scheduler: goroutines that can run do run, a short command ends,
a process that got SIGKILL dies; long-running processes may live for ever, and
nobody has to call the API. The wait queue wakes sleepers. Bots: the manager
handles mails, a monitor takes its signals, five minutes pass and a ticker ticks;
that nothing puts off the end of a monitor for five minutes is not assumed:
`UnwantedMonitorEnds` has the case that it is put off for ever. Of the master, of
contests and of accounts only safety is checked: no fairness is assumed. Postman:
`deliverMails`, each blocked sender and each delivering goroutine is run by the Go
runtime; nobody has to post, commit or come back. Manager and watchers: their loops go on, the poll is a ticker; statements of the
database and requests may fail, but not every time (strong fairness of each
one's success), and a mail to a watcher the postman knows is delivered. Only
malformed submissions have none of this. Monitors: the platform judges, the
ticker of one that has not ended goes on, a read or an update does not fail every time, and an alert is
taken by a monitor that looks at its mailbox again and again. That a bot has a
monitor, or that it lives on, is not assumed: a row of a bot without, or one that
fell out of the query, is `Forsaken`, and the properties except it. Scripts, slaves
and watchers need no fairness: `JudgedInOneRun` starts when a row is recorded.

## What is proved

For every set of tasks, submissions, bots and slaves, and every capacity, TLAPS
proves the theorems below, from the assumptions named in the modules (sets are
finite, capacities positive, `None` is no element) and no others unless stated.

**SchedulerProofs.** `IInv` has two parts. `Homes`: a task waits to be launched
exactly while its id is in one of channel, sender, launcher and wait queue;
`StatesAgree`: the state of a task follows its goroutine, and the release
channel holds at most one release per launched task. `InOnePlace`,
`TerminalIsFinal` and `AnsweredOnce` are not inductive without: that a waiting
task is not launched twice needs that its id is nowhere else. From it:
`NoTaskLostOrDoubled`, `FinalStatesStay`, `CallbacksOnce` and together
`TasksHandledOnce`; with requests that are not negative `FreeStaysPositive`.
`WedgeIsABacklog`: launcher, sender and a full queue have distinct ids of tasks
that wait, so it takes `QueueBuffer + 2` of them to wedge, however many tasks
there are; `WedgeIsForGood`: no step leads out of a wedge.
`TypeCorrect` is the type invariant.

A sum over a finite set of tasks is a fold that picks some element first.
`SumEmpty`, `SumIsInt`, `SumRemove` and `SumAgree` say that it does not depend on
which: by induction over the subsets, done as the search for a least
counterexample (`LeastNumber`, `LeastSubset`), since the library's induction
theorems have an operator as a parameter. With these:

- `LedgerAlwaysBalances`. `HeadHolds`: the task at the head of the release
  channel holds its share and has no other release there, so draining gives back
  what was charged; `LaunchHolds`: a task that is launched held nothing.
- `SchedulerIsAPool`, the refinement of `ResourcePool`. A launch passes the check
  `Fits` of all shares because what is free and what is held is the pool.
- `CallbacksTellALife`, the refinement of `TaskLife`, from `AnsweredOnce`.
- `PreemptionAlwaysMinimal`, from `RanksOK`: launched tasks have distinct ranks, so
  priority and launch time order the candidates totally and the least prefix
  that is enough is the set a plan kills.

- `ReleasesNeverBlock`. Whoever has a release to send, and whoever's release is in
  the channel, holds a share; if all ask for `c` units of CPU at least, the ledger
  bounds how many do. The assumption is what the program has: its only caller
  asks for 180 (`nyx_master.go:992`), the pool is 600, the channel takes 500.
  With `WedgeIsABacklog` it gives `ChannelsAlwaysSuffice`.

The wedge is real: `ScheduleTask` holds the map lock while it sends on the
channel, and the launcher needs that lock before it receives again. With the
channel of 30 it takes 32 tasks that wait. What keeps the program from it is the
master, the only caller: the tasks it has asked for and not heard of are pending
slaves, at most half the bots (`BacklogStaysBounded` in `NyxProofs`), so it takes
more than 62 bots.

**BotProofs.** `NoBotShared` and `EveryShareMonitored` follow from the
distribution being dealt from one list without repetition and every bot being
given a monitor in the same handler; that monitor may have ended.
`LatestAskedIsDone` needs
`SignalsOrdered`: the newest signal under way says what was asked last, or if
none is newer than the monitor's stamp, the monitor does.

**NyxProofs.** `IInv` adds to `OneList`, `NoGhosts`, `LoadCounted` and
`EntriesAlive` the part `NotBefore`: no list or loop knows a task before it was
scheduled, and neither an entry nor a mail loop names a slave that still pends.
Without it a slave that becomes ready might already have entries, and its load
of 0 would not count them, or have a loop with a submission in hand.
`FleetBounded` is inductive with `OneList`. `TypeCorrect`,
`InductiveInvariant`, `ListsDisjoint` and `DeadForgotten` (`ListsAlwaysKept`), `LoadsAreCounts`,
`NoDeadEntry`, `FleetStaysBounded`. `BacklogStaysBounded` adds that a task whose
launch was not answered pends.

**ManagerProofs.** `IInv` relates what a watcher has read to the rows as they are
when it acts on it. `Registered` and `EndsTold`: who works on a submission is in
the manager's map, and is taken off it only when the submission is recorded, so
there is one. Hence nobody else records it: a watcher that read "no row" still
has none when it posts its request, one that inserted without conflict commits
without, one that read a pending state overwrites a pending state (`StillTrue`);
others that are in a transaction have other ids (`Isolated`). Steps that change no
row's phase and no watcher (`Quiet`), steps of one watcher (`Walk`) and steps that
end its watch (`TellKeeps`) are treated once each. From it `TablesAlwaysAgree`,
`OneWatcherEach`, `NothingRequestedAgain`, and the refinement
`SubmissionImplemented`: every step is one of `Submission` or a stutter. That a
restart in the middle of all this does no harm is part of each. What follows for
those who read the rows is derived from `SubmissionSpec` alone: `NoIdTwice`, no
id is recorded for two submissions, and `VerdictsStay`, what is recorded keeps
its id and a final verdict is never taken back.

**MonitorProofs.** `IInv` says of every copy of a verdict that it may be late but
is never ahead of the platform: in a row (`RowsAgree`), in a result or an alert
under way (`MailsAgree`), in a monitor's map (`MonitorsAgree`). A verdict that is
final does not change, so an old copy that is final is right. A monitor knows
only submissions of its own bot, and a row that is recorded names one submission
for good: so nobody else writes the rows a monitor has read before it updates
them, and it overwrites a state that is still open. The run has one bot and thus
one monitor; the theorems have any number. That monitors start and end at any
time changes none of it (`LifeStep`). `TypeCorrect`, `VerdictsAreTheirOwn`,
and `RowsFollowSubmission`, the refinement of `Submission`.

**ContestProofs.** `IInv` adds to the properties `Checked` and `InTransaction`: what
holds of a request between its check and its write. What it found is still true
(`StillTrue`): a contest's details never change, it is created once and
deleted once, so a request about it meets it as it found it or not at all; a
timer lock is never deleted; the number of a new round may have been taken since,
but all below it are. Transactions that have replaced rows of one parent have
replaced different rows, so each may commit whatever the other does. Steps that
end a request (`StepKeeps`) and steps that do not (`GoingOn`) are treated once
each. `TypeCorrect` says that rows refer to rows that are there;
`RoundsConsecutive`, `SubmissionsStay`, `NobodyRegistered`.

**AuthProofs.** `created_at` of a new token exceeds all before it, and a deletion
takes all tokens of an address and purpose. So a token that a later one has
superseded never becomes the newest again (`Together`): when the later one is
deleted it goes along. `Holds` carries what a request has validated to the
statements that come after: the token was made for its address and purpose and
was mailed, whatever has become of its row since; a request that is done left it
deleted or superseded. `AuthTypes`, `TokensDie`, `OnlyByMail`.

**ServiceProofs.** A letter is in one of `posting`, mailbox, hand, `carrying`,
`received`, `closed`, and a mail not beside what was sent back for it (`OnePlace`,
part of `TypeOK`). That needs that every mail is posted at one place of the code
that is passed once (`NotYet`). `Started` orders the registrations before what is
posted to the clients, launch and death of the first slave excepted:
`TypeCorrect`, `OnlyTheFirstSlaveMisses`. `BotsAreKnown` needs `WillBeRead`: a request about to
commit has asked for a refresh that is still under way, or was overtaken.
`PromiseKept` is the refinement: each action of the postman is one of
`MailService`, each of the service registers, posts or stutters. `SafeEntered`
and `SafeTaken` say what appending to the mailbox and taking its head do to the
set of safe mails, which depends on what is ahead of each. `SafeMailsArrive`
derives from the promise what a client relies on: a safe mail waits or is handed
over, and nothing that happened to a mail is undone.

**Only model-checked.** Liveness (`EventuallyAnswered`, `KillIsEffective`,
`UnwantedMonitorEnds`, `PendingRecorded`, `JudgedInOneRun`, `MailsMove`): a
proof from fairness needs `ENABLED` of each fair action, which this version of
TLAPS does not support. And the two violations, which are counterexamples.

## Where code and comments disagree

With a run that shows it (see `findings` in `PROJECT.json`):

- The warning about a result of a slave that has left the inventory dereferences
  the nil slave (`nyx_master.go:468`, `nyx_crash`).
- A monitor asks the platform when its map is empty, to find what an earlier run
  left. If a slave's alert about a judged submission comes first, the map is not
  empty, nothing in it is open, and the monitor does not ask
  (`cf_bot_monitor.go:136`, `verdict_lost`).

Read off the code while modelling; the models behave so, no run is spent on it:

- A watcher takes any violated key for "already completed": a second submission
  answered with an id that is recorded for the first ends its watch, is not
  recorded, and is not tried again before a restart (`nyx_watcher.go:285`).
- For a problem with a lock `GetProblemByID` returns an empty problem and no error
  (`get_problem.go:58`), so an update unlocks a problem with a timer lock
  (`update_problem.go:94`), and `Submit` finds no evaluator for a problem with a
  lock.
- A long-running command that cannot be started stays queued for ever with its
  resources (`execute.go:95`).
- A request with one negative component is accepted (`schedule.go:50`: `greater`
  asks for both components).
- A plan may kill its victims and still not launch its task: `killTask` does not
  wait for SIGKILL to take effect, and the second cleaning gives up after 200 ms
  (`plan.go:79-87`).
- Four bots for three slaves are dealt 2, 2 and 0 (`bot_manager.go:222`).
- The bot a slave used last is kept in the distribution that is about to be
  replaced, so nobody has it until the next refresh (`bot_manager.go:259`).
- A stopped slave rejects submissions without their id (`nyx_slave.go:162`), so
  that the master cannot tell their watchers.
- The mail of an ended monitor is looked up by mail id in a map by bot name, so
  the manager keeps the dead monitor and, should the bot come back, mails it
  instead of starting one (`bot_manager.go:127`): its rows are never judged.
- A monitor that is told to stop goes after five minutes without a stop, an alert
  or an update, also when the platform has not judged its submissions yet
  (`cf_bot_monitor.go:114`).
- More than 31 tasks that wait to be launched stop the scheduler for good, see
  above (`schedule.go:42`).
- A slave whose launch was refused, or whose script did not get ready while its
  process lives, pends for ever and counts as a slave.
- With no bots and two slaves or more, all slaves are killed, although one is to
  be left.
- A malformed solution leaves its row queued and its watcher in the map without
  a mailbox; the next poll's mail ends the program (`nyx_manager.go:268`).
- A verdict that is still empty is to become `TESTING`, but the assignment is to a
  copy (`cf_bot_monitor.go:396-400`).
- A row whose submission is no longer among the bot's last 50 when it is judged
  keeps its state (`cf_bot_monitor.go:148`).
- Two slaves may hold the same bot until each has had its refresh, so the latest
  submission a slave finds may be another slave's (`nyx_slave.go:396`).
- A watcher that panics reports it to the master, not to the manager, who is the
  one that handles it (`nyx_watcher.go:80`).
- The mail that unregisters an ended watcher may come after its successor was
  registered under the same id (`nyx_manager.go:132`); the manager registers the
  successor again when its mail bounces.
- A solution may be submitted twice if the program ends, or a slave gives up,
  between the submission and its record: nothing is written before.
- After its context has ended the poll loops without a pause
  (`nyx_manager.go:235`).
- A slave that panicked with a Go runtime error is killed instead of restarted
  (`nyx_master.go:109`).
- A submission to a public contest that is under way is always refused: `Submit`
  asks whether the problem may be submitted in practice of every submission
  (`submit.go:40`).
- Two requests that set the problems or users of a contest, or the contests of a
  round, may leave the rows of both, and a new round may be created while its
  predecessor gets contests.
- A public contest may be edited after its start: `authorizeContestUpdate` returns
  before it looks at the clock (`contest_utils.go:404-417`).
- `UpdateContest` changes nothing (`update_contest.go:43`), and `GetContestByID`
  returns an empty contest and no error when its query fails
  (`get_contest.go:31`).
- `validateProblemUpdate` compares pointers to lock ids, not the ids
  (`update_problem.go:119`).
- `deliverMails` posts to the mailbox it empties: full, with a mail to an unknown
  client at its head, nothing is delivered any more (`postman.go:50`).
- The master is registered after it has asked for its first slave; if the scheduler
  calls back before, the mails of its launch and of its death are returned to
  nobody, and the slave pends for ever or is not known to be dead
  (`submission_service.go:83`).
- `AddBot` and `UpdateBot` ask for the refresh before they commit: the master may
  read the old rows, and nobody tells it again (`submission_service.go:170`, `:283`).
- `DeleteBot` logs "reverting transaction" when the refresh fails, but there is
  none: the bot is deleted and the master keeps it (`submission_service.go:333`).
- Two requests that hold the same token both pass `validateVerificationToken`; two
  resets both succeed, of two sign-ups the constraint on the address stops one.
- A request verifies the token and then deletes all of the address and purpose: one
  that was created in between is deleted unused (`verfiy.go:166-174`).
- An expired token is invalidated as one for signing up (`verfiy.go:143`), so an
  expired token to reset a password never is.
- `ResetPassword` does not look at the error of the invalidation: it answers OK and
  the token stays usable until it expires (`reset_password.go:105`).
- A token whose mail could not be queued supersedes the one its user has.
- `MailManagers` drops the error of `NewMail` and logs "sent mail"
  (`email.go:107-116`), so that its caller's next attempt never comes.
- The worker says "will attempt to redial" after a failure, but the mail is not sent
  again (`worker.go:77`).
- The channel of mails is made after the services have started (`main.go:200`): who
  asks for a mail before waits until its context ends.

## Not modelled

- The load monitor's averages: floating-point formulas of the clock, without a
  branch that depends on others. Its only output is the report every 30 seconds;
  `NyxMaster` handles one with any recommended number, at any time, so what is
  checked and proved of the fleet does not depend on the averages.
- The submission status manager and users: pages and rows that are read, no state
  that changes.
- The texts and limits of problems, each written by one statement.
- The nyx script, a Python process, but for what its slave and master see of it
  (ready, dead, killed, an outcome).
- Generated queries, the translation of database errors, HTTP handlers,
  middleware and the validation of requests: no state and no order of steps to
  get wrong. The wiring in `cmd`: its constants are the parameters of the models.
