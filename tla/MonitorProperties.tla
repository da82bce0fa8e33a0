-------------------------- MODULE MonitorProperties --------------------------
(* Correctness properties of the slaves' results and the bots' monitors.   *)
EXTENDS CfMonitor

Known == Verdicts \cup {"unknown"}

(* Every variable has its type: rows never get a state the monitor has     *)
(* made up, and a monitor writes only rows that have an id.                *)
TypeOK ==
  /\ state \in [Subs -> States]
  /\ cfSubID \in [Subs -> Ids]
  /\ cf \in Seq([sub : Subs, bot : Bots, verdict : Verdicts]) /\ Len(cf) <= MaxCfSubs
  /\ scripts \subseteq [sub : Subs, bot : Bots]
  /\ job \in [Slaves -> [sub : Subs, bot : Bots, prev : Ids] \cup {None}]
  /\ results \subseteq [sub : Subs, id : CfIds, verdict : Verdicts]
  /\ alerts \subseteq [bot : Bots, id : Ids, verdict : Verdicts]
  /\ subStatMap \in [Bots -> [Ids -> Known]]
  /\ pc \in [Bots -> {"none", "idle", "queried", "read", "ended"}]
  /\ endLife \in [Bots -> BOOLEAN]
  /\ updates \in [Bots -> SUBSET {s \in Subs : Recorded(s)}]
  /\ restarts \in 0..MaxRestarts

(* cf_bot_monitor.go:217-243: the final state of a row is the platform's   *)
(* verdict on the submission with the row's id, never that of another one, *)
(* whatever results and alerts come late or out of order.                  *)
VerdictOfItsOwn ==
  \A s \in Subs : Sink(state[s]) => cfSubID[s] # 0 /\ VerdictOf(cfSubID[s]) = "OK"

(* A row nobody asks for any more: its bot's monitor has ended or was not  *)
(* started, or the bot has made Window submissions since.                  *)
Forsaken(s) ==
  LET b == cf[cfSubID[s]].bot
  IN  Recorded(s) /\ (pc[b] \in {"none", "ended"} \/ cfSubID[s] \notin Recent(b))

(* cf_bot_monitor.go:424-427: what is recorded is followed to its verdict  *)
(* although the monitor asks only while it knows of something to ask for,  *)
(* as long as it runs and the platform still lists the submission among    *)
(* the latest: the alerts of the slaves keep it asking.                    *)
JudgedInOneRun ==
  \A s \in Subs : Recorded(s) ~> Sink(state[s]) \/ Forsaken(s) \/ restarts > 0

(* cf_bot_monitor.go:136: a monitor that has just started asks, because it *)
(* knows nothing, and so finds what was left when the program ended.       *)
Judged == \A s \in Subs : Recorded(s) ~> Sink(state[s]) \/ Forsaken(s)
=============================================================================
