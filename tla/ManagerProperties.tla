-------------------------- MODULE ManagerProperties --------------------------
(* Correctness properties of the submission manager and its watchers.      *)
EXTENDS NyxManager

Stages == {"none", "unstarted", "idle", "read", "inserted", "checked", "fail",
           "failing", "over"}

(* Every variable has its type, states are ones the code knows, and every  *)
(* watcher that was made has a submission.                                 *)
TypeOK ==
  /\ state \in [Subs -> States]
  /\ cfSubID \in [Subs -> {0} \cup CfIds]
  /\ mails \subseteq Mail
  /\ mailClients \in [Subs -> Watchers \cup {None}]
  /\ watchers \in [Subs -> Watchers \cup {None}]
  /\ sub \in [Watchers -> Subs \cup {None}]
  /\ pc \in [Watchers -> Stages]
  /\ val \in [Watchers -> Statuses]
  /\ ends \in [Watchers -> {"no", "told", "untold"}]
  /\ \A w \in Watchers : pc[w] # "none" => sub[w] \in Subs
  /\ restarts \in 0..MaxRestarts
  /\ down \in BOOLEAN

(* nyx_watcher.go:249-309: the two tables are written in one transaction:  *)
(* a submission has a row in cf_submissions exactly when its state is one  *)
(* of the platform, although the state is set by others meanwhile, and by  *)
(* the watcher itself after every failure.                                 *)
TablesAgree == \A s \in Subs : Recorded(s) <=> state[s] \in Verdicts

(* nyx_manager.go:168-178: a submission has one watcher that may still act *)
(* on it, however late polls, ends of watches and unregistrations come.    *)
Working(w) == pc[w] \notin {"none", "over"} /\ ends[w] # "told"

OneWatcher ==
  \A u, w \in Watchers : Working(u) /\ Working(w) /\ sub[u] = sub[w] => u = w

(* nyx_watcher.go:157-171: what was recorded before, in an earlier run of  *)
(* the program or by an earlier watcher, is not submitted again.           *)
RequestsOnlyUnrecorded ==
  [][\A s \in Subs : Request(s) \in mails' \ mails => ~ Recorded(s)]_vars

(* The inductive form of the three: the map of the manager holds who works *)
(* on a submission, a watcher is told off the map only when the submission *)
(* is recorded, and what a watcher has read or inserted still holds.       *)
Registered ==
  /\ \A s \in Subs : watchers[s] # None =>
       pc[watchers[s]] # "none" /\ sub[watchers[s]] = s
  /\ \A w \in Watchers : Working(w) => watchers[sub[w]] = w

Ending(w) ==
  /\ ends[w] = "told" => pc[w] \in {"fail", "over"} /\ Recorded(sub[w])
  /\ pc[w] \notin {"fail", "failing", "over"} => ends[w] = "no"

EndsTold ==
  /\ \A s \in Subs : WatchEnd(s) \in mails =>
       watchers[s] # None /\ ends[watchers[s]] = "told"
  /\ \A w \in Watchers : Ending(w)

Created ==
  /\ \A m \in mails : state[m.sub] # "none"
  /\ \A w \in Watchers : sub[w] # None => state[sub[w]] # "none"

StillTrue(w) ==
  /\ pc[w] = "read" => (Recorded(sub[w]) <=> val[w].id # 0)
  /\ InTransaction(w) => val[w].id # 0 /\ ~ Conflict(sub[w], val[w].id)
  /\ pc[w] = "failing" => Pending(sub[w])

Isolated ==
  \A u, w \in Watchers :
    InTransaction(u) /\ InTransaction(w) /\ val[u].id = val[w].id => u = w

IInv ==
  /\ TablesAgree /\ Registered /\ EndsTold /\ Created
  /\ \A w \in Watchers : StillTrue(w)
  /\ Isolated

(* submit.go:117: "the submission will be evaluated later": what is not    *)
(* recorded is polled, requested and answered until it is, even if every   *)
(* statement and every request may fail and the program is restarted.      *)
(* Excepted is what its watcher takes for recorded because of a unique     *)
(* key that another submission has (nyx_watcher.go:285).                   *)
Abandoned(s) == \E w \in Watchers : sub[w] = s /\ ends[w] = "untold"

PendingRecorded ==
  \A s \in Subs \ Malformed : Pending(s) ~> Recorded(s) \/ Abandoned(s) \/ down
=============================================================================
