---------------------------- MODULE NyxProperties ----------------------------
(* Correctness properties of the nyx master and its slaves.                *)
EXTENDS NyxMaster

(* Every variable has its type, mails in transit are ones that are sent,   *)
(* and only a busy slave has a submission in hand.                         *)
TypeOK ==
  /\ life \in [Tasks -> Lives]
  /\ slaves \in SUBSET Tasks
  /\ numActSubs \in [Tasks -> Int]
  /\ pendingSlaves \in SUBSET Tasks
  /\ killedSlaves \in SUBSET Tasks
  /\ activeSubmissions \in [Subs -> Tasks \cup {None}]
  /\ bots \in 0..MaxBots
  /\ wait \in [Tasks -> {"no", "on", "over"}]
  /\ gor \in [Tasks -> {"none", "idle", "busy", "failed", "stopping", "stopped"}]
  /\ job \in [Tasks -> Subs \cup {None}]
  /\ \A t \in Tasks : job[t] # None <=> gor[t] = "busy"
  /\ IsABag(mails) /\ BagToSet(mails) \subseteq Mail
  /\ IsABag(jobs) /\ BagToSet(jobs) \subseteq {Job(t, s) : t \in Tasks, s \in Subs}
  /\ stops \in SUBSET Tasks
  /\ unreported \in SUBSET Subs
  /\ crashed \in BOOLEAN

Known == slaves \cup pendingSlaves \cup killedSlaves

(* nyx_master.go:649, 682, 932: a slave is in one of the three lists at    *)
(* most, whatever the order of its launch, readiness, death and killing.   *)
OneList ==
  /\ slaves \cap pendingSlaves = {}
  /\ slaves \cap killedSlaves = {}
  /\ pendingSlaves \cap killedSlaves = {}

(* nyx_master.go:660-744: a slave whose process has ended is in no list    *)
(* any more once the mail of its death has been handled, and no late mail  *)
(* puts it back.                                                           *)
NoGhosts ==
  \A t \in Known : life[t] = "ended" => InTransit(Dead(t))

(* Both: a slave is in one list, and in none when it is gone.              *)
ListsKept == OneList /\ NoGhosts

(* nyx_master.go:394, 472: the number the routing goes by is the number of *)
(* active entries, although slaves leave with entries and results come     *)
(* late, twice or from a slave the submission no longer belongs to.        *)
LoadCounted ==
  \A t \in slaves :
    numActSubs[t] = Cardinality({s \in Subs : activeSubmissions[s] = t})

(* nyx_master.go:338-343: a request for a submission with an entry is      *)
(* ignored, so as long as the slave is there the submission is on its way  *)
(* to it, in its hand or its result is under way; else it would never be   *)
(* made.  Excepted is what a slave gave up in a panic or a stop.           *)
EntriesAlive ==
  \A s \in Subs \ unreported :
    LET t == activeSubmissions[s]
    IN  t \in slaves => \/ Job(t, s) \in BagToSet(jobs)
                        \/ job[t] = s
                        \/ InTransit(Result(s))

(* nyx_master.go:799-820: load reports never start more slaves than half   *)
(* the bots, counting those that are not ready yet, however many reports   *)
(* come before the first one is.                                           *)
FleetBounded ==
  Total <= IF MaxBots >= 1 THEN (MaxBots + 1) \div 2 ELSE 1

-----------------------------------------------------------------------------
(* The inductive form of OneList, NoGhosts, LoadCounted and EntriesAlive:  *)
(* no task is used before it was scheduled, and nothing is routed to a     *)
(* slave, nor does its mail loop run, before it is ready.                  *)
NotBefore ==
  /\ \A t \in Known : life[t] # "unknown"
  /\ \A t \in Tasks :
       gor[t] # "none" => life[t] # "unknown" /\ t \notin pendingSlaves
  /\ \A s \in Subs :
       LET t == activeSubmissions[s]
       IN  t # None => life[t] # "unknown" /\ t \notin pendingSlaves

IInv == NotBefore /\ OneList /\ NoGhosts /\ LoadCounted /\ EntriesAlive

(* The tasks the scheduler has not answered for: those that may be in its  *)
(* queue.  A slave pends until its task was launched and the script wrote  *)
(* its address, or until its death was handled.                            *)
Unanswered == {t \in Tasks : life[t] = "scheduled"}
UnansweredPend ==
  /\ Unanswered \subseteq pendingSlaves
  /\ \A t \in Tasks : /\ InTransit(Ready(t, TRUE)) => life[t] \in {"launched", "ended"}
                      /\ InTransit(Dead(t)) => life[t] = "ended"

-----------------------------------------------------------------------------
(* A statement of the repository that the code does not keep.              *)

(* nyx_master.go:465-469, a warning "submission %v is processed by slave   *)
(* with task id %v but not present in inventory" and a return: a result of *)
(* such a slave does no harm.                                              *)
SurvivesResults == ~ crashed
=============================================================================
