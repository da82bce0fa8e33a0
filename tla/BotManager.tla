----------------------------- MODULE BotManager ------------------------------
(***************************************************************************)
(* The bot manager of internal/service/submission_service (bot_manager.go) *)
(* and the life of its monitors (cf_bot_monitor.go, processMails).         *)
(*                                                                         *)
(* The manager hands every slave a share of the bots and keeps one monitor *)
(* goroutine per bot.  Its mails come from the master, with whatever bots  *)
(* and slaves the master has at the time, and from the monitors.  The      *)
(* postman starts a goroutine per delivery, so mails in transit form a bag *)
(* and any of them may be the next to be handled.  getBot is called by the *)
(* slaves directly and takes the manager's lock, as every handler does:    *)
(* each is one step.                                                       *)
(***************************************************************************)
EXTENDS Integers, Sequences, FiniteSets, Bags

CONSTANTS Bots,      \* bot names
          Slaves,    \* task ids of slaves
          MaxMails,  \* bound on the mails in transit to the manager
          MaxTime,   \* bound on the handlers that send signals
          None

Share == [bots : Seq(Bots), last : Int]
(* stopDecision: endLife from "ending" on; in "expired" its five minutes    *)
(* since ltsStopDecision are over.                                         *)
Monitor == [phase : {"running", "ending", "expired", "dead"}, ltsSignal : Nat]
Signal == [kind : {"stop", "keepAlive"}, at : Nat]

ASSUME BotAssumption ==
  /\ IsFiniteSet(Bots) /\ Bots # {} /\ IsFiniteSet(Slaves)
  /\ MaxMails \in Nat /\ MaxTime \in Nat
  /\ \A b \in Bots : <<b>> \notin Bots
  /\ None \notin Share /\ None \notin Monitor

VARIABLES mails,         \* in transit to the manager
          distribution,  \* slave -> its bots and the index last used, or None
          monitors,      \* bot -> its monitor, or None if the map has none
          signals,       \* stop and keepAlive mails in transit to a monitor
          clock,         \* the latest time stamp in use
          wanted         \* history: what the manager last asked of a monitor

vars == <<mails, distribution, monitors, signals, clock, wanted>>

(* A monitor's mail id is made from its bot's name and is never one.       *)
MailID(b) == <<b>>

RefreshBots(B, S) == [kind |-> "refreshBots", bots |-> B, slaves |-> S]
CorruptedBot(b) == [kind |-> "corruptedBot", name |-> b]
Stopped(n) == [kind |-> "stopped", name |-> n]
Mail == {RefreshBots(B, S) : B \in SUBSET Bots, S \in SUBSET Slaves}
          \cup {CorruptedBot(b) : b \in Bots}
          \cup {Stopped(MailID(b)) : b \in Bots}

Arrived(m) == m \in BagToSet(mails)
Taken(m) == mails (-) SetToBag({m})

Init ==
  /\ mails = EmptyBag
  /\ distribution = [s \in Slaves |-> None]
  /\ monitors = [b \in Bots |-> None]
  /\ signals = [b \in Bots |-> {}]
  /\ clock = 0
  /\ wanted = [b \in Bots |-> "none"]

-----------------------------------------------------------------------------
(* The master asks for a new distribution, or passes on that a slave found *)
(* a bot of its share corrupted.                                           *)
Post(m) ==
  /\ BagCardinality(mails) < MaxMails
  /\ clock < MaxTime
  /\ mails' = mails (+) SetToBag({m})
  /\ UNCHANGED <<distribution, monitors, signals, clock, wanted>>

PostRefresh == \E B \in SUBSET Bots, S \in SUBSET Slaves : Post(RefreshBots(B, S))
PostCorrupted == \E b \in Bots : wanted[b] # "none" /\ Post(CorruptedBot(b))

-----------------------------------------------------------------------------
(* Every order in which a Go map may be iterated.                          *)
Orders(S) == {f \in [1..Cardinality(S) -> S] :
                \A i, j \in 1..Cardinality(S) : f[i] = f[j] => i = j}

CeilDiv(m, n) == (m + n - 1) \div n

(* The bots that slaves used last are taken out of the bots to distribute. *)
(* They are meant to stay with their slaves, but are written to the old    *)
(* distribution, which is thrown away.                                     *)
Retained(B, S) ==
  {b \in B : \E s \in S :
     /\ distribution[s] # None
     /\ LET old == distribution[s]
        IN  /\ old.last \in 0..(Len(old.bots) - 1)
            /\ b = old.bots[old.last + 1]}

(* Mutant of Fill: one bot too many, which is the next slave's first.       *)
FillOverlapping(rem, k, n) ==
  SubSeq(rem, (k - 1) * n + 1, IF k * n + 1 < Len(rem) THEN k * n + 1 ELSE Len(rem))

(* The k-th slave is filled up to n bots with the next of the remaining    *)
(* ones, while there are any.                                              *)
Fill(rem, k, n) ==
  SubSeq(rem, (k - 1) * n + 1, IF k * n < Len(rem) THEN k * n ELSE Len(rem))

Deal(order, rem, n) ==
  [s \in Slaves |->
     IF \E k \in DOMAIN order : order[k] = s
     THEN [bots |-> Fill(rem, CHOOSE k \in DOMAIN order : order[k] = s, n), last |-> -1]
     ELSE None]

Distribute(B, S) ==
  IF B = {}
  THEN distribution' = [s \in Slaves |->
                          IF s \in S THEN [bots |-> <<>>, last |-> 0] ELSE None]
  ELSE \E order \in Orders(S), rem \in Orders(B \ Retained(B, S)) :
         distribution' = Deal(order, rem, CeilDiv(Cardinality(B), Cardinality(S)))

Asked(B, b) == [kind |-> IF b \in B THEN "keepAlive" ELSE "stop", at |-> clock + 1]
Fresh == [phase |-> "running", ltsSignal |-> clock + 1]

(* Old monitors get a stop or a keep-alive signal, new bots get a monitor. *)
Enlist(B, S) ==
  /\ signals' = [b \in Bots |-> IF monitors[b] = None THEN signals[b]
                                ELSE signals[b] \cup {Asked(B, b)}]
  /\ monitors' = [b \in Bots |-> IF b \in B /\ monitors[b] = None
                                 THEN Fresh ELSE monitors[b]]
  /\ wanted' = [b \in Bots |-> IF b \in B THEN "live"
                               ELSE IF monitors[b] # None THEN "end" ELSE wanted[b]]

HandleRefresh(B, S) ==
  /\ Arrived(RefreshBots(B, S))
  /\ mails' = Taken(RefreshBots(B, S))
  /\ clock' = clock + 1
  /\ Enlist(B, S)
  /\ IF S = {}
       THEN distribution' = [s \in Slaves |-> None]
       ELSE Distribute(B, S)

-----------------------------------------------------------------------------
(* slices.DeleteFunc: a bot is in a list once.                             *)
Without(bots, n) ==
  IF \E i \in DOMAIN bots : bots[i] = n
  THEN LET i == CHOOSE k \in DOMAIN bots : bots[k] = n
       IN  SubSeq(bots, 1, i - 1) \o SubSeq(bots, i + 1, Len(bots))
  ELSE bots

(* deleteBotFromDist: the index last used stays as it is.                  *)
DeleteBotFromDist(n) ==
  distribution' = [s \in Slaves |->
     IF distribution[s] = None THEN None
     ELSE [bots |-> Without(distribution[s].bots, n), last |-> distribution[s].last]]

HandleCorrupted(b) ==
  /\ Arrived(CorruptedBot(b))
  /\ mails' = Taken(CorruptedBot(b))
  /\ DeleteBotFromDist(b)
  /\ clock' = clock + 1
  /\ IF monitors[b] = None
       THEN UNCHANGED <<signals, wanted>>
       ELSE /\ signals' = [signals EXCEPT ![b] = @ \cup {Asked({}, b)}]
            /\ wanted' = [wanted EXCEPT ![b] = "end"]
  /\ UNCHANGED monitors

(* The name in the mail is looked up as a bot's.                           *)
HandleStopped(n) ==
  /\ Arrived(Stopped(n))
  /\ mails' = Taken(Stopped(n))
  /\ DeleteBotFromDist(n)
  /\ monitors' = [b \in Bots |-> IF b = n THEN None ELSE monitors[b]]
  /\ UNCHANGED <<signals, clock, wanted>>

(* Mutant of GetBot: no wrap-around at the end of the share.               *)
GetBotNext(s) ==
  /\ distribution[s] # None
  /\ distribution[s].bots # <<>>
  /\ distribution[s].last < MaxTime
  /\ distribution' = [distribution EXCEPT ![s] = [bots |-> @.bots, last |-> @.last + 1]]
  /\ UNCHANGED <<mails, monitors, signals, clock, wanted>>

(* A slave asks for the next bot of its share; without a share, or with an *)
(* empty one, it gets an error and nothing changes.                        *)
GetBot(s) ==
  /\ distribution[s] # None
  /\ distribution[s].bots # <<>>
  /\ distribution' = [distribution EXCEPT
                        ![s] = [bots |-> @.bots, last |-> (@.last + 1) % Len(@.bots)]]
  /\ UNCHANGED <<mails, monitors, signals, clock, wanted>>

-----------------------------------------------------------------------------
Alive(b) == monitors[b] # None /\ monitors[b].phase # "dead"
Obeyed(m) == [phase |-> IF m.kind = "stop" THEN "ending" ELSE "running",
              ltsSignal |-> m.at]

(* Mutant of MonitorReceive: the time stamps are not compared.             *)
MonitorObeys(b, m) ==
  /\ Alive(b)
  /\ m \in signals[b]
  /\ signals' = [signals EXCEPT ![b] = @ \ {m}]
  /\ monitors' = [monitors EXCEPT ![b] = Obeyed(m)]
  /\ UNCHANGED <<mails, distribution, clock, wanted>>

(* A signal older than the latest one is ignored.                          *)
MonitorReceive(b, m) ==
  /\ Alive(b)
  /\ m \in signals[b]
  /\ signals' = [signals EXCEPT ![b] = @ \ {m}]
  /\ monitors' = [monitors EXCEPT ![b] = IF m.at > @.ltsSignal THEN Obeyed(m) ELSE @]
  /\ UNCHANGED <<mails, distribution, clock, wanted>>

InPhase(b, phase) ==
  monitors' = [monitors EXCEPT ![b] = [phase |-> phase, ltsSignal |-> @.ltsSignal]]

(* Five minutes have gone by since ltsStopDecision.                        *)
FiveMinutes(b) ==
  /\ monitors[b] # None
  /\ monitors[b].phase = "ending"
  /\ InPhase(b, "expired")
  /\ UNCHANGED <<mails, distribution, signals, clock, wanted>>

(* An alert of a slave, or the monitor's own mail after an update that was *)
(* made or failed, lets the five minutes begin again.  One that comes      *)
(* before they are over stands here for one right after.                   *)
PutOff(b) ==
  /\ monitors[b] # None
  /\ monitors[b].phase = "expired"
  /\ InPhase(b, "ending")
  /\ UNCHANGED <<mails, distribution, signals, clock, wanted>>

(* The next tick after the five minutes the monitor goes, and tells the    *)
(* manager its mail id.                                                    *)
MonitorStop(b) ==
  /\ monitors[b] # None
  /\ monitors[b].phase = "expired"
  /\ InPhase(b, "dead")
  /\ mails' = mails (+) SetToBag({Stopped(MailID(b))})
  /\ UNCHANGED <<distribution, signals, clock, wanted>>

-----------------------------------------------------------------------------
Handle ==
  \/ \E B \in SUBSET Bots, S \in SUBSET Slaves : HandleRefresh(B, S)
  \/ \E b \in Bots : HandleCorrupted(b) \/ HandleStopped(MailID(b))

MonitorStep(b) == \E m \in signals[b] : MonitorReceive(b, m)

Next ==
  \/ PostRefresh \/ PostCorrupted
  \/ Handle
  \/ \E s \in Slaves : GetBot(s)
  \/ \E b \in Bots : MonitorStep(b) \/ FiveMinutes(b) \/ PutOff(b) \/ MonitorStop(b)

Spec == Init /\ [][Next]_vars

(* The manager's and the monitors' goroutines run and time passes.  That   *)
(* nothing puts a monitor's end off for five minutes is not assumed.       *)
Fairness ==
  /\ WF_vars(Handle)
  /\ \A b \in Bots :
       WF_vars(MonitorStep(b)) /\ WF_vars(FiveMinutes(b)) /\ WF_vars(MonitorStop(b))
FairSpec == Spec /\ Fairness
=============================================================================
