---------------------------- MODULE BotProperties ----------------------------
(* Correctness properties of the bot manager and its monitors.             *)
EXTENDS BotManager

(* Every variable has its type, mails in transit are ones that are sent,   *)
(* and the index last used is one a list of bots can have.                 *)
TypeOK ==
  /\ BagToSet(mails) \subseteq Mail
  /\ distribution \in [Slaves -> Share \cup {None}]
  /\ monitors \in [Bots -> Monitor \cup {None}]
  /\ signals \in [Bots -> SUBSET Signal]
  /\ clock \in Nat
  /\ wanted \in [Bots -> {"none", "live", "end"}]
  /\ \A s \in Slaves : distribution[s] # None =>
       distribution[s].last \in -1..(Cardinality(Bots) - 1)

(* bot_manager.go:275-285: a bot belongs to at most one slave, once.  Two  *)
(* slaves with one bot would take each other's submissions for their own.  *)
SharesDisjoint ==
  \A s, t \in Slaves :
    distribution[s] # None /\ distribution[t] # None =>
      \A i \in DOMAIN distribution[s].bots, j \in DOMAIN distribution[t].bots :
        distribution[s].bots[i] = distribution[t].bots[j] => s = t /\ i = j

(* bot_manager.go:346: a slave that got a bot finds its monitor in the map,*)
(* though it may be one that has ended.                                    *)
SharesMonitored ==
  \A s \in Slaves : distribution[s] # None =>
    \A i \in DOMAIN distribution[s].bots : monitors[distribution[s].bots[i]] # None

(* cf_bot_monitor.go:79-91: however the signals were reordered, a monitor  *)
(* that has received them all does what the manager asked for last.        *)
EndLife(b) == monitors[b].phase \in {"ending", "expired"}
LatestSignalWins ==
  \A b \in Bots : Alive(b) /\ signals[b] = {} =>
    (EndLife(b) <=> wanted[b] = "end")

(* cf_bot_monitor.go:109-128: the monitor of a bot that is gone ends,      *)
(* unless the bot comes back before, or alerts and updates put its end off *)
(* again and again.  Further stops put it off as well; MaxTime bounds them.*)
UnwantedMonitorEnds ==
  \A b \in Bots :
    \/ []<><<PutOff(b)>>_vars
    \/ wanted[b] = "end" ~> (~ Alive(b) \/ wanted[b] = "live")

-----------------------------------------------------------------------------
(* The inductive form of LatestSignalWins: what was asked for last is what *)
(* the latest signal in transit says, or else what the monitor does.       *)
Newer(b) == {m \in signals[b] : m.at > monitors[b].ltsSignal}
Ordered(b) ==
  /\ \A m, k \in signals[b] : m.at = k.at => m = k
  /\ \A m \in signals[b] : m.at <= clock
  /\ Alive(b) =>
       /\ monitors[b].ltsSignal <= clock
       /\ wanted[b] \in {"live", "end"}
       /\ Newer(b) = {} => (EndLife(b) <=> wanted[b] = "end")
       /\ \A m \in Newer(b) : (\A k \in Newer(b) : k.at <= m.at)
                                => (m.kind = "stop" <=> wanted[b] = "end")
SignalsOrdered == \A b \in Bots : Ordered(b)

=============================================================================
