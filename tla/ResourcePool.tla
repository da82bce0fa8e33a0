---------------------------- MODULE ResourcePool -----------------------------
(***************************************************************************)
(* What the scheduler promises about resources: a pool that tasks hold     *)
(* parts of.  A task takes its part at most once, only while all parts     *)
(* together stay strictly below the whole pool, and gives it back at most  *)
(* once.                                                                   *)
(***************************************************************************)
EXTENDS Integers, FiniteSets, Functions

CONSTANTS Tasks, Requests, TotalCPU, TotalMemory, None

VARIABLES demand,  \* what each task asked for, or None
          share    \* "none" before, "held" during, "returned" after

vars == <<demand, share>>

Held == {t \in Tasks : share[t] = "held"}
Fits(S) ==
  /\ SumFunctionOnSet([t \in S |-> demand[t].cpu], S) < TotalCPU
  /\ SumFunctionOnSet([t \in S |-> demand[t].memory], S) < TotalMemory

Init ==
  /\ demand = [t \in Tasks |-> None]
  /\ share = [t \in Tasks |-> "none"]

Ask(t, r) ==
  /\ demand[t] = None
  /\ demand' = [demand EXCEPT ![t] = r]
  /\ UNCHANGED share

Take(t) ==
  /\ demand[t] # None
  /\ share[t] = "none"
  /\ Fits(Held \cup {t})
  /\ share' = [share EXCEPT ![t] = "held"]
  /\ UNCHANGED demand

GiveBack(t) ==
  /\ share[t] = "held"
  /\ share' = [share EXCEPT ![t] = "returned"]
  /\ UNCHANGED demand

Next ==
  \E t \in Tasks :
    \/ \E r \in Requests : Ask(t, r)
    \/ Take(t)
    \/ GiveBack(t)

Spec == Init /\ [][Next]_vars
=============================================================================
