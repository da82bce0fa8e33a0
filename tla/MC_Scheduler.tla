---------------------------- MODULE MC_Scheduler -----------------------------
(* Instances of the scheduler for TLC.                                     *)
EXTENDS SchedulerProperties, TLC

Symmetry == Permutations(Tasks)

Request(cpu, mem, prio, retries, long, starts) ==
  [cpu |-> cpu, memory |-> mem, priority |-> prio, retries |-> retries,
   long |-> long, starts |-> starts]

(* Of a pool of 6 and 6: a background service, two of which run side by   *)
(* side and which is retried once with a raised priority; an urgent        *)
(* service, for which one of two has to go; a short job, for which both    *)
(* have to; and a service whose command does not exist.  Each asks for two *)
(* units at least, so that no more than two hold a share at a time.        *)
Background == Request(2, 2, 0, 2, TRUE, TRUE)
Urgent     == Request(3, 3, 8, 1, TRUE, TRUE)
Job        == Request(5, 3, 5, 1, FALSE, TRUE)
Missing    == Request(2, 2, 0, 1, TRUE, FALSE)

CoreRequests == {Background, Urgent, Job}
MixedRequests == {Background, Urgent, Job, Missing}
=============================================================================
