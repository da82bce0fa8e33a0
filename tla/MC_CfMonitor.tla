----------------------------- MODULE MC_CfMonitor -----------------------------
(* Instances of the bots' monitors for TLC.                                *)
EXTENDS MonitorProperties, TLC
=============================================================================
