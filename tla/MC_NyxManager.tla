---------------------------- MODULE MC_NyxManager ----------------------------
(* Instances of the submission manager for TLC.                            *)
EXTENDS ManagerProperties, TLC

Symmetry == Permutations(Watchers) \cup Permutations(Subs)
=============================================================================
