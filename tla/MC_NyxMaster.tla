---------------------------- MODULE MC_NyxMaster -----------------------------
(* Instances of the nyx master for TLC.                                    *)
EXTENDS NyxProperties, TLC

Symmetry == Permutations(Tasks) \cup Permutations(Subs)
=============================================================================
