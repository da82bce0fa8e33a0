------------------------------- MODULE MC_Auth -------------------------------
(* An instance of the accounts for TLC.                                    *)
EXTENDS AuthProperties, TLC

Symmetry == Permutations(Requests) \cup Permutations(Emails)
=============================================================================
