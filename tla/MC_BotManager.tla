--------------------------- MODULE MC_BotManager -----------------------------
(* Instances of the bot manager for TLC.                                   *)
EXTENDS BotProperties, TLC

Symmetry == Permutations(Bots) \cup Permutations(Slaves)
=============================================================================
