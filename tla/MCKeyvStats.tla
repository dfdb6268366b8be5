---------------------------- MODULE MCKeyvStats ----------------------------
(* Two Keyvs and a few statistics objects for TLC.                           *)
EXTENDS KeyvStatsHistory, TLC

Symmetry == Permutations(Stats) \cup Permutations(Keyvs) \cup Permutations(Names)
============================================================================
