--------------------------- MODULE MCEtcdAdapter ---------------------------
(* Small etcd servers and callers for TLC.                                   *)
EXTENDS EtcdAdapter, TLC

MCLeases == 1..2
MCKeys == 1..2
MCPairs == {{1}, {1, 2}}
Symmetry == Permutations(Callers)
============================================================================
