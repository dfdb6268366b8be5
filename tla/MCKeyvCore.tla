----------------------------- MODULE MCKeyvCore -----------------------------
(* Instances of KeyvCoreHistory for TLC. *)
EXTENDS KeyvCoreHistory, TLC

CONSTANTS c1, c2, k1, k2

ClientSymmetry == Permutations(Clients)

\* Every operation; and the ones a run about expiry needs.
EveryKind    == AllKinds
ExpiryKinds  == {"get", "getMany", "set", "setRaw", "delete"}

\* Expires within the run, does not expire, zero ("no expiry").
SomeTtls == {0, 1, Never}
ShortTtl == {1}
=============================================================================
