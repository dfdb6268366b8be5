----------------------------- MODULE MCSqlStore -----------------------------
(* Instances of SqlStoreHistory for TLC. *)
EXTENDS SqlStoreHistory

CONSTANTS c1, c2

\* One caller reads, clears and iterates while the other writes; both delete.
MixedKinds == [c \in Clients |->
                 IF c = c1 THEN {"getMany", "deleteMany", "clearExpired", "iterator"}
                 ELSE {"setMany", "delete"}]
=============================================================================
