--------------------------- MODULE MCRemoteStores ---------------------------
(* Small instances of RemoteStores for TLC. *)
EXTENDS RemoteStores

CONSTANTS c1, c2

\* One caller reads and clears, the other writes and deletes.
MixedKinds ==
  [c \in Callers |-> IF c = c1 THEN {"get", "clear", "clearExpired", "clearUnusedFor", "iterate"}
                     ELSE {"set", "delete"}]

\* A call with one key, and one with all; reads and deletes of one only where
\* they are another operation, and writes of all only where they are.
SomeBatches == [s \in AllStores |-> CASE s = "kvRest" -> {{1}}
                                       [] s = "gridfs" -> {Keys}
                                       [] OTHER -> {{1}, Keys}]
SomeAsks == [s \in AllStores |-> IF s = "mongo" THEN {{1}, Keys} ELSE {Keys}]

\* Deadlines within the run; longer ones where they are sent in another form.
SomeLives == [s \in AllStores |->
                IF s \in {"memcache", "kvBind"} THEN {1, 3} ELSE {1}]

\* A second write where it finds something of the first: a cached answer, an
\* index, an expired row.
SomeWrites == [s \in AllStores |->
                 IF s \in {"redisCluster", "redisAll", "memcache", "kvBind", "bridgeBare"}
                 THEN 1 ELSE 2]
=============================================================================
