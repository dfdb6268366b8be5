---------------------------- MODULE RemoteStores ----------------------------
(***************************************************************************)
(* The adapters for remote stores, each on its server: a behaviour is that *)
(* of one of them.  steady[c] is a history variable: the rows that were on *)
(* the server when c's read or clear() began, untouched since.             *)
(***************************************************************************)
EXTENDS RedisStore, ValkeyStore, MemcacheStore, DynamoStore, CloudflareStore, MongoStore,
        GridFsStore, BridgeStore

CONSTANTS Kinds,     \* the operations each caller uses
          MaxWrites  \* bound, for each server: writes begun

VARIABLES steady, writes

vars == <<remote, redisVars, valkeyVars, mongoVars, gridVars, steady, writes>>

Init == /\ store \in Stores
        /\ clock = StartTime
        /\ kv = [k \in Rows |-> IF k \in Foreign THEN [e |-> Never, dies |-> Never]
                                ELSE Absent]
        /\ calls = [c \in Callers |-> Idle]
        /\ InitRedis
        /\ InitValkey
        /\ InitMongo
        /\ InitGridFs
        /\ steady = [c \in Callers |-> {}]
        /\ writes = 0

Adapter(c) ==
  \/ /\ store \in RedisStores /\ RedisNext(c)
     /\ UNCHANGED <<valkeyVars, mongoVars, gridVars>>
  \/ /\ store \in {"valkey", "valkeySets"} /\ ValkeyNext(c)
     /\ UNCHANGED <<redisVars, mongoVars, gridVars>>
  \/ /\ store = "mongo" /\ MongoNext(c)
     /\ UNCHANGED <<redisVars, valkeyVars, gridVars>>
  \/ /\ store = "gridfs" /\ GridNext(c)
     /\ UNCHANGED <<redisVars, valkeyVars, mongoVars>>
  \/ /\ \/ store = "memcache" /\ MemcacheNext(c)
        \/ store = "dynamo" /\ DynamoNext(c)
        \/ store \in {"kvBind", "kvRest"} /\ CloudflareNext(c)
        \/ store \in Bridges /\ BridgeNext(c)
     /\ UNCHANGED <<redisVars, valkeyVars, mongoVars, gridVars>>

Rewritten(k) == \E c \in Callers : k \in calls'[c].took \ calls[c].took

Watched == {"get", "clear", "clearExpired", "iterate"}

\* The call of c begins with this step: a settled one is replaced.
Begins(c) == Free(c) /\ unindex[c] = {} /\ calls'[c] # calls[c]

Step(c) ==
  /\ Adapter(c)
  /\ Begins(c) => calls'[c].op \in Kinds[c]
  /\ writes' = writes + (IF Begins(c) /\ calls'[c].op = "set" THEN 1 ELSE 0)
  /\ writes' <= MaxWrites[store]

Server == /\ \/ Tick
             \/ \E k \in Rows : Reap(k)
          /\ UNCHANGED <<redisVars, valkeyVars, mongoVars, gridVars, writes>>

Next == /\ \/ Server
           \/ \E c \in Callers : Step(c)
        /\ steady' = [c \in Callers |->
             IF Begins(c) THEN {k \in Present : calls'[c].op \in Watched}
             ELSE {k \in steady[c] : kv'[k] = kv[k] /\ ~Rewritten(k)}]

Spec == Init /\ [][Next]_vars

-----------------------------------------------------------------------------
Live(k) == kv[k] # Absent /\ (kv[k].e # Never => kv[k].e > clock)

Finished(c, op) == calls[c].op = op /\ Free(c) /\ unindex[c] = {} /\ ~calls[c].failed

(* A write or a delete that answers true for a row wrote or removed it      *)
(* (Cloudflare KV's delete() answers by an earlier look).                   *)
AnswersTrue ==
  \A c \in Callers, k \in Rows :
    calls[c].op \in {"set", "delete"} /\ Free(c) /\ k \in calls[c].ok =>
      \/ k \in calls[c].took
      \/ calls[c].op = "delete" /\ store \in {"kvBind", "kvRest"}

(* The server never drops a row before the deadline the row was written     *)
(* with, however long the write was under way; Cloudflare KV, whose ttl is  *)
(* rounded down, by less than a second.                                     *)
DeadlinesKept ==
  \A k \in Rows :
    kv[k] # Absent /\ kv[k].dies # Never =>
      /\ kv[k].e # Never
      /\ kv[k].dies + (IF store \in {"kvBind", "kvRest"} THEN Second - 1 ELSE 0) >= kv[k].e

(* A clear() without an error leaves no row of its namespace that was there *)
(* before it and was not written since.  KeyvDynamo reads one page only;    *)
(* with useSets a row counts when the namespace's set knows it.             *)
ClearComplete ==
  \A c \in Callers :
    Finished(c, "clear") /\ store # "dynamo" =>
      \A k \in steady[c] \cap Keys : store = "valkeySets" /\ k \notin index

(* Nothing a caller does takes a row of another namespace, but for the      *)
(* flush of memcached, the FLUSHDB that noNamespaceAffectsAll asks for,     *)
(* KeyvValkey without sets, and a bridge over a store without an iterator.  *)
OthersKept ==
  store \notin {"memcache", "redisAll", "valkey", "bridgeBare"} => Foreign \subseteq Present

(* An iterator that ends without an error has yielded every live row that   *)
(* was there, untouched, all the time.                                      *)
IteratorComplete ==
  \A c \in Callers, k \in Keys :
    Finished(c, "iterate") /\ k \in steady[c] /\ Live(k) => k \in calls[c].ok

(* A read without an error misses no row that was there, live and           *)
(* untouched, all the time.                                                 *)
MissesJustified ==
  \A c \in Callers, k \in Keys :
    /\ Finished(c, "get") /\ calls[c].at[k] = "done"
    /\ k \in steady[c] /\ Live(k)
    => k \in calls[c].ok

(* What a read or an iterator deletes has expired, or was written after the *)
(* read began.                                                              *)
CleanUpTakesStale ==
  [][\A c \in Callers, k \in Rows :
       /\ calls[c].op \in {"get", "clearExpired", "iterate"}
       /\ calls[c].at[k] = "purge" /\ calls'[c].at[k] = "done"
       /\ Live(k) /\ kv'[k] = Absent
       => k \notin steady[c]]_vars
=============================================================================
