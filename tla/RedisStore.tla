----------------------------- MODULE RedisStore -----------------------------
(***************************************************************************)
(* KeyvRedis (storage/redis/src/index.ts) on a connected client.  A batch  *)
(* is one transaction, or on a cluster one for each slot, side by side;    *)
(* every key has a slot of its own here.  An error of any of them makes    *)
(* the whole answer false (or an exception, with throwOnErrors) while the  *)
(* others go on.  "redisAll" is the adapter without namespace and with     *)
(* noNamespaceAffectsAll.  Connecting is not in this module.               *)
(***************************************************************************)
EXTENDS RemoteServer

VARIABLES
  pxat,    \* _pxatSupported: what the adapter believes
  modern   \* the server understands SET ... PXAT (6.2 and later)

redisVars == <<pxat, modern>>

RedisStores == {"redis", "redisCluster", "redisAll"}

InitRedis == /\ modern \in IF store \in RedisStores THEN BOOLEAN ELSE {TRUE}
             /\ pxat = "unknown"

\* getSlotMap(): the requests a set of keys is sent in.
SlotMap(K) == IF store = "redisCluster" THEN Singly(K) ELSE Whole(K)

\* A variant of Matches whose pattern lacks the separator.
Matches_NoSeparator == Rows

\* createKeyPrefix() and the MATCH of a scan; without a namespace, every key.
Matches == IF store = "redisAll" THEN Rows ELSE Keys

AtLeast(n, m) == IF m < n THEN n ELSE m

\* expiryOptions()
ExpiryOptions(e, supported) ==
  IF e = Never THEN Never
  ELSE IF supported = "yes" THEN [rel |-> FALSE, n |-> e]
       ELSE [rel |-> TRUE, n |-> AtLeast(1, e - clock)]

\* set() and setMany(): the first write that may need the server's version
\* asks for it; later ones rely on the answer.
RedisSet(c, K, e) ==
  /\ LET new  == [Idle EXCEPT !.op = "set", !.e = e]
         asks == pxat = "unknown" /\ (Cardinality(K) = 1 => e # Never)
     IN  Begin(c, IF asks THEN Posted([new EXCEPT !.asks = TRUE], Singly(K), "queued")
                  ELSE Posted([new EXCEPT !.exp = ExpiryOptions(e, pxat)],
                              SlotMap(K), "sent"))
  /\ UNCHANGED redisVars

\* supportsPxat(): INFO, once; an error counts as a yes, and for good.
RedisInfo(c) ==
  /\ calls[c].asks
  /\ pxat' \in {IF modern THEN "yes" ELSE "no"} \cup {p \in {"yes"} : Faulty}
  /\ Settle(c, Posted([calls[c] EXCEPT !.asks = FALSE,
                                       !.exp = ExpiryOptions(calls[c].e, pxat')],
                      SlotMap(Pending(c)), "sent"))
  /\ UNCHANGED <<store, clock, kv, modern>>

Understood(exp) == exp # Never => exp.rel \/ modern

\* MULTI ... EXEC, or a single SET.
RedisWrite(c, B) ==
  /\ calls[c].op = "set"
  /\ Understood(calls[c].exp)
  /\ WriteArrives(c, B)
  /\ UNCHANGED redisVars

\* An older server refuses PXAT.
RedisWriteFails(c, B) ==
  /\ calls[c].op = "set"
  /\ Understood(calls[c].exp) => Faulty
  /\ Settle(c, Broken(calls[c], B, {}))
  /\ UNCHANGED <<store, clock, kv, pxat, modern>>

\* get(), getMany(), has(), hasMany(), delete(), deleteMany()
RedisAsk(c, op, K) ==
  /\ Begin(c, Posted([Idle EXCEPT !.op = op], SlotMap(K), "sent"))
  /\ UNCHANGED redisVars

\* GET, MGET, EXISTS
RedisFetch(c, B) ==
  /\ calls[c].op \in {"get", "iterate"}
  /\ \/ FetchArrives(c, B)
     \/ Fails(c, IF calls[c].op = "get" THEN Broken(calls[c], B, {})
                 ELSE Abandoned(c, {}))
  /\ UNCHANGED redisVars

\* UNLINK, DEL
RedisRemove(c, B) ==
  /\ calls[c].op \in {"delete", "clear"}
  /\ RemoveArrives(c, B) \/ Refused(c, B)
  /\ UNCHANGED redisVars

\* clear() and iterator() scan; without any namespace clear() is a FLUSHDB.
RedisScans(c, op) ==
  /\ Begin(c, IF op = "clear" /\ store = "redisAll"
              THEN Posted([Idle EXCEPT !.op = op], Whole(Rows), "sent")
              ELSE [Idle EXCEPT !.op = op, !.ahead = Rows])
  /\ UNCHANGED redisVars

\* A variant that takes a page without keys for the last one.
RedisPage_StopsEarly(c, W) ==
  /\ calls[c].op = "iterate" => Pending(c) = {}
  /\ LET found == W \cap Present \cap Matches
     IN  Settle(c, Posted([calls[c] EXCEPT
                             !.ahead = IF found = {} THEN {} ELSE @ \ W],
                          SlotMap(found), "sent"))
  /\ UNCHANGED <<store, clock, kv, pxat, modern>>

\* SCAN: the cursor moves past the rows W.  clear() sends off what it found
\* and scans on; iterator() first fetches and yields.
RedisPage(c, W) ==
  /\ calls[c].op = "iterate" => Pending(c) = {}
  /\ Settle(c, Posted([calls[c] EXCEPT !.ahead = @ \ W],
                      SlotMap(W \cap Present \cap Matches), "sent"))
  /\ UNCHANGED <<store, clock, kv, pxat, modern>>

\* A scan that fails ends the iterator, or clear() on this master.
RedisScanFails(c, W) ==
  /\ (store = "redisCluster" => calls[c].op = "iterate") => W = calls[c].ahead
  /\ calls[c].op = "iterate" => Pending(c) = {}
  /\ Fails(c, [calls[c] EXCEPT !.ahead = @ \ W, !.failed = TRUE])
  /\ UNCHANGED redisVars

RedisNext(c) ==
  \/ \E K \in Batches[store], e \in Deadlines : RedisSet(c, K, e)
  \/ \E K \in Asks[store], op \in {"get", "delete"} : RedisAsk(c, op, K)
  \/ RedisInfo(c)
  \/ \E B \in Requests(c, "sent") :
        RedisWrite(c, B) \/ RedisWriteFails(c, B) \/ RedisFetch(c, B) \/ RedisRemove(c, B)
  \/ \E op \in {"clear", "iterate"} : RedisScans(c, op)
  \/ \E W \in Pages(c) : RedisPage(c, W) \/ RedisScanFails(c, W)
=============================================================================
