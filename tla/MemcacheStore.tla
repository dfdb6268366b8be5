--------------------------- MODULE MemcacheStore ---------------------------
(***************************************************************************)
(* KeyvMemcache (storage/memcache/src/index.ts).  Every batch operation is *)
(* Promise.allSettled over the single one, and memcached drops rows by the *)
(* exptime of the write: whole seconds from now, or, above a month, a date.*)
(***************************************************************************)
EXTENDS RemoteServer

CONSTANT Month   \* seconds; a longer exptime is a date

ASSUME MonthAssumption == Month \in Nat \ {0}

\* Math.ceil() of ticks in seconds; the variant rounds down.
Seconds_Floor(ticks) == ticks \div Second
Seconds(ticks) == -((-ticks) \div Second)

\* The exptime of set(), as the server reads it.
Exptime(e) ==
  LET n == IF e - clock > Month * Second THEN Seconds(e)
           ELSE IF e - clock < 1 THEN 1 ELSE Seconds(e - clock)
  IN  [rel |-> n <= Month, n |-> n * Second]

MemcacheSet(c, K, e) ==
  Begin(c, Posted([Idle EXCEPT !.op = "set", !.e = e,
                     !.exp = IF e = Never THEN Never ELSE Exptime(e)],
                  Singly(K), "sent"))

MemcacheWrite(c, B) == /\ calls[c].op = "set"
                       /\ WriteArrives(c, B) \/ Refused(c, B)

\* get(), getMany(), has(), hasMany(), delete(), deleteMany()
MemcacheAsk(c, op, K) ==
  Begin(c, Posted([Idle EXCEPT !.op = op], Singly(K), "sent"))

MemcacheFetch(c, B) == /\ calls[c].op = "get"
                       /\ FetchArrives(c, B) \/ Refused(c, B)

MemcacheRemove(c, B) == /\ calls[c].op \in {"delete", "clear"}
                        /\ RemoveArrives(c, B) \/ Refused(c, B)

\* clear() is flush(): the whole server, whatever the namespace.
MemcacheFlush(c) ==
  Begin(c, Posted([Idle EXCEPT !.op = "clear"], Whole(Rows), "sent"))

MemcacheNext(c) ==
  \/ \E K \in Batches[store], e \in Deadlines : MemcacheSet(c, K, e)
  \/ \E K \in Asks[store], op \in {"get", "delete"} : MemcacheAsk(c, op, K)
  \/ MemcacheFlush(c)
  \/ \E B \in Requests(c, "sent") :
        MemcacheWrite(c, B) \/ MemcacheFetch(c, B) \/ MemcacheRemove(c, B)
=============================================================================
