---------------------------- MODULE DynamoStore ----------------------------
(***************************************************************************)
(* KeyvDynamo (storage/dynamo/src/index.ts) on a table that is ready.      *)
(* The server removes an expired row some time after its expiresAt; reads  *)
(* check expiresAtMs themselves and delete what has expired, by key.  A    *)
(* batch may come back partly unprocessed.                                 *)
(***************************************************************************)
EXTENDS RemoteServer

CONSTANTS SixHours,    \* the lifetime of a write without a deadline
          WriteBatch   \* rows in one BatchWriteItem (25)

ASSUME DynamoAssumption == SixHours \in Nat /\ WriteBatch \in Nat \ {0}

\* expiresAt = Math.ceil(expiresAtMs / 1000)
ExpiresAt(e) == Second * (-((-e) \div Second))

\* The next chunk of the rows K that wait.
Chunk(K) == {k \in K : Cardinality({j \in K : j < k}) < WriteBatch}

NextChunk(call, K) == Posted(call, Whole(Chunk(K)), "sent")

\* set() and setMany()
DynamoSet(c, K, e) ==
  LET expiresAtMs == IF e = Never THEN clock + SixHours ELSE e
      new == [Idle EXCEPT !.op = "set", !.e = expiresAtMs,
                !.exp = [rel |-> FALSE, n |-> ExpiresAt(expiresAtMs)]]
  IN  Begin(c, NextChunk(Posted(new, Singly(K), "queued"), K))

Queued(c) == {k \in Rows : calls[c].at[k] = "queued"}

\* A variant that does not look at UnprocessedItems.
DynamoWrite_Unchecked(c, B) ==
  /\ calls[c].op = "set"
  /\ \E unprocessed \in SUBSET B :
       /\ unprocessed # {} => Faulty
       /\ kv' = Written(B \ unprocessed, calls[c].e, calls[c].exp)
       /\ Settle(c, NextChunk(Closed(calls[c], B, B, B \ unprocessed), Queued(c)))
  /\ UNCHANGED <<store, clock>>

\* PutItem, or a BatchWriteItem, after which the next chunk is sent.
DynamoWrite(c, B) ==
  /\ calls[c].op = "set"
  /\ \E unprocessed \in SUBSET B :
       LET stored == B \ unprocessed IN
       /\ unprocessed # {} => Faulty
       /\ kv' = Written(stored, calls[c].e, calls[c].exp)
       /\ Settle(c, NextChunk(Closed(calls[c], B, stored, stored), Queued(c)))
  /\ UNCHANGED <<store, clock>>

\* An exception: every entry is reported as not written, those of earlier
\* chunks too, and later chunks are not sent.  What this one did is unknown.
DynamoWriteFails(c, B) ==
  /\ calls[c].op = "set" /\ Faulty
  /\ \E stored \in SUBSET B :
       /\ kv' = Written(stored, calls[c].e, calls[c].exp)
       /\ Settle(c, Abandoned(c, stored))
  /\ UNCHANGED <<store, clock>>

\* get(), getMany(), has(), hasMany(); delete() and deleteMany()
DynamoAsk(c, op, K) ==
  Begin(c, Posted([Idle EXCEPT !.op = op],
                  IF op = "delete" THEN Singly(K) ELSE Whole(K), "sent"))

\* A variant that gives up on UnprocessedKeys.
DynamoFetch_Once(c, B) ==
  /\ calls[c].op = "get"
  /\ \E processed \in (SUBSET B) \ {{}} :
       LET found == processed \cap Present
       IN  Settle(c, Posted(Closed(calls[c], B \ found, {}, {}), Singly(found), "held"))
  /\ UNCHANGED <<store, clock, kv>>

\* GetItem, or a BatchGetItem; the rows it left unprocessed are asked for
\* again.  A row is kept with the deadline it came with.
DynamoFetch(c, B) ==
  /\ calls[c].op = "get"
  /\ \E processed \in (SUBSET B) \ {{}} :
       LET found == processed \cap Present
           rest  == Posted(Closed(calls[c], processed \ found, {}, {}),
                           Whole(B \ processed), "sent")
       IN  /\ processed # B => Faulty
           /\ Settle(c, Posted(rest, Singly(found), "held"))
  /\ UNCHANGED <<store, clock, kv>>

\* A variant that deletes every row it found, expired or not.
DynamoJudge_All(c) ==
  /\ Held(c) # {} /\ Requests(c, "sent") = {}
  /\ Settle(c, Posted(calls[c], Singly(Held(c)), "purge"))
  /\ UNCHANGED <<store, clock, kv>>

\* The rows are all there: those expired by now are nullified, and deleted.
DynamoJudge(c) ==
  /\ Held(c) # {} /\ Requests(c, "sent") = {}
  /\ LET live == Held(c) \ SeenDead(c)
     IN  Settle(c, Posted(Closed(calls[c], live, live, {}),
                          Singly(SeenDead(c)), "purge"))
  /\ UNCHANGED <<store, clock, kv>>

\* An error ends a read with nothing found, and an iterator by an exception.
DynamoReadFails(c) ==
  /\ calls[c].op \in {"get", "iterate"}
  /\ Requests(c, "sent") = {} => (calls[c].ahead # {} /\ Pending(c) = {})
  /\ Fails(c, Abandoned(c, {}))

\* delete(), which the clean-up of a read goes through as well, and which
\* catches its errors.
DynamoRemove(c, B) ==
  /\ calls[c].op \in {"delete", "clear"}
  /\ RemoveArrives(c, B) \/ Refused(c, B)

DynamoPurge(c, B) ==
  /\ \/ kv' = Without(B)
     \/ Faulty /\ UNCHANGED kv
  /\ Settle(c, Closed(calls[c], B, {}, {}))
  /\ UNCHANGED <<store, clock>>

DynamoScans(c, op) == Begin(c, [Idle EXCEPT !.op = op, !.ahead = Rows])

\* clear() deletes what the first page of a Scan holds.
DynamoClears(c, W) ==
  /\ calls[c].op = "clear"
  /\ Settle(c, Posted([calls[c] EXCEPT !.ahead = {}],
                      Singly(W \cap Present \cap Keys), "sent"))
  /\ UNCHANGED <<store, clock, kv>>

DynamoClearFails(c) ==
  /\ calls[c].op = "clear" /\ calls[c].ahead # {}
  /\ Fails(c, Abandoned(c, {}))

\* iterator(): page after page, all of a page judged when it arrives.
DynamoPage(c, W) ==
  /\ calls[c].op = "iterate" /\ Pending(c) = {}
  /\ Settle(c, Posted([calls[c] EXCEPT !.ahead = @ \ W],
                      Singly(W \cap Present \cap Keys), "held"))
  /\ UNCHANGED <<store, clock, kv>>

DynamoNext(c) ==
  \/ \E K \in Batches[store], e \in Deadlines : DynamoSet(c, K, e)
  \/ \E K \in Asks[store], op \in {"get", "delete"} : DynamoAsk(c, op, K)
  \/ \E op \in {"clear", "iterate"} : DynamoScans(c, op)
  \/ \E B \in Requests(c, "sent") :
        DynamoWrite(c, B) \/ DynamoWriteFails(c, B) \/ DynamoFetch(c, B) \/ DynamoRemove(c, B)
  \/ \E B \in Requests(c, "purge") : DynamoPurge(c, B)
  \/ \E W \in Pages(c) : DynamoClears(c, W) \/ DynamoPage(c, W)
  \/ DynamoJudge(c) \/ DynamoReadFails(c) \/ DynamoClearFails(c)
=============================================================================
