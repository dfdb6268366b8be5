----------------------------- MODULE MongoStore -----------------------------
(***************************************************************************)
(* KeyvMongo (storage/mongo/src/index.ts) on a connected client, without   *)
(* GridFS.  A document is one row; the TTL index of the server removes it  *)
(* some time after its expiresAt, and reads that find it expired delete it *)
(* by its _id, which an update keeps and a new document does not.  Apart   *)
(* from set() and setMany() an error rejects the call.                     *)
(***************************************************************************)
EXTENDS RemoteServer

VARIABLES
  id,    \* the _id of each key's document: how many it has had so far
  read   \* per caller, the _ids of the documents at hand

mongoVars == <<id, read>>

InitMongo == /\ id = [k \in Rows |-> 0]
             /\ read = [c \in Callers |-> [k \in Rows |-> 0]]

\* The _ids that the call keeps from ids.
AtHand(c, ids) ==
  read' = [read EXCEPT ![c] = [k \in Rows |->
             IF calls'[c].at[k] \in {"held", "purge"} THEN ids[k] ELSE 0]]

\* set() and setMany()
MongoSet(c, K, e) ==
  /\ Begin(c, Posted([Idle EXCEPT !.op = "set", !.e = e,
                        !.exp = IF e = Never THEN Never ELSE [rel |-> FALSE, n |-> e]],
                     Whole(K), "sent"))
  /\ UNCHANGED mongoVars

\* An upsert, or a bulkWrite of them, of which some may fail: a write error
\* for each of those, or an error that tells nothing.
MongoWrite(c, B) ==
  /\ calls[c].op = "set"
  /\ \E stored \in SUBSET B :
       /\ stored # B => Faulty
       /\ kv' = Written(stored, calls[c].e, calls[c].exp)
       /\ id' = [k \in Rows |-> IF k \in stored \ Present THEN id[k] + 1 ELSE id[k]]
       /\ \/ Settle(c, Closed(calls[c], B, stored, stored))
          \/ Faulty /\ Settle(c, Abandoned(c, stored))
  /\ UNCHANGED <<store, clock, read>>

\* get() and getMany(), has() and hasMany(); delete() and deleteMany()
MongoAsk(c, op, K) ==
  /\ Begin(c, Posted([Idle EXCEPT !.op = op, !.now = clock],
                     IF op = "delete" THEN Singly(K) ELSE Whole(K), "sent"))
  /\ UNCHANGED mongoVars

\* findOne() and find()
MongoFetch(c, B) ==
  /\ calls[c].op = "get"
  /\ Settle(c, Posted(Closed(calls[c], B \ Present, {}, {}), Singly(B \cap Present), "held"))
  /\ AtHand(c, id)
  /\ UNCHANGED <<store, clock, kv, id>>

\* has() and hasMany() ask the server for what has not expired.
MongoCount(c, B) ==
  /\ calls[c].op = "get"
  /\ LET live == {k \in B \cap Present : kv[k].e = Never \/ kv[k].e > calls[c].now}
     IN  Settle(c, Closed(calls[c], B, live, {}))
  /\ UNCHANGED <<store, clock, kv, id, read>>

\* get() compares with the time at which the answer is there; getMany() and
\* iterator() with the time at which they began.
SinceThen(c) == IF calls[c].op = "get" /\ Cardinality({k \in Rows : calls[c].at[k] # "unused"}) = 1
                THEN clock ELSE calls[c].now

\* A variant that compares nothing.
MongoJudge_All(c) ==
  /\ Held(c) # {}
  /\ Settle(c, Posted(calls[c], Whole(Held(c)), "purge"))
  /\ AtHand(c, read[c])
  /\ UNCHANGED <<store, clock, kv, id>>

MongoJudge(c) ==
  /\ Held(c) # {}
  /\ LET seen == calls[c].seen
         dead == {k \in Held(c) : seen[k] # Never /\ seen[k] <= SinceThen(c)}
         live == Held(c) \ dead
     IN  Settle(c, Posted(Closed(calls[c], live, live, {}),
                          IF calls[c].op = "iterate" THEN Singly(dead) ELSE Whole(dead),
                          "purge"))
  /\ AtHand(c, read[c])
  /\ UNCHANGED <<store, clock, kv, id>>

\* deleteOne() and deleteMany() by the _ids at hand.
MongoPurge(c, B) ==
  /\ \/ /\ kv' = Without({k \in B : id[k] = read[c][k]})
        /\ \/ Settle(c, Closed(calls[c], B, {}, {}))
           \/ Faulty /\ Settle(c, Abandoned(c, {}))
     \/ Faulty /\ Settle(c, Abandoned(c, {})) /\ UNCHANGED kv
  /\ AtHand(c, read[c])
  /\ UNCHANGED <<store, clock, id>>

\* deleteOne() by key; clear() is a deleteMany() by namespace.
MongoRemove(c, B) ==
  /\ calls[c].op \in {"delete", "clear"}
  /\ RemoveArrives(c, B) \/ Refused(c, B)
  /\ UNCHANGED mongoVars

MongoClear(c) ==
  /\ Begin(c, Posted([Idle EXCEPT !.op = "clear"], Whole(Keys), "sent"))
  /\ UNCHANGED mongoVars

MongoIterate(c) ==
  /\ Begin(c, [Idle EXCEPT !.op = "iterate", !.now = clock, !.ahead = Rows])
  /\ UNCHANGED mongoVars

\* The cursor of the iterator: a batch of the rows W.
MongoPage(c, W) ==
  /\ Pending(c) = {}
  /\ Settle(c, Posted([calls[c] EXCEPT !.ahead = @ \ W],
                      Singly(W \cap Present \cap Keys), "held"))
  /\ AtHand(c, id)
  /\ UNCHANGED <<store, clock, kv, id>>

MongoReadFails(c) ==
  /\ calls[c].op \in {"get", "iterate"}
  /\ Requests(c, "sent") = {} => (calls[c].ahead # {} /\ Pending(c) = {})
  /\ Fails(c, Abandoned(c, {}))
  /\ UNCHANGED mongoVars

MongoNext(c) ==
  \/ \E K \in Batches[store], e \in Deadlines : MongoSet(c, K, e)
  \/ \E K \in Asks[store], op \in {"get", "delete"} : MongoAsk(c, op, K)
  \/ MongoClear(c) \/ MongoIterate(c)
  \/ \E B \in Requests(c, "sent") :
        MongoWrite(c, B) \/ MongoFetch(c, B) \/ MongoCount(c, B) \/ MongoRemove(c, B)
  \/ \E B \in Requests(c, "purge") : MongoPurge(c, B)
  \/ \E W \in Pages(c) : MongoPage(c, W)
  \/ MongoJudge(c) \/ MongoReadFails(c)
=============================================================================
