---------------------------- MODULE GridFsStore ----------------------------
(***************************************************************************)
(* KeyvMongo (storage/mongo/src/index.ts) with useGridFS.  Every set()     *)
(* makes another file of the key's name; reads and deletes take one of     *)
(* them.  Rows are files, each used once, and the sets of rows that Batches *)
(* and Asks give are the files one key may have.  No index of the server    *)
(* removes expired files.  Batches run the single operations side by side. *)
(***************************************************************************)
EXTENDS RemoteServer

CONSTANT UnusedFor   \* the argument of clearUnusedFor()

ASSUME GridFsAssumption == UnusedFor \in Nat

VARIABLES
  used,      \* the files made so far
  accessed   \* metadata.lastAccessed

gridVars == <<used, accessed>>

InitGridFs == used = {} /\ accessed = [k \in Rows |-> 0]

Sweeps == {"clear", "clearExpired", "clearUnusedFor"}

\* set(): an upload stream, which ends in an answer, never in an exception.
GridSet(c, K, e) ==
  \E k \in K \ used :
    /\ Begin(c, Posted([Idle EXCEPT !.op = "set", !.e = e], {{k}}, "sent"))
    /\ used' = used \cup {k}
    /\ accessed' = [accessed EXCEPT ![k] = clock]

GridWrite(c, B) ==
  /\ calls[c].op = "set"
  /\ WriteArrives(c, B) \/ Refused(c, B)
  /\ UNCHANGED gridVars

GridAsk(c, op, K) ==
  /\ Begin(c, Posted([Idle EXCEPT !.op = op, !.now = clock], Whole(K), "sent"))
  /\ UNCHANGED gridVars

\* clear(), clearExpired() and clearUnusedFor()
GridSweep(c, op) ==
  /\ Begin(c, Posted([Idle EXCEPT !.op = op, !.now = clock], Whole(Keys), "sent"))
  /\ UNCHANGED gridVars

\* get() and delete() look for a file of the name and go on with one of them.
GridFind(c, B) ==
  /\ calls[c].op \in {"get", "delete"}
  /\ \/ B \cap Present = {} /\ Settle(c, Closed(calls[c], B, {}, {}))
     \/ \E k \in B \cap Present :
          LET one == [calls[c] EXCEPT
                        !.at = [j \in Rows |-> IF j \in B THEN "unused" ELSE @[j]],
                        !.batch = [j \in Rows |-> IF j \in B THEN {} ELSE @[j]]]
          IN  Settle(c, Posted(one, {{k}}, IF one.op = "get" THEN "held" ELSE "purge"))
  /\ UNCHANGED <<store, clock, kv, used, accessed>>

\* What the query of a sweep finds.
Swept(op, now, B) ==
  {k \in B \cap Present :
     /\ op = "clearExpired" => kv[k].e # Never /\ kv[k].e <= now
     /\ op = "clearUnusedFor" => accessed[k] <= now - UnusedFor}

GridList(c, B) ==
  /\ calls[c].op \in Sweeps
  /\ LET found == Swept(calls[c].op, calls[c].now, B)
     IN  Settle(c, Posted(Closed(calls[c], B \ found, {}, {}), Singly(found), "purge"))
  /\ UNCHANGED <<store, clock, kv, used, accessed>>

\* has() and hasMany() ask the server for a file alive at the time of the call.
GridCount(c, B) ==
  /\ calls[c].op = "get"
  /\ LET live == {k \in B \cap Present : kv[k].e = Never \/ kv[k].e > calls[c].now}
     IN  Settle(c, Closed(calls[c], B, live, {}))
  /\ UNCHANGED <<store, clock, kv, used, accessed>>

\* get() compares with the time of the answer, iterator() with that of its call.
Ended(c, k) == LET seen == calls[c].seen[k]
               IN  seen # Never /\ seen <= (IF calls[c].op = "get" THEN clock ELSE calls[c].now)

GridJudge(c, k) ==
  /\ Move(c, k, IF Ended(c, k) THEN "purge"
                ELSE IF calls[c].op = "get" THEN "meta" ELSE "load")
  /\ UNCHANGED gridVars

\* get() notes the access.
GridTouch(c, k) ==
  /\ accessed' \in {[accessed EXCEPT ![k] = IF k \in Present THEN clock ELSE @]}
                     \cup {same \in {accessed} : Faulty}
  /\ \/ Settle(c, Posted(calls[c], {{k}}, "load"))
     \/ Faulty /\ Settle(c, Broken(calls[c], {k}, {}))
  /\ UNCHANGED <<store, clock, kv, used>>

\* The download.  An error of the stream, a file gone meanwhile for one, reads
\* as undefined.
GridLoad(c, k) ==
  /\ FetchArrives(c, {k}) \/ Refused(c, {k})
  /\ UNCHANGED gridVars

GridThrew(c, k, took) == IF calls[c].op = "iterate" THEN Abandoned(c, took)
                         ELSE Broken(calls[c], {k}, took)

\* bucket.delete(): an error when the file is gone, which delete() catches and
\* nobody else does.
GridPurge(c, k) ==
  LET yes  == {j \in {k} : calls[c].op = "delete"}
      took == {j \in {k} \cap Present : calls[c].op \notin {"get", "iterate"}} IN
  /\ \/ /\ k \in Present /\ kv' = Without({k})
        /\ \/ Settle(c, Closed(calls[c], {k}, yes, took))
           \/ Faulty /\ Settle(c, GridThrew(c, k, took))
     \/ /\ k \in Present => Faulty
        /\ Settle(c, GridThrew(c, k, {})) /\ UNCHANGED kv
  /\ UNCHANGED <<store, clock, used, accessed>>

GridIterate(c) ==
  /\ Begin(c, [Idle EXCEPT !.op = "iterate", !.now = clock, !.ahead = Rows])
  /\ UNCHANGED gridVars

\* A batch of the iterator's cursor, the files W.
GridPage(c, W) ==
  /\ Pending(c) = {}
  /\ Settle(c, Posted([calls[c] EXCEPT !.ahead = @ \ W],
                      Singly(W \cap Present \cap Keys), "held"))
  /\ UNCHANGED <<store, clock, kv, used, accessed>>

\* A query fails.
GridQueryFails(c) ==
  /\ calls[c].op # "set"
  /\ Requests(c, "sent") = {} => (calls[c].ahead # {} /\ Pending(c) = {})
  /\ Fails(c, Abandoned(c, {}))
  /\ UNCHANGED gridVars

GridNext(c) ==
  \/ \E K \in Batches[store], e \in Deadlines : GridSet(c, K, e)
  \/ \E K \in Asks[store], op \in {"get", "delete"} : GridAsk(c, op, K)
  \/ \E op \in Sweeps : GridSweep(c, op)
  \/ \E B \in Requests(c, "sent") :
        GridWrite(c, B) \/ GridFind(c, B) \/ GridCount(c, B) \/ GridList(c, B)
  \/ \E k \in Pending(c) :
        /\ InTurn(c, k)
        /\ \/ calls[c].at[k] = "held" /\ GridJudge(c, k)
           \/ calls[c].at[k] = "meta" /\ GridTouch(c, k)
           \/ calls[c].at[k] = "load" /\ GridLoad(c, k)
           \/ calls[c].at[k] = "purge" /\ GridPurge(c, k)
  \/ GridIterate(c) \/ GridQueryFails(c)
  \/ \E W \in Pages(c) : GridPage(c, W)
=============================================================================
