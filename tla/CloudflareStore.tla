-------------------------- MODULE CloudflareStore --------------------------
(***************************************************************************)
(* KeyvCloudflareKV (storage/cloudflare-kv/src/index.ts) on a binding      *)
(* ("kvBind") or on its REST client ("kvRest", rest-client.ts), which      *)
(* reads a value and its metadata with two requests.  The deadline is kept *)
(* in the metadata and enforced by reads, which delete what has expired.   *)
(* Batches are the single operations side by side.  That KV itself is only *)
(* eventually consistent is left out.                                      *)
(***************************************************************************)
EXTENDS RemoteServer

CONSTANT MinimumNative   \* _minimumNativeExpirationSeconds

ASSUME CloudflareAssumption == MinimumNative \in Nat

\* The expirationTtl of set(): whole seconds, rounded down, or none.
ExpirationTtl(e) == LET ttlSeconds == (e - clock) \div Second
                    IN  IF ttlSeconds > MinimumNative
                        THEN [rel |-> TRUE, n |-> ttlSeconds * Second]
                        ELSE Never

CloudflareSet(c, K, e) ==
  Begin(c, Posted([Idle EXCEPT !.op = "set", !.e = e,
                     !.exp = IF e = Never THEN Never ELSE ExpirationTtl(e)],
                  Singly(K), "sent"))

CloudflareWrite(c, B) == /\ calls[c].op = "set"
                         /\ WriteArrives(c, B) \/ Refused(c, B)

CloudflareAsk(c, op, K) ==
  Begin(c, Posted([Idle EXCEPT !.op = op], Singly(K), "sent"))

\* get() and has(): getWithMetadata() of a binding, the value of the REST client.
CloudflareFetch(c, k) ==
  /\ calls[c].op = "get"
  /\ \/ k \notin Present /\ FetchArrives(c, {k})
     \/ k \in Present /\ Move(c, k, IF store = "kvRest" THEN "meta" ELSE "held")
     \/ Refused(c, {k})

\* The metadata; none is no deadline, also for a row deleted meanwhile.
CloudflareMeta(c, k) ==
  \/ k \in Present /\ Move(c, k, "held")
  \/ /\ k \notin Present
     /\ Settle(c, Closed(calls[c], {k}, {k}, {}))
     /\ UNCHANGED <<store, clock, kv>>
  \/ Refused(c, {k})

\* isExpired(): the answer is there; a read is done with it or deletes the row,
\* an iterator asks for the value.
CloudflareJudge(c, k) ==
  \/ k \in SeenDead(c) /\ Move(c, k, "purge")
  \/ k \notin SeenDead(c) /\ calls[c].op = "iterate" /\ Move(c, k, "sent")
  \/ /\ k \notin SeenDead(c) /\ calls[c].op = "get"
     /\ Settle(c, Closed(calls[c], {k}, {k}, {}))
     /\ UNCHANGED <<store, clock, kv>>

\* delete() looks first, and answers by what it saw.
CloudflareDelete(c, k) ==
  /\ calls[c].op = "delete"
  /\ \/ k \notin Present /\ FetchArrives(c, {k})
     \/ k \in Present /\ Move(c, k, "purge")
     \/ Refused(c, {k})

\* An error ends the listing of clear(), whose other deletes go on, and all of
\* the iterator.
Threw(c, k, took) ==
  CASE calls[c].op = "iterate" -> Abandoned(c, took)
    [] calls[c].op = "clear"   -> [Broken(calls[c], {k}, took) EXCEPT !.ahead = {}]
    [] OTHER                   -> Broken(calls[c], {k}, took)

\* The DELETE request of delete(), of clear() or of a read's clean-up.
CloudflarePurge(c, k) ==
  LET asked == calls[c].op \in {"delete", "clear"}
      yes   == {j \in {k} : calls[c].op = "delete"}
      took  == {j \in {k} \cap Present : asked} IN
  /\ \/ /\ kv' = Without({k})
        /\ \/ Settle(c, Closed(calls[c], {k}, yes, took))
           \/ Faulty /\ Settle(c, Threw(c, k, took))
     \/ Faulty /\ Settle(c, Threw(c, k, {})) /\ UNCHANGED kv
  /\ UNCHANGED <<store, clock>>

CloudflareScans(c, op) == Begin(c, [Idle EXCEPT !.op = op, !.ahead = Rows])

\* A variant that forgets the cursor.
CloudflarePage_FirstOnly(c, W) ==
  /\ calls[c].op = "iterate" => Pending(c) = {}
  /\ Settle(c, Posted([calls[c] EXCEPT !.ahead = {}], Singly(W \cap Present \cap Keys),
                      IF calls[c].op = "clear" THEN "purge" ELSE "held"))
  /\ UNCHANGED <<store, clock, kv>>

\* listKeys(): a page of the rows W, with their metadata, which clear() deletes
\* and the iterator goes through.  A row that waits for its batch of deletes is
\* one whose request was not carried out yet.
CloudflarePage(c, W) ==
  /\ calls[c].op = "iterate" => Pending(c) = {}
  /\ Settle(c, Posted([calls[c] EXCEPT !.ahead = @ \ W], Singly(W \cap Present \cap Keys),
                      IF calls[c].op = "clear" THEN "purge" ELSE "held"))
  /\ UNCHANGED <<store, clock, kv>>

CloudflareListFails(c) ==
  /\ calls[c].ahead # {}
  /\ Fails(c, Abandoned(c, {}))

\* The iterator gets the value; a row deleted meanwhile is passed over.
CloudflareNextValue(c, k) ==
  /\ calls[c].op = "iterate"
  /\ FetchArrives(c, {k}) \/ Fails(c, Abandoned(c, {}))

CloudflareNext(c) ==
  \/ \E K \in Batches[store], e \in Deadlines : CloudflareSet(c, K, e)
  \/ \E K \in Asks[store], op \in {"get", "delete"} : CloudflareAsk(c, op, K)
  \/ \E B \in Requests(c, "sent") : CloudflareWrite(c, B)
  \/ \E k \in Pending(c) :
        /\ InTurn(c, k)
        /\ \/ /\ calls[c].at[k] = "sent"
              /\ CloudflareFetch(c, k) \/ CloudflareDelete(c, k) \/ CloudflareNextValue(c, k)
           \/ calls[c].at[k] = "meta" /\ CloudflareMeta(c, k)
           \/ calls[c].at[k] = "held" /\ CloudflareJudge(c, k)
           \/ calls[c].at[k] = "purge" /\ CloudflarePurge(c, k)
  \/ \E op \in {"clear", "iterate"} : CloudflareScans(c, op)
  \/ \E W \in Pages(c) : CloudflarePage(c, W)
  \/ CloudflareListFails(c)
=============================================================================
