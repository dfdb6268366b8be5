---------------------------- MODULE BridgeStore ----------------------------
(***************************************************************************)
(* KeyvBridgeAdapter (core/keyv/src/adapters/bridge.ts) over three legacy  *)
(* stores, which take lifetimes in place of deadlines: one with every      *)
(* method and namespaces of its own, one with an iterator and nothing to   *)
(* spare, and one with the least the bridge accepts.  What a store lacks   *)
(* the bridge makes of single requests, one after the other.               *)
(***************************************************************************)
EXTENDS RemoteServer

Methods == {"get", "getMany", "has", "hasMany", "set", "setMany", "delete", "deleteMany",
            "clear", "disconnect", "iterator"}

\* The methods of the legacy stores; one that returns promises without being
\* declared async counts as synchronous.
Legacy ==
  [bridgeFull |-> [m \in Methods |-> "async"],
   bridgeMap  |-> [m \in Methods |-> IF m \in {"get", "set", "delete", "clear", "iterator"}
                                     THEN "async" ELSE "none"],
   bridgeBare |-> [m \in Methods |-> IF m \in {"get", "set", "delete", "clear"}
                                     THEN "sync" ELSE "none"]]

\* detectKeyvStorage()
Detected(methods) ==
  IF \A m \in Methods \ {"getMany", "disconnect", "iterator"} : methods[m] = "async"
    THEN "keyvStorage"
  ELSE IF \A m \in {"get", "set", "delete", "has"} : methods[m] = "sync" THEN "mapLike"
  ELSE IF \A m \in {"get", "set", "delete", "clear"} : methods[m] # "none" THEN "asyncMap"
  ELSE "none"

\* resolveStore()
Resolved(expires, methods) ==
  CASE expires -> "direct"
    [] ~expires /\ Detected(methods) \in {"keyvStorage", "asyncMap"} -> "bridge"
    [] OTHER -> "memory"

ASSUME BridgeAssumption ==
  \A s \in Bridges : Resolved(FALSE, Legacy[s]) = "bridge"

Exists(m)      == Legacy[store][m] # "none"
HandlesNamespace == Detected(Legacy[store]) = "keyvStorage"

\* ttlFromExpires(), which reads the clock again: by then the deadline may have
\* come, and there is no lifetime at all.
Ttls(e) == IF e = Never THEN {Never}
           ELSE {[rel |-> TRUE, n |-> e - clock]} \cup {Never : late \in {clock + 1} \cap {e}}

\* set(), and setMany() without one of the store's, begin a loop.  Otherwise the
\* entries that had expired, D, wait for the others, which are one request.
BridgeSet(c, K, e) ==
  LET call == [Idle EXCEPT !.op = "set", !.e = e] IN
  \/ /\ Cardinality(K) = 1 \/ ~Exists("setMany")
     /\ Begin(c, Posted(call, Singly(K), "queued"))
  \/ /\ Cardinality(K) > 1 /\ Exists("setMany")
     /\ \E D \in SUBSET K, exp \in Ttls(e) :
          Begin(c, Posted(Posted([call EXCEPT !.exp = exp], Whole(K \ D), "sent"),
                          Singly(D), "late"))

\* get(), getMany(), has() and hasMany(); delete() and deleteMany()
BridgeAsk(c, op, K) ==
  LET many == IF op = "get" THEN "getMany" ELSE "deleteMany" IN
  Begin(c, Posted([Idle EXCEPT !.op = op],
                  IF Exists(many) THEN Whole(K) ELSE Singly(K),
                  IF Exists(many) THEN "sent" ELSE "queued"))

\* clear() of the store, which takes its namespace or all there is; or, with
\* an iterator, a list of the rows to delete first.
BridgeClear(c) ==
  LET call == [Idle EXCEPT !.op = "clear"] IN
  Begin(c, IF HandlesNamespace THEN Posted(call, Whole(Keys), "sent")
           ELSE IF Exists("iterator") THEN [call EXCEPT !.ahead = Rows]
           ELSE Posted(call, Whole(Rows), "sent"))

BridgeIterate(c) == Exists("iterator") /\ Begin(c, [Idle EXCEPT !.op = "iterate", !.ahead = Rows])

\* A page of the store's iterator: the rows with the prefix of the namespace.
BridgePage(c, W) ==
  /\ calls[c].op = "iterate" => Pending(c) = {}
  /\ Settle(c, Posted([calls[c] EXCEPT !.ahead = @ \ W], Singly(W \cap Present \cap Keys),
                      IF calls[c].op = "clear" THEN "queued" ELSE "held"))
  /\ UNCHANGED <<store, clock, kv>>

\* The loops take a row when they are done with those before it.
Loop(c, k, place) ==
  /\ calls[c].at[k] = place
  /\ \A j \in Pending(c) \ {k} : k < j /\ calls[c].at[j] \in {"queued", "late", "held"}
  /\ calls[c].op = "clear" => calls[c].ahead = {}

BridgeTurn(c, k) ==
  LET write == Loop(c, k, "queued") /\ calls[c].op = "set"
      late  == calls[c].e # Never /\ calls[c].e <= clock
  IN
  \/ Loop(c, k, "late") /\ Move(c, k, "purge")
  \/ write /\ late /\ Move(c, k, "purge")
  \/ /\ Loop(c, k, "queued") /\ calls[c].op \in {"delete", "clear"}
     /\ Move(c, k, "purge")
  \/ Loop(c, k, "queued") /\ calls[c].op = "get" /\ Move(c, k, "sent")
  \/ /\ write /\ ~late
     /\ \E exp \in Ttls(calls[c].e) :
          Settle(c, Posted([calls[c] EXCEPT !.exp = exp], {{k}}, "sent"))
     /\ UNCHANGED <<store, clock, kv>>

\* An answer comes, or an error in its place, which leaves the loop.
Ends(c, B, yes, took) ==
  /\ \/ Settle(c, Closed(calls[c], B, yes, took))
     \/ Faulty /\ Settle(c, Abandoned(c, took))
  /\ UNCHANGED <<store, clock>>

BridgeWrite(c, B) ==
  /\ calls[c].op = "set"
  /\ \/ kv' = Written(B, calls[c].e, calls[c].exp) /\ Ends(c, B, B, B)
     \/ Fails(c, Abandoned(c, {}))

\* The rows found are judged one by one; has() and hasMany() of the store answer
\* for it.
BridgeFetch(c, B) ==
  /\ calls[c].op = "get"
  /\ \/ /\ Settle(c, Posted(Closed(calls[c], B \ Present, {}, {}), Singly(B \cap Present), "held"))
        /\ UNCHANGED <<store, clock, kv>>
     \/ Exists("hasMany") /\ FetchArrives(c, B)
     \/ Fails(c, Abandoned(c, {}))

\* isDataExpired(), of a value that tells its deadline.
BridgeJudge(c, k) ==
  LET seen == calls[c].seen[k] IN
  /\ Loop(c, k, "held")
  /\ \/ seen # Never /\ seen < clock /\ Move(c, k, "purge")
     \/ /\ seen # Never => seen >= clock
        /\ Settle(c, Closed(calls[c], {k}, {k}, {}))
        /\ UNCHANGED <<store, clock, kv>>

\* clear() and deleteMany() of the store.
BridgeRemove(c, B) ==
  /\ calls[c].op \in {"delete", "clear"}
  /\ RemoveArrives(c, B) \/ Refused(c, B)

\* delete() of the store: for an entry that came too late, whose answer is true
\* whatever it does, for deleteMany(), which goes on after an error, and the rest.
BridgePurge(c, k) ==
  LET found == {k} \cap Present IN
  \/ calls[c].op = "delete" /\ (RemoveArrives(c, {k}) \/ Refused(c, {k}))
  \/ /\ calls[c].op # "delete"
     /\ kv' = Without({k})
     /\ Ends(c, {k}, {k} \cap {j \in Rows : calls[c].op = "set"},
             CASE calls[c].op = "set"   -> {k}
               [] calls[c].op = "clear" -> found
               [] OTHER                 -> {})
  \/ calls[c].op # "delete" /\ Fails(c, Abandoned(c, {}))

BridgeListFails(c) == calls[c].ahead # {} /\ Pending(c) = {} /\ Fails(c, Abandoned(c, {}))

BridgeNext(c) ==
  \/ \E K \in Batches[store], e \in Deadlines : BridgeSet(c, K, e)
  \/ \E K \in Asks[store], op \in {"get", "delete"} : BridgeAsk(c, op, K)
  \/ BridgeClear(c) \/ BridgeIterate(c)
  \/ \E W \in Pages(c) : BridgePage(c, W)
  \/ \E B \in Requests(c, "sent") :
        BridgeWrite(c, B) \/ BridgeFetch(c, B) \/ BridgeRemove(c, B)
  \/ \E k \in Pending(c) : \/ BridgeTurn(c, k) \/ BridgeJudge(c, k)
                           \/ calls[c].at[k] = "purge" /\ BridgePurge(c, k)
  \/ BridgeListFails(c)
=============================================================================
