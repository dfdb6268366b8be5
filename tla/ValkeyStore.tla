---------------------------- MODULE ValkeyStore ----------------------------
(***************************************************************************)
(* KeyvValkey (storage/valkey/src/index.ts) on one server.  With useSets   *)
(* ("valkeySets") every key is also a member of a set of its namespace,    *)
(* which clear() reads instead of listing the keys.  Reads, deletes and    *)
(* clear() have no catch: an error rejects the call.  Clusters, and the    *)
(* sets of the format before version 6, are left out.                      *)
(***************************************************************************)
EXTENDS RemoteServer

VARIABLES
  index,    \* the members of the namespace's set
  unindex   \* per caller, what its SREM under way will take out

valkeyVars == <<index, unindex>>

InitValkey == index = {} /\ unindex = [c \in Callers |-> {}]

UseSets == store = "valkeySets"

\* set() and setMany(): one MULTI with a SET and an SADD for each entry, or
\* the SET alone.
ValkeySet(c, K, e) ==
  /\ unindex[c] = {}
  /\ Begin(c, Posted([Idle EXCEPT !.op = "set", !.e = e,
                        !.exp = IF e = Never THEN Never
                                ELSE [rel |-> FALSE, n |-> e]],
                     Whole(K), "sent"))
  /\ UNCHANGED valkeyVars

ValkeyWrite(c, B) ==
  /\ calls[c].op = "set"
  /\ \/ WriteArrives(c, B) /\ index' = IF UseSets THEN index \cup B ELSE index
     \/ Refused(c, B) /\ UNCHANGED index
  /\ UNCHANGED unindex

\* get(), getMany() (MGET), has(), hasMany() (one MULTI) and delete(),
\* deleteMany() (a call of delete() for each key).
ValkeyAsk(c, op, K) ==
  /\ unindex[c] = {}
  /\ Begin(c, Posted([Idle EXCEPT !.op = op],
                     IF op = "delete" THEN Singly(K) ELSE Whole(K), "sent"))
  /\ UNCHANGED valkeyVars

ValkeyFetch(c, B) ==
  /\ calls[c].op \in {"get", "iterate"}
  /\ \/ FetchArrives(c, B)
     \/ Fails(c, Abandoned(c, {}))
  /\ UNCHANGED valkeyVars

\* delete(): MULTI UNLINK, SREM.  clear() sends them apart.
ValkeyRemove(c, B) ==
  /\ calls[c].op \in {"delete", "clear"}
  /\ \/ /\ RemoveArrives(c, B)
        /\ index' = IF calls[c].op = "delete" THEN index \ B ELSE index
     \/ Refused(c, B) /\ UNCHANGED index
  /\ UNCHANGED unindex

ValkeyScans(c, op) ==
  /\ unindex[c] = {}
  /\ Begin(c, [Idle EXCEPT !.op = op, !.ahead = Rows])
  /\ UNCHANGED valkeyVars

\* What clear() lists: SMEMBERS, or KEYS with the prefix of the namespace and
\* no separator after it, which other namespaces may begin with.
ClearList == IF UseSets THEN index ELSE Present

\* clear(): UNLINK and SREM of what is listed, side by side.
ValkeyClears(c) ==
  /\ calls[c].op = "clear" /\ calls[c].ahead # {}
  /\ Settle(c, Posted([calls[c] EXCEPT !.ahead = {}], Whole(ClearList), "sent"))
  /\ unindex' = [unindex EXCEPT ![c] = IF UseSets THEN ClearList ELSE {}]
  /\ UNCHANGED <<store, clock, kv, index>>

\* The SREM of clear(), in whatever order with its UNLINK.
ValkeyUnindex(c) ==
  /\ unindex[c] # {}
  /\ index' \in {index \ unindex[c]} \cup {members \in {index} : Faulty}
  /\ unindex' = [unindex EXCEPT ![c] = {}]
  /\ Settle(c, [calls[c] EXCEPT !.failed = @ \/ (index' \cap unindex[c] # {})])
  /\ UNCHANGED <<store, clock, kv>>

\* iterator(): SCAN past the rows W, then MGET.
ValkeyPage(c, W) ==
  /\ calls[c].op = "iterate" /\ Pending(c) = {}
  /\ Settle(c, Posted([calls[c] EXCEPT !.ahead = @ \ W],
                      Whole(W \cap Present \cap Keys), "sent"))
  /\ UNCHANGED <<store, clock, kv, index, unindex>>

\* SMEMBERS, KEYS or SCAN fails.
ValkeyListFails(c) ==
  /\ calls[c].ahead # {} /\ Pending(c) = {}
  /\ Fails(c, Abandoned(c, {}))
  /\ UNCHANGED valkeyVars

ValkeyNext(c) ==
  \/ \E K \in Batches[store], e \in Deadlines : ValkeySet(c, K, e)
  \/ \E K \in Asks[store], op \in {"get", "delete"} : ValkeyAsk(c, op, K)
  \/ \E B \in Requests(c, "sent") :
        ValkeyWrite(c, B) \/ ValkeyFetch(c, B) \/ ValkeyRemove(c, B)
  \/ \E op \in {"clear", "iterate"} : ValkeyScans(c, op)
  \/ ValkeyClears(c) \/ ValkeyUnindex(c) \/ ValkeyListFails(c)
  \/ \E W \in Pages(c) : ValkeyPage(c, W)
=============================================================================
