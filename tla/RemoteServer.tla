---------------------------- MODULE RemoteServer ----------------------------
(***************************************************************************)
(* What the adapters for remote stores share: callers whose calls are made *)
(* of requests, and one server that carries requests out one at a time.    *)
(* The adapters extend this module with what each of their operations      *)
(* sends and what it makes of the answers.                                 *)
(*                                                                         *)
(* A request names a set of rows and is atomic.  It may be refused, and it *)
(* may be carried out and lose its answer; the client cannot tell.  The    *)
(* server is external, and strongly consistent.  Keys are the rows of the  *)
(* callers' namespace; Foreign are rows of another one, whose name goes on *)
(* where the callers' name ends ("a" and "ab").                            *)
(***************************************************************************)
EXTENDS Integers, FiniteSets

CONSTANTS
  Callers, Keys, Foreign,
  Stores,     \* the servers, with the way the adapter is set up
  Never,      \* no deadline
  Absent,     \* no row
  Second,     \* clock ticks in a second, the unit of some servers
  Lives,      \* for each server, how far ahead of a write a deadline may lie
  Batches,    \* for each server, the sets of keys a write may name
  Asks,       \* and the sets of keys a read or a delete may name
  Faulty,     \* whether requests fail
  StartTime, MaxTime   \* bounds: the clock starts and stops here

AllStores == {"redis", "redisCluster", "redisAll", "valkey", "valkeySets",
              "memcache", "dynamo", "kvBind", "kvRest", "mongo",
              "gridfs", "bridgeFull", "bridgeMap", "bridgeBare"}
Bridges == {"bridgeFull", "bridgeMap", "bridgeBare"}
Rows == Keys \cup Foreign

ASSUME RemoteAssumption ==
  /\ Stores \subseteq AllStores
  /\ Keys \subseteq Int /\ Foreign \subseteq Int /\ Keys \cap Foreign = {}
  /\ IsFiniteSet(Rows)
  /\ Batches \in [AllStores -> SUBSET SUBSET Keys]
  /\ Asks \in [AllStores -> SUBSET SUBSET Keys]
  /\ Second \in Nat \ {0} /\ Lives \in [AllStores -> SUBSET Int] /\ StartTime \in Nat /\ MaxTime \in Nat
  /\ Never \notin Int /\ Faulty \in BOOLEAN
  /\ Absent \notin [e : Int \cup {Never}, dies : Int \cup {Never}]

VARIABLES
  store,  \* which server this behaviour is about
  clock,  \* the time, the same everywhere
  kv,     \* the server's rows: the deadline stored with the value, and
          \* the time at which the server itself drops the row
  calls   \* the call each caller has under way, or its outcome

remote == <<store, clock, kv, calls>>

Idle == [op |-> "none",
         e |-> Never,       \* the deadline of a write
         exp |-> Never,     \* what a write tells the server about it
         now |-> 0,         \* the time deadlines are compared with, where it is
                            \* taken when the call begins
         asks |-> FALSE,    \* waits for the server's version
         ahead |-> {},      \* rows a listing has yet to pass
         at |-> [k \in Rows |-> "unused"],   \* or "queued", "late", "sent", "meta",
                            \* "held", "load", "purge", and in the end "done"
         batch |-> [k \in Rows |-> {}],   \* the request a row travels in
         seen |-> [k \in Rows |-> Never],  \* deadlines of the rows at "held"
         ok |-> {},         \* rows answered, or yielded, with a yes
         took |-> {},       \* rows written or removed by this call
         failed |-> FALSE]  \* a request was rejected

Present == {k \in Rows : kv[k] # Absent}

Pending(c) == {k \in Rows : calls[c].at[k] \notin {"unused", "done"}}
Settled(call) == /\ \A k \in Rows : call.at[k] \in {"unused", "done"}
                 /\ ~call.asks /\ call.ahead = {}

\* In these adapters an error anywhere turns a whole batch into false.
AllOrNothing(op) == \/ store \in {"redis", "redisCluster", "redisAll", "dynamo"}
                    \/ store \in Bridges /\ op = "set"

\* What is left of a call that has settled: the answer of each row.
Outcome(call) ==
  IF call.failed /\ (AllOrNothing(call.op) \/ call.op \notin {"set", "delete"}) THEN Idle
  ELSE [Idle EXCEPT !.op = call.op, !.at = call.at, !.ok = call.ok,
          !.took = {k \in call.took : call.op \in {"set", "delete"}},
          !.failed = call.failed]

Free(c) == Settled(calls[c])

Settle(c, call) ==
  calls' = [calls EXCEPT ![c] = IF Settled(call) THEN Outcome(call) ELSE call]
Begin(c, call)  == Free(c) /\ Settle(c, call) /\ UNCHANGED <<store, clock, kv>>

\* A listing passes the rows in the server's order, a page at a time.
Pages(c) == {W \in (SUBSET calls[c].ahead) \ {{}} :
               \A k \in W, j \in calls[c].ahead \ W : k < j}

Deadlines == {Never} \cup {clock + life : life \in Lives[store]}

\* The call with each of parts on its way as one request, or, at "held", in
\* the answer that is under way.
Posted(call, parts, place) ==
  LET moved == UNION parts IN
  [call EXCEPT
     !.at = [k \in Rows |-> IF k \in moved THEN place ELSE @[k]],
     !.batch = [k \in Rows |-> IF k \in moved
                               THEN CHOOSE p \in parts : k \in p ELSE @[k]],
     !.seen = [k \in Rows |-> IF k \notin moved THEN @[k]
                              ELSE IF place = "held" THEN kv[k].e ELSE Never]]

Singly(K)  == {{k} : k \in K}
Whole(K)   == {K} \ {{}}

Held(c) == {k \in Rows : calls[c].at[k] = "held"}

\* The rows at hand that have expired by now, whatever the server has by now.
SeenDead(c) == {k \in Held(c) : calls[c].seen[k] # Never /\ calls[c].seen[k] <= clock}

Requests(c, place) ==
  {calls[c].batch[k] : k \in {j \in Rows : calls[c].at[j] = place}}

Move(c, k, place) == /\ Settle(c, Posted(calls[c], {{k}}, place))
                     /\ UNCHANGED <<store, clock, kv>>

\* An iterator takes the rows of a page in turn.
InTurn(c, k) == calls[c].op = "iterate" => \A j \in Pending(c) : k <= j

\* The rows B are dealt with, as far as the call knows.
Closed(call, B, yes, took) ==
  [call EXCEPT !.at = [k \in Rows |-> IF k \in B THEN "done" ELSE @[k]],
               !.batch = [k \in Rows |-> IF k \in B THEN {} ELSE @[k]],
               !.seen = [k \in Rows |-> IF k \in B THEN Never ELSE @[k]],
               !.ok = @ \cup yes, !.took = @ \cup took]

Broken(call, B, took) == [Closed(call, B, {}, took) EXCEPT !.failed = TRUE]

\* The error ends a loop: what was not sent yet never is.
Abandoned(c, took) == [Broken(calls[c], Pending(c), took) EXCEPT !.ahead = {}]

-----------------------------------------------------------------------------
(* The server. *)

\* These drop a row when its time comes; the others some time later.
Punctual == store \notin {"dynamo", "kvBind", "kvRest", "mongo", "gridfs"}

Lapsed(row, time) == row # Absent /\ row.dies # Never /\ row.dies <= time

\* A lifetime counts from the arrival of the write, a date does not.
Dies(exp) == IF exp = Never THEN Never
             ELSE IF exp.rel THEN clock + exp.n ELSE exp.n

Kept(row) == IF Punctual /\ Lapsed(row, clock) THEN Absent ELSE row

Written(B, e, exp) ==
  [k \in Rows |-> IF k \in B THEN Kept([e |-> e, dies |-> Dies(exp)]) ELSE kv[k]]
Without(B) == [k \in Rows |-> IF k \in B THEN Absent ELSE kv[k]]

Tick == /\ clock < MaxTime
        /\ clock' = clock + 1
        /\ kv' = [k \in Rows |-> IF Punctual /\ Lapsed(kv[k], clock + 1)
                                 THEN Absent ELSE kv[k]]
        /\ UNCHANGED <<store, calls>>

Reap(k) == /\ ~Punctual /\ Lapsed(kv[k], clock)
           /\ kv' = Without({k})
           /\ UNCHANGED <<store, clock, calls>>

\* The outcomes of a request that the server carries out.
Answer(c, B, yes, took) ==
  \/ Settle(c, Closed(calls[c], B, yes, took))
  \/ Faulty /\ Settle(c, Broken(calls[c], B, took))

WriteArrives(c, B) ==
  /\ kv' = Written(B, calls[c].e, calls[c].exp)
  /\ Answer(c, B, B, B)
  /\ UNCHANGED <<store, clock>>

RemoveArrives(c, B) ==
  /\ kv' = Without(B)
  /\ Answer(c, B, B \cap Present, B \cap Present)
  /\ UNCHANGED <<store, clock>>

FetchArrives(c, B) ==
  /\ Settle(c, Closed(calls[c], B, B \cap Present, {}))
  /\ UNCHANGED <<store, clock, kv>>

\* A request that comes to nothing; outcome is the call after the error.
Fails(c, outcome) ==
  /\ Faulty
  /\ Settle(c, outcome)
  /\ UNCHANGED <<store, clock, kv>>

Refused(c, B) == Fails(c, Broken(calls[c], B, {}))
=============================================================================
