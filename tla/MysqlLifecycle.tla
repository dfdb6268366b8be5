---------------------------- MODULE MysqlLifecycle --------------------------
(***************************************************************************)
(* One mysql adapter (storage/mysql/src/index.ts) and its connection pools: *)
(* queries, disconnect(), and the configuration transitions reconnect(),   *)
(* useTable() and resizeKeyColumns(), which are requested at any time and  *)
(* run one after the other.  Every await is a point where the other parts  *)
(* may run.                                                                *)
(*                                                                         *)
(* A pool is a number; a query is a slot that is used again and again.     *)
(* What the statements do to the data is in SqlStore.                      *)
(***************************************************************************)
EXTENDS Integers, Sequences, FiniteSets

CONSTANTS
  Queries,         \* slots for queries in flight
  Tables,          \* table names
  InitFails,       \* creating or migrating a table may fail
  None,
  MaxPools,        \* bound: pools created
  MaxTransitions,  \* bound: transitions requested
  MaxDisconnects   \* bound: calls to disconnect()

ASSUME BoundAssumption == /\ MaxPools \in Nat \ {0}
                          /\ {MaxTransitions, MaxDisconnects} \subseteq Nat
                          /\ None \notin 1 .. MaxPools
ASSUME FlagAssumption  == InitFails \in BOOLEAN

Pools    == 1 .. MaxPools
OpKinds  == {"reconnect", "useTable", "resize"}

VARIABLES
  state,     \* of each pool: "new", "open", "ended"
  pool,      \* _pool
  conn,      \* the pool _connected gives a query function for
  link,      \* of each pool: the promise _connected was assigned for it is
             \* "pending", "ready" or "failed"
  table,     \* _table
  inited,    \* the pairs <<pool, table>> that initializeTable() has completed
  disconnected, generation,   \* _disconnected, _disconnectGeneration
  promise,   \* _disconnectPromise: the number of that shutdown, or 0
  shutdown,  \* the shutdown's stage, and what it still waits for
  queue,     \* transitions requested and not settled, the first one running
  stage,     \* of the first: "queued", "connect", "init", "initialized", "drain"
  next,      \* nextPool of a reconnect
  drain,     \* what a reconnect waits for before it ends the old pool
  settled,   \* transitions settled so far
  qstate, qpool,  \* of each query: "free", "waiting" or "running", and its pool
  timer,     \* the clean-up interval is running
  last,      \* history: the last called of reconnect(), and disconnect() on
             \* a connected adapter
  calls      \* history: calls to disconnect() so far

poolVars  == <<state, pool, conn, link, inited>>
closeVars == <<disconnected, generation, promise, shutdown>>
opVars    == <<queue, stage, next, drain, settled>>
queryVars == <<qstate, qpool>>
pastVars  == <<last, calls>>
vars == <<poolVars, table, closeVars, opVars, queryVars, timer, pastVars>>

Requested == settled + Len(queue)
Pending   == {q \in Queries : qstate[q] # "free"}   \* _pendingQueries
Fresh     == {p \in Pools : state[p] = "new"}
NoShutdown == [number |-> 0, stage |-> "none", queries |-> {}, upto |-> 0]
NoDrain    == [pool |-> None, queries |-> {}]

\* A query that settles leaves every set that waits for it.
Forget(q) == /\ shutdown' = [shutdown EXCEPT !.queries = @ \ {q}]
             /\ drain' = [drain EXCEPT !.queries = @ \ {q}]

-----------------------------------------------------------------------------
(* query() *)

\* The query waits for _connected as it is now.
Start(q) ==
  /\ qstate[q] = "free" /\ ~disconnected
  /\ qstate' = [qstate EXCEPT ![q] = "waiting"]
  /\ qpool'  = [qpool EXCEPT ![q] = conn]
  /\ UNCHANGED <<poolVars, table, closeVars, opVars, timer, pastVars>>

Run(q) ==
  /\ qstate[q] = "waiting" /\ link[qpool[q]] = "ready"
  /\ qstate' = [qstate EXCEPT ![q] = "running"]
  /\ UNCHANGED <<poolVars, table, closeVars, opVars, qpool, timer, pastVars>>

\* Answered by the server, or rejected along with the initialization.
Settle(q) ==
  /\ \/ qstate[q] = "running"
     \/ qstate[q] = "waiting" /\ link[qpool[q]] = "failed"
  /\ qstate' = [qstate EXCEPT ![q] = "free"]
  /\ Forget(q)
  /\ UNCHANGED <<poolVars, table, disconnected, generation, promise, queue,
                 stage, next, settled, qpool, timer, pastVars>>

\* The initialization the constructor has started.
Connect ==
  /\ link[1] = "pending"
  /\ \/ link' = [link EXCEPT ![1] = "ready"] /\ inited' = inited \cup {<<1, table>>}
     \/ InitFails /\ link' = [link EXCEPT ![1] = "failed"] /\ UNCHANGED inited
  /\ UNCHANGED <<state, pool, conn, table, closeVars, opVars, queryVars, timer,
                 pastVars>>

-----------------------------------------------------------------------------
(* disconnect() *)

\* A variant of Upto: also wait for transitions still to come.
Upto_All == MaxTransitions
\* _configurationTransition, as of this call.
Upto == Requested

\* The queries a shutdown or a reconnect waits for, and a variant.
Waited_None == {}
Waited == Pending

Disconnect ==
  /\ calls < MaxDisconnects
  /\ calls' = calls + 1
  /\ last' = IF disconnected THEN last ELSE "disconnect"
  /\ timer' = FALSE
  /\ generation' = IF disconnected THEN generation ELSE generation + 1
  /\ disconnected' = TRUE
  /\ IF promise # 0
     THEN UNCHANGED <<promise, shutdown>>
     ELSE /\ promise'  = shutdown.number + 1
          /\ shutdown' = [number |-> shutdown.number + 1, stage |-> "waiting",
                          queries |-> Waited, upto |-> Upto]
  /\ UNCHANGED <<poolVars, table, opVars, queryVars>>

\* Promise.allSettled(pending) is through: the pool is ended.
Shutdown ==
  /\ shutdown.stage = "waiting"
  /\ shutdown.queries = {} /\ settled >= shutdown.upto /\ link[conn] # "pending"
  /\ shutdown' = [shutdown EXCEPT !.stage = "done"]
  /\ state' = [p \in Pools |-> IF p = pool THEN "ended" ELSE state[p]]
  /\ pool' = None
  /\ UNCHANGED <<conn, link, inited, table, disconnected, generation, promise,
                 opVars, queryVars, timer, pastVars>>

\* The shutdown a reconnect was told to wait for has resolved.
Resolved(n) == n = 0 \/ n < shutdown.number \/ shutdown.stage = "done"

-----------------------------------------------------------------------------
(* enqueueConfigurationTransition() *)

Request ==
  /\ Requested < MaxTransitions
  /\ \E op \in OpKinds, t \in Tables :
       /\ op # "useTable" => t = table
       /\ queue' = Append(queue, [op |-> op, table |-> t, gen |-> generation,
                                  prev |-> promise])
       /\ last' = IF op = "reconnect" THEN op ELSE last
  /\ UNCHANGED <<poolVars, table, closeVars, stage, next, drain, settled,
                 queryVars, timer, calls>>

Op == Head(queue)

Finish == /\ queue' = Tail(queue) /\ settled' = settled + 1
          /\ stage' = "queued" /\ next' = None /\ drain' = NoDrain

\* The first transition starts: reconnect() waits for the shutdown it saw and
\* opens a pool; the others need a live connection.
Open ==
  /\ queue # <<>> /\ stage = "queued"
  /\ Op.op = "reconnect" /\ Resolved(Op.prev)
  /\ Fresh # {}
  /\ LET p == CHOOSE p \in Fresh : TRUE IN
       next' = p /\ state' = [state EXCEPT ![p] = "open"]
  /\ stage' = "init"
  /\ UNCHANGED <<pool, conn, link, inited, table, closeVars, queue, drain,
                 settled, queryVars, timer, pastVars>>

Refuse ==
  /\ queue # <<>> /\ stage = "queued"
  /\ \/ Op.op # "reconnect" /\ disconnected
     \/ Op.op = "useTable" /\ Op.table = table
     \/ Op.op = "resize"   \* the same limits, or limits it must refuse
  /\ Finish
  /\ UNCHANGED <<poolVars, table, closeVars, queryVars, timer, pastVars>>

\* useTable() notes the generation, then awaits _connected.
Prepare ==
  /\ queue # <<>> /\ stage = "queued"
  /\ Op.op # "reconnect" /\ ~disconnected
  /\ Op.op = "useTable" => Op.table # table
  /\ queue' = [queue EXCEPT ![1].gen = generation]
  /\ next'  = conn
  /\ stage' = "connect"
  /\ UNCHANGED <<poolVars, table, closeVars, drain, settled, queryVars, timer,
                 pastVars>>

Proceed ==
  /\ stage = "connect"
  /\ \/ /\ link[next] = "ready"
        /\ stage' = "init" /\ UNCHANGED <<queue, next, drain, settled>>
     \/ link[next] = "failed" /\ Finish
  /\ UNCHANGED <<poolVars, table, closeVars, queryVars, timer, pastVars>>

\* The table a transition initializes, and a variant that settles it when the
\* transition is requested.
Target_AsRequested == Op.table
Target == IF Op.op = "useTable" THEN Op.table ELSE table

\* The statements of initializeTable(), or of the resizing, succeed ...
Initialize ==
  /\ stage = "init"
  /\ inited' = inited \cup {<<next, Target>>}
  /\ stage' = "initialized"
  /\ UNCHANGED <<state, pool, conn, link, table, closeVars, queue, next, drain,
                 settled, queryVars, timer, pastVars>>

\* A variant of Abandon that forgets to close the pool.
Abandon_Leaves == UNCHANGED state
\* nextPool.end()
Abandon == state' = [p \in Pools |-> IF Op.op = "reconnect" /\ p = next
                                     THEN "ended" ELSE state[p]]

\* ... or fail: a reconnect closes the pool it has opened.
InitializeFails ==
  /\ InitFails
  /\ stage = "init"
  /\ Abandon /\ Finish
  /\ UNCHANGED <<pool, conn, link, inited, table, closeVars, queryVars, timer,
                 pastVars>>

\* A variant of Interrupted that never looks at the generation.
Interrupted_Never == FALSE
\* The adapter was disconnected meanwhile (resizeKeyColumns() does not care).
Interrupted == Op.op # "resize" /\ Op.gen # generation

Interrupt ==
  /\ stage = "initialized" /\ Interrupted
  /\ Abandon /\ Finish
  /\ UNCHANGED <<pool, conn, link, inited, table, closeVars, queryVars, timer,
                 pastVars>>

ChangeTable ==
  /\ stage = "initialized" /\ Op.op # "reconnect" /\ ~Interrupted
  /\ table' = IF Op.op = "useTable" THEN Op.table ELSE table
  /\ Finish
  /\ UNCHANGED <<poolVars, closeVars, queryVars, timer, pastVars>>

\* reconnect() switches over, all at once ...
Switch ==
  /\ stage = "initialized" /\ Op.op = "reconnect" /\ ~Interrupted
  /\ pool' = next /\ conn' = next
  /\ link' = [link EXCEPT ![next] = "ready"]
  /\ disconnected' = FALSE /\ promise' = 0
  /\ timer' \in BOOLEAN
  /\ drain' = [pool |-> pool, queries |-> Waited]
  /\ stage' = "drain"
  /\ UNCHANGED <<state, inited, table, generation, shutdown, queue, next,
                 settled, queryVars, pastVars>>

\* ... and ends the old pool once its queries have settled.
Drained ==
  /\ stage = "drain"
  /\ drain.queries = {} /\ link[1] # "pending"
  /\ state' = [p \in Pools |-> IF p = drain.pool THEN "ended" ELSE state[p]]
  /\ Finish
  /\ UNCHANGED <<pool, conn, link, inited, table, closeVars, queryVars, timer,
                 pastVars>>

\* The intervalExpiration setter: startClearExpiredTimer(), which leaves the timer
\* off on a disconnected adapter.
SetInterval ==
  /\ timer' \in {FALSE, ~disconnected}
  /\ UNCHANGED <<poolVars, table, closeVars, opVars, queryVars, pastVars>>

-----------------------------------------------------------------------------
Init ==
  /\ state  = [p \in Pools |-> IF p = 1 THEN "open" ELSE "new"]
  /\ pool   = 1 /\ conn = 1
  /\ link   = [p \in Pools |-> "pending"]
  /\ table  \in Tables
  /\ inited = {}
  /\ disconnected = FALSE /\ generation = 0 /\ promise = 0
  /\ shutdown = NoShutdown
  /\ queue = <<>> /\ stage = "queued" /\ next = None /\ drain = NoDrain
  /\ settled = 0
  /\ qstate = [q \in Queries |-> "free"]
  /\ qpool  = [q \in Queries |-> 1]
  /\ timer \in BOOLEAN
  /\ last = "reconnect" /\ calls = 0

Transition == \/ Open \/ Refuse \/ Prepare \/ Proceed \/ Initialize \/ InitializeFails
              \/ Interrupt \/ ChangeTable \/ Switch \/ Drained

Next == \/ \E q \in Queries : Start(q) \/ Run(q) \/ Settle(q)
        \/ Connect \/ Disconnect \/ Shutdown \/ Request \/ Transition
        \/ SetInterval

Spec == Init /\ [][Next]_vars

\* The server answers every statement, one way or the other, and promise
\* continuations run.
FairSpec == /\ Spec
            /\ \A q \in Queries : WF_vars(Run(q) \/ Settle(q))
            /\ WF_vars(Connect) /\ WF_vars(Shutdown) /\ WF_vars(Transition)

-----------------------------------------------------------------------------

\* A query never meets a closed pool: neither disconnect() nor reconnect()
\* closes one that a query is running on or waiting for (index.ts:250-251:
\* "queries that started on the previous pool are allowed to settle before
\* that pool is closed").
PoolsOutliveQueries ==
  \A q \in Queries : qstate[q] # "free" => state[qpool[q]] = "open"

\* Nothing leaks and nothing is closed too early: when no transition and no
\* shutdown is under way, the open pools are the adapter's own one.
NoPoolLeaks ==
  queue = <<>> /\ shutdown.stage # "waiting"
    => {p \in Pools : state[p] = "open"} = IF disconnected THEN {} ELSE {pool}

\* The live table has been created or migrated on the live connection, in
\* whatever order reconnect(), useTable() and disconnect() were called.
TableReady ==
  link[conn] = "ready" => <<conn, table>> \in inited

\* When disconnect() met a connected adapter after the last reconnect() was
\* called, the adapter ends up disconnected (test/test.ts:263: it "does not
\* publish connection or table changes interrupted by disconnect").  One that
\* meets an adapter disconnected already does not count a generation, and a
\* reconnect() called before it wins.
DisconnectSticks ==
  last = "disconnect" /\ queue = <<>> /\ shutdown.stage = "done" => disconnected

\* Shutdowns and transitions wait for each other without ever waiting in a
\* circle: disconnect() resolves, and every transition settles.
AllSettle ==
  /\ shutdown.stage = "waiting" ~> shutdown.stage = "done"
  /\ \A n \in 1 .. MaxTransitions : (Requested >= n) ~> (settled >= n)
=============================================================================
