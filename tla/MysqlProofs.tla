------------------------------ MODULE MysqlProofs ------------------------------
(***************************************************************************)
(* The mysql adapter's pools, whatever queries, transitions and calls to   *)
(* disconnect() come in whatever order.  The invariant says which pool is  *)
(* whose: the adapter's own, the one a reconnect has opened, and the one   *)
(* it drains; that only transitions which the last disconnect() has not    *)
(* overtaken get through; and that no shutdown is under way when one does. *)
(***************************************************************************)
EXTENDS MysqlLifecycle, TLAPS

Stages    == {"queued", "connect", "init", "initialized", "drain"}
Closings  == [number : Nat, stage : {"none", "waiting", "done"}, queries : SUBSET Queries,
              upto : Nat]
Drains    == [pool : Pools \cup {None}, queries : SUBSET Queries]
Requests  == [op : OpKinds, table : Tables, gen : Nat, prev : Nat]

Typed == /\ state \in [Pools -> {"new", "open", "ended"}]
         /\ pool \in Pools \cup {None} /\ conn \in Pools
         /\ link \in [Pools -> {"pending", "ready", "failed"}] /\ table \in Tables
         /\ disconnected \in BOOLEAN /\ generation \in Nat /\ promise \in Nat
         /\ shutdown \in Closings /\ queue \in Seq(Requests) /\ stage \in Stages
         /\ next \in Pools \cup {None} /\ drain \in Drains /\ settled \in Nat
         /\ qstate \in [Queries -> {"free", "waiting", "running"}]
         /\ qpool \in [Queries -> Pools]

Waiting == shutdown.stage = "waiting"

\* The adapter's pool is open until a shutdown closes it.
Own == /\ pool \in {conn, None} /\ (pool # None => state[pool] = "open")
       /\ state[conn] # "new"
       /\ pool = None <=> disconnected /\ shutdown.stage = "done"

\* A disconnected adapter has a shutdown, which waits for all the queries there are.
Shut == /\ disconnected <=> promise # 0
        /\ disconnected => promise = shutdown.number /\ shutdown.stage # "none"
        /\ Waiting => disconnected
        /\ disconnected => Pending \subseteq shutdown.queries
        /\ shutdown.stage = "done" => shutdown.queries = {}

\* A reconnect that the last disconnect() has not overtaken waits for its shutdown.
Queued == /\ \A i \in 1 .. Len(queue) :
               /\ queue[i].gen <= generation
               /\ Waiting /\ queue[i].op = "reconnect" /\ queue[i].gen = generation
                    => queue[i].prev = shutdown.number
          /\ queue = <<>> => stage = "queued"

\* The transition under way, and the pool it works on.
Working ==
  /\ stage = "connect" => Op.op # "reconnect"
  /\ stage = "drain" => Op.op = "reconnect"
  /\ Op.op # "reconnect" /\ stage \in {"connect", "init", "initialized"} => next = conn
  /\ Op.op = "reconnect" /\ stage \in {"init", "initialized"} =>
       /\ next \in Pools \ {conn} /\ state[next] = "open"
       /\ Op.gen = generation => ~Waiting
  /\ stage = "initialized" => <<next, Target>> \in inited
  /\ stage = "drain" => drain.pool # conn

\* A query is on the adapter's connection, or on the one that is drained for it.
Served == \A q \in Pending :
  /\ state[qpool[q]] = "open"
  /\ qpool[q] = conn \/ (stage = "drain" /\ qpool[q] = drain.pool /\ q \in drain.queries)

Opened == \A p \in Pools : state[p] = "open" =>
  \/ p = pool
  \/ Op.op = "reconnect" /\ stage \in {"init", "initialized"} /\ p = next
  \/ stage = "drain" /\ p = drain.pool

Left == last = "disconnect" => /\ disconnected
                               /\ \A i \in 1 .. Len(queue) :
                                    queue[i].op = "reconnect" => queue[i].gen # generation

Inv == /\ Typed /\ Own /\ Shut /\ Queued /\ Working /\ Served /\ Opened /\ Left
       /\ TableReady

LEMMA InitInv == Init => Inv
<1> SUFFICES ASSUME Init PROVE Inv
  OBVIOUS
<1>1. 1 \in Pools /\ None \notin Pools
  BY BoundAssumption DEF Pools
<1>2. Typed
  <2>1. shutdown \in Closings /\ drain \in Drains
    BY DEF Init, NoShutdown, NoDrain, Closings, Drains
  <2>2. state \in [Pools -> {"new", "open", "ended"}] /\ queue \in Seq(Requests)
    BY DEF Init
  <2> QED BY <1>1, <2>1, <2>2 DEF Init, Typed, Stages
<1>3. Pending = {} /\ shutdown.stage = "none" /\ Len(queue) = 0
  BY DEF Init, Pending, NoShutdown
<1>4. Own /\ Shut /\ Queued
  BY <1>1, <1>3 DEF Init, Own, Shut, Queued, Waiting, NoShutdown
<1>5. Working /\ Served /\ Opened /\ Left /\ TableReady
  BY <1>1, <1>3 DEF Init, Working, Served, Opened, Left, TableReady
<1> QED BY <1>2, <1>4, <1>5 DEF Inv

-----------------------------------------------------------------------------
(* Queries. *)

LEMMA StartInv ==
  ASSUME Inv, NEW q \in Queries, Start(q)
  PROVE  Inv'
<1> USE DEF Inv
<1>1. /\ qstate' = [qstate EXCEPT ![q] = "waiting"] /\ qpool' = [qpool EXCEPT ![q] = conn]
      /\ ~disconnected /\ UNCHANGED <<poolVars, table, closeVars, opVars, timer, pastVars>>
  BY DEF Start
<1>2. Typed'
  BY <1>1 DEF Typed, poolVars, closeVars, opVars
<1>3. Own' /\ Queued' /\ Opened' /\ Left' /\ TableReady' /\ Working'
  BY <1>1 DEF Own, Queued, Opened, Left, TableReady, Working, Waiting, Op, Target, poolVars,
              closeVars, opVars, pastVars
<1>4. Shut'
  BY <1>1 DEF Shut, Waiting, closeVars
<1>5. Pending' \subseteq Pending \cup {q} /\ qpool'[q] = conn
      /\ \A r \in Queries \ {q} : qpool'[r] = qpool[r]
  BY <1>1 DEF Pending, Typed
<1>6. state[conn] = "open"
  BY <1>1 DEF Own
<1>7. Served'
  BY <1>1, <1>5, <1>6 DEF Served, Pending, poolVars, opVars
<1> QED BY <1>2, <1>3, <1>4, <1>7

LEMMA RunInv ==
  ASSUME Inv, NEW q \in Queries, Run(q)
  PROVE  Inv'
<1> USE DEF Inv
<1>1. /\ qstate' = [qstate EXCEPT ![q] = "running"] /\ qstate[q] = "waiting"
      /\ UNCHANGED <<poolVars, table, closeVars, opVars, qpool, timer, pastVars>>
  BY DEF Run
<1>2. Pending' = Pending
  BY <1>1 DEF Pending, Typed
<1>3. Typed'
  BY <1>1 DEF Typed, poolVars, closeVars, opVars
<1>4. Own' /\ Queued' /\ Opened' /\ Left' /\ TableReady' /\ Working'
  BY <1>1 DEF Own, Queued, Opened, Left, TableReady, Working, Waiting, Op, Target, poolVars,
              closeVars, opVars, pastVars
<1>5. Shut' /\ Served'
  BY <1>1, <1>2 DEF Shut, Served, Waiting, poolVars, closeVars, opVars
<1> QED BY <1>3, <1>4, <1>5

LEMMA SettleInv ==
  ASSUME Inv, NEW q \in Queries, Settle(q)
  PROVE  Inv'
<1> USE DEF Inv
<1>1. /\ qstate' = [qstate EXCEPT ![q] = "free"]
      /\ shutdown' = [shutdown EXCEPT !.queries = @ \ {q}]
      /\ drain' = [drain EXCEPT !.queries = @ \ {q}]
      /\ UNCHANGED <<poolVars, table, disconnected, generation, promise, queue,
                     stage, next, settled, qpool, timer, pastVars>>
  BY DEF Settle, Forget
<1>2. /\ shutdown'.stage = shutdown.stage /\ shutdown'.number = shutdown.number
      /\ shutdown'.queries = shutdown.queries \ {q} /\ shutdown' \in Closings
      /\ drain'.pool = drain.pool /\ drain'.queries = drain.queries \ {q} /\ drain' \in Drains
  BY <1>1 DEF Typed, Closings, Drains
<1>3. Pending' = Pending \ {q}
  BY <1>1 DEF Pending, Typed
<1>4. Typed'
  BY <1>1, <1>2 DEF Typed, poolVars
<1>5. Own' /\ Queued' /\ Opened' /\ Left' /\ TableReady' /\ Working'
  BY <1>1, <1>2 DEF Own, Queued, Opened, Left, TableReady, Working, Waiting, Op, Target,
                    poolVars, pastVars
<1>6. Shut' /\ Served'
  BY <1>1, <1>2, <1>3 DEF Shut, Served, Waiting, poolVars
<1> QED BY <1>4, <1>5, <1>6

LEMMA ConnectInv == Inv /\ Connect => Inv'
<1> SUFFICES ASSUME Inv, Connect PROVE Inv'
  OBVIOUS
<1> USE DEF Inv
<1>1. /\ UNCHANGED <<state, pool, conn, table, closeVars, opVars, queryVars, timer, pastVars>>
      /\ \/ link' = [link EXCEPT ![1] = "ready"] /\ inited' = inited \cup {<<1, table>>}
         \/ link' = [link EXCEPT ![1] = "failed"] /\ UNCHANGED inited
  BY DEF Connect
<1>2. 1 \in Pools
  BY BoundAssumption DEF Pools
<1>3. Typed'
  BY <1>1, <1>2 DEF Typed, closeVars, opVars, queryVars
<1>4. Own' /\ Shut' /\ Queued' /\ Served' /\ Opened' /\ Left' /\ Working'
  BY <1>1 DEF Own, Shut, Queued, Served, Opened, Left, Working, Waiting, Pending, Op, Target,
              closeVars, opVars, queryVars, pastVars
<1>5. TableReady'
  BY <1>1, <1>2 DEF TableReady, Typed
<1> QED BY <1>3, <1>4, <1>5

-----------------------------------------------------------------------------
(* disconnect() and requests. *)

LEMMA DisconnectInv == Inv /\ Disconnect => Inv'
<1> SUFFICES ASSUME Inv, Disconnect PROVE Inv'
  OBVIOUS
<1> USE DEF Inv
<1>1. /\ last' = IF disconnected THEN last ELSE "disconnect"
      /\ generation' = IF disconnected THEN generation ELSE generation + 1
      /\ disconnected' = TRUE
      /\ UNCHANGED <<state, pool, conn, link, inited, table, queue, stage, next, drain, settled,
                     qstate, qpool>>
  BY DEF Disconnect, poolVars, opVars, queryVars
<1>2. promise # 0 => UNCHANGED <<promise, shutdown>>
  BY DEF Disconnect
<1>3. promise = 0 => /\ promise' = shutdown.number + 1
                     /\ shutdown' = [number |-> shutdown.number + 1, stage |-> "waiting",
                                     queries |-> Pending, upto |-> Requested]
  BY DEF Disconnect, Waited, Upto
<1>4. Pending' = Pending /\ Pending \in SUBSET Queries /\ Requested \in Nat
      /\ shutdown.number \in Nat
  BY <1>1 DEF Pending, Requested, Typed, Closings
<1>5. Typed'
  <2>1. shutdown' \in Closings /\ promise' \in Nat
    BY <1>2, <1>3, <1>4 DEF Typed, Closings
  <2> QED BY <1>1, <2>1 DEF Typed
<1>6. CASE disconnected
  <2>1. UNCHANGED <<promise, shutdown, generation, last, disconnected>>
    BY <1>1, <1>2, <1>6 DEF Shut
  <2> QED BY <1>1, <1>4, <1>5, <2>1
          DEF Own, Shut, Queued, Working, Served, Opened, Left, TableReady, Waiting, Op, Target
<1>7. CASE ~disconnected
  <2>1. /\ promise = 0 /\ generation' = generation + 1 /\ last' = "disconnect"
        /\ promise' = shutdown.number + 1 /\ shutdown'.number = shutdown.number + 1
        /\ shutdown'.stage = "waiting" /\ shutdown'.queries = Pending
    BY <1>1, <1>3, <1>7 DEF Shut
  <2>2. Own'
    BY <1>1, <1>7, <2>1 DEF Own, Typed
  <2>3. Shut'
    BY <1>1, <1>4, <2>1 DEF Shut, Waiting
  <2>4. \A i \in 1 .. Len(queue) : queue[i].gen <= generation /\ queue[i].gen \in Nat
                                   /\ queue[i].gen # generation'
    <3>1. \A i \in 1 .. Len(queue) : queue[i] \in Requests
      BY DEF Typed
    <3>2. \A i \in 1 .. Len(queue) : queue[i].gen <= generation /\ queue[i].gen \in Nat
      BY <3>1 DEF Queued, Requests
    <3> QED BY <2>1, <3>2 DEF Typed
  <2>5. Queued' /\ Left'
    BY <1>1, <2>1, <2>4 DEF Queued, Left, Typed
  <2>6. Working'
    <3>1. queue # <<>> => Op.gen # generation'
      BY <2>4 DEF Op, Typed
    <3> QED BY <1>1, <3>1 DEF Working, Op, Target, Queued
  <2>7. Served' /\ Opened' /\ TableReady'
    BY <1>1, <1>4 DEF Served, Opened, TableReady, Op
  <2> QED BY <1>5, <2>2, <2>3, <2>5, <2>6, <2>7
<1> QED BY <1>6, <1>7 DEF Typed

LEMMA ShutdownInv == Inv /\ Shutdown => Inv'
<1> SUFFICES ASSUME Inv, Shutdown PROVE Inv'
  OBVIOUS
<1> USE DEF Inv
<1>1. /\ Waiting /\ shutdown.queries = {} /\ shutdown' = [shutdown EXCEPT !.stage = "done"]
      /\ state' = [p \in Pools |-> IF p = pool THEN "ended" ELSE state[p]] /\ pool' = None
      /\ UNCHANGED <<conn, link, inited, table, disconnected, generation, promise, queue, stage,
                     next, drain, settled, qstate, qpool, last>>
  BY DEF Shutdown, Waiting, opVars, queryVars, pastVars
<1>2. /\ shutdown'.stage = "done" /\ shutdown'.number = shutdown.number
      /\ shutdown'.queries = {} /\ shutdown' \in Closings
  BY <1>1 DEF Typed, Closings
<1>3. disconnected /\ Pending = {} /\ Pending' = {} /\ pool = conn
  BY <1>1, BoundAssumption DEF Shut, Own, Pending, Waiting
<1>4. Typed'
  BY <1>1, <1>2 DEF Typed
<1>5. Own' /\ Shut' /\ Queued' /\ Served' /\ Left' /\ TableReady'
  BY <1>1, <1>2, <1>3, BoundAssumption
     DEF Own, Shut, Queued, Served, Left, TableReady, Waiting, Typed, Pools
<1>6. Working'
  BY <1>1, <1>2, <1>3 DEF Working, Op, Target, Waiting, Typed
<1>7. Opened'
  BY <1>1, <1>3 DEF Opened, Op
<1> QED BY <1>4, <1>5, <1>6, <1>7

LEMMA RequestInv == Inv /\ Request => Inv'
<1> SUFFICES ASSUME Inv, Request PROVE Inv'
  OBVIOUS
<1> USE DEF Inv
<1>1. PICK op \in OpKinds, t \in Tables :
        /\ queue' = Append(queue, [op |-> op, table |-> t, gen |-> generation, prev |-> promise])
        /\ last' = IF op = "reconnect" THEN op ELSE last
  BY DEF Request
<1>2. UNCHANGED <<state, pool, conn, link, inited, table, disconnected, generation, promise,
                  shutdown, stage, next, drain, settled, qstate, qpool>>
  BY DEF Request, poolVars, closeVars, queryVars
<1> DEFINE r == [op |-> op, table |-> t, gen |-> generation, prev |-> promise]
<1>3. r \in Requests
  BY DEF Typed, Requests
<1>4. /\ queue' \in Seq(Requests) /\ Len(queue') = Len(queue) + 1 /\ queue' # <<>>
      /\ \A i \in 1 .. Len(queue) : queue'[i] = queue[i]
      /\ queue'[Len(queue) + 1] = r
  BY <1>1, <1>3 DEF Typed
<1>5. Pending' = Pending
  BY <1>2 DEF Pending
<1>6. Typed'
  BY <1>2, <1>4 DEF Typed
<1>7. Own' /\ Shut' /\ Served' /\ TableReady'
  BY <1>2, <1>5 DEF Own, Shut, Served, TableReady, Waiting
<1>8. \A i \in 1 .. Len(queue') : i \in 1 .. Len(queue) \/ i = Len(queue) + 1
  BY <1>4 DEF Typed
<1>9. Queued'
  <2>1. r.gen = generation /\ r.prev = promise /\ (Waiting => promise = shutdown.number)
    BY DEF Shut
  <2>2. \A i \in 1 .. Len(queue') :
          /\ queue'[i].gen <= generation
          /\ Waiting /\ queue'[i].op = "reconnect" /\ queue'[i].gen = generation
               => queue'[i].prev = shutdown.number
    BY <1>4, <1>8, <2>1 DEF Queued, Typed
  <2> HIDE DEF r
  <2> QED BY <1>2, <1>4, <2>2 DEF Queued, Waiting
<1>10. Left'
  BY <1>1, <1>2, <1>4, <1>8 DEF Left
<1>11. CASE queue = <<>>
  <2>1. stage = "queued"
    BY <1>11 DEF Queued
  <2> QED BY <1>2, <1>6, <1>7, <1>9, <1>10, <2>1 DEF Working, Opened
<1>12. CASE queue # <<>>
  <2>1. Op' = Op
    BY <1>4, <1>12 DEF Op, Typed
  <2> QED BY <1>2, <1>6, <1>7, <1>9, <1>10, <2>1 DEF Working, Opened, Target, Waiting
<1> QED BY <1>11, <1>12

-----------------------------------------------------------------------------
(* Transitions. *)

\* A transition that is over leaves the others as they were.
LEMMA FinishQueue ==
  ASSUME Inv, Finish, stage # "queued" \/ queue # <<>>,
         UNCHANGED <<disconnected, generation, promise, shutdown, last>>
  PROVE  /\ queue' \in Seq(Requests) /\ settled' \in Nat /\ stage' \in Stages
         /\ next' \in Pools \cup {None} /\ drain' \in Drains
         /\ Queued' /\ Left' /\ Working'
<1> USE DEF Inv
<1>1. queue # <<>> /\ queue \in Seq(Requests) /\ queue' = Tail(queue)
  BY DEF Queued, Finish, Typed
<1>2. /\ queue' \in Seq(Requests) /\ Len(queue') = Len(queue) - 1
      /\ \A i \in 1 .. Len(queue') : i + 1 \in 1 .. Len(queue) /\ queue'[i] = queue[i + 1]
  BY <1>1
<1>3. settled' \in Nat /\ stage' = "queued" /\ next' = None /\ drain' \in Drains
  BY DEF Finish, Typed, NoDrain, Drains
<1>4. Queued'
  BY <1>2, <1>3 DEF Queued, Waiting
<1>5. Left'
  BY <1>2 DEF Left
<1> QED BY <1>2, <1>3, <1>4, <1>5 DEF Stages, Working

LEMMA OpenInv == Inv /\ Open => Inv'
<1> SUFFICES ASSUME Inv, Open PROVE Inv'
  OBVIOUS
<1> USE DEF Inv
<1> DEFINE p == CHOOSE p \in Fresh : TRUE
<1>1. /\ queue # <<>> /\ Op.op = "reconnect" /\ Resolved(Op.prev) /\ Fresh # {}
      /\ next' = p /\ state' = [state EXCEPT ![p] = "open"] /\ stage' = "init"
      /\ UNCHANGED <<pool, conn, link, inited, table, disconnected, generation, promise,
                     shutdown, queue, drain, settled, qstate, qpool, last>>
  BY DEF Open, closeVars, queryVars, pastVars
<1>2. p \in Pools /\ state[p] = "new"
  BY <1>1 DEF Fresh
<1> HIDE DEF p
<1>3. state'[p] = "open" /\ \A r \in Pools \ {p} : state'[r] = state[r]
  BY <1>1, <1>2 DEF Typed
<1>4. Typed'
  BY <1>1, <1>2 DEF Typed, Stages
<1>5. Pending' = Pending /\ Op' = Op /\ stage = "queued"
  BY <1>1 DEF Pending, Op, Open
<1>6. Shut' /\ Queued' /\ Left' /\ TableReady'
  BY <1>1, <1>5 DEF Shut, Queued, Left, TableReady, Waiting
<1>7. Own' /\ Served' /\ Opened'
  <2>1. Own'
    BY <1>1, <1>2, <1>3, BoundAssumption DEF Own, Typed, Pools
  <2>2. Served'
    BY <1>1, <1>2, <1>3, <1>5 DEF Served, Pending, Typed
  <2>3. Opened'
    BY <1>1, <1>2, <1>3, <1>5 DEF Opened
  <2> QED BY <2>1, <2>2, <2>3
<1>8. Op.gen = generation => ~Waiting
  <2> SUFFICES ASSUME Op.gen = generation, Waiting PROVE FALSE
    OBVIOUS
  <2>1. Op = queue[1] /\ 1 \in 1 .. Len(queue)
    BY <1>1 DEF Op, Typed
  <2>2. Op.prev = shutdown.number
    BY <1>1, <2>1 DEF Queued
  <2>3. shutdown.number # 0 /\ shutdown.stage # "done" /\ shutdown.number \in Nat
    BY DEF Shut, Waiting, Typed, Closings
  <2> QED BY <1>1, <2>2, <2>3 DEF Resolved
<1>9. p # conn
  <2>1. state[conn] # "new"
    BY DEF Own
  <2> QED BY <1>2, <2>1
<1>10. Working'
  BY <1>1, <1>2, <1>3, <1>5, <1>8, <1>9 DEF Working, Waiting
<1> QED BY <1>4, <1>6, <1>7, <1>10

LEMMA RefuseInv == Inv /\ Refuse => Inv'
<1> SUFFICES ASSUME Inv, Refuse PROVE Inv'
  OBVIOUS
<1> USE DEF Inv
<1>1. /\ queue # <<>> /\ stage = "queued" /\ Finish
      /\ UNCHANGED <<state, pool, conn, link, inited, table, disconnected, generation, promise,
                     shutdown, qstate, qpool, last>>
  BY DEF Refuse, poolVars, closeVars, queryVars, pastVars
<1>2. /\ queue' \in Seq(Requests) /\ settled' \in Nat /\ stage' \in Stages
      /\ next' \in Pools \cup {None} /\ drain' \in Drains
      /\ Queued' /\ Left' /\ Working'
  BY <1>1, FinishQueue
<1>3. Typed'
  BY <1>1, <1>2 DEF Typed
<1>4. Own' /\ Shut' /\ Served' /\ Opened' /\ TableReady'
  BY <1>1 DEF Own, Shut, Served, Opened, TableReady, Pending, Waiting
<1> QED BY <1>2, <1>3, <1>4

LEMMA PrepareInv == Inv /\ Prepare => Inv'
<1> SUFFICES ASSUME Inv, Prepare PROVE Inv'
  OBVIOUS
<1> USE DEF Inv
<1>1. /\ queue # <<>> /\ stage = "queued" /\ Op.op # "reconnect"
      /\ queue' = [queue EXCEPT ![1].gen = generation] /\ next' = conn /\ stage' = "connect"
      /\ UNCHANGED <<state, pool, conn, link, inited, table, disconnected, generation, promise,
                     shutdown, drain, settled, qstate, qpool, last>>
  BY DEF Prepare, poolVars, closeVars, queryVars, pastVars
<1>2. 1 \in 1 .. Len(queue) /\ queue[1] \in Requests /\ Op = queue[1]
  BY <1>1 DEF Typed, Op
<1> DEFINE r == [queue[1] EXCEPT !.gen = generation]
<1>3. r \in Requests /\ r.op = Op.op /\ r.gen = generation
  BY <1>2 DEF Requests, Typed
<1>4. queue' = [queue EXCEPT ![1] = r]
  BY <1>1
<1> HIDE DEF r
<1>5. /\ queue' \in Seq(Requests) /\ Len(queue') = Len(queue) /\ queue'[1] = r
      /\ \A i \in 1 .. Len(queue) : i # 1 => queue'[i] = queue[i]
  BY <1>2, <1>3, <1>4 DEF Typed
<1>6. Op' = r /\ queue' # <<>>
  BY <1>2, <1>5 DEF Op
<1>7. Typed'
  BY <1>1, <1>5 DEF Typed, Stages
<1>8. Queued'
  <2>1. generation <= generation
    BY DEF Typed
  <2>2. \A i \in 1 .. Len(queue) :
          /\ queue'[i].gen <= generation
          /\ Waiting /\ queue'[i].op = "reconnect" /\ queue'[i].gen = generation
               => queue'[i].prev = shutdown.number
    BY <1>1, <1>3, <1>5, <2>1 DEF Queued
  <2> QED BY <1>1, <1>5, <1>6, <2>2 DEF Queued, Waiting
<1>9. Left'
  BY <1>1, <1>3, <1>5 DEF Left
<1>10. Working'
  BY <1>1, <1>3, <1>6 DEF Working
<1>11. Own' /\ Shut' /\ Served' /\ Opened' /\ TableReady'
  BY <1>1 DEF Own, Shut, Served, Opened, TableReady, Pending, Waiting
<1> QED BY <1>7, <1>8, <1>9, <1>10, <1>11

LEMMA ProceedInv == Inv /\ Proceed => Inv'
<1> SUFFICES ASSUME Inv, Proceed PROVE Inv'
  OBVIOUS
<1> USE DEF Inv
<1>1. /\ stage = "connect"
      /\ UNCHANGED <<state, pool, conn, link, inited, table, disconnected, generation, promise,
                     shutdown, qstate, qpool, last>>
  BY DEF Proceed, poolVars, closeVars, queryVars, pastVars
<1>2. Own' /\ Shut' /\ TableReady'
  BY <1>1 DEF Own, Shut, TableReady, Pending, Waiting
<1>3. CASE stage' = "init" /\ UNCHANGED <<queue, next, drain, settled>>
  <2>1. Op' = Op /\ Op.op # "reconnect"
    BY <1>1, <1>3 DEF Op, Working
  <2>2. queue # <<>>
    BY <1>1 DEF Queued
  <2>3. Typed' /\ Queued' /\ Left'
    BY <1>1, <1>3, <2>2 DEF Typed, Stages, Queued, Left, Waiting
  <2>4. Working' /\ Served' /\ Opened'
    BY <1>1, <1>3, <2>1 DEF Working, Served, Opened, Pending
  <2> QED BY <1>2, <2>3, <2>4
<1>4. CASE Finish
  <2>1. /\ queue' \in Seq(Requests) /\ settled' \in Nat /\ stage' \in Stages
        /\ next' \in Pools \cup {None} /\ drain' \in Drains
        /\ Queued' /\ Left' /\ Working'
    BY <1>1, <1>4, FinishQueue
  <2>2. Typed'
    BY <1>1, <2>1 DEF Typed
  <2>3. Served' /\ Opened'
    BY <1>1 DEF Served, Opened, Pending
  <2> QED BY <1>2, <2>1, <2>2, <2>3
<1> QED BY <1>3, <1>4 DEF Proceed

LEMMA InitializeInv == Inv /\ Initialize => Inv'
<1> SUFFICES ASSUME Inv, Initialize PROVE Inv'
  OBVIOUS
<1> USE DEF Inv
<1>1. /\ stage = "init" /\ inited' = inited \cup {<<next, Target>>} /\ stage' = "initialized"
      /\ UNCHANGED <<state, pool, conn, link, table, disconnected, generation, promise,
                     shutdown, queue, next, drain, settled, qstate, qpool, last>>
  BY DEF Initialize, closeVars, queryVars, pastVars
<1>2. queue # <<>> /\ Op' = Op /\ Target' = Target
  BY <1>1 DEF Queued, Op, Target
<1>3. Typed' /\ Queued' /\ Left'
  BY <1>1, <1>2 DEF Typed, Stages, Queued, Left, Waiting
<1>4. Own' /\ Shut' /\ TableReady'
  BY <1>1 DEF Own, Shut, TableReady, Pending, Waiting
<1>5. Working' /\ Served' /\ Opened'
  BY <1>1, <1>2 DEF Working, Served, Opened, Pending, Waiting
<1> QED BY <1>3, <1>4, <1>5

\* A transition that does not get through closes the pool it has opened.
LEMMA AbandonInv ==
  ASSUME Inv, Abandon, Finish, stage \in {"init", "initialized"},
         UNCHANGED <<pool, conn, link, inited, table, closeVars, queryVars, timer, pastVars>>
  PROVE  Inv'
<1> USE DEF Inv
<1>1. UNCHANGED <<pool, conn, link, inited, table, disconnected, generation, promise, shutdown,
                  qstate, qpool, last>>
  BY DEF closeVars, queryVars, pastVars
<1>2. /\ queue' \in Seq(Requests) /\ settled' \in Nat /\ stage' \in Stages
      /\ next' \in Pools \cup {None} /\ drain' \in Drains
      /\ Queued' /\ Left' /\ Working'
  BY <1>1, FinishQueue
<1>3. /\ state' \in [Pools -> {"new", "open", "ended"}]
      /\ \A p \in Pools : state'[p] = IF Op.op = "reconnect" /\ p = next
                                      THEN "ended" ELSE state[p]
  BY DEF Abandon, Typed
<1>4. Op.op = "reconnect" => next # conn
  BY DEF Working
<1>5. Typed'
  BY <1>1, <1>2, <1>3 DEF Typed
<1>6. Own'
  BY <1>1, <1>3, <1>4, BoundAssumption DEF Own, Typed, Pools
<1>7. Shut' /\ TableReady'
  BY <1>1 DEF Shut, TableReady, Pending, Waiting
<1>8. Served'
  BY <1>1, <1>3, <1>4 DEF Served, Pending, Typed
<1>9. Opened'
  BY <1>1, <1>3 DEF Opened, Typed
<1> QED BY <1>2, <1>5, <1>6, <1>7, <1>8, <1>9

LEMMA ChangeTableInv == Inv /\ ChangeTable => Inv'
<1> SUFFICES ASSUME Inv, ChangeTable PROVE Inv'
  OBVIOUS
<1> USE DEF Inv
<1>1. /\ stage = "initialized" /\ Op.op # "reconnect" /\ Finish
      /\ table' = IF Op.op = "useTable" THEN Op.table ELSE table
      /\ UNCHANGED <<state, pool, conn, link, inited, disconnected, generation, promise,
                     shutdown, qstate, qpool, last>>
  BY DEF ChangeTable, poolVars, closeVars, queryVars, pastVars
<1>2. /\ queue' \in Seq(Requests) /\ settled' \in Nat /\ stage' \in Stages
      /\ next' \in Pools \cup {None} /\ drain' \in Drains
      /\ Queued' /\ Left' /\ Working'
  BY <1>1, FinishQueue
<1>3. table' \in Tables
  <2>1. Op \in Requests
    <3>1. 1 \in 1 .. Len(queue) /\ queue \in Seq(Requests)
      BY <1>1 DEF Queued, Typed
    <3>2. Op = queue[1]
      BY DEF Op
    <3> QED BY <3>1, <3>2
  <2> QED BY <1>1, <2>1 DEF Requests, Typed
<1>4. Typed'
  BY <1>1, <1>2, <1>3 DEF Typed
<1>5. Own' /\ Shut' /\ Served' /\ Opened'
  BY <1>1 DEF Own, Shut, Served, Opened, Pending, Waiting
<1>6. TableReady'
  <2>1. <<conn, table'>> \in inited
    BY <1>1 DEF Working, Target
  <2> QED BY <1>1, <2>1 DEF TableReady
<1> QED BY <1>2, <1>4, <1>5, <1>6

LEMMA SwitchInv == Inv /\ Switch => Inv'
<1> SUFFICES ASSUME Inv, Switch PROVE Inv'
  OBVIOUS
<1> USE DEF Inv
<1>1. /\ stage = "initialized" /\ Op.op = "reconnect" /\ Op.gen = generation
      /\ pool' = next /\ conn' = next /\ link' = [link EXCEPT ![next] = "ready"]
      /\ disconnected' = FALSE /\ promise' = 0
      /\ drain' = [pool |-> pool, queries |-> Pending] /\ stage' = "drain"
      /\ UNCHANGED <<state, inited, table, generation, shutdown, queue, next,
                     settled, qstate, qpool, last>>
  BY DEF Switch, Interrupted, Waited, queryVars, pastVars
<1>2. next \in Pools \ {conn} /\ state[next] = "open" /\ ~Waiting /\ <<next, table>> \in inited
  BY <1>1 DEF Working, Target
<1>3. queue # <<>> /\ Op' = Op /\ Pending' = Pending /\ drain' \in Drains
  BY <1>1 DEF Queued, Op, Pending, Drains, Typed
<1>4. Typed'
  BY <1>1, <1>2, <1>3 DEF Typed, Stages
<1>5. Own' /\ Shut'
  BY <1>1, <1>2, BoundAssumption DEF Own, Shut, Waiting, Pools
<1>6. Queued'
  BY <1>1, <1>2, <1>3 DEF Queued, Waiting
<1>7. Left'
  <2>1. Op = queue[1] /\ 1 \in 1 .. Len(queue)
    BY <1>3 DEF Op, Typed
  <2>2. last # "disconnect"
    BY <1>1, <2>1 DEF Left
  <2> QED BY <1>1, <2>2 DEF Left
<1>8. Working'
  BY <1>1, <1>2, <1>3, BoundAssumption DEF Working, Own, Pools
<1>9. Served'
  <2>1. Pending # {} => pool = conn
    BY DEF Own, Shut
  <2>2. \A q \in Pending : qpool[q] = conn /\ state[qpool[q]] = "open"
    BY <1>1 DEF Served
  <2> QED BY <1>1, <1>3, <2>1, <2>2 DEF Served
<1>10. Opened'
  BY <1>1 DEF Opened
<1>11. TableReady'
  BY <1>1, <1>2 DEF TableReady
<1> QED BY <1>4, <1>5, <1>6, <1>7, <1>8, <1>9, <1>10, <1>11

LEMMA DrainedInv == Inv /\ Drained => Inv'
<1> SUFFICES ASSUME Inv, Drained PROVE Inv'
  OBVIOUS
<1> USE DEF Inv
<1>1. /\ stage = "drain" /\ drain.queries = {} /\ Finish
      /\ state' = [p \in Pools |-> IF p = drain.pool THEN "ended" ELSE state[p]]
      /\ UNCHANGED <<pool, conn, link, inited, table, disconnected, generation, promise,
                     shutdown, qstate, qpool, last>>
  BY DEF Drained, closeVars, queryVars, pastVars
<1>2. /\ queue' \in Seq(Requests) /\ settled' \in Nat /\ stage' \in Stages
      /\ next' \in Pools \cup {None} /\ drain' \in Drains
      /\ Queued' /\ Left' /\ Working'
  BY <1>1, FinishQueue
<1>3. drain.pool # conn
  BY <1>1 DEF Working
<1>4. Typed'
  BY <1>1, <1>2 DEF Typed
<1>5. Own'
  BY <1>1, <1>3, BoundAssumption DEF Own, Typed, Pools
<1>6. Shut' /\ TableReady'
  BY <1>1 DEF Shut, TableReady, Pending, Waiting
<1>7. Served' /\ Opened'
  BY <1>1, <1>3 DEF Served, Opened, Pending, Typed
<1> QED BY <1>2, <1>4, <1>5, <1>6, <1>7

LEMMA StepInv == Inv /\ [Next]_vars => Inv'
<1> SUFFICES ASSUME Inv, [Next]_vars PROVE Inv'
  OBVIOUS
<1>1. CASE SetInterval \/ UNCHANGED vars
  <2>1. UNCHANGED <<state, pool, conn, link, inited, table, disconnected, generation, promise,
                    shutdown, queue, stage, next, drain, settled, qstate, qpool, last>>
    BY <1>1 DEF SetInterval, vars, poolVars, closeVars, opVars, queryVars, pastVars
  <2> QED BY <2>1 DEF Inv, Typed, Own, Shut, Queued, Working, Served, Opened, Left, TableReady,
                      Waiting, Pending, Op, Target
<1>2. CASE InitializeFails \/ Interrupt
  BY <1>2, AbandonInv DEF InitializeFails, Interrupt
<1> QED BY <1>1, <1>2, StartInv, RunInv, SettleInv, ConnectInv, DisconnectInv, ShutdownInv,
           RequestInv, OpenInv, RefuseInv, PrepareInv, ProceedInv, InitializeInv,
           ChangeTableInv, SwitchInv, DrainedInv
        DEF Next, Transition

-----------------------------------------------------------------------------

\* Neither disconnect() nor reconnect() closes a pool that a query is running
\* on or waiting for, for any queries and any order of the calls.
THEOREM QueriesKeepTheirPools == Spec => []PoolsOutliveQueries
<1>1. Inv => PoolsOutliveQueries
  BY DEF Inv, Served, Pending, PoolsOutliveQueries
<1> QED BY <1>1, InitInv, StepInv, PTL DEF Spec

\* With nothing under way, the adapter's own pool is the only open one, and
\* none is when it is disconnected.
THEOREM PoolsAreClosed == Spec => []NoPoolLeaks
<1>1. Inv => NoPoolLeaks
  <2> SUFFICES ASSUME Inv, queue = <<>>, ~Waiting
               PROVE  {p \in Pools : state[p] = "open"} = IF disconnected THEN {} ELSE {pool}
    BY DEF NoPoolLeaks, Waiting
  <2>1. \A p \in Pools : state[p] = "open" => p = pool
    BY DEF Inv, Queued, Opened
  <2>2. None \notin Pools
    BY BoundAssumption DEF Pools
  <2>3. disconnected => pool = None
    BY DEF Inv, Own, Shut, Waiting, Typed, Closings
  <2>4. ~disconnected => pool \in Pools /\ state[pool] = "open"
    BY DEF Inv, Own, Typed
  <2> QED BY <2>1, <2>2, <2>3, <2>4
<1> QED BY <1>1, InitInv, StepInv, PTL DEF Spec

\* On the live connection the live table has been created or migrated.
THEOREM TablesAreReady == Spec => []TableReady
<1>1. Inv => TableReady
  BY DEF Inv
<1> QED BY <1>1, InitInv, StepInv, PTL DEF Spec

\* A disconnect() that is called after the last reconnect() prevails.
THEOREM DisconnectPrevails == Spec => []DisconnectSticks
<1>1. Inv => DisconnectSticks
  BY DEF Inv, Left, DisconnectSticks
<1> QED BY <1>1, InitInv, StepInv, PTL DEF Spec
=============================================================================
