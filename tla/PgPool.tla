------------------------------- MODULE PgPool -------------------------------
(***************************************************************************)
(* The pool manager of the postgres adapter (storage/postgres/src/pool.ts) *)
(* and the adapters that get their pg.Pool from it.  The manager keeps one *)
(* pool per URI and configuration, here a Config.                          *)
(*                                                                         *)
(* pg.Pool is a library: end() refuses to be called twice, lets the        *)
(* queries in flight finish, and makes every later query fail.             *)
(***************************************************************************)
EXTENDS Integers, FiniteSets

CONSTANTS
  Adapters, Configs,
  NoPool,
  EndsAll,      \* endAllPools() is called, too
  SwitchesUri,  \* the uri and ssl options are assigned after construction
  MaxPools      \* bound: pools created

ASSUME BoundAssumption == MaxPools \in Nat /\ NoPool \notin 1 .. MaxPools
ASSUME ConfigAssumption == Configs # {}
ASSUME FlagAssumption  == {EndsAll, SwitchesUri} \subseteq BOOLEAN

VARIABLES
  pools,    \* the manager's map: Config -> pool
  state,    \* of each pool: "new", "open", "ending", "ended"
  home,     \* the configuration each pool was created for
  place,    \* of each adapter: "none", "up", "leaving", "down", or "broken", when
            \* disconnect() rejected because somebody else had ended the pool
  config,   \* the adapter's _uri, _poolConfig and ssl
  conn,     \* the pool its query function holds on to
  busy,     \* the adapters with a query in flight
  waits,    \* the pool whose end() the adapter's disconnect() awaits
  sweep,    \* the pools endAllPools() awaits; {} when it is not running
  overlap   \* history: endAllPools() has met a pool that was being ended, or
            \* a pool was made while it was waiting

vars == <<pools, state, home, place, config, conn, busy, waits, sweep, overlap>>

Pools  == 1 .. MaxPools
Fresh  == {p \in Pools : state[p] = "new"}

-----------------------------------------------------------------------------
\* A variant of Cached that will not hand out a pool that is being ended.
Cached_SkipsEnding(f) ==
  IF pools[f] # NoPool /\ state[pools[f]] = "open" THEN pools[f] ELSE NoPool

\* The manager's answer to pools.get(key).
Cached(f) == pools[f]

\* getPool(), called while the constructor runs: the cached pool, whatever
\* its state, or a new one.
Construct(a) ==
  /\ place[a] \in {"none", "down", "broken"} /\ a \notin busy
  /\ \E f \in Configs :
       /\ config' = [config EXCEPT ![a] = f]
       /\ IF Cached(f) # NoPool
          THEN /\ conn' = [conn EXCEPT ![a] = Cached(f)]
               /\ UNCHANGED <<pools, state, home, overlap>>
          ELSE /\ Fresh # {}
               /\ LET p == CHOOSE p \in Fresh : TRUE IN
                  /\ pools' = [pools EXCEPT ![f] = p]
                  /\ state' = [state EXCEPT ![p] = "open"]
                  /\ home'  = [home EXCEPT ![p] = f]
                  /\ conn'  = [conn EXCEPT ![a] = p]
                  /\ overlap' = (overlap \/ sweep # {})
  /\ place' = [place EXCEPT ![a] = "up"]
  /\ waits' = [waits EXCEPT ![a] = NoPool]
  /\ UNCHANGED <<busy, sweep>>

\* The uri and ssl setters: the adapter keeps the pool it has.
Switch(a) ==
  /\ SwitchesUri
  /\ place[a] = "up"
  /\ \E f \in Configs : config' = [config EXCEPT ![a] = f]
  /\ UNCHANGED <<pools, state, home, place, conn, busy, waits, sweep, overlap>>

\* conn.query(): it fails at once unless the pool is open.
Query(a) ==
  /\ place[a] \in {"up", "leaving", "down"} /\ a \notin busy
  /\ state[conn[a]] = "open"
  /\ busy' = busy \cup {a}
  /\ UNCHANGED <<pools, state, home, place, config, conn, waits, sweep, overlap>>

Answer(a) ==
  /\ a \in busy
  /\ busy' = busy \ {a}
  /\ UNCHANGED <<pools, state, home, place, config, conn, waits, sweep, overlap>>

\* disconnect(): endPool() looks the pool up by the present configuration and
\* calls its end(), which throws when it was called before.
Disconnect(a) ==
  /\ place[a] = "up"
  /\ LET p == pools[config[a]] IN
     IF p = NoPool
     THEN place' = [place EXCEPT ![a] = "down"] /\ UNCHANGED <<state, waits>>
     ELSE IF state[p] # "open"
     THEN place' = [place EXCEPT ![a] = "broken"] /\ UNCHANGED <<state, waits>>
     ELSE /\ place' = [place EXCEPT ![a] = "leaving"]
          /\ state' = [state EXCEPT ![p] = "ending"]
          /\ waits' = [waits EXCEPT ![a] = p]
  /\ UNCHANGED <<pools, home, config, conn, busy, sweep, overlap>>

\* The library closes the last connection of an ending pool.
End(p) ==
  /\ state[p] = "ending"
  /\ \A a \in busy : conn[a] # p
  /\ state' = [state EXCEPT ![p] = "ended"]
  /\ UNCHANGED <<pools, home, place, config, conn, busy, waits, sweep, overlap>>

\* pools.delete(key).
Forget(f) == [pools EXCEPT ![f] = NoPool]

\* Variants of Disconnected: one that does not wait for end(), and one that
\* only goes on while its pool is in the map.
Disconnected_Early(a) ==
  /\ place[a] = "leaving"
  /\ pools' = Forget(home[waits[a]])
  /\ place' = [place EXCEPT ![a] = "down"]
  /\ waits' = [waits EXCEPT ![a] = NoPool]
  /\ UNCHANGED <<state, home, config, conn, busy, sweep, overlap>>
Disconnected_IfCached(a) ==
  /\ place[a] = "leaving"
  /\ state[waits[a]] = "ended" /\ pools[home[waits[a]]] = waits[a]
  /\ pools' = Forget(home[waits[a]])
  /\ place' = [place EXCEPT ![a] = "down"]
  /\ waits' = [waits EXCEPT ![a] = NoPool]
  /\ UNCHANGED <<state, home, config, conn, busy, sweep, overlap>>

\* endPool() goes on after its await.
Disconnected(a) ==
  /\ place[a] = "leaving"
  /\ state[waits[a]] = "ended"
  /\ pools' = Forget(home[waits[a]])
  /\ place' = [place EXCEPT ![a] = "down"]
  /\ waits' = [waits EXCEPT ![a] = NoPool]
  /\ UNCHANGED <<state, home, config, conn, busy, sweep, overlap>>

Registered == {p \in Pools : \E f \in Configs : pools[f] = p}

\* endAllPools() calls end() on every pool.  One that is ending already makes
\* Promise.all reject: the others end, and the map is not cleared.
EndAll ==
  /\ EndsAll
  /\ sweep = {} /\ Registered # {}
  /\ state' = [p \in Pools |-> IF p \in Registered /\ state[p] = "open"
                               THEN "ending" ELSE state[p]]
  /\ IF \A p \in Registered : state[p] = "open"
     THEN sweep' = Registered /\ UNCHANGED overlap
     ELSE sweep' = {} /\ overlap' = TRUE
  /\ UNCHANGED <<pools, home, place, config, conn, busy, waits>>

\* ... and clears the map when the last one has ended.
EndedAll ==
  /\ sweep # {}
  /\ \A p \in sweep : state[p] = "ended"
  /\ pools' = [f \in Configs |-> NoPool]
  /\ sweep' = {}
  /\ UNCHANGED <<state, home, place, config, conn, busy, waits, overlap>>

-----------------------------------------------------------------------------
Init ==
  /\ pools  = [f \in Configs |-> NoPool]
  /\ state  = [p \in Pools |-> "new"]
  /\ home   \in [Pools -> {CHOOSE f \in Configs : TRUE}]
  /\ place  = [a \in Adapters |-> "none"]
  /\ config \in [Adapters -> {CHOOSE f \in Configs : TRUE}]
  /\ conn   = [a \in Adapters |-> NoPool]
  /\ busy   = {}
  /\ waits  = [a \in Adapters |-> NoPool]
  /\ sweep  = {}
  /\ overlap = FALSE

Step(a) == \/ Construct(a) \/ Switch(a) \/ Query(a) \/ Answer(a)
           \/ Disconnect(a) \/ Disconnected(a)

Next == (\E a \in Adapters : Step(a)) \/ (\E p \in Pools : End(p))
          \/ EndAll \/ EndedAll

Spec == Init /\ [][Next]_vars

\* Queries in flight are answered, an ending pool closes its connections, and
\* promise continuations run.
FairSpec == /\ Spec
            /\ \A a \in Adapters : WF_vars(Answer(a)) /\ WF_vars(Disconnected(a))
            /\ \A p \in Pools : WF_vars(End(p))
            /\ WF_vars(EndedAll)

-----------------------------------------------------------------------------

\* A pool that is open is in the map: adapters with its configuration share
\* it, and it can still be ended (pool.ts:24-25: "multiple adapter instances
\* connecting to the same database with the same configuration reuse a single
\* pg.Pool").  This and what rests on it is lost once endAllPools() overlaps:
\* its clear() drops a pool made meanwhile.
NoOpenOrphan ==
  ~overlap => \A p \in Pools : state[p] = "open" => pools[home[p]] = p

\* An adapter that has not been disconnected has a pool that works.
PoolLivesWithAdapter ==
  \A a \in Adapters : place[a] = "up" => state[conn[a]] = "open"

\* disconnect() "resolves once the pool has been closed" (index.ts:613): an
\* adapter that is down has no open pool left.  When its uri was changed and
\* not changed back, disconnect() looks for another pool and its own may stay.
DisconnectCloses ==
  ~overlap => \A a \in Adapters :
    place[a] = "down" /\ config[a] = home[conn[a]] => state[conn[a]] = "ended"

\* disconnect() settles, even when endAllPools() empties the map under it.
DisconnectSettles ==
  \A a \in Adapters : place[a] = "leaving" ~> place[a] # "leaving"
=============================================================================
