----------------------------- MODULE PgPoolProofs -----------------------------
(***************************************************************************)
(* While endAllPools() does not overlap with another end() or with a new   *)
(* pool, the pool manager's map holds every pool that is not ended, and an *)
(* adapter that is down has none left, for any adapters and configurations.*)
(***************************************************************************)
EXTENDS PgPool, TLAPS

Typed == /\ pools \in [Configs -> Pools \cup {NoPool}]
         /\ state \in [Pools -> {"new", "open", "ending", "ended"}]
         /\ home \in [Pools -> Configs] /\ config \in [Adapters -> Configs]
         /\ place \in [Adapters -> {"none", "up", "leaving", "down", "broken"}]
         /\ conn \in [Adapters -> Pools \cup {NoPool}]
         /\ waits \in [Adapters -> Pools \cup {NoPool}]
         /\ sweep \subseteq Pools

\* A pool in the map is there under the configuration it was made for, an
\* adapter once connected has a pool, and what is waited for has been told to end.
Linked ==
  /\ \A f \in Configs : pools[f] # NoPool =>
       home[pools[f]] = f /\ state[pools[f]] # "new"
  /\ \A a \in Adapters : place[a] # "none" => conn[a] \in Pools /\ state[conn[a]] # "new"
  /\ \A a \in Adapters : place[a] = "leaving" =>
       waits[a] \in Pools /\ state[waits[a]] \in {"ending", "ended"}
  /\ \A p \in sweep : state[p] \in {"ending", "ended"}

Kept == \A p \in Pools : state[p] \in {"open", "ending"} => pools[home[p]] = p

\* The pool an adapter leaves stays in the map until its disconnect() resumes.
Awaited == \A a \in Adapters : place[a] = "leaving" =>
  /\ pools[home[waits[a]]] = waits[a]
  /\ \A b \in Adapters : place[b] = "leaving" /\ waits[b] = waits[a] => b = a

\* endAllPools() waits for everything there is, and nobody else waits.
Swept == sweep # {} =>
  /\ \A f \in Configs : pools[f] # NoPool => pools[f] \in sweep
  /\ \A a \in Adapters : place[a] # "leaving"

Closing == \A a \in Adapters : config[a] = home[conn[a]] =>
  /\ place[a] = "leaving" => state[conn[a]] = "ended" \/ waits[a] = conn[a]
  /\ place[a] = "down" => state[conn[a]] = "ended"

Inv == Typed /\ Linked /\ (~overlap => Kept /\ Awaited /\ Swept /\ Closing)

LEMMA InitInv == Init => Inv
<1> SUFFICES ASSUME Init PROVE Inv
  OBVIOUS
<1>1. (CHOOSE f \in Configs : TRUE) \in Configs
  BY ConfigAssumption
<1>2. Typed
  BY <1>1 DEF Init, Typed
<1>3. Linked
  BY DEF Init, Linked
<1>4. Kept /\ Awaited /\ Swept /\ Closing
  BY DEF Init, Kept, Awaited, Swept, Closing
<1> QED BY <1>2, <1>3, <1>4 DEF Inv

LEMMA ConstructInv ==
  ASSUME Inv, NEW a \in Adapters, Construct(a)
  PROVE  Inv'
<1>1. PICK f \in Configs :
        /\ config' = [config EXCEPT ![a] = f]
        /\ IF Cached(f) # NoPool
           THEN /\ conn' = [conn EXCEPT ![a] = Cached(f)]
                /\ UNCHANGED <<pools, state, home, overlap>>
           ELSE /\ Fresh # {}
                /\ LET p == CHOOSE p \in Fresh : TRUE IN
                   /\ pools' = [pools EXCEPT ![f] = p]
                   /\ state' = [state EXCEPT ![p] = "open"]
                   /\ home'  = [home EXCEPT ![p] = f]
                   /\ conn'  = [conn EXCEPT ![a] = p]
                   /\ overlap' = (overlap \/ sweep # {})
  BY DEF Construct
<1>2. /\ place[a] \notin {"up", "leaving"} /\ UNCHANGED sweep
      /\ place' = [place EXCEPT ![a] = "up"] /\ waits' = [waits EXCEPT ![a] = NoPool]
  BY DEF Construct
<1>3. CASE pools[f] # NoPool
  <2>1. /\ conn' = [conn EXCEPT ![a] = pools[f]] /\ UNCHANGED <<pools, state, home, overlap>>
        /\ pools[f] \in Pools /\ state[pools[f]] # "new"
    BY <1>1, <1>3 DEF Cached, Inv, Typed, Linked
  <2>2. Typed'
    BY <1>1, <1>2, <2>1 DEF Inv, Typed
  <2>3. Linked'
    BY <1>2, <2>1 DEF Inv, Typed, Linked
  <2>4. ~overlap => Kept' /\ Awaited' /\ Swept' /\ Closing'
    BY <1>1, <1>2, <2>1 DEF Inv, Typed, Kept, Awaited, Swept, Closing
  <2> QED BY <2>1, <2>2, <2>3, <2>4 DEF Inv
<1>4. CASE pools[f] = NoPool
  <2> DEFINE p == CHOOSE p \in Fresh : TRUE
  <2>1. p \in Pools /\ state[p] = "new" /\ p # NoPool
    BY <1>1, <1>4, BoundAssumption DEF Cached, Fresh, Pools
  <2>2. /\ pools' = [pools EXCEPT ![f] = p] /\ state' = [state EXCEPT ![p] = "open"]
        /\ home' = [home EXCEPT ![p] = f] /\ conn' = [conn EXCEPT ![a] = p]
        /\ overlap' = (overlap \/ sweep # {})
    BY <1>1, <1>4 DEF Cached
  <2> HIDE DEF p
  <2>3. Typed'
    BY <1>1, <1>2, <2>1, <2>2 DEF Inv, Typed
  <2>4. \A q \in Pools \ {p} : state'[q] = state[q] /\ home'[q] = home[q]
    BY <2>2 DEF Inv, Typed
  <2>5. state'[p] = "open" /\ home'[p] = f /\ pools'[f] = p /\ conn'[a] = p
    BY <2>1, <2>2 DEF Inv, Typed
  <2>6. \A g \in Configs \ {f} : pools'[g] = pools[g] /\ pools[g] # p
    BY <2>1, <2>2 DEF Inv, Typed, Linked
  <2>7. \A b \in Adapters \ {a} : /\ conn'[b] = conn[b] /\ waits'[b] = waits[b]
                                  /\ place'[b] = place[b] /\ config'[b] = config[b]
    BY <1>1, <1>2, <2>2 DEF Inv, Typed
  <2>8. place'[a] = "up"
    BY <1>2 DEF Inv, Typed
  <2>9. Linked'
    BY <1>2, <2>1, <2>4, <2>5, <2>6, <2>7 DEF Inv, Typed, Linked
  <2>10. ASSUME ~overlap' PROVE Kept' /\ Awaited' /\ Swept' /\ Closing'
    <3>1. ~overlap /\ sweep' = {}
      BY <1>2, <2>2, <2>10
    <3>2. Kept'
      BY <1>4, <2>4, <2>5, <2>6, <3>1, BoundAssumption DEF Inv, Typed, Kept, Pools
    <3>3. Awaited'
      <4>1. \A b \in Adapters \ {a} : place[b] = "leaving" =>
              waits[b] \in Pools \ {p} /\ home[waits[b]] # f /\ home[waits[b]] \in Configs
        BY <1>4, <2>1, <3>1, BoundAssumption DEF Inv, Typed, Linked, Awaited, Pools
      <4> QED BY <2>4, <2>6, <2>7, <2>8, <3>1, <4>1 DEF Inv, Awaited
    <3>4. Closing'
      <4>1. \A b \in Adapters \ {a} : place[b] # "none" => conn[b] \in Pools \ {p}
        BY <2>1 DEF Inv, Linked
      <4> QED BY <2>4, <2>7, <2>8, <3>1, <4>1 DEF Inv, Closing
    <3> QED BY <3>1, <3>2, <3>3, <3>4 DEF Swept
  <2> QED BY <2>3, <2>9, <2>10 DEF Inv
<1> QED BY <1>3, <1>4

LEMMA DisconnectInv ==
  ASSUME Inv, NEW a \in Adapters, Disconnect(a)
  PROVE  Inv'
<1> DEFINE p == pools[config[a]]
<1>1. place[a] = "up" /\ UNCHANGED <<pools, home, config, conn, sweep, overlap>>
  BY DEF Disconnect
<1>2. config[a] \in Configs /\ conn[a] \in Pools /\ state[conn[a]] # "new"
  BY <1>1 DEF Inv, Typed, Linked
<1>3. CASE p = NoPool
  <2>1. place' = [place EXCEPT ![a] = "down"] /\ UNCHANGED <<state, waits>>
    BY <1>3 DEF Disconnect
  <2>2. Typed' /\ Linked'
    BY <1>1, <1>2, <2>1 DEF Inv, Typed, Linked
  <2>3. ASSUME ~overlap PROVE Kept' /\ Awaited' /\ Swept' /\ Closing'
    <3>1. config[a] = home[conn[a]] => state[conn[a]] = "ended"
      BY <1>2, <1>3, <2>3, BoundAssumption DEF Inv, Typed, Kept, Pools
    <3>2. Closing'
      BY <1>1, <2>1, <2>3, <3>1 DEF Inv, Typed, Closing
    <3> QED BY <1>1, <2>1, <2>3, <3>2 DEF Inv, Typed, Kept, Awaited, Swept
  <2> QED BY <1>1, <2>2, <2>3 DEF Inv
<1>4. CASE p # NoPool /\ state[p] # "open"
  <2>1. place' = [place EXCEPT ![a] = "broken"] /\ UNCHANGED <<state, waits>>
    BY <1>4 DEF Disconnect
  <2> QED BY <1>1, <1>2, <2>1
          DEF Inv, Typed, Linked, Kept, Awaited, Swept, Closing
<1>5. CASE p # NoPool /\ state[p] = "open"
  <2>1. /\ place' = [place EXCEPT ![a] = "leaving"]
        /\ state' = [state EXCEPT ![p] = "ending"] /\ waits' = [waits EXCEPT ![a] = p]
    BY <1>5 DEF Disconnect
  <2>2. p \in Pools /\ home[p] = config[a]
    BY <1>2, <1>5 DEF Inv, Typed, Linked
  <2>3. /\ place'[a] = "leaving" /\ waits'[a] = p /\ state'[p] = "ending"
        /\ \A b \in Adapters \ {a} : place'[b] = place[b] /\ waits'[b] = waits[b]
        /\ \A q \in Pools \ {p} : state'[q] = state[q]
    BY <2>1, <2>2 DEF Inv, Typed
  <2>4. Typed'
    BY <1>1, <2>1, <2>2 DEF Inv, Typed
  <2>5. Linked'
    BY <1>1, <1>2, <2>2, <2>3 DEF Inv, Typed, Linked
  <2>6. ASSUME ~overlap PROVE Kept' /\ Awaited' /\ Swept' /\ Closing'
    <3>1. Kept'
      BY <1>1, <2>2, <2>3, <2>6 DEF Inv, Kept
    <3>2. \A b \in Adapters : place[b] = "leaving" => waits[b] # p
      BY <1>5 DEF Inv, Linked
    <3>3. Awaited'
      BY <1>1, <2>2, <2>3, <2>6, <3>2 DEF Inv, Awaited
    <3>4. Swept'
      BY <1>1, <1>2, <1>5, <2>6 DEF Inv, Linked, Swept
    <3>5. config[a] = home[conn[a]] => state[conn[a]] = "ended" \/ conn[a] = p
      BY <1>2, <2>6 DEF Inv, Typed, Kept
    <3>6. Closing'
      <4>1. \A b \in Adapters \ {a} : place[b] \in {"leaving", "down"} => conn[b] \in Pools
        BY DEF Inv, Linked
      <4> QED BY <1>1, <1>2, <1>5, <2>3, <2>6, <3>5, <4>1 DEF Inv, Closing
    <3> QED BY <3>1, <3>3, <3>4, <3>6
  <2> QED BY <1>1, <2>4, <2>5, <2>6 DEF Inv
<1> QED BY <1>3, <1>4, <1>5

LEMMA DisconnectedInv ==
  ASSUME Inv, NEW a \in Adapters, Disconnected(a)
  PROVE  Inv'
<1> DEFINE p == waits[a]
<1>1. /\ place[a] = "leaving" /\ state[p] = "ended" /\ p \in Pools
      /\ pools' = [pools EXCEPT ![home[p]] = NoPool]
      /\ place' = [place EXCEPT ![a] = "down"] /\ waits' = [waits EXCEPT ![a] = NoPool]
      /\ UNCHANGED <<state, home, config, conn, sweep, overlap>>
  BY DEF Disconnected, Forget, Inv, Linked
<1>2. /\ \A f \in Configs \ {home[p]} : pools'[f] = pools[f]
      /\ pools'[home[p]] = NoPool /\ home[p] \in Configs
      /\ \A b \in Adapters \ {a} : place'[b] = place[b] /\ waits'[b] = waits[b]
      /\ place'[a] = "down"
  BY <1>1 DEF Inv, Typed
<1>3. Typed'
  BY <1>1 DEF Inv, Typed
<1>4. Linked'
  BY <1>1, <1>2 DEF Inv, Linked
<1>5. ASSUME ~overlap PROVE Kept' /\ Awaited' /\ Swept' /\ Closing'
  <2>1. pools[home[p]] = p
    BY <1>1, <1>5 DEF Inv, Awaited
  <2>2. Kept'
    BY <1>1, <1>2, <1>5, <2>1 DEF Inv, Typed, Kept
  <2>3. Awaited'
    <3>1. \A b \in Adapters \ {a} : place[b] = "leaving" =>
            home[waits[b]] # home[p] /\ home[waits[b]] \in Configs
      BY <1>1, <1>5, <2>1 DEF Inv, Typed, Linked, Awaited
    <3> QED BY <1>1, <1>2, <1>5, <3>1 DEF Inv, Awaited
  <2>4. Swept'
    BY <1>1, <1>2, <1>5 DEF Inv, Swept
  <2>5. Closing'
    BY <1>1, <1>2, <1>5 DEF Inv, Closing
  <2> QED BY <2>2, <2>3, <2>4, <2>5
<1> QED BY <1>1, <1>3, <1>4, <1>5 DEF Inv

LEMMA EndInv ==
  ASSUME Inv, NEW p \in Pools, End(p)
  PROVE  Inv'
<1>1. /\ state[p] = "ending" /\ state' = [state EXCEPT ![p] = "ended"]
      /\ UNCHANGED <<pools, home, place, config, conn, waits, sweep, overlap>>
  BY DEF End
<1>2. state'[p] = "ended" /\ \A q \in Pools \ {p} : state'[q] = state[q]
  BY <1>1 DEF Inv, Typed
<1>3. Typed'
  BY <1>1 DEF Inv, Typed
<1>4. Linked'
  BY <1>1, <1>2 DEF Inv, Typed, Linked
<1>5. ASSUME ~overlap PROVE Kept' /\ Awaited' /\ Swept' /\ Closing'
  <2>1. Closing'
    <3>1. \A b \in Adapters : place[b] # "none" => conn[b] \in Pools
      BY DEF Inv, Linked
    <3> QED BY <1>1, <1>2, <1>5, <3>1 DEF Inv, Closing
  <2> QED BY <1>1, <1>2, <1>5, <2>1 DEF Inv, Kept, Awaited, Swept
<1> QED BY <1>1, <1>3, <1>4, <1>5 DEF Inv

LEMMA EndAllInv == Inv /\ EndAll => Inv'
<1> SUFFICES ASSUME Inv, EndAll PROVE Inv'
  OBVIOUS
<1>1. /\ sweep = {} /\ Registered # {}
      /\ state' = [p \in Pools |-> IF p \in Registered /\ state[p] = "open"
                                   THEN "ending" ELSE state[p]]
      /\ UNCHANGED <<pools, home, place, config, conn, waits>>
  BY DEF EndAll
<1>2. \/ sweep' = Registered /\ UNCHANGED overlap /\ \A p \in Registered : state[p] = "open"
      \/ sweep' = {} /\ overlap' = TRUE
  BY DEF EndAll
<1>3. Registered \subseteq Pools
  BY DEF Registered
<1>4. Typed'
  BY <1>1, <1>2, <1>3 DEF Inv, Typed
<1>5. \A p \in Pools : /\ state[p] \in {"ending", "ended"} => state'[p] = state[p]
                       /\ state'[p] = "new" => state[p] = "new"
                       /\ state'[p] \in {"open", "ending"} => state[p] \in {"open", "ending"}
  BY <1>1
<1>6. Linked'
  <2>1. \A p \in sweep' : state'[p] = "ending"
    BY <1>1, <1>2, <1>3
  <2> QED BY <1>1, <1>5, <2>1 DEF Inv, Typed, Linked
<1>7. ASSUME ~overlap' PROVE Kept' /\ Awaited' /\ Swept' /\ Closing'
  <2>1. sweep' = Registered /\ ~overlap /\ \A p \in Registered : state[p] = "open"
    BY <1>2, <1>7
  <2>2. \A f \in Configs : pools[f] # NoPool => pools[f] \in Registered
    BY DEF Registered, Inv, Typed
  <2>3. \A a \in Adapters : place[a] # "leaving"
    BY <2>1, BoundAssumption DEF Inv, Typed, Linked, Awaited, Registered, Pools
  <2>4. Kept'
    BY <1>1, <1>5, <2>1 DEF Inv, Kept
  <2>5. Closing'
    <3>1. \A b \in Adapters : place[b] # "none" => conn[b] \in Pools
      BY DEF Inv, Linked
    <3> QED BY <1>1, <1>5, <2>1, <2>3, <3>1 DEF Inv, Closing
  <2> QED BY <1>1, <2>1, <2>2, <2>3, <2>4, <2>5 DEF Awaited, Swept
<1> QED BY <1>4, <1>6, <1>7 DEF Inv

LEMMA EndedAllInv == Inv /\ EndedAll => Inv'
<1> SUFFICES ASSUME Inv, EndedAll PROVE Inv'
  OBVIOUS
<1>1. /\ sweep # {} /\ \A p \in sweep : state[p] = "ended"
      /\ pools' = [f \in Configs |-> NoPool] /\ sweep' = {}
      /\ UNCHANGED <<state, home, place, config, conn, waits, overlap>>
  BY DEF EndedAll
<1>2. Typed' /\ Linked'
  BY <1>1 DEF Inv, Typed, Linked
<1>3. ASSUME ~overlap PROVE Kept' /\ Awaited' /\ Swept' /\ Closing'
  <2>1. \A p \in Pools : state[p] \notin {"open", "ending"}
    BY <1>1, <1>3, BoundAssumption DEF Inv, Typed, Kept, Swept, Pools
  <2>2. \A a \in Adapters : place[a] # "leaving"
    BY <1>1, <1>3 DEF Inv, Swept
  <2> QED BY <1>1, <1>3, <2>1, <2>2 DEF Inv, Kept, Awaited, Swept, Closing
<1> QED BY <1>1, <1>2, <1>3 DEF Inv

LEMMA StepInv == Inv /\ [Next]_vars => Inv'
<1> SUFFICES ASSUME Inv, [Next]_vars PROVE Inv'
  OBVIOUS
<1> USE DEF Inv, Typed, Linked, Kept, Awaited, Swept, Closing
<1>1. ASSUME NEW a \in Adapters, Switch(a) PROVE Inv'
  <2>1. /\ place[a] = "up" /\ config' \in [Adapters -> Configs]
        /\ \A b \in Adapters \ {a} : config'[b] = config[b]
        /\ UNCHANGED <<pools, state, home, place, conn, waits, sweep, overlap>>
    BY <1>1 DEF Switch
  <2> QED BY <2>1
<1>2. ASSUME NEW a \in Adapters, Query(a) \/ Answer(a) PROVE Inv'
  BY <1>2 DEF Query, Answer
<1>3. CASE UNCHANGED vars
  BY <1>3 DEF vars
<1> QED BY <1>1, <1>2, <1>3, ConstructInv, DisconnectInv, DisconnectedInv, EndInv, EndAllInv,
           EndedAllInv
        DEF Next, Step

\* However adapters come, go and change their uri, a pool that is open is in
\* the manager's map, until endAllPools() overlaps with something.
THEOREM NoPoolIsOrphaned == Spec => []NoOpenOrphan
<1>1. Inv => NoOpenOrphan
  BY DEF Inv, Kept, NoOpenOrphan
<1> QED BY <1>1, InitInv, StepInv, PTL DEF Spec

\* An adapter whose disconnect() resolved, its uri being what it was when it
\* connected, has no pool left that is not closed.
THEOREM DisconnectedIsClosed == Spec => []DisconnectCloses
<1>1. Inv => DisconnectCloses
  BY DEF Inv, Closing, DisconnectCloses
<1> QED BY <1>1, InitInv, StepInv, PTL DEF Spec
=============================================================================
