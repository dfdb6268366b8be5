----------------------------- MODULE KeyvStats -----------------------------
(***************************************************************************)
(* KeyvStats (core/keyv/src/stats.ts) and the stats setter of Keyv: which   *)
(* telemetry events a statistics object counts, and the bounded map of      *)
(* recently counted keys it keeps for each kind of event.                   *)
(*                                                                          *)
(* listeners[k][s] is how many of s's listener sets are registered on the   *)
(* emitter k.  The five listeners of a set come and go together.  A map is  *)
(* the sequence of its entries in insertion order.  A composite key is one  *)
(* name; NoKey is an event without a key.  All steps are synchronous.       *)
(***************************************************************************)
EXTENDS Integers, SequencesExt

CONSTANTS Keyvs, Stats,
          Kinds,       \* of telemetry: hit, miss, set, delete, error
          Names, NoKey,
          Caps,        \* what maxEntries is set to
          Nobody,      \* _emitter is undefined
          MaxCount     \* bound on each counter

ASSUME StatsAssumption ==
    /\ NoKey \notin Names /\ Nobody \notin Keyvs
    /\ Caps \subseteq Int /\ MaxCount \in Nat

VARIABLES owned,      \* the _stats of each Keyv
          enabled, emitter, subscribed, \* _enabled, _emitter, _listeners.size > 0
          cap,        \* _maxEntries
          count, keys, \* a counter and a map for each kind
          listeners

settings == <<owned, enabled, cap>>
wiring == <<emitter, subscribed, listeners>>
tallies == <<count, keys>>
vars == <<settings, wiring, tallies>>

----------------------------------------------------------------------------
(* unsubscribe() of s takes its listeners off the emitter it remembers.      *)
Unwired(heard, s) ==
    IF emitter[s] = Nobody \/ ~subscribed[s] THEN heard
    ELSE [heard EXCEPT ![emitter[s]][s] = @ - 1]

\* A variant of Rewired that does not unsubscribe first.
Rewired_KeepsOld(heard, s, k) == [heard EXCEPT ![k][s] = @ + 1]

(* subscribe(): whatever s listened to before, it now listens to k alone,    *)
(* whether it is enabled or not.                                             *)
Rewired(heard, s, k) == [Unwired(heard, s) EXCEPT ![k][s] = @ + 1]

SubscribeTo(s, k) ==
    /\ listeners' = Rewired(listeners, s, k)
    /\ emitter' = [emitter EXCEPT ![s] = k]
    /\ subscribed' = [subscribed EXCEPT ![s] = TRUE]

(* Each Keyv makes its own object, which waits with the emitter when it is   *)
(* not enabled; the other objects are made with or without an emitter.       *)
Init ==
    /\ owned \in [Keyvs -> Stats]
    /\ \A k, l \in Keyvs : owned[k] = owned[l] => k = l
    /\ enabled \in [Stats -> BOOLEAN]
    /\ emitter \in [Stats -> Keyvs \cup {Nobody}]
    /\ \A k \in Keyvs : emitter[owned[k]] = k
    /\ subscribed = [s \in Stats |-> enabled[s] /\ emitter[s] # Nobody]
    /\ listeners = [k \in Keyvs |-> [s \in Stats |->
                       IF subscribed[s] /\ emitter[s] = k THEN 1 ELSE 0]]
    /\ cap \in [Stats -> Caps]
    /\ count = [s \in Stats |-> [kind \in Kinds |-> 0]]
    /\ keys = [s \in Stats |-> [kind \in Kinds |-> << >>]]

----------------------------------------------------------------------------
Places(map, name) == {i \in DOMAIN map : map[i].name = name}

Others(map, name) ==
    IF Places(map, name) = {} THEN map
    ELSE RemoveAt(map, CHOOSE i \in Places(map, name) : TRUE)

Count(map, name) ==
    IF Places(map, name) = {} THEN 0
    ELSE map[CHOOSE i \in Places(map, name) : TRUE].n

\* A variant of Increment that counts a key where it stands.
Increment_InPlace(map, name, max, times) ==
    LET found == \E i \in DOMAIN map : map[i].name = name
        grown == IF found
                 THEN [i \in DOMAIN map |-> IF map[i].name = name
                                           THEN [map[i] EXCEPT !.n = @ + times] ELSE map[i]]
                 ELSE Append(map, [name |-> name, n |-> times])
    IN  CASE max <= 0 \/ name = NoKey \/ times = 0 -> map
          [] OTHER -> IF Len(grown) > max THEN Tail(grown) ELSE grown

(* incrementKeys(), once for each of the listeners.                          *)
Increment(map, name, max, times) ==
    LET grown == Append(Others(map, name), [name |-> name, n |-> Count(map, name) + times])
    IN  CASE max <= 0 \/ name = NoKey \/ times = 0 -> map
          [] OTHER -> IF Len(grown) > max THEN Tail(grown) ELSE grown

(* Keyv k emits a telemetry event.                                           *)
Emit(k, kind, name) ==
    /\ \A s \in Stats : count[s][kind] < MaxCount
    /\ count' = [s \in Stats |-> [count[s] EXCEPT ![kind] = @ + listeners[k][s]]]
    /\ keys' = [s \in Stats |-> [keys[s] EXCEPT ![kind] =
                   Increment(@, name, cap[s], listeners[k][s])]]
    /\ UNCHANGED <<settings, wiring>>

(* The stats setter of Keyv: the old object lets go of its emitter, then the *)
(* new one subscribes.                                                       *)
SetStats(k, s) ==
    LET old == owned[k] IN
        /\ owned' = [owned EXCEPT ![k] = s]
        /\ listeners' = IF s = old
                        THEN [Unwired(listeners, s) EXCEPT ![k][s] = @ + 1]
                        ELSE Rewired(Unwired(listeners, old), s, k)
        /\ emitter' = [emitter EXCEPT ![old] = Nobody, ![s] = k]
        /\ subscribed' = [subscribed EXCEPT ![old] = FALSE, ![s] = TRUE]
        /\ UNCHANGED <<enabled, cap, tallies>>

(* The enabled setter; a disabled object remembers the emitter it left.      *)
SetEnabled(s, on) ==
    /\ enabled' = [enabled EXCEPT ![s] = on]
    /\ IF ~on /\ subscribed[s]
       THEN /\ listeners' = Unwired(listeners, s)
            /\ subscribed' = [subscribed EXCEPT ![s] = FALSE]
            /\ UNCHANGED emitter
       ELSE IF on /\ emitter[s] # Nobody /\ ~subscribed[s]
       THEN SubscribeTo(s, emitter[s])
       ELSE UNCHANGED wiring
    /\ UNCHANGED <<owned, cap, tallies>>

SetMaxEntries(s, n) ==
    /\ cap' = [cap EXCEPT ![s] = n]
    /\ UNCHANGED <<owned, enabled, wiring, tallies>>

Subscribe(s, k) ==
    /\ SubscribeTo(s, k)
    /\ UNCHANGED <<settings, tallies>>

Unsubscribe(s) ==
    /\ listeners' = Unwired(listeners, s)
    /\ emitter' = [emitter EXCEPT ![s] = Nobody]
    /\ subscribed' = [subscribed EXCEPT ![s] = FALSE]
    /\ UNCHANGED <<settings, tallies>>

Reset(s) ==
    /\ count' = [count EXCEPT ![s] = [kind \in Kinds |-> 0]]
    /\ keys' = [keys EXCEPT ![s] = [kind \in Kinds |-> << >>]]
    /\ UNCHANGED <<settings, wiring>>

Next ==
    \/ \E k \in Keyvs, kind \in Kinds, name \in Names \cup {NoKey} : Emit(k, kind, name)
    \/ \E k \in Keyvs, s \in Stats : SetStats(k, s) \/ Subscribe(s, k)
    \/ \E s \in Stats :
          \/ \E on \in BOOLEAN : SetEnabled(s, on)
          \/ \E n \in Caps : SetMaxEntries(s, n)
          \/ Unsubscribe(s) \/ Reset(s)

Spec == Init /\ [][Next]_vars

----------------------------------------------------------------------------
(* An object counts an event at most once, and only the events of the one    *)
(* emitter it remembers: no sequence of setters, subscribe and unsubscribe   *)
(* leaves a listener behind that nothing can remove.                         *)
ListenersAccounted ==
    \A s \in Stats, k \in Keyvs :
        listeners[k][s] = IF subscribed[s] /\ emitter[s] = k THEN 1 ELSE 0
============================================================================
