-------------------------- MODULE KeyvStatsHistory -------------------------
(* KeyvStats with a record of the keys each object counted.                  *)
EXTENDS KeyvStats

VARIABLE recent    \* the keys counted while maxEntries was positive, those
                   \* counted last at the end

hvars == <<vars, recent>>

HInit == Init /\ recent = [s \in Stats |-> [kind \in Kinds |-> << >>]]

Latest(seen, name) ==
    LET at == {i \in DOMAIN seen : seen[i] = name}
    IN  Append(IF at = {} THEN seen ELSE RemoveAt(seen, CHOOSE i \in at : TRUE), name)

Counted(k, kind, name) ==
    [s \in Stats |-> IF listeners[k][s] > 0 /\ cap[s] > 0 /\ name # NoKey
                     THEN [recent[s] EXCEPT ![kind] = Latest(@, name)]
                     ELSE recent[s]]

HNext ==
    \/ \E k \in Keyvs, kind \in Kinds, name \in Names \cup {NoKey} :
          Emit(k, kind, name) /\ recent' = Counted(k, kind, name)
    \/ \E k \in Keyvs, s \in Stats :
          (SetStats(k, s) \/ Subscribe(s, k)) /\ UNCHANGED recent
    \/ \E s \in Stats :
          \/ \E on \in BOOLEAN : SetEnabled(s, on) /\ UNCHANGED recent
          \/ \E n \in Caps : SetMaxEntries(s, n) /\ UNCHANGED recent
          \/ Unsubscribe(s) /\ UNCHANGED recent
          \/ Reset(s) /\ recent' = [recent EXCEPT ![s] = [kind \in Kinds |-> << >>]]

HSpec == HInit /\ [][HNext]_hvars

(* The map of a kind holds the keys counted last, in that order, whatever    *)
(* maxEntries was set to: incrementKeys() evicts the right one.  Unless it   *)
(* holds all there were it is as full as some positive maxEntries allows,    *)
(* and it is no fuller than some maxEntries does ("each capped at            *)
(* `maxEntries`", core/keyv/README.md:1131; a map that is above a maxEntries *)
(* set lower stays there).                                                   *)
MapIsLru ==
    \A s \in Stats, kind \in Kinds :
        LET map  == keys[s][kind]
            seen == recent[s][kind]
        IN  /\ Len(map) < Len(seen) => \E c \in Caps : 0 < c /\ c <= Len(map)
            /\ \E c \in Caps \cup {0} : Len(map) <= c
            /\ Len(map) <= Len(seen)
            /\ \A i \in DOMAIN map : map[i].name = seen[Len(seen) - Len(map) + i]
============================================================================
