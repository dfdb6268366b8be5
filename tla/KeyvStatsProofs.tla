--------------------------- MODULE KeyvStatsProofs ---------------------------
(***************************************************************************)
(* ListenersAccounted holds of KeyvStats for any Keyvs, statistics objects, *)
(* keys and limits.  With the types of what the wiring is made of it is    *)
(* inductive: Unwired takes away the one listener an object has, Rewired   *)
(* leaves it with one, on the emitter it is then said to remember.         *)
(* On it rests MapIsLru: as an object hears an event once or not at all,   *)
(* the key moves to the end of its map or nothing changes.                 *)
(***************************************************************************)
EXTENDS KeyvStatsHistory, SequenceTheorems, TLAPS

Heard == [Keyvs -> [Stats -> Int]]

WiringOk == /\ owned \in [Keyvs -> Stats]
            /\ emitter \in [Stats -> Keyvs \cup {Nobody}]
            /\ subscribed \in [Stats -> BOOLEAN]
            /\ listeners \in Heard

Inv == WiringOk /\ ListenersAccounted

\* Of s, the listeners are those it should have.
Accounted(heard, s) ==
  \A k \in Keyvs : heard[k][s] = IF subscribed[s] /\ emitter[s] = k THEN 1 ELSE 0

\* Other objects than s have the same listeners before and after.
SameFor(before, after, s) ==
  \A k \in Keyvs, t \in Stats \ {s} : after[k][t] = before[k][t]

\* unsubscribe() leaves no listener of s.
LEMMA UnwiredIsSilent ==
  ASSUME NEW heard \in Heard, NEW s \in Stats, WiringOk, Accounted(heard, s)
  PROVE  /\ Unwired(heard, s) \in Heard
         /\ \A k \in Keyvs : Unwired(heard, s)[k][s] = 0
         /\ SameFor(heard, Unwired(heard, s), s)
<1>1. CASE emitter[s] = Nobody \/ ~subscribed[s]
  BY <1>1, StatsAssumption DEF Unwired, Accounted, SameFor
<1>2. CASE ~(emitter[s] = Nobody \/ ~subscribed[s])
  <2>1. emitter[s] \in Keyvs
    BY <1>2 DEF WiringOk
  <2> QED BY <1>2, <2>1 DEF Unwired, Accounted, SameFor, Heard
<1> QED BY <1>1, <1>2

\* subscribe() leaves one, on k.
LEMMA RewiredIsOnce ==
  ASSUME NEW heard \in Heard, NEW s \in Stats, NEW k \in Keyvs, WiringOk, Accounted(heard, s)
  PROVE  /\ Rewired(heard, s, k) \in Heard
         /\ \A l \in Keyvs : Rewired(heard, s, k)[l][s] = IF l = k THEN 1 ELSE 0
         /\ SameFor(heard, Rewired(heard, s, k), s)
<1> DEFINE silent == Unwired(heard, s)
<1>1. silent \in Heard /\ (\A l \in Keyvs : silent[l][s] = 0) /\ SameFor(heard, silent, s)
  BY UnwiredIsSilent
<1>2. Rewired(heard, s, k) = [silent EXCEPT ![k][s] = @ + 1]
  BY DEF Rewired
<1> HIDE DEF silent
<1> QED BY <1>1, <1>2 DEF Heard, SameFor

LEMMA SubscribeInv ==
  ASSUME NEW s \in Stats, NEW k \in Keyvs, Inv, SubscribeTo(s, k), UNCHANGED owned
  PROVE  Inv'
<1>1. Accounted(listeners, s)
  BY DEF Inv, ListenersAccounted, Accounted
<1>2. /\ listeners' \in Heard
      /\ \A l \in Keyvs : listeners'[l][s] = IF l = k THEN 1 ELSE 0
      /\ SameFor(listeners, listeners', s)
  BY <1>1, RewiredIsOnce DEF SubscribeTo, Inv, WiringOk
<1>3. WiringOk'
  BY <1>2 DEF Inv, WiringOk, SubscribeTo
<1>4. ListenersAccounted'
  <2> SUFFICES ASSUME NEW t \in Stats, NEW l \in Keyvs
               PROVE  listeners'[l][t] = IF subscribed'[t] /\ emitter'[t] = l THEN 1 ELSE 0
    BY DEF ListenersAccounted
  <2>1. CASE t = s
    BY <1>2, <2>1 DEF Inv, WiringOk, SubscribeTo
  <2>2. CASE t # s
    BY <1>2, <2>2 DEF Inv, WiringOk, SubscribeTo, SameFor, ListenersAccounted
  <2> QED BY <2>1, <2>2
<1> QED BY <1>3, <1>4 DEF Inv

\* unsubscribe(), with the emitter forgotten or kept.
LEMMA UnsubscribeInv ==
  ASSUME NEW s \in Stats, NEW e \in Keyvs \cup {Nobody}, Inv,
         listeners' = Unwired(listeners, s), subscribed' = [subscribed EXCEPT ![s] = FALSE],
         emitter' = [emitter EXCEPT ![s] = e], UNCHANGED owned
  PROVE  Inv'
<1>1. Accounted(listeners, s)
  BY DEF Inv, ListenersAccounted, Accounted
<1>2. /\ listeners' \in Heard
      /\ \A l \in Keyvs : listeners'[l][s] = 0
      /\ SameFor(listeners, listeners', s)
  BY <1>1, UnwiredIsSilent DEF Inv, WiringOk
<1>3. WiringOk'
  BY <1>2 DEF Inv, WiringOk
<1>4. ListenersAccounted'
  <2> SUFFICES ASSUME NEW t \in Stats, NEW l \in Keyvs
               PROVE  listeners'[l][t] = IF subscribed'[t] /\ emitter'[t] = l THEN 1 ELSE 0
    BY DEF ListenersAccounted
  <2>1. CASE t = s
    BY <1>2, <2>1 DEF Inv, WiringOk
  <2>2. CASE t # s
    BY <1>2, <2>2 DEF Inv, WiringOk, SameFor, ListenersAccounted
  <2> QED BY <2>1, <2>2
<1> QED BY <1>3, <1>4 DEF Inv

\* The stats setter of Keyv, with another object and with the one it has.
LEMMA SetStatsInv ==
  ASSUME NEW k \in Keyvs, NEW s \in Stats, Inv, SetStats(k, s)
  PROVE  Inv'
<1> DEFINE old   == owned[k]
           quiet == Unwired(listeners, old)
<1>1. old \in Stats
  BY DEF Inv, WiringOk
<1>2. Accounted(listeners, old)
  BY <1>1 DEF Inv, ListenersAccounted, Accounted
<1>3. /\ quiet \in Heard
      /\ \A l \in Keyvs : quiet[l][old] = 0
      /\ SameFor(listeners, quiet, old)
  BY <1>1, <1>2, UnwiredIsSilent DEF Inv, WiringOk
<1>4. /\ owned' = [owned EXCEPT ![k] = s]
      /\ emitter' = [emitter EXCEPT ![old] = Nobody, ![s] = k]
      /\ subscribed' = [subscribed EXCEPT ![old] = FALSE, ![s] = TRUE]
  BY DEF SetStats
<1>5. /\ listeners' \in Heard
      /\ \A l \in Keyvs : listeners'[l][s] = IF l = k THEN 1 ELSE 0
      /\ SameFor(quiet, listeners', s)
  <2>1. CASE s = old
    <3>1. listeners' = [quiet EXCEPT ![k][s] = @ + 1]
      BY <2>1 DEF SetStats
    <3> HIDE DEF quiet
    <3> QED BY <1>3, <2>1, <3>1 DEF Heard, SameFor
  <2>2. CASE s # old
    <3>1. listeners' = Rewired(quiet, s, k)
      BY <2>2 DEF SetStats
    <3> HIDE DEF quiet
    <3>2. \A l \in Keyvs : quiet[l][s] = listeners[l][s]
      BY <1>3, <2>2 DEF SameFor
    <3>3. Accounted(quiet, s)
      BY <3>2 DEF Accounted, Inv, ListenersAccounted
    <3> QED BY <1>3, <3>1, <3>3, RewiredIsOnce DEF Inv
  <2> QED BY <2>1, <2>2
<1> HIDE DEF quiet, old
<1>6. WiringOk'
  BY <1>1, <1>4, <1>5 DEF Inv, WiringOk
<1>7. ListenersAccounted'
  <2> SUFFICES ASSUME NEW t \in Stats, NEW l \in Keyvs
               PROVE  listeners'[l][t] = IF subscribed'[t] /\ emitter'[t] = l THEN 1 ELSE 0
    BY DEF ListenersAccounted
  <2>1. CASE t = s
    BY <1>1, <1>4, <1>5, <2>1 DEF Inv, WiringOk
  <2>2. CASE t = old /\ t # s
    BY <1>1, <1>3, <1>4, <1>5, <2>2 DEF Inv, WiringOk, SameFor
  <2>3. CASE t # old /\ t # s
    BY <1>1, <1>3, <1>4, <1>5, <2>3 DEF Inv, WiringOk, SameFor, ListenersAccounted
  <2> QED BY <2>1, <2>2, <2>3
<1> QED BY <1>6, <1>7 DEF Inv

LEMMA SetEnabledInv ==
  ASSUME NEW s \in Stats, NEW on \in BOOLEAN, Inv, SetEnabled(s, on)
  PROVE  Inv'
<1>1. CASE ~on /\ subscribed[s]
  <2>1. emitter[s] \in Keyvs \cup {Nobody} /\ emitter' = [emitter EXCEPT ![s] = emitter[s]]
    BY <1>1 DEF SetEnabled, Inv, WiringOk
  <2> QED BY <1>1, <2>1, UnsubscribeInv DEF SetEnabled
<1>2. CASE on /\ emitter[s] # Nobody /\ ~subscribed[s]
  <2>1. emitter[s] \in Keyvs
    BY <1>2 DEF Inv, WiringOk
  <2> QED BY <1>2, <2>1, SubscribeInv DEF SetEnabled
<1>3. CASE ~(~on /\ subscribed[s]) /\ ~(on /\ emitter[s] # Nobody /\ ~subscribed[s])
  BY <1>3 DEF SetEnabled, wiring, Inv, WiringOk, ListenersAccounted
<1> QED BY <1>1, <1>2, <1>3

LEMMA InitInv == Init => Inv
<1> SUFFICES ASSUME Init PROVE Inv
  OBVIOUS
<1>1. WiringOk
  BY DEF Init, WiringOk, Heard
<1> QED BY <1>1 DEF Init, Inv, WiringOk, ListenersAccounted

LEMMA NextInv == Inv /\ [Next]_vars => Inv'
<1> SUFFICES ASSUME Inv, [Next]_vars PROVE Inv'
  OBVIOUS
<1> USE DEF settings, wiring
<1>1. CASE \E k \in Keyvs, kind \in Kinds, name \in Names \cup {NoKey} : Emit(k, kind, name)
  BY <1>1 DEF Emit, Inv, WiringOk, ListenersAccounted
<1>2. ASSUME NEW k \in Keyvs, NEW s \in Stats, SetStats(k, s) PROVE Inv'
  BY <1>2, SetStatsInv
<1>3. ASSUME NEW k \in Keyvs, NEW s \in Stats, Subscribe(s, k) PROVE Inv'
  BY <1>3, SubscribeInv DEF Subscribe
<1>4. ASSUME NEW s \in Stats, NEW on \in BOOLEAN, SetEnabled(s, on) PROVE Inv'
  BY <1>4, SetEnabledInv
<1>5. ASSUME NEW s \in Stats, Unsubscribe(s) PROVE Inv'
  BY <1>5, UnsubscribeInv DEF Unsubscribe
<1>6. CASE \E s \in Stats : (\E n \in Caps : SetMaxEntries(s, n)) \/ Reset(s)
  BY <1>6 DEF SetMaxEntries, Reset, Inv, WiringOk, ListenersAccounted
<1>7. CASE UNCHANGED vars
  BY <1>7 DEF vars, Inv, WiringOk, ListenersAccounted
<1> QED BY <1>1, <1>2, <1>3, <1>4, <1>5, <1>6, <1>7 DEF Next

\* However objects are shared, replaced, enabled and subscribed by hand, each
\* counts an event once at most, and only its emitter's: subscribe(),
\* unsubscribe() and the setters of stats.ts and keyv.ts leave nothing behind.
THEOREM EventsCountedOnce == Spec => []ListenersAccounted
<1>1. Inv => ListenersAccounted
  BY DEF Inv
<1> QED BY <1>1, InitInv, NextInv, PTL DEF Spec
-----------------------------------------------------------------------------
(* The maps of recent keys.  The names in a map are the end of the list of   *)
(* all names that were counted: a name counted again moves to the end of     *)
(* both, and what is evicted is first in the map.  That takes lists that     *)
(* have a name once; delete() would leave another entry of the name.         *)

Entry == [name : Names, n : Int]

\* The names in a map, in its order.
NamesIn(map) == [i \in 1 .. Len(map) |-> map[i].name]

\* No two places have the same name.
Apart(seq) == \A i, j \in 1 .. Len(seq) : seq[i] = seq[j] => i = j

\* The end of b.
EndOf(a, b) == /\ Len(a) <= Len(b)
               /\ \A i \in 1 .. Len(a) : a[i] = b[Len(b) - Len(a) + i]

\* What is left of seq when the name is taken out.
Left(seq, name) ==
  LET at == {i \in DOMAIN seq : seq[i] = name}
  IN  IF at = {} THEN seq ELSE RemoveAt(seq, CHOOSE i \in at : TRUE)

\* One place fewer, the rest in order.
LEMMA OneLess ==
  ASSUME NEW S, NEW seq \in Seq(S), NEW p \in 1 .. Len(seq)
  PROVE  /\ RemoveAt(seq, p) \in Seq(S)
         /\ Len(RemoveAt(seq, p)) = Len(seq) - 1
         /\ \A i \in 1 .. Len(seq) - 1 : RemoveAt(seq, p)[i] = IF i < p THEN seq[i] ELSE seq[i + 1]
<1> DEFINE a == SubSeq(seq, 1, p - 1)
           b == SubSeq(seq, p + 1, Len(seq))
<1>1. Len(seq) \in Nat /\ p \in Nat /\ 1 <= p /\ p <= Len(seq)
  OBVIOUS
<1>2. a \in Seq(S) /\ Len(a) = p - 1 /\ \A i \in 1 .. p - 1 : a[i] = seq[i]
  <2>1. \A i \in 1 .. p - 1 : i \in 1 .. Len(seq)
    BY <1>1
  <2> QED BY <1>1, <2>1, SubSeqProperties
<1>3. b \in Seq(S) /\ Len(b) = Len(seq) - p /\ \A i \in 1 .. Len(seq) - p : b[i] = seq[p + i]
  BY <1>1, SubSeqProperties
<1>4. RemoveAt(seq, p) = a \o b
  BY DEF RemoveAt
<1> HIDE DEF a, b
<1>5. a \o b \in Seq(S) /\ Len(a \o b) = Len(seq) - 1
  <2>1. a \o b \in Seq(S) /\ Len(a \o b) = Len(a) + Len(b)
    BY <1>2, <1>3, ConcatProperties
  <2>2. Len(a) + Len(b) = Len(seq) - 1
    BY <1>1, <1>2, <1>3
  <2> QED BY <2>1, <2>2
<1>6. ASSUME NEW i \in 1 .. Len(seq) - 1
      PROVE  (a \o b)[i] = IF i < p THEN seq[i] ELSE seq[i + 1]
  <2>1. CASE i < p
    BY <1>1, <1>2, <1>3, <2>1, ConcatProperties
  <2>2. CASE ~(i < p)
    <3>1. (a \o b)[i] = b[i - (p - 1)] /\ i - (p - 1) \in 1 .. Len(seq) - p
      BY <1>1, <1>2, <1>3, <2>2, ConcatProperties
    <3>2. b[i - (p - 1)] = seq[p + (i - (p - 1))]
      BY <1>3, <3>1
    <3> QED BY <1>1, <2>2, <3>1, <3>2
  <2> QED BY <2>1, <2>2
<1> QED BY <1>4, <1>5, <1>6

\* The place p of a name is taken out; Len(seq) + 1 when it has none.
TakenOut(seq, left, name, p) ==
  /\ p \in 1 .. Len(seq) + 1
  /\ p <= Len(seq) => seq[p] = name /\ Len(left) = Len(seq) - 1
  /\ p = Len(seq) + 1 => Len(left) = Len(seq) /\ \A i \in 1 .. Len(seq) : seq[i] # name
  /\ \A i \in 1 .. Len(left) : left[i] = IF i < p THEN seq[i] ELSE seq[i + 1]

LEMMA LeftMeans ==
  ASSUME NEW seq \in Seq(Names), NEW name
  PROVE  Left(seq, name) \in Seq(Names) /\ \E p \in Nat : TakenOut(seq, Left(seq, name), name, p)
<1> DEFINE at == {i \in DOMAIN seq : seq[i] = name}
<1>1. DOMAIN seq = 1 .. Len(seq) /\ Len(seq) \in Nat
  OBVIOUS
<1>2. CASE at = {}
  <2>1. Left(seq, name) = seq
    BY <1>2 DEF Left
  <2>2. TakenOut(seq, seq, name, Len(seq) + 1)
    <3>1. \A i \in 1 .. Len(seq) : seq[i] # name
      BY <1>1, <1>2
    <3>2. Len(seq) + 1 \in 1 .. Len(seq) + 1 /\ ~(Len(seq) + 1 <= Len(seq))
          /\ \A i \in 1 .. Len(seq) : i < Len(seq) + 1
      BY <1>1
    <3> HIDE DEF at
    <3> QED BY <3>1, <3>2 DEF TakenOut
  <2> QED BY <1>1, <2>1, <2>2
<1>3. CASE at # {}
  <2> DEFINE p == CHOOSE i \in at : TRUE
  <2>1. p \in at
    BY <1>3
  <2>2. Left(seq, name) = RemoveAt(seq, p)
    BY <1>3 DEF Left
  <2>3. p \in 1 .. Len(seq) /\ seq[p] = name
    BY <1>1, <2>1
  <2> HIDE DEF p, at
  <2>4. /\ RemoveAt(seq, p) \in Seq(Names)
        /\ Len(RemoveAt(seq, p)) = Len(seq) - 1
        /\ \A i \in 1 .. Len(seq) - 1 : RemoveAt(seq, p)[i] = IF i < p THEN seq[i] ELSE seq[i + 1]
    BY <2>3, OneLess
  <2>5. TakenOut(seq, RemoveAt(seq, p), name, p) /\ p \in Nat
    <3>1. p \in Nat /\ p \in 1 .. Len(seq) + 1 /\ p # Len(seq) + 1
      BY <1>1, <2>3
    <3> QED BY <2>3, <2>4, <3>1 DEF TakenOut
  <2> QED BY <2>2, <2>4, <2>5
<1> QED BY <1>2, <1>3

\* The end of a list without repetition has none, and stays its end when a
\* name is taken out of both.
LEMMA LeftEnd ==
  ASSUME NEW a \in Seq(Names), NEW b \in Seq(Names), Apart(b), EndOf(a, b), NEW name
  PROVE  EndOf(Left(a, name), Left(b, name)) /\ Apart(Left(b, name))
         /\ \A i \in 1 .. Len(Left(b, name)) : Left(b, name)[i] # name
<1> DEFINE la == Left(a, name)
           lb == Left(b, name)
<1>1. PICK p \in Nat : TakenOut(a, la, name, p)
  BY LeftMeans
<1>2. PICK q \in Nat : TakenOut(b, lb, name, q)
  BY LeftMeans
<1>3. la \in Seq(Names) /\ lb \in Seq(Names)
  BY LeftMeans
<1> HIDE DEF la, lb
<1>4. Len(a) \in Nat /\ Len(b) \in Nat /\ Len(la) \in Nat /\ Len(lb) \in Nat /\ Len(a) <= Len(b)
  BY <1>3 DEF EndOf
<1>0. q # Len(b) + 1 => q \in 1 .. Len(b) /\ b[q] = name
  BY <1>2, <1>4 DEF TakenOut
<1>5. ASSUME p <= Len(a) PROVE EndOf(la, lb)
  <2>1. b[Len(b) - Len(a) + p] = name /\ Len(b) - Len(a) + p \in 1 .. Len(b)
    BY <1>1, <1>4, <1>5 DEF TakenOut, EndOf
  <2>2. q = Len(b) - Len(a) + p
    <3>1. q # Len(b) + 1
      BY <1>2, <2>1 DEF TakenOut
    <3> QED BY <1>0, <2>1, <3>1 DEF Apart
  <2>3. Len(la) = Len(a) - 1 /\ Len(lb) = Len(b) - 1
    BY <1>1, <1>2, <1>4, <1>5, <2>2 DEF TakenOut
  <2>4. ASSUME NEW i \in 1 .. Len(la) PROVE la[i] = lb[Len(lb) - Len(la) + i]
    <3>1. Len(lb) - Len(la) + i = Len(b) - Len(a) + i /\ Len(b) - Len(a) + i \in 1 .. Len(lb)
      BY <1>4, <2>3
    <3>2. la[i] = IF i < p THEN a[i] ELSE a[i + 1]
      BY <1>1 DEF TakenOut
    <3>3. lb[Len(b) - Len(a) + i] = IF i < p THEN b[Len(b) - Len(a) + i]
                                    ELSE b[Len(b) - Len(a) + (i + 1)]
      <4>1. Len(b) - Len(a) + i < q <=> i < p
        BY <1>4, <2>2
      <4>2. (Len(b) - Len(a) + i) + 1 = Len(b) - Len(a) + (i + 1)
        BY <1>4
      <4> QED BY <1>2, <3>1, <4>1, <4>2 DEF TakenOut
    <3>4. i \in 1 .. Len(a) /\ i + 1 \in 1 .. Len(a)
      BY <1>4, <2>3
    <3> QED BY <3>1, <3>2, <3>3, <3>4 DEF EndOf
  <2> QED BY <1>4, <2>3, <2>4 DEF EndOf
<1>6. ASSUME p = Len(a) + 1 PROVE EndOf(la, lb)
  <2>1. Len(la) = Len(a) /\ \A i \in 1 .. Len(a) : la[i] = a[i] /\ a[i] # name
    BY <1>1, <1>4, <1>6 DEF TakenOut
  <2>2. CASE q = Len(b) + 1
    <3>1. Len(lb) = Len(b) /\ \A i \in 1 .. Len(b) : lb[i] = b[i]
      BY <1>2, <1>4, <2>2 DEF TakenOut
    <3> QED BY <1>4, <2>1, <3>1 DEF EndOf
  <2>3. CASE q <= Len(b)
    <3>1. Len(lb) = Len(b) - 1 /\ b[q] = name /\ q >= 1
      BY <1>2, <1>4, <2>3 DEF TakenOut
    <3>2. q <= Len(b) - Len(a)
      <4> SUFFICES ASSUME ~(q <= Len(b) - Len(a)) PROVE FALSE
        OBVIOUS
      <4>1. q - (Len(b) - Len(a)) \in 1 .. Len(a)
        BY <1>4, <2>3
      <4>2. a[q - (Len(b) - Len(a))] = b[Len(b) - Len(a) + (q - (Len(b) - Len(a)))]
        BY <4>1 DEF EndOf
      <4>3. Len(b) - Len(a) + (q - (Len(b) - Len(a))) = q
        BY <1>4
      <4> QED BY <2>1, <3>1, <4>1, <4>2, <4>3
    <3>3. ASSUME NEW i \in 1 .. Len(la) PROVE la[i] = lb[Len(lb) - Len(la) + i]
      <4>1. Len(lb) - Len(la) + i \in 1 .. Len(lb) /\ ~(Len(lb) - Len(la) + i < q)
            /\ (Len(lb) - Len(la) + i) + 1 = Len(b) - Len(a) + i
        BY <1>4, <2>1, <3>1, <3>2
      <4>2. lb[Len(lb) - Len(la) + i] = b[Len(b) - Len(a) + i]
        BY <1>2, <4>1 DEF TakenOut
      <4> QED BY <2>1, <4>2 DEF EndOf
    <3> QED BY <1>4, <2>1, <3>1, <3>2, <3>3 DEF EndOf
  <2> QED BY <1>2, <1>4, <2>2, <2>3 DEF TakenOut
<1>7. EndOf(la, lb)
  <2>1. p <= Len(a) \/ p = Len(a) + 1
    BY <1>1, <1>4 DEF TakenOut
  <2> QED BY <1>5, <1>6, <2>1
<1>8. \A i \in 1 .. Len(lb) : \E j \in 1 .. Len(b) :
         j = (IF i < q THEN i ELSE i + 1) /\ lb[i] = b[j] /\ j # q
  BY <1>2, <1>4 DEF TakenOut
<1>9. Apart(lb)
  <2> SUFFICES ASSUME NEW i \in 1 .. Len(lb), NEW j \in 1 .. Len(lb), lb[i] = lb[j] PROVE i = j
    BY DEF Apart
  <2>1. PICK x \in 1 .. Len(b) : x = (IF i < q THEN i ELSE i + 1) /\ lb[i] = b[x]
    BY <1>8
  <2>2. PICK y \in 1 .. Len(b) : y = (IF j < q THEN j ELSE j + 1) /\ lb[j] = b[y]
    BY <1>8
  <2>3. x = y
    BY <2>1, <2>2 DEF Apart
  <2> QED BY <1>4, <2>1, <2>2, <2>3
<1>10. ASSUME NEW i \in 1 .. Len(lb) PROVE lb[i] # name
  <2>1. PICK x \in 1 .. Len(b) : lb[i] = b[x] /\ x # q
    BY <1>8
  <2>2. CASE q = Len(b) + 1
    BY <1>2, <2>1, <2>2 DEF TakenOut
  <2>3. CASE q # Len(b) + 1
    BY <1>0, <2>1, <2>3 DEF Apart
  <2> QED BY <2>2, <2>3
<1> QED BY <1>7, <1>9, <1>10 DEF la, lb

\* A name counted again comes last in both lists.
LEMMA LatestEnd ==
  ASSUME NEW a \in Seq(Names), NEW b \in Seq(Names), Apart(b), EndOf(a, b), NEW name \in Names
  PROVE  /\ Latest(a, name) \in Seq(Names) /\ Latest(b, name) \in Seq(Names)
         /\ EndOf(Latest(a, name), Latest(b, name)) /\ Apart(Latest(b, name))
<1> DEFINE la == Left(a, name)
           lb == Left(b, name)
<1>1. EndOf(la, lb) /\ Apart(lb) /\ \A i \in 1 .. Len(lb) : lb[i] # name
  BY LeftEnd
<1>2. la \in Seq(Names) /\ lb \in Seq(Names)
  BY LeftMeans
<1>3. Latest(a, name) = Append(la, name) /\ Latest(b, name) = Append(lb, name)
  BY DEF Latest, Left
<1> HIDE DEF la, lb
<1>4. Len(la) \in Nat /\ Len(lb) \in Nat /\ Len(la) <= Len(lb)
  BY <1>1, <1>2 DEF EndOf
<1>5. /\ Append(la, name) \in Seq(Names) /\ Len(Append(la, name)) = Len(la) + 1
      /\ Append(la, name)[Len(la) + 1] = name
      /\ \A i \in 1 .. Len(la) : Append(la, name)[i] = la[i]
  BY <1>2, AppendProperties
<1>6. /\ Append(lb, name) \in Seq(Names) /\ Len(Append(lb, name)) = Len(lb) + 1
      /\ Append(lb, name)[Len(lb) + 1] = name
      /\ \A i \in 1 .. Len(lb) : Append(lb, name)[i] = lb[i]
  BY <1>2, AppendProperties
<1> DEFINE x == Append(la, name)
           y == Append(lb, name)
<1> HIDE DEF x, y
<1>7. ASSUME NEW i \in 1 .. Len(x) PROVE x[i] = y[Len(y) - Len(x) + i]
  <2>1. Len(y) - Len(x) + i = Len(lb) - Len(la) + i
    BY <1>4, <1>5, <1>6 DEF x, y
  <2>2. CASE i = Len(la) + 1
    <3>1. Len(lb) - Len(la) + i = Len(lb) + 1
      BY <1>4, <2>2
    <3> QED BY <1>5, <1>6, <2>1, <2>2, <3>1 DEF x, y
  <2>3. CASE i # Len(la) + 1
    <3>1. i \in 1 .. Len(la)
      BY <1>4, <1>5, <2>3 DEF x
    <3>2. Len(lb) - Len(la) + i \in 1 .. Len(lb)
      BY <1>4, <3>1
    <3> QED BY <1>1, <1>5, <1>6, <2>1, <3>1, <3>2 DEF EndOf, x, y
  <2> QED BY <2>2, <2>3
<1>8. EndOf(x, y)
  <2>1. Len(x) = Len(la) + 1 /\ Len(y) = Len(lb) + 1
    BY <1>5, <1>6 DEF x, y
  <2>2. Len(x) <= Len(y)
    BY <1>4, <2>1
  <2> QED BY <1>7, <2>2 DEF EndOf
<1>9. Apart(y)
  <2> SUFFICES ASSUME NEW i \in 1 .. Len(y), NEW j \in 1 .. Len(y), y[i] = y[j] PROVE i = j
    BY DEF Apart
  <2>1. \A k \in 1 .. Len(y) :
           (k \in 1 .. Len(lb) /\ y[k] = lb[k]) \/ (k = Len(lb) + 1 /\ y[k] = name)
    BY <1>4, <1>6 DEF y
  <2> QED BY <1>1, <2>1 DEF Apart
<1> QED BY <1>3, <1>5, <1>6, <1>8, <1>9 DEF x, y

\* So it stays when the first entry of a map is evicted.
LEMMA TailEnd ==
  ASSUME NEW a \in Seq(Names), a # << >>, NEW b \in Seq(Names), EndOf(a, b)
  PROVE  Tail(a) \in Seq(Names) /\ Len(Tail(a)) = Len(a) - 1 /\ EndOf(Tail(a), b)
<1>1. /\ Tail(a) \in Seq(Names) /\ Len(Tail(a)) = Len(a) - 1
      /\ \A i \in 1 .. Len(Tail(a)) : Tail(a)[i] = a[i + 1]
  BY HeadTailProperties
<1> DEFINE t == Tail(a)
<1> HIDE DEF t
<1>2. Len(a) \in Nat /\ Len(b) \in Nat /\ Len(t) \in Nat /\ Len(t) = Len(a) - 1 /\ Len(a) <= Len(b)
  BY <1>1 DEF t, EndOf
<1>3. ASSUME NEW i \in 1 .. Len(t) PROVE t[i] = b[Len(b) - Len(t) + i]
  <2>1. i + 1 \in 1 .. Len(a) /\ Len(b) - Len(a) + (i + 1) = Len(b) - Len(t) + i
    BY <1>2
  <2> QED BY <1>1, <2>1 DEF t, EndOf
<1>4. EndOf(t, b)
  BY <1>2, <1>3 DEF EndOf
<1> QED BY <1>1, <1>4 DEF t

\* The names in a map with a name taken out, and with one put last.
LEMMA NamesLeft ==
  ASSUME NEW map \in Seq(Entry), NEW name \in Names
  PROVE  /\ NamesIn(map) \in Seq(Names) /\ Len(NamesIn(map)) = Len(map)
         /\ Others(map, name) \in Seq(Entry)
         /\ NamesIn(Others(map, name)) = Left(NamesIn(map), name)
<1>1. \A m \in Seq(Entry) : NamesIn(m) \in Seq(Names) /\ Len(NamesIn(m)) = Len(m)
                            /\ \A i \in 1 .. Len(m) : NamesIn(m)[i] = m[i].name
  <2> SUFFICES ASSUME NEW m \in Seq(Entry)
               PROVE  NamesIn(m) \in Seq(Names) /\ Len(NamesIn(m)) = Len(m)
                      /\ \A i \in 1 .. Len(m) : NamesIn(m)[i] = m[i].name
    OBVIOUS
  <2>1. \A i \in 1 .. Len(m) : m[i].name \in Names
    <3>1. \A i \in 1 .. Len(m) : m[i] \in Entry
      BY ElementOfSeq
    <3> QED BY <3>1 DEF Entry
  <2> QED BY <2>1, IsASeq DEF NamesIn
<1> DEFINE at == {i \in DOMAIN map : map[i].name = name}
<1>2. DOMAIN map = 1 .. Len(map) /\ DOMAIN NamesIn(map) = 1 .. Len(map)
  BY <1>1 DEF NamesIn
<1>3. at = {i \in DOMAIN NamesIn(map) : NamesIn(map)[i] = name}
  BY <1>1, <1>2
<1>4. CASE at = {}
  BY <1>1, <1>3, <1>4 DEF Others, Places, Left
<1>5. CASE at # {}
  <2> DEFINE p == CHOOSE i \in at : TRUE
  <2>1. Others(map, name) = RemoveAt(map, p)
    BY <1>5 DEF Others, Places
  <2>2. Left(NamesIn(map), name) = RemoveAt(NamesIn(map), p)
    BY <1>3, <1>5 DEF Left
  <2>3. p \in 1 .. Len(map)
    BY <1>2, <1>5
  <2> HIDE DEF p, at
  <2>4. /\ RemoveAt(map, p) \in Seq(Entry)
        /\ Len(RemoveAt(map, p)) = Len(map) - 1
        /\ \A i \in 1 .. Len(map) - 1 : RemoveAt(map, p)[i] = IF i < p THEN map[i] ELSE map[i + 1]
    BY <2>3, OneLess
  <2> DEFINE names == NamesIn(map)
  <2> HIDE DEF names
  <2>5. names \in Seq(Names) /\ Len(names) = Len(map)
        /\ \A i \in 1 .. Len(map) : names[i] = map[i].name
    BY <1>1 DEF names
  <2>6. /\ RemoveAt(names, p) \in Seq(Names)
        /\ Len(RemoveAt(names, p)) = Len(map) - 1
        /\ \A i \in 1 .. Len(map) - 1 : RemoveAt(names, p)[i] = IF i < p THEN names[i] ELSE names[i + 1]
    BY <2>3, <2>5, OneLess
  <2> DEFINE rest == RemoveAt(map, p)
             less == RemoveAt(names, p)
  <2> HIDE DEF rest, less
  <2>7. NamesIn(rest) \in Seq(Names) /\ Len(NamesIn(rest)) = Len(map) - 1 /\ Len(map) \in Nat
        /\ \A i \in 1 .. Len(map) - 1 : NamesIn(rest)[i] = rest[i].name
    BY <1>1, <2>4 DEF rest
  <2>8. \A i \in 1 .. Len(map) - 1 : NamesIn(rest)[i] = less[i]
    <3> SUFFICES ASSUME NEW i \in 1 .. Len(map) - 1 PROVE NamesIn(rest)[i] = less[i]
      OBVIOUS
    <3>1. i \in 1 .. Len(map) /\ i + 1 \in 1 .. Len(map)
      BY <2>7
    <3>2. rest[i] = IF i < p THEN map[i] ELSE map[i + 1]
      BY <2>4 DEF rest
    <3>3. less[i] = IF i < p THEN names[i] ELSE names[i + 1]
      BY <2>6 DEF less
    <3> QED BY <2>5, <2>7, <3>1, <3>2, <3>3
  <2>9. NamesIn(rest) = less
    BY <2>6, <2>7, <2>8, SeqEqual DEF less
  <2> QED BY <1>1, <2>1, <2>2, <2>4, <2>9 DEF rest, less, names
<1> QED BY <1>1, <1>4, <1>5

NewEntry(map, name, times) == [name |-> name, n |-> Count(map, name) + times]

\* What incrementKeys() makes of a map, and of the names in it.
LEMMA Incremented ==
  ASSUME NEW map \in Seq(Entry), NEW seen \in Seq(Names), Apart(seen), EndOf(NamesIn(map), seen),
         NEW name \in Names, NEW max \in Int, max > 0, NEW new, new = Increment(map, name, max, 1)
  PROVE  /\ new \in Seq(Entry)
         /\ Latest(seen, name) \in Seq(Names) /\ Apart(Latest(seen, name))
         /\ EndOf(NamesIn(new), Latest(seen, name))
         /\ Len(new) <= max \/ Len(new) <= Len(map)
         /\ Len(new) = Len(Latest(NamesIn(map), name)) \/ Len(new) >= max
<1> DEFINE entry == NewEntry(map, name, 1)
           grown == Append(Others(map, name), entry)
           names == NamesIn(map)
           last  == Latest(names, name)
<1>1. name # NoKey
  BY StatsAssumption
<1>2. new = IF Len(grown) > max THEN Tail(grown) ELSE grown
  BY <1>1 DEF Increment, NewEntry
<1>3. /\ names \in Seq(Names) /\ Len(names) = Len(map) /\ Others(map, name) \in Seq(Entry)
      /\ NamesIn(Others(map, name)) = Left(names, name)
  BY NamesLeft
<1>4. entry \in Entry /\ entry.name = name
  <2>1. Count(map, name) \in Int
    <3>1. \A i \in DOMAIN map : map[i].n \in Int
      <4>1. \A i \in 1 .. Len(map) : map[i] \in Entry
        BY ElementOfSeq
      <4> QED BY <4>1 DEF Entry
    <3> QED BY <3>1 DEF Count, Places
  <2> QED BY <2>1 DEF NewEntry, Entry
<1> DEFINE rest == Others(map, name)
<1> HIDE DEF entry, rest
<1>5. /\ grown \in Seq(Entry) /\ Len(grown) = Len(rest) + 1 /\ grown[Len(rest) + 1] = entry
      /\ \A i \in 1 .. Len(rest) : grown[i] = rest[i]
  <2>1. rest \in Seq(Entry)
    BY <1>3 DEF rest
  <2> QED BY <1>4, <2>1, AppendProperties DEF rest
<1> HIDE DEF grown, names
<1>6. NamesIn(grown) = last
  <2>1. last = Append(NamesIn(rest), name)
    BY <1>3 DEF Latest, Left, rest
  <2> DEFINE left == NamesIn(rest)
  <2>2. left \in Seq(Names) /\ Len(left) = Len(rest) /\ Len(rest) \in Nat
    <3>1. rest \in Seq(Entry)
      BY <1>3 DEF rest
    <3> QED BY <3>1, NamesLeft
  <2>3. \A i \in 1 .. Len(rest) : left[i] = rest[i].name
    BY DEF NamesIn
  <2> HIDE DEF left
  <2>4. /\ Append(left, name) \in Seq(Names) /\ Len(Append(left, name)) = Len(rest) + 1
        /\ Append(left, name)[Len(rest) + 1] = name
        /\ \A i \in 1 .. Len(rest) : Append(left, name)[i] = left[i]
    BY <2>2, AppendProperties
  <2>5. NamesIn(grown) \in Seq(Names) /\ Len(NamesIn(grown)) = Len(rest) + 1
        /\ \A i \in 1 .. Len(rest) + 1 : NamesIn(grown)[i] = grown[i].name
    <3>1. NamesIn(grown) \in Seq(Names) /\ Len(NamesIn(grown)) = Len(grown)
      BY <1>5, NamesLeft
    <3>2. \A i \in 1 .. Len(grown) : NamesIn(grown)[i] = grown[i].name
      BY DEF NamesIn
    <3> QED BY <1>5, <3>1, <3>2
  <2>6. ASSUME NEW i \in 1 .. Len(rest) + 1 PROVE NamesIn(grown)[i] = Append(left, name)[i]
    <3>1. CASE i = Len(rest) + 1
      BY <1>4, <1>5, <2>4, <2>5, <3>1
    <3>2. CASE i # Len(rest) + 1
      <4>1. i \in 1 .. Len(rest)
        BY <2>2, <3>2
      <4> QED BY <1>5, <2>3, <2>4, <2>5, <4>1
    <3> QED BY <3>1, <3>2
  <2>7. NamesIn(grown) = Append(left, name)
    BY <2>4, <2>5, <2>6, SeqEqual
  <2> QED BY <2>1, <2>7 DEF left
<1>7. /\ last \in Seq(Names) /\ Latest(seen, name) \in Seq(Names)
      /\ EndOf(last, Latest(seen, name)) /\ Apart(Latest(seen, name))
  <2>1. names \in Seq(Names) /\ EndOf(names, seen)
    BY <1>3 DEF names
  <2> QED BY <2>1, LatestEnd
<1>8. Len(grown) = Len(last) /\ Len(last) \in Nat /\ Len(map) \in Nat
  BY <1>5, <1>6, <1>7, NamesLeft
<1>9. Len(rest) <= Len(map) /\ Len(rest) \in Nat
  <2>1. PICK p \in Nat : TakenOut(names, Left(names, name), name, p)
    BY <1>3, LeftMeans
  <2>2. Len(Left(names, name)) = Len(rest)
    <3>1. rest \in Seq(Entry) /\ NamesIn(rest) = Left(names, name)
      BY <1>3 DEF rest
    <3> QED BY <3>1, NamesLeft
  <2>3. rest \in Seq(Entry)
    BY <1>3 DEF rest
  <2>4. Len(Left(names, name)) <= Len(names)
    <3>1. p <= Len(names) \/ p = Len(names) + 1
      BY <1>3, <1>8, <2>1 DEF TakenOut
    <3> QED BY <1>3, <1>8, <2>1, <3>1 DEF TakenOut
  <2> QED BY <1>3, <2>2, <2>3, <2>4
<1> HIDE DEF last
<1>10. CASE Len(grown) > max
  <2>1. new = Tail(grown)
    BY <1>2, <1>10
  <2>2. /\ Tail(grown) \in Seq(Entry) /\ Len(Tail(grown)) = Len(grown) - 1
        /\ \A i \in 1 .. Len(Tail(grown)) : Tail(grown)[i] = grown[i + 1]
    BY <1>5, <1>9, HeadTailProperties
  <2>3. NamesIn(grown) # << >>
    BY <1>5, <1>6, <1>8, <1>9
  <2>4. NamesIn(Tail(grown)) = Tail(NamesIn(grown))
    <3>1. /\ Tail(last) \in Seq(Names) /\ Len(Tail(last)) = Len(last) - 1
          /\ \A i \in 1 .. Len(Tail(last)) : Tail(last)[i] = last[i + 1]
      BY <1>6, <1>7, <2>3, HeadTailProperties
    <3> DEFINE t == Tail(grown)
    <3> HIDE DEF t
    <3>2. NamesIn(t) \in Seq(Names) /\ Len(NamesIn(t)) = Len(last) - 1
      BY <1>8, <2>2, NamesLeft DEF t
    <3>3. ASSUME NEW i \in 1 .. Len(last) - 1 PROVE NamesIn(t)[i] = Tail(last)[i]
      <4>1. i + 1 \in 1 .. Len(grown) /\ i \in 1 .. Len(t)
        BY <1>8, <2>2 DEF t
      <4>2. NamesIn(t)[i] = t[i].name /\ t[i] = grown[i + 1]
        BY <2>2, <4>1 DEF NamesIn, t
      <4>3. NamesIn(grown)[i + 1] = grown[i + 1].name
        BY <4>1 DEF NamesIn
      <4> QED BY <1>6, <3>1, <4>2, <4>3
    <3>4. NamesIn(t) = Tail(last)
      BY <3>1, <3>2, <3>3, SeqEqual
    <3> QED BY <1>6, <3>4 DEF t
  <2>5. EndOf(NamesIn(new), Latest(seen, name))
    BY <1>6, <1>7, <2>1, <2>3, <2>4, TailEnd
  <2>6. Len(new) <= Len(map) /\ Len(new) >= max
    BY <1>5, <1>8, <1>9, <1>10, <2>1, <2>2
  <2> QED BY <1>7, <2>1, <2>2, <2>5, <2>6
<1>11. CASE ~(Len(grown) > max)
  <2>1. new = grown /\ Len(new) <= max
    BY <1>2, <1>8, <1>11
  <2> QED BY <1>5, <1>6, <1>7, <1>8, <2>1 DEF last, names
<1> QED BY <1>10, <1>11

\* A map holds all names there were, or as many as some maxEntries allows.
Filled(map, seen) ==
  /\ Len(map) < Len(seen) => \E c \in Caps : 0 < c /\ c <= Len(map)
  /\ \E c \in Caps \cup {0} : Len(map) <= c

Recent(map, seen) ==
  /\ map \in Seq(Entry) /\ seen \in Seq(Names)
  /\ Apart(seen) /\ EndOf(NamesIn(map), seen) /\ Filled(map, seen)

LruInv == /\ cap \in [Stats -> Caps]
          /\ DOMAIN keys = Stats /\ DOMAIN recent = Stats
          /\ \A s \in Stats : DOMAIN keys[s] = Kinds /\ DOMAIN recent[s] = Kinds
          /\ \A s \in Stats, kind \in Kinds : Recent(keys[s][kind], recent[s][kind])

\* A name that is counted: the new map is as full as it should be.
LEMMA CountedRecent ==
  ASSUME NEW map, NEW seen, Recent(map, seen), NEW name \in Names, NEW max \in Caps, max > 0,
         NEW new, new = Increment(map, name, max, 1)
  PROVE  Recent(new, Latest(seen, name))
<1> DEFINE names == NamesIn(map)
           list  == Latest(seen, name)
           last  == Latest(names, name)
<1>1. map \in Seq(Entry) /\ seen \in Seq(Names) /\ Apart(seen) /\ EndOf(names, seen)
      /\ Filled(map, seen) /\ max \in Int
  BY StatsAssumption DEF Recent
<1>2. /\ new \in Seq(Entry) /\ list \in Seq(Names) /\ Apart(list) /\ EndOf(NamesIn(new), list)
      /\ Len(new) <= max \/ Len(new) <= Len(map)
      /\ Len(new) = Len(last) \/ Len(new) >= max
  BY <1>1, Incremented
<1>3. Len(new) \in Nat /\ Len(map) \in Nat /\ Len(list) \in Nat
  BY <1>1, <1>2
<1>4. \E c \in Caps \cup {0} : Len(new) <= c
  <2>1. CASE Len(new) <= max
    BY <2>1
  <2>2. CASE Len(new) <= Len(map)
    <3>1. PICK c \in Caps \cup {0} : Len(map) <= c
      BY <1>1 DEF Filled
    <3>2. c \in Int
      BY StatsAssumption
    <3> QED BY <1>3, <2>2, <3>1, <3>2
  <2> QED BY <1>2, <2>1, <2>2
<1>5. ASSUME Len(new) < Len(list) PROVE \E c \in Caps : 0 < c /\ c <= Len(new)
  <2>1. CASE Len(new) >= max
    BY <2>1
  <2>2. CASE Len(new) = Len(last)
    <3>1. PICK p \in Nat : TakenOut(names, Left(names, name), name, p)
      BY <1>1, NamesLeft, LeftMeans
    <3>2. PICK q \in Nat : TakenOut(seen, Left(seen, name), name, q)
      BY <1>1, LeftMeans
    <3>3. Len(names) = Len(map) /\ names \in Seq(Names) /\ Len(names) <= Len(seen) /\ Len(seen) \in Nat
      BY <1>1, NamesLeft DEF EndOf
    <3>4. Len(last) = Len(Left(names, name)) + 1 /\ Len(list) = Len(Left(seen, name)) + 1
      <4>1. last = Append(Left(names, name), name) /\ list = Append(Left(seen, name), name)
        BY DEF Latest, Left
      <4>2. Left(names, name) \in Seq(Names) /\ Left(seen, name) \in Seq(Names)
        BY <1>1, <3>3, LeftMeans
      <4> DEFINE x == Left(names, name)
                 y == Left(seen, name)
      <4> HIDE DEF x, y
      <4> QED BY <4>1, <4>2, AppendProperties DEF x, y
    <3>5. Len(Left(names, name)) = IF p <= Len(map) THEN Len(map) - 1 ELSE Len(map)
      BY <1>3, <3>1, <3>3 DEF TakenOut
    <3>6. Len(Left(seen, name)) = IF q <= Len(seen) THEN Len(seen) - 1 ELSE Len(seen)
      BY <3>2, <3>3 DEF TakenOut
    <3>7. p <= Len(map) => q <= Len(seen)
      <4> SUFFICES ASSUME p <= Len(map), ~(q <= Len(seen)) PROVE FALSE
        OBVIOUS
      <4>1. names[p] = name /\ p \in 1 .. Len(names)
        BY <3>1, <3>3 DEF TakenOut
      <4>2. seen[Len(seen) - Len(names) + p] = name /\ Len(seen) - Len(names) + p \in 1 .. Len(seen)
        BY <1>1, <1>3, <3>3, <4>1 DEF EndOf
      <4>3. q = Len(seen) + 1
        BY <3>2, <3>3 DEF TakenOut
      <4> QED BY <3>2, <4>2, <4>3 DEF TakenOut
    <3>8. Len(map) < Len(seen) /\ Len(map) <= Len(new)
      BY <1>3, <1>5, <2>2, <3>3, <3>4, <3>5, <3>6, <3>7
    <3>9. PICK c \in Caps : 0 < c /\ c <= Len(map)
      BY <1>1, <3>8 DEF Filled
    <3>10. c \in Int
      BY StatsAssumption
    <3> QED BY <1>3, <3>8, <3>9, <3>10
  <2> QED BY <1>2, <2>1, <2>2
<1> QED BY <1>2, <1>4, <1>5 DEF Recent, Filled

\* An event: the objects that listen count it, with both lists or with none.
LEMMA EmitRecent ==
  ASSUME Inv, LruInv, NEW k \in Keyvs, NEW kind \in Kinds, NEW name \in Names \cup {NoKey},
         Emit(k, kind, name), recent' = Counted(k, kind, name)
  PROVE  LruInv'
<1>1. \A s \in Stats : listeners[k][s] \in {0, 1} /\ cap[s] \in Int /\ cap[s] \in Caps
  BY StatsAssumption DEF Inv, ListenersAccounted, LruInv
<1>2. cap' = cap /\ DOMAIN keys' = Stats /\ DOMAIN recent' = Stats
  BY DEF Emit, Counted, settings
<1>3. ASSUME NEW s \in Stats
      PROVE  /\ DOMAIN keys'[s] = Kinds /\ DOMAIN recent'[s] = Kinds
             /\ \A other \in Kinds : Recent(keys'[s][other], recent'[s][other])
  <2> DEFINE new == Increment(keys[s][kind], name, cap[s], listeners[k][s])
  <2>1. keys'[s] = [keys[s] EXCEPT ![kind] = new]
    BY DEF Emit
  <2>2. /\ DOMAIN keys[s] = Kinds /\ DOMAIN recent[s] = Kinds
        /\ \A other \in Kinds : Recent(keys[s][other], recent[s][other])
    BY DEF LruInv
  <2>3. CASE listeners[k][s] > 0 /\ cap[s] > 0 /\ name # NoKey
    <3>1. new = Increment(keys[s][kind], name, cap[s], 1) /\ name \in Names
      BY <1>1, <2>3
    <3>2. recent'[s] = [recent[s] EXCEPT ![kind] = Latest(recent[s][kind], name)]
      BY <2>3 DEF Counted
    <3> HIDE DEF new
    <3>3. Recent(new, Latest(recent[s][kind], name))
      BY <1>1, <2>2, <2>3, <3>1, CountedRecent
    <3> QED BY <2>1, <2>2, <3>2, <3>3
  <2>4. CASE ~(listeners[k][s] > 0 /\ cap[s] > 0 /\ name # NoKey)
    <3>1. recent'[s] = recent[s]
      BY <2>4 DEF Counted
    <3>2. cap[s] <= 0 \/ name = NoKey \/ listeners[k][s] = 0
      BY <1>1, <2>4
    <3>3. new = keys[s][kind]
      BY <3>2 DEF Increment
    <3> QED BY <2>1, <2>2, <3>1, <3>3
  <2> QED BY <2>3, <2>4
<1> QED BY <1>1, <1>2, <1>3 DEF LruInv

\* reset(), and a new object.
LEMMA NothingRecent == Recent(<< >>, << >>)
<1>1. << >> \in Seq(Entry) /\ << >> \in Seq(Names) /\ Len(<< >>) = 0
  OBVIOUS
<1>2. NamesIn(<< >>) = << >>
  BY <1>1 DEF NamesIn
<1> QED BY <1>1, <1>2 DEF Recent, Apart, EndOf, Filled

LEMMA ResetRecent ==
  ASSUME LruInv, NEW s \in Stats, Reset(s),
         recent' = [recent EXCEPT ![s] = [kind \in Kinds |-> << >>]]
  PROVE  LruInv'
<1>1. cap' = cap /\ keys' = [keys EXCEPT ![s] = [kind \in Kinds |-> << >>]]
  BY DEF Reset, settings
<1> QED BY <1>1, NothingRecent DEF LruInv

LEMMA StepRecent == Inv /\ LruInv /\ [HNext]_hvars => LruInv'
<1> SUFFICES ASSUME Inv, LruInv, [HNext]_hvars PROVE LruInv'
  OBVIOUS
<1>1. ASSUME NEW k \in Keyvs, NEW kind \in Kinds, NEW name \in Names \cup {NoKey},
             Emit(k, kind, name), recent' = Counted(k, kind, name)
      PROVE  LruInv'
  BY <1>1, EmitRecent
<1>2. ASSUME UNCHANGED <<keys, recent>>, cap' \in [Stats -> Caps] PROVE LruInv'
  BY <1>2 DEF LruInv
<1>3. ASSUME NEW k \in Keyvs, NEW s \in Stats, SetStats(k, s) \/ Subscribe(s, k), UNCHANGED recent
      PROVE  LruInv'
  <2>1. UNCHANGED <<cap, keys>>
    BY <1>3 DEF SetStats, Subscribe, tallies, settings
  <2> QED BY <1>2, <1>3, <2>1 DEF LruInv
<1>4. ASSUME NEW s \in Stats, NEW on \in BOOLEAN, SetEnabled(s, on), UNCHANGED recent PROVE LruInv'
  <2>1. UNCHANGED <<cap, keys>>
    BY <1>4 DEF SetEnabled, tallies
  <2> QED BY <1>2, <1>4, <2>1 DEF LruInv
<1>5. ASSUME NEW s \in Stats, NEW n \in Caps, SetMaxEntries(s, n), UNCHANGED recent PROVE LruInv'
  BY <1>2, <1>5 DEF SetMaxEntries, tallies, LruInv
<1>6. ASSUME NEW s \in Stats, Unsubscribe(s), UNCHANGED recent PROVE LruInv'
  BY <1>2, <1>6 DEF Unsubscribe, tallies, settings, LruInv
<1>7. ASSUME NEW s \in Stats, Reset(s), recent' = [recent EXCEPT ![s] = [kind \in Kinds |-> << >>]]
      PROVE  LruInv'
  BY <1>7, ResetRecent
<1>8. CASE UNCHANGED hvars
  BY <1>2, <1>8 DEF hvars, vars, settings, tallies, LruInv
<1> QED BY <1>1, <1>3, <1>4, <1>5, <1>6, <1>7, <1>8 DEF HNext

\* Whatever is emitted, reset and set on the way, each map holds the names that
\* were counted last, in that order, and evicts the oldest of them, not before
\* it is as full as some maxEntries allows: for any settings of maxEntries, changed at any time.
THEOREM MapsAreLru == HSpec => []MapIsLru
<1>1. HInit => Inv /\ LruInv
  <2> SUFFICES ASSUME HInit PROVE LruInv
    BY InitInv DEF HInit
  <2> QED BY NothingRecent DEF HInit, Init, LruInv
<1>2. Inv /\ LruInv /\ [HNext]_hvars => (Inv /\ LruInv)'
  <2>1. [HNext]_hvars => [Next]_vars
    BY DEF HNext, Next, hvars
  <2> QED BY <2>1, NextInv, StepRecent
<1>3. LruInv => MapIsLru
  <2>1. ASSUME NEW map, NEW seen, Recent(map, seen)
        PROVE  /\ Len(map) < Len(seen) => \E c \in Caps : 0 < c /\ c <= Len(map)
               /\ \E c \in Caps \cup {0} : Len(map) <= c
               /\ Len(map) <= Len(seen)
               /\ \A i \in DOMAIN map : map[i].name = seen[Len(seen) - Len(map) + i]
    <3>1. Len(NamesIn(map)) = Len(map) /\ DOMAIN map = 1 .. Len(map)
          /\ \A i \in 1 .. Len(map) : NamesIn(map)[i] = map[i].name
      BY <2>1 DEF Recent, NamesIn
    <3> QED BY <2>1, <3>1 DEF Recent, EndOf, Filled
  <2>2. LruInv => \A s \in Stats, kind \in Kinds : Recent(keys[s][kind], recent[s][kind])
    BY DEF LruInv
  <2> QED BY <2>1, <2>2 DEF MapIsLru
<1> QED BY <1>1, <1>2, <1>3, PTL DEF HSpec
=============================================================================
