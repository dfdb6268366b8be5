------------------------------ MODULE EtcdProofs ------------------------------
(***************************************************************************)
(* An entry of the etcd adapter that carries a deadline hangs on a lease   *)
(* that ends no earlier, for any callers, keys, deadlines, leases and      *)
(* length of the second.  Three things keep it so: a call that is going to *)
(* ask for a lease asks for enough seconds, counted from now; the lease of *)
(* a call that is going to put is long enough, or is gone; and what is     *)
(* stored hangs on a lease that is neither unused nor gone.                *)
(*   The second part is about the answers of set().                        *)
(***************************************************************************)
EXTENDS EtcdAdapter, TLAPS

Ops   == {"get", "delete", "set", "setMany", "clear", "iterate"}
Steps == {"unused", "grant", "put", "read", "remove", "done"}
Flags == [Keys -> BOOLEAN]
Call  == [op : Ops, e : Int, seconds : Int, step : [Keys -> Steps],
         lease : [Keys -> Leases \cup {NoLease}],
         said : Flags, applied : Flags, listing : BOOLEAN]

Typed == /\ clock \in Nat /\ ends \in [Leases -> Int]
         /\ calls \in [Callers -> Call]

LongEnough(by, e, l) == l \in Leases /\ by[l] > 0 /\ by[l] >= e

Asking == \A c \in Callers, k \in Keys : At(c, k, "grant") /\ calls[c].e # Never =>
            calls[c].seconds >= 1 /\ calls[c].e <= clock + calls[c].seconds * Second

Holding == \A c \in Callers, k \in Keys : At(c, k, "put") /\ calls[c].e # Never =>
             \/ LongEnough(ends, calls[c].e, calls[c].lease[k])
             \/ calls[c].lease[k] \in Leases /\ ends[calls[c].lease[k]] = Revoked

Hanging == \A k \in DOMAIN kv : kv[k].e # Never => LongEnough(ends, kv[k].e, kv[k].lease)

Inv == Typed /\ Asking /\ Holding /\ Hanging

\* Rounding up: the seconds asked for reach the deadline.
LEMMA CeilReaches ==
  ASSUME NEW t \in Int
  PROVE  CeilSeconds(t) \in Int /\ t <= CeilSeconds(t) * Second
<1>1. Second \in Nat /\ Second > 0
  BY EtcdAssumption
<1> DEFINE q == (-t) \div Second
<1>2. q \in Int /\ q * Second <= -t
  BY <1>1
<1>3. (-q) * Second = -(q * Second)
  BY <1>1, <1>2
<1> QED BY <1>1, <1>2, <1>3 DEF CeilSeconds

LEMMA LeaseReaches ==
  ASSUME clock \in Nat, NEW e \in Int
  PROVE  LeaseSeconds(e) \in Int /\ LeaseSeconds(e) >= 1 /\ e <= clock + LeaseSeconds(e) * Second
<1> DEFINE n == CeilSeconds(e - clock)
<1>1. n \in Int /\ e - clock <= n * Second
  BY CeilReaches
<1>2. Second \in Nat /\ Second > 0
  BY EtcdAssumption
<1>3. LeaseSeconds(e) = IF n < 1 THEN 1 ELSE n
  BY DEF LeaseSeconds, AtLeastOne
<1> HIDE DEF n
<1>4. CASE n < 1
  <2>1. n * Second <= Second
    BY <1>1, <1>2, <1>4
  <2> QED BY <1>1, <1>2, <1>3, <1>4, <2>1
<1> QED BY <1>1, <1>2, <1>3, <1>4

LEMMA IdleCall == Idle \in Call /\ \A k \in Keys : Idle.step[k] = "unused"
BY DEF Idle, Call, Ops, Steps, Flags, Never, NoLease

LEMMA InitInv == Init => Inv
<1> SUFFICES ASSUME Init PROVE Inv
  OBVIOUS
<1>1. Idle \in Call
  BY IdleCall
<1>2. Typed
  BY <1>1 DEF Init, Typed
<1>3. \A c \in Callers, k \in Keys : ~At(c, k, "grant") /\ ~At(c, k, "put")
  BY DEF Init, At, Idle
<1> QED BY <1>2, <1>3 DEF Inv, Init, Asking, Holding, Hanging

-----------------------------------------------------------------------------
(* What a step may do to the calls.                                          *)

\* It changes one call, revokes nothing, and stores nothing; the call lets a
\* key be, is done with it, or has come to hold a lease that is long enough.
LEMMA QuietCalls ==
  ASSUME Inv, NEW c \in Callers, calls' \in [Callers -> Call],
         \A d \in Callers \ {c} : calls'[d] = calls[d], UNCHANGED clock,
         ends' \in [Leases -> Int], \A m \in Leases : ends[m] # 0 => ends'[m] = ends[m],
         \A k \in Keys : calls'[c].step[k] \notin {"grant", "put"} \/
           /\ calls'[c].e = calls[c].e /\ calls'[c].seconds = calls[c].seconds
           /\ \/ calls'[c].step[k] = calls[c].step[k] /\ calls'[c].lease[k] = calls[c].lease[k]
              \/ calls'[c].step[k] = "put"
                 /\ (calls[c].e # Never => LongEnough(ends', calls[c].e, calls'[c].lease[k]))
  PROVE  Typed' /\ Asking' /\ Holding'
<1>1. Typed'
  BY DEF Inv, Typed
<1>2. Asking'
  BY DEF Inv, Asking, At
<1>3. \A e, m : LongEnough(ends, e, m) => LongEnough(ends', e, m)
  BY DEF LongEnough, Inv, Typed
<1>4. \A m \in Leases : ends[m] = Revoked => ends'[m] = Revoked
  BY DEF Revoked
<1>5. Holding'
  <2> SUFFICES ASSUME NEW d \in Callers, NEW k \in Keys, At(d, k, "put")', calls'[d].e # Never
               PROVE  \/ LongEnough(ends', calls'[d].e, calls'[d].lease[k])
                      \/ calls'[d].lease[k] \in Leases /\ ends'[calls'[d].lease[k]] = Revoked
    BY DEF Holding
  <2>1. CASE d # c \/ (calls'[d].step[k] = calls[d].step[k] /\ calls'[d].e = calls[d].e
                       /\ calls'[d].lease[k] = calls[d].lease[k])
    <3>1. /\ At(d, k, "put") /\ calls'[d].e = calls[d].e
          /\ calls'[d].lease[k] = calls[d].lease[k]
      BY <2>1 DEF At
    <3>2. \/ LongEnough(ends, calls[d].e, calls[d].lease[k])
          \/ calls[d].lease[k] \in Leases /\ ends[calls[d].lease[k]] = Revoked
      BY <3>1 DEF Inv, Holding
    <3> QED BY <1>4, <3>1, <3>2 DEF LongEnough
  <2>2. CASE d = c /\ calls'[c].e = calls[c].e /\ LongEnough(ends', calls[c].e, calls'[c].lease[k])
    BY <2>2 DEF LongEnough
  <2> QED BY <2>1, <2>2 DEF At
<1> QED BY <1>1, <1>2, <1>5

LEMMA QuietStep ==
  ASSUME Inv, NEW c \in Callers, calls' \in [Callers -> Call],
         \A d \in Callers \ {c} : calls'[d] = calls[d], UNCHANGED clock,
         ends' \in [Leases -> Int], \A m \in Leases : ends[m] # 0 => ends'[m] = ends[m],
         \A k \in DOMAIN kv' : k \in DOMAIN kv /\ kv'[k] = kv[k],
         \A k \in Keys : calls'[c].step[k] \notin {"grant", "put"} \/
           /\ calls'[c].e = calls[c].e /\ calls'[c].seconds = calls[c].seconds
           /\ \/ calls'[c].step[k] = calls[c].step[k] /\ calls'[c].lease[k] = calls[c].lease[k]
              \/ calls'[c].step[k] = "put"
                 /\ (calls[c].e # Never => LongEnough(ends', calls[c].e, calls'[c].lease[k]))
  PROVE  Inv'
<1>1. Typed' /\ Asking' /\ Holding'
  BY QuietCalls
<1>2. \A e, m : LongEnough(ends, e, m) => LongEnough(ends', e, m)
  BY DEF LongEnough, Inv, Typed
<1>3. Hanging'
  BY <1>2 DEF Inv, Hanging
<1> QED BY <1>1, <1>3 DEF Inv

\* What a call is after it is over for one key.
LEMMA EndedCall ==
  ASSUME Typed, NEW c \in Callers, NEW k \in Keys, NEW ok \in BOOLEAN, NEW stored \in BOOLEAN,
         calls' = Ended(c, k, ok, stored)
  PROVE  /\ calls' \in [Callers -> Call] /\ \A d \in Callers \ {c} : calls'[d] = calls[d]
         /\ calls'[c].e = calls[c].e /\ calls'[c].seconds = calls[c].seconds
         /\ calls'[c].step[k] = "done"
         /\ \A j \in Keys \ {k} : calls'[c].step[j] = calls[c].step[j]
                                  /\ calls'[c].lease[j] = calls[c].lease[j]
<1> DEFINE s1 == [calls EXCEPT ![c].step[k] = "done"]
           s2 == [s1 EXCEPT ![c].lease[k] = NoLease]
           s3 == [s2 EXCEPT ![c].said[k] = Reported(c, ok)]
           s4 == [s3 EXCEPT ![c].applied[k] = stored]
<1>1. calls' = s4
  BY DEF Ended
<1>2. Reported(c, ok) \in BOOLEAN
  BY DEF Reported
<1>3. /\ s1 \in [Callers -> Call] /\ \A d \in Callers \ {c} : s1[d] = calls[d]
      /\ s1[c].e = calls[c].e /\ s1[c].seconds = calls[c].seconds
      /\ s1[c].lease = calls[c].lease /\ s1[c].step = [calls[c].step EXCEPT ![k] = "done"]
  BY DEF Typed, Call, Steps
<1> HIDE DEF s1
<1>4. /\ s2 \in [Callers -> Call] /\ \A d \in Callers \ {c} : s2[d] = s1[d]
      /\ s2[c].e = s1[c].e /\ s2[c].seconds = s1[c].seconds
      /\ s2[c].step = s1[c].step /\ s2[c].lease = [s1[c].lease EXCEPT ![k] = NoLease]
  BY <1>3 DEF Call
<1> HIDE DEF s2
<1>5. \A f \in Flags, b \in BOOLEAN : [f EXCEPT ![k] = b] \in Flags
  BY DEF Flags
<1>6. /\ s3 \in [Callers -> Call] /\ \A d \in Callers \ {c} : s3[d] = s2[d]
      /\ s3[c].e = s2[c].e /\ s3[c].seconds = s2[c].seconds
      /\ s3[c].step = s2[c].step /\ s3[c].lease = s2[c].lease
  BY <1>2, <1>4, <1>5 DEF Call
<1> HIDE DEF s3
<1>7. /\ s4 \in [Callers -> Call] /\ \A d \in Callers \ {c} : s4[d] = s3[d]
      /\ s4[c].e = s3[c].e /\ s4[c].seconds = s3[c].seconds
      /\ s4[c].step = s3[c].step /\ s4[c].lease = s3[c].lease
  BY <1>5, <1>6 DEF Call
<1> HIDE DEF s4
<1>8. calls[c].step \in [Keys -> Steps] /\ calls[c].lease \in [Keys -> Leases \cup {NoLease}]
  BY DEF Typed, Call
<1> QED BY <1>1, <1>3, <1>4, <1>6, <1>7, <1>8

-----------------------------------------------------------------------------
(* The steps. *)

LEMMA WriteInv ==
  ASSUME Inv, NEW c \in Callers, NEW op \in {"set", "setMany"}, NEW K \in Batches,
         NEW e \in Deadlines, Write(c, op, K, e)
  PROVE  Inv'
<1>1. e \in Int /\ clock \in Nat
  <2>1. clock \in Nat
    BY DEF Inv, Typed
  <2>2. ASSUME NEW life \in Lives PROVE clock + life \in Int
    <3>1. life \in Int
      BY EtcdAssumption
    <3> QED BY <2>1, <3>1
  <2>3. Never \in Int
    BY DEF Never
  <2> QED BY <2>1, <2>2, <2>3 DEF Deadlines
<1> DEFINE n == IF e = Never THEN 0 ELSE LeaseSeconds(e)
           r == [Idle EXCEPT !.op = op, !.e = e, !.seconds = n,
                             !.step = [k \in Keys |-> IF k \in K THEN FirstStep(e) ELSE "unused"],
                             !.said = [k \in Keys |-> k \in K /\ FirstStep(e) = "done"]]
<1>2. n \in Int /\ (e # Never => n >= 1 /\ e <= clock + n * Second)
  BY <1>1, LeaseReaches
<1>3. FirstStep(e) \in {"put", "done", "grant"} /\ (e # Never => FirstStep(e) = "grant")
  BY DEF FirstStep
<1>4. [k \in Keys |-> k \in K /\ FirstStep(e) = "done"] \in Flags
  BY DEF Flags
<1>5. [k \in Keys |-> FALSE] \in Flags
  BY DEF Flags
<1> HIDE DEF n
<1>6. /\ r \in Call /\ r.e = e /\ r.seconds = n
      /\ r.step = [k \in Keys |-> IF k \in K THEN FirstStep(e) ELSE "unused"]
  BY <1>1, <1>2, <1>3, <1>4, <1>5 DEF Idle, Call, Ops, Steps, NoLease
<1>7. calls' = [calls EXCEPT ![c] = r] /\ UNCHANGED <<clock, kv, ends>>
  BY DEF Write, n
<1> HIDE DEF r
<1>8. calls'[c] = r /\ \A d \in Callers \ {c} : calls'[d] = calls[d]
  BY <1>7 DEF Inv, Typed
<1>9. Typed'
  BY <1>6, <1>7 DEF Inv, Typed
<1>10. Asking'
  BY <1>2, <1>6, <1>7, <1>8 DEF Inv, Asking, At
<1>11. Holding'
  BY <1>3, <1>6, <1>7, <1>8 DEF Inv, Holding, At, LongEnough
<1>12. Hanging'
  BY <1>7 DEF Inv, Hanging, LongEnough
<1> QED BY <1>9, <1>10, <1>11, <1>12 DEF Inv

\* A call on one key that ends without storing its entry.
LEMMA OverInv ==
  ASSUME Inv, NEW c \in Callers, NEW k \in Keys, NEW ok \in BOOLEAN,
         calls' = Answered(c, k, ok), UNCHANGED <<clock, ends>>,
         \A j \in DOMAIN kv' : j \in DOMAIN kv /\ kv'[j] = kv[j]
  PROVE  Inv'
<1>1. /\ calls' \in [Callers -> Call] /\ \A d \in Callers \ {c} : calls'[d] = calls[d]
      /\ calls'[c].e = calls[c].e /\ calls'[c].seconds = calls[c].seconds
      /\ calls'[c].step[k] = "done"
      /\ \A j \in Keys \ {k} : calls'[c].step[j] = calls[c].step[j]
                               /\ calls'[c].lease[j] = calls[c].lease[j]
  <2>1. calls' = Ended(c, k, ok, FALSE)
    BY DEF Answered
  <2> QED BY <2>1, EndedCall DEF Inv
<1> QED BY <1>1, QuietStep DEF Inv, Typed

\* What a call is after it got its lease.
LEMMA HeldCall ==
  ASSUME Typed, NEW c \in Callers, NEW k \in Keys, NEW l \in Leases, Hold(c, k, l)
  PROVE  /\ calls' \in [Callers -> Call] /\ \A d \in Callers \ {c} : calls'[d] = calls[d]
         /\ calls'[c].e = calls[c].e /\ calls'[c].seconds = calls[c].seconds
         /\ calls'[c].step[k] = "put" /\ calls'[c].lease[k] = l
         /\ \A j \in Keys \ {k} : calls'[c].step[j] = calls[c].step[j]
                                  /\ calls'[c].lease[j] = calls[c].lease[j]
<1> DEFINE s1 == [calls EXCEPT ![c].step[k] = "put"]
           s2 == [s1 EXCEPT ![c].lease[k] = l]
<1>1. calls' = s2
  BY DEF Hold
<1>2. /\ s1 \in [Callers -> Call] /\ \A d \in Callers \ {c} : s1[d] = calls[d]
      /\ s1[c].e = calls[c].e /\ s1[c].seconds = calls[c].seconds
      /\ s1[c].lease = calls[c].lease /\ s1[c].step = [calls[c].step EXCEPT ![k] = "put"]
  BY DEF Typed, Call, Steps
<1> HIDE DEF s1
<1>3. /\ s2 \in [Callers -> Call] /\ \A d \in Callers \ {c} : s2[d] = s1[d]
      /\ s2[c].e = s1[c].e /\ s2[c].seconds = s1[c].seconds
      /\ s2[c].step = s1[c].step /\ s2[c].lease = [s1[c].lease EXCEPT ![k] = l]
  BY <1>2 DEF Call
<1> HIDE DEF s2
<1>4. calls[c].step \in [Keys -> Steps] /\ calls[c].lease \in [Keys -> Leases \cup {NoLease}]
  BY DEF Typed, Call
<1> QED BY <1>1, <1>2, <1>3, <1>4

\* A grant takes a lease that is unused, and leaves the others alone.
LEMMA GrantedLease ==
  ASSUME Typed, NEW l \in Leases, NEW n \in Int, Granted(l, n)
  PROVE  /\ ends' \in [Leases -> Int] /\ ends'[l] > 0
         /\ n >= 1 => ends'[l] = clock + n * Second
         /\ \A m \in Leases : ends[m] # 0 => ends'[m] = ends[m]
<1>1. /\ ends[l] = 0 /\ ends' = [ends EXCEPT ![l] = clock + AtLeastOne(n) * Second]
      /\ ends \in [Leases -> Int] /\ clock \in Nat
  BY DEF Granted, Typed
<1>2. AtLeastOne(n) \in Int /\ AtLeastOne(n) >= 1 /\ (n >= 1 => AtLeastOne(n) = n)
  BY DEF AtLeastOne
<1> DEFINE m == AtLeastOne(n) * Second
<1>3. m \in Int /\ m > 0
  BY <1>2, EtcdAssumption
<1>4. ends'[l] = clock + m /\ \A j \in Leases \ {l} : ends'[j] = ends[j]
  BY <1>1
<1>5. n >= 1 => ends'[l] = clock + n * Second
  BY <1>2, <1>4
<1> HIDE DEF m
<1>6. ends' \in [Leases -> Int] /\ ends'[l] > 0
  BY <1>1, <1>3, <1>4 DEF m
<1> QED BY <1>1, <1>4, <1>5, <1>6

LEMMA GrantOwnInv ==
  ASSUME Inv, NEW c \in Callers, NEW k \in Keys, GrantOwn(c, k)
  PROVE  Inv'
<1>1. At(c, k, "grant") /\ calls[c].e # Never /\ UNCHANGED <<clock, kv>>
  BY DEF GrantOwn
<1>2. CASE calls' = Answered(c, k, FALSE) /\ UNCHANGED ends
  BY <1>1, <1>2, OverInv
<1>3. ASSUME NEW l \in Leases, Granted(l, calls[c].seconds), Hold(c, k, l) PROVE Inv'
  <2>1. calls[c].seconds \in Int /\ calls[c].e \in Int
    BY DEF Inv, Typed, Call
  <2>2. calls[c].seconds >= 1 /\ calls[c].e <= clock + calls[c].seconds * Second
    BY <1>1 DEF Inv, Asking
  <2>3. /\ ends' \in [Leases -> Int] /\ ends'[l] > 0
        /\ ends'[l] = clock + calls[c].seconds * Second
        /\ \A m \in Leases : ends[m] # 0 => ends'[m] = ends[m]
    BY <1>3, <2>1, <2>2, GrantedLease DEF Inv
  <2>4. LongEnough(ends', calls[c].e, l)
    <3>1. ends'[l] >= calls[c].e
      BY <2>2, <2>3
    <3> QED BY <2>3, <3>1 DEF LongEnough
  <2>5. /\ calls' \in [Callers -> Call] /\ \A d \in Callers \ {c} : calls'[d] = calls[d]
        /\ calls'[c].e = calls[c].e /\ calls'[c].seconds = calls[c].seconds
        /\ calls'[c].step[k] = "put" /\ calls'[c].lease[k] = l
        /\ \A j \in Keys \ {k} : calls'[c].step[j] = calls[c].step[j]
                                 /\ calls'[c].lease[j] = calls[c].lease[j]
    BY <1>3, HeldCall DEF Inv
  <2> QED BY <1>1, <2>3, <2>4, <2>5, QuietStep
<1> QED BY <1>2, <1>3 DEF GrantOwn

LEMMA GrantSharedInv ==
  ASSUME Inv, NEW c \in Callers, NEW k \in Keys, GrantShared(c, k)
  PROVE  Inv'
<1>1. At(c, k, "grant") /\ calls[c].e = Never /\ UNCHANGED <<clock, kv>>
  BY DEF GrantShared
<1>2. ASSUME NEW l \in Leases, Granted(l, DefaultTtl \div Second), UNCHANGED calls PROVE Inv'
  <2>1. DefaultTtl \div Second \in Int
    BY EtcdAssumption
  <2>2. ends' \in [Leases -> Int] /\ \A m \in Leases : ends[m] # 0 => ends'[m] = ends[m]
    BY <1>2, <2>1, GrantedLease DEF Inv
  <2> QED BY <1>1, <1>2, <2>2, QuietStep DEF Inv, Typed
<1>3. CASE UNCHANGED <<ends, calls>>
  BY <1>1, <1>3, QuietStep DEF Inv, Typed
<1>4. CASE calls' = Answered(c, k, FALSE) /\ UNCHANGED ends
  BY <1>1, <1>4, OverInv
<1>5. CASE shared \in Leases /\ Hold(c, k, shared) /\ UNCHANGED ends
  <2>1. /\ calls' \in [Callers -> Call] /\ \A d \in Callers \ {c} : calls'[d] = calls[d]
        /\ calls'[c].e = calls[c].e /\ calls'[c].seconds = calls[c].seconds
        /\ calls'[c].step[k] = "put"
        /\ \A j \in Keys \ {k} : calls'[c].step[j] = calls[c].step[j]
                                 /\ calls'[c].lease[j] = calls[c].lease[j]
    BY <1>5, HeldCall DEF Inv
  <2> QED BY <1>1, <1>5, <2>1, QuietStep DEF Inv, Typed
<1> QED BY <1>2, <1>3, <1>4, <1>5 DEF GrantShared

LEMMA PutInv ==
  ASSUME Inv, NEW c \in Callers, NEW k \in Keys, Put(c, k)
  PROVE  Inv'
<1>1. /\ At(c, k, "put") /\ LeaseLives(calls[c].lease[k]) /\ UNCHANGED <<clock, ends>>
      /\ kv' = [j \in DOMAIN kv \cup {k} |->
                  IF j = k THEN [e |-> calls[c].e, lease |-> calls[c].lease[k]] ELSE kv[j]]
      /\ \E ok \in BOOLEAN : calls' = Ended(c, k, ok, TRUE)
  BY DEF Put, Stored
<1>2. /\ calls' \in [Callers -> Call] /\ \A d \in Callers \ {c} : calls'[d] = calls[d]
      /\ calls'[c].e = calls[c].e /\ calls'[c].seconds = calls[c].seconds
      /\ calls'[c].step[k] = "done"
      /\ \A j \in Keys \ {k} : calls'[c].step[j] = calls[c].step[j]
                               /\ calls'[c].lease[j] = calls[c].lease[j]
  BY <1>1, EndedCall DEF Inv
<1>3. Typed' /\ Asking' /\ Holding'
  BY <1>1, <1>2, QuietCalls DEF Inv, Typed
<1>4. Hanging'
  <2>1. calls[c].e # Never => LongEnough(ends, calls[c].e, calls[c].lease[k])
    <3>1. \A m \in Leases : LeaseLives(m) => ends[m] > 0
      BY EtcdAssumption DEF LeaseLives, NoLease
    <3> QED BY <1>1, <3>1 DEF Inv, Typed, Holding, Revoked
  <2> QED BY <1>1, <2>1 DEF Inv, Hanging
<1> QED BY <1>3, <1>4 DEF Inv

LEMMA AskInv ==
  ASSUME Inv, NEW c \in Callers, NEW op \in {"get", "delete"}, NEW K \in Batches, Ask(c, op, K)
  PROVE  Inv'
<1> DEFINE steps == [k \in Keys |-> IF k \notin K THEN "unused"
                                  ELSE IF op = "delete" THEN "remove" ELSE "read"]
           r == [Idle EXCEPT !.op = op, !.step = steps]
<1>1. steps \in [Keys -> Steps] /\ \A k \in Keys : steps[k] \notin {"grant", "put"}
  BY DEF Steps
<1> HIDE DEF steps
<1>2. r \in Call /\ r.step = steps
  BY <1>1, IdleCall DEF Call, Ops
<1>3. calls' = [calls EXCEPT ![c] = r] /\ UNCHANGED <<clock, kv, ends>>
  BY DEF Ask, steps
<1> HIDE DEF r
<1>4. /\ calls' \in [Callers -> Call] /\ calls'[c] = r
      /\ \A d \in Callers \ {c} : calls'[d] = calls[d]
  BY <1>2, <1>3 DEF Inv, Typed
<1> QED BY <1>1, <1>2, <1>3, <1>4, QuietStep DEF Inv, Typed

LEMMA ClearInv ==
  ASSUME Inv, NEW c \in Callers, Clear(c) \/ Iterate(c)
  PROVE  Inv'
<1>1. /\ [Idle EXCEPT !.op = "clear"] \in Call
      /\ [Idle EXCEPT !.op = "clear"].step = Idle.step
      /\ [Idle EXCEPT !.op = "iterate", !.listing = TRUE] \in Call
      /\ [Idle EXCEPT !.op = "iterate", !.listing = TRUE].step = Idle.step
  BY IdleCall DEF Call, Ops
<1>2. PICK r \in Call : r.step = Idle.step /\ calls' = [calls EXCEPT ![c] = r]
  BY <1>1 DEF Clear, Iterate
<1>3. UNCHANGED <<clock, ends>> /\ \A k \in DOMAIN kv' : k \in DOMAIN kv /\ kv'[k] = kv[k]
  BY DEF Clear, Iterate
<1>4. /\ calls' \in [Callers -> Call] /\ calls'[c] = r
      /\ \A d \in Callers \ {c} : calls'[d] = calls[d]
  BY <1>2 DEF Inv, Typed
<1> QED BY <1>2, <1>3, <1>4, IdleCall, QuietStep DEF Inv, Typed

LEMMA ListInv ==
  ASSUME Inv, NEW c \in Callers, List(c)
  PROVE  Inv'
<1>1. PICK found : calls' = [calls EXCEPT ![c].listing = FALSE,
                       ![c].step = [k \in Keys |-> IF k \in found THEN "read" ELSE "unused"]]
  BY DEF List
<1> DEFINE steps == [k \in Keys |-> IF k \in found THEN "read" ELSE "unused"]
           s1 == [calls EXCEPT ![c].listing = FALSE]
           s2 == [s1 EXCEPT ![c].step = steps]
<1>2. calls' = s2
  BY <1>1
<1>3. steps \in [Keys -> Steps] /\ \A k \in Keys : steps[k] \notin {"grant", "put"}
  BY DEF Steps
<1> HIDE DEF steps
<1>4. s1 \in [Callers -> Call] /\ \A d \in Callers \ {c} : s1[d] = calls[d]
  BY DEF Inv, Typed, Call
<1> HIDE DEF s1
<1>5. /\ s2 \in [Callers -> Call] /\ \A d \in Callers \ {c} : s2[d] = s1[d]
      /\ s2[c].step = steps
  BY <1>3, <1>4 DEF Call
<1> HIDE DEF s2
<1>6. UNCHANGED <<clock, kv, ends>>
  BY DEF List
<1> QED BY <1>2, <1>3, <1>4, <1>5, <1>6, QuietStep DEF Inv, Typed

LEMMA ReadInv ==
  ASSUME Inv, NEW c \in Callers, NEW k \in Keys, Read(c, k)
  PROVE  Inv'
<1>1. UNCHANGED <<clock, kv, ends>>
  BY DEF Read
<1>2. CASE calls' = Moved(c, k, "remove")
  <2>1. /\ calls' \in [Callers -> Call] /\ \A d \in Callers \ {c} : calls'[d] = calls[d]
        /\ calls'[c].e = calls[c].e /\ calls'[c].seconds = calls[c].seconds
        /\ calls'[c].lease = calls[c].lease
        /\ calls'[c].step = [calls[c].step EXCEPT ![k] = "remove"]
    BY <1>2 DEF Moved, Inv, Typed, Call, Steps
  <2>2. calls[c].step \in [Keys -> Steps]
    BY DEF Inv, Typed, Call
  <2>3. calls'[c].step[k] = "remove" /\ \A j \in Keys \ {k} : calls'[c].step[j] = calls[c].step[j]
    BY <2>1, <2>2
  <2> QED BY <1>1, <2>1, <2>3, QuietStep DEF Inv, Typed
<1>3. CASE calls' = Answered(c, k, TRUE)
  BY <1>1, <1>3, OverInv
<1>4. CASE calls' = Answered(c, k, FALSE)
  BY <1>1, <1>4, OverInv
<1> QED BY <1>2, <1>3, <1>4 DEF Read

LEMMA RemoveInv ==
  ASSUME Inv, NEW c \in Callers, NEW k \in Keys, Remove(c, k) \/ PutFails(c, k)
  PROVE  Inv'
<1>1. \A j \in DOMAIN kv' : j \in DOMAIN kv /\ kv'[j] = kv[j]
  BY DEF Remove, PutFails, Without
<1>2. UNCHANGED <<clock, ends>>
  BY DEF Remove, PutFails
<1>3. \E ok \in BOOLEAN : calls' = Answered(c, k, ok)
  BY DEF Remove, PutFails
<1> QED BY <1>1, <1>2, <1>3, OverInv

LEMMA RevokeInv ==
  ASSUME Inv, NEW l \in Leases, Revoke(l)
  PROVE  Inv'
<1>1. /\ ends' = [ends EXCEPT ![l] = Revoked] /\ UNCHANGED <<clock, calls>>
      /\ kv' = [k \in DOMAIN kv \ {j \in DOMAIN kv : kv[j].lease = l} |-> kv[k]]
  BY DEF Revoke, Without
<1>2. ends'[l] = Revoked /\ \A m \in Leases \ {l} : ends'[m] = ends[m]
  BY <1>1 DEF Inv, Typed
<1>3. Typed'
  BY <1>1 DEF Inv, Typed, Revoked
<1>4. Asking'
  BY <1>1 DEF Inv, Asking, At
<1>5. Holding'
  BY <1>1, <1>2 DEF Inv, Holding, At, LongEnough
<1>6. Hanging'
  <2>1. \A k \in DOMAIN kv' : k \in DOMAIN kv /\ kv'[k] = kv[k] /\ kv[k].lease # l
    BY <1>1
  <2> QED BY <1>2, <2>1 DEF Inv, Hanging, LongEnough
<1> QED BY <1>3, <1>4, <1>5, <1>6 DEF Inv

LEMMA TickInv == Inv /\ Tick => Inv'
<1> SUFFICES ASSUME Inv, Tick PROVE Inv'
  OBVIOUS
<1>1. clock \in Nat /\ clock' = clock + 1 /\ UNCHANGED <<kv, ends, calls>>
  BY DEF Tick, Inv, Typed
<1>2. Typed'
  BY <1>1 DEF Inv, Typed
<1>3. Asking'
  <2>1. \A c \in Callers : calls[c].e \in Int /\ calls[c].seconds * Second \in Int
    BY EtcdAssumption DEF Inv, Typed, Call
  <2> QED BY <1>1, <2>1 DEF Inv, Asking, At
<1>4. Holding' /\ Hanging'
  BY <1>1 DEF Inv, Holding, Hanging, At
<1> QED BY <1>2, <1>3, <1>4 DEF Inv

LEMMA StepInv == Inv /\ [Next]_vars => Inv'
<1> SUFFICES ASSUME Inv, [Next]_vars PROVE Inv'
  OBVIOUS
<1>1. CASE SetTtl \/ UNCHANGED vars
  BY <1>1 DEF SetTtl, vars, Inv, Typed, Asking, Holding, Hanging, At
<1> QED BY <1>1, WriteInv, AskInv, GrantOwnInv, GrantSharedInv, PutInv, ReadInv, RemoveInv,
           ClearInv, ListInv, TickInv, RevokeInv
        DEF Next

\* An entry with a deadline hangs on a lease that the server does not end
\* before it, whenever the grant and the put come, and whatever fails.
THEOREM LeasesReachDeadlines == Spec => []LeaseOutlivesDeadline
<1>1. Inv => LeaseOutlivesDeadline
  BY EtcdAssumption DEF Inv, Hanging, LongEnough, LeaseOutlivesDeadline, NoLease
<1> QED BY <1>1, InitInv, StepInv, PTL DEF Spec

-----------------------------------------------------------------------------
(* The answers of set(): true is what a put gave as its answer, and nothing  *)
(* else of a set() answers true, if the adapter that has a ttl has a lease.  *)

\* The adapter is built with a ttl, or is never given one.
LeaseMade == DefaultTtl > 0 \/ LaterTtl \subseteq {0}

\* Only reads and deletes ask, and only what is stored counts as set.
Honest(r) ==
  /\ r.listing => r.op = "iterate"
  /\ \A k \in Keys : r.step[k] = "read" => r.op \in {"get", "iterate"}
  /\ \A k \in Keys : r.step[k] = "remove" => r.op # "set"
  /\ r.op = "set" => \A k \in Keys : r.said[k] => r.applied[k]

Answering == /\ shared = Missing => DefaultTtl = 0 /\ ttl = 0
             /\ \A c \in Callers : Honest(calls[c])

LEMMA EndedSays ==
  ASSUME Typed, NEW c \in Callers, NEW k \in Keys, NEW ok \in BOOLEAN, NEW stored \in BOOLEAN,
         calls' = Ended(c, k, ok, stored)
  PROVE  /\ \A d \in Callers \ {c} : calls'[d] = calls[d]
         /\ calls'[c].op = calls[c].op /\ calls'[c].listing = calls[c].listing
         /\ calls'[c].step[k] = "done" /\ calls'[c].said[k] = Reported(c, ok)
         /\ calls'[c].applied[k] = stored
         /\ \A j \in Keys \ {k} : /\ calls'[c].step[j] = calls[c].step[j]
                                  /\ calls'[c].said[j] = calls[c].said[j]
                                  /\ calls'[c].applied[j] = calls[c].applied[j]
<1> DEFINE r == calls[c]
           says == Reported(c, ok)
           n == [r EXCEPT !.step = [r.step EXCEPT ![k] = "done"],
                          !.lease = [r.lease EXCEPT ![k] = NoLease],
                          !.said = [r.said EXCEPT ![k] = says],
                          !.applied = [r.applied EXCEPT ![k] = stored]]
<1>1. /\ r \in Call /\ r.step \in [Keys -> Steps] /\ r.said \in [Keys -> BOOLEAN]
      /\ r.applied \in [Keys -> BOOLEAN] /\ DOMAIN calls = Callers
  BY DEF Typed, Call, Flags
<1> HIDE DEF says
<1>2. calls' = [calls EXCEPT ![c] = n]
  <2>1. calls' = [calls EXCEPT ![c].step[k] = "done", ![c].lease[k] = NoLease,
                               ![c].said[k] = says, ![c].applied[k] = stored]
    BY DEF Ended, says
  <2> QED BY <1>1, <2>1 DEF Call
<1> HIDE DEF r
<1>3. /\ n.op = r.op /\ n.listing = r.listing /\ n.step = [r.step EXCEPT ![k] = "done"]
      /\ n.said = [r.said EXCEPT ![k] = says] /\ n.applied = [r.applied EXCEPT ![k] = stored]
  BY <1>1 DEF Call
<1> HIDE DEF n
<1>4. calls'[c] = n /\ \A d \in Callers \ {c} : calls'[d] = calls[d]
  BY <1>1, <1>2
<1> QED BY <1>1, <1>3, <1>4 DEF r, says

\* A call that is over for a key, if its answer is true only for what is stored.
LEMMA OverHonest ==
  ASSUME Typed, Answering, NEW c \in Callers, NEW k \in Keys, NEW ok \in BOOLEAN,
         NEW stored \in BOOLEAN, calls' = Ended(c, k, ok, stored),
         calls[c].op = "set" /\ ok => stored
  PROVE  \A d \in Callers : Honest(calls'[d])
<1>1. Honest(calls[c])
  BY DEF Answering
<1>2. /\ \A d \in Callers \ {c} : calls'[d] = calls[d]
      /\ calls'[c].op = calls[c].op /\ calls'[c].listing = calls[c].listing
      /\ calls'[c].step[k] = "done" /\ calls'[c].said[k] = Reported(c, ok)
      /\ calls'[c].applied[k] = stored
      /\ \A j \in Keys \ {k} : /\ calls'[c].step[j] = calls[c].step[j]
                               /\ calls'[c].said[j] = calls[c].said[j]
                               /\ calls'[c].applied[j] = calls[c].applied[j]
  BY EndedSays
<1>3. calls[c].op = "set" => Reported(c, ok) = ok
  BY DEF Reported
<1>4. Honest(calls'[c])
  BY <1>1, <1>2, <1>3 DEF Honest
<1> QED BY <1>2, <1>4 DEF Answering

\* A call that begins or goes on, and stays honest.
LEMMA OneHonest ==
  ASSUME Typed, Answering, NEW c \in Callers, NEW r, calls' = [calls EXCEPT ![c] = r], Honest(r)
  PROVE  \A d \in Callers : Honest(calls'[d])
<1>1. calls'[c] = r /\ \A d \in Callers \ {c} : calls'[d] = calls[d]
  BY DEF Typed
<1> QED BY <1>1 DEF Answering

\* A call of which one key has come to another step.
LEMMA MovedHonest ==
  ASSUME Typed, Answering, NEW c \in Callers, NEW k \in Keys, NEW step, NEW r,
         calls' = [calls EXCEPT ![c] = r], r.op = calls[c].op, r.listing = calls[c].listing,
         r.said = calls[c].said, r.applied = calls[c].applied,
         r.step = [calls[c].step EXCEPT ![k] = step],
         step # "read", step = "remove" => calls[c].op # "set"
  PROVE  \A d \in Callers : Honest(calls'[d])
<1>1. calls[c] \in Call /\ calls[c].step \in [Keys -> Steps] /\ Honest(calls[c])
  BY DEF Typed, Call, Answering
<1>2. Honest(r)
  BY <1>1 DEF Honest
<1> QED BY <1>2, OneHonest

LEMMA WriteHonest ==
  ASSUME LeaseMade, Typed, Answering, NEW c \in Callers, NEW op \in {"set", "setMany"},
         NEW K \in Batches, NEW e, Write(c, op, K, e)
  PROVE  \A d \in Callers : Honest(calls'[d])
<1>1. FirstStep(e) \in {"put", "grant"}
  <2>1. CASE e = Never /\ ttl = 0
    BY <2>1 DEF FirstStep
  <2>2. CASE ~(e = Never /\ ttl = 0) /\ ~(e = Never /\ shared = Missing)
    BY <2>2 DEF FirstStep
  <2>3. CASE e = Never /\ ttl # 0 /\ shared = Missing
    BY <2>3 DEF Answering
  <2> QED BY <2>1, <2>2, <2>3
<1> DEFINE n == IF e = Never THEN 0 ELSE LeaseSeconds(e)
           steps == [k \in Keys |-> IF k \in K THEN FirstStep(e) ELSE "unused"]
           says == [k \in Keys |-> k \in K /\ FirstStep(e) = "done"]
           r == [Idle EXCEPT !.op = op, !.e = e, !.seconds = n, !.step = steps, !.said = says]
<1>2. calls' = [calls EXCEPT ![c] = r]
  BY DEF Write
<1>3. /\ \A k \in Keys : steps[k] \in {"put", "grant", "unused"}
      /\ \A k \in Keys : ~says[k]
  BY <1>1
<1> HIDE DEF n, steps, says
<1>4. r.listing = FALSE /\ r.step = steps /\ r.said = says
  BY DEF Idle
<1> HIDE DEF r
<1>5. Honest(r)
  BY <1>3, <1>4 DEF Honest
<1> QED BY <1>2, <1>5, OneHonest

LEMMA StepHonest ==
  ASSUME LeaseMade, Typed, Answering, Next
  PROVE  \A d \in Callers : Honest(calls'[d])
<1> DEFINE Goal == \A d \in Callers : Honest(calls'[d])
<1>1. ASSUME UNCHANGED calls PROVE Goal
  BY <1>1 DEF Answering
<1> HIDE DEF Goal
<1>2. ASSUME NEW c \in Callers, NEW op \in {"get", "delete"}, NEW K \in Batches, Ask(c, op, K)
      PROVE  Goal
  <2> DEFINE steps == [k \in Keys |-> IF k \notin K THEN "unused"
                                     ELSE IF op = "delete" THEN "remove" ELSE "read"]
             r == [Idle EXCEPT !.op = op, !.step = steps]
  <2>1. calls' = [calls EXCEPT ![c] = r]
    BY <1>2 DEF Ask
  <2>2. \A k \in Keys : steps[k] = "read" => op = "get"
    OBVIOUS
  <2> HIDE DEF steps
  <2>3. r.listing = FALSE /\ r.step = steps /\ r.op = op
    BY DEF Idle
  <2> HIDE DEF r
  <2>4. Honest(r)
    BY <2>2, <2>3 DEF Honest
  <2> QED BY <2>1, <2>4, OneHonest DEF Goal
<1>3. ASSUME NEW c \in Callers, Clear(c) \/ Iterate(c) PROVE Goal
  <2>1. PICK r : calls' = [calls EXCEPT ![c] = r] /\ r \in {[Idle EXCEPT !.op = "clear"],
                    [Idle EXCEPT !.op = "iterate", !.listing = TRUE]}
    BY <1>3 DEF Clear, Iterate
  <2>2. Honest(r)
    BY <2>1 DEF Honest, Idle
  <2> QED BY <2>1, <2>2, OneHonest DEF Goal
<1>4. ASSUME NEW c \in Callers, NEW k \in Keys, NEW l \in Leases, Hold(c, k, l) PROVE Goal
  <2> DEFINE r == [calls[c] EXCEPT !.step[k] = "put", !.lease[k] = l]
  <2>1. calls[c] \in Call /\ DOMAIN calls = Callers
    BY DEF Typed
  <2>2. calls' = [calls EXCEPT ![c] = r]
    BY <1>4, <2>1 DEF Hold, Call
  <2>3. /\ r.op = calls[c].op /\ r.listing = calls[c].listing /\ r.said = calls[c].said
        /\ r.applied = calls[c].applied /\ r.step = [calls[c].step EXCEPT ![k] = "put"]
    BY <2>1 DEF Call
  <2> HIDE DEF r
  <2> QED BY <2>2, <2>3, MovedHonest DEF Goal
<1>5. ASSUME NEW c \in Callers, NEW k \in Keys, calls' = Answered(c, k, FALSE) PROVE Goal
  BY <1>5, OverHonest DEF Answered, Goal
<1>6. ASSUME NEW c \in Callers, NEW k \in Keys, Put(c, k) PROVE Goal
  <2>1. \E ok \in BOOLEAN : calls' = Ended(c, k, ok, TRUE)
    BY <1>6 DEF Put, Stored
  <2> QED BY <2>1, OverHonest DEF Goal
<1>7. ASSUME NEW c \in Callers, NEW k \in Keys, Read(c, k) PROVE Goal
  <2>1. calls[c].op # "set"
    BY <1>7 DEF Read, At, Answering, Honest
  <2>2. CASE calls' = Moved(c, k, "remove")
    <3> DEFINE r == [calls[c] EXCEPT !.step[k] = "remove"]
    <3>1. calls[c] \in Call /\ DOMAIN calls = Callers
      BY DEF Typed
    <3>2. calls' = [calls EXCEPT ![c] = r]
      BY <2>2, <3>1 DEF Moved, Call
    <3>3. /\ r.op = calls[c].op /\ r.listing = calls[c].listing /\ r.said = calls[c].said
          /\ r.applied = calls[c].applied /\ r.step = [calls[c].step EXCEPT ![k] = "remove"]
      BY <3>1 DEF Call
    <3> HIDE DEF r
    <3> QED BY <2>1, <3>2, <3>3, MovedHonest DEF Goal
  <2>3. ASSUME NEW ok \in BOOLEAN, calls' = Answered(c, k, ok) PROVE Goal
    BY <2>1, <2>3, OverHonest DEF Answered, Goal
  <2> QED BY <1>7, <2>2, <2>3 DEF Read
<1>8. ASSUME NEW c \in Callers, NEW k \in Keys, Remove(c, k) PROVE Goal
  <2>1. calls[c].op # "set"
    BY <1>8 DEF Remove, At, Answering, Honest
  <2>2. \E ok \in BOOLEAN : calls' = Answered(c, k, ok)
    BY <1>8 DEF Remove
  <2> QED BY <2>1, <2>2, OverHonest DEF Answered, Goal
<1>9. ASSUME NEW c \in Callers, List(c) PROVE Goal
  <2>1. PICK found : calls' = [calls EXCEPT ![c].listing = FALSE,
                       ![c].step = [k \in Keys |-> IF k \in found THEN "read" ELSE "unused"]]
    BY <1>9 DEF List
  <2> DEFINE steps == [k \in Keys |-> IF k \in found THEN "read" ELSE "unused"]
             r == [calls[c] EXCEPT !.listing = FALSE, !.step = steps]
  <2>2. calls[c] \in Call /\ DOMAIN calls = Callers /\ calls[c].op = "iterate"
    BY <1>9 DEF List, Typed, Answering, Honest
  <2>3. calls' = [calls EXCEPT ![c] = r]
    BY <2>1, <2>2 DEF Call
  <2>4. \A k \in Keys : steps[k] # "remove"
    OBVIOUS
  <2> HIDE DEF steps
  <2>5. r.op = "iterate" /\ r.step = steps
    BY <2>2 DEF Call
  <2> HIDE DEF r
  <2>6. Honest(r)
    BY <2>4, <2>5 DEF Honest
  <2> QED BY <2>3, <2>6, OneHonest DEF Goal
<1>10. ASSUME NEW c \in Callers, NEW k \in Keys, GrantOwn(c, k) \/ GrantShared(c, k) \/ PutFails(c, k)
       PROVE  Goal
  <2>1. \/ UNCHANGED calls \/ calls' = Answered(c, k, FALSE) \/ \E l \in Leases : Hold(c, k, l)
    BY <1>10 DEF GrantOwn, GrantShared, PutFails
  <2> QED BY <1>1, <1>4, <1>5, <2>1
<1>11. ASSUME SetTtl \/ Tick \/ \E l \in Leases : Revoke(l) PROVE Goal
  BY <1>1, <1>11 DEF SetTtl, Tick, Revoke
<1>12. ASSUME NEW c \in Callers, NEW K \in Batches, NEW op \in {"set", "setMany"}, NEW e,
              Write(c, op, K, e)
       PROVE  Goal
  BY <1>12, WriteHonest DEF Goal
<1>13. Goal
  BY <1>2, <1>3, <1>6, <1>7, <1>8, <1>9, <1>10, <1>11, <1>12 DEF Next
<1> QED BY <1>13 DEF Goal

LEMMA StepAnswering == LeaseMade /\ Typed /\ Answering /\ [Next]_vars => Answering'
<1> SUFFICES ASSUME LeaseMade, Typed, Answering, [Next]_vars PROVE Answering'
  OBVIOUS
<1>1. CASE UNCHANGED vars
  BY <1>1 DEF vars, Answering
<1>2. CASE Next
  <2>1. \A d \in Callers : Honest(calls'[d])
    BY <1>2, StepHonest
  <2>2. shared' = Missing => DefaultTtl = 0 /\ ttl' = 0
    <3>1. CASE SetTtl
      BY <3>1, EtcdAssumption DEF SetTtl, Answering, LeaseMade
    <3>2. CASE ~SetTtl
      <4>1. ttl' = ttl /\ (shared' = shared \/ shared' \in Leases \/ shared' = Refused)
        BY <1>2, <3>2 DEF Next, Write, Ask, GrantOwn, GrantShared, Put, PutFails, Read, Remove, Clear,
                          Iterate, List, Tick, Revoke
      <4>2. Missing \notin Leases /\ Refused # Missing
        BY EtcdAssumption DEF Missing, Refused
      <4> QED BY <4>1, <4>2 DEF Answering
    <3> QED BY <3>1, <3>2
  <2> QED BY <2>1, <2>2 DEF Answering
<1> QED BY <1>1, <1>2

\* set() of the etcd adapter answers true only when the server has the entry,
\* whatever requests fail or lose their answer and whatever lease they hang on; if the
\* ttl setter does not give an adapter built without a ttl its first.
THEOREM SetsAnswerTruly ==
  ASSUME LeaseMade
  PROVE  Spec => []SetTruthful
<1>1. Init => Typed /\ Answering
  <2> SUFFICES ASSUME Init PROVE Answering
    BY InitInv DEF Inv
  <2>1. Honest(Idle)
    BY DEF Honest, Idle
  <2>2. \A c \in Callers : calls[c] = Idle
    BY DEF Init
  <2>3. shared = Missing => DefaultTtl = 0 /\ ttl = 0
    BY EtcdAssumption DEF Init, Missing, Unasked
  <2> QED BY <2>1, <2>2, <2>3 DEF Answering
<1>2. Inv /\ Answering /\ [Next]_vars => (Inv /\ Answering)'
  BY StepInv, StepAnswering DEF Inv
<1>3. Answering => SetTruthful
  BY DEF Answering, Honest, SetTruthful
<1> QED BY <1>1, <1>2, <1>3, InitInv, PTL DEF Spec
=============================================================================
