---------------------------- MODULE EtcdAdapter ----------------------------
(***************************************************************************)
(* KeyvEtcd (storage/etcd/src/index.ts) and the Lease objects of its        *)
(* client (client.ts) over one etcd server.  A stored entry carries its own *)
(* deadline, which reads check against the clock; etcd's leases only reap   *)
(* in whole seconds.  A write with a deadline gets a lease of its own; a    *)
(* write without one, on an adapter built with a ttl, hangs on the one      *)
(* lease of the adapter, which is granted once and never renewed.           *)
(*                                                                          *)
(* A call works on a set of keys, each key on its own (setMany, getMany     *)
(* and hasMany are Promise.allSettled over the single calls); a request to  *)
(* the server may fail, or be carried out and lose its answer.  Bounds:     *)
(* MaxTime on the clock, Leases on the grants.  The server is external; it  *)
(* revokes a lease at some point after its end.  Prefixes are left out.     *)
(***************************************************************************)
EXTENDS Integers, FiniteSets

CONSTANTS Callers, Keys, Leases,
          Second,       \* clock ticks in a second, the unit of leases
          Lives,        \* how long after the write a deadline may lie
          DefaultTtl,   \* the ttl the adapter is built with, 0 for none
          LaterTtl,     \* the values the ttl setter is given
          MaxTime,
          Batches,      \* the sets of keys one call may name
          Faulty        \* whether requests fail

ASSUME EtcdAssumption ==
    /\ Keys \subseteq Int /\ IsFiniteSet(Keys)
    /\ Leases \subseteq Nat \ {0}
    /\ Second \in Nat \ {0} /\ MaxTime \in Nat /\ DefaultTtl \in Nat
    /\ Lives \subseteq Int /\ LaterTtl \subseteq Nat
    /\ Batches \subseteq SUBSET Keys
    /\ Faulty \in BOOLEAN

VARIABLES clock,    \* Date.now() of every process, in ticks
          kv,       \* what the server stores
          ends,     \* when a granted lease runs out: 0 unused, Revoked once gone
          ttl,      \* _ttl, 0 for undefined
          shared,   \* the adapter's _lease: Missing, or the state of its grant
          calls     \* the call each caller has under way

vars == <<clock, kv, ends, ttl, shared, calls>>

Never == -1      \* no deadline
Revoked == -1
Missing == -3    \* _lease is undefined
Unasked == -2    \* no _grantPromise yet
Refused == -1    \* _grantPromise was rejected
NoLease == 0

\* Of each key a call has the request that is under way, "grant", "put", "read" or
\* "remove", or "unused", or "done".
Idle == [op |-> "get", e |-> Never, seconds |-> 0,
         step |-> [k \in Keys |-> "unused"], lease |-> [k \in Keys |-> NoLease],
         said |-> [k \in Keys |-> FALSE], applied |-> [k \in Keys |-> FALSE],
         listing |-> FALSE]

Init == /\ clock = 0
        /\ kv = << >>
        /\ ends = [l \in Leases |-> 0]
        /\ ttl = DefaultTtl
        /\ shared = IF DefaultTtl > 0 THEN Unasked ELSE Missing
        /\ calls = [c \in Callers |-> Idle]

Free(c) == ~calls[c].listing /\ \A k \in Keys : calls[c].step[k] \in {"unused", "done"}

At(c, k, step) == calls[c].step[k] = step

Moved(c, k, step) == [calls EXCEPT ![c].step[k] = step]

\* A variant of Reported: every settled write counts, of set() too.
Reported_Settled(c, ok) == ok \/ calls[c].op \in {"set", "setMany"}

(* setMany() reports every settled set() as written, whatever it answered.   *)
Reported(c, ok) == ok \/ calls[c].op = "setMany"

(* The call on key k ends with the answer ok, its entry stored or not.       *)
Ended(c, k, ok, stored) ==
    [calls EXCEPT ![c].step[k] = "done", ![c].lease[k] = NoLease,
                  ![c].said[k] = Reported(c, ok), ![c].applied[k] = stored]

Answered(c, k, ok) == Ended(c, k, ok, FALSE)

Stored(c, k, ok) == Ended(c, k, ok, TRUE)

----------------------------------------------------------------------------
(* Writing.                                                                  *)

\* CeilSeconds rounds up; the variant rounds down.
CeilSeconds_Floor(ticks) == ticks \div Second
CeilSeconds(ticks) == -((-ticks) \div Second)

AtLeastOne(n) == IF n < 1 THEN 1 ELSE n

LeaseSeconds(e) == AtLeastOne(CeilSeconds(e - clock))

(* target of set(): the bare client, the adapter's lease, or a lease of its  *)
(* own; with a ttl and no lease, "target?.put" does nothing.                 *)
FirstStep(e) ==
    CASE e = Never /\ ttl = 0                        -> "put"
      [] e = Never /\ ttl # 0 /\ shared = Missing    -> "done"
      [] OTHER                                       -> "grant"

Write(c, op, K, e) ==
    /\ Free(c)
    /\ op = "set" => Cardinality(K) = 1
    /\ calls' = [calls EXCEPT ![c] =
          [Idle EXCEPT !.op = op, !.e = e,
                       !.seconds = IF e = Never THEN 0 ELSE LeaseSeconds(e),
                       !.step = [k \in Keys |-> IF k \in K THEN FirstStep(e) ELSE "unused"],
                       !.said = [k \in Keys |-> k \in K /\ FirstStep(e) = "done"]]]
    /\ UNCHANGED <<clock, kv, ends, ttl, shared>>

(* POST /v3/lease/grant: whole seconds, at least one.                        *)
Granted(l, seconds) ==
    /\ ends[l] = 0
    /\ ends' = [ends EXCEPT ![l] = clock + AtLeastOne(seconds) * Second]

Hold(c, k, l) == calls' = [calls EXCEPT ![c].step[k] = "put", ![c].lease[k] = l]

(* Lease.grant() of the lease made for this write.                           *)
GrantOwn(c, k) ==
    /\ At(c, k, "grant") /\ calls[c].e # Never
    /\ \/ \E l \in Leases : Granted(l, calls[c].seconds) /\ Hold(c, k, l)
       \/ Faulty /\ calls' = Answered(c, k, FALSE) /\ UNCHANGED ends
    /\ UNCHANGED <<clock, kv, ttl, shared>>

(* Lease.grant() of the adapter's lease: the first caller asks, and its      *)
(* promise, fulfilled or rejected, serves every later one.                   *)
GrantShared(c, k) ==
    /\ At(c, k, "grant") /\ calls[c].e = Never
    /\ \/ /\ shared = Unasked
          /\ \/ \E l \in Leases : /\ Granted(l, DefaultTtl \div Second)
                                  /\ shared' = l
             \/ Faulty /\ shared' = Refused /\ UNCHANGED ends
          /\ UNCHANGED calls
       \/ /\ shared = Refused
          /\ calls' = Answered(c, k, FALSE)
          /\ UNCHANGED <<ends, shared>>
       \/ /\ shared \in Leases
          /\ Hold(c, k, shared)
          /\ UNCHANGED <<ends, shared>>
    /\ UNCHANGED <<clock, kv, ttl>>

LeaseLives(l) == l \in {NoLease} \cup {m \in Leases : ends[m] > 0}

(* POST /v3/kv/put, refused when its lease is gone.                          *)
Put(c, k) ==
    /\ At(c, k, "put") /\ LeaseLives(calls[c].lease[k])
    /\ kv' = [j \in DOMAIN kv \cup {k} |->
                 IF j = k THEN [e |-> calls[c].e, lease |-> calls[c].lease[k]]
                          ELSE kv[j]]
    /\ \/ calls' = Stored(c, k, TRUE)
       \/ Faulty /\ calls' = Stored(c, k, FALSE)
    /\ UNCHANGED <<clock, ends, ttl, shared>>

PutFails(c, k) ==
    /\ At(c, k, "put")
    /\ Faulty \/ ~LeaseLives(calls[c].lease[k])
    /\ calls' = Answered(c, k, FALSE)
    /\ UNCHANGED <<clock, kv, ends, ttl, shared>>

----------------------------------------------------------------------------
(* Reading, deleting, iterating.                                             *)

Without(K) == [k \in DOMAIN kv \ K |-> kv[k]]

Ask(c, op, K) ==
    /\ Free(c)
    /\ calls' = [calls EXCEPT ![c] =
          [Idle EXCEPT !.op = op,
                       !.step = [k \in Keys |-> IF k \notin K        THEN "unused"
                                                ELSE IF op = "delete" THEN "remove" ELSE "read"]]]
    /\ UNCHANGED <<clock, kv, ends, ttl, shared>>

Expired(k) == kv[k].e # Never /\ clock > kv[k].e

(* iterator() takes the listed keys one after the other.                     *)
InTurn(c, k) ==
    calls[c].op = "iterate" => \A j \in Keys : j < k => calls[c].step[j] \in {"unused", "done"}

(* get(), has(), and the body of the iterator: an expired entry is deleted,  *)
(* by key, with a request of its own.                                        *)
Read(c, k) ==
    /\ At(c, k, "read") /\ InTurn(c, k)
    /\ \/ /\ k \in DOMAIN kv /\ Expired(k)
          /\ calls' = Moved(c, k, "remove")
       \/ /\ k \in DOMAIN kv /\ ~Expired(k)
          /\ calls' = Answered(c, k, TRUE)
       \/ /\ k \notin DOMAIN kv \/ Faulty
          /\ calls' = Answered(c, k, FALSE)
    /\ UNCHANGED <<clock, kv, ends, ttl, shared>>

Remove(c, k) ==
    /\ At(c, k, "remove")
    /\ \/ /\ kv' = Without({k})
          /\ calls' = Answered(c, k, k \in DOMAIN kv /\ calls[c].op = "delete")
       \/ /\ Faulty
          /\ kv' \in {kv, Without({k})}
          /\ calls' = Answered(c, k, FALSE)
    /\ UNCHANGED <<clock, ends, ttl, shared>>

Clear(c) ==
    /\ Free(c)
    /\ kv' = << >>
    /\ calls' = [calls EXCEPT ![c] = [Idle EXCEPT !.op = "clear"]]
    /\ UNCHANGED <<clock, ends, ttl, shared>>

Iterate(c) ==
    /\ Free(c)
    /\ calls' = [calls EXCEPT ![c] = [Idle EXCEPT !.op = "iterate", !.listing = TRUE]]
    /\ UNCHANGED <<clock, kv, ends, ttl, shared>>

(* getAll().prefix().keys(), whose failure the iterator throws.              *)
List(c) ==
    /\ calls[c].listing
    /\ \E found \in {DOMAIN kv} \cup (IF Faulty THEN {{}} ELSE {}) :
          calls' = [calls EXCEPT ![c].listing = FALSE,
                       ![c].step = [k \in Keys |-> IF k \in found THEN "read" ELSE "unused"]]
    /\ UNCHANGED <<clock, kv, ends, ttl, shared>>

----------------------------------------------------------------------------

(* The ttl setter keeps whatever lease the constructor made, or did not.     *)
SetTtl == /\ ttl' \in LaterTtl
          /\ UNCHANGED <<clock, kv, ends, shared, calls>>

Tick == /\ clock < MaxTime
        /\ clock' = clock + 1
        /\ UNCHANGED <<kv, ends, ttl, shared, calls>>

(* The server revokes a lease that ran out, with every key attached to it.   *)
Revoke(l) ==
    /\ ends[l] > 0 /\ clock >= ends[l]
    /\ ends' = [ends EXCEPT ![l] = Revoked]
    /\ kv' = Without({k \in DOMAIN kv : kv[k].lease = l})
    /\ UNCHANGED <<clock, ttl, shared, calls>>

Deadlines == {Never} \cup {clock + life : life \in Lives}

Next ==
    \/ \E c \in Callers, K \in Batches :
          \/ \E op \in {"set", "setMany"}, e \in Deadlines : Write(c, op, K, e)
          \/ \E op \in {"get", "delete"} : Ask(c, op, K)
    \/ \E c \in Callers, k \in Keys :
          GrantOwn(c, k) \/ GrantShared(c, k) \/ Put(c, k) \/ PutFails(c, k)
          \/ Read(c, k) \/ Remove(c, k)
    \/ \E c \in Callers : Clear(c) \/ Iterate(c) \/ List(c)
    \/ SetTtl
    \/ Tick
    \/ \E l \in Leases : Revoke(l)

Spec == Init /\ [][Next]_vars

----------------------------------------------------------------------------
(* "rounding up ensures the key is never reaped before its real deadline":   *)
(* the lease an entry hangs on outlives the deadline the entry carries,      *)
(* however late the grant and the put come after the deadline was set.       *)
LeaseOutlivesDeadline ==
    \A k \in DOMAIN kv :
        kv[k].e # Never => kv[k].lease # NoLease /\ ends[kv[k].lease] >= kv[k].e

(* set() answers true only when the server stored the entry.                 *)
SetTruthful ==
    \A c \in Callers, k \in Keys :
        calls[c].op = "set" /\ calls[c].said[k] => calls[c].applied[k]

(* setMany() answers true for a key only when the server stored its entry.   *)
SetManyTruthful ==
    \A c \in Callers, k \in Keys :
        calls[c].op = "setMany" /\ calls[c].said[k] => calls[c].applied[k]
============================================================================
