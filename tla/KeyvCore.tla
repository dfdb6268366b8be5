------------------------------ MODULE KeyvCore ------------------------------
(***************************************************************************)
(* The Keyv class (core/keyv/src/keyv.ts) over one storage adapter, with   *)
(* several calls in flight on the same instance.  JavaScript runs a        *)
(* function without interruption up to its next await, so a step is what a *)
(* call does from one await to the next; between two steps of a call any   *)
(* other call may run and time may pass.                                   *)
(*                                                                         *)
(* Hooks are awaits of unknown length that leave the data alone.  Values   *)
(* are the serial number of the write that made them, so that two writes   *)
(* are never confused; formatting, keys' sanitizing and namespaces are not *)
(* in this module.                                                         *)
(***************************************************************************)
EXTENDS Integers, FiniteSets

CONSTANTS
  Clients,         \* concurrent callers of the instance
  Keys,            \* cache keys
  Kinds,           \* the operations the callers use
  Ttls,            \* ttl arguments: positive, zero, or Never (absent)
  DefaultTtl,      \* the instance's ttl option, or Never
  Never,           \* "no expiry" (undefined in the code)
  NoEntry,         \* "no such entry" (undefined in the code)
  CheckExpired,    \* the checkExpired option, TRUE by default
  AdapterExpires,  \* the adapter drops expired entries when it reads them
  AdapterFails,    \* the adapter may throw, reject or refuse a write
  ErrorModes,      \* what emitting an error does: "emit" or "throw"
  MaxTime,         \* bound: the clock stops here
  MaxWrites        \* bound: write operations started

Reads      == {"get", "getRaw", "getMany", "getManyRaw", "has", "hasMany"}
Gets       == Reads \ {"has", "hasMany"}
Writes     == {"set", "setRaw", "setMany", "setManyRaw"}
RawWrites  == {"setRaw", "setManyRaw"}
Deletes    == {"delete", "deleteMany"}
BatchKinds == {"getMany", "getManyRaw", "hasMany", "setMany", "setManyRaw",
               "deleteMany", "clear"}
AllKinds   == Reads \cup Writes \cup Deletes \cup {"clear"}

\* KeyvValue: { value, expires? }, the envelope kept in the store.
Expiry == Nat \cup {Never}
Entry  == [val : Nat, expires : Expiry]
Slot   == Entry \cup {NoEntry}

ASSUME KindsAssumption   == Kinds \subseteq AllKinds
ASSUME TtlAssumption     == Ttls \subseteq Expiry /\ DefaultTtl \in Expiry
ASSUME NeverAssumption   == Never \notin Nat
ASSUME NoEntryAssumption == NoEntry \notin Entry \cup Nat
ASSUME FlagAssumption    == /\ CheckExpired \in BOOLEAN
                            /\ AdapterExpires \in BOOLEAN
                            /\ AdapterFails \in BOOLEAN
                            /\ ErrorModes \subseteq {"emit", "throw"}
ASSUME BoundAssumption   == MaxTime \in Nat /\ MaxWrites \in Nat

VARIABLES
  clock,   \* Date.now()
  store,   \* the adapter's content
  writes,  \* write operations started so far
  pc,      \* where each call is suspended
  kind,    \* the operation being run
  keys,    \* the keys it was called with
  due,     \* a write's ttl (set, setMany) or deadline (raw writes)
  data,    \* the entries a read holds, or a write is about to store
  doomed,  \* the keys deleteExpiredKeys() is about to delete
  ok,      \* the boolean per key a call resolves with
  told     \* the telemetry events a call has emitted so far

vars == <<clock, store, writes, pc, kind, keys, due, data, doomed, ok, told>>

Events  == {"hit", "miss", "set", "delete", "error"}
Nothing == [k \in Keys |-> NoEntry]
Places  == {"idle", "before", "decode", "expire", "write", "after", "done",
            "rejected"}

-----------------------------------------------------------------------------
(* utils.ts *)

\* isDataExpired(): strictly past the deadline.
Expired(e) == e # NoEntry /\ e.expires # Never /\ clock > e.expires

\* resolveTtl() and calculateExpires(): zero means no expiry.
ResolveTtl(ttl) == LET resolved == IF ttl = Never THEN DefaultTtl ELSE ttl
                   IN  IF resolved = 0 THEN Never ELSE resolved
CalculateExpires(ttl) == IF ttl = Never THEN Never ELSE clock + ttl

\* Variants a mistake in DoomedKeys could produce.
DoomedKeys_None(ks, rows)      == {}
DoomedKeys_AnyRow(ks, rows)    == {k \in ks : rows[k] # NoEntry}
DoomedKeys_Inclusive(ks, rows) ==
  {k \in ks : /\ rows[k] # NoEntry /\ rows[k].expires # Never
              /\ clock >= rows[k].expires}

\* deleteExpiredKeys(): the keys among ks whose rows have expired.
DoomedKeys(ks, rows) == IF CheckExpired THEN {k \in ks : Expired(rows[k])}
                                        ELSE {}

-----------------------------------------------------------------------------
(* The adapter's calls, each one atomic (KeyvMemoryAdapter's bodies hold no *)
(* await).  An adapter with AdapterExpires = FALSE stands for the backends  *)
(* that return entries past their deadline.                                 *)

Lapsed(k) == AdapterExpires /\ Expired(store[k])

AdapterGet(ks) ==
  [k \in Keys |-> IF k \in ks /\ ~Lapsed(k) THEN store[k] ELSE NoEntry]
StoreAfterGet(ks) ==
  [k \in Keys |-> IF k \in ks /\ Lapsed(k) THEN NoEntry ELSE store[k]]
StoreAfterSet(ks, rows) ==
  [k \in Keys |-> IF k \in ks THEN rows[k] ELSE store[k]]
StoreAfterDelete(ks) ==
  [k \in Keys |-> IF k \in ks THEN NoEntry ELSE store[k]]

Tell(c, event, ks) == told' = [told EXCEPT ![c] = @ \cup ({event} \X ks)]
Goto(c, place)     == pc' = [pc EXCEPT ![c] = place]

\* A catch block emits 'error', then stat:error.  The first emit throws when
\* nobody listens for errors or throwOnErrors is set: the call then rejects
\* there and then.
Raise(c, place, ks) ==
  \/ "emit" \in ErrorModes  /\ Goto(c, place) /\ Tell(c, "error", ks)
  \/ "throw" \in ErrorModes /\ Goto(c, "rejected") /\ UNCHANGED told

-----------------------------------------------------------------------------
(* A call starts: it runs up to the await of its BEFORE hook. *)

\* Single-key operations take one key, clear() none.
Arguments(k) == IF k = "clear" THEN {Keys}
                ELSE IF k \in BatchKinds THEN (SUBSET Keys) \ {{}}
                ELSE {{key} : key \in Keys}

\* What a caller passes as ttl, or as the deadline of a raw write.
DueArguments(k) == IF k \in RawWrites THEN (0 .. MaxTime) \cup {Never}
                   ELSE IF k \in Writes THEN Ttls
                   ELSE {Never}

Call(c, k, ks, d) ==
  /\ pc[c] \in {"idle", "done", "rejected"}
  /\ k \in Writes => writes < MaxWrites
  /\ kind' = [kind EXCEPT ![c] = k]
  /\ keys' = [keys EXCEPT ![c] = ks]
  /\ due'  = [due EXCEPT ![c] = d]
  /\ writes' = IF k \in Writes THEN writes + 1 ELSE writes
  /\ data' = [data EXCEPT ![c] =
                IF k \in Writes
                THEN [key \in Keys |-> IF key \in ks
                        THEN [val |-> writes + 1, expires |-> Never]
                        ELSE NoEntry]
                ELSE Nothing]
  /\ ok'     = [ok EXCEPT ![c] = [key \in Keys |-> FALSE]]
  /\ told'   = [told EXCEPT ![c] = {}]
  /\ doomed' = [doomed EXCEPT ![c] = {}]
  /\ Goto(c, "before")
  /\ UNCHANGED <<clock, store>>

Begin(c) == \E k \in Kinds : \E ks \in Arguments(k), d \in DueArguments(k) :
              Call(c, k, ks, d)

-----------------------------------------------------------------------------
(* get, getMany, getRaw, getManyRaw, has, hasMany *)

\* await this._store.get(key), or storeGetMany(keys).
ReadStore(c) ==
  /\ pc[c] = "before" /\ kind[c] \in Reads
  /\ data'  = [data EXCEPT ![c] = AdapterGet(keys[c])]
  /\ store' = StoreAfterGet(keys[c])
  /\ Goto(c, "decode")
  /\ UNCHANGED <<clock, writes, kind, keys, due, doomed, ok, told>>

\* get() and has() catch the adapter's error and go on with no data; getRaw(),
\* getMany() and getManyRaw() have no catch: the promise rejects.
ReadFails(c) ==
  /\ AdapterFails
  /\ pc[c] = "before" /\ kind[c] \in Reads
  /\ IF kind[c] \in {"get", "has", "hasMany"}
     THEN Raise(c, "decode", keys[c])
     ELSE Goto(c, "rejected") /\ UNCHANGED told
  /\ UNCHANGED <<clock, store, writes, kind, keys, due, data, doomed, ok>>

\* decodeWithExpire() up to the deletion: rows that do not decode count as
\* absent, expired ones are nullified and their keys kept for deletion.
Decode(c) ==
  /\ pc[c] = "decode"
  /\ \E garbled \in SUBSET keys[c] :
       LET dead == DoomedKeys(keys[c] \ garbled, data[c]) IN
       /\ garbled # {} => AdapterFails /\ "emit" \in ErrorModes
       /\ data'   = [data EXCEPT ![c] =
                       [k \in Keys |-> IF k \in garbled \cup dead
                                       THEN NoEntry ELSE @[k]]]
       /\ doomed' = [doomed EXCEPT ![c] = dead]
       /\ Goto(c, IF dead = {} THEN "after" ELSE "expire")
  /\ UNCHANGED <<clock, store, writes, kind, keys, due, ok, told>>

\* decode() emits an error for a row it cannot read, and the emit throws.
DecodeThrows(c) ==
  /\ AdapterFails /\ "throw" \in ErrorModes
  /\ pc[c] = "decode"
  /\ \E k \in keys[c] : data[c][k] # NoEntry
  /\ data' = [data EXCEPT ![c] = Nothing]
  /\ Goto(c, "rejected")
  /\ UNCHANGED <<clock, store, writes, kind, keys, due, doomed, ok, told>>

\* A variant of Purge that leaves its list of keys behind.
Purge_KeepsList(c) ==
  /\ pc[c] = "expire"
  /\ store' = StoreAfterDelete(doomed[c])
  /\ Goto(c, "after")
  /\ UNCHANGED <<clock, writes, kind, keys, due, data, doomed, ok, told>>

\* deleteExpiredKeys() calls this.deleteMany(): its hooks are awaited first,
\* then the adapter deletes the keys, whatever they hold by now.
Purge(c) ==
  /\ pc[c] = "expire"
  /\ \/ /\ store' = StoreAfterDelete(doomed[c])
        /\ Tell(c, "delete", doomed[c])
        /\ Goto(c, "after")
     \/ /\ AdapterFails
        /\ Raise(c, "after", doomed[c])
        /\ UNCHANGED store
  /\ doomed' = [doomed EXCEPT ![c] = {}]
  /\ UNCHANGED <<clock, writes, kind, keys, due, data, ok>>

-----------------------------------------------------------------------------
(* set, setRaw, setMany, setManyRaw *)

\* After the BEFORE hook the deadline is computed and the envelope encoded.
Encode(c) ==
  /\ pc[c] = "before" /\ kind[c] \in Writes
  /\ LET deadline == IF kind[c] \in RawWrites THEN due[c]
                     ELSE CalculateExpires(ResolveTtl(due[c]))
     IN  data' = [data EXCEPT ![c] =
                    [k \in Keys |-> IF k \in keys[c]
                                    THEN [val |-> @[k].val, expires |-> deadline]
                                    ELSE NoEntry]]
  /\ Goto(c, "write")
  /\ UNCHANGED <<clock, store, writes, kind, keys, due, doomed, ok, told>>

\* await this._store.set() or setMany().  An adapter that reports failure per
\* entry resolves with FALSE for it; the batch forms emit stat:set for every
\* entry as soon as the adapter has answered, the single forms in Finish.
WriteStore(c) ==
  /\ pc[c] = "write"
  /\ \E stored \in SUBSET keys[c] :
       /\ stored # keys[c] => AdapterFails
       /\ store' = StoreAfterSet(stored, data[c])
       /\ ok' = [ok EXCEPT ![c] = [k \in Keys |-> k \in stored]]
  /\ IF kind[c] \in BatchKinds THEN Tell(c, "set", keys[c])
                               ELSE UNCHANGED told
  /\ Goto(c, "after")
  /\ UNCHANGED <<clock, writes, kind, keys, due, data, doomed>>

\* A variant that tries again after an error, though the write may have
\* been applied.
WriteFails_Retries(c) ==
  /\ AdapterFails
  /\ pc[c] = "write"
  /\ \E stored \in SUBSET keys[c] : store' = StoreAfterSet(stored, data[c])
  /\ UNCHANGED <<clock, writes, pc, kind, keys, due, data, doomed, ok, told>>

\* The adapter (or the encoder before it) throws; what the backend had
\* applied by then is unknown.
WriteFails(c) ==
  /\ AdapterFails
  /\ pc[c] = "write"
  /\ \E stored \in SUBSET keys[c] : store' = StoreAfterSet(stored, data[c])
  /\ Raise(c, "after", keys[c])
  /\ UNCHANGED <<clock, writes, kind, keys, due, data, doomed, ok>>

-----------------------------------------------------------------------------
(* delete, deleteMany, clear *)

RemoveStore(c) ==
  /\ pc[c] = "before" /\ kind[c] \in Deletes \cup {"clear"}
  /\ store' = StoreAfterDelete(keys[c])
  /\ ok' = [ok EXCEPT ![c] = [k \in Keys |-> k \in keys[c]
                                               /\ store[k] # NoEntry]]
  /\ IF kind[c] = "deleteMany" THEN Tell(c, "delete", keys[c])
                               ELSE UNCHANGED told
  /\ Goto(c, "after")
  /\ UNCHANGED <<clock, writes, kind, keys, due, data, doomed>>

\* clear() emits its stat:error without a key.
RemoveFails(c) ==
  /\ AdapterFails
  /\ pc[c] = "before" /\ kind[c] \in Deletes \cup {"clear"}
  /\ Raise(c, "after", IF kind[c] = "clear" THEN {} ELSE keys[c])
  /\ UNCHANGED <<clock, store, writes, kind, keys, due, data, doomed, ok>>

-----------------------------------------------------------------------------
(* The AFTER hook has run: the last telemetry is emitted, the call resolves. *)

Present(c) == {k \in keys[c] : data[c][k] # NoEntry}
Stored(c)  == {k \in keys[c] : ok[c][k]}

Report(c, kinds, event, ks) ==
  IF kind[c] \in kinds THEN {event} \X ks ELSE {}

FinalTelemetry_CountsFailures(c) == Report(c, {"set", "setRaw"}, "set", keys[c])

FinalTelemetry(c) ==
  Report(c, Gets, "hit", Present(c))
    \cup Report(c, Gets, "miss", keys[c] \ Present(c))
    \cup Report(c, {"set", "setRaw"}, "set", Stored(c))
    \cup Report(c, {"delete"}, "delete", keys[c])

Finish(c) ==
  /\ pc[c] = "after"
  /\ told' = [told EXCEPT ![c] = @ \cup FinalTelemetry(c)]
  /\ ok' = IF kind[c] \in Reads
           THEN [ok EXCEPT ![c] = [k \in Keys |-> k \in Present(c)]]
           ELSE ok
  /\ Goto(c, "done")
  /\ UNCHANGED <<clock, store, writes, kind, keys, due, data, doomed>>

Tick ==
  /\ clock < MaxTime
  /\ clock' = clock + 1
  /\ UNCHANGED <<store, writes, pc, kind, keys, due, data, doomed, ok, told>>

-----------------------------------------------------------------------------
Init ==
  /\ clock  = 0
  /\ store  = Nothing
  /\ writes = 0
  /\ pc     = [c \in Clients |-> "idle"]
  /\ kind   = [c \in Clients |-> "clear"]
  /\ keys   = [c \in Clients |-> {}]
  /\ due    = [c \in Clients |-> Never]
  /\ data   = [c \in Clients |-> Nothing]
  /\ doomed = [c \in Clients |-> {}]
  /\ ok     = [c \in Clients |-> [k \in Keys |-> FALSE]]
  /\ told   = [c \in Clients |-> {}]

Step(c) == \/ Begin(c)
           \/ ReadStore(c)   \/ ReadFails(c)
           \/ Decode(c)      \/ DecodeThrows(c) \/ Purge(c)
           \/ Encode(c)      \/ WriteStore(c) \/ WriteFails(c)
           \/ RemoveStore(c) \/ RemoveFails(c)
           \/ Finish(c)

Next == Tick \/ \E c \in Clients : Step(c)

Spec == Init /\ [][Next]_vars

-----------------------------------------------------------------------------
\* Every variable has its type; keys are marked for deletion only between the
\* expiry check and the deletion, and a write has an envelope for each key.
TypeOk ==
  /\ clock \in Nat
  /\ store \in [Keys -> Slot]
  /\ writes \in Nat
  /\ pc \in [Clients -> Places]
  /\ kind \in [Clients -> AllKinds]
  /\ keys \in [Clients -> SUBSET Keys]
  /\ due \in [Clients -> Expiry]
  /\ data \in [Clients -> [Keys -> Slot]]
  /\ doomed \in [Clients -> SUBSET Keys]
  /\ ok \in [Clients -> [Keys -> BOOLEAN]]
  /\ told \in [Clients -> SUBSET (Events \X Keys)]
  /\ \A c \in Clients :
       /\ pc[c] # "expire" => doomed[c] = {}
       /\ pc[c] \in {"decode", "expire"} => kind[c] \in Reads
       /\ pc[c] = "write" => kind[c] \in Writes
       /\ pc[c] \in {"before", "write"} /\ kind[c] \in Writes
            => \A k \in keys[c] : data[c][k] # NoEntry
=============================================================================
