--------------------------- MODULE KeyvCoreHistory --------------------------
(***************************************************************************)
(* KeyvCore with history variables, and the properties of concurrent calls *)
(* that need them.  The history observes the steps of KeyvCore and never   *)
(* restricts them.                                                         *)
(***************************************************************************)
EXTENDS KeyvCore

VARIABLES
  start,  \* the clock when each call began
  old,    \* the pairs <<key, value>> in the store when it began
  gone,   \* the keys that were not live at some moment from there until the
          \* call had checked what it read
  ever,   \* every pair <<key, value>> that was ever live in the store
  unread  \* the keys whose row a call could not fetch or decode

hvars == <<clock, store, writes, pc, kind, keys, due, data, doomed, ok, told,
           start, old, gone, ever, unread>>

Live(k) == store[k] # NoEntry /\ ~Expired(store[k])

StoredPairs == {<<k, store[k].val>> : k \in {key \in Keys :
                                               store[key] # NoEntry}}
LivePairs == {<<k, store[k].val>> : k \in {key \in Keys : Live(key)}}
DeadKeys == {k \in Keys : ~Live(k)}

Starts(c) == pc[c] # "before" /\ pc'[c] = "before"
Garbled(c) == IF pc[c] # "decode" THEN {}
              ELSE {k \in Keys \ doomed'[c] : data[c][k] # NoEntry /\ data'[c][k] = NoEntry}
Failed(c)  == {k \in Keys : <<"error", k>> \in told'[c] \ told[c]}

Observe ==
  /\ start' = [c \in Clients |-> IF Starts(c) THEN clock ELSE start[c]]
  /\ old'   = [c \in Clients |-> IF Starts(c) THEN StoredPairs ELSE old[c]]
  /\ gone'  = [c \in Clients |->
                 IF Starts(c) THEN DeadKeys
                 ELSE IF pc[c] \in {"before", "decode"}
                      THEN gone[c] \cup DeadKeys'
                      ELSE gone[c]]
  /\ ever'  = ever \cup LivePairs'
  /\ unread' = [c \in Clients |-> IF Starts(c) THEN {}
                  ELSE IF pc[c] \in {"before", "decode"} /\ pc'[c] # pc[c]
                       THEN unread[c] \cup Failed(c) \cup Garbled(c)
                       ELSE unread[c]]

HInit ==
  /\ Init
  /\ start = [c \in Clients |-> 0]
  /\ old   = [c \in Clients |-> {}]
  /\ gone  = [c \in Clients |-> Keys]
  /\ ever  = {}
  /\ unread = [c \in Clients |-> {}]

HNext == Next /\ Observe

HSpec == HInit /\ [][HNext]_hvars

-----------------------------------------------------------------------------
(* What a read returns *)

\* What a get holds once its expiry check has run, and will resolve with.
Answered(c) == kind[c] \in Reads /\ pc[c] \in {"expire", "after", "done"}

\* No read surfaces an entry that was already past its deadline when the call
\* was made, even over an adapter that returns expired entries
\* (core/keyv/README.md:442): the deadline is checked after the adapter has
\* answered, so it covers entries that lapsed while the adapter was busy.
NoExpiredAnswer ==
  CheckExpired =>
    \A c \in Clients : \A k \in Keys :
      Answered(c) /\ data[c][k] # NoEntry /\ data[c][k].expires # Never
        => data[c][k].expires >= start[c]

\* A get resolves with undefined only if the key was missing or expired at
\* some moment of the call (core/keyv/README.md:848), or if the call met an
\* error over its row.
MissesJustified ==
  \A c \in Clients : \A k \in keys[c] :
    pc[c] = "done" /\ <<"miss", k>> \in told[c]
      => k \in gone[c] \cup unread[c]

-----------------------------------------------------------------------------
(* What a step may do to the store *)

\* The keys whose live entry this step takes away without putting another.
Lost == {k \in Keys : Live(k) /\ store'[k] = NoEntry}

ByRequest(c) == kind[c] \in Deletes \cup {"clear"} /\ pc[c] = "before"

\* Only a call to delete, deleteMany or clear takes a live entry away: reads
\* delete "any expired entries" they encounter (core/keyv/README.md:1068).
LiveEntriesKept ==
  [][\A k \in Lost : \E c \in Clients : /\ ByRequest(c) /\ k \in keys[c]
                                        /\ pc'[c] # pc[c]]_hvars

\* A read's clean-up may hit a live entry only if that entry was written after
\* the read began: what was in the store before a read started, and has not
\* expired, is never taken away by that read.
ReadsTakeOnlyNewcomers ==
  [][\A k \in Lost : \E c \in Clients :
       /\ pc'[c] # pc[c]
       /\ \/ ByRequest(c) /\ k \in keys[c]
          \/ kind[c] \in Reads /\ <<k, store[k].val>> \notin old[c]]_hvars

-----------------------------------------------------------------------------
(* What a call reports *)

\* stat:set is emitted for exactly the entries the adapter stored, and a call
\* that met an error never counts as a success for the same key.
Truthful(c) ==
  LET set    == {k \in Keys : <<"set", k>> \in told[c]}
      failed == {k \in Keys : <<"error", k>> \in told[c]}
      hit    == {k \in Keys : <<"hit", k>> \in told[c]}
  IN  /\ kind[c] \in Writes => set = Stored(c)
      /\ kind[c] \in Gets => hit = Present(c)
      /\ (kind[c] = "get" => hit \cap failed = {})

\* Telemetry of the single-key operations and of the batch reads agrees with
\* what the caller was told (KeyvStats counts from it).  setMany() and
\* setManyRaw() announce the entries the adapter refused, too.
TelemetryTruthful ==
  \A c \in Clients : pc[c] = "done" /\ kind[c] \notin {"setMany", "setManyRaw"}
                       => Truthful(c)

-----------------------------------------------------------------------------
(* KeyvCore keeps the promise of a cache.  An entry that has lapsed since the *)
(* adapter answered is already lost to the read, though Decode only finds out *)
(* at its next step.                                                          *)

Holds(c, k) == /\ kind[c] \in Reads /\ data[c][k] # NoEntry
               /\ ~(CheckExpired /\ pc[c] = "decode" /\ Expired(data[c][k]))

Content == [k \in Keys |-> IF Live(k) THEN store[k].val ELSE NoEntry]
Held    == [c \in Clients |-> [k \in Keys |->
              IF Holds(c, k) THEN data[c][k].val ELSE NoEntry]]

Promise == INSTANCE CachePromise WITH
  None <- NoEntry, content <- Content, past <- ever, held <- Held

\* Every step of KeyvCore is a step of the promise or none: no value comes
\* back once overwritten or gone, and all that a read returns, over all its
\* keys, was live at the one instant its adapter call took effect.
KeepsPromise == Promise!Spec
=============================================================================
