--------------------------- MODULE KeyvCoreProofs ---------------------------
(***************************************************************************)
(* Theorems about KeyvCore and KeyvCoreHistory, for any number of callers, *)
(* any keys, any deadlines, with or without adapter failures.              *)
(***************************************************************************)
EXTENDS KeyvCoreHistory, TLAPS

USE KindsAssumption, TtlAssumption, NeverAssumption, NoEntryAssumption,
    FlagAssumption

\* Reading and removing keep the adapter's content well typed.
LEMMA AdapterTyping ==
  ASSUME store \in [Keys -> Slot], NEW ks, NEW rows \in [Keys -> Slot]
  PROVE  /\ AdapterGet(ks) \in [Keys -> Slot]
         /\ StoreAfterGet(ks) \in [Keys -> Slot]
         /\ StoreAfterSet(ks, rows) \in [Keys -> Slot]
         /\ StoreAfterDelete(ks) \in [Keys -> Slot]
  BY DEF AdapterGet, StoreAfterGet, StoreAfterSet, StoreAfterDelete, Slot

\* A deadline computed from a ttl argument is a time or "no expiry".
LEMMA DeadlineTyping ==
  ASSUME clock \in Nat, NEW ttl \in Expiry
  PROVE  CalculateExpires(ResolveTtl(ttl)) \in Expiry
  BY DEF CalculateExpires, ResolveTtl, Expiry

LEMMA TellTyping ==
  ASSUME told \in [Clients -> SUBSET (Events \X Keys)],
         NEW c \in Clients, NEW e \in Events, NEW ks \in SUBSET Keys,
         Tell(c, e, ks)
  PROVE  told' \in [Clients -> SUBSET (Events \X Keys)]
  BY DEF Tell

LEMMA RaiseTyping ==
  ASSUME told \in [Clients -> SUBSET (Events \X Keys)],
         pc \in [Clients -> Places],
         NEW c \in Clients, NEW place \in Places, NEW ks \in SUBSET Keys,
         Raise(c, place, ks)
  PROVE  /\ told' \in [Clients -> SUBSET (Events \X Keys)]
         /\ \E p \in {place, "rejected"} : pc' = [pc EXCEPT ![c] = p]
<1>1. CASE Goto(c, place) /\ Tell(c, "error", ks)
  BY <1>1, TellTyping DEF Goto, Events
<1>2. CASE Goto(c, "rejected") /\ UNCHANGED told
  BY <1>2 DEF Goto
<1> QED
  BY <1>1, <1>2 DEF Raise

LEMMA TypeOkStep == TypeOk /\ [Next]_vars => TypeOk'
<1> SUFFICES ASSUME TypeOk, [Next]_vars PROVE TypeOk'
  OBVIOUS
<1>1. CASE Tick
  BY <1>1 DEF Tick, TypeOk
<1>2. ASSUME NEW c \in Clients, Begin(c) PROVE TypeOk'
  <2>1. PICK k \in Kinds : \E ks \in Arguments(k), d \in DueArguments(k) :
                             Call(c, k, ks, d)
    BY <1>2 DEF Begin
  <2>2. PICK ks \in Arguments(k), d \in DueArguments(k) : Call(c, k, ks, d)
    BY <2>1
  <2>3. k \in AllKinds /\ ks \in SUBSET Keys
    BY DEF Arguments
  <2>4. d \in Expiry
    BY BoundAssumption DEF DueArguments, Expiry
  <2>5. data' \in [Clients -> [Keys -> Slot]] /\ writes' \in Nat
    <3>1. writes + 1 \in Nat
      BY DEF TypeOk
    <3>2. [val |-> writes + 1, expires |-> Never] \in Entry
      BY <3>1 DEF Entry, Expiry
    <3> QED
      BY <2>2, <3>1, <3>2 DEF Call, TypeOk, Slot, Nothing
  <2>6. /\ pc' = [pc EXCEPT ![c] = "before"]
        /\ doomed' = [doomed EXCEPT ![c] = {}]
        /\ ok' = [ok EXCEPT ![c] = [key \in Keys |-> FALSE]]
        /\ told' = [told EXCEPT ![c] = {}]
        /\ kind' = [kind EXCEPT ![c] = k]
        /\ keys' = [keys EXCEPT ![c] = ks]
        /\ due' = [due EXCEPT ![c] = d]
        /\ UNCHANGED <<clock, store>>
    BY <2>2 DEF Call, Goto
  <2>7. k \in Writes => \A key \in ks : data'[c][key] # NoEntry
    <3>1. [val |-> writes + 1, expires |-> Never] \in Entry
      BY DEF Entry, Expiry, TypeOk
    <3> QED
      BY <2>2, <2>3, <3>1 DEF Call, TypeOk
  <2>8. \A b \in Clients : b # c => data'[b] = data[b]
    BY <2>2 DEF Call, TypeOk
  <2> QED
    BY <2>3, <2>4, <2>5, <2>6, <2>7, <2>8 DEF TypeOk, Places
<1>3. ASSUME NEW c \in Clients, ReadStore(c) PROVE TypeOk'
  BY <1>3, AdapterTyping DEF ReadStore, Goto, TypeOk, Places
<1>4. ASSUME NEW c \in Clients, ReadFails(c) PROVE TypeOk'
  <2>1. /\ told' \in [Clients -> SUBSET (Events \X Keys)]
        /\ \E p \in {"decode", "rejected"} : pc' = [pc EXCEPT ![c] = p]
    BY <1>4, RaiseTyping DEF ReadFails, Goto, TypeOk, Places
  <2> QED
    BY <1>4, <2>1 DEF ReadFails, TypeOk, Places
<1>5. ASSUME NEW c \in Clients, Decode(c) PROVE TypeOk'
  <2>1. PICK garbled \in SUBSET keys[c] :
          LET dead == DoomedKeys(keys[c] \ garbled, data[c]) IN
          /\ data'   = [data EXCEPT ![c] =
                          [k \in Keys |-> IF k \in garbled \cup dead
                                          THEN NoEntry ELSE @[k]]]
          /\ doomed' = [doomed EXCEPT ![c] = dead]
          /\ Goto(c, IF dead = {} THEN "after" ELSE "expire")
    BY <1>5 DEF Decode
  <2> DEFINE dead == DoomedKeys(keys[c] \ garbled, data[c])
  <2>2. dead \in SUBSET Keys
    BY DEF DoomedKeys, TypeOk
  <2> HIDE DEF dead
  <2>3. data' \in [Clients -> [Keys -> Slot]]
    BY <2>1 DEF dead, TypeOk, Slot
  <2>4. /\ pc' = [pc EXCEPT ![c] = IF dead = {} THEN "after" ELSE "expire"]
        /\ doomed' = [doomed EXCEPT ![c] = dead]
    BY <2>1 DEF dead, Goto
  <2> QED
    BY <1>5, <2>2, <2>3, <2>4 DEF Decode, TypeOk, Places
<1>14. ASSUME NEW c \in Clients, DecodeThrows(c) PROVE TypeOk'
  BY <1>14 DEF DecodeThrows, Goto, TypeOk, Places, Nothing, Slot
<1>6. ASSUME NEW c \in Clients, Purge(c) PROVE TypeOk'
  <2>1. store' \in [Keys -> Slot]
    BY <1>6, AdapterTyping DEF Purge, TypeOk
  <2>2. /\ told' \in [Clients -> SUBSET (Events \X Keys)]
        /\ \E p \in {"after", "rejected"} : pc' = [pc EXCEPT ![c] = p]
    <3>1. CASE Raise(c, "after", doomed[c])
      BY <3>1, RaiseTyping DEF TypeOk, Places
    <3>2. CASE Tell(c, "delete", doomed[c]) /\ Goto(c, "after")
      BY <3>2, TellTyping DEF Goto, TypeOk, Events
    <3> QED
      BY <1>6, <3>1, <3>2 DEF Purge
  <2> QED
    BY <1>6, <2>1, <2>2 DEF Purge, TypeOk, Places
<1>7. ASSUME NEW c \in Clients, Encode(c) PROVE TypeOk'
  <2> DEFINE deadline == IF kind[c] \in RawWrites THEN due[c]
                         ELSE CalculateExpires(ResolveTtl(due[c]))
  <2>1. deadline \in Expiry
    BY DeadlineTyping DEF TypeOk
  <2>2. \A k \in keys[c] : data[c][k] \in Entry
    BY <1>7 DEF Encode, TypeOk, Slot
  <2>3. \A k \in keys[c] : [val |-> data[c][k].val, expires |-> deadline] \in Entry
    <3> HIDE DEF deadline
    <3> QED BY <2>1, <2>2 DEF Entry
  <2>4. data' = [data EXCEPT ![c] =
                   [k \in Keys |-> IF k \in keys[c]
                                   THEN [val |-> data[c][k].val, expires |-> deadline]
                                   ELSE NoEntry]]
    BY <1>7 DEF Encode, TypeOk
  <2> HIDE DEF deadline
  <2>5. data' \in [Clients -> [Keys -> Slot]]
    BY <2>3, <2>4 DEF TypeOk, Slot
  <2>6. \A k \in keys[c] : data'[c][k] # NoEntry
    BY <2>3, <2>4 DEF TypeOk
  <2> QED
    BY <1>7, <2>4, <2>5, <2>6 DEF Encode, Goto, TypeOk, Places
<1>8. ASSUME NEW c \in Clients, WriteStore(c) PROVE TypeOk'
  <2>1. store' \in [Keys -> Slot]
    BY <1>8, AdapterTyping DEF WriteStore, TypeOk
  <2>2. told' \in [Clients -> SUBSET (Events \X Keys)]
    BY <1>8, TellTyping DEF WriteStore, TypeOk, Events
  <2>3. ok' \in [Clients -> [Keys -> BOOLEAN]]
    BY <1>8 DEF WriteStore, TypeOk
  <2> QED
    BY <1>8, <2>1, <2>2, <2>3 DEF WriteStore, Goto, TypeOk, Places
<1>9. ASSUME NEW c \in Clients, WriteFails(c) PROVE TypeOk'
  <2>1. store' \in [Keys -> Slot]
    BY <1>9, AdapterTyping DEF WriteFails, TypeOk
  <2>2. /\ told' \in [Clients -> SUBSET (Events \X Keys)]
        /\ \E p \in {"after", "rejected"} : pc' = [pc EXCEPT ![c] = p]
    BY <1>9, RaiseTyping DEF WriteFails, TypeOk, Places
  <2> QED
    BY <1>9, <2>1, <2>2 DEF WriteFails, TypeOk, Places
<1>10. ASSUME NEW c \in Clients, RemoveStore(c) PROVE TypeOk'
  <2>1. store' \in [Keys -> Slot]
    BY <1>10, AdapterTyping DEF RemoveStore, TypeOk
  <2>2. told' \in [Clients -> SUBSET (Events \X Keys)]
    BY <1>10, TellTyping DEF RemoveStore, TypeOk, Events
  <2>3. ok' \in [Clients -> [Keys -> BOOLEAN]]
    BY <1>10 DEF RemoveStore, TypeOk
  <2> QED
    BY <1>10, <2>1, <2>2, <2>3 DEF RemoveStore, Goto, TypeOk, Places
<1>11. ASSUME NEW c \in Clients, RemoveFails(c) PROVE TypeOk'
  <2> DEFINE named == IF kind[c] = "clear" THEN {} ELSE keys[c]
  <2>0. named \in SUBSET Keys /\ Raise(c, "after", named)
    BY <1>11 DEF RemoveFails, TypeOk
  <2> HIDE DEF named
  <2>1. /\ told' \in [Clients -> SUBSET (Events \X Keys)]
        /\ \E p \in {"after", "rejected"} : pc' = [pc EXCEPT ![c] = p]
    BY <2>0, RaiseTyping DEF TypeOk, Places
  <2> QED
    BY <1>11, <2>1 DEF RemoveFails, TypeOk, Places
<1>12. ASSUME NEW c \in Clients, Finish(c) PROVE TypeOk'
  <2>1. FinalTelemetry(c) \in SUBSET (Events \X Keys)
    BY DEF FinalTelemetry, Report, Present, Stored, Events, TypeOk
  <2>2. told' \in [Clients -> SUBSET (Events \X Keys)]
    BY <1>12, <2>1 DEF Finish, TypeOk
  <2>3. ok' \in [Clients -> [Keys -> BOOLEAN]]
    BY <1>12 DEF Finish, TypeOk
  <2> QED
    BY <1>12, <2>2, <2>3 DEF Finish, Goto, TypeOk, Places
<1>13. CASE UNCHANGED vars
  BY <1>13 DEF vars, TypeOk
<1> QED
  BY <1>1, <1>2, <1>3, <1>4, <1>5, <1>6, <1>7, <1>8, <1>9, <1>10, <1>11,
     <1>12, <1>13, <1>14 DEF Next, Step

\* Every behaviour of KeyvCore keeps its variables well typed, with keys
\* marked for deletion only between a read's expiry check and its deletion.
THEOREM TypeCorrect == Spec => []TypeOk
<1>1. Init => TypeOk
  BY DEF Init, TypeOk, Nothing, Slot, Places, AllKinds, Expiry, Writes, Reads
<1> QED
  BY <1>1, TypeOkStep, PTL DEF Spec

-----------------------------------------------------------------------------
(* No read answers with an entry that had expired when it was called. *)

\* A step of one call leaves the other calls where they are.
LEMMA OthersKept ==
  ASSUME TypeOk, NEW c \in Clients, Step(c), NEW d \in Clients, d # c
  PROVE  /\ pc'[d] = pc[d] /\ kind'[d] = kind[d] /\ keys'[d] = keys[d]
         /\ data'[d] = data[d] /\ doomed'[d] = doomed[d]
         /\ ok'[d] = ok[d] /\ told'[d] = told[d]
<1>1. CASE Begin(c)
  BY <1>1 DEF Begin, Call, Goto, TypeOk
<1>2. CASE ReadStore(c) \/ ReadFails(c)
  BY <1>2 DEF ReadStore, ReadFails, Raise, Goto, Tell, TypeOk
<1>3. CASE Decode(c) \/ DecodeThrows(c)
  BY <1>3 DEF Decode, DecodeThrows, Goto, TypeOk
<1>4. CASE Purge(c)
  BY <1>4 DEF Purge, Raise, Goto, Tell, TypeOk
<1>5. CASE Encode(c)
  BY <1>5 DEF Encode, Goto, TypeOk
<1>6. CASE WriteStore(c) \/ WriteFails(c)
  BY <1>6 DEF WriteStore, WriteFails, Raise, Goto, Tell, TypeOk
<1>7. CASE RemoveStore(c) \/ RemoveFails(c)
  BY <1>7 DEF RemoveStore, RemoveFails, Raise, Goto, Tell, TypeOk
<1>8. CASE Finish(c)
  BY <1>8 DEF Finish, Goto, TypeOk
<1> QED
  BY <1>1, <1>2, <1>3, <1>4, <1>5, <1>6, <1>7, <1>8 DEF Step

\* A step never turns time back.
LEMMA TimePasses ==
  ASSUME TypeOk, Next
  PROVE  clock' \in Nat /\ clock <= clock'
BY DEF Next, Step, Tick, Begin, Call, ReadStore, ReadFails, Decode,
       DecodeThrows, Purge, Encode, WriteStore, WriteFails, RemoveStore, RemoveFails, Finish, TypeOk

\* The inductive invariant: calls began in the past, and what a read holds
\* concerns the keys it was asked for only.
CallsTimely ==
  /\ start \in [Clients -> Nat]
  /\ \A c \in Clients : start[c] <= clock

HoldsOnlyAsked ==
  \A c \in Clients : \A k \in Keys :
    data[c][k] # NoEntry => k \in keys[c]

TimelyInv == TypeOk /\ CallsTimely /\ HoldsOnlyAsked /\ NoExpiredAnswer

LEMMA HoldsOnlyAskedStep ==
  ASSUME TypeOk, HoldsOnlyAsked, Next
  PROVE  HoldsOnlyAsked'
<1>1. CASE Tick
  BY <1>1 DEF Tick, HoldsOnlyAsked
<1>2. ASSUME NEW c \in Clients, Step(c) PROVE HoldsOnlyAsked'
  <2> SUFFICES ASSUME NEW k \in Keys, data'[c][k] # NoEntry
               PROVE  k \in keys'[c]
    BY <1>2, OthersKept DEF HoldsOnlyAsked
  <2>1. CASE Begin(c)
    BY <2>1 DEF Begin, Call, Nothing, TypeOk
  <2>2. CASE ReadStore(c)
    BY <2>2 DEF ReadStore, AdapterGet, TypeOk
  <2>3. CASE Decode(c)
    BY <2>3 DEF Decode, HoldsOnlyAsked, TypeOk
  <2>4. CASE Encode(c)
    BY <2>4 DEF Encode, TypeOk
  <2>5. CASE DecodeThrows(c)
    BY <2>5 DEF DecodeThrows, Nothing, TypeOk
  <2>6. CASE UNCHANGED <<data, keys>>
    BY <2>6 DEF HoldsOnlyAsked
  <2> QED
    BY <1>2, <2>1, <2>2, <2>3, <2>4, <2>5, <2>6 DEF Step, ReadFails, Purge,
       WriteStore, WriteFails, RemoveStore, RemoveFails, Finish
<1> QED
  BY <1>1, <1>2 DEF Next

\* A call's start is set when it begins and kept until it begins again.
LEMMA CallsTimelyStep ==
  ASSUME TypeOk, CallsTimely, Next, Observe
  PROVE  CallsTimely'
BY TimePasses DEF Observe, CallsTimely, TypeOk

LEMMA NoExpiredAnswerStep ==
  ASSUME TimelyInv, Next, Observe
  PROVE  NoExpiredAnswer'
<1> USE DEF TimelyInv
<1> SUFFICES ASSUME CheckExpired, NEW d \in Clients, NEW k \in Keys,
                    Answered(d)', data'[d][k] # NoEntry,
                    data'[d][k].expires # Never
             PROVE  data'[d][k].expires >= start'[d]
  BY DEF NoExpiredAnswer
<1>1. start'[d] = start[d]
  BY DEF Observe, Starts, Answered
<1>2. CASE Answered(d) /\ data'[d] = data[d]
  BY <1>1, <1>2 DEF NoExpiredAnswer
<1>3. ASSUME Decode(d) PROVE data'[d][k].expires >= start'[d]
  <2>1. PICK garbled \in SUBSET keys[d] :
          data' = [data EXCEPT ![d] =
                     [key \in Keys |->
                        IF key \in garbled \cup
                                  DoomedKeys(keys[d] \ garbled, data[d])
                        THEN NoEntry ELSE @[key]]]
    BY <1>3 DEF Decode
  <2>2. /\ k \notin garbled /\ k \notin DoomedKeys(keys[d] \ garbled, data[d])
        /\ data'[d][k] = data[d][k]
    BY <2>1 DEF TypeOk
  <2>3. k \in keys[d]
    BY <2>2 DEF HoldsOnlyAsked
  <2>4. ~ Expired(data[d][k])
    BY <2>2, <2>3 DEF DoomedKeys
  <2>5. data[d][k].expires \in Nat
    BY <2>2 DEF TypeOk, Slot, Entry, Expiry
  <2> QED
    BY <1>1, <2>2, <2>4, <2>5 DEF Expired, CallsTimely, TypeOk
<1>4. CASE Tick
  BY <1>2, <1>4 DEF Tick, Answered
<1>5. ASSUME NEW c \in Clients, Step(c), c # d
      PROVE  data'[d][k].expires >= start'[d]
  BY <1>2, <1>5, OthersKept DEF Answered
<1>6. ASSUME Step(d), ~ Decode(d)
      PROVE  data'[d][k].expires >= start'[d]
  <2> USE DEF Goto, Answered, TypeOk
  <2>1. CASE Begin(d) \/ ReadStore(d) \/ ReadFails(d) \/ Encode(d)
             \/ DecodeThrows(d)
    BY <2>1 DEF Begin, Call, ReadStore, ReadFails, Raise, Encode, DecodeThrows
  <2>2. CASE Purge(d)
    BY <1>2, <2>2 DEF Purge, Raise
  <2>3. CASE WriteStore(d) \/ WriteFails(d)
    BY <2>3 DEF WriteStore, WriteFails, Raise, Reads, Writes
  <2>4. CASE RemoveStore(d) \/ RemoveFails(d)
    BY <2>4 DEF RemoveStore, RemoveFails, Raise, Reads, Deletes
  <2>5. CASE Finish(d)
    BY <1>2, <2>5 DEF Finish
  <2> QED
    BY <1>6, <2>1, <2>2, <2>3, <2>4, <2>5 DEF Step
<1> QED
  BY <1>3, <1>4, <1>5, <1>6 DEF Next

\* With checkExpired on, no get, getMany or has answers with an entry past
\* its deadline when the call was made, whatever the adapter returns.
THEOREM ReadsNeverExpired == HSpec => []NoExpiredAnswer
<1>1. HInit => TimelyInv
  BY DEF HInit, Init, TimelyInv, TypeOk, CallsTimely, HoldsOnlyAsked,
         NoExpiredAnswer, Answered, Nothing, Slot, Places, AllKinds, Expiry
<1>2. TimelyInv /\ [HNext]_hvars => TimelyInv'
  <2> SUFFICES ASSUME TimelyInv, [HNext]_hvars PROVE TimelyInv'
    OBVIOUS
  <2>1. CASE HNext
    BY <2>1, TypeOkStep, CallsTimelyStep, HoldsOnlyAskedStep,
       NoExpiredAnswerStep DEF HNext, TimelyInv
  <2>2. CASE UNCHANGED hvars
    BY <2>2 DEF hvars, TimelyInv, TypeOk, CallsTimely, HoldsOnlyAsked,
                NoExpiredAnswer, Answered
  <2> QED
    BY <2>1, <2>2
<1>3. TimelyInv => NoExpiredAnswer
  BY DEF TimelyInv
<1> QED
  BY <1>1, <1>2, <1>3, PTL DEF HSpec

-----------------------------------------------------------------------------
(* KeyvCore implements CachePromise. *)

\* A write that has not reached the store yet.
Pending(c) == pc[c] \in {"before", "write"} /\ kind[c] \in Writes

\* What was live is on record; the value of a pending write was never live,
\* and no two pending writes carry the same value for a key.
FreshInv ==
  /\ ever \in SUBSET (Keys \X Nat)
  /\ \A k \in Keys : \A v \in Nat : <<k, v>> \in ever => v <= writes
  /\ \A k \in Keys : Live(k) => <<k, store[k].val>> \in ever
  /\ \A c \in Clients : Pending(c) =>
       \A k \in keys[c] : /\ data[c][k].val <= writes
                          /\ <<k, data[c][k].val>> \notin ever
  /\ \A c, d \in Clients : c # d /\ Pending(c) /\ Pending(d) =>
       \A k \in keys[c] \cap keys[d] : data[c][k].val # data[d][k].val

\* Under a step, an entry either was live already, or a pending write has
\* just put it there.
Written(c, k) == /\ Pending(c) /\ pc[c] = "write"
                 /\ pc'[c] \in {"after", "rejected"}
                 /\ k \in keys[c] /\ store'[k] = data[c][k]

LEMMA StoreStep ==
  ASSUME TypeOk, Next, NEW k \in Keys, store'[k] # NoEntry
  PROVE  store'[k] = store[k] \/ \E c \in Clients : Written(c, k)
<1>1. CASE Tick
  BY <1>1 DEF Tick
<1>2. ASSUME NEW c \in Clients, Step(c)
      PROVE  store'[k] = store[k] \/ Written(c, k)
  <2>1. CASE ReadStore(c)
    BY <2>1 DEF ReadStore, StoreAfterGet
  <2>2. CASE Purge(c)
    BY <2>2 DEF Purge, StoreAfterDelete
  <2>3. CASE WriteStore(c)
    BY <2>3 DEF WriteStore, StoreAfterSet, Written, Pending, Goto, TypeOk
  <2>4. CASE WriteFails(c)
    BY <2>4 DEF WriteFails, Raise, StoreAfterSet, Written, Pending,
       Goto, TypeOk
  <2>5. CASE RemoveStore(c)
    BY <2>5 DEF RemoveStore, StoreAfterDelete
  <2>6. CASE UNCHANGED store
    BY <2>6
  <2> QED
    BY <1>2, <2>1, <2>2, <2>3, <2>4, <2>5, <2>6 DEF Step, Begin, Call, ReadFails,
       Decode, DecodeThrows, Encode, RemoveFails, Finish
<1> QED
  BY <1>1, <1>2 DEF Next

\* An entry that stays where it is never becomes live again.
LEMMA LiveStep ==
  ASSUME TypeOk, Next, NEW k \in Keys, Live(k)', store'[k] = store[k]
  PROVE  Live(k)
<1>1. clock \in Nat /\ clock' \in Nat /\ clock <= clock'
  BY TimePasses DEF TypeOk
<1>2. store[k] # NoEntry /\ store[k] \in Entry
  BY DEF Live, TypeOk, Slot
<1> QED
  BY <1>1, <1>2 DEF Live, Expired, Entry, Expiry

\* How a pending write came to be pending: it was, or it has just begun with
\* a value of its own.
LEMMA PendingStep ==
  ASSUME TypeOk, Next, NEW c \in Clients, Pending(c)'
  PROVE  /\ writes \in Nat /\ writes <= writes'
         /\ \/ /\ Pending(c) /\ keys'[c] = keys[c]
              /\ \A k \in keys[c] : data'[c][k].val = data[c][k].val
            \/ /\ writes' = writes + 1
              /\ \A k \in keys'[c] : data'[c][k].val = writes + 1
              /\ \A d \in Clients : d # c =>
                   /\ pc'[d] = pc[d] /\ kind'[d] = kind[d]
                   /\ keys'[d] = keys[d] /\ data'[d] = data[d]
<1> USE DEF TypeOk
<1>1. CASE Tick
  BY <1>1 DEF Tick, Pending
<1>2. ASSUME NEW d \in Clients, Step(d), d # c
      PROVE  /\ writes <= writes'
             /\ Pending(c) /\ keys'[c] = keys[c] /\ data'[c] = data[c]
  <2>1. writes <= writes'
    BY <1>2 DEF Step, Begin, Call, ReadStore, ReadFails, Decode, DecodeThrows,
                Purge, Encode, WriteStore, WriteFails, RemoveStore, RemoveFails, Finish
  <2> QED
    BY <1>2, <2>1, OthersKept DEF Pending
<1>3. ASSUME Begin(c)
      PROVE  /\ writes' = writes + 1
             /\ \A k \in keys'[c] : data'[c][k].val = writes + 1
  <2>1. PICK w \in Kinds : \E ks \in Arguments(w), due0 \in DueArguments(w) :
                             Call(c, w, ks, due0)
    BY <1>3 DEF Begin
  <2>2. PICK ks \in Arguments(w), due0 \in DueArguments(w) :
               Call(c, w, ks, due0)
    BY <2>1
  <2>3. w \in Writes /\ ks \subseteq Keys
    BY <2>2 DEF Call, Pending, Arguments
  <2>4. /\ keys'[c] = ks
        /\ writes' = writes + 1
        /\ data'[c] = [key \in Keys |-> IF key \in ks
                          THEN [val |-> writes + 1, expires |-> Never]
                          ELSE NoEntry]
    BY <2>2, <2>3 DEF Call
  <2> QED
    BY <2>3, <2>4
<1>4. ASSUME Encode(c)
      PROVE  /\ Pending(c) /\ keys'[c] = keys[c] /\ writes' = writes
             /\ \A k \in keys[c] : data'[c][k].val = data[c][k].val
  BY <1>4 DEF Encode, Pending
<1>5. ASSUME Step(c), ~ Begin(c), ~ Encode(c) PROVE FALSE
  BY <1>5 DEF Step, ReadStore, ReadFails, Decode, DecodeThrows, Purge,
     WriteStore, WriteFails, RemoveStore, RemoveFails, Finish, Raise, Goto,
     Pending, TypeOk
<1> QED
  BY <1>1, <1>2, <1>3, <1>4, <1>5, OthersKept DEF Next, Step

LEMMA FreshInvStep ==
  ASSUME TypeOk, TypeOk', FreshInv, Next, Observe
  PROVE  FreshInv'
<1> USE DEF FreshInv
<1>1. writes \in Nat /\ writes' \in Nat /\ writes <= writes'
  BY DEF Next, Step, Tick, Begin, Call, ReadStore, ReadFails, Decode, DecodeThrows, Purge,
         Encode, WriteStore, WriteFails, RemoveStore, RemoveFails, Finish,
         TypeOk
<1>2. ever' = ever \cup {<<k, store'[k].val>> : k \in {key \in Keys : Live(key)'}}
  BY DEF Observe, LivePairs
\* What a step adds to the record is the value of a write that was pending.
<1>3. ASSUME NEW k \in Keys, NEW v, <<k, v>> \in ever', <<k, v>> \notin ever
      PROVE  /\ Live(k)' /\ v = store'[k].val
             /\ \E c \in Clients : Written(c, k)
  <2>1. Live(k)' /\ v = store'[k].val
    BY <1>2, <1>3
  <2>2. store'[k] # NoEntry
    BY <2>1 DEF Live
  <2>3. store'[k] # store[k]
    BY <1>3, <2>1, LiveStep
  <2> QED
    BY <2>1, <2>2, <2>3, StoreStep
<1>4. ever' \in SUBSET (Keys \X Nat)
  <2>1. \A k \in Keys : Live(k)' => store'[k].val \in Nat
    BY DEF TypeOk, Slot, Entry, Live
  <2> QED
    BY <1>2, <2>1
<1>5. \A k \in Keys : \A v \in Nat : <<k, v>> \in ever' => v <= writes'
  <2> SUFFICES ASSUME NEW k \in Keys, NEW v \in Nat, <<k, v>> \in ever'
               PROVE  v <= writes'
    OBVIOUS
  <2>1. CASE <<k, v>> \in ever
    BY <1>1, <2>1
  <2>2. CASE <<k, v>> \notin ever
    <3>1. PICK c \in Clients : Written(c, k)
      BY <1>3, <2>2
    <3>2. v = data[c][k].val
      BY <1>3, <2>2, <3>1 DEF Written
    <3>3. v <= writes
      BY <3>1, <3>2 DEF Written
    <3> QED
      BY <1>1, <3>3
  <2> QED
    BY <2>1, <2>2
<1>6. \A k \in Keys : Live(k)' => <<k, store'[k].val>> \in ever'
  BY <1>2
<1>7. ASSUME NEW c \in Clients, Pending(c)', NEW k \in keys'[c]
      PROVE  /\ data'[c][k].val <= writes'
             /\ <<k, data'[c][k].val>> \notin ever'
  <2>0. k \in Keys
    BY DEF TypeOk
  <2>1. CASE /\ Pending(c) /\ keys'[c] = keys[c]
             /\ data'[c][k].val = data[c][k].val
    <3>1. data[c][k].val <= writes /\ <<k, data[c][k].val>> \notin ever
      BY <1>7, <2>1
    <3>2. data[c][k].val \in Nat
      BY <1>7, <2>0, <2>1 DEF Pending, TypeOk, Slot, Entry
    <3>3. ASSUME <<k, data[c][k].val>> \in ever' PROVE FALSE
      <4>1. PICK d \in Clients : Written(d, k)
        BY <1>3, <2>0, <3>1, <3>3
      <4>2. data[c][k].val = data[d][k].val
        BY <1>3, <2>0, <3>1, <3>3, <4>1 DEF Written
      <4>3. c # d
        BY <1>7, <4>1 DEF Written, Pending
      <4> QED
        BY <1>7, <2>1, <4>1, <4>2, <4>3 DEF Written
    <3> QED
      BY <1>1, <2>1, <3>1, <3>2, <3>3
  <2>2. CASE /\ writes' = writes + 1
             /\ data'[c][k].val = writes + 1
             /\ \A d \in Clients : d # c => pc'[d] = pc[d]
    <3>1. ASSUME <<k, writes + 1>> \in ever' PROVE FALSE
      <4>1. <<k, writes + 1>> \notin ever
        BY <1>1, <2>0
      <4>2. PICK d \in Clients : Written(d, k)
        BY <1>3, <2>0, <3>1, <4>1
      <4>3. d = c
        BY <2>2, <4>2 DEF Written
      <4> QED
        BY <1>7, <4>2, <4>3 DEF Written, Pending
    <3> QED
      BY <1>1, <2>2, <3>1
  <2> QED
    BY <1>7, <2>1, <2>2, PendingStep
<1>8. ASSUME NEW c \in Clients, NEW d \in Clients, c # d, Pending(c)',
             Pending(d)', NEW k \in keys'[c] \cap keys'[d]
      PROVE  data'[c][k].val # data'[d][k].val
  <2>0. k \in Keys
    BY DEF TypeOk
  <2> DEFINE Kept(b) == /\ Pending(b) /\ keys'[b] = keys[b]
                        /\ data'[b][k].val = data[b][k].val
             New(b)  == /\ data'[b][k].val = writes + 1
                        /\ \A e \in Clients : e # b =>
                             /\ pc'[e] = pc[e] /\ kind'[e] = kind[e]
                             /\ keys'[e] = keys[e] /\ data'[e] = data[e]
  <2>1. Kept(c) \/ New(c)
    BY <1>8, PendingStep
  <2>2. Kept(d) \/ New(d)
    BY <1>8, PendingStep
  <2>3. CASE Kept(c) /\ Kept(d)
    BY <1>8, <2>3
  <2>4. CASE New(c)
    <3>1. Pending(d) /\ k \in keys[d] /\ data'[d] = data[d]
      BY <1>8, <2>4 DEF Pending
    <3>2. data[d][k].val <= writes
      BY <3>1
    <3>3. data[d][k].val \in Nat
      BY <2>0, <3>1 DEF Pending, TypeOk, Slot, Entry
    <3> QED
      BY <1>1, <2>4, <3>1, <3>2, <3>3
  <2>5. CASE New(d)
    <3>1. Pending(c) /\ k \in keys[c] /\ data'[c] = data[c]
      BY <1>8, <2>5 DEF Pending
    <3>2. data[c][k].val <= writes
      BY <3>1
    <3>3. data[c][k].val \in Nat
      BY <2>0, <3>1 DEF Pending, TypeOk, Slot, Entry
    <3> QED
      BY <1>1, <2>5, <3>1, <3>2, <3>3
  <2> QED
    BY <2>1, <2>2, <2>3, <2>4, <2>5
<1> QED
  BY <1>4, <1>5, <1>6, <1>7, <1>8

\* Outside ReadStore, a read keeps what it holds or gives it up.
LEMMA HeldStep ==
  ASSUME TypeOk, TypeOk', HoldsOnlyAsked, Next, NEW c \in Clients,
         ~ ReadStore(c), NEW k \in Keys
  PROVE  Held'[c][k] \in {Held[c][k], NoEntry}
<1> SUFFICES ASSUME Holds(c, k)'
             PROVE  Holds(c, k) /\ data'[c][k] = data[c][k]
  BY DEF Held
<1>1. CASE Tick
  <2>1. ASSUME Expired(data[c][k]), data[c][k] # NoEntry
        PROVE  Expired(data[c][k])'
    <3>1. data[c][k].expires \in Nat /\ clock \in Nat
      BY <2>1 DEF Expired, TypeOk, Slot, Entry, Expiry
    <3> QED
      BY <1>1, <2>1, <3>1 DEF Tick, Expired
  <2> QED
    BY <1>1, <2>1 DEF Tick, Holds
<1>2. ASSUME NEW d \in Clients, Step(d), d # c
      PROVE  Holds(c, k) /\ data'[c][k] = data[c][k]
  <2>1. /\ pc'[c] = pc[c] /\ kind'[c] = kind[c] /\ data'[c] = data[c]
    BY <1>2, OthersKept
  <2>2. clock' = clock
    BY <1>2 DEF Step, Begin, Call, ReadStore, ReadFails, Decode, DecodeThrows, Purge,
       Encode, WriteStore, WriteFails, RemoveStore, RemoveFails, Finish
  <2> QED
    BY <2>1, <2>2 DEF Holds, Expired
<1>3. CASE Begin(c)
  BY <1>3 DEF Begin, Call, Holds, Nothing, Reads, Writes, TypeOk
<1>4. CASE Decode(c)
  <2>1. PICK garbled \in SUBSET keys[c] :
          data' = [data EXCEPT ![c] =
                     [key \in Keys |->
                        IF key \in garbled \cup
                                  DoomedKeys(keys[c] \ garbled, data[c])
                        THEN NoEntry ELSE @[key]]]
    BY <1>4 DEF Decode
  <2>2. /\ k \notin garbled /\ k \notin DoomedKeys(keys[c] \ garbled, data[c])
        /\ data'[c][k] = data[c][k] /\ data[c][k] # NoEntry
    BY <2>1 DEF Holds, TypeOk
  <2>3. ~ (CheckExpired /\ Expired(data[c][k]))
    BY <2>2 DEF HoldsOnlyAsked, DoomedKeys
  <2>4. kind[c] \in Reads
    BY <1>4 DEF Decode, TypeOk
  <2> QED
    BY <2>2, <2>3, <2>4 DEF Holds
<1>5. CASE Encode(c)
  BY <1>5 DEF Encode, Holds, Reads, Writes
<1>6. CASE ReadFails(c)
  BY <1>6 DEF ReadFails, Raise, Holds, Goto, TypeOk
<1>7. CASE Purge(c)
  BY <1>7 DEF Purge, Raise, Holds, Goto, TypeOk
<1>11. CASE DecodeThrows(c)
  BY <1>11 DEF DecodeThrows, Holds, Nothing, TypeOk
<1>8. CASE WriteStore(c) \/ WriteFails(c)
  BY <1>8 DEF WriteStore, WriteFails, Raise, Holds, Goto, TypeOk
<1>9. CASE RemoveStore(c) \/ RemoveFails(c)
  BY <1>9 DEF RemoveStore, RemoveFails, Raise, Holds, Goto, TypeOk
<1>10. CASE Finish(c)
  BY <1>10 DEF Finish, Holds, Goto, TypeOk
<1> QED
  BY <1>1, <1>2, <1>3, <1>4, <1>5, <1>6, <1>7, <1>8, <1>9, <1>10,
     <1>11
  DEF Next, Step

\* The instant of a read: what it now holds is live in the store.
LEMMA LookupStep ==
  ASSUME TypeOk, FreshInv, Next, Observe, CheckExpired \/ AdapterExpires,
         NEW c \in Clients, ReadStore(c)
  PROVE  Promise!Lookup(c)
<1>1. /\ data' = [data EXCEPT ![c] = AdapterGet(keys[c])]
      /\ store' = StoreAfterGet(keys[c])
      /\ kind[c] \in Reads /\ kind' = kind /\ clock' = clock
      /\ pc' = [pc EXCEPT ![c] = "decode"]
  BY DEF ReadStore, Goto
<1>2. \A k \in Keys : store'[k] = store[k] \/ (Expired(store[k]) /\ store'[k] = NoEntry)
  BY <1>1 DEF StoreAfterGet, Lapsed
<1>3. Content' = Content
  <2>1. \A k \in Keys : Live(k)' <=> Live(k)
    BY <1>1, <1>2 DEF Live, Expired
  <2>2. \A k \in Keys : Live(k) => store'[k] = store[k]
    BY <1>2 DEF Live
  <2> QED
    BY <2>1, <2>2 DEF Content
<1>4. ever' = ever
  <2>1. \A k \in Keys : Live(k)' => Live(k) /\ store'[k] = store[k]
    BY <1>1, <1>2 DEF Live, Expired
  <2> QED
    BY <2>1 DEF Observe, LivePairs, FreshInv
<1> DEFINE ks == {k \in Keys : Holds(c, k)'}
<1>5. \A k \in ks : Live(k) /\ data'[c][k].val = store[k].val
  <2> SUFFICES ASSUME NEW k \in Keys, Holds(c, k)'
               PROVE  Live(k) /\ data'[c][k].val = store[k].val
    OBVIOUS
  <2>1. data'[c][k] = AdapterGet(keys[c])[k]
    BY <1>1 DEF TypeOk
  <2>2. data'[c][k] = store[k] /\ store[k] # NoEntry /\ ~ Lapsed(k)
    BY <2>1 DEF Holds, AdapterGet
  <2>3. ~ (CheckExpired /\ Expired(store[k]))
    BY <1>1, <2>2 DEF Holds, Expired, TypeOk
  <2> QED
    BY <2>2, <2>3 DEF Live, Lapsed
<1>6. Held' = [Held EXCEPT ![c] =
                 [k \in Keys |-> IF k \in ks THEN Content[k] ELSE NoEntry]]
  <2>1. \A d \in Clients : d # c => \A k \in Keys : Holds(d, k)' <=> Holds(d, k)
    BY <1>1 DEF Holds, Expired, TypeOk
  <2>2. \A d \in Clients : d # c => data'[d] = data[d]
    BY <1>1 DEF TypeOk
  <2>3. \A k \in Keys : (IF Holds(c, k)' THEN data'[c][k].val ELSE NoEntry)
                        = (IF k \in ks THEN Content[k] ELSE NoEntry)
    BY <1>5 DEF Content
  <2> HIDE DEF ks
  <2> QED
    BY <2>1, <2>2, <2>3 DEF Held
<1> QED
  BY <1>3, <1>4, <1>6 DEF Promise!Lookup

\* Every other step changes the content as a cache may.
LEMMA ChangeStep ==
  ASSUME TypeOk, TypeOk', HoldsOnlyAsked, FreshInv, Next, Observe,
         \A c \in Clients : ~ ReadStore(c)
  PROVE  Promise!Change
<1>1. Content' \in [Keys -> Promise!Cell]
  BY DEF Content, Promise!Cell, Promise!Value, Live, TypeOk, Slot, Entry
<1>2. ASSUME NEW k \in Keys
      PROVE  Content'[k] \in {Content[k], NoEntry} \/ <<k, Content'[k]>> \notin ever
  <2>1. CASE ~ Live(k)'
    BY <2>1 DEF Content
  <2>2. CASE Live(k)' /\ store'[k] = store[k]
    BY <2>2, LiveStep DEF Content
  <2>3. CASE Live(k)' /\ store'[k] # store[k]
    <3>1. PICK c \in Clients : Written(c, k)
      BY <2>3, StoreStep DEF Live
    <3>2. <<k, store'[k].val>> \notin ever
      BY <3>1 DEF Written, FreshInv
    <3> QED
      BY <2>3, <3>2 DEF Content
  <2> QED
    BY <2>1, <2>2, <2>3
<1>3. ever' = ever \cup Promise!Pairs(Content')
  <2>1. \A k \in Keys : Content'[k] # NoEntry <=> Live(k)'
    BY DEF Content, Live, TypeOk, Slot, Entry
  <2>2. \A k \in Keys : Live(k)' => Content'[k] = store'[k].val
    BY DEF Content
  <2> QED
    BY <2>1, <2>2 DEF Observe, LivePairs, Promise!Pairs
<1>4. Held' \in [Clients -> [Keys -> Promise!Cell]]
  BY DEF Held, Holds, Promise!Cell, Promise!Value, TypeOk, Slot, Entry
<1>5. \A c \in Clients, k \in Keys : Held'[c][k] \in {Held[c][k], NoEntry}
  BY HeldStep
<1> QED
  BY <1>1, <1>2, <1>3, <1>4, <1>5 DEF Promise!Change

PromiseInv == TypeOk /\ HoldsOnlyAsked /\ FreshInv

\* If Keyv checks expiry or the adapter does, the instance keeps the promise
\* of a cache under any interleaving of its calls: no value comes back once
\* overwritten or gone, and what a read returns was live at one instant.
THEOREM Refinement ==
  ASSUME CheckExpired \/ AdapterExpires
  PROVE  HSpec => KeepsPromise
<1>1. HInit => PromiseInv
  BY DEF HInit, Init, PromiseInv, TypeOk, HoldsOnlyAsked, FreshInv, Live,
         Pending, Nothing, Slot, Places, AllKinds, Expiry
<1>2. PromiseInv /\ [HNext]_hvars => PromiseInv'
  <2> SUFFICES ASSUME PromiseInv, [HNext]_hvars PROVE PromiseInv'
    OBVIOUS
  <2>1. CASE HNext
    BY <2>1, TypeOkStep, HoldsOnlyAskedStep, FreshInvStep DEF HNext, PromiseInv
  <2>2. CASE UNCHANGED hvars
    BY <2>2 DEF hvars, PromiseInv, TypeOk, HoldsOnlyAsked, FreshInv, Live,
                Expired, Pending
  <2> QED
    BY <2>1, <2>2
<1>3. HInit => Promise!Init
  BY DEF HInit, Init, Promise!Init, Promise!Empty, Content, Held, Live, Holds,
         Nothing
<1>4. PromiseInv /\ PromiseInv' /\ [HNext]_hvars
        => [Promise!Next]_(Promise!promiseVars)
  <2> SUFFICES ASSUME PromiseInv, PromiseInv', [HNext]_hvars
               PROVE  [Promise!Next]_(Promise!promiseVars)
    OBVIOUS
  <2>1. CASE HNext
    BY <2>1, LookupStep, ChangeStep DEF HNext, PromiseInv, Promise!Next
  <2>2. CASE UNCHANGED hvars
    BY <2>2 DEF hvars, Promise!promiseVars, Content, Held, Live, Holds, Expired
  <2> QED
    BY <2>1, <2>2
<1> QED
  BY <1>1, <1>2, <1>3, <1>4, PTL DEF HSpec, KeepsPromise, Promise!Spec

-----------------------------------------------------------------------------
(* What a call reports is what it did. *)

Silent(c, event) == \A k \in Keys : <<event, k>> \notin told[c]

\* Until it is done, a call has told no hit, no miss and, of a single key, no
\* set; a get holds nothing for a key it told an error about.
Reports(c) ==
  /\ pc[c] = "before" => told[c] = {} /\ (kind[c] \in Reads => data[c] = Nothing)
  /\ pc[c] \in {"decode", "expire", "write", "after"} => Silent(c, "hit") /\ Silent(c, "miss")
  /\ pc[c] \in {"write", "after"} /\ kind[c] \in {"set", "setRaw"} => Silent(c, "set")
  /\ pc[c] \in {"decode", "expire", "after"} /\ kind[c] = "get" =>
       \A k \in Keys : <<"error", k>> \in told[c] => data[c][k] = NoEntry
  /\ pc[c] = "expire" => \A k \in doomed[c] : data[c][k] = NoEntry
  /\ pc[c] = "done" /\ kind[c] \notin {"setMany", "setManyRaw"} => Truthful(c)

ReportInv == \A c \in Clients : Reports(c)

\* What a call reports depends on that call alone.
LEMMA ReportsAside ==
  ASSUME NEW c \in Clients, Reports(c),
         UNCHANGED <<pc[c], kind[c], keys[c], data[c], doomed[c], ok[c], told[c]>>
  PROVE  Reports(c)'
BY DEF Reports, Silent, Truthful, Stored, Present

\* An error leaves a call silent about everything else.
LEMMA RaiseSilent ==
  ASSUME TypeOk, NEW c \in Clients, NEW ks \in SUBSET Keys, NEW place \in {"decode", "after"},
         Raise(c, place, ks)
  PROVE  /\ pc'[c] \in {place, "rejected"}
         /\ \A e \in Events \ {"error"}, k \in Keys : <<e, k>> \in told'[c] <=> <<e, k>> \in told[c]
         /\ \A k \in Keys : <<"error", k>> \in told'[c] => <<"error", k>> \in told[c] \/ k \in ks
<1>1. CASE Goto(c, place) /\ Tell(c, "error", ks)
  BY <1>1 DEF Goto, Tell, TypeOk
<1>2. CASE Goto(c, "rejected") /\ UNCHANGED told
  BY <1>2 DEF Goto, TypeOk
<1> QED
  BY <1>1, <1>2 DEF Raise

\* A call's own steps keep its report true.
LEMMA ReportsStep ==
  ASSUME TypeOk, NEW c \in Clients, Reports(c), Step(c)
  PROVE  Reports(c)'
<1> USE DEF TypeOk
<1>1. CASE Begin(c)
  <2>1. pc'[c] = "before" /\ told'[c] = {}
    BY <1>1 DEF Begin, Call, Goto
  <2>2. kind'[c] \in Reads => data'[c] = Nothing
    BY <1>1 DEF Begin, Call, Reads, Writes
  <2> QED BY <2>1, <2>2 DEF Reports
<1>2. CASE ReadStore(c)
  BY <1>2 DEF ReadStore, Goto, Reports, Silent
<1>3. CASE ReadFails(c)
  <2>1. /\ pc'[c] \in {"decode", "rejected"} /\ data' = data /\ data[c] = Nothing
        /\ \A e \in Events \ {"error"}, k \in Keys : <<e, k>> \in told'[c] <=> <<e, k>> \in told[c]
    BY <1>3, RaiseSilent DEF ReadFails, Goto, Reports
  <2> QED BY <1>3, <2>1 DEF ReadFails, Reports, Silent, Events, Nothing
<1>4. CASE Decode(c)
  <2>1. PICK garbled \in SUBSET keys[c] :
          LET dead == DoomedKeys(keys[c] \ garbled, data[c]) IN
          /\ data'   = [data EXCEPT ![c] = [k \in Keys |-> IF k \in garbled \cup dead
                                                          THEN NoEntry ELSE @[k]]]
          /\ doomed' = [doomed EXCEPT ![c] = dead]
          /\ Goto(c, IF dead = {} THEN "after" ELSE "expire")
    BY <1>4 DEF Decode
  <2> DEFINE dead == DoomedKeys(keys[c] \ garbled, data[c])
  <2>2. dead \in SUBSET Keys
    BY DEF DoomedKeys
  <2> HIDE DEF dead
  <2>3. /\ \A k \in Keys : data'[c][k] \in {data[c][k], NoEntry}
        /\ \A k \in dead : data'[c][k] = NoEntry
        /\ doomed'[c] = dead /\ pc'[c] \in {"after", "expire"}
    BY <2>1, <2>2 DEF Goto, dead
  <2> QED BY <1>4, <2>3 DEF Decode, Reports, Silent, Reads
<1>5. CASE DecodeThrows(c)
  BY <1>5 DEF DecodeThrows, Goto, Reports
<1>6. CASE Purge(c)
  <2>1. CASE Raise(c, "after", doomed[c])
    <3>1. /\ pc'[c] \in {"after", "rejected"}
          /\ \A e \in Events \ {"error"}, k \in Keys : <<e, k>> \in told'[c] <=> <<e, k>> \in told[c]
          /\ \A k \in Keys : <<"error", k>> \in told'[c] => <<"error", k>> \in told[c] \/ k \in doomed[c]
      BY <2>1, RaiseSilent
    <3> QED BY <1>6, <3>1 DEF Purge, Reports, Silent, Events, Reads
  <2>2. CASE Tell(c, "delete", doomed[c]) /\ Goto(c, "after")
    BY <1>6, <2>2 DEF Purge, Tell, Goto, Reports, Silent, Reads
  <2> QED BY <1>6, <2>1, <2>2 DEF Purge
<1>7. CASE Encode(c)
  BY <1>7 DEF Encode, Goto, Reports, Silent
<1>8. CASE WriteStore(c)
  <2>1. /\ pc'[c] = "after" /\ kind[c] \in Writes /\ kind' = kind
        /\ \A e \in Events \ {"set"}, k \in Keys : <<e, k>> \in told'[c] <=> <<e, k>> \in told[c]
        /\ kind[c] \in {"set", "setRaw"} => told' = told
    BY <1>8 DEF WriteStore, Tell, Goto, BatchKinds
  <2> QED BY <2>1, <1>8 DEF WriteStore, Reports, Silent, Events, Writes
<1>9. CASE WriteFails(c)
  <2>1. /\ pc'[c] \in {"after", "rejected"} /\ kind[c] \in Writes /\ kind' = kind
        /\ \A e \in Events \ {"error"}, k \in Keys : <<e, k>> \in told'[c] <=> <<e, k>> \in told[c]
    BY <1>9, RaiseSilent DEF WriteFails
  <2> QED BY <2>1, <1>9 DEF WriteFails, Reports, Silent, Events, Writes
<1>10. CASE RemoveStore(c)
  <2>1. /\ pc'[c] = "after" /\ kind[c] \in Deletes \cup {"clear"} /\ kind' = kind
        /\ \A e \in Events \ {"delete"}, k \in Keys : <<e, k>> \in told'[c] <=> <<e, k>> \in told[c]
    BY <1>10 DEF RemoveStore, Tell, Goto
  <2> QED BY <2>1, <1>10 DEF RemoveStore, Reports, Silent, Events, Deletes
<1>11. CASE RemoveFails(c)
  <2> DEFINE named == IF kind[c] = "clear" THEN {} ELSE keys[c]
  <2>1. named \in SUBSET Keys /\ Raise(c, "after", named)
    BY <1>11 DEF RemoveFails
  <2> HIDE DEF named
  <2>2. /\ pc'[c] \in {"after", "rejected"} /\ kind[c] \in Deletes \cup {"clear"} /\ kind' = kind
        /\ \A e \in Events \ {"error"}, k \in Keys : <<e, k>> \in told'[c] <=> <<e, k>> \in told[c]
    BY <1>11, <2>1, RaiseSilent DEF RemoveFails
  <2> QED BY <2>2, <1>11 DEF RemoveFails, Reports, Silent, Events, Deletes
<1>12. CASE Finish(c)
  <2>1. /\ pc'[c] = "done" /\ told'[c] = told[c] \cup FinalTelemetry(c)
        /\ kind' = kind /\ keys' = keys /\ data' = data
        /\ Present(c)' = Present(c)
    BY <1>12 DEF Finish, Goto, Present
  <2>2. kind[c] \in Gets => Silent(c, "hit")
    BY <1>12 DEF Finish, Reports
  <2>3. ASSUME kind[c] \in Writes, kind[c] \notin {"setMany", "setManyRaw"}
        PROVE  Truthful(c)'
    <3>1. kind[c] \in {"set", "setRaw"} /\ ok' = ok /\ Stored(c)' = Stored(c)
      BY <1>12, <2>3 DEF Finish, Writes, Reads, Stored
    <3>2. FinalTelemetry(c) = {"set"} \X Stored(c)
      BY <3>1 DEF FinalTelemetry, Report, Gets, Reads
    <3>3. Silent(c, "set")
      BY <1>12, <3>1 DEF Finish, Reports
    <3>4. kind'[c] \notin Gets
      BY <2>1, <3>1 DEF Gets, Reads
    <3>5. \A k \in Keys : <<"set", k>> \in told'[c] <=> k \in Stored(c)
      BY <2>1, <3>2, <3>3 DEF Silent
    <3>6. Stored(c) \subseteq Keys
      BY DEF Stored
    <3>7. {k \in Keys : <<"set", k>> \in told'[c]} = Stored(c)'
      BY <3>1, <3>5, <3>6
    <3>8. kind'[c] # "get"
      BY <2>1, <3>1
    <3> QED BY <3>4, <3>7, <3>8 DEF Truthful
  <2>4. ASSUME kind[c] \in Gets PROVE Truthful(c)'
    <3>1. FinalTelemetry(c) = ({"hit"} \X Present(c)) \cup ({"miss"} \X (keys[c] \ Present(c)))
      BY <2>4 DEF FinalTelemetry, Report, Gets, Reads
    <3>2. kind'[c] \notin Writes
      BY <2>1, <2>4 DEF Gets, Reads, Writes
    <3>3. kind[c] = "get" => \A k \in Keys : <<"error", k>> \in told[c] => k \notin Present(c)
      BY <1>12 DEF Finish, Reports, Present
    <3>4. Present(c) \subseteq Keys
      BY DEF Present
    <3>5. \A k \in Keys : <<"hit", k>> \in told'[c] <=> k \in Present(c)
      BY <2>1, <2>2, <2>4, <3>1, <3>4 DEF Silent
    <3>6. {k \in Keys : <<"hit", k>> \in told'[c]} = Present(c)'
      BY <2>1, <3>4, <3>5
    <3>7. \A k \in Keys : <<"error", k>> \in told'[c] <=> <<"error", k>> \in told[c]
      BY <2>1, <3>1
    <3>8. kind'[c] = "get" =>
            {k \in Keys : <<"hit", k>> \in told'[c]} \cap {k \in Keys : <<"error", k>> \in told'[c]} = {}
      BY <2>1, <3>3, <3>5, <3>7
    <3> QED BY <3>2, <3>6, <3>8 DEF Truthful
  <2>5. ASSUME kind[c] \notin Gets, kind[c] \notin Writes PROVE Truthful(c)'
    BY <2>1, <2>5 DEF Truthful, Gets, Reads
  <2>6. kind[c] \notin {"setMany", "setManyRaw"} => Truthful(c)'
    BY <2>3, <2>4, <2>5
  <2>7. pc'[c] = "done" /\ kind'[c] = kind[c]
    BY <2>1
  <2> HIDE DEF TypeOk
  <2> QED BY <2>6, <2>7 DEF Reports
<1> QED
  BY <1>1, <1>2, <1>3, <1>4, <1>5, <1>6, <1>7, <1>8, <1>9, <1>10, <1>11, <1>12 DEF Step

\* Nor does any other step spoil it.
LEMMA ReportInvStep ==
  ASSUME TypeOk, ReportInv, Next
  PROVE  ReportInv'
<1> SUFFICES ASSUME NEW c \in Clients PROVE Reports(c)'
  BY DEF ReportInv
<1>1. CASE Tick
  BY <1>1, ReportsAside DEF Tick, ReportInv
<1>2. ASSUME NEW d \in Clients, Step(d), d # c PROVE Reports(c)'
  BY <1>2, OthersKept, ReportsAside DEF ReportInv
<1>3. CASE Step(c)
  BY <1>3, ReportsStep DEF ReportInv
<1> QED BY <1>1, <1>2, <1>3 DEF Next

\* Whatever fails and whoever else is under way, a single-key write announces a
\* set exactly when the adapter stored it, a read announces hits for exactly
\* what it returns, and a get that met an error announces none.
THEOREM TelemetryTellsTrue == HSpec => []TelemetryTruthful
<1>1. HInit => TypeOk /\ ReportInv
  BY DEF HInit, Init, TypeOk, Nothing, Slot, Places, AllKinds, Expiry, Writes, Reads, ReportInv,
         Reports
<1>2. TypeOk /\ ReportInv /\ [HNext]_hvars => (TypeOk /\ ReportInv)'
  <2> SUFFICES ASSUME TypeOk, ReportInv, [HNext]_hvars PROVE TypeOk' /\ ReportInv'
    OBVIOUS
  <2>1. CASE HNext
    BY <2>1, TypeOkStep, ReportInvStep DEF HNext
  <2>2. CASE UNCHANGED hvars
    BY <2>2, TypeOkStep, ReportsAside DEF hvars, vars, ReportInv
  <2> QED BY <2>1, <2>2
<1>3. ReportInv => TelemetryTruthful
  BY DEF ReportInv, Reports, TelemetryTruthful
<1> QED BY <1>1, <1>2, <1>3, PTL DEF HSpec

-----------------------------------------------------------------------------
(* What a read's clean-up may take away. *)

\* The values a key has had in the store: now, or when a call began.
Spent == StoredPairs \cup UNION {old[c] : c \in Clients}

\* The values on record are those of writes, and of none that is pending.
SpentInv ==
  /\ Spent \in SUBSET (Keys \X Nat)
  /\ \A k \in Keys : \A v \in Nat : <<k, v>> \in Spent => v <= writes
  /\ \A c \in Clients : Pending(c) =>
       \A k \in keys[c] : <<k, data[c][k].val>> \notin Spent

\* A value enters the record when a pending write stores it.
LEMMA SpentStep ==
  ASSUME TypeOk, Next, Observe, NEW k \in Keys, NEW v, <<k, v>> \in Spent', <<k, v>> \notin Spent
  PROVE  \E c \in Clients : Written(c, k) /\ v = data[c][k].val
<1>1. \A c \in Clients : old'[c] \in {old[c], StoredPairs}
  BY DEF Observe
<1>2. <<k, v>> \in StoredPairs'
  BY <1>1 DEF Spent
<1>3. store'[k] # NoEntry /\ v = store'[k].val
  BY <1>2 DEF StoredPairs
<1>4. store'[k] # store[k]
  BY <1>3 DEF Spent, StoredPairs
<1> QED
  BY <1>3, <1>4, StoreStep DEF Written

\* Values on record stay those of writes that are over.
LEMMA SpentInvStep ==
  ASSUME TypeOk, TypeOk', FreshInv, SpentInv, Next, Observe
  PROVE  SpentInv'
<1>1. writes \in Nat /\ writes' \in Nat /\ writes <= writes'
  BY DEF Next, Step, Tick, Begin, Call, ReadStore, ReadFails, Decode, DecodeThrows, Purge,
         Encode, WriteStore, WriteFails, RemoveStore, RemoveFails, Finish, TypeOk
<1>2. Spent' \subseteq Spent \cup (Keys \X Nat)
  <2>1. StoredPairs \in SUBSET (Keys \X Nat) /\ StoredPairs' \in SUBSET (Keys \X Nat)
    BY DEF StoredPairs, TypeOk, Slot, Entry
  <2>2. \A c \in Clients : old'[c] \in {old[c], StoredPairs}
    BY DEF Observe
  <2> QED BY <2>1, <2>2 DEF Spent
<1>3. Spent' \in SUBSET (Keys \X Nat)
  BY <1>2 DEF SpentInv
<1>4. ASSUME NEW k \in Keys, NEW v \in Nat, <<k, v>> \in Spent' PROVE v <= writes'
  <2>1. CASE <<k, v>> \in Spent
    BY <1>1, <2>1 DEF SpentInv
  <2>2. CASE <<k, v>> \notin Spent
    <3>1. PICK c \in Clients : Written(c, k) /\ v = data[c][k].val
      BY <1>4, <2>2, SpentStep
    <3>2. v <= writes
      BY <3>1 DEF Written, FreshInv
    <3> QED BY <1>1, <3>2
  <2> QED BY <2>1, <2>2
<1>5. ASSUME NEW c \in Clients, Pending(c)', NEW k \in keys'[c]
      PROVE  <<k, data'[c][k].val>> \notin Spent'
  <2>0. k \in Keys
    BY DEF TypeOk
  <2> SUFFICES ASSUME <<k, data'[c][k].val>> \in Spent' PROVE FALSE
    OBVIOUS
  <2>1. CASE Pending(c) /\ keys'[c] = keys[c] /\ data'[c][k].val = data[c][k].val
    <3>1. PICK d \in Clients : Written(d, k) /\ data'[c][k].val = data[d][k].val
      BY <1>5, <2>0, <2>1, SpentStep DEF SpentInv
    <3>2. c # d
      BY <1>5, <3>1 DEF Written, Pending
    <3>3. Pending(d) /\ k \in keys[c] \cap keys[d] /\ data[c][k].val = data[d][k].val
      BY <1>5, <2>1, <3>1 DEF Written
    <3> QED BY <2>1, <3>2, <3>3 DEF FreshInv
  <2>2. CASE /\ writes' = writes + 1 /\ data'[c][k].val = writes + 1
             /\ \A d \in Clients : d # c => pc'[d] = pc[d]
    <3>1. <<k, writes + 1>> \notin Spent
      BY <1>1, <2>0 DEF SpentInv
    <3>2. PICK d \in Clients : Written(d, k)
      BY <2>0, <2>2, <3>1, SpentStep
    <3>3. d = c
      BY <2>2, <3>2 DEF Written
    <3> QED BY <1>5, <3>2, <3>3 DEF Written, Pending
  <2> QED BY <1>5, <2>1, <2>2, PendingStep
<1> QED BY <1>3, <1>4, <1>5 DEF SpentInv

\* An entry a read holds, or dooms, is the one in the store if that was there
\* when the read began.
Witnesses(c) ==
  /\ pc[c] = "decode" => \A k \in Keys :
       data[c][k] # NoEntry /\ store[k] # NoEntry /\ <<k, store[k].val>> \in old[c]
         => store[k] = data[c][k]
  /\ pc[c] = "expire" => \A k \in doomed[c] :
       store[k] # NoEntry /\ <<k, store[k].val>> \in old[c] => Expired(store[k])

WitnessInv == \A c \in Clients : Witnesses(c)

\* An entry that was there when a call began is not one put there since.
LEMMA OldEntry ==
  ASSUME TypeOk, SpentInv, Next, Observe, NEW c \in Clients, ~ Starts(c), NEW k \in Keys,
         store'[k] # NoEntry, <<k, store'[k].val>> \in old'[c]
  PROVE  store'[k] = store[k] /\ <<k, store[k].val>> \in old[c]
<1>1. old'[c] = old[c]
  BY DEF Observe
<1>2. ASSUME NEW d \in Clients, Written(d, k) PROVE FALSE
  BY <1>1, <1>2 DEF Written, SpentInv, Spent
<1> QED BY <1>1, <1>2, StoreStep

\* What had expired stays so.
LEMMA ExpiredStays ==
  ASSUME TypeOk, Next, NEW e \in Slot, Expired(e)
  PROVE  Expired(e)'
<1>1. e.expires \in Nat
  BY DEF Expired, Slot, Entry, Expiry
<1>2. clock \in Nat /\ clock' \in Nat /\ clock <= clock'
  BY TimePasses DEF TypeOk
<1> QED BY <1>1, <1>2 DEF Expired

\* What a read holds of the store it began with stays what the store holds.
LEMMA WitnessInvStep ==
  ASSUME TypeOk, ReportInv, SpentInv, WitnessInv, Next, Observe
  PROVE  WitnessInv'
<1> SUFFICES ASSUME NEW c \in Clients PROVE Witnesses(c)'
  BY DEF WitnessInv
<1>1. CASE UNCHANGED <<pc[c], data[c], doomed[c]>>
  <2>1. ~ Starts(c)
    BY <1>1 DEF Starts
  <2>2. doomed[c] \subseteq Keys
    BY DEF TypeOk
  <2>3. \A k \in Keys : store[k] \in Slot
    BY DEF TypeOk
  <2> QED BY <1>1, <2>1, <2>2, <2>3, OldEntry, ExpiredStays DEF WitnessInv, Witnesses
<1>2. CASE Tick
  BY <1>1, <1>2 DEF Tick
<1>3. ASSUME NEW d \in Clients, Step(d), d # c PROVE Witnesses(c)'
  BY <1>1, <1>3, OthersKept
<1>4. CASE ReadStore(c)
  <2>1. /\ data'[c] = AdapterGet(keys[c]) /\ store' = StoreAfterGet(keys[c]) /\ pc'[c] = "decode"
    BY <1>4 DEF ReadStore, Goto, TypeOk
  <2> QED BY <2>1 DEF Witnesses, AdapterGet, StoreAfterGet
<1>5. CASE ReadFails(c)
  <2>1. data'[c] = Nothing
    BY <1>5 DEF ReadFails, ReportInv, Reports
  <2>2. keys[c] \in SUBSET Keys
    BY DEF TypeOk
  <2>3. pc'[c] # "expire"
    <3>1. CASE Raise(c, "decode", keys[c])
      <4>1. pc'[c] \in {"decode", "rejected"}
        BY <2>2, <3>1, RaiseSilent
      <4> QED BY <4>1
    <3>2. CASE Goto(c, "rejected")
      BY <3>2 DEF Goto, TypeOk
    <3> QED BY <1>5, <3>1, <3>2 DEF ReadFails
  <2> QED BY <2>1, <2>3 DEF Witnesses, Nothing
<1>6. CASE Decode(c)
  <2>1. /\ pc[c] = "decode" /\ pc'[c] # "decode" /\ store' = store /\ clock' = clock /\ old'[c] = old[c]
        /\ \A k \in doomed'[c] : k \in Keys /\ Expired(data[c][k])
    BY <1>6 DEF Decode, Goto, DoomedKeys, TypeOk, Observe, Starts
  <2> QED BY <2>1 DEF WitnessInv, Witnesses, Expired
<1>7. CASE pc'[c] \notin {"decode", "expire"}
  BY <1>7 DEF Witnesses
<1>8. ASSUME Step(c), ~ ReadStore(c), ~ ReadFails(c), ~ Decode(c)
      PROVE  pc'[c] \notin {"decode", "expire"}
  BY <1>8, RaiseTyping DEF Step, Begin, Call, DecodeThrows, Purge, Encode, WriteStore, WriteFails,
     RemoveStore, RemoveFails, Finish, Raise, Goto, TypeOk
<1> QED BY <1>2, <1>3, <1>4, <1>5, <1>6, <1>7, <1>8 DEF Next

\* A live entry goes away by request, or as a newcomer among a read's doomed.
LEMMA LossStep ==
  ASSUME TypeOk, Next, NEW k \in Keys, Live(k), store'[k] = NoEntry
  PROVE  \E c \in Clients :
           /\ pc'[c] # pc[c]
           /\ \/ ByRequest(c) /\ k \in keys[c]
              \/ pc[c] = "expire" /\ kind[c] \in Reads /\ k \in doomed[c]
<1>0. store[k] # NoEntry /\ ~ Expired(store[k])
  BY DEF Live
<1>1. PICK c \in Clients : Step(c)
  BY <1>0 DEF Next, Tick
<1>2. CASE ReadStore(c)
  BY <1>0, <1>2 DEF ReadStore, StoreAfterGet, Lapsed
<1>3. CASE Purge(c)
  BY <1>0, <1>3 DEF Purge, StoreAfterDelete, Goto, TypeOk
<1>4. CASE WriteStore(c) \/ WriteFails(c)
  BY <1>0, <1>4 DEF WriteStore, WriteFails, StoreAfterSet, TypeOk
<1>5. CASE RemoveStore(c)
  BY <1>0, <1>5 DEF RemoveStore, StoreAfterDelete, ByRequest, Goto, TypeOk
<1>6. CASE store' = store
  BY <1>0, <1>6
<1> QED
  BY <1>1, <1>2, <1>3, <1>4, <1>5, <1>6 DEF Step, Begin, Call, ReadFails, Decode, DecodeThrows,
     Encode, RemoveFails, Finish

NewcomerInv == TypeOk /\ FreshInv /\ ReportInv /\ SpentInv /\ WitnessInv

\* Under any interleaving of calls, an entry that was in the store when a read
\* began and has not expired is never removed by that read's clean-up: the
\* live entries a read takes away were written after it began.
THEOREM OnlyNewcomersTaken == HSpec => ReadsTakeOnlyNewcomers
<1>1. HInit => NewcomerInv
  BY DEF HInit, Init, NewcomerInv, TypeOk, Nothing, Slot, Places, AllKinds, Expiry, Writes, Reads,
         FreshInv, Live, Pending, ReportInv, Reports, SpentInv, Spent, StoredPairs, WitnessInv, Witnesses
<1>2. NewcomerInv /\ [HNext]_hvars => NewcomerInv'
  <2> SUFFICES ASSUME NewcomerInv, [HNext]_hvars PROVE NewcomerInv'
    OBVIOUS
  <2>1. CASE HNext
    BY <2>1, TypeOkStep, FreshInvStep, ReportInvStep, SpentInvStep, WitnessInvStep DEF HNext, NewcomerInv
  <2>2. CASE UNCHANGED hvars
    <3>1. TypeOk' /\ FreshInv'
      BY <2>2 DEF hvars, NewcomerInv, TypeOk, FreshInv, Live, Expired, Pending
    <3>2. ReportInv'
      BY <2>2, ReportsAside DEF hvars, NewcomerInv, ReportInv
    <3>3. SpentInv' /\ WitnessInv'
      BY <2>2 DEF hvars, NewcomerInv, SpentInv, Spent, StoredPairs, Pending, WitnessInv, Witnesses, Expired
    <3> QED BY <3>1, <3>2, <3>3 DEF NewcomerInv
  <2> QED BY <2>1, <2>2
<1>3. NewcomerInv /\ [HNext]_hvars =>
        [\A k \in Lost : \E c \in Clients :
           /\ pc'[c] # pc[c]
           /\ \/ ByRequest(c) /\ k \in keys[c]
              \/ kind[c] \in Reads /\ <<k, store[k].val>> \notin old[c]]_hvars
  <2> SUFFICES ASSUME NewcomerInv, HNext, NEW k \in Lost
               PROVE  \E c \in Clients :
                        /\ pc'[c] # pc[c]
                        /\ \/ ByRequest(c) /\ k \in keys[c]
                           \/ kind[c] \in Reads /\ <<k, store[k].val>> \notin old[c]
    OBVIOUS
  <2>1. k \in Keys /\ Live(k) /\ store'[k] = NoEntry
    BY DEF Lost
  <2>2. PICK c \in Clients :
           /\ pc'[c] # pc[c]
           /\ \/ ByRequest(c) /\ k \in keys[c]
              \/ pc[c] = "expire" /\ kind[c] \in Reads /\ k \in doomed[c]
    BY <2>1, LossStep DEF HNext, NewcomerInv
  <2> QED BY <2>1, <2>2 DEF NewcomerInv, WitnessInv, Witnesses, Live
<1> QED BY <1>1, <1>2, <1>3, PTL DEF HSpec, ReadsTakeOnlyNewcomers

-----------------------------------------------------------------------------
(* A caller on its own. *)

\* The keys a call has a reason to find nothing under.
Excused(c) == gone[c] \cup unread[c]

\* With no other call in flight a read holds what the store holds; what it has
\* given up or not found it has a reason for.
Alone(c) ==
  kind[c] \in Reads =>
    /\ pc[c] \in {"decode", "expire", "after"} =>
         \A k \in keys[c] : data[c][k] = NoEntry => k \in Excused(c)
    /\ pc[c] = "decode" => \A k \in keys[c] : data[c][k] # NoEntry =>
         /\ store[k] = data[c][k]
         /\ Expired(data[c][k]) => k \in gone[c]
    /\ pc[c] = "expire" => \A k \in doomed[c] : ~ Live(k)

MissesExcused(c) ==
  pc[c] = "done" => \A k \in keys[c] : <<"miss", k>> \in told[c] => k \in Excused(c)

AloneInv == \A c \in Clients : Alone(c) /\ MissesExcused(c)

\* A read's moves, by the history variables: its reasons only grow, and they
\* take in whatever is not live until the read has checked what it holds.
LEMMA ReasonsGrow ==
  ASSUME Observe, NEW c \in Clients, ~ Starts(c)
  PROVE  /\ gone[c] \subseteq gone'[c] /\ unread[c] \subseteq unread'[c]
         /\ pc[c] \in {"before", "decode"} => DeadKeys' \subseteq gone'[c]
         /\ pc[c] \in {"before", "decode"} /\ pc'[c] # pc[c] =>
              Failed(c) \cup Garbled(c) \subseteq unread'[c]
BY DEF Observe

\* Time passing makes no read doom an entry that is live.
LEMMA AloneTick ==
  ASSUME TypeOk, NEW c \in Clients, Alone(c), MissesExcused(c), Tick, Observe
  PROVE  Alone(c)' /\ MissesExcused(c)'
<1>1. /\ UNCHANGED <<store, pc, kind, keys, data, doomed, told>>
      /\ ~ Starts(c)
  BY DEF Tick, Starts
<1>2. Excused(c) \subseteq Excused(c)' /\ gone[c] \subseteq gone'[c]
  BY <1>1, ReasonsGrow DEF Excused
<1>3. MissesExcused(c)'
  BY <1>1, <1>2 DEF MissesExcused
<1>4. ASSUME pc[c] = "decode", NEW k \in keys[c], data[c][k] # NoEntry, store[k] = data[c][k],
             Expired(data[c][k])'
      PROVE  k \in gone'[c]
  <2>1. k \in Keys /\ ~ Live(k)'
    BY <1>1, <1>4 DEF Live, Expired, TypeOk
  <2> QED BY <1>1, <1>4, <2>1, ReasonsGrow DEF DeadKeys
<1>5. ASSUME NEW k \in Keys, ~ Live(k) PROVE ~ Live(k)'
  BY <1>1, <1>5, ExpiredStays DEF Live, Next, TypeOk
<1>6. doomed[c] \subseteq Keys
  BY DEF TypeOk
<1> QED BY <1>1, <1>2, <1>3, <1>4, <1>5, <1>6 DEF Alone

\* Nor does the call itself.
LEMMA AloneStep ==
  ASSUME TypeOk, ReportInv, NEW c \in Clients, Alone(c), MissesExcused(c), Step(c), Observe
  PROVE  Alone(c)' /\ MissesExcused(c)'
<1>0. keys[c] \subseteq Keys /\ Reports(c)
  BY DEF TypeOk, ReportInv
<1>1. CASE Begin(c)
  BY <1>1 DEF Begin, Call, Goto, Alone, MissesExcused, TypeOk
<1>2. CASE ReadStore(c)
  <2>1. /\ pc[c] = "before" /\ pc'[c] = "decode" /\ kind' = kind /\ keys' = keys /\ clock' = clock
        /\ data'[c] = AdapterGet(keys[c]) /\ store' = StoreAfterGet(keys[c])
    BY <1>2 DEF ReadStore, Goto, TypeOk
  <2>2. DeadKeys' \subseteq gone'[c]
    BY <2>1, ReasonsGrow DEF Starts
  <2>3. \A k \in keys[c] : data'[c][k] = store'[k]
    BY <1>0, <2>1 DEF AdapterGet, StoreAfterGet
  <2>4. \A k \in keys[c] : data'[c][k] = NoEntry \/ Expired(data[c][k])' => k \in gone'[c]
    BY <1>0, <2>2, <2>3 DEF DeadKeys, Live
  <2> QED BY <2>1, <2>3, <2>4 DEF Alone, MissesExcused, Excused, Expired
<1>3. CASE ReadFails(c)
  <2>1. CASE pc'[c] = "decode" /\ Tell(c, "error", keys[c])
    <3>1. /\ pc[c] = "before" /\ kind' = kind /\ keys' = keys /\ data' = data /\ data[c] = Nothing
          /\ told[c] = {}
      BY <1>0, <1>3 DEF ReadFails, Reports
    <3>2. Failed(c) \subseteq unread'[c]
      BY <2>1, <3>1, ReasonsGrow DEF Starts
    <3>3. keys[c] \subseteq Failed(c)
      BY <1>0, <2>1, <3>1 DEF Failed, Tell, TypeOk
    <3> QED BY <1>0, <2>1, <3>1, <3>2, <3>3 DEF Alone, MissesExcused, Excused, Nothing
  <2>2. CASE pc'[c] = "rejected"
    BY <2>2 DEF Alone, MissesExcused
  <2> QED BY <1>3, <2>1, <2>2 DEF ReadFails, Raise, Goto, TypeOk
<1>4. CASE Decode(c)
  <2>1. PICK garbled \in SUBSET keys[c] :
          LET dead == DoomedKeys(keys[c] \ garbled, data[c]) IN
          /\ data'   = [data EXCEPT ![c] = [k \in Keys |-> IF k \in garbled \cup dead
                                                          THEN NoEntry ELSE @[k]]]
          /\ doomed' = [doomed EXCEPT ![c] = dead]
          /\ Goto(c, IF dead = {} THEN "after" ELSE "expire")
    BY <1>4 DEF Decode
  <2> DEFINE dead == DoomedKeys(keys[c] \ garbled, data[c])
  <2>2. /\ pc[c] = "decode" /\ pc'[c] \in {"after", "expire"} /\ doomed'[c] = dead
        /\ UNCHANGED <<clock, store, kind, keys>> /\ kind[c] \in Reads
    BY <1>4, <2>1 DEF Decode, Goto, TypeOk
  <2>3. \A k \in dead : k \in keys[c] /\ data[c][k] # NoEntry /\ Expired(data[c][k])
    BY DEF DoomedKeys, Expired
  <2>4. ~ Starts(c)
    BY <2>2 DEF Starts
  <2>5. \A k \in keys[c] : data'[c][k] = NoEntry => k \in Excused(c)'
    <3> SUFFICES ASSUME NEW k \in keys[c], data'[c][k] = NoEntry PROVE k \in Excused(c)'
      OBVIOUS
    <3>1. CASE data[c][k] = NoEntry
      BY <2>2, <2>4, <3>1, ReasonsGrow DEF Alone, Excused
    <3>2. CASE k \in dead
      BY <2>2, <2>3, <2>4, <3>2, ReasonsGrow DEF Alone, Excused
    <3>3. CASE data[c][k] # NoEntry /\ k \notin dead
      <4>1. k \in Garbled(c)
        BY <1>0, <2>2, <3>3 DEF Garbled
      <4> QED BY <2>2, <2>4, <4>1, ReasonsGrow DEF Excused
    <3> QED BY <3>1, <3>2, <3>3
  <2>6. \A k \in dead : ~ Live(k)'
    BY <2>2, <2>3 DEF Alone, Live, Expired
  <2> HIDE DEF dead
  <2> QED BY <2>2, <2>5, <2>6 DEF Alone, MissesExcused
<1>5. CASE Purge(c)
  <2>1. /\ pc[c] = "expire" /\ pc'[c] \in {"after", "rejected"} /\ UNCHANGED <<kind, keys, data>>
    BY <1>5 DEF Purge, Raise, Goto, TypeOk
  <2>2. Excused(c) \subseteq Excused(c)'
    BY <2>1, ReasonsGrow DEF Starts, Excused
  <2> QED BY <2>1, <2>2 DEF Alone, MissesExcused
<1>6. CASE Finish(c)
  <2>1. /\ pc[c] = "after" /\ pc'[c] = "done" /\ UNCHANGED <<kind, keys, data>>
        /\ told'[c] = told[c] \cup FinalTelemetry(c)
    BY <1>6 DEF Finish, Goto, TypeOk
  <2>2. Excused(c) \subseteq Excused(c)'
    BY <2>1, ReasonsGrow DEF Starts, Excused
  <2>3. ASSUME NEW k \in keys[c], <<"miss", k>> \in told'[c] PROVE k \in Excused(c)
    <3>1. <<"miss", k>> \in FinalTelemetry(c)
      BY <1>0, <2>1, <2>3 DEF Reports, Silent
    <3>2. kind[c] \in Gets /\ k \notin Present(c)
      BY <3>1 DEF FinalTelemetry, Report
    <3> QED BY <2>1, <3>2 DEF Alone, Present, Gets
  <2> QED BY <2>1, <2>2, <2>3 DEF Alone, MissesExcused
<1>7. CASE kind'[c] \notin Reads /\ pc'[c] # "done"
  BY <1>7 DEF Alone, MissesExcused
<1>8. CASE pc'[c] = "rejected"
  BY <1>8 DEF Alone, MissesExcused
<1>9. ASSUME Encode(c) \/ WriteStore(c) \/ WriteFails(c) \/ RemoveStore(c) \/ RemoveFails(c)
      PROVE  kind'[c] \notin Reads /\ pc'[c] # "done"
  BY <1>9 DEF Encode, WriteStore, WriteFails, RemoveStore, RemoveFails, Raise, Goto, TypeOk,
     Reads, Writes, Deletes
<1>10. ASSUME DecodeThrows(c) PROVE pc'[c] = "rejected"
  BY <1>10 DEF DecodeThrows, Goto, TypeOk
<1> QED
  BY <1>1, <1>2, <1>3, <1>4, <1>5, <1>6, <1>7, <1>8, <1>9, <1>10 DEF Step

SoleInv == TypeOk /\ ReportInv /\ AloneInv

\* With one caller these are all the steps there are.
LEMMA SoleInvariant ==
  ASSUME NEW caller, Clients = {caller}
  PROVE  HSpec => []SoleInv
<1>1. HInit => SoleInv
  BY DEF HInit, Init, SoleInv, TypeOk, Nothing, Slot, Places, AllKinds, Expiry, Writes, Reads,
         ReportInv, Reports, AloneInv, Alone, MissesExcused
<1>2. SoleInv /\ [HNext]_hvars => SoleInv'
  <2> SUFFICES ASSUME SoleInv, [HNext]_hvars PROVE SoleInv'
    OBVIOUS
  <2>1. CASE HNext
    <3>1. TypeOk' /\ ReportInv'
      BY <2>1, TypeOkStep, ReportInvStep DEF HNext, SoleInv
    <3>2. Tick \/ Step(caller)
      BY <2>1 DEF HNext, Next
    <3>3. Alone(caller)' /\ MissesExcused(caller)'
      BY <2>1, <3>2, AloneTick, AloneStep DEF HNext, SoleInv, AloneInv
    <3> QED BY <3>1, <3>3 DEF SoleInv, AloneInv
  <2>2. CASE UNCHANGED hvars
    <3>1. TypeOk' /\ AloneInv'
      BY <2>2 DEF hvars, SoleInv, TypeOk, AloneInv, Alone, MissesExcused, Excused, Live, Expired
    <3>2. ReportInv'
      BY <2>2, ReportsAside DEF hvars, SoleInv, ReportInv
    <3> QED BY <3>1, <3>2 DEF SoleInv
  <2> QED BY <2>1, <2>2
<1> QED BY <1>1, <1>2, PTL DEF HSpec

\* A caller with no other call in flight is told of a miss only for a key that
\* was absent or expired at some moment of its call, or whose row it could not
\* fetch or decode.
THEOREM SoleMissesJustified ==
  ASSUME NEW caller, Clients = {caller}
  PROVE  HSpec => []MissesJustified
<1>1. SoleInv => MissesJustified
  BY DEF SoleInv, AloneInv, MissesExcused, MissesJustified, Excused
<1> QED BY <1>1, SoleInvariant, PTL

\* With no other call in flight only delete, deleteMany and clear take live
\* entries away: what a read deletes has expired.
THEOREM SoleEntriesKept ==
  ASSUME NEW caller, Clients = {caller}
  PROVE  HSpec => LiveEntriesKept
<1>1. SoleInv /\ [HNext]_hvars =>
        [\A k \in Lost : \E c \in Clients : /\ ByRequest(c) /\ k \in keys[c]
                                            /\ pc'[c] # pc[c]]_hvars
  <2> SUFFICES ASSUME SoleInv, HNext, NEW k \in Lost
               PROVE  \E c \in Clients : ByRequest(c) /\ k \in keys[c] /\ pc'[c] # pc[c]
    OBVIOUS
  <2>1. k \in Keys /\ Live(k) /\ store'[k] = NoEntry
    BY DEF Lost
  <2>2. PICK c \in Clients :
           /\ pc'[c] # pc[c]
           /\ \/ ByRequest(c) /\ k \in keys[c]
              \/ pc[c] = "expire" /\ kind[c] \in Reads /\ k \in doomed[c]
    BY <2>1, LossStep DEF HNext, SoleInv
  <2> QED BY <2>1, <2>2 DEF SoleInv, AloneInv, Alone
<1> QED BY <1>1, SoleInvariant, PTL DEF HSpec, LiveEntriesKept
=============================================================================
