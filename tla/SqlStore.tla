------------------------------ MODULE SqlStore ------------------------------
(***************************************************************************)
(* The SQL storage adapters (sqlite, postgres, mysql): several callers, in *)
(* one process or many, over one table.  A statement is atomic; a call is  *)
(* a sequence of statements with an await between any two, so others run   *)
(* in between.  The three adapters differ in constants: how many keys go   *)
(* into one statement, and whether the DELETE of the rows a read found     *)
(* expired checks that they still are.                                     *)
(*                                                                         *)
(* One namespace; a key is a number, for the order of the key column.      *)
(***************************************************************************)
EXTENDS Integers, FiniteSets, FiniteSetsExt

CONSTANTS
  Clients,       \* calls in flight
  Keys,          \* the keys of the namespace
  Kinds,         \* the operations each call slot is used for
  Lifetimes,     \* time a written entry has left, or Never
  Never, None,   \* SQL NULL deadline; no row
  GuardedDelete, \* the clean-up DELETE repeats the expiry condition (mysql)
  ReadBatch, WriteBatch, DeleteBatch,  \* keys per statement
  Limit,         \* iterationLimit: rows per page
  QueriesFail,   \* a statement may fail
  LostAnswers,   \* ... after it was applied (the server is remote)
  MaxTime, MaxWrites  \* bounds: the clock, and write calls started

SingleKinds == {"get", "has", "set", "delete"}
ReadKinds   == {"get", "getMany", "has", "hasMany"}
WriteKinds  == {"set", "setMany"}
DeleteKinds == {"delete", "deleteMany", "clear", "clearExpired"}
AllKinds    == ReadKinds \cup WriteKinds \cup DeleteKinds \cup {"iterator"}

Deadline == Nat \cup {Never}
Row      == [val : Nat, expires : Deadline]

ASSUME KeysAssumption  == Keys \subseteq Nat \ {0} /\ IsFiniteSet(Keys)
ASSUME KindsAssumption == Kinds \in [Clients -> SUBSET AllKinds]
ASSUME SpecialValues   == Never \notin Nat /\ None \notin Row \cup Nat
ASSUME LifeAssumption  == Lifetimes \subseteq Deadline
ASSUME FlagAssumption  == {GuardedDelete, QueriesFail, LostAnswers}
                            \subseteq BOOLEAN
ASSUME SizeAssumption  == /\ {ReadBatch, WriteBatch, DeleteBatch, Limit}
                               \subseteq Nat \ {0}
                          /\ MaxTime \in Nat /\ MaxWrites \in Nat

VARIABLES
  clock,    \* Date.now(), the same for every process
  rows,     \* the table
  writes,   \* write calls started so far
  pc,       \* of each call: the statement that is next, "idle", "done" or "failed"
  kind,     \* its operation
  todo,     \* the keys no statement has covered yet
  now,      \* Date.now() as the call read it
  row,      \* what a write is going to store
  found,    \* what a read has found (validMap, validKeys)
  expired,  \* expiredKeys: the rows a read is about to delete
  result,   \* the keys a write or delete answers true for
  cursor,   \* an iterator's lastKey, 0 for null
  yielded   \* the keys an iterator has yielded

vars == <<clock, rows, writes, pc, kind, todo, now, row, found, expired,
          result, cursor, yielded>>
data == <<kind, now, row>>

Blank  == [val |-> 0, expires |-> Never]
NoRows == [k \in Keys |-> None]

\* A read treats a row as expired at its deadline, clearExpired() after it.
Dead(r, t)   == r # None /\ r.expires # Never /\ r.expires <= t
Lapsed(r, t) == r # None /\ r.expires # Never /\ r.expires < t
Live(k)      == rows[k] # None /\ ~Dead(rows[k], clock)

\* The next batch of a call, in whatever order the caller listed the keys.
Batches(ks, size) == kSubset(IF Cardinality(ks) < size THEN Cardinality(ks)
                                                       ELSE size, ks)

Without(ks) == [k \in Keys |-> IF k \in ks THEN None ELSE rows[k]]

-----------------------------------------------------------------------------
Arguments(k) == IF k \in SingleKinds THEN {{key} : key \in Keys}
                ELSE IF k \in {"clear", "clearExpired", "iterator"} THEN {Keys}
                ELSE (SUBSET Keys) \ {{}}

FirstPlace(k) == CASE k \in ReadKinds   -> "select"
                   [] k \in WriteKinds  -> "upsert"
                   [] k \in DeleteKinds -> "remove"
                   [] OTHER             -> "ask"

Begin(c) ==
  /\ pc[c] \in {"idle", "done", "failed"}
  /\ \E k \in Kinds[c] : \E ks \in Arguments(k), life \in Lifetimes :
       /\ k \in WriteKinds => writes < MaxWrites
       /\ k \notin WriteKinds => life = CHOOSE l \in Lifetimes : TRUE
       /\ kind' = [kind EXCEPT ![c] = k]
       /\ todo' = [todo EXCEPT ![c] = ks]
       /\ writes' = IF k \in WriteKinds THEN writes + 1 ELSE writes
       /\ row' = [row EXCEPT ![c] =
                    IF k \in WriteKinds
                    THEN [val |-> writes + 1,
                          expires |-> IF life = Never THEN Never ELSE clock + life]
                    ELSE Blank]
       /\ pc' = [pc EXCEPT ![c] = FirstPlace(k)]
  /\ now'     = [now EXCEPT ![c] = clock]
  /\ found'   = [found EXCEPT ![c] = NoRows]
  /\ result'  = [result EXCEPT ![c] = {}]
  /\ cursor'  = [cursor EXCEPT ![c] = 0]
  /\ yielded' = [yielded EXCEPT ![c] = {}]
  /\ UNCHANGED <<clock, rows, expired>>

\* A variant of Keep: the map of results declared inside the loop.
Keep_LastBatch(fresh, old) == [k \in Keys |-> IF k \in fresh THEN rows[k]
                                                            ELSE None]

\* validMap: what this batch found, with what earlier batches did.
Keep(fresh, old) == [k \in Keys |-> IF k \in fresh THEN rows[k] ELSE old[k]]

\* SELECT ... WHERE key IN (...): the rows that have expired by the time the
\* call began are set aside, the others kept for the answer.
Select(c) ==
  /\ pc[c] = "select"
  /\ \E batch \in Batches(todo[c], ReadBatch) :
       LET gone == {k \in batch : Dead(rows[k], now[c])}
           left == todo[c] \ batch
       IN  /\ found'   = [found EXCEPT ![c] = Keep(batch \ gone, @)]
           /\ expired' = [expired EXCEPT ![c] = gone]
           /\ todo'    = [todo EXCEPT ![c] = left]
           /\ pc'      = [pc EXCEPT ![c] = IF gone # {} THEN "purge"
                                           ELSE IF left # {} THEN "select"
                                           ELSE "done"]
  /\ UNCHANGED <<clock, rows, writes, data, result, cursor, yielded>>

\* The keys the clean-up DELETE hits, and a variant that lost its condition.
Purged_Unguarded(c) == expired[c]
Purged(c) == IF GuardedDelete
             THEN {k \in expired[c] : Dead(rows[k], now[c])}
             ELSE expired[c]

\* DELETE ... WHERE key IN (expiredKeys).
Purge(c) ==
  /\ pc[c] = "purge"
  /\ rows' = Without(Purged(c))
  /\ expired' = [expired EXCEPT ![c] = {}]
  /\ pc' = [pc EXCEPT ![c] = IF todo[c] # {} THEN "select" ELSE "done"]
  /\ UNCHANGED <<clock, writes, data, todo, found, result, cursor, yielded>>

\* INSERT ... ON CONFLICT DO UPDATE: one batch is one statement.
Upsert(c) ==
  /\ pc[c] = "upsert"
  /\ \E batch \in Batches(todo[c], WriteBatch) :
       /\ rows'   = [k \in Keys |-> IF k \in batch THEN row[c] ELSE rows[k]]
       /\ result' = [result EXCEPT ![c] = @ \cup batch]
       /\ todo'   = [todo EXCEPT ![c] = @ \ batch]
       /\ pc'     = [pc EXCEPT ![c] = IF todo[c] = batch THEN "done" ELSE @]
  /\ UNCHANGED <<clock, writes, data, found, expired, cursor, yielded>>

\* A variant of UpsertFails that answers true for the batch that failed.
UpsertFails_AllTrue(c) ==
  /\ QueriesFail
  /\ pc[c] = "upsert"
  /\ result' = [result EXCEPT ![c] = @ \cup todo[c]]
  /\ pc'     = [pc EXCEPT ![c] = "done"]
  /\ todo'   = [todo EXCEPT ![c] = {}]
  /\ UNCHANGED <<clock, rows, writes, data, found, expired, cursor, yielded>>

\* set() and setMany() catch the error; setMany() goes on with the next batch.
UpsertFails(c) ==
  /\ QueriesFail
  /\ pc[c] = "upsert"
  /\ \E batch \in Batches(todo[c], WriteBatch) :
       /\ todo' = [todo EXCEPT ![c] = @ \ batch]
       /\ pc'   = [pc EXCEPT ![c] = IF todo[c] = batch THEN "done" ELSE @]
       /\ \/ UNCHANGED rows
          \/ LostAnswers /\ rows' = [k \in Keys |-> IF k \in batch THEN row[c]
                                                                   ELSE rows[k]]
  /\ UNCHANGED <<clock, writes, data, found, expired, result, cursor, yielded>>

\* The keys a DELETE on request hits, and the ones it reports (RETURNING).
Hit(c, batch) == IF kind[c] = "clearExpired"
                 THEN {k \in batch : Lapsed(rows[k], now[c])}
                 ELSE {k \in batch : rows[k] # None}
Returned_All(c, batch) == batch
Returned(c, batch)     == Hit(c, batch)

RemoveSize(c) == IF kind[c] \in {"clear", "clearExpired"}
                 THEN Cardinality(Keys) ELSE DeleteBatch

Remove(c) ==
  /\ pc[c] = "remove"
  /\ \E batch \in Batches(todo[c], RemoveSize(c)) :
       /\ rows'   = Without(Hit(c, batch))
       /\ result' = [result EXCEPT ![c] = @ \cup Returned(c, batch)]
       /\ todo'   = [todo EXCEPT ![c] = @ \ batch]
       /\ pc'     = [pc EXCEPT ![c] = IF todo[c] = batch THEN "done" ELSE @]
  /\ UNCHANGED <<clock, writes, data, found, expired, cursor, yielded>>

\* Reads, deletes and clean-ups let the error through: the call rejects.  An
\* iterator only does so in mysql; the others emit the error and just end.
Fails(c) ==
  /\ QueriesFail
  /\ pc[c] \in {"select", "purge", "remove", "fetch"}
  /\ pc' = [pc EXCEPT ![c] = IF @ = "fetch" /\ ~GuardedDelete THEN "done"
                                                               ELSE "failed"]
  /\ expired' = [expired EXCEPT ![c] = {}]
  /\ UNCHANGED <<clock, rows, writes, data, todo, found, result, cursor, yielded>>

-----------------------------------------------------------------------------
(* iterator(): keyset pagination.  Its consumer asks for the next page when *)
(* it has used up the last.                                                 *)

Ask(c) ==
  /\ pc[c] = "ask"
  /\ now' = [now EXCEPT ![c] = clock]
  /\ pc'  = [pc EXCEPT ![c] = "fetch"]
  /\ UNCHANGED <<clock, rows, writes, kind, todo, row, found, expired, result,
                 cursor, yielded>>

\* A variant of After that counts rows: OFFSET in place of the key.
After_Offset(c) ==
  LET alive == {k \in Keys : rows[k] # None /\ ~Dead(rows[k], now[c])}
  IN  {k \in alive : Cardinality({j \in alive : j < k}) >= Cardinality(yielded[c])}

\* WHERE key > lastKey AND (expires IS NULL OR expires > now).
After(c) == {k \in Keys : k > cursor[c] /\ rows[k] # None
                           /\ ~Dead(rows[k], now[c])}

\* ORDER BY key LIMIT limit.
Page(c) == {k \in After(c) : Cardinality({j \in After(c) : j < k}) < Limit}

Fetch(c) ==
  /\ pc[c] = "fetch"
  /\ yielded' = [yielded EXCEPT ![c] = @ \cup Page(c)]
  /\ cursor'  = [cursor EXCEPT ![c] = IF Page(c) = {} THEN @ ELSE Max(Page(c))]
  /\ pc'      = [pc EXCEPT ![c] = IF Cardinality(Page(c)) < Limit THEN "done"
                                                                  ELSE "ask"]
  /\ UNCHANGED <<clock, rows, writes, data, todo, found, expired, result>>

Tick ==
  /\ clock < MaxTime
  /\ clock' = clock + 1
  /\ UNCHANGED <<rows, writes, pc, kind, todo, now, row, found, expired, result,
                 cursor, yielded>>

Init ==
  /\ clock   = 0
  /\ rows    = NoRows
  /\ writes  = 0
  /\ pc      = [c \in Clients |-> "idle"]
  /\ kind    = [c \in Clients |-> "get"]
  /\ todo    = [c \in Clients |-> {}]
  /\ now     = [c \in Clients |-> 0]
  /\ row     = [c \in Clients |-> Blank]
  /\ found   = [c \in Clients |-> NoRows]
  /\ expired = [c \in Clients |-> {}]
  /\ result  = [c \in Clients |-> {}]
  /\ cursor  = [c \in Clients |-> 0]
  /\ yielded = [c \in Clients |-> {}]

Answer(c) == \/ Select(c) \/ Purge(c) \/ Upsert(c) \/ Remove(c)
             \/ Ask(c) \/ Fetch(c)
Step(c)   == Begin(c) \/ Answer(c) \/ UpsertFails(c) \/ Fails(c)

Next == Tick \/ \E c \in Clients : Step(c)

Spec == Init /\ [][Next]_vars
=============================================================================
