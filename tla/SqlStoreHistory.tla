--------------------------- MODULE SqlStoreHistory --------------------------
(***************************************************************************)
(* SqlStore with history variables, and its properties.                    *)
(***************************************************************************)
EXTENDS SqlStore

VARIABLES
  asked,    \* the keys each call was made for
  gone,     \* the keys without a live row at some moment of the call, up to
            \* the statement that covers them
  stored,   \* every pair <<key, value>> that was ever put into the table
  answered, \* how many deletes of each key have answered true
  twice     \* the keys each iterator has yielded more than once

hvars == <<clock, rows, writes, pc, kind, todo, now, row, found, expired,
           result, cursor, yielded, asked, gone, stored, answered,
           twice>>

DeadKeys == {k \in Keys : ~Live(k)}
Begins(c) == /\ pc[c] \in {"idle", "done", "failed"}
             /\ pc'[c] \notin {"idle", "done", "failed"}
\* The keys the call has yet to look at.
Pending(c) == IF pc[c] \in {"ask", "fetch"} THEN Keys
              ELSE IF pc[c] = "select" THEN todo[c] ELSE {}
NewlyTrue(c) == IF kind[c] \in {"delete", "deleteMany"} /\ ~Begins(c)
                THEN result'[c] \ result[c] ELSE {}
Delivered(c) == IF pc[c] = "fetch" /\ pc'[c] \in {"ask", "done"} THEN Page(c)
                ELSE {}

Observe ==
  /\ asked' = [c \in Clients |-> IF Begins(c) THEN todo'[c] ELSE asked[c]]
  /\ gone'  = [c \in Clients |-> IF Begins(c) THEN DeadKeys
                                 ELSE gone[c] \cup (Pending(c) \cap DeadKeys')]
  /\ stored' = stored \cup {<<k, rows'[k].val>> : k \in {key \in Keys :
                                                          rows'[key] # None}}
  /\ answered' = [k \in Keys |-> answered[k]
                    + Cardinality({c \in Clients : k \in NewlyTrue(c)})]
  /\ twice' = [c \in Clients |-> IF Begins(c) THEN {}
                                  ELSE twice[c] \cup (Delivered(c) \cap yielded[c])]

HInit ==
  /\ Init
  /\ asked    = [c \in Clients |-> {}]
  /\ gone     = [c \in Clients |-> {}]
  /\ stored   = {}
  /\ answered = [k \in Keys |-> 0]
  /\ twice    = [c \in Clients |-> {}]

HNext == Next /\ Observe

HSpec == HInit /\ [][HNext]_hvars

-----------------------------------------------------------------------------

\* Only delete, deleteMany and clear take a live row away.  The clean-up of a
\* read and clearExpired() remove rows "that were already expired at the time
\* of a preceding read" (storage/mysql/src/index.ts:1091), never the row
\* somebody stored under the key meanwhile.
LiveRowsKept ==
  [][\A k \in Keys : Live(k) /\ rows'[k] = None
       => \E c \in Clients : /\ pc[c] = "remove" /\ kind[c] # "clearExpired"
                             /\ k \in todo[c] /\ k \notin todo'[c]]_hvars

\* get, getMany, has and hasMany report a key missing only if there was a
\* moment of the call without a live row for it, however the keys were split
\* into batches and whatever the other callers did between two of them.
MissesJustified ==
  \A c \in Clients : pc[c] = "done" /\ kind[c] \in ReadKinds
    => \A k \in asked[c] : found[c][k] = None => k \in gone[c]

\* set and setMany answer true exactly for the rows they stored
\* (storage/sqlite/src/index.ts:551: "Entries in a failed batch are `false`");
\* a lost answer may only turn a stored row into a false.
WritesTruthful ==
  \A c \in Clients : pc[c] = "done" /\ kind[c] \in WriteKinds
    => \A k \in asked[c] :
         /\ k \in result[c] => <<k, row[c].val>> \in stored
         /\ <<k, row[c].val>> \in stored => k \in result[c] \/ LostAnswers

\* Of all the deletes of a key no more answer true than rows were ever stored
\* under it: two callers never both take credit for the same row.
DeletesConserved ==
  \A k \in Keys : answered[k] <= Cardinality({p \in stored : p[1] = k})

\* An iterator that ran to its end yielded every key whose row was live from
\* start to end, and no key twice, whatever was inserted, deleted or expired
\* between its pages (storage/sqlite/src/index.ts:720-721: "safely handles
\* concurrent modifications during iteration without skipping entries").  No
\* key twice also means that it ends, however busy the writers are.
IteratorComplete ==
  \A c \in Clients : kind[c] = "iterator" =>
    /\ pc[c] = "done" => Keys \ gone[c] \subseteq yielded[c]
    /\ twice[c] = {}
=============================================================================
